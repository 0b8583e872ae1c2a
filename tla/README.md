# awm in TLA+

awm is a tiling Wayland compositor in C++ on wlroots. This directory models what
decides which window is where and who has the keyboard: layout transactions, the
tiling tree, a workspace with its windows, the outputs with their workspaces, the
session lock with keyboard focus, the IPC server with its clients, and the
configuration file. The modules are translated from the source; the model
checker TLC checks them on small instances, and the proof system TLAPS proves
every safety property and every property of steps that TLC checks, and the
refinement, for any number of windows, outputs, clients or files.

Contents: [the system](#the-system), [modules](#modules),
[runs](#runs-and-what-they-show), [proofs](#proofs),
[disagreements](#where-the-code-and-its-words-disagree),
[not modelled](#what-is-not-modelled), [plan](#plan).

## The system

awm has one thread and one `wl_event_loop`. Every event (a request of a client, a
surface commit, a key, an expired timer, an idle callback, a connection) is a handler
that runs to its end, so nothing interleaves inside a handler and everything
interleaves between two. What makes the program hard is that state is spread over
handlers: a client answers a configure when it likes or not at all, a layout waits
for several of them or for a timer, an idle callback runs after handlers nobody had
in mind, outputs take their workspaces with them and bring them back, objects are
freed while others keep pointers to them, and most questions ("is this window
maximized?") are answered from what the client last acknowledged. Outside the
thread there are the file an editor saves between two steps of a reload, and the
processes that run `awmsg`, for which the thread waits.

| component | state | operations | who calls it | what is hard | what makes it correct |
|---|---|---|---|---|---|
| Layout transactions (`Transaction.cpp`) | current transaction; per transaction the recorded boxes, the toplevels awaited, committed, a timer | begin, add_change, commit, handle_commit, remove_toplevel, timeout, apply | tree layout, tile, swap, move; surface commit, unmap, destroy | late and missing answers, two transactions alive, members that go | a layout takes effect as a whole; every transaction ends; none holds a freed window |
| Tiling tree (`BSPTree.cpp`) | nodes with split, ratio, toplevel, box | insert, insert_at, insert_at_dwindle, remove, rebuild (3 ways), apply_layout, interactive resize | workspace, toplevel, cursor, server | ownership in a tree of `unique_ptr`, three shapes, drags beyond an edge | windows partition the usable area; others keep their order and place |
| Toplevel (`Toplevel.cpp`) | geometry, saved geometry, hidden, fullscreen, maximized (acknowledged), in_transaction, pinned | map, unmap, destroy, commit, set_position_size, set_maximized, set_fullscreen, focus | clients, binds, workspace | states that overlap, answers that come late | leaving a state restores the one before; a hidden window is shown |
| Workspace (`Workspace.cpp`) | list of windows, active window, tree, auto_tile, pending idle layout | add_toplevel, close, move_to, swap, focus, tile, toggle_auto_tile, fullscreen | toplevel, binds, rules, outputs | membership kept in three places, an idle layout that others cancel | list, active window and tree agree; a changed tree is laid out |
| Workspace manager (`WorkspaceManager.cpp`) | the list of workspaces, orphans by output name | new_workspace, set_workspace, orphanize, adopt | outputs, binds, activation | unplug and replug between any two handlers, pinned windows, visibility kept per window | no workspace or window is lost; what is not shown is hidden |
| Outputs (`Output.cpp`, `OutputManager.cpp`, `TearingController.cpp`) | usable area, layer surfaces, lock surface | arrange_layers, apply_config, destroy | wlroots, config timer | hotplug, configuration by name | usable area respected; workspaces follow the output |
| Cursor (`Cursor.cpp`) | grab mode, grabbed toplevel, swap target, configured pointers | button, motion, process_move, process_resize, reset_mode, set_config | input, config timer | a grab outlives what was grabbed | a grab ends when its window goes |
| Server, binds (`Server.cpp`, `main.cpp`) | focused output, lock, inhibitor, globals | handle_bind, activation, session lock, config timer, exit | keyboard, mouse, IPC | one bind touches several components | a bind on nothing does nothing |
| Session lock (`SessionLock.cpp`) | current lock, lock surfaces, background | lock, new_surface, unlock, destroy | lock clients | a client that dies, a second one that asks | locked until its holder unlocks; covered meanwhile |
| Seat and keyboard (`Seat.cpp`, `Keyboard.cpp`) | keyboards, pointers, the seat's keyboard, keyboard focus | new_input, key, update_config, destroy | wlroots, config timer | focus is moved from everywhere | only the lock surface has input while locked |
| Layer surfaces and popups | mapped, layer, exclusive focus | map, unmap, commit, handle_focus | clients | competition for keyboard focus | focus goes where the code says, lock or not |
| IPC (`IPC.cpp`, `awmsg/main.cpp`) | connections, subscriptions by descriptor, a mutex | accept, read, parse_command, handle_command, notify_clients | awmsg, every component that changes | a client that is slow or gone, descriptors used again, notifying from inside a command | every subscriber is told; only a client that stays and does nothing holds the loop; nothing is leaked |
| Configuration (`Config.cpp`, `Toml.cpp`) | path, time of last write, the settings | load, update, the getters | main, a timer | an editor between any two steps, devices that come and go | the settings in force are the file's |
| Input methods | relay, text inputs | enter, leave, commit | nothing: `InputRelay` is never instantiated | none runs | |
| Window rules (`WindowRule.cpp`) | the rules | matches, apply | map | a rule undoes what mapping did | the window ends in the state the rule names |
| Decorations, activation tokens, idle inhibitors | records | draw, count | | | |

How they interact: a workspace changes its tree and calls `apply_layout`, which
computes boxes and hands them to the transaction manager; the transaction configures
each toplevel and waits; a toplevel's commit handler tells the current transaction;
the transaction applies the boxes through `Toplevel::set_position_size`, which
itself records into a transaction if another one is current by then. A toplevel that
unmaps or is destroyed takes itself out of the current transaction, ends the grab on
it, and then leaves its workspace, which changes the tree, moves the focus and
leaves an idle callback that will start the next transaction. An output that goes
makes its workspaces orphans, one that comes adopts them; switching shows one
workspace and hides another and takes the pinned windows along. Each of these
notifies the IPC clients that have subscribed. A timer reads the configuration
again and hands it to the input devices.

## Modules

| module | models | lines of code it stands for |
|---|---|---|
| `Transaction` | `Transaction`, `TransactionManager`, and the handlers that drive them | `Transaction.cpp`, part of `Toplevel.cpp`, `Cursor.cpp` |
| `BSPTree` | the tree and the calls a workspace makes | `BSPTree.cpp` |
| `TilingOrder` | what the tree promises: a list of windows in order | |
| `Workspace` | one workspace, its windows' states and the binds on them | `Workspace.cpp`, part of `Toplevel.cpp`, `Server.cpp`, `WindowRule.cpp` |
| `Desktop` | outputs, their workspaces, the windows on them, what is shown | `WorkspaceManager.cpp`, part of `Output.cpp`, `OutputManager.cpp`, `Workspace.cpp`, `Cursor.cpp`, `Server.cpp` |
| `Focus` | the session lock and who has the keyboard | `SessionLock.cpp`, part of `Server.cpp`, `Cursor.cpp`, `Keyboard.cpp`, `LayerSurface.cpp`, `Toplevel.cpp` |
| `IPC` | the IPC server and its clients | `IPC.cpp`, `awmsg/main.cpp` |
| `Config` | finding, loading and reloading the configuration | `Config.cpp`, `Toml.cpp`, part of `Server.cpp`, `Keyboard.cpp`, `Seat.cpp`, `Cursor.cpp`, `main.cpp` |
| `Lists` | taking elements from a list, for `BSPTree`, `TilingOrder` and `Desktop` | |
| `TransactionProofs`, `BSPTreeProofs`, `WorkspaceProofs`, `DesktopProofs`, `FocusProofs`, `IPCProofs`, `ConfigProofs` | the proofs about the module of that name | |
| `ListProofs` | induction over the naturals, and what `Lists` and the sequence operators compute | |
| `MCTransaction`, `MCBSPTree`, `MCWorkspace`, `MCDesktop`, `MCFocus`, `MCIPC`, `MCConfig` | constants, symmetry and views for TLC | |

In `Transaction`, `Workspace` and `Desktop` a handler makes several calls one after
the other. Each call is an operator from the world before it to the world after it
(`AddChange(w, ...)`, `Remove(w, tl)`, `MoveTo(d, ...)`), and an action composes the
operators in the order of the code. The world is a record only so that it can be
passed along.

The same handler appears in several modules, each with the part of it that the
module is about: `Toplevel::map_notify` gives a window its hidden state in
`Transaction`, its place in the list and the tree in `Workspace`, its workspace among
several in `Desktop`, and the keyboard in `Focus`.

### Transaction

`txns` is the heap of `Transaction` objects; `active` is
`TransactionManager::active_transaction`; `tops` are the toplevels with what
transactions touch (`in_transaction`, geometry, the last configure, hidden for
auto tile, whether a workspace is found for it). `pending_changes` is a function
(`entries`), and an entry set to `nullptr` is a hole. `waiting` is
`waiting_toplevels`. `before` orders the timers, which have the same period, by when
they were armed: an event loop fires the oldest first. `late` and `overlapped` are
history variables, read by properties only.

An action is an event: a layout from any of its callers (begin, add_change for each
window, commit), a move or resize outside a layout, a surface commit, a map with what
`add_toplevel` makes of the window, an unmap with the grab and the workspace's close
it entails, destroy, unplug and adoption of the output, and the timeout. `begin()`
commits a current transaction that was not committed, and replaces one that still
waits: that one is *detached*, it lives on known only to its timer. Deleting a
transaction makes its cell free again, so `TxnId` bounds the transactions alive at once
(a layout is not begun when no cell is free) and not how many there are.

Geometry has two kinds of writers. `set_position_size` (`SetPosition`) joins the current
transaction when there is one. Others write whatever is current: an interactive move
or resize (`MoveByHand`, `DragOver`, `ResizeTree`), where `process_move` moves the node
and `get_geometry` stores what the client has; and the commit listener of an X11
window (`XSurfaceCommit`), which adopts the client's size out of a transaction, be it
one that this very commit has ended. X11 windows (`XWayland`) also have no commit
listener while they are not mapped, and are positioned then only by a transaction.
Boxes are opaque, so writing a part of one is writing another.

A map is one of three: `add_toplevel` tiles the window (`MapTiled`), or centers a floating
one or a rule moves it (`MapFloating`), or neither (`MapOnly`): a window that was
hidden for auto tile and is maximized, fullscreen or at most 1x1 then stays hidden.

What a transaction waits for is not always heard. Only the current one is told of
commits and departures, so a detached one waits for the same windows until its timer,
and one all of whose boxes have no size waits for nobody from the start and ends at the
first commit or departure of a member, or its timer. `LastAnswerEnds` says so.

### BSPTree and TilingOrder

The tree is a function from positions to nodes, a position being the path from the
root. Parent pointers are prefixes, a subtree is what lies below a position, and giving
a node another subtree is cutting the positions below it and grafting others there.
Where the code recurses over the tree a recursive function over its positions stands
(`Order`, `InsertionPoint`, `ApplyLayout`); where it recurses over a list of windows, one
over the indices of the list (`Rebuild`, `RebuildDwindle`), and the grid's two
recursions, over rows and over the cells of a row, are one over cells. `remove` of the root's second child
reads a node after freeing it in one shape; the result is what was there or null
(`Removed` has two results), and `freed` records that it happened, after which the
properties promise nothing. A ratio is an exact fraction; the code's is a
float, and both truncate the product, so a box of the model may differ by a pixel.
The clamp to [0.1, 0.9] is the code's `adjust_ratio`, which only a drag goes through:
`rebuild_grid` gives the upper rows the share of the windows they have, which goes
beyond the clamp when the last row is nearly empty (10/11 in a grid of 91), so what
holds of every tree is that a ratio lies strictly between 0 and 1 (`Full`).

`TilingOrder` is the abstract specification: a sequence of windows. One enters it at
some place (`Place`), at the end under dwindle, where the windows that are covered leave
in the same step (`PlaceLast`), and leaves it (`Take`), and none of this
disturbs the order of the others; a swap exchanges two (`Exchange`); only a grid, or a workspace that
starts to tile, may take any order (`Arrange`). `BSPTree` implements it under the
refinement mapping `order <- Order(tree)` (property `KeepsOrder`).

`BSPTree` starts from callers that never insert a window that has a leaf. That
the callers are so is `OneLeaf` of `Workspace`, and it fails for a window that
has floated (see below), so what `BSPTree` shows is for workspaces without such.

### Workspace

One workspace under `bsp`, `dwindle` or `grid`. Each window has what decides
where it is: listed here, floating, maximized as acknowledged (`current`) and as last asked
(`asked`), fullscreen, and how many leaves of the tree hold it. The shape of the
tree is left to `BSPTree`, the transaction to `Transaction`: here it is `busy`, whether
one is current, which is what `set_position_size` tests and which other
workspaces change at any time (`Transact`). `fresh` says that a window's leaf has
never been laid out and has the box 0x0.

The actions are mapping with and without a rule, moving in and out, unmapping, the close
bind, focus, maximize and fullscreen from a bind or the client, the client's
acknowledgement, positioning, toggling floating, swap, the tile binds, toggling
auto tile, the idle callback, and a change of the usable area.

Choices made freely: which window `get_topmost_toplevel` and `focus_next` find,
which leaf is split by an insertion, whether a new window has a size yet. `Covers` stands
for the geometry test of `in_direction`: a window is not found from one that lies
over it at the same place. A window that has gone
may come back, except one that left a leaf behind: that leaf holds a deleted
object, and what follows is undefined (`Outside`).

The method does not change: `Config` has reloading, `Workspace` a method for life;
nor are the methods `master` and `none` modelled, which keep no tree.

### Desktop

`desk` is the manager's list of workspaces, the output and the windows of each, its
active window, and the windows that are hidden. The first workspace of an output in the
list is the one it shows, so `set_workspace` is a move to the front. `orphaned` is
`orphaned_outputs_map`: an output that is unplugged leaves its workspaces there
under its name with the number of the one it showed, and one of that name that
comes adopts them (`Plug`, `Unplug`). The order inside `set_workspace` is kept,
because `move_to` hides a window that leaves a workspace of the focused output and
`Workspace::focus` shows what is on the new one.

The handlers are the binds that open a workspace, send a window to one and pin it,
mapping with and without a rule, unmapping with what `Workspace::close` may leave
active, activation, and the interactive move from its begin over the outputs it
crosses to its end. `focused_output` is nobody's while the cursor is on no output,
and every handler that tests it does so here.

Whether a window is drawn is two things. `desk.hidden` has the windows whose node, the one
`set_hidden` switches, is not enabled; `waiting` is `scene_hidden_for_autotile`. A
window mapped on a workspace that tiles is disabled until its first layout (`Map` with
`hide`), and the layout enables it (`Reveal`): an xdg window by the node that
`set_hidden` switches too, and without asking whether it is hidden by now; an X11 window by
the tree its node is in, so that both must be enabled (`Visible`). The layout itself
is `Transaction`'s: here it comes at any time, as a transaction ends.

A window that closes while its output is away leaves the orphan's active window
dangling (`lost`). Adopting that workspace reads freed memory: `Plug` is left out
there, so the system may stop.

### Focus

`kbd` is the surface that has the keyboard, a window, a layer surface, a lock surface
or none. Every handler that moves it is an action: mapping and unmapping windows
and layer surfaces, hover and click, key and mouse binds, activation, and the lock's.
`locked`, `background` and `lock` are the server's; `asking` is what became of each
client's lock object (held, refused, unlocked). `known` is `Output::lock_surface`.
wlroots is taken at its word: it clears the focus of a surface it destroys and
destroys the surfaces of a lock before the lock. An output that is unplugged under a
lock surface is left out, as the code frees it with a listener still linked.

### IPC

The thread is in one of seven places (`server.at`). While it reads from a client or
writes to one nothing else happens, so `Accept`, `Parse`, `Lock`, `Send`, `Unlock` and
`Answer` are steps between which only the clients move: connect, write, read, give
up, die. A read that fails closes the connection (`ReadFails`); an accept that fails, for
want of a descriptor, leaves it in the queue. A command may change something and then runs `notify_clients` from inside
`handle_command`, and goes on to its answer afterwards; anything else that changes in
the compositor notifies from the loop (`Event`). `Capacity` is what a socket holds
before `send` blocks, and the `write` of the answer. A first answer always finds room
(the proofs show the socket empty, `Quiet`); one larger than the socket's buffer, which
would wait for the client too, is not modelled. A descriptor that is closed is the next that `accept` returns,
the lowest free one. `Killed` is the SIGPIPE of the `write` to a client that has gone.

### Config

The compositor's steps are those between which an editor can act: looking whether
the file exists, reading its time, reading its contents. A text is a function
from the names the file holds to values; what a load resets, keeps or defaults is
by name. Keyboards and pointers that come and go have the settings they were
given (`keymap`, `applied`). Three ends are states: the file vanishes between
`exists()` and `last_write_time()` (`threw`), a reload without a keyboard on
the seat or with a pointer that has been unplugged follows a freed pointer
(`undefined`), and `-c` names no file (`exited`).

An editor never gives a file the time it has or the one seen last: two saves within
one tick of the file system's clock look the same to the code. Without a file, and where `[binds]` has no exit
bind, the code adds Alt+Escape (Config.cpp:115, 466); a file without a `[binds]`
table has no way to exit.

## Runs and what they show

Passing runs:

| run | instance | checks |
|---|---|---|
| `transaction` | 2 windows, one of them X11, 2 cells, 2 boxes (one without size); 89153 states | types; every transaction is committed, has an entry and an armed timer; a window marked `in_transaction` is in a live transaction; a freed window is in none but as a late or overlapped member; a layout takes effect for all members that can be moved, in one step, and while one waits only hands, the resize of a tree and an X11 window's own commit move anything; the current transaction ends with the last answer or departure awaited, or at its timer |
| `transaction_live` | 1 window, 3 cells, weak fairness | every transaction ends; a hidden window that a layout has taken in is shown while it stays mapped and homed |
| `bsp_tree` | 4 windows, 7x6 area, 3 cursor places, 2 edge sets | shape; containers have two children and a ratio between 0 and 1, leaves one window each; the windows partition the area; who gives and gets room; refinement of `TilingOrder` |
| `workspace` | 2 windows, 3 methods | types; at most one leaf, none after leaving; the active window is listed; a changed tree is laid out or its layout is owed |
| `desktop` | 2 outputs of 2 workspaces, 2 windows, one of them X11; 160993 states | types and the grab; an output has all its workspaces whatever is plugged in which order; a window is on one workspace, once; the active window is listed; nothing of a workspace that is not shown comes to be drawn but by a late first layout; what comes to be shown is visible, or an X11 window that waits for its layout; an output shows what it showed when it went |
| `focus` | 2 outputs, 3 windows, a layer surface, 2 lock clients | types; one lock, covered while it is held and after its client died; lock surfaces and inhibitor do not dangle; only the holder unlocks; unlocking restores the focus; a lock surface keeps the keyboard but for two cases |
| `ipc` | 2 clients, 2 descriptors, 6 requests, weak fairness of the thread; 228960 states | types and bounds; the mutex is not waited for by its holder; a subscription is its client's; nothing is leaked but what is not understood; every subscriber is told; the loop comes back unless it waits for a client that stays and neither writes nor reads |
| `config` | 3 texts, 3 times, 2 keyboards, a pointer, weak fairness | types; at rest the settings and the devices are as the file says; a file that is left alone is picked up |

Violation runs, each of one property quoted from the repository and listed under
findings in `PROJECT.json`: `transaction_freed`, `bsp_remove`, `workspace_add`,
`workspace_swap` ([below](#where-the-code-and-its-words-disagree)). Three more
configurations show disagreements of the same kind and are kept to be run by
hand: `MCTransactionOrder.cfg`, `MCTransactionConfigured.cfg` and `MCDesktopLate.cfg`.

### Why the bounds are enough

- Two transactions are what it takes for one to be detached while another is
  current. Two windows give members that answer, members that do not, and one
  that goes while the other is awaited; one is an X11 window, the other not. A box with and one without a size are all that
  `commit` and `set_position_size` tell apart, and which of several real boxes is
  given matters only to the violation runs that have a third.
- Liveness of transactions is checked with one window because TLC cannot use symmetry
  there; three cells let a third transaction begin behind two that wait.
- Four windows under all three methods reach a container as either child of
  the root, the shape of the freed read, a grid of two rows with a row that is
  clamped, and the spiral of depth three. The area is odd so that halves differ, begins
  below a panel so that offsets matter, and small so that a drag makes the sizes
  truncate.
- Two windows on a workspace give every pair of states for the window an
  operation is about and for the one it meets. The violation runs use three.
- Two outputs give one to unplug and one to go on with, and orphans of one while the
  other takes its windows; two workspaces give one shown and one not (the code has
  ten); two windows one pinned and one not, one dragged and one active, one X11 and one
  not.
- Three windows in `Focus` put two on one workspace and one on the other output; two
  lock clients are the second that is refused and the one that follows a
  client that died; two outputs let one have the lock surface and the other the cursor.
- Two clients over two descriptors reach a descriptor that is used again, a subscriber
  that is dropped before one that must still be told, and a command from a
  subscriber's neighbour. `Capacity` 1 makes every second notification block.
- Three times of last write are the one a file has, the one that was seen and
  another, and the texts have a table of each kind present, absent and of the
  wrong type.

Symmetry under permutations of windows, outputs, clients and transaction cells is sound:
no action or property of those runs names one (windows of `transaction` and `desktop` are not
permuted, as one is an X11 window). It is not used with liveness. Views drop
what no action reads: `Distinct` the last configure (only
`AppliedWasConfigured`, in a configuration without the view, is about it) and the
geometry of a window that is on no workspace, of which no property speaks and to which a
grab may then give any value, and of a transaction the history that no property can
read any more and the hole that another entry makes irrelevant, `WithoutBoxes` whether a window's box has a size (only `Sized`), `Shape` the
node geometries, which every reader recomputes first.

Deadlock is not checked where the system really stops: `desktop` when an orphan whose
active window is gone is about to be adopted, `ipc` when the server has exited and the
clients are off, `config` when the compositor has ended.

### Fairness

`Transaction.FairSpec` assumes weak fairness of the timeout of each transaction:
libwayland's event loop dispatches timers that have expired, so a timer that stays
armed fires. Nothing is assumed of clients (they need never answer), of the user or
of outputs. A timer fires after those armed before it, which is what equal periods
give.

`IPC.FairSpec` assumes weak fairness of the thread's own steps once it is in a handler
(it runs when it can), and nothing of the clients: any program may connect, and `awmsg`
itself may be stopped or blocked on its own output. So the loop need not come back: a
client that connects and never writes, or subscribes and never reads, stops the
compositor as long as it stays, as the sockets block. `OnlyALiveClientStalls` says that
this is the only way: either the loop always comes back, or from some point on it waits
for one such client.

`Config.FairSpec` assumes weak fairness of the compositor's next step: the timer sets
itself again and the loop serves it. The editor and the devices may stop for good.

## Proofs

Each module of proofs extends the module it is about and assumes what that module
assumes of its constants, nothing else. The layout is the same everywhere: an
inductive invariant, a lemma for each operator or action, a lemma for `Next`, and
the theorems.

| theorem | says |
|---|---|
| `TransactionProofs!TypeCorrect` | `Spec => []TypeOK` |
| `TransactionProofs!NoTransactionLeaks` | `Spec => []EveryTransactionPending` |
| `TransactionProofs!MarkedAreCovered` | `Spec => []InTransactionCovered` |
| `TransactionProofs!FreedLeaves` | `Spec => []FreedHasLeft` |
| `TransactionProofs!LastAnswerEndsIt` | `Spec => LastAnswerEnds` |
| `TransactionProofs!LayoutIsAtomic` | `Spec => AtomicLayout` |
| `BSPTreeProofs!TreeInvariant` | `Spec => []IInv` (the shape of the tree) |
| `BSPTreeProofs!TreeTypeOK` | `Spec => []TypeOK` |
| `BSPTreeProofs!EveryNodeIsFull` | `Spec => []Full` |
| `BSPTreeProofs!WindowsPartition` | `Spec => []Partition` |
| `BSPTreeProofs!WindowsShareRoom` | `Spec => RoomIsShared` |
| `BSPTreeProofs!TreeKeepsOrder` | `Spec => KeepsOrder`, the refinement of `TilingOrder` |
| `WorkspaceProofs!AtMostOneLeaf` | `Spec => []OneLeaf` |
| `WorkspaceProofs!WorkspaceTypes` | `Spec => []TypeOK` |
| `WorkspaceProofs!LayoutFollows` | `Spec => LayoutIsOwed` |
| `WorkspaceProofs!ActiveStays` | `Spec => ActiveIsListed` |
| `DesktopProofs!DesktopTypeOK` | `Spec => []TypeOK` |
| `DesktopProofs!OutputsKeepWorkspaces` | `Spec => []WorkspacesKept` |
| `DesktopProofs!WindowsOnOneWorkspace` | `Spec => []OnOneWorkspace` |
| `DesktopProofs!ActiveWindowIsListed` | `Spec => []ActiveIsListed` |
| `DesktopProofs!HiddenUnlessShown` | `Spec => OnlyShownIsVisible` |
| `DesktopProofs!SwitchingShowsAll` | `Spec => SwitchingShows` |
| `DesktopProofs!AdoptionShowsTheSame` | `Spec => ComesBackAsItWas` |
| `FocusProofs!FocusTypes` | `Spec => []TypeOK` |
| `FocusProofs!LockIsSingle` | `Spec => []OneLock` |
| `FocusProofs!NoDanglingSurface` | `Spec => []SurfacesAreKnown` |
| `FocusProofs!NoDanglingInhibitor` | `Spec => []InhibitorLives` |
| `FocusProofs!UnlockedByHolder` | `Spec => OnlyHolderUnlocks` |
| `FocusProofs!UnlockGivesBack` | `Spec => UnlockRestores` |
| `FocusProofs!LockSurfaceKeepsKeyboard` | `Spec => LockKeepsKeyboard` |
| `IPCProofs!TypeCorrect` | `Spec => []TypeOK` |
| `IPCProofs!NeverStuck` | `Spec => []NoSelfDeadlock` |
| `IPCProofs!SubscriptionsAskedFor` | `Spec => []SubscriberAsked` |
| `IPCProofs!NoConnectionLeaks` | `Spec => []NothingLeaks` |
| `IPCProofs!EverySubscriberTold` | `Spec => []NobodySkipped` |
| `ConfigProofs!ConfigTypes` | `Spec => []TypeOK` |
| `ConfigProofs!FileIsFollowed` | `Spec => []FollowsFile` |

**Transaction**, for any sets of windows, cells and boxes such that boxes
without size exist and `None` is no box and no cell. None of the three invariants is
inductive alone, and none holds inside a handler: between `begin()` and `commit()` the
new transaction is uncommitted and has no timer, and while a toplevel leaves its
transaction its mark is ahead of its entry. The invariant is `Sound(w, S)`: the
world has its type and a free cell holds nothing (`Typed`), every transaction is
committed, has an entry and a timer, and the current one is alive (`PendingBut(w, T)`,
for all but the transactions of `T`, those being built), and a marked toplevel is
a member of a live transaction (`CoveredBut(w, S)`, for all but the toplevels of `S`,
those being removed). Between handlers it is `Sound(W, {})`. There is a lemma for
each operator that takes a world to a world: it preserves `Sound`, or takes the
exception away. An action is then the composition of its lemmas.

What a step does to the windows builds on `Sound`. A second invariant, `Loyal`, says that a current
transaction that has always been alone is the only one alive, that its members are
marked, all but the late ones, and that a freed window has no mark: it is
inductive, and gives `FreedHasLeft`, since `remove_toplevel` finds the entry by the
mark and the current transaction. For the two action properties an operator is
either `Quiet` (it ends and answers nothing, and moves only the toplevels it names) or
`Ending` (it ends at most one transaction, and gives its members their boxes), and a
handler is an ending followed by quiet parts. What it has then done is `Done(A, M)`: it has
kept `Loyal`, it has ended no transaction but the current one, and that only if it
waited for nobody but one window of `A`, those that answered or left (`Early`), and with
the windows of `M` aside, those it moves by hand, it has given the members of what
ended their boxes or else moved nothing (`Whole`). There is a lemma of this form for every
action but the timeout, which ends whichever transaction it is, and `NextDone` puts them together.

**Workspace**, for any set of windows and each of the three methods. `OneLeaf` is not
inductive because a window that floats may have a leaf (maximize and restore give it
one), and gets a second when it is tiled. The invariant `Good` says of every window
that a floating one has floated and has at most one leaf, so that un-floating makes
two at most; that one that has never floated has one at most, and none once out of
the list; that a window without a leaf has no uncomputed node; and that a window
that has gone is blank. With it goes that there is no leaf without auto tile,
which a window rule's temporary clearing of `auto_tile` breaks inside a handler: so
`Kept` (every window good) is what calls preserve and `Fine` (and no leaf without a
tree) what handlers do. `Lays(w1, w2)` is what any call may do, `Marks(w1, w2)` one that
leaves the tree alone; both are transitive, and a handler is again a composition. The rest of the module
does the same for what those relations do not follow. `Still(w1, w2)` leaves the tree as it
was or lays it out, and `Pays(w1, w2)` leaves no layout owed that was not: each path
through a handler that digs in the tree ends in `apply_layout` or in a scheduled idle
callback. What the induction needs besides is that nothing is owed without a tree (`Clean`),
because the idle callback drops the layout there. `Roster` and `Settles` follow the list
and the active toplevel.

**Tiling tree**, for any finite set of windows, any usable area, any places of the cursor, and a tree of
any depth. Nothing bounds a tree but that it is finite, so everything is by induction
over positions: from the leaves up (`TreeInduction`), from the root down
(`RootInduction`), or over the list that is rebuilt. Each recursion of the model is first
shown to have a solution, after which only its equation is used. The invariant is
`Shape`: every node but the root is a child of a container (`Rooted`), a container has
a first child (`Based`), paths are bounded (`Bounded`), no window is in two leaves
(`Distinct`), ratios lie strictly between 0 and 1 (`GoodNode`); and, until a freed
subtree was read, `Whole`: no second child is missing and no leaf empty. `Whole` is
what `Full` says; `Shape` has to be said apart because it is all that is left after the freed read and
because splitting a leaf below a position says nothing of the others unless
positions hang together. The lemmas are by surgery and not by caller: a leaf that is split, two trees under
a new root, a subtree put in place of its parent, another tree grafted below a position, windows
renamed; `insert`, `insert_at_dwindle`, the rebuilds and `remove` are made of these.

- `Partition`: a point in the box of a container is in the box of one child and not of
  the other, since the cut is inside the box (`Share`, `PartIs`), so the nodes that have
  the point form one branch (`Covers`) which ends at one leaf (`CoveredOnce`).
- `KeepsOrder`: what is read at a position is the concatenation of what is read at its
  children. Two trees that differ only below `p` are read alike before and after `p`
  (`ReadsAround`), so a surgery below `p` changes the list where `p` was read and
  nowhere else (`SplitOrder`, `GraftOrder`, `JoinOrder`, `RenamedOrder`, `DwindleOrder`), and
  each action is a step of `TilingOrder` or a stutter (`StepTiles`).
- `RoomIsShared`: a box that is at least as wide and high is cut into parts that are
  (`ShareGrows`: truncation is monotone), so what lies below the place a window left grows
  or stays (`BoxesWithin`), and what lies elsewhere keeps its box (`BoxesAround`).

**Desktop**, for any outputs, windows and number of workspaces. What is checked speaks of outputs that
are plugged in, which is not inductive: an output that comes back brings
workspaces of which nothing was said. The invariant `Good` therefore speaks of
all workspaces. The list has those of the plugged outputs, each once
(`Listing`); windows are on one workspace, once (`Apart`); the orphans of a name are all its
workspaces and only an output that is away has any (`OrphansKept`); an active
window is on its workspace unless it closed while the output was away (`AllFine`; the
workspaces of plugged outputs are not excepted, since `Plug` leaves out adopting one
whose active window is gone); and every workspace is
covered but the one its output shows, *or will show when it comes back*
(`ShownBy`), with the windows of a set `X` excepted. The last is the heart: `adopt` moves each orphan to the head of the list in
turn, so each is the one shown for a moment, and what makes it right is that
`adopt_workspaces` then shows the one of the saved number, which must be among them, and that all others were hidden when they went. `Moves(d, e, from, to)`
says what moving windows from one workspace to another leaves alone; it is shown
for `move_to`, then by induction for the pinned windows that follow, then
for `set_workspace` (`Switched`), and the handlers are compositions. The invariant of the
system has the xdg windows for `X`, since a late layout may draw any of them. But every step
that is not such a layout keeps `Good` for whatever `X` it had, so if `X` is what *is* drawn of
workspaces that are not shown before the step (`Exceptions`), nothing else is after it:
that is `OnlyShownIsVisible`.

**Focus**, for any outputs, windows, layer surfaces and lock clients. The four
invariants are inductive together and not apart: that a lock surface's lock is the one
that is held (`SurfacesAreKnown`) needs that there is one such lock (`OneLock`) for the step
in which a second client is refused, and destroying a lock's surfaces needs both.
The three action properties follow from them step by step. `SurfaceAssumption` (a
lock surface is neither a window, a layer surface nor nobody) is what keeps the
focus on one of them from being taken for the focus on another.

**IPC**, for any number of clients and descriptors, any capacity of the sockets and any
requests and changes. The invariant has a part for each thing the thread relies on
between two of its steps: a connection holds what its client asked (`Ends`), a client
has one connection, queued or open (`Single`), nothing has been sent to a client that is
still being served (`Quiet`), what is served is open and has a subscription only
once it was read (`Serving`), any other open connection is a subscriber's or one that was
not understood (`Kept`), and the subscribers of the message at hand are told or still to
come (`Telling`). The argument for `EverySubscriberTold` is the one a reader of
`notify_clients` looks for: the connection that is being served is never among those
notified from inside its command, because what is notified is never a command's
message while a subscription that a command left is to that command. So closing it
after the answer erases no iterator of the loop.

**Config**, for any texts, times, keyboards and pointers. Reading a file twice is reading it
once (`LoadAgain`), and `FollowsFile` is kept by the editor because a save gives the file
a time that has not been seen. The invariant adds to it that the same holds while
the timer looks (`InForce`), and that what is plugged has the settings in force, except
the keyboards that were passed over (`Handed`).

**Induction over data.** The library's induction theorems take the property as an operator,
which the provers cannot instantiate. `ListProofs` and `BSPTreeProofs` state induction for a
*set* instead (`UpTo`, `TreeInduction`, `RootInduction`: if a set has what the
step gives, it has everything), proved from the least counterexample (`Least`); a proof
puts the property into a set `S == {i \in ... : P(i)}` and cites them. This works for
recursive functions, which is why the modules have no `RECURSIVE` operator.

Only model-checked: liveness under fairness, that is `TransactionEnds`, `HiddenIsShown`,
`OnlyALiveClientStalls` and `PicksUp`, which need reasoning about `ENABLED` that the provers do not
do. The violation runs are counterexamples and prove nothing else.

## Where the code and its words disagree

| run | what the code does |
|---|---|
| `transaction_freed` | "Remove a toplevel from any active transaction": only from the current one, and only if the mark is still set. A detached transaction keeps the pointer of a window that is deleted |
| `bsp_remove` | "just remove the node": removing the root's second child when the first is a container frees the first and then reads its second subtree. Three windows under `bsp` are enough |
| `workspace_add` | `awmtest/tests/autotile_maximize_add.cpp` expects that a new window brings the maximized ones back to the layout. They are asked to un-maximize and are not inserted |
| `workspace_swap` | `awmtest/tests/autotile_maximize_swap.cpp` expects both windows to keep a size. A swap that inserts a maximized window hands out the 0x0 box of the node it has just made |
| `MCTransactionOrder.cfg` | `begin()` says it "commits any existing one first". It sends the configures and then forgets the transaction, which takes effect at its timeout, after newer ones, and puts the older boxes back |
| `MCTransactionConfigured.cfg` | `set_position_size` says it sends a configure. During a committed transaction it only records the box, which is applied later and never sent |
| `MCDesktopLate.cfg` | `set_workspace` says "hide workspace we are moving from". `Transaction::apply` and `set_position_size` enable the node of a window that was waiting for its first layout without asking whether it has been hidden: one that is mapped on a workspace that tiles just before the switch is drawn over the workspace that is shown (`HiddenWithWorkspace`; plug, map, open, reveal) |

Seen while modelling and not runs of their own:

- A floating window that is maximized, restored and tiled again has two leaves, and the
  one that stays when it closes holds a deleted window (`OneLeaf` therefore is about
  windows that have not floated).
- `set_fullscreen(true)` without a current transaction is undone by the
  `set_position_size` it ends in; `set_maximized(false)` lays out the tree while the
  window still counts as maximized, so it is skipped until the next layout.
- A window that is hidden for auto tile and that `add_toplevel` does not take into the
  layout (maximized, fullscreen, at most 1x1) stays hidden until something positions it
  (`HiddenIsShown` is about windows a layout has taken in).
- A client that connects to the socket and writes nothing stops the compositor
  (`OnlyALiveClientStalls` excepts it).
- A swap cancels a pending idle layout (`LayoutIsOwed` has to except it).
- A window that unmaps while its output is unplugged stays the orphan's
  `active_toplevel` and is focused when the output comes back (`ActiveIsListed`
  excepts it, `Plug` leaves the adoption out).
- A layer surface that maps while the session is locked takes the keyboard from the
  lock surface, and so does the last window of a workspace that closes, which clears
  the focus (`LockKeepsKeyboard` excepts both). Mouse binds run while the session is
  locked.
- A connection whose continuous request is not understood is never closed
  (`NothingLeaks` excepts it). A request of the one byte `c` makes `substr` throw.
- A keyboard that was not the seat's at a reload keeps its keymap until it is plugged in
  again (`passed` in `FollowsFile`); `Cursor::pointers` never loses a pointer.
- The lists of outputs and window rules are cleared by a load without their elements
  being deleted, and `OutputManager::output_at` falls back on an output that may not
  be the one under the cursor.

## What is not modelled

Input methods: `InputRelay` is never instantiated, so none of it runs. Decorations are
scene nodes and colours. `toml.c` is vendored. Rendering, scene order, protocol objects that only report
state (foreign toplevel, titles), gestures, drag and drop, the text of IPC messages and the syntax
of binds and keys.

Within the modelled components: the destructors that run when the server exits, dead
functions (`handle_resize`, `adjust_neighbors_on_resize`,
`BSPNode::remove_toplevel`), saved geometry, the boxes of `Workspace::tile` and the methods
without a tree, the swap indicator and the neighbours of an interactive resize outside
a tree (which windows those are depends on coordinates), output modes, positions
and power, which activation token grants the focus, idle inhibitors (a count of visible
surfaces), and pointer constraints. `Desktop` leaves out that a fullscreen window is not
dragged, so it drags more than the code, and the workspace a grab notes as its source, which only
layouts read.

What the code leaves undefined ends the behaviour where it is met, and is named above:
the freed node of `BSPTree` (`freed`), the leaf left behind (`Workspace.Outside`), the
adopted orphan (`Desktop.Plug`), the freed device (`Config`), an output unplugged under a
lock surface (`Focus`), the idle layout of a workspace whose output is gone.

## Plan

Done: `Transaction`, `BSPTree` with `TilingOrder`, `Workspace`, `Desktop`, `Focus`,
`IPC`, `Config`, and the proofs of all their properties but liveness. In order of
importance, what would come next:

1. `ToplevelState`: one window, maximize, fullscreen, floating and saved geometry with
   asynchronous acknowledgements, at the level of boxes: leaving a state restores the
   one before, whatever the order of entering.
2. `Desktop` with the idle layouts of `Workspace`, for the layout that is pending when
   its output goes, and with the cursor's swap target.
3. `Tile`: the boxes of `Workspace::tile` for the methods without a tree, as pure operators
   against a reference (they cover the area, do not overlap).
4. An abstract specification of a batch of boxes, all or nothing, that `Transaction`
   implements for transactions that do not overlap.
5. The safety halves of the liveness properties, so that fairness is all that is left to
   TLC: that each step of the thread in `IPC` lowers a measure, and each timeout in
   `Transaction` the number of timers before a given one.
