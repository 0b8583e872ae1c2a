-------------------------------- MODULE IPC --------------------------------
(***************************************************************************)
(* The IPC server of src/src/IPC.cpp and the program that talks to it,     *)
(* src/awmsg/main.cpp.                                                     *)
(*                                                                         *)
(* The server runs inside the compositor's only thread: while a handler    *)
(* waits for a client, nothing else happens.  It takes one request of a    *)
(* connection, and keeps the connection of a client that asked for a       *)
(* message continuously.  Whatever then changes in the compositor calls    *)
(* notify_clients, and so does a request that changes something itself,    *)
(* from inside its own handler.                                            *)
(*                                                                         *)
(* The mutex subscriptions_mutex is not recursive.  The server's sockets   *)
(* block.  After Server::exit no handler that IPC has a part in runs.      *)
(***************************************************************************)
EXTENDS Naturals, Sequences, FiniteSets

CONSTANTS
  Clients,   \* processes that run awmsg, each one connection at a time
  Fds,       \* descriptors accept() can return
  Backlog,   \* connections the listen queue holds
  Capacity,  \* notifications a socket holds before send() blocks
  Requests,  \* what the clients ask for
  Occurring, \* which changes occur
  None

ASSUME IPCAssumption == /\ None \notin Clients \cup Fds
                        /\ IsFiniteSet(Fds) /\ Fds \subseteq Nat
                        /\ {Backlog, Capacity} \subseteq Nat \ {0}

VARIABLES
  clients,  \* what each client is doing
  inbox,    \* answers and notifications sent to it and not yet read
  backlog,  \* connections that wait in the listen queue
  fds,      \* the accepted connections
  subs,     \* IPC::subscriptions
  mutex,    \* subscriptions_mutex is held
  ipc,      \* Server::ipc is set
  server    \* where the compositor's thread is

vars == <<clients, inbox, backlog, fds, subs, mutex, ipc, server>>

-----------------------------------------------------------------------------
(* Messages, connections and the places the server can be in *)

\* What parse_command makes of a request, by the part of handle_command that
\* serves it.  "none" is what it does not understand.
OutputMessages == {"output_list", "output_toplevels", "output_modes"}
ToplevelMessages == {"toplevel_list", "toplevel_focused"}
ConfigMessages == {"bind_list", "bind_display", "rule_list"}
DeviceMessages == {"keyboard_list", "device_list", "device_current"}
Commands == {"spawn", "output_create", "output_destroy", "workspace_set",
             "bind_run"}

Messages == OutputMessages \cup ToplevelMessages \cup ConfigMessages
            \cup DeviceMessages \cup Commands
            \cup {"workspace_list", "exit", "none"}

Request == [msg : Messages, cont : BOOLEAN]

ASSUME RequestAssumption == Requests \subseteq Request /\ None \notin Request

\* What reading nothing is parsed as.
Empty == [msg |-> "none", cont |-> FALSE]

\* peer: the client at the other end, None once it has gone.  req: what it has
\* written.
Connection == [peer : Clients \cup {None}, req : Request \cup {None}]

ASSUME ConnectionAssumption == None \notin Connection

Client == [at : {"off", "connected", "waiting"}, req : Request \cup {None}]
Off == [at |-> "off", req |-> None]

\* The lists of messages notify_clients is called with, by the handlers of
\* Toplevel, Workspace, WorkspaceManager, OutputManager, Keyboard and Transaction.
Changes == {<<"toplevel_list">>, <<"toplevel_list", "workspace_list">>,
            <<"output_list", "workspace_list">>, <<"output_modes">>,
            <<"device_current">>, <<"keyboard_list", "device_current">>,
            <<"keyboard_list", "device_list", "device_current">>}

ASSUME OccurringAssumption == Occurring \subseteq Changes

\* fd: the connection that is served.  queue: the messages still to be notified.
\* todo: the subscribers the current one has not come to.  told: those it was sent
\* to (history).
Server == [at : {"loop", "reading", "locking", "notifying", "answering", "stuck",
                 "ended"},
           fd : Fds \cup {None}, queue : Seq(Messages), todo : SUBSET Fds,
           told : SUBSET Fds]

Loop == [at |-> "loop", fd |-> None, queue |-> <<>>, todo |-> {}, told |-> {}]

Subscribed(m) == {fd \in Fds : m \in subs[fd]}
Free == {fd \in Fds : fds[fd] = None}

\* The lowest of some descriptors, if there are any.
Lowest(S) == {fd \in S : \A other \in S : fd <= other}

\* The queue or descriptor that holds a client's end of a connection.
Queued(c) == {i \in DOMAIN backlog : backlog[i].peer = c}
Held(c) == {fd \in Fds : fds[fd] # None /\ fds[fd].peer = c}

\* Both ends of c's connection become what Change makes of it.
OnConnection(c, Change(_)) ==
  /\ backlog' = [i \in DOMAIN backlog |->
                   IF i \in Queued(c) THEN Change(backlog[i]) ELSE backlog[i]]
  /\ fds' = [fd \in Fds |-> IF fd \in Held(c) THEN Change(fds[fd]) ELSE fds[fd]]

Init ==
  /\ clients = [c \in Clients |-> Off]
  /\ inbox = [c \in Clients |-> 0]
  /\ backlog = <<>>
  /\ fds = [fd \in Fds |-> None]
  /\ subs = [fd \in Fds |-> {}]
  /\ mutex = FALSE
  /\ ipc = TRUE
  /\ server = Loop

-----------------------------------------------------------------------------
(* awmsg.  A queue that is full makes connect() wait. *)

Connect(c, req) ==
  /\ clients[c].at = "off"
  /\ ipc
  /\ Len(backlog) < Backlog
  /\ clients' = [clients EXCEPT ![c] = [at |-> "connected", req |-> req]]
  /\ backlog' = Append(backlog, [peer |-> c, req |-> None])
  /\ UNCHANGED <<inbox, fds, subs, mutex, ipc, server>>

Write(c) ==
  /\ clients[c].at = "connected"
  /\ clients' = [clients EXCEPT ![c].at = "waiting"]
  /\ OnConnection(c, LAMBDA k : [k EXCEPT !.req = clients[c].req])
  /\ UNCHANGED <<inbox, subs, mutex, ipc, server>>

\* The process ends: its socket is closed, what it wrote can still be read.
Gone(c) ==
  /\ clients' = [clients EXCEPT ![c] = Off]
  /\ inbox' = [inbox EXCEPT ![c] = 0]
  /\ OnConnection(c, LAMBDA k : [k EXCEPT !.peer = None])
  /\ UNCHANGED <<subs, mutex, ipc, server>>

\* select() finds something: all of it is read, and only a continuous client
\* goes on.
Read(c) ==
  /\ clients[c].at = "waiting"
  /\ inbox[c] > 0
  /\ IF clients[c].req.cont
     THEN /\ inbox' = [inbox EXCEPT ![c] = 0]
          /\ UNCHANGED <<clients, backlog, fds, subs, mutex, ipc, server>>
     ELSE Gone(c)

\* select() times out: only a continuous client goes on.
GiveUp(c) ==
  /\ clients[c].at = "waiting"
  /\ inbox[c] = 0
  /\ ~clients[c].req.cont
  /\ Gone(c)

\* Killed, at any point.
Die(c) ==
  /\ clients[c].at # "off"
  /\ Gone(c)

-----------------------------------------------------------------------------
(* The server *)

\* The callback of the listening socket: the lowest free descriptor.  When there is
\* none, accept() fails and the connection stays in the queue.
Accept ==
  /\ server.at = "loop"
  /\ ipc
  /\ backlog # <<>>
  /\ \E fd \in Lowest(Free) :
       /\ fds' = [fds EXCEPT ![fd] = Head(backlog)]
       /\ server' = [Loop EXCEPT !.at = "reading", !.fd = fd]
  /\ backlog' = Tail(backlog)
  /\ UNCHANGED <<clients, inbox, subs, mutex, ipc>>

\* Mutant: a client that has closed its end is waited for.
ReadableData(k) == k.req # None

\* read() returns: there is a request, or the other end is closed.
Readable(k) == k.req # None \/ k.peer = None

Received(k) == IF k.req = None THEN Empty ELSE k.req

\* Server::exit and IPC::stop: the listening socket is closed, and with it the
\* connections nobody has accepted.
Stop ==
  /\ ipc' = FALSE
  /\ backlog' = <<>>

\* handle_command of msg.  A query changes nothing; a command that is allowed may
\* change something, and notifies from inside.
Handle(msg) ==
  \/ /\ msg = "exit"
     /\ Stop
     /\ server' = [server EXCEPT !.at = "answering"]
  \/ /\ msg \in Commands
     /\ \E queue \in Occurring :
          server' = [server EXCEPT !.at = "locking", !.queue = queue]
     /\ UNCHANGED <<ipc, backlog>>
  \/ /\ msg # "exit"
     /\ server' = [server EXCEPT !.at = "answering"]
     /\ UNCHANGED <<ipc, backlog>>

Subscribes(req) == req.cont /\ req.msg # "none"

\* Mutant: the command runs before the mutex is released.
ParseUnderMutex ==
  /\ server.at = "reading"
  /\ Readable(fds[server.fd])
  /\ LET req == Received(fds[server.fd]) IN
     /\ subs' = IF Subscribes(req)
                THEN [subs EXCEPT ![server.fd] = @ \cup {req.msg}]
                ELSE subs
     /\ Handle(req.msg)
     /\ mutex' = Subscribes(req)
  /\ UNCHANGED <<clients, inbox, fds>>

\* read, then parse_command: the subscription is added under the mutex, which is
\* released before the command runs.
Parse ==
  /\ server.at = "reading"
  /\ Readable(fds[server.fd])
  /\ LET req == Received(fds[server.fd]) IN
     /\ subs' = IF Subscribes(req)
                THEN [subs EXCEPT ![server.fd] = @ \cup {req.msg}]
                ELSE subs
     /\ Handle(req.msg)
  /\ mutex' = mutex
  /\ UNCHANGED <<clients, inbox, fds>>

\* read() fails: the connection is closed, and nothing is parsed.
ReadFails ==
  /\ server.at = "reading"
  /\ fds' = [fds EXCEPT ![server.fd] = None]
  /\ server' = Loop
  /\ UNCHANGED <<clients, inbox, backlog, subs, mutex, ipc>>

\* Something else in the compositor has changed.
Event ==
  /\ server.at = "loop"
  /\ ipc
  /\ \E queue \in Occurring :
       server' = [Loop EXCEPT !.at = "locking", !.queue = queue]
  /\ UNCHANGED <<clients, inbox, backlog, fds, subs, mutex, ipc>>

\* A signal or the exit bind: Server::exit without a connection.
Exit ==
  /\ server.at = "loop"
  /\ ipc
  /\ Stop
  /\ server' = [Loop EXCEPT !.at = "ended"]
  /\ UNCHANGED <<clients, inbox, fds, subs, mutex>>

\* notify_clients takes the mutex, and waits for itself if it holds it.
Lock ==
  /\ server.at = "locking"
  /\ mutex' = TRUE
  /\ server' = IF mutex
               THEN [server EXCEPT !.at = "stuck"]
               ELSE [server EXCEPT !.at = "notifying",
                                   !.todo = Subscribed(Head(server.queue))]
  /\ UNCHANGED <<clients, inbox, backlog, fds, subs, ipc>>

\* Mutant: the subscriptions stay with the descriptor.
DropOnlyFd(fd) ==
  /\ fds' = [fds EXCEPT ![fd] = None]
  /\ UNCHANGED subs

\* close() and erase of a subscriber whose end is closed.
Drop(fd) ==
  /\ fds' = [fds EXCEPT ![fd] = None]
  /\ subs' = [subs EXCEPT ![fd] = {}]

\* Mutant: erase(it) is followed by a ++it too many.
PastNext(fd) ==
  LET rest == server.todo \ {fd} IN
  IF fds[fd].peer = None THEN rest \ Lowest(rest) ELSE rest

\* The subscribers left when the loop has come past fd.
Past(fd) == server.todo \ {fd}

\* send() to the next subscriber, in the order of the map.  It waits while the
\* socket is full.
Send ==
  /\ server.at = "notifying"
  /\ \E fd \in Lowest(server.todo) :
       LET peer == fds[fd].peer IN
       \/ /\ peer = None
          /\ Drop(fd)
          /\ server' = [server EXCEPT !.todo = Past(fd)]
          /\ UNCHANGED inbox
       \/ /\ peer # None
          /\ inbox[peer] < Capacity
          /\ inbox' = [inbox EXCEPT ![peer] = @ + 1]
          /\ server' = [server EXCEPT !.todo = Past(fd), !.told = @ \cup {fd}]
          /\ UNCHANGED <<fds, subs>>
  /\ UNCHANGED <<clients, backlog, mutex, ipc>>

\* Mutant: the mutex is released after the last message only.
UnlockLate ==
  /\ server.at = "notifying"
  /\ server.todo = {}
  /\ mutex' = (Len(server.queue) > 1)
  /\ LET rest == [server EXCEPT !.at = "locking", !.queue = Tail(@), !.told = {}] IN
     server' = IF rest.queue # <<>> THEN rest
               ELSE IF server.fd = None THEN Loop
               ELSE [rest EXCEPT !.at = "answering"]
  /\ UNCHANGED <<clients, inbox, backlog, fds, subs, ipc>>

\* The end of notify_clients for one message.  After the last one the handler goes
\* on that called it.
Unlock ==
  /\ server.at = "notifying"
  /\ server.todo = {}
  /\ mutex' = FALSE
  /\ LET rest == [server EXCEPT !.at = "locking", !.queue = Tail(@), !.told = {}] IN
     server' = IF rest.queue # <<>> THEN rest
               ELSE IF server.fd = None THEN Loop
               ELSE [rest EXCEPT !.at = "answering"]
  /\ UNCHANGED <<clients, inbox, backlog, fds, subs, ipc>>

\* Mutant: the connection of a client that has gone stays open.
ClosedUnlessGone(k) == IF k.peer = None \/ Received(k).cont THEN k ELSE None

\* close() unless the client is to be notified.
Closed(k) == IF Received(k).cont THEN k ELSE None

\* write(), which a client that has gone makes fail, and a full socket wait.
Answer ==
  /\ server.at = "answering"
  /\ LET k == fds[server.fd] IN
     /\ k.peer # None => inbox[k.peer] < Capacity
     /\ inbox' = IF k.peer = None THEN inbox
                 ELSE [inbox EXCEPT ![k.peer] = @ + 1]
     /\ fds' = [fds EXCEPT ![server.fd] = Closed(k)]
  /\ server' = IF ipc THEN Loop ELSE [Loop EXCEPT !.at = "ended"]
  /\ UNCHANGED <<clients, backlog, subs, mutex, ipc>>

\* The same write() raises SIGPIPE, which nothing handles: unless the process was
\* started with it ignored, it ends.
Killed ==
  /\ server.at = "answering"
  /\ fds[server.fd].peer = None
  /\ Stop
  /\ server' = [Loop EXCEPT !.at = "ended"]
  /\ UNCHANGED <<clients, inbox, fds, subs, mutex>>

ServerNext == \/ Accept \/ Parse \/ ReadFails \/ Event \/ Exit \/ Lock \/ Send
              \/ Unlock \/ Answer \/ Killed

Next ==
  \/ ServerNext
  \/ \E c \in Clients :
       \/ \E req \in Requests : Connect(c, req)
       \/ Write(c) \/ Read(c) \/ GiveUp(c) \/ Die(c)

Spec == Init /\ [][Next]_vars

\* The thread runs when it can.  Nothing is assumed of a client: any program may
\* connect, and never write or never read.
FairSpec ==
  /\ Spec
  /\ WF_vars(Parse) /\ WF_vars(Lock) /\ WF_vars(Send) /\ WF_vars(Unlock)
  /\ WF_vars(Answer)

-----------------------------------------------------------------------------
(* Properties *)

\* Every client, connection and subscription keeps its type, nobody's socket holds
\* more than it can, and the mutex is held only inside notify_clients.
TypeOK ==
  /\ clients \in [Clients -> Client]
  /\ inbox \in [Clients -> 0 .. Capacity]
  /\ backlog \in Seq(Connection)
  /\ fds \in [Fds -> Connection \cup {None}]
  /\ subs \in [Fds -> SUBSET Messages]
  /\ ipc \in BOOLEAN
  /\ server \in Server
  /\ mutex => server.at = "notifying"

\* The thread never waits for the mutex it holds: a request that changes something
\* is handled, and notified, after parse_command has released it (IPC.cpp:394).
NoSelfDeadlock == server.at # "stuck"

\* A subscription belongs to the client that made it: when a descriptor is used
\* again for another connection, nothing of the first is left (IPC.cpp:1004).
SubscriberAsked ==
  \A fd \in Fds : subs[fd] # {} =>
    /\ fds[fd] # None
    /\ fds[fd].req # None
    /\ fds[fd].req.cont
    /\ subs[fd] = {fds[fd].req.msg}

\* Between two handlers every open connection is a subscriber's, or one whose
\* continuous request was not understood, which the code never closes.
NothingLeaks ==
  server.at = "loop" =>
    \A fd \in Fds \ Free :
      subs[fd] # {} \/ (Received(fds[fd]).cont /\ Received(fds[fd]).msg = "none")

\* When notify_clients is done with a message, every client that is subscribed to
\* it has been sent it, whoever was dropped on the way (IPC.cpp:1003).
NobodySkipped ==
  server.at = "notifying" /\ server.todo = {} =>
    Subscribed(Head(server.queue)) \subseteq server.told

\* The thread waits for c, which is alive: to read what it has not written
\* (IPC.cpp:208), or to write to it while it does not read (IPC.cpp:985).
WaitsFor(c) ==
  \/ /\ server.at = "reading"
     /\ fds[server.fd].peer = c
     /\ fds[server.fd].req = None
  \/ /\ server.at = "notifying"
     /\ \E fd \in Lowest(server.todo) : fds[fd].peer = c
     /\ inbox[c] = Capacity

\* A client can stop the event loop, by staying connected and neither writing nor
\* reading, and nothing else can: unless the loop waits for one such client for
\* ever, it always comes back to the next event, whoever dies or is dropped.
OnlyALiveClientStalls ==
  \/ []<>(server.at \in {"loop", "ended"})
  \/ \E c \in Clients : <>[]WaitsFor(c)
=============================================================================
