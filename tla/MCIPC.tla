------------------------------- MODULE MCIPC -------------------------------
(* Small instances of IPC for TLC. *)
EXTENDS IPC, TLC

MCFds == {3, 4}

\* Two subscriptions, one that is not understood, a query, a command and exit.
MCRequests ==
  {[msg |-> m, cont |-> TRUE] : m \in {"toplevel_list", "workspace_list", "none"}}
  \cup {[msg |-> m, cont |-> FALSE] : m \in {"toplevel_focused", "bind_run", "exit"}}

\* One message, and two of which somebody may be subscribed to the first.
MCOccurring == {<<"toplevel_list">>, <<"toplevel_list", "workspace_list">>}
=============================================================================
