----------------------------- MODULE IPCProofs -----------------------------
(***************************************************************************)
(* The safety properties of IPC, for any clients, descriptors, requests    *)
(* and changes: an inductive invariant, kept by every action, of which     *)
(* they are consequences.                                                  *)
(***************************************************************************)
EXTENDS IPC, TLAPS

-----------------------------------------------------------------------------
(* The inductive invariant *)

\* A client that is connected has not written, one that waits has: the
\* connection holds what it asked.
Agrees(doing, k) ==
  k.peer # None =>
    /\ doing[k.peer].at # "off"
    /\ doing[k.peer].at = "connected" => k.req = None
    /\ doing[k.peer].at = "waiting" => k.req = doing[k.peer].req

\* A client has a request as long as it runs, and its connection agrees with it.
Ends ==
  /\ \A c \in Clients : clients[c].at # "off" => clients[c].req \in Request
  /\ \A i \in DOMAIN backlog : Agrees(clients, backlog[i])
  /\ \A fd \in Fds : fds[fd] # None => Agrees(clients, fds[fd])

\* A client has one connection, which is queued or held.
Single(queue, open) ==
  /\ \A i, j \in DOMAIN queue :
       queue[i].peer # None /\ queue[i].peer = queue[j].peer => i = j
  /\ \A f, g \in Fds :
       /\ open[f] # None /\ open[g] # None
       /\ open[f].peer # None /\ open[f].peer = open[g].peer
       => f = g
  /\ \A i \in DOMAIN queue, fd \in Fds :
       open[fd] # None /\ open[fd].peer # None => open[fd].peer # queue[i].peer

\* Nothing has been sent to a client that is off, queued or being served.
Quiet ==
  /\ \A c \in Clients : clients[c].at = "off" => inbox[c] = 0
  /\ \A i \in DOMAIN backlog :
       backlog[i].peer # None => inbox[backlog[i].peer] = 0
  /\ server.fd # None =>
       (fds[server.fd].peer # None => inbox[fds[server.fd].peer] = 0)

\* The messages somebody is notified of are not commands.
Notified == Messages \ Commands

\* The connection the server is busy with.
Serving ==
  /\ server.at \in {"loop", "ended"} => server.fd = None
  /\ server.at \in {"reading", "answering"} => server.fd # None
  /\ server.fd # None => fds[server.fd] # None
  /\ server.at = "reading" => subs[server.fd] = {}
  /\ server.fd # None /\ server.at # "reading" =>
       /\ Readable(fds[server.fd])
       /\ Subscribes(Received(fds[server.fd])) => subs[server.fd] # {}
  /\ server.at \in {"locking", "notifying"} =>
       /\ server.queue \in Seq(Notified)
       /\ server.queue # <<>>
       /\ server.fd # None => Received(fds[server.fd]).msg \in Commands

\* An open connection that is not being served is one to be notified, or one that
\* was not understood.
Kept ==
  server.at # "ended" =>
    \A fd \in Fds : fds[fd] # None /\ fd # server.fd =>
      subs[fd] # {} \/ (Received(fds[fd]).cont /\ Received(fds[fd]).msg = "none")

\* The subscribers still to come are subscribers, and the others have been told.
Telling ==
  server.at = "notifying" =>
    /\ server.todo \subseteq Subscribed(Head(server.queue))
    /\ Subscribed(Head(server.queue)) \subseteq server.todo \cup server.told

IInv == /\ TypeOK /\ Ends /\ Single(backlog, fds) /\ Quiet /\ Serving
        /\ SubscriberAsked /\ Kept /\ Telling /\ NoSelfDeadlock

-----------------------------------------------------------------------------
(* What every action needs *)

\* A client's connection stays its only one when connections go or lose their peer.
LEMMA SingleKept ==
  ASSUME NEW queue, NEW open, NEW queue2, NEW open2,
         Single(queue, open),
         DOMAIN queue2 \subseteq DOMAIN queue,
         \A i \in DOMAIN queue2 : queue2[i].peer \in {queue[i].peer, None},
         \A fd \in Fds : open2[fd] # None =>
           open[fd] # None /\ open2[fd].peer \in {open[fd].peer, None}
  PROVE  Single(queue2, open2)
<1>1. \A i, j \in DOMAIN queue2 :
        queue2[i].peer # None /\ queue2[i].peer = queue2[j].peer => i = j
  BY DEF Single
<1>2. \A f, g \in Fds :
        /\ open2[f] # None /\ open2[g] # None
        /\ open2[f].peer # None /\ open2[f].peer = open2[g].peer
        => f = g
  BY DEF Single
<1>3. \A i \in DOMAIN queue2, fd \in Fds :
        open2[fd] # None /\ open2[fd].peer # None => open2[fd].peer # queue2[i].peer
  BY DEF Single
<1>4. QED
  BY <1>1, <1>2, <1>3 DEF Single

\* The connections, and the one that is served, keep their type.
LEMMA Connections ==
  ASSUME IInv
  PROVE  /\ \A i \in DOMAIN backlog : /\ backlog[i] \in Connection
                                     /\ backlog[i].peer \in Clients \cup {None}
         /\ \A fd \in Fds : fds[fd] # None =>
              /\ fds[fd] \in Connection
              /\ fds[fd].peer \in Clients \cup {None}
         /\ server.fd # None =>
              /\ server.fd \in Fds /\ fds[server.fd] \in Connection
              /\ fds[server.fd].peer \in Clients \cup {None}
<1>1. \A k \in Connection : k.peer \in Clients \cup {None}
  BY DEF Connection
<1>2. /\ backlog \in Seq(Connection)
      /\ fds \in [Fds -> Connection \cup {None}]
      /\ server.fd \in Fds \cup {None}
      /\ server.fd # None => fds[server.fd] # None
  BY DEF IInv, TypeOK, Server, Serving
<1>3. \A i \in DOMAIN backlog : backlog[i] \in Connection
  BY <1>2
<1>4. QED
  BY <1>1, <1>2, <1>3

\* What was read has its type, and only a request that was written subscribes.
LEMMA ReceivedType ==
  ASSUME NEW k \in Connection
  PROVE  /\ Received(k).msg \in Messages
         /\ Subscribes(Received(k)) => k.req # None /\ k.req.cont /\ Received(k) = k.req
  BY DEF Received, Connection, Request, Empty, Messages, Subscribes

-----------------------------------------------------------------------------
(* The clients *)

\* What a client that connects leaves of the invariant.
LEMMA ConnectStep ==
  ASSUME IInv, NEW c \in Clients, NEW req \in Requests, Connect(c, req)
  PROVE  IInv'
<1>1. c \in Clients /\ req \in Request /\ req # None /\ None \notin Clients
  BY RequestAssumption, IPCAssumption
<1> DEFINE k == [peer |-> c, req |-> None]
<1>2. /\ k \in Connection /\ backlog \in Seq(Connection)
      /\ backlog' = Append(backlog, k)
  BY <1>1 DEF IInv, TypeOK, Connect, Connection
<1>3. /\ Len(backlog) \in Nat
      /\ DOMAIN backlog = 1 .. Len(backlog)
      /\ DOMAIN backlog' = 1 .. Len(backlog) + 1
      /\ \A i \in DOMAIN backlog : backlog'[i] = backlog[i]
      /\ backlog'[Len(backlog) + 1] = k
      /\ backlog' \in Seq(Connection)
  BY <1>2
<1>4. TypeOK'
  BY <1>1, <1>3 DEF IInv, TypeOK, Connect, Client
<1>5. \A i \in DOMAIN backlog' :
        i \in DOMAIN backlog \/ (i = Len(backlog) + 1 /\ backlog'[i] = k)
  BY <1>3
<1>6. \A d \in Clients \ {c} : clients'[d] = clients[d]
  BY DEF IInv, TypeOK, Connect
<1>7. clients'[c] = [at |-> "connected", req |-> req] /\ clients[c].at = "off"
  BY DEF IInv, TypeOK, Connect
<1>8. /\ \A i \in DOMAIN backlog : backlog[i].peer # c
      /\ \A fd \in Fds : fds[fd] # None => fds[fd].peer # c
  BY <1>1, <1>7 DEF IInv, Ends, Agrees
<1>9. Ends'
  <2>1. \A d \in Clients : clients'[d].at # "off" => clients'[d].req \in Request
    BY <1>1, <1>6, <1>7 DEF IInv, Ends
  <2>2. \A j \in DOMAIN backlog : backlog[j] \in Connection
    BY <1>2
  <2>3. \A j \in DOMAIN backlog : Agrees(clients', backlog[j])
    BY <1>3, <1>6, <1>8, <2>2 DEF IInv, Ends, Agrees, Connection
  <2>4. Agrees(clients', k)
    BY <1>7 DEF Agrees
  <2>5. \A i \in DOMAIN backlog' : Agrees(clients', backlog'[i])
    BY <1>3, <1>5, <2>3, <2>4
  <2>6. \A fd \in Fds : fds'[fd] # None => Agrees(clients', fds'[fd])
    BY <1>6, <1>8 DEF IInv, TypeOK, Ends, Agrees, Connection, Connect
  <2>7. QED
    BY <2>1, <2>5, <2>6 DEF Ends
<1>10. Single(backlog', fds')
  <2>1. fds' = fds
    BY DEF Connect
  <2>2. Single(backlog, fds)
    BY DEF IInv
  <2>3. k.peer = c
    OBVIOUS
  <2>4. \A i, j \in DOMAIN backlog' :
          backlog'[i].peer # None /\ backlog'[i].peer = backlog'[j].peer => i = j
    BY <1>3, <1>5, <1>8, <2>2, <2>3 DEF Single
  <2>5. \A i \in DOMAIN backlog', fd \in Fds :
          fds[fd] # None /\ fds[fd].peer # None => fds[fd].peer # backlog'[i].peer
    BY <1>3, <1>5, <1>8, <2>2, <2>3 DEF Single
  <2>6. QED
    BY <2>1, <2>2, <2>4, <2>5 DEF Single
<1>11. Quiet'
  BY <1>3, <1>5, <1>6, <1>7 DEF IInv, Quiet, Connect
<1>12. QED
  BY <1>4, <1>9, <1>11, <1>10
  DEF IInv, Serving, SubscriberAsked, Kept, Telling, NoSelfDeadlock, Connect,
      Readable, Received, Subscribed

\* The connection k when its client c has written req.
Wrote(k, c, req) == IF k.peer = c THEN [k EXCEPT !.req = req] ELSE k

\* The request arrives at the connection, wherever it is held.
LEMMA WriteStep ==
  ASSUME IInv, NEW c \in Clients, Write(c)
  PROVE  IInv'
<1> DEFINE req == clients[c].req
<1>1. /\ clients[c].at = "connected" /\ req \in Request /\ req # None
      /\ c # None
      /\ clients' = [clients EXCEPT ![c].at = "waiting"]
      /\ UNCHANGED <<inbox, subs, mutex, ipc, server>>
  BY RequestAssumption, IPCAssumption DEF IInv, Ends, Write
<1>2. /\ backlog \in Seq(Connection)
      /\ \A i \in DOMAIN backlog : backlog[i] \in Connection
      /\ \A fd \in Fds : fds[fd] # None => fds[fd] \in Connection
      /\ None \notin Connection
  BY ConnectionAssumption DEF IInv, TypeOK
<1>3. /\ backlog' = [i \in DOMAIN backlog |-> Wrote(backlog[i], c, req)]
      /\ fds' = [fd \in Fds |->
                    IF fds[fd] # None THEN Wrote(fds[fd], c, req) ELSE None]
  BY DEF Write, OnConnection, Queued, Held, Wrote
<1>4. \A k \in Connection :
        /\ Wrote(k, c, req) \in Connection
        /\ Wrote(k, c, req).peer = k.peer
        /\ k.peer # c => Wrote(k, c, req) = k
        /\ k.peer = c => Wrote(k, c, req).req = req
  BY <1>1 DEF Wrote, Connection
<1>5. /\ backlog' \in Seq(Connection)
      /\ DOMAIN backlog' = DOMAIN backlog
      /\ fds' \in [Fds -> Connection \cup {None}]
  BY <1>2, <1>3, <1>4
<1>6. /\ \A d \in Clients \ {c} : clients'[d] = clients[d]
      /\ clients'[c] = [at |-> "waiting", req |-> req]
  BY <1>1 DEF IInv, TypeOK, Client
<1>7. TypeOK'
  BY <1>1, <1>5, <1>6 DEF IInv, TypeOK, Client
<1>8. \A k \in Connection :
        Agrees(clients, k) => Agrees(clients', Wrote(k, c, req))
  BY <1>1, <1>4, <1>6 DEF Agrees, Connection
<1>9. Ends'
  <2>1. \A d \in Clients : clients'[d].at # "off" => clients'[d].req \in Request
    BY <1>1, <1>6 DEF IInv, Ends
  <2>2. \A i \in DOMAIN backlog' : Agrees(clients', backlog'[i])
    BY <1>2, <1>3, <1>5, <1>8 DEF IInv, Ends
  <2>3. \A fd \in Fds : fds'[fd] # None => Agrees(clients', fds'[fd])
    BY <1>2, <1>3, <1>8 DEF IInv, Ends
  <2>4. QED
    BY <2>1, <2>2, <2>3 DEF Ends
<1>10. Single(backlog', fds')
  <2>1. \A i \in DOMAIN backlog' : backlog'[i].peer \in {backlog[i].peer, None}
    BY <1>2, <1>3, <1>4
  <2>2. \A fd \in Fds : fds'[fd] # None =>
          fds[fd] # None /\ fds'[fd].peer \in {fds[fd].peer, None}
    BY <1>2, <1>3, <1>4
  <2>3. QED
    BY <1>5, <2>1, <2>2, SingleKept DEF IInv
<1>11. Quiet'
  BY <1>1, <1>2, <1>3, <1>4, <1>5, <1>6 DEF IInv, Quiet, Serving, TypeOK, Server
<1>12. \A fd \in Fds : fds[fd] # None =>
         /\ fds'[fd] # None
         /\ fds'[fd] = fds[fd] \/ (fds[fd].peer = c /\ fds[fd].req = None)
  BY <1>1, <1>2, <1>3, <1>4 DEF IInv, Ends, Agrees
<1>13. \A fd \in Fds : fds[fd] = None => fds'[fd] = None
  BY <1>3
<1>14. Serving'
  BY <1>1, <1>12 DEF IInv, Serving, Readable, TypeOK, Server
<1>15. SubscriberAsked' /\ Kept'
  BY <1>1, <1>12, <1>13 DEF IInv, SubscriberAsked, Kept, Received, Empty
<1>16. Telling' /\ NoSelfDeadlock'
  BY <1>1 DEF IInv, Telling, NoSelfDeadlock, Subscribed
<1>17. QED
  BY <1>7, <1>9, <1>10, <1>11, <1>14, <1>15, <1>16 DEF IInv

\* The connection k when the client c has closed its end.
Left(k, c) == IF k.peer = c THEN [k EXCEPT !.peer = None] ELSE k

\* The connection stays where it is, without its client.
LEMMA GoneStep ==
  ASSUME IInv, NEW c \in Clients, Gone(c)
  PROVE  IInv'
<1>1. /\ c # None
      /\ clients' = [clients EXCEPT ![c] = Off]
      /\ inbox' = [inbox EXCEPT ![c] = 0]
      /\ UNCHANGED <<subs, mutex, ipc, server>>
  BY IPCAssumption DEF Gone
<1>2. /\ backlog \in Seq(Connection)
      /\ \A i \in DOMAIN backlog : backlog[i] \in Connection
      /\ \A fd \in Fds : fds[fd] # None => fds[fd] \in Connection
      /\ None \notin Connection
  BY ConnectionAssumption DEF IInv, TypeOK
<1>3. /\ backlog' = [i \in DOMAIN backlog |-> Left(backlog[i], c)]
      /\ fds' = [fd \in Fds |-> IF fds[fd] # None THEN Left(fds[fd], c) ELSE None]
  BY DEF Gone, OnConnection, Queued, Held, Left
<1>4. \A k \in Connection :
        /\ Left(k, c) \in Connection
        /\ Left(k, c).req = k.req
        /\ k.peer # c => Left(k, c) = k
        /\ k.peer = c => Left(k, c).peer = None
  BY <1>1 DEF Left, Connection
<1>5. /\ backlog' \in Seq(Connection)
      /\ DOMAIN backlog' = DOMAIN backlog
      /\ fds' \in [Fds -> Connection \cup {None}]
  BY <1>2, <1>3, <1>4
<1>6. /\ \A d \in Clients \ {c} : clients'[d] = clients[d] /\ inbox'[d] = inbox[d]
      /\ clients'[c] = Off /\ inbox'[c] = 0
  BY <1>1 DEF IInv, TypeOK
<1>7. TypeOK'
  <2>1. clients' \in [Clients -> Client]
    BY <1>1, <1>6 DEF IInv, TypeOK, Client, Off
  <2>2. inbox' \in [Clients -> 0 .. Capacity]
    BY <1>1, <1>6, IPCAssumption DEF IInv, TypeOK
  <2>3. QED
    BY <1>1, <1>5, <2>1, <2>2 DEF IInv, TypeOK
<1>8. \A k \in Connection :
        Agrees(clients, k) => Agrees(clients', Left(k, c))
  BY <1>4, <1>6 DEF Agrees, Connection
<1>9. Ends'
  <2>1. \A d \in Clients : clients'[d].at # "off" => clients'[d].req \in Request
    BY <1>6 DEF IInv, Ends, Off
  <2>2. \A i \in DOMAIN backlog' : Agrees(clients', backlog'[i])
    BY <1>2, <1>3, <1>5, <1>8 DEF IInv, Ends
  <2>3. \A fd \in Fds : fds'[fd] # None => Agrees(clients', fds'[fd])
    BY <1>2, <1>3, <1>8 DEF IInv, Ends
  <2>4. QED
    BY <2>1, <2>2, <2>3 DEF Ends
<1>10. Single(backlog', fds')
  <2>1. \A i \in DOMAIN backlog' : backlog'[i].peer \in {backlog[i].peer, None}
    BY <1>2, <1>3, <1>4
  <2>2. \A fd \in Fds : fds'[fd] # None =>
          fds[fd] # None /\ fds'[fd].peer \in {fds[fd].peer, None}
    BY <1>2, <1>3, <1>4
  <2>3. QED
    BY <1>5, <2>1, <2>2, SingleKept DEF IInv
<1>11. \A fd \in Fds : fds[fd] # None =>
         /\ fds'[fd] # None
         /\ fds'[fd].req = fds[fd].req
         /\ fds'[fd] = fds[fd] \/ fds'[fd].peer = None
  BY <1>2, <1>3, <1>4
<1>12. \A fd \in Fds : fds[fd] = None => fds'[fd] = None
  BY <1>3
<1>13. \A fd \in Fds : fds[fd] # None =>
         /\ Received(fds'[fd]) = Received(fds[fd])
         /\ Readable(fds[fd]) => Readable(fds'[fd])
  BY <1>11 DEF Received, Readable
<1>14. Quiet'
  <2>1. \A d \in Clients : clients'[d].at = "off" => inbox'[d] = 0
    BY <1>6 DEF IInv, Quiet
  <2>2. \A i \in DOMAIN backlog' :
          backlog'[i].peer # None => inbox'[backlog'[i].peer] = 0
    BY <1>2, <1>3, <1>4, <1>5, <1>6 DEF IInv, Quiet, Connection
  <2>3. server'.fd # None =>
          (fds'[server'.fd].peer # None => inbox'[fds'[server'.fd].peer] = 0)
    BY <1>1, <1>2, <1>6, <1>11
    DEF IInv, Quiet, Serving, TypeOK, Server, Connection
  <2>4. QED
    BY <2>1, <2>2, <2>3 DEF Quiet
<1>15. Serving'
  BY <1>1, <1>11, <1>13 DEF IInv, Serving, TypeOK, Server
<1>16. SubscriberAsked' /\ Kept'
  BY <1>1, <1>11, <1>12, <1>13 DEF IInv, SubscriberAsked, Kept
<1>17. Telling' /\ NoSelfDeadlock'
  BY <1>1 DEF IInv, Telling, NoSelfDeadlock, Subscribed
<1>18. QED
  BY <1>7, <1>9, <1>10, <1>14, <1>15, <1>16, <1>17 DEF IInv

\* A client that has its answer leaves, unless it waits for more.
LEMMA ReadStep ==
  ASSUME IInv, NEW c \in Clients, Read(c)
  PROVE  IInv'
<1>1. CASE Gone(c)
  BY <1>1, GoneStep
<1>2. CASE /\ inbox' = [inbox EXCEPT ![c] = 0]
           /\ UNCHANGED <<clients, backlog, fds, subs, mutex, ipc, server>>
  <2>1. \A d \in Clients : inbox'[d] \in {inbox[d], 0}
    BY <1>2 DEF IInv, TypeOK
  <2>2. inbox' \in [Clients -> 0 .. Capacity]
    BY <1>2, IPCAssumption DEF IInv, TypeOK
  <2>3. TypeOK'
    BY <1>2, <2>2 DEF IInv, TypeOK
  <2>4. \A d \in Clients : inbox[d] = 0 => inbox'[d] = 0
    BY <2>1
  <2>5. Quiet'
    <3>1. /\ \A i \in DOMAIN backlog :
               backlog[i].peer # None => backlog[i].peer \in Clients
          /\ server.fd # None /\ fds[server.fd].peer # None =>
               fds[server.fd].peer \in Clients
      BY Connections
    <3>2. QED
      BY <1>2, <2>4, <3>1 DEF IInv, Quiet
  <2>6. QED
    BY <1>2, <2>3, <2>5
    DEF IInv, Ends, Agrees, Single, Serving, SubscriberAsked, Kept, Telling,
        NoSelfDeadlock, Readable, Received, Subscribed
<1>3. QED
  BY <1>1, <1>2 DEF Read
-----------------------------------------------------------------------------
(* The server *)

\* The server's loop, and what the handlers start from, have their type.
LEMMA LoopTyped ==
  /\ Loop \in Server /\ Loop.fd = None
  /\ \A at \in {"reading", "ended"}, fd \in Fds \cup {None} :
       LET s == [Loop EXCEPT !.at = at, !.fd = fd]
       IN  s \in Server /\ s.at = at /\ s.fd = fd
  /\ \A at \in {"loop", "ended"} :
       LET s == [Loop EXCEPT !.at = at] IN s \in Server /\ s.at = at /\ s.fd = None
<1>1. <<>> \in Seq(Messages) /\ {} \in SUBSET Fds
  OBVIOUS
<1>2. QED
  BY <1>1 DEF Loop, Server

\* The connection moves from the queue to a descriptor nothing is left on.
LEMMA AcceptStep ==
  ASSUME IInv, Accept
  PROVE  IInv'
<1>1. PICK fd \in Fds :
        /\ fds[fd] = None
        /\ fds' = [fds EXCEPT ![fd] = Head(backlog)]
        /\ server' = [Loop EXCEPT !.at = "reading", !.fd = fd]
  BY DEF Accept, Lowest, Free
<1>2. /\ backlog \in Seq(Connection) /\ backlog # <<>>
      /\ backlog' = Tail(backlog)
      /\ server.at = "loop" /\ server.fd = None /\ ~mutex /\ fd # None
      /\ UNCHANGED <<clients, inbox, subs, mutex, ipc>>
  BY IPCAssumption DEF Accept, IInv, TypeOK, Serving
<1>3. /\ server' \in Server
      /\ server'.at = "reading" /\ server'.fd = fd
  BY <1>1, LoopTyped
<1>4. /\ Len(backlog) \in Nat \ {0}
      /\ DOMAIN backlog = 1 .. Len(backlog)
      /\ backlog' \in Seq(Connection)
      /\ DOMAIN backlog' = 1 .. Len(backlog) - 1
      /\ \A i \in DOMAIN backlog' : /\ i + 1 \in DOMAIN backlog
                                   /\ backlog'[i] = backlog[i + 1]
      /\ 1 \in DOMAIN backlog /\ Head(backlog) = backlog[1]
      /\ backlog[1] \in Connection
  BY <1>2
<1>5. /\ fds' \in [Fds -> Connection \cup {None}]
      /\ fds'[fd] = backlog[1] /\ backlog[1] # None
      /\ \A g \in Fds \ {fd} : fds'[g] = fds[g]
  BY <1>1, <1>4, ConnectionAssumption DEF IInv, TypeOK
<1>6. TypeOK'
  BY <1>2, <1>3, <1>4, <1>5 DEF IInv, TypeOK
<1>7. Ends'
  <2>1. \A i \in DOMAIN backlog' : Agrees(clients, backlog'[i])
    BY <1>4 DEF IInv, Ends
  <2>2. \A g \in Fds : fds'[g] # None => Agrees(clients, fds'[g])
    BY <1>4, <1>5 DEF IInv, Ends
  <2>3. QED
    BY <1>2, <2>1, <2>2 DEF IInv, Ends
<1>8. Single(backlog', fds')
  <2>1. Single(backlog, fds)
    BY DEF IInv
  <2>2. \A i, j \in DOMAIN backlog' :
          backlog'[i].peer # None /\ backlog'[i].peer = backlog'[j].peer => i = j
    <3>1. \A i, j \in DOMAIN backlog' : i + 1 = j + 1 => i = j
      BY <1>4
    <3>2. QED
      BY <1>4, <2>1, <3>1 DEF Single
  <2>3. \A g, h \in Fds :
          /\ fds'[g] # None /\ fds'[h] # None
          /\ fds'[g].peer # None /\ fds'[g].peer = fds'[h].peer
          => g = h
    BY <1>4, <1>5, <2>1 DEF Single
  <2>4. \A i \in DOMAIN backlog', g \in Fds :
          fds'[g] # None /\ fds'[g].peer # None => fds'[g].peer # backlog'[i].peer
    <3>1. \A i \in DOMAIN backlog' : i + 1 # 1
      BY <1>4
    <3>2. QED
      BY <1>4, <1>5, <2>1, <3>1 DEF Single
  <2>5. QED
    BY <2>2, <2>3, <2>4 DEF Single
<1>9. Quiet'
  BY <1>2, <1>3, <1>4, <1>5 DEF IInv, Quiet
<1>10. subs[fd] = {}
  BY <1>1 DEF IInv, SubscriberAsked
<1>11. Serving'
  BY <1>2, <1>3, <1>5, <1>10 DEF Serving
<1>12. SubscriberAsked' /\ Kept'
  <2>1. SubscriberAsked'
    BY <1>2, <1>5, <1>10 DEF IInv, SubscriberAsked
  <2>2. \A g \in Fds : g # None
    BY IPCAssumption
  <2>3. Kept'
    BY <1>2, <1>3, <1>5, <2>2 DEF IInv, Kept
  <2>4. QED
    BY <2>1, <2>3
<1>13. Telling' /\ NoSelfDeadlock'
  BY <1>3 DEF Telling, NoSelfDeadlock
<1>14. QED
  BY <1>6, <1>7, <1>8, <1>9, <1>11, <1>12, <1>13 DEF IInv

\* What stays when the server closes the queue or leaves it, and the connections
\* and the clients are as they were.
LEMMA EndsKept ==
  ASSUME IInv, UNCHANGED <<clients, inbox, fds>>, backlog' \in {backlog, <<>>}
  PROVE  /\ Ends' /\ Single(backlog', fds')
         /\ backlog' \in Seq(Connection)
         /\ \A i \in DOMAIN backlog' :
              backlog'[i].peer # None => inbox'[backlog'[i].peer] = 0
<1>1. backlog' = backlog \/ DOMAIN backlog' = {}
  OBVIOUS
<1>2. backlog \in Seq(Connection) /\ <<>> \in Seq(Connection)
  BY DEF IInv, TypeOK
<1>3. QED
  BY <1>1, <1>2 DEF IInv, Ends, Single, Quiet

\* What the compositor notifies of are messages, never commands.
LEMMA ChangesNotified ==
  ASSUME NEW queue \in Occurring
  PROVE  queue \in Seq(Notified) /\ queue \in Seq(Messages) /\ queue # <<>>
<1>1. queue \in Changes
  BY OccurringAssumption
<1>2. /\ {"toplevel_list", "workspace_list", "output_list", "output_modes",
          "device_current", "keyboard_list", "device_list"} \subseteq Notified
      /\ Notified \subseteq Messages
  BY DEF Notified, Messages, OutputMessages, ToplevelMessages, ConfigMessages,
         DeviceMessages, Commands
<1>3. Seq(Notified) \subseteq Seq(Messages)
  BY <1>2
<1>4. \A a, b, c \in Notified :
        /\ <<a>> \in Seq(Notified) /\ <<a, b>> \in Seq(Notified)
        /\ <<a, b, c>> \in Seq(Notified)
        /\ <<a>> # <<>> /\ <<a, b>> # <<>> /\ <<a, b, c>> # <<>>
  OBVIOUS
<1>5. queue \in Seq(Notified) /\ queue # <<>>
  BY <1>1, <1>2, <1>4 DEF Changes
<1>6. QED
  BY <1>3, <1>5

\* The subscription is the first on its descriptor, and the mutex is free.
LEMMA ParseStep ==
  ASSUME IInv, Parse
  PROVE  IInv'
<1> DEFINE fd == server.fd
<1> DEFINE k == fds[server.fd]
<1> DEFINE req == Received(k)
<1>1. /\ fd \in Fds /\ fd # None /\ k \in Connection /\ k # None
      /\ server.at = "reading" /\ server \in Server
      /\ Readable(k) /\ subs[fd] = {} /\ ~mutex
      /\ UNCHANGED <<clients, inbox, fds, mutex>>
  BY Connections DEF Parse, IInv, Serving, TypeOK
<1>2. Handle(req.msg)
  BY DEF Parse
<1>3. /\ backlog' \in {backlog, <<>>} /\ ipc' \in BOOLEAN
      /\ server'.fd = fd /\ server' \in Server
      /\ \/ server'.at = "answering"
         \/ /\ server'.at = "locking" /\ req.msg \in Commands
            /\ server'.queue \in Seq(Notified) /\ server'.queue # <<>>
  <2>1. CASE req.msg = "exit" /\ Stop /\ server' = [server EXCEPT !.at = "answering"]
    BY <1>1, <2>1 DEF Stop, Server
  <2>2. CASE /\ req.msg \in Commands
             /\ \E queue \in Occurring :
                  server' = [server EXCEPT !.at = "locking", !.queue = queue]
             /\ UNCHANGED <<ipc, backlog>>
    <3>1. PICK queue \in Occurring :
            server' = [server EXCEPT !.at = "locking", !.queue = queue]
      BY <2>2
    <3>2. queue \in Seq(Notified) /\ queue \in Seq(Messages) /\ queue # <<>>
      BY ChangesNotified
    <3>3. QED
      BY <1>1, <2>2, <3>1, <3>2 DEF Server, IInv, TypeOK
  <2>3. CASE server' = [server EXCEPT !.at = "answering"] /\ UNCHANGED <<ipc, backlog>>
    BY <1>1, <2>3 DEF Server, IInv, TypeOK
  <2>4. QED
    BY <1>2, <2>1, <2>2, <2>3 DEF Handle
<1>4. /\ subs' \in [Fds -> SUBSET Messages]
      /\ \A g \in Fds \ {fd} : subs'[g] = subs[g]
      /\ Subscribes(req) => subs'[fd] = {req.msg}
      /\ ~Subscribes(req) => subs'[fd] = {}
  <2>1. subs \in [Fds -> SUBSET Messages] /\ req.msg \in Messages
    BY <1>1, ReceivedType DEF IInv, TypeOK
  <2>2. subs' = IF Subscribes(req) THEN [subs EXCEPT ![fd] = @ \cup {req.msg}] ELSE subs
    BY DEF Parse
  <2>3. QED
    BY <1>1, <2>1, <2>2
<1>5. TypeOK'
  BY <1>1, <1>3, <1>4, EndsKept DEF IInv, TypeOK
<1>6. Ends' /\ Single(backlog', fds')
  BY <1>1, <1>3, EndsKept
<1>7. Quiet'
  BY <1>1, <1>3, EndsKept DEF IInv, Quiet
<1>8. Serving'
  <2>1. Subscribes(req) => subs'[fd] # {}
    BY <1>4
  <2>2. QED
    BY <1>1, <1>3, <2>1 DEF Serving
<1>9. SubscriberAsked'
  BY <1>1, <1>4, ReceivedType DEF IInv, SubscriberAsked
<1>10. Kept'
  BY <1>1, <1>3, <1>4 DEF IInv, Kept
<1>11. Telling' /\ NoSelfDeadlock'
  BY <1>3 DEF Telling, NoSelfDeadlock
<1>12. QED
  BY <1>5, <1>6, <1>7, <1>8, <1>9, <1>10, <1>11 DEF IInv

\* A change in the compositor starts a notification without a connection.
LEMMA EventStep ==
  ASSUME IInv, Event
  PROVE  IInv'
<1>1. PICK queue \in Occurring :
        server' = [Loop EXCEPT !.at = "locking", !.queue = queue]
  BY DEF Event
<1>2. queue \in Seq(Notified) /\ queue \in Seq(Messages) /\ queue # <<>>
  BY ChangesNotified
<1>3. /\ server'.at = "locking" /\ server'.fd = None /\ server'.queue = queue
      /\ server' \in Server
  BY <1>1, <1>2 DEF Loop, Server
<1>4. /\ server.at = "loop" /\ server.fd = None /\ ~mutex
      /\ UNCHANGED <<clients, inbox, backlog, fds, subs, mutex, ipc>>
  BY DEF Event, IInv, Serving, TypeOK
<1>5. TypeOK' /\ Ends' /\ Single(backlog', fds')
  BY <1>3, <1>4, EndsKept DEF IInv, TypeOK
<1>6. QED
  BY <1>2, <1>3, <1>4, <1>5
  DEF IInv, Quiet, Serving, SubscriberAsked, Kept, Telling, NoSelfDeadlock

\* The end of the server, with or without a connection that is served.
LEMMA EndStep ==
  ASSUME IInv, Exit \/ Killed
  PROVE  IInv'
<1>1. /\ server.at \in {"loop", "answering"} /\ ~mutex
      /\ ipc' = FALSE /\ backlog' = <<>>
      /\ server' = [Loop EXCEPT !.at = "ended"]
      /\ UNCHANGED <<clients, inbox, fds, subs, mutex>>
  BY DEF Exit, Killed, Stop, IInv, TypeOK
<1>2. server'.at = "ended" /\ server'.fd = None /\ server' \in Server
  BY <1>1, LoopTyped
<1>3. TypeOK' /\ Ends' /\ Single(backlog', fds')
  BY <1>1, <1>2, EndsKept DEF IInv, TypeOK
<1>4. Quiet'
  BY <1>1, <1>2, EndsKept DEF IInv, Quiet
<1>5. QED
  BY <1>1, <1>2, <1>3, <1>4
  DEF IInv, Serving, SubscriberAsked, Kept, Telling, NoSelfDeadlock

\* A connection that cannot be read is closed, and had not subscribed.
LEMMA ReadFailsStep ==
  ASSUME IInv, ReadFails
  PROVE  IInv'
<1> DEFINE fd == server.fd
<1>1. /\ fd \in Fds /\ fd # None /\ subs[fd] = {} /\ ~mutex
      /\ server.at = "reading"
      /\ fds' = [fds EXCEPT ![fd] = None]
      /\ server' = Loop
      /\ UNCHANGED <<clients, inbox, backlog, subs, mutex, ipc>>
  BY Connections DEF ReadFails, IInv, Serving, TypeOK
<1>2. server' \in Server /\ server'.fd = None /\ server'.at = "loop"
  BY <1>1, LoopTyped DEF Loop
<1> HIDE DEF fd
<1>3. /\ fds' \in [Fds -> Connection \cup {None}] /\ fds'[fd] = None
      /\ \A g \in Fds \ {fd} : fds'[g] = fds[g]
  BY <1>1 DEF IInv, TypeOK
<1>4. TypeOK'
  BY <1>1, <1>2, <1>3 DEF IInv, TypeOK
<1>5. Ends'
  BY <1>1, <1>3 DEF IInv, Ends
<1>6. Single(backlog', fds')
  <2>1. \A i \in DOMAIN backlog' : backlog'[i].peer \in {backlog[i].peer, None}
    BY <1>1
  <2>2. \A g \in Fds : fds'[g] # None =>
          fds[g] # None /\ fds'[g].peer \in {fds[g].peer, None}
    BY <1>1, <1>3
  <2>3. QED
    BY <1>1, <2>1, <2>2, SingleKept DEF IInv
<1>7. Quiet'
  BY <1>1, <1>2 DEF IInv, Quiet
<1>8. Serving' /\ Telling' /\ NoSelfDeadlock'
  BY <1>2 DEF Serving, Telling, NoSelfDeadlock
<1>9. SubscriberAsked'
  BY <1>1, <1>3 DEF IInv, SubscriberAsked
<1>10. Kept'
  BY <1>1, <1>2, <1>3 DEF IInv, Kept, fd
<1>11. QED
  BY <1>4, <1>5, <1>6, <1>7, <1>8, <1>9, <1>10 DEF IInv

\* The mutex is free when notify_clients takes it.
LEMMA LockStep ==
  ASSUME IInv, Lock
  PROVE  IInv'
<1>1. /\ server.at = "locking" /\ ~mutex /\ server \in Server
      /\ UNCHANGED <<clients, inbox, backlog, fds, subs, ipc>>
  BY DEF Lock, IInv, TypeOK
<1> DEFINE todo == Subscribed(Head(server.queue))
<1>2. server' = [server EXCEPT !.at = "notifying", !.todo = todo]
  BY <1>1 DEF Lock
<1>3. todo \in SUBSET Fds
  BY DEF Subscribed
<1>4. /\ server' \in Server /\ server'.at = "notifying" /\ server'.todo = todo
      /\ server'.fd = server.fd /\ server'.queue = server.queue
  BY <1>1, <1>2, <1>3 DEF Server
<1>5. TypeOK' /\ Ends' /\ Single(backlog', fds')
  BY <1>1, <1>4, EndsKept DEF IInv, TypeOK
<1>6. Quiet' /\ Serving'
  BY <1>1, <1>4 DEF IInv, Quiet, Serving
<1>7. SubscriberAsked' /\ Kept' /\ NoSelfDeadlock'
  BY <1>1, <1>4 DEF IInv, SubscriberAsked, Kept, NoSelfDeadlock
<1>8. Telling'
  BY <1>1, <1>4 DEF Telling, Subscribed
<1>9. QED
  BY <1>5, <1>6, <1>7, <1>8 DEF IInv

\* A subscriber that is notified is not the connection whose command changed
\* something: that one, if it has subscribed, has subscribed to the command.
LEMMA ServedNotNotified ==
  ASSUME IInv, server.at = "notifying", NEW fd \in server.todo
  PROVE  /\ fd \in Fds /\ fd # server.fd /\ fds[fd] # None
         /\ Head(server.queue) \in subs[fd]
<1>1. fd \in Subscribed(Head(server.queue))
  BY DEF IInv, Telling
<1>2. fd \in Fds /\ Head(server.queue) \in subs[fd]
  BY <1>1 DEF Subscribed
<1>3. fds[fd] # None /\ fds[fd].req # None /\ subs[fd] = {fds[fd].req.msg}
  BY <1>2 DEF IInv, SubscriberAsked
<1>4. server.queue \in Seq(Notified) /\ server.queue # <<>>
  BY DEF IInv, Serving
<1>5. Head(server.queue) \in Notified
  BY <1>4
<1>6. Received(fds[fd]).msg \notin Commands
  BY <1>2, <1>3, <1>5 DEF Received, Notified
<1>7. fd # server.fd
  BY <1>2, <1>6, IPCAssumption DEF IInv, Serving
<1>8. QED
  BY <1>2, <1>3, <1>7

\* One subscriber is dropped or told: never one that is being served.
LEMMA SendStep ==
  ASSUME IInv, Send
  PROVE  IInv'
<1>1. PICK fd \in server.todo :
        LET peer == fds[fd].peer IN
        \/ /\ peer = None
           /\ Drop(fd)
           /\ server' = [server EXCEPT !.todo = Past(fd)]
           /\ UNCHANGED inbox
        \/ /\ peer # None
           /\ inbox[peer] < Capacity
           /\ inbox' = [inbox EXCEPT ![peer] = @ + 1]
           /\ server' = [server EXCEPT !.todo = Past(fd), !.told = @ \cup {fd}]
           /\ UNCHANGED <<fds, subs>>
  BY DEF Send, Lowest
<1>2. /\ server.at = "notifying" /\ server \in Server
      /\ UNCHANGED <<clients, backlog, mutex, ipc>>
  BY DEF Send, IInv, TypeOK
<1> DEFINE peer == fds[fd].peer
<1>3. /\ fd \in Fds /\ fd # server.fd /\ fds[fd] # None
      /\ Head(server.queue) \in subs[fd] /\ peer \in Clients \cup {None}
  BY <1>2, ServedNotNotified, Connections
<1>4. Past(fd) \in SUBSET Fds /\ Past(fd) = server.todo \ {fd}
  BY <1>2 DEF Past, Server
<1>5. CASE peer = None
  <2>1. /\ fds' = [fds EXCEPT ![fd] = None]
        /\ subs' = [subs EXCEPT ![fd] = {}]
        /\ server' = [server EXCEPT !.todo = Past(fd)]
        /\ inbox' = inbox
    BY <1>1, <1>5 DEF Drop
  <2>2. /\ server' \in Server /\ server'.at = "notifying"
        /\ server'.todo = server.todo \ {fd} /\ server'.told = server.told
        /\ server'.fd = server.fd /\ server'.queue = server.queue
    BY <1>2, <1>4, <2>1 DEF Server
  <2>3. /\ fds' \in [Fds -> Connection \cup {None}] /\ fds'[fd] = None
        /\ \A g \in Fds \ {fd} : fds'[g] = fds[g]
        /\ subs' \in [Fds -> SUBSET Messages] /\ subs'[fd] = {}
        /\ \A g \in Fds \ {fd} : subs'[g] = subs[g]
    BY <1>3, <2>1 DEF IInv, TypeOK
  <2>4. TypeOK'
    BY <1>2, <2>1, <2>2, <2>3 DEF IInv, TypeOK
  <2>5. Ends'
    BY <1>2, <2>3 DEF IInv, Ends
  <2>6. Single(backlog', fds')
    <3>1. \A i \in DOMAIN backlog' : backlog'[i].peer \in {backlog[i].peer, None}
      BY <1>2
    <3>2. \A g \in Fds : fds'[g] # None =>
            fds[g] # None /\ fds'[g].peer \in {fds[g].peer, None}
      BY <2>3
    <3>3. QED
      BY <1>2, <3>1, <3>2, SingleKept DEF IInv
  <2>7. server.fd # None => server.fd \in Fds \ {fd}
    BY <1>3, Connections
  <2>8. Quiet' /\ Serving'
    BY <1>2, <2>1, <2>2, <2>3, <2>7 DEF IInv, Quiet, Serving
  <2>9. SubscriberAsked' /\ Kept'
    BY <1>2, <2>2, <2>3 DEF IInv, SubscriberAsked, Kept
  <2>10. Telling' /\ NoSelfDeadlock'
    BY <1>2, <2>2, <2>3 DEF IInv, Telling, NoSelfDeadlock, Subscribed
  <2>11. QED
    BY <2>4, <2>5, <2>6, <2>8, <2>9, <2>10 DEF IInv
<1>6. CASE peer # None
  <2>1. /\ inbox[peer] < Capacity
        /\ inbox' = [inbox EXCEPT ![peer] = @ + 1]
        /\ server' = [server EXCEPT !.todo = Past(fd), !.told = @ \cup {fd}]
        /\ UNCHANGED <<fds, subs>>
    BY <1>1, <1>6
  <2>2. /\ server' \in Server /\ server'.at = "notifying"
        /\ server'.todo = server.todo \ {fd}
        /\ server'.told = server.told \cup {fd}
        /\ server'.fd = server.fd /\ server'.queue = server.queue
    BY <1>2, <1>3, <1>4, <2>1 DEF Server
  <2>3. /\ peer \in Clients
        /\ inbox' \in [Clients -> 0 .. Capacity]
        /\ \A c \in Clients \ {peer} : inbox'[c] = inbox[c]
    BY <1>3, <1>6, <2>1, IPCAssumption DEF IInv, TypeOK
  <2>4. TypeOK'
    BY <1>2, <2>1, <2>2, <2>3 DEF IInv, TypeOK
  <2>5. Ends' /\ Single(backlog', fds')
    BY <1>2, <2>1 DEF IInv, Ends, Single
  <2>6. /\ clients[peer].at # "off"
        /\ \A i \in DOMAIN backlog : backlog[i].peer # peer
        /\ server.fd # None => fds[server.fd].peer # peer
    BY <1>3, <1>6, Connections DEF IInv, Ends, Agrees, Single, Serving
  <2>7. Quiet'
    BY <1>2, <2>1, <2>2, <2>3, <2>6, Connections DEF IInv, Quiet
  <2>8. Serving' /\ SubscriberAsked' /\ Kept'
    BY <1>2, <2>1, <2>2 DEF IInv, Serving, SubscriberAsked, Kept
  <2>9. Telling' /\ NoSelfDeadlock'
    BY <1>2, <2>1, <2>2 DEF IInv, Telling, NoSelfDeadlock, Subscribed
  <2>10. QED
    BY <2>4, <2>5, <2>7, <2>8, <2>9 DEF IInv
<1>7. QED
  BY <1>5, <1>6

\* The handler that called notify_clients goes on with its own connection.
LEMMA UnlockStep ==
  ASSUME IInv, Unlock
  PROVE  IInv'
<1> DEFINE rest == [server EXCEPT !.at = "locking", !.queue = Tail(@), !.told = {}]
<1>1. /\ server.at = "notifying" /\ server \in Server /\ mutex' = FALSE
      /\ UNCHANGED <<clients, inbox, backlog, fds, subs, ipc>>
      /\ server' = IF rest.queue # <<>> THEN rest
                   ELSE IF server.fd = None THEN Loop
                   ELSE [rest EXCEPT !.at = "answering"]
  BY DEF Unlock, IInv, TypeOK
<1>2. /\ server.queue \in Seq(Messages)
      /\ server.queue \in Seq(Notified) /\ server.queue # <<>>
  BY <1>1 DEF IInv, Serving, Server
<1>3. Tail(server.queue) \in Seq(Messages) /\ Tail(server.queue) \in Seq(Notified)
  BY <1>2
<1>4. /\ rest \in Server /\ rest.at = "locking" /\ rest.fd = server.fd
      /\ rest.queue = Tail(server.queue)
      /\ LET done == [rest EXCEPT !.at = "answering"]
         IN  done \in Server /\ done.at = "answering" /\ done.fd = server.fd
  BY <1>1, <1>3 DEF Server
<1>5. /\ server' \in Server /\ server'.fd = server.fd
      /\ \/ /\ server'.at = "locking"
            /\ server'.queue \in Seq(Notified) /\ server'.queue # <<>>
         \/ server'.at = "loop" /\ server.fd = None
         \/ server'.at = "answering" /\ server.fd # None
  <2>1. Loop.at = "loop"
    BY DEF Loop
  <2>2. QED
    BY <1>1, <1>3, <1>4, <2>1, LoopTyped
<1>6. TypeOK' /\ Ends' /\ Single(backlog', fds')
  BY <1>1, <1>5, EndsKept DEF IInv, TypeOK
<1>7. Quiet' /\ Serving'
  BY <1>1, <1>5 DEF IInv, Quiet, Serving
<1>8. SubscriberAsked' /\ Kept' /\ Telling' /\ NoSelfDeadlock'
  BY <1>1, <1>5 DEF IInv, SubscriberAsked, Kept, Telling, NoSelfDeadlock
<1>9. QED
  BY <1>6, <1>7, <1>8 DEF IInv

\* A connection that stays open is one that has subscribed.
LEMMA AnswerStep ==
  ASSUME IInv, Answer
  PROVE  IInv'
<1> DEFINE fd == server.fd
<1> DEFINE k == fds[server.fd]
<1>1. /\ fd \in Fds /\ fd # None /\ k \in Connection /\ k # None
      /\ k.peer \in Clients \cup {None}
      /\ server.at = "answering" /\ ~mutex
      /\ k.peer # None => inbox[k.peer] = 0
      /\ Readable(k) /\ (Subscribes(Received(k)) => subs[fd] # {})
      /\ UNCHANGED <<clients, backlog, subs, mutex, ipc>>
  BY Connections DEF Answer, IInv, Quiet, Serving, TypeOK
<1>2. /\ inbox' = IF k.peer = None THEN inbox ELSE [inbox EXCEPT ![k.peer] = @ + 1]
      /\ fds' = [fds EXCEPT ![fd] = Closed(k)]
      /\ server' = IF ipc THEN Loop ELSE [Loop EXCEPT !.at = "ended"]
  BY DEF Answer
<1>3. server' \in Server /\ server'.fd = None /\ server'.at \in {"loop", "ended"}
  BY <1>2, LoopTyped DEF Loop
<1>4. /\ fds' \in [Fds -> Connection \cup {None}] /\ fds'[fd] = Closed(k)
      /\ Closed(k) \in {k, None}
      /\ \A g \in Fds \ {fd} : fds'[g] = fds[g]
  BY <1>1, <1>2 DEF IInv, TypeOK, Closed
<1>5. inbox' \in [Clients -> 0 .. Capacity]
  BY <1>1, <1>2, IPCAssumption DEF IInv, TypeOK
<1>6. TypeOK'
  BY <1>1, <1>3, <1>4, <1>5 DEF IInv, TypeOK
<1>7. Ends'
  BY <1>1, <1>4 DEF IInv, Ends
<1>8. Single(backlog', fds')
  <2>1. \A i \in DOMAIN backlog' : backlog'[i].peer \in {backlog[i].peer, None}
    BY <1>1
  <2>2. \A g \in Fds : fds'[g] # None =>
          fds[g] # None /\ fds'[g].peer \in {fds[g].peer, None}
    BY <1>1, <1>4
  <2>3. QED
    BY <1>1, <2>1, <2>2, SingleKept DEF IInv
<1>9. k.peer # None => /\ clients[k.peer].at # "off"
                       /\ \A i \in DOMAIN backlog : backlog[i].peer # k.peer
  BY <1>1 DEF IInv, Ends, Agrees, Single
<1>10. Quiet'
  <2>1. \A c \in Clients : c # k.peer => inbox'[c] = inbox[c]
    BY <1>1, <1>2 DEF IInv, TypeOK
  <2>2. \A c \in Clients : clients'[c].at = "off" => inbox'[c] = 0
    <3>1. \A c \in Clients : clients[c].at = "off" => c # k.peer
      BY <1>1, <1>9, IPCAssumption
    <3>2. QED
      BY <1>1, <2>1, <3>1 DEF IInv, Quiet
  <2>3. \A i \in DOMAIN backlog' :
          backlog'[i].peer # None => inbox'[backlog'[i].peer] = 0
    <3>1. \A i \in DOMAIN backlog : backlog[i].peer # None =>
            backlog[i].peer \in Clients /\ backlog[i].peer # k.peer
      BY <1>9, Connections
    <3>2. QED
      BY <1>1, <2>1, <3>1 DEF IInv, Quiet
  <2>4. QED
    BY <1>3, <2>2, <2>3 DEF Quiet
<1>11. Serving' /\ Telling' /\ NoSelfDeadlock'
  BY <1>3 DEF Serving, Telling, NoSelfDeadlock
<1>12. subs[fd] # {} => Closed(k) = k
  BY <1>1 DEF IInv, SubscriberAsked, Received, Closed
<1>13. SubscriberAsked'
  BY <1>1, <1>4, <1>12 DEF IInv, SubscriberAsked
<1>14. Closed(k) # None =>
         subs[fd] # {} \/ (Received(k).cont /\ Received(k).msg = "none")
  BY <1>1 DEF Closed, Subscribes
<1>15. Kept'
  BY <1>1, <1>4, <1>14 DEF IInv, Kept
<1>16. QED
  BY <1>6, <1>7, <1>8, <1>10, <1>11, <1>13, <1>15 DEF IInv

-----------------------------------------------------------------------------
(* The theorems *)

\* The invariant is about the variables of the specification only.
LEMMA StutterStep ==
  ASSUME IInv, UNCHANGED vars
  PROVE  IInv'
<1>1. UNCHANGED <<clients, inbox, backlog, fds, subs, mutex, ipc, server>>
  BY DEF vars
<1>2. QED
  BY <1>1 DEF IInv, TypeOK, Ends, Single, Quiet, Serving, SubscriberAsked, Kept,
              Telling, NoSelfDeadlock, Subscribed

\* Nobody is connected at first.
LEMMA InitIInv == Init => IInv
<1> SUFFICES ASSUME Init PROVE IInv
  OBVIOUS
<1>1. /\ Off \in Client /\ Off.at = "off" /\ Loop.at = "loop"
      /\ <<>> \in Seq(Connection) /\ DOMAIN <<>> = {}
  BY DEF Off, Client, Loop
<1>2. TypeOK
  <2>1. inbox \in [Clients -> 0 .. Capacity]
    BY IPCAssumption DEF Init
  <2>2. /\ clients \in [Clients -> Client] /\ backlog \in Seq(Connection)
        /\ fds \in [Fds -> Connection \cup {None}]
        /\ subs \in [Fds -> SUBSET Messages]
    BY <1>1 DEF Init
  <2>3. ipc \in BOOLEAN /\ server \in Server /\ ~mutex
    BY LoopTyped DEF Init
  <2>4. QED
    BY <2>1, <2>2, <2>3 DEF TypeOK
<1>3. Ends /\ Single(backlog, fds)
  BY <1>1 DEF Init, Ends, Single
<1>4. Quiet /\ Serving
  BY <1>1, LoopTyped DEF Init, Quiet, Serving
<1>5. SubscriberAsked /\ Kept /\ Telling /\ NoSelfDeadlock
  BY <1>1 DEF Init, SubscriberAsked, Kept, Telling, NoSelfDeadlock
<1>6. QED
  BY <1>2, <1>3, <1>4, <1>5 DEF IInv

\* The invariant holds in every state the server and its clients reach.
THEOREM Inductive == Spec => []IInv
<1>1. IInv /\ [Next]_vars => IInv'
  <2> SUFFICES ASSUME IInv, [Next]_vars PROVE IInv'
    OBVIOUS
  <2>1. CASE ServerNext
    BY <2>1, AcceptStep, ParseStep, ReadFailsStep, EventStep, EndStep, LockStep,
       SendStep, UnlockStep, AnswerStep
    DEF ServerNext
  <2>2. ASSUME NEW c \in Clients,
               \/ \E req \in Requests : Connect(c, req)
               \/ Write(c) \/ Read(c) \/ GiveUp(c) \/ Die(c)
        PROVE  IInv'
    <3>1. Gone(c) => IInv'
      BY GoneStep
    <3>2. QED
      BY <2>2, <3>1, ConnectStep, WriteStep, ReadStep DEF GiveUp, Die
  <2>3. CASE UNCHANGED vars
    BY <2>3, StutterStep
  <2>4. QED
    BY <2>1, <2>2, <2>3 DEF Next
<1>2. QED
  BY InitIInv, <1>1, PTL DEF Spec

\* Clients, connections, subscriptions and the server keep their types, and the
\* mutex is held inside notify_clients only.
THEOREM TypeCorrect == Spec => []TypeOK
<1>1. IInv => TypeOK
  BY DEF IInv
<1>2. QED
  BY Inductive, <1>1, PTL

\* The thread never waits for the mutex it holds itself.
THEOREM NeverStuck == Spec => []NoSelfDeadlock
<1>1. IInv => NoSelfDeadlock
  BY DEF IInv
<1>2. QED
  BY Inductive, <1>1, PTL

\* A subscription is the one its connection's client asked for, however often the
\* descriptor has been used before.
THEOREM SubscriptionsAskedFor == Spec => []SubscriberAsked
<1>1. IInv => SubscriberAsked
  BY DEF IInv
<1>2. QED
  BY Inductive, <1>1, PTL

\* Between two handlers, no connection is open that nobody waits on, other than
\* those whose request was not understood.
THEOREM NoConnectionLeaks == Spec => []NothingLeaks
<1>1. IInv => NothingLeaks
  <2> SUFFICES ASSUME IInv, server.at = "loop", NEW fd \in Fds \ Free
               PROVE  \/ subs[fd] # {}
                      \/ Received(fds[fd]).cont /\ Received(fds[fd]).msg = "none"
    BY DEF NothingLeaks
  <2>1. fds[fd] # None /\ fd # server.fd
    BY IPCAssumption DEF Free, IInv, Serving
  <2>2. QED
    BY <2>1 DEF IInv, Kept
<1>2. QED
  BY Inductive, <1>1, PTL

\* Every subscriber of a message has been sent it when the loop over them ends,
\* also when connections were erased on the way.
THEOREM EverySubscriberTold == Spec => []NobodySkipped
<1>1. IInv => NobodySkipped
  BY DEF IInv, Telling, NobodySkipped
<1>2. QED
  BY Inductive, <1>1, PTL

=============================================================================
