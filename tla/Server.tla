-------------------------------- MODULE Server --------------------------------
(***************************************************************************)
(* Server (app/Networking): the network thread, its registry of clients    *)
(* and the callbacks it makes, over the connections of                     *)
(* GameNetworkingSockets ("GNS" below), whose state changes under the      *)
(* thread's feet.                                                          *)
(*                                                                         *)
(* GNS is an external library and is modelled from how the code uses it: a *)
(* connection has a state; every change of state queues an event, and      *)
(* RunCallbacks dispatches the events in queue order; messages of the      *)
(* connections of a poll group are received in the order they came in;     *)
(* CloseConnection destroys a connection and the messages it still holds.  *)
(*                                                                         *)
(* ServerLayer starts the thread before it sets the three callbacks, so    *)
(* the program's start is part of the model.                               *)
(***************************************************************************)
EXTENDS Naturals, Sequences, FiniteSets

CONSTANTS Conns,     \* connection handles; a handle is used once
          MaxInbox,  \* bound: messages waiting in the poll group
          MaxKicks   \* bound: calls of KickClient

ASSUME InboxAssumption == MaxInbox \in Nat
ASSUME KicksAssumption == MaxKicks \in Nat

CONSTANT NoConn
ASSUME NoConnAssumption == NoConn \notin Conns

Callbacks == {"connected", "disconnected", "data"}

VARIABLES
  pc,        \* where the network thread is in NetworkThreadFunc
  cur,       \* the connection being accepted, or whose message is in hand
  size,      \* the size of the message in hand: "empty" or "data"
  running,   \* m_Running
  stopAsked, \* Stop was called
  clients,   \* the keys of m_ConnectedClients
  callbacks, \* the callbacks ServerLayer has set
  conn,      \* GNS: the state of each connection
  events,    \* GNS: status changes not yet dispatched
  inbox,     \* GNS: received messages of the poll group
  kicked,    \* connections KickClient was called for
  proc,      \* "running", or "terminated" by an uncaught exception or worse
  served,    \* history: connections whose client was reported connected
  said       \* history: the last callback made

vars == <<pc, cur, size, running, stopAsked, clients, callbacks, conn, events,
          inbox, kicked, proc, served, said>>
gns == <<conn, events, inbox>>
history == <<served, said>>

Pcs == {"start", "init", "loop", "recv", "deliver", "events", "accepted", "done"}
States == {"none", "connecting", "connected", "closed", "destroyed"}
Event == [conn : Conns, old : States, new : States]
Msg == [conn : Conns, size : {"empty", "data"}]

TypeOK ==
  /\ pc \in Pcs /\ cur \in Conns \cup {NoConn} /\ size \in {"empty", "data"}
  /\ running \in BOOLEAN /\ stopAsked \in BOOLEAN
  /\ clients \subseteq Conns /\ callbacks \subseteq Callbacks
  /\ conn \in [Conns -> States]
  /\ events \in Seq(Event) /\ inbox \in Seq(Msg)
  /\ kicked \subseteq Conns /\ served \subseteq Conns
  /\ proc \in {"running", "terminated"}
  /\ said \in {<<"nothing">>} \cup ({"connected", "data", "disconnected"} \X Conns)

\* Server::Start has just created the thread.
Init ==
  /\ pc = "start" /\ cur = NoConn /\ size = "empty"
  /\ running = FALSE /\ stopAsked = FALSE
  /\ clients = {} /\ callbacks = {}
  /\ conn = [c \in Conns |-> "none"] /\ events = <<>> /\ inbox = <<>>
  /\ kicked = {} /\ proc = "running"
  /\ served = {} /\ said = <<"nothing">>

Alive == proc = "running"
Listening == pc \notin {"start", "init", "done"}

\* An std::function that was never assigned throws when it is called, and nothing
\* on the network thread catches it.
CallBack(name, c) ==
  IF name \in callbacks
  THEN said' = <<name, c>> /\ UNCHANGED proc
  ELSE proc' = "terminated" /\ UNCHANGED said

-----------------------------------------------------------------------------
(* GNS and the peers.                                                       *)

StatusChange(c, new) ==
  /\ conn' = [conn EXCEPT ![c] = new]
  /\ events' = Append(events, [conn |-> c, old |-> conn[c], new |-> new])

\* A peer opens a connection to the listen socket.
PeerConnects(c) ==
  /\ Alive /\ Listening /\ conn[c] = "none"
  /\ StatusChange(c, "connecting")
  /\ UNCHANGED <<pc, cur, size, running, stopAsked, clients, callbacks, inbox,
                 kicked, proc, history>>

\* The peer closes the connection, or GNS detects a problem locally.
PeerCloses(c) ==
  /\ Alive /\ conn[c] \in {"connecting", "connected"}
  /\ StatusChange(c, "closed")
  /\ UNCHANGED <<pc, cur, size, running, stopAsked, clients, callbacks, inbox,
                 kicked, proc, history>>

PeerSends(c, s) ==
  /\ Alive /\ conn[c] = "connected" /\ Len(inbox) < MaxInbox
  /\ inbox' = Append(inbox, [conn |-> c, size |-> s])
  /\ UNCHANGED <<pc, cur, size, running, stopAsked, clients, callbacks, conn,
                 events, kicked, proc, history>>

\* The messages of a connection are dropped, the others stay in their order.
DropMessages(c) ==
  LET left == {i \in DOMAIN inbox : inbox[i].conn # c}
  IN \E f \in [1..Cardinality(left) -> left] :
       /\ \A i, j \in DOMAIN f : i < j => f[i] < f[j]
       /\ inbox' = [i \in DOMAIN f |-> inbox[f[i]]]

\* ISteamNetworkingSockets::CloseConnection, with the events still queued: nothing
\* happens to a handle that is no longer valid.
CloseConnection(c, queue) ==
  IF conn[c] = "destroyed" THEN events' = queue /\ UNCHANGED <<conn, inbox>>
  ELSE /\ conn' = [conn EXCEPT ![c] = "destroyed"]
       /\ events' = Append(queue, [conn |-> c, old |-> conn[c], new |-> "destroyed"])
       /\ DropMessages(c)

Environment ==
  \E c \in Conns : \/ PeerConnects(c) \/ PeerCloses(c)
                   \/ \E s \in {"empty", "data"} : PeerSends(c, s)

-----------------------------------------------------------------------------
(* Other threads of the program.                                            *)

\* The rest of ServerLayer's constructor, in its order.
SetCallback(name) ==
  /\ Alive
  /\ \/ name = "connected" /\ callbacks = {}
     \/ name = "disconnected" /\ callbacks = {"connected"}
     \/ name = "data" /\ callbacks = {"connected", "disconnected"}
  /\ callbacks' = callbacks \cup {name}
  /\ UNCHANGED <<pc, cur, size, running, stopAsked, clients, gns, kicked, proc,
                 history>>

Stop ==
  /\ Alive /\ ~stopAsked
  /\ running' = FALSE /\ stopAsked' = TRUE
  /\ UNCHANGED <<pc, cur, size, clients, callbacks, gns, kicked, proc, history>>

\* Mutant: KickClient forgets the client itself.
KickAndForget(c) ==
  /\ Alive /\ c \in clients \ kicked /\ Cardinality(kicked) < MaxKicks
  /\ kicked' = kicked \cup {c}
  /\ clients' = clients \ {c}
  /\ CloseConnection(c, events)
  /\ UNCHANGED <<pc, cur, size, running, stopAsked, callbacks, proc, history>>

\* KickClient, for a client the caller found with GetConnectedClients.
KickClient(c) ==
  /\ Alive /\ c \in clients \ kicked /\ Cardinality(kicked) < MaxKicks
  /\ kicked' = kicked \cup {c}
  /\ CloseConnection(c, events)
  /\ UNCHANGED <<pc, cur, size, running, stopAsked, clients, callbacks, proc,
                 history>>

OtherThreads ==
  Stop \/ (\E name \in Callbacks : SetCallback(name)) \/ (\E c \in Conns : KickClient(c))

-----------------------------------------------------------------------------
(* The network thread: NetworkThreadFunc and the two polls.                 *)

At(p) == Alive /\ pc = p

\* m_Running = true, whatever happened since Start.
ThreadStarts ==
  /\ At("start")
  /\ running' = TRUE /\ pc' = "init"
  /\ UNCHANGED <<cur, size, stopAsked, clients, callbacks, gns, kicked, proc, history>>

\* GNS, the listen socket and the poll group: one of them failing is fatal.
Listen ==
  /\ At("init")
  /\ \/ pc' = "loop" /\ UNCHANGED running
     \/ pc' = "done" /\ running' = FALSE
  /\ UNCHANGED <<cur, size, stopAsked, clients, callbacks, gns, kicked, proc, history>>

\* Mutant: the loop does not look at m_Running.
LoopOn ==
  /\ At("loop")
  /\ pc' = "recv"
  /\ UNCHANGED <<cur, size, running, stopAsked, clients, callbacks, gns, kicked, proc,
                 history>>

\* while (m_Running); after the loop every client is closed and forgotten, without
\* callbacks, and the listen socket takes its unaccepted connections along.
LoopHead ==
  /\ At("loop")
  /\ \/ /\ running
        /\ pc' = "recv"
        /\ UNCHANGED <<clients, gns>>
     \/ /\ ~running
        /\ pc' = "done" /\ clients' = {}
        /\ conn' = [c \in Conns |-> IF c \in clients \/ conn[c] = "connecting"
                                    THEN "destroyed" ELSE conn[c]]
        /\ inbox' = <<>> /\ UNCHANGED events
  /\ UNCHANGED <<cur, size, running, stopAsked, callbacks, kicked, proc, history>>

\* PollIncomingMessages: one message at a time, until none is left or the server
\* was stopped. (messageCount < 0, a bad poll group, also stops it.)
ReceiveMessage ==
  /\ At("recv") /\ running /\ inbox # <<>>
  /\ cur' = Head(inbox).conn /\ size' = Head(inbox).size
  /\ inbox' = Tail(inbox)
  /\ pc' = "deliver"
  /\ UNCHANGED <<running, stopAsked, clients, callbacks, conn, events, kicked, proc,
                 history>>

ReceiveNothing ==
  /\ At("recv")
  /\ ~running \/ inbox = <<>>
  /\ pc' = "events"
  /\ UNCHANGED <<cur, size, running, stopAsked, clients, callbacks, gns, kicked, proc,
                 history>>

ReceiveFails ==
  /\ At("recv") /\ running
  /\ running' = FALSE /\ pc' = "events"
  /\ UNCHANGED <<cur, size, stopAsked, clients, callbacks, gns, kicked, proc, history>>

\* A message of an unregistered connection is logged and skipped (and not released).
DeliverMessage ==
  /\ At("deliver")
  /\ IF cur \in clients /\ size # "empty" THEN CallBack("data", cur)
                                         ELSE UNCHANGED <<proc, said>>
  /\ cur' = NoConn /\ size' = "empty" /\ pc' = "recv"
  /\ UNCHANGED <<running, stopAsked, clients, callbacks, gns, kicked, served>>

\* RunCallbacks: OnConnectionStatusChanged for every queued event.
EventsDone ==
  /\ At("events") /\ events = <<>>
  /\ pc' = "loop"
  /\ UNCHANGED <<cur, size, running, stopAsked, clients, callbacks, gns, kicked, proc,
                 history>>

\* Mutant: the client is not erased.
LeaveRegistered ==
  /\ At("events") /\ events # <<>>
  /\ Head(events).new = "closed" /\ Head(events).old = "connected"
  /\ CallBack("disconnected", Head(events).conn)
  /\ CloseConnection(Head(events).conn, Tail(events))
  /\ UNCHANGED <<pc, cur, size, running, stopAsked, clients, callbacks, kicked, served>>

\* ClosedByPeer or ProblemDetectedLocally, from Connected: tell the user, forget
\* the client, destroy the connection. The client found is not tested: with none
\* the iterator past the end is read and erased. A callback that throws leaves the
\* rest of the handler undone.
ClientLeaves ==
  /\ At("events") /\ events # <<>>
  /\ Head(events).new = "closed" /\ Head(events).old = "connected"
  /\ LET c == Head(events).conn
     IN IF c \in clients
        THEN /\ CallBack("disconnected", c)
             /\ IF "disconnected" \in callbacks
                THEN clients' = clients \ {c} /\ CloseConnection(c, Tail(events))
                ELSE UNCHANGED <<clients, gns>>
        ELSE proc' = "terminated" /\ UNCHANGED <<said, clients, gns>>
  /\ UNCHANGED <<pc, cur, size, running, stopAsked, callbacks, kicked, served>>

\* Mutant: the old state is not tested, so the user is told of every closing.
TellAlways ==
  /\ At("events") /\ events # <<>>
  /\ Head(events).new = "closed" /\ Head(events).old # "connected"
  /\ CallBack("disconnected", Head(events).conn)
  /\ CloseConnection(Head(events).conn, Tail(events))
  /\ UNCHANGED <<pc, cur, size, running, stopAsked, clients, callbacks, kicked, served>>

\* ... and from Connecting: it was never accepted.
NeverAccepted ==
  /\ At("events") /\ events # <<>>
  /\ Head(events).new = "closed" /\ Head(events).old # "connected"
  /\ CloseConnection(Head(events).conn, Tail(events))
  /\ UNCHANGED <<pc, cur, size, running, stopAsked, clients, callbacks, kicked, proc,
                 history>>

\* Connecting: AcceptConnection fails when the connection is already closed.
Accept ==
  /\ At("events") /\ events # <<>>
  /\ Head(events).new = "connecting"
  /\ LET c == Head(events).conn
     IN IF conn[c] = "connecting"
        THEN /\ conn' = [conn EXCEPT ![c] = "connected"]
             /\ events' = Append(Tail(events),
                                 [conn |-> c, old |-> "connecting", new |-> "connected"])
             /\ cur' = c /\ pc' = "accepted" /\ UNCHANGED inbox
        ELSE CloseConnection(c, Tail(events)) /\ UNCHANGED <<pc, cur>>
  /\ UNCHANGED <<size, running, stopAsked, clients, callbacks, kicked, proc, history>>

\* SetConnectionPollGroup cannot fail here (the handle is valid until the server
\* closes it); then the client is registered and the user told.
RegisterClient ==
  /\ At("accepted")
  /\ clients' = clients \cup {cur}
  /\ served' = IF "connected" \in callbacks THEN served \cup {cur} ELSE served
  /\ CallBack("connected", cur)
  /\ cur' = NoConn /\ pc' = "events"
  /\ UNCHANGED <<size, running, stopAsked, callbacks, gns, kicked>>

\* None and Connected are ignored.
IgnoreEvent ==
  /\ At("events") /\ events # <<>>
  /\ Head(events).new \in {"connected", "destroyed"}
  /\ events' = Tail(events)
  /\ UNCHANGED <<pc, cur, size, running, stopAsked, clients, callbacks, conn, inbox,
                 kicked, proc, history>>

NetworkThread ==
  \/ ThreadStarts \/ Listen \/ LoopHead
  \/ ReceiveMessage \/ ReceiveNothing \/ ReceiveFails \/ DeliverMessage
  \/ EventsDone \/ ClientLeaves \/ NeverAccepted \/ Accept \/ RegisterClient \/ IgnoreEvent

Next == Environment \/ OtherThreads \/ NetworkThread

Spec == Init /\ [][Next]_vars

\* The network thread and the constructor that started it run on; peers, Stop and
\* KickClient need not happen.
FairSpec == Spec /\ WF_vars(NetworkThread) /\ \A name \in Callbacks : WF_vars(SetCallback(name))

-----------------------------------------------------------------------------
(* Properties.                                                              *)

\* "Locate the client. Note that it should have been found, because this is the
\* only codepath where we remove clients (except on shutdown), and connection
\* change callbacks are dispatched in queue order": when a connection that was
\* connected is reported closed, its client is registered.
ClosingClientFound ==
  (At("events") /\ events # <<>> /\ Head(events).new = "closed" /\ Head(events).old = "connected")
    => Head(events).conn \in clients

\* "Received data from unregistered client" (which also leaks the message) cannot
\* happen: a connection's messages are received only while it is registered.
NoUnregisteredData == At("deliver") => cur \in clients

\* Both: whenever the thread looks a client up by its connection, it finds it.
ClientsAreFound == ClosingClientFound /\ NoUnregisteredData

\* A registered client is a live connection, or its closing is queued, or the
\* server kicked it.
RegistryIsCurrent ==
  \A c \in clients : \/ conn[c] = "connected" \/ c \in kicked
                     \/ \E i \in 1..Len(events) : events[i] = [conn |-> c, old |-> "connected",
                                                            new |-> "closed"]

\* The callbacks of a connection: connected, data, disconnected, in that order.
session == [c \in Conns |-> IF c \notin served THEN "new"
                            ELSE IF c \in clients THEN "up" ELSE "down"]
Sessions == INSTANCE ClientSessions WITH session <- session, said <- said
ImplementsSessions == Sessions!SessionSpec

\* A closed connection is forgotten if the peers stop sending at some time.
\* Without the premise it need not be: PollIncomingMessages drains the inbox before
\* any event is dispatched, and a steady sender keeps it from ever being drained.
ClosedIsForgotten ==
  <>[](inbox = <<>>) =>
    \A c \in Conns : (c \in clients /\ conn[c] = "closed")
                       ~> (c \notin clients \/ proc # "running")

\* Stop ends the thread, if the thread had begun to run. A Stop before that is
\* lost: the thread's first assignment sets m_Running again.
LateStopEnds == (stopAsked /\ ~running /\ pc # "start") ~> (pc = "done" \/ ~Alive)
=============================================================================
