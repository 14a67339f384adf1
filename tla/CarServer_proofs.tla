----------------------------- MODULE CarServer_proofs ---------------------------
(***************************************************************************)
(* The networking library and its two users, for every set of connections  *)
(* and all bounds. Server implements ClientSessions: the callbacks of a    *)
(* connection come in order and at most once; and its registry is current. *)
(* CarServer, which composes it with the camera users, implements Server,  *)
(* and the list of users follows the registry. Last, the sessions of the   *)
(* library's client.                                                       *)
(***************************************************************************)
EXTENDS CarServer, Client, FiniteSetTheorems, TLAPS

\* The part of the type invariant the argument needs.
Shape ==
  /\ pc \in Pcs
  /\ clients \subseteq Conns /\ served \subseteq Conns
  /\ conn \in [Conns -> States]
  /\ events \in Seq(Event)

\* A connection is reported "connecting" once, before it is accepted; and once it
\* has a client it is never reported so again.
Opening(i, c) == events[i].new = "connecting" /\ events[i].conn = c

OpenedOnce ==
  \A c \in Conns :
    /\ \A i, j \in 1..Len(events) : Opening(i, c) /\ Opening(j, c) => i = j
    /\ \A i \in 1..Len(events) : Opening(i, c) => /\ c \notin served /\ conn[c] # "none"
                                                 /\ ~(pc = "accepted" /\ cur = c)

Accepting == pc = "accepted" => cur \in Conns \ served /\ conn[cur] # "none"

Registered ==
  /\ \A c \in served : conn[c] # "none"
  /\ Alive => clients \subseteq served

SessionInv == Shape /\ OpenedOnce /\ Accepting /\ Registered

-----------------------------------------------------------------------------
(* How a step may change the queue of events.                                *)

LEMMA HeadEvent ==
  ASSUME Shape, events # <<>>
  PROVE  /\ events \in Seq(Event) /\ 1 \in 1..Len(events) /\ Head(events) = events[1]
         /\ Head(events) \in Event /\ Head(events).conn \in Conns
<1>1. events \in Seq(Event) /\ Len(events) \in Nat /\ Len(events) # 0
  BY DEF Shape
<1>2. Head(events) \in Event /\ Head(events) = events[1] /\ 1 \in 1..Len(events)
  BY <1>1
<1>3. Head(events).conn \in Conns
  BY <1>2 DEF Event
<1> QED
  BY <1>1, <1>2, <1>3

\* What closing a connection does, whatever part of the queue it starts from.
LEMMA CloseShape ==
  ASSUME Shape, NEW c \in Conns, NEW queue \in Seq(Event), CloseConnection(c, queue)
  PROVE  /\ conn' \in [Conns -> States]
         /\ events' \in Seq(Event)
         /\ \A d \in Conns : conn'[d] = "none" => conn[d] = "none"
         /\ \/ events' = queue
            \/ \E e \in Event : e.new # "connecting" /\ events' = Append(queue, e)
<1>1. CASE conn[c] = "destroyed"
  BY <1>1 DEF CloseConnection, Shape
<1>2. CASE conn[c] # "destroyed"
  <2> DEFINE e == [conn |-> c, old |-> conn[c], new |-> "destroyed"]
  <2>1. e \in Event /\ e.new # "connecting"
    BY DEF Event, States, Shape
  <2>2. conn' = [conn EXCEPT ![c] = "destroyed"] /\ events' = Append(queue, e)
    BY <1>2 DEF CloseConnection
  <2> QED
    BY <2>1, <2>2 DEF Shape, States
<1> QED
  BY <1>1, <1>2

\* Every opening event of the new queue was in the old one, k places further back.
Carried(k) ==
  \A c \in Conns : \A i \in 1..Len(events') :
    Opening(i, c)' => i + k \in 1..Len(events) /\ Opening(i + k, c)

LEMMA CarriedSame ==
  ASSUME events' = events
  PROVE  Carried(0)
BY DEF Carried, Opening

LEMMA CarriedAppend ==
  ASSUME Shape, NEW e \in Event, e.new # "connecting", events' = Append(events, e)
  PROVE  Carried(0)
BY DEF Carried, Opening, Shape

LEMMA CarriedTail ==
  ASSUME Shape, events # <<>>, events' = Tail(events)
  PROVE  Carried(1)
BY DEF Carried, Opening, Shape

LEMMA CarriedTailAppend ==
  ASSUME Shape, events # <<>>, NEW e \in Event, e.new # "connecting",
         events' = Append(Tail(events), e)
  PROVE  Carried(1)
<1> SUFFICES ASSUME NEW c \in Conns, NEW i \in 1..Len(events'), Opening(i, c)'
             PROVE  i + 1 \in 1..Len(events) /\ Opening(i + 1, c)
  BY DEF Carried
<1>1. Tail(events) \in Seq(Event) /\ Len(Tail(events)) = Len(events) - 1
  BY DEF Shape
<1>2. Len(events') = Len(events) /\ events'[Len(events)] = e
  BY <1>1 DEF Shape
<1>3. i # Len(events)
  BY <1>2 DEF Opening
<1>4. i \in 1..Len(Tail(events)) /\ events'[i] = Tail(events)[i]
  <2>1. Len(events) \in Nat
    BY DEF Shape
  <2>2. i \in 1..Len(Tail(events))
    BY <1>1, <1>2, <1>3, <2>1
  <2> QED
    BY <1>1, <2>2
<1>5. i + 1 \in 1..Len(events) /\ events'[i] = events[i + 1]
  BY <1>1, <1>4 DEF Shape
<1> QED
  BY <1>5 DEF Opening

LEMMA OpenedOnceCarried ==
  ASSUME Shape, OpenedOnce, NEW k \in Nat, Carried(k),
         \A c \in Conns : conn'[c] = "none" => conn[c] = "none",
         \A c \in Conns : \A i \in 1..Len(events) :
            Opening(i, c) /\ i > k => c \notin served' /\ ~(pc' = "accepted" /\ cur' = c)
  PROVE  OpenedOnce'
<1> SUFFICES ASSUME NEW c \in Conns
             PROVE  /\ \A i, j \in 1..Len(events') : Opening(i, c)' /\ Opening(j, c)' => i = j
                    /\ \A i \in 1..Len(events') : Opening(i, c)' =>
                          /\ c \notin served' /\ conn'[c] # "none"
                          /\ ~(pc' = "accepted" /\ cur' = c)
  BY DEF OpenedOnce
<1>1. ASSUME NEW i \in 1..Len(events'), Opening(i, c)'
      PROVE  i + k \in 1..Len(events) /\ Opening(i + k, c) /\ i + k > k
  BY <1>1 DEF Carried
<1>2. ASSUME NEW i \in 1..Len(events'), NEW j \in 1..Len(events'), Opening(i, c)', Opening(j, c)'
      PROVE  i = j
  <2>1. i + k = j + k
    BY <1>1, <1>2 DEF OpenedOnce
  <2> QED
    BY <2>1
<1>3. ASSUME NEW i \in 1..Len(events'), Opening(i, c)'
      PROVE  c \notin served' /\ conn'[c] # "none" /\ ~(pc' = "accepted" /\ cur' = c)
  BY <1>1, <1>3 DEF OpenedOnce
<1> QED
  BY <1>2, <1>3

-----------------------------------------------------------------------------
(* The invariant.                                                            *)

\* Steps that leave events, the states of connections, the registry and the
\* accepting alone.
LEMMA Undisturbed ==
  ASSUME SessionInv, pc' \in Pcs, pc' # "accepted" \/ (pc' = pc /\ cur' = cur),
         events' = events, conn' = conn, served' = served,
         clients' \subseteq clients, proc' = proc \/ proc' = "terminated"
  PROVE  SessionInv'
<1>1. Shape'
  BY DEF SessionInv, Shape
<1>2. OpenedOnce'
  <2>1. \A c \in Conns : \A i \in 1..Len(events) : Opening(i, c)' <=> Opening(i, c)
    BY DEF Opening
  <2> QED
    BY <2>1 DEF SessionInv, OpenedOnce
<1>3. Accepting' /\ Registered'
  BY DEF SessionInv, Accepting, Registered, Alive
<1> QED
  BY <1>1, <1>2, <1>3 DEF SessionInv

\* Closing a connection, with the whole queue or without its head.
LEMMA Closing ==
  ASSUME SessionInv, NEW c \in Conns,
         \/ CloseConnection(c, events)
         \/ events # <<>> /\ CloseConnection(c, Tail(events)),
         pc' = pc, cur' = cur, served' = served, clients' \subseteq clients, proc' = proc
  PROVE  SessionInv'
<1>0. Shape /\ events \in Seq(Event)
  BY DEF SessionInv, Shape
<1>1. ASSUME NEW k \in Nat, Carried(k), Shape',
             \A d \in Conns : conn'[d] = "none" => conn[d] = "none"
      PROVE  SessionInv'
  <2>1. OpenedOnce'
    <3>1. \A d \in Conns : \A i \in 1..Len(events) :
            Opening(i, d) /\ i > k => d \notin served' /\ ~(pc' = "accepted" /\ cur' = d)
      BY DEF SessionInv, OpenedOnce
    <3> QED
      BY <1>1, <3>1, OpenedOnceCarried DEF SessionInv
  <2>2. Accepting' /\ Registered'
    BY <1>1 DEF SessionInv, Accepting, Registered, Alive, Shape
  <2> QED
    BY <1>1, <2>1, <2>2 DEF SessionInv
<1>2. CASE CloseConnection(c, events)
  <2>1. Shape' /\ (\A d \in Conns : conn'[d] = "none" => conn[d] = "none")
    BY <1>0, <1>2, CloseShape DEF Shape
  <2>2. Carried(0)
    BY <1>0, <1>2, CloseShape, CarriedSame, CarriedAppend
  <2> QED
    BY <1>1, <2>1, <2>2
<1>3. CASE events # <<>> /\ CloseConnection(c, Tail(events))
  <2>1. Tail(events) \in Seq(Event)
    BY <1>0, <1>3
  <2>2. Shape' /\ (\A d \in Conns : conn'[d] = "none" => conn[d] = "none")
    BY <1>0, <1>3, <2>1, CloseShape DEF Shape
  <2>3. Carried(1)
    BY <1>0, <1>3, <2>1, CloseShape, CarriedTail, CarriedTailAppend
  <2> QED
    BY <1>1, <2>2, <2>3
<1> QED
  BY <1>2, <1>3

\* A peer opens a connection whose handle is new.
LEMMA PeerConnectsInv ==
  ASSUME SessionInv, NEW c \in Conns, PeerConnects(c)
  PROVE  SessionInv'
<1> DEFINE e == [conn |-> c, old |-> conn[c], new |-> "connecting"]
<1>0. e \in Event /\ events \in Seq(Event) /\ Len(events) \in Nat
  BY DEF Event, SessionInv, Shape, States
<1>1. /\ conn[c] = "none" /\ conn' = [conn EXCEPT ![c] = "connecting"]
      /\ events' = Append(events, e)
      /\ UNCHANGED <<pc, cur, clients, served, proc>>
  BY DEF PeerConnects, StatusChange, history
<1>2. Shape'
  BY <1>0, <1>1 DEF SessionInv, Shape, States
<1>3. \A i \in 1..Len(events') : i \in 1..Len(events) \/ i = Len(events) + 1
  BY <1>0, <1>1
<1>4. /\ \A i \in 1..Len(events) : events'[i] = events[i]
      /\ events'[Len(events) + 1] = e
  BY <1>0, <1>1
<1>5. \A i \in 1..Len(events) : ~Opening(i, c)
  BY <1>1 DEF SessionInv, OpenedOnce
<1>6. c \notin served /\ ~(pc = "accepted" /\ cur = c)
  BY <1>1 DEF SessionInv, Registered, Accepting
<1>7. OpenedOnce'
  <2> SUFFICES ASSUME NEW d \in Conns
               PROVE  /\ \A i, j \in 1..Len(events') : Opening(i, d)' /\ Opening(j, d)' => i = j
                      /\ \A i \in 1..Len(events') : Opening(i, d)' =>
                            /\ d \notin served' /\ conn'[d] # "none"
                            /\ ~(pc' = "accepted" /\ cur' = d)
    BY DEF OpenedOnce
  <2>1. CASE d = c
    <3>1. \A i \in 1..Len(events') : Opening(i, c)' => i = Len(events) + 1
      BY <1>3, <1>4, <1>5 DEF Opening
    <3>2. conn'[c] # "none"
      BY <1>1 DEF SessionInv, Shape
    <3> QED
      BY <2>1, <3>1, <3>2, <1>1, <1>6
  <2>2. CASE d # c
    <3>1. \A i \in 1..Len(events') : Opening(i, d)' => i \in 1..Len(events) /\ Opening(i, d)
      BY <1>3, <1>4, <2>2 DEF Opening
    <3>2. conn'[d] = conn[d]
      BY <1>1, <2>2 DEF SessionInv, Shape
    <3> QED
      BY <3>1, <3>2, <1>1 DEF SessionInv, OpenedOnce
  <2> QED
    BY <2>1, <2>2
<1>8. Accepting' /\ Registered'
  BY <1>1, <1>6 DEF SessionInv, Accepting, Registered, Alive, Shape
<1> QED
  BY <1>2, <1>7, <1>8 DEF SessionInv

\* The other steps that append to the queue: a peer closes.
LEMMA PeerClosesInv ==
  ASSUME SessionInv, NEW c \in Conns, PeerCloses(c)
  PROVE  SessionInv'
<1> DEFINE e == [conn |-> c, old |-> conn[c], new |-> "closed"]
<1>0. e \in Event /\ e.new # "connecting" /\ Shape
  BY DEF Event, SessionInv, Shape, States
<1>1. /\ conn[c] # "none" /\ conn' = [conn EXCEPT ![c] = "closed"]
      /\ events' = Append(events, e)
      /\ UNCHANGED <<pc, cur, clients, served, proc>>
  BY DEF PeerCloses, StatusChange, history
<1>2. Shape'
  BY <1>0, <1>1 DEF Shape, States
<1>3. \A d \in Conns : conn'[d] = "none" => conn[d] = "none"
  BY <1>1 DEF SessionInv, Shape
<1>4. OpenedOnce'
  <2>1. Carried(0)
    BY <1>0, <1>1, CarriedAppend
  <2>2. \A d \in Conns : \A i \in 1..Len(events) :
          Opening(i, d) => d \notin served' /\ ~(pc' = "accepted" /\ cur' = d)
    BY <1>1 DEF SessionInv, OpenedOnce
  <2> QED
    BY <1>0, <1>3, <2>1, <2>2, OpenedOnceCarried DEF SessionInv
<1>5. Accepting' /\ Registered'
  BY <1>1, <1>3 DEF SessionInv, Accepting, Registered, Alive, Shape
<1> QED
  BY <1>2, <1>4, <1>5 DEF SessionInv

\* Accepting takes the opening event off the queue.
LEMMA AcceptInv ==
  ASSUME SessionInv, Accept
  PROVE  SessionInv'
<1> DEFINE c == Head(events).conn
<1>0. /\ events \in Seq(Event) /\ events # <<>> /\ Shape /\ c \in Conns
      /\ Opening(1, c) /\ 1 \in 1..Len(events)
  BY HeadEvent DEF Accept, SessionInv, Opening
<1>1. UNCHANGED <<clients, served, proc>>
  BY DEF Accept, history
<1>2. CASE conn[c] = "connecting"
  <2> DEFINE e == [conn |-> c, old |-> "connecting", new |-> "connected"]
  <2>1. e \in Event /\ e.new # "connecting"
    BY <1>0 DEF Event, States
  <2>2. /\ conn' = [conn EXCEPT ![c] = "connected"] /\ events' = Append(Tail(events), e)
        /\ cur' = c /\ pc' = "accepted"
    BY <1>2 DEF Accept
  <2>3. Shape'
    BY <1>0, <1>1, <2>1, <2>2 DEF Shape, States, Pcs
  <2>4. \A d \in Conns : conn'[d] = "none" => conn[d] = "none"
    BY <2>2 DEF SessionInv, Shape
  <2>5. c \notin served /\ conn'[c] # "none"
    BY <1>0, <2>2 DEF SessionInv, OpenedOnce, Shape
  <2>6. OpenedOnce'
    <3>1. Carried(1)
      BY <1>0, <2>1, <2>2, CarriedTailAppend
    <3>2. \A d \in Conns : \A i \in 1..Len(events) :
            Opening(i, d) /\ i > 1 => d \notin served' /\ ~(pc' = "accepted" /\ cur' = d)
      BY <1>0, <1>1, <2>2 DEF SessionInv, OpenedOnce
    <3> QED
      BY <1>0, <2>4, <3>1, <3>2, OpenedOnceCarried DEF SessionInv
  <2>7. Accepting' /\ Registered'
    BY <1>0, <1>1, <2>2, <2>4, <2>5 DEF SessionInv, Accepting, Registered, Alive, Shape
  <2> QED
    BY <2>3, <2>6, <2>7 DEF SessionInv
<1>3. CASE conn[c] # "connecting"
  <2>1. CloseConnection(c, Tail(events)) /\ UNCHANGED <<pc, cur>>
    BY <1>3 DEF Accept
  <2> QED
    BY <1>0, <1>1, <2>1, Closing
<1> QED
  BY <1>2, <1>3

\* Registering: the connection was never registered before.
LEMMA RegisterInv ==
  ASSUME SessionInv, RegisterClient
  PROVE  SessionInv'
<1>1. /\ pc = "accepted" /\ pc' = "events" /\ UNCHANGED <<conn, events>>
      /\ clients' = clients \cup {cur}
      /\ served' = IF "connected" \in callbacks THEN served \cup {cur} ELSE served
      /\ "connected" \in callbacks \/ proc' = "terminated"
      /\ proc = "running"
  BY DEF RegisterClient, CallBack, At, Alive, gns
<1>2. cur \in Conns /\ conn[cur] # "none"
  BY <1>1 DEF SessionInv, Accepting
<1>3. Shape'
  BY <1>1, <1>2 DEF SessionInv, Shape, Pcs
<1>4. OpenedOnce'
  <2>1. \A c \in Conns : \A i \in 1..Len(events) : Opening(i, c)' <=> Opening(i, c)
    BY <1>1 DEF Opening
  <2>2. \A i \in 1..Len(events) : ~Opening(i, cur)
    BY <1>1, <1>2 DEF SessionInv, OpenedOnce
  <2> QED
    BY <1>1, <2>1, <2>2 DEF SessionInv, OpenedOnce
<1>5. Accepting' /\ Registered'
  BY <1>1, <1>2 DEF SessionInv, Accepting, Registered, Alive
<1> QED
  BY <1>3, <1>4, <1>5 DEF SessionInv

\* Leaving the loop destroys connections, and forgets the clients.
LEMMA LoopHeadInv ==
  ASSUME SessionInv, LoopHead
  PROVE  SessionInv'
<1>1. CASE running
  BY <1>1, Undisturbed DEF LoopHead, At, gns, history, Pcs
<1>2. CASE ~running
  <2>1. /\ pc' = "done" /\ clients' = {} /\ UNCHANGED <<events, served, proc>>
        /\ conn' = [c \in Conns |-> IF c \in clients \/ conn[c] = "connecting"
                                    THEN "destroyed" ELSE conn[c]]
    BY <1>2 DEF LoopHead, history
  <2>2. Shape'
    BY <2>1 DEF SessionInv, Shape, Pcs, States
  <2>3. \A d \in Conns : conn'[d] = "none" => conn[d] = "none"
    BY <2>1
  <2>4. OpenedOnce'
    <3>1. Carried(0)
      BY <2>1, CarriedSame
    <3> QED
      BY <2>1, <2>3, <3>1, OpenedOnceCarried DEF SessionInv, OpenedOnce
  <2>5. Accepting' /\ Registered'
    BY <2>1, <2>3 DEF SessionInv, Accepting, Registered, Alive, Shape
  <2> QED
    BY <2>2, <2>4, <2>5 DEF SessionInv
<1> QED
  BY <1>1, <1>2

LEMMA ClientLeavesInv ==
  ASSUME SessionInv, ClientLeaves
  PROVE  SessionInv'
<1> DEFINE c == Head(events).conn
<1>1. /\ events # <<>> /\ c \in Conns /\ pc \in Pcs
      /\ UNCHANGED <<pc, cur, served>>
  BY HeadEvent DEF ClientLeaves, SessionInv, Shape
<1>2. CASE c \in clients /\ "disconnected" \in callbacks
  BY <1>1, <1>2, Closing DEF ClientLeaves, CallBack
<1>3. CASE ~(c \in clients /\ "disconnected" \in callbacks)
  <2>1. UNCHANGED <<clients, conn, events>> /\ proc' = "terminated"
    BY <1>3 DEF ClientLeaves, CallBack, gns
  <2> QED
    BY <1>1, <2>1, Undisturbed
<1> QED
  BY <1>2, <1>3

LEMMA IgnoreEventInv ==
  ASSUME SessionInv, IgnoreEvent
  PROVE  SessionInv'
<1>1. /\ events # <<>> /\ events' = Tail(events) /\ Shape
      /\ UNCHANGED <<pc, cur, conn, clients, served, proc>>
  BY DEF IgnoreEvent, history, SessionInv
<1>2. Shape'
  BY <1>1 DEF Shape
<1>3. OpenedOnce'
  <2>1. Carried(1)
    BY <1>1, CarriedTail
  <2> QED
    BY <1>1, <2>1, OpenedOnceCarried DEF SessionInv, OpenedOnce
<1>4. Accepting' /\ Registered'
  BY <1>1 DEF SessionInv, Accepting, Registered, Alive
<1> QED
  BY <1>2, <1>3, <1>4 DEF SessionInv

LEMMA NextInv ==
  ASSUME SessionInv, [Next]_vars
  PROVE  SessionInv'
<1>0. pc \in Pcs
  BY DEF SessionInv, Shape
<1>1. CASE Environment
  <2>1. ASSUME NEW c \in Conns, NEW s, PeerSends(c, s)
        PROVE  SessionInv'
    BY <1>0, <2>1, Undisturbed DEF PeerSends, history
  <2> QED
    BY <1>1, <2>1, PeerConnectsInv, PeerClosesInv DEF Environment
<1>2. CASE OtherThreads
  <2>1. CASE Stop \/ \E name \in Callbacks : SetCallback(name)
    BY <1>0, <2>1, Undisturbed DEF Stop, SetCallback, gns, history
  <2>2. ASSUME NEW c \in Conns, KickClient(c)
        PROVE  SessionInv'
    BY <2>2, Closing DEF KickClient, history
  <2> QED
    BY <1>2, <2>1, <2>2 DEF OtherThreads
<1>3. CASE ThreadStarts \/ Listen \/ ReceiveNothing \/ ReceiveFails \/ EventsDone
  BY <1>3, Undisturbed
  DEF ThreadStarts, Listen, ReceiveNothing, ReceiveFails, EventsDone, gns, history, Pcs
<1>4. CASE ReceiveMessage
  BY <1>4, Undisturbed DEF ReceiveMessage, history, Pcs
<1>5. CASE DeliverMessage
  BY <1>5, Undisturbed DEF DeliverMessage, CallBack, gns, Pcs
<1>6. CASE NeverAccepted
  <2>1. Head(events).conn \in Conns
    BY <1>6, HeadEvent DEF NeverAccepted, SessionInv
  <2> QED
    BY <1>6, <2>1, Closing DEF NeverAccepted, history
<1>7. CASE NetworkThread
  BY <1>7, <1>3, <1>4, <1>5, <1>6, LoopHeadInv, ClientLeavesInv, AcceptInv, RegisterInv,
     IgnoreEventInv DEF NetworkThread
<1>8. CASE UNCHANGED vars
  BY <1>0, <1>8, Undisturbed DEF vars, gns, history
<1> QED
  BY <1>1, <1>2, <1>7, <1>8 DEF Next

LEMMA AlwaysSessionInv == Spec => []SessionInv
<1>1. Init => SessionInv
  BY DEF Init, SessionInv, Shape, OpenedOnce, Accepting, Registered, Opening, Pcs, States, Alive
<1> QED
  BY <1>1, NextInv, PTL DEF Spec

-----------------------------------------------------------------------------
(* The refinement.                                                           *)

LEMMA InitRefines == Init => Sessions!SessionInit
BY DEF Init, Sessions!SessionInit, session

\* A step that leaves the callbacks made and the registry alone is a stutter.
LEMMA Stutters ==
  ASSUME UNCHANGED <<clients, served, said>>
  PROVE  UNCHANGED <<session, said>>
BY DEF session

LEMMA RegisterRefines ==
  ASSUME SessionInv, RegisterClient
  PROVE  [Sessions!SessionNext]_<<session, said>>
<1>1. /\ pc = "accepted" /\ cur \in Conns \ served /\ clients \subseteq Conns
      /\ clients' = clients \cup {cur}
      /\ served' = IF "connected" \in callbacks THEN served \cup {cur} ELSE served
      /\ IF "connected" \in callbacks THEN said' = <<"connected", cur>> ELSE said' = said
  BY DEF RegisterClient, At, SessionInv, Accepting, Shape, CallBack
<1>2. CASE "connected" \in callbacks
  <2>1. session[cur] = "new" /\ session' = [session EXCEPT ![cur] = "up"]
    BY <1>1, <1>2 DEF session
  <2>2. Sessions!Connected(cur)
    BY <1>1, <1>2, <2>1 DEF Sessions!Connected
  <2> QED
    BY <1>1, <2>2 DEF Sessions!SessionNext
<1>3. CASE "connected" \notin callbacks
  <2>1. session' = session /\ said' = said
    BY <1>1, <1>3 DEF session
  <2> QED
    BY <2>1
<1> QED
  BY <1>2, <1>3

LEMMA ClientLeavesRefines ==
  ASSUME SessionInv, ClientLeaves
  PROVE  [Sessions!SessionNext]_<<session, said>>
<1> DEFINE c == Head(events).conn
<1>1. CASE c \in clients /\ "disconnected" \in callbacks
  <2>1. /\ said' = <<"disconnected", c>> /\ clients' = clients \ {c} /\ served' = served
        /\ c \in served /\ c \in Conns
    BY <1>1 DEF ClientLeaves, CallBack, SessionInv, Registered, At, Shape
  <2>2. session[c] = "up" /\ session' = [session EXCEPT ![c] = "down"]
    BY <1>1, <2>1 DEF session
  <2>3. Sessions!Disconnected(c)
    BY <2>1, <2>2 DEF Sessions!Disconnected
  <2> QED
    BY <2>1, <2>3 DEF Sessions!SessionNext
<1>2. CASE ~(c \in clients /\ "disconnected" \in callbacks)
  BY <1>2, Stutters DEF ClientLeaves, CallBack
<1> QED
  BY <1>1, <1>2

LEMMA DeliverRefines ==
  ASSUME SessionInv, DeliverMessage
  PROVE  [Sessions!SessionNext]_<<session, said>>
<1>1. UNCHANGED <<clients, served>>
  BY DEF DeliverMessage
<1>2. session' = session
  BY <1>1 DEF session
<1>3. CASE cur \in clients /\ said' = <<"data", cur>>
  <2>1. cur \in Conns /\ session[cur] = "up"
    BY <1>3 DEF DeliverMessage, SessionInv, Registered, At, Shape, session
  <2>2. Sessions!DataReceived(cur)
    BY <1>2, <1>3, <2>1 DEF Sessions!DataReceived
  <2> QED
    BY <2>1, <2>2 DEF Sessions!SessionNext
<1>4. CASE said' = said
  BY <1>2, <1>4
<1> QED
  BY <1>3, <1>4 DEF DeliverMessage, CallBack

LEMMA LoopHeadRefines ==
  ASSUME SessionInv, LoopHead
  PROVE  [Sessions!SessionNext]_<<session, said>>
<1>1. CASE running
  BY <1>1, Stutters DEF LoopHead, history
<1>2. CASE ~running
  <2>1. clients' = {} /\ UNCHANGED <<served, said>>
    BY <1>2 DEF LoopHead, history
  <2>2. session' = [c \in Conns |-> IF session[c] = "up" THEN "down" ELSE session[c]]
    BY <2>1 DEF session
  <2>3. Sessions!Shutdown
    BY <2>1, <2>2 DEF Sessions!Shutdown
  <2> QED
    BY <2>3 DEF Sessions!SessionNext
<1> QED
  BY <1>1, <1>2

LEMMA NextRefines ==
  ASSUME SessionInv, [Next]_vars
  PROVE  [Sessions!SessionNext]_<<session, said>>
<1>1. CASE Environment
  BY <1>1, Stutters DEF Environment, PeerConnects, PeerCloses, PeerSends, history
<1>2. CASE OtherThreads
  BY <1>2, Stutters DEF OtherThreads, Stop, SetCallback, KickClient, history
<1>3. CASE NetworkThread
  <2>1. CASE \/ ThreadStarts \/ Listen \/ ReceiveMessage \/ ReceiveNothing \/ ReceiveFails
             \/ EventsDone \/ NeverAccepted \/ Accept \/ IgnoreEvent
    BY <2>1, Stutters
    DEF ThreadStarts, Listen, ReceiveMessage, ReceiveNothing, ReceiveFails, EventsDone,
        NeverAccepted, Accept, IgnoreEvent, history
  <2> QED
    BY <1>3, <2>1, RegisterRefines, ClientLeavesRefines, DeliverRefines, LoopHeadRefines
    DEF NetworkThread
<1>4. CASE UNCHANGED vars
  BY <1>4, Stutters DEF vars, history
<1> QED
  BY <1>1, <1>2, <1>3, <1>4 DEF Next

\* Server keeps its promise to the code that registered the callbacks: every
\* connection's callbacks are connected, data, disconnected, each end at most once.
THEOREM ServerImplementsSessions == Spec => ImplementsSessions
<1>1. SessionInv /\ [Next]_vars => [Sessions!SessionNext]_<<session, said>>
  BY NextRefines
<1>2. Spec => Sessions!SessionInit /\ [][Sessions!SessionNext]_<<session, said>>
  BY InitRefines, AlwaysSessionInv, <1>1, PTL DEF Spec
<1> QED
  BY <1>2 DEF ImplementsSessions, Sessions!SessionSpec, Sessions!sessionVars

-----------------------------------------------------------------------------
(* The registry and what comes of a connection: its closing, its messages.   *)

\* A connection that has a client, or that is about to have one.
Held(c) == c \in clients \/ (pc = "accepted" /\ cur = c)

Closed(i, c) == events[i].new = "closed" /\ events[i].conn = c

\* A connection is reported closed once, and it has a client if and only if it was connected.
ClosedOnce ==
  \A c \in Conns :
    /\ \A i, j \in 1..Len(events) : Closed(i, c) /\ Closed(j, c) => i = j
    /\ \A i \in 1..Len(events) : Closed(i, c) =>
         /\ conn[c] \in {"closed", "destroyed"}
         /\ pc # "done" => (events[i].old = "connected" <=> Held(c))

\* The registry is current, also for the connection that is being accepted.
HeldCurrent ==
  \A c \in Conns :
    /\ Held(c) => \/ conn[c] = "connected" \/ c \in kicked
                  \/ \E i \in 1..Len(events) : Closed(i, c) /\ events[i].old = "connected"
    /\ conn[c] = "connected" => Held(c)
    /\ c \in kicked => conn[c] = "destroyed"

\* A message that waits is one of a connection that has a client, and has not been destroyed.
Messages ==
  /\ inbox \in Seq(Msg)
  /\ \A i \in 1..Len(inbox) : conn[inbox[i].conn] \in {"connected", "closed"} /\ Held(inbox[i].conn)

InHand == pc = "deliver" => cur \in clients

RegistryInv == ClosedOnce /\ HeldCurrent /\ Messages /\ InHand

\* The queue loses its first k events and gains none that reports a closing.
Shifted(k) ==
  /\ \A i \in 1..Len(events') : events'[i].new = "closed" =>
       i + k \in 1..Len(events) /\ events'[i] = events[i + k]
  /\ \A i \in 1..Len(events) : i > k => i - k \in 1..Len(events') /\ events'[i - k] = events[i]

LEMMA ShiftedSame ==
  ASSUME Shape, events' = events
  PROVE  Shifted(0)
BY DEF Shifted, Shape

LEMMA ShiftedAppend ==
  ASSUME Shape, NEW e \in Event, e.new # "closed", events' = Append(events, e)
  PROVE  Shifted(0)
BY DEF Shifted, Shape

LEMMA ShiftedTail ==
  ASSUME Shape, events # <<>>, events' = Tail(events)
  PROVE  Shifted(1)
<1>1. events \in Seq(Event) /\ Len(events) \in Nat /\ Len(events) >= 1
  BY DEF Shape
<1>2. Len(events') = Len(events) - 1 /\ \A i \in 1..(Len(events) - 1) : events'[i] = events[i + 1]
  BY <1>1
<1> QED
  BY <1>1, <1>2 DEF Shifted

LEMMA ShiftedTailAppend ==
  ASSUME Shape, events # <<>>, NEW e \in Event, e.new # "closed", events' = Append(Tail(events), e)
  PROVE  Shifted(1)
<1>1. events \in Seq(Event) /\ Len(events) \in Nat /\ Len(events) >= 1
  BY DEF Shape
<1>2. /\ Tail(events) \in Seq(Event) /\ Len(Tail(events)) = Len(events) - 1
      /\ \A i \in 1..(Len(events) - 1) : Tail(events)[i] = events[i + 1]
  BY <1>1
<1>3. Len(events') = Len(events) /\ events'[Len(events)] = e
  BY <1>1, <1>2
<1>4. \A i \in 1..(Len(events) - 1) : events'[i] = events[i + 1]
  BY <1>1, <1>2
<1>5. ASSUME NEW i \in 1..Len(events'), events'[i].new = "closed"
      PROVE  i + 1 \in 1..Len(events) /\ events'[i] = events[i + 1]
  <2>1. i # Len(events)
    BY <1>3, <1>5
  <2>2. i \in 1..Len(events)
    BY <1>3
  <2>3. i \in 1..(Len(events) - 1)
    BY <1>1, <2>1, <2>2
  <2> QED
    BY <1>1, <1>4, <2>3
<1>6. ASSUME NEW i \in 1..Len(events), i > 1
      PROVE  i - 1 \in 1..Len(events') /\ events'[i - 1] = events[i]
  <2>1. i - 1 \in 1..(Len(events) - 1)
    BY <1>1, <1>6
  <2>2. events'[i - 1] = events[(i - 1) + 1]
    BY <1>4, <2>1
  <2> QED
    BY <1>1, <1>3, <2>1, <2>2
<1> QED
  BY <1>5, <1>6 DEF Shifted

LEMMA ClosedOnceShifted ==
  ASSUME Shape, ClosedOnce, NEW k \in Nat, Shifted(k),
         \A c \in Conns : conn[c] \in {"closed", "destroyed"} => conn'[c] \in {"closed", "destroyed"},
         \A c \in Conns : \A i \in 1..Len(events) :
            Closed(i, c) /\ i > k /\ pc' # "done" => pc # "done" /\ (Held(c)' <=> Held(c))
  PROVE  ClosedOnce'
<1> SUFFICES ASSUME NEW c \in Conns
             PROVE  /\ \A i, j \in 1..Len(events') : Closed(i, c)' /\ Closed(j, c)' => i = j
                    /\ \A i \in 1..Len(events') : Closed(i, c)' =>
                         /\ conn'[c] \in {"closed", "destroyed"}
                         /\ pc' # "done" => (events'[i].old = "connected" <=> Held(c)')
  BY DEF ClosedOnce
<1>1. ASSUME NEW i \in 1..Len(events'), Closed(i, c)'
      PROVE  i + k \in 1..Len(events) /\ Closed(i + k, c) /\ i + k > k /\ events'[i] = events[i + k]
  BY <1>1 DEF Shifted, Closed
<1>2. ASSUME NEW i \in 1..Len(events'), NEW j \in 1..Len(events'), Closed(i, c)', Closed(j, c)'
      PROVE  i = j
  <2>1. i + k = j + k
    BY <1>1, <1>2 DEF ClosedOnce
  <2> QED
    BY <2>1
<1>3. ASSUME NEW i \in 1..Len(events'), Closed(i, c)'
      PROVE  /\ conn'[c] \in {"closed", "destroyed"}
             /\ pc' # "done" => (events'[i].old = "connected" <=> Held(c)')
  BY <1>1, <1>3 DEF ClosedOnce
<1> QED
  BY <1>2, <1>3

LEMMA HeldShifted ==
  ASSUME Shape, NEW k \in Nat, Shifted(k),
         \A c \in Conns : Held(c)' =>
            \/ conn'[c] = "connected" \/ c \in kicked'
            \/ \E i \in 1..Len(events) : i > k /\ Closed(i, c) /\ events[i].old = "connected",
         \A c \in Conns : conn'[c] = "connected" => Held(c)',
         \A c \in Conns : c \in kicked' => conn'[c] = "destroyed"
  PROVE  HeldCurrent'
<1>1. ASSUME NEW c \in Conns, NEW i \in 1..Len(events), i > k, Closed(i, c), events[i].old = "connected"
      PROVE  \E j \in 1..Len(events') : Closed(j, c)' /\ events'[j].old = "connected"
  <2>1. i - k \in 1..Len(events') /\ events'[i - k] = events[i]
    BY <1>1 DEF Shifted
  <2> QED
    BY <1>1, <2>1 DEF Closed
<1> QED
  BY <1>1 DEF HeldCurrent

\* What is left of the messages was there before.
LEMMA Dropped ==
  ASSUME inbox \in Seq(Msg), NEW c, DropMessages(c)
  PROVE  /\ inbox' \in Seq(Msg)
         /\ \A i \in 1..Len(inbox') : \E j \in 1..Len(inbox) : inbox'[i] = inbox[j] /\ inbox[j].conn # c
<1> DEFINE left == {i \in DOMAIN inbox : inbox[i].conn # c}
<1>1. DOMAIN inbox = 1..Len(inbox) /\ Len(inbox) \in Nat
  OBVIOUS
<1>2. IsFiniteSet(left) /\ Cardinality(left) \in Nat
  <2>1. IsFiniteSet(1..Len(inbox))
    BY <1>1, FS_Interval
  <2> QED
    BY <1>1, <2>1, FS_Subset, FS_CardinalityType
<1>3. PICK f \in [1..Cardinality(left) -> left] : inbox' = [i \in DOMAIN f |-> inbox[f[i]]]
  BY DEF DropMessages
<1>4. \A i \in 1..Cardinality(left) : f[i] \in 1..Len(inbox) /\ inbox[f[i]].conn # c /\ inbox[f[i]] \in Msg
  BY <1>1, <1>3
<1>5. inbox' = [i \in 1..Cardinality(left) |-> inbox[f[i]]]
  BY <1>3
<1> HIDE DEF left
<1>6. inbox' \in Seq(Msg) /\ Len(inbox') = Cardinality(left)
  BY <1>2, <1>4, <1>5
<1> QED
  BY <1>4, <1>5, <1>6

\* Closing a connection destroys it and its messages.
LEMMA CloseMessages ==
  ASSUME Shape, Messages, NEW c \in Conns, NEW queue, CloseConnection(c, queue)
  PROVE  /\ conn' = [conn EXCEPT ![c] = "destroyed"]
         /\ inbox' \in Seq(Msg)
         /\ \A i \in 1..Len(inbox') : \E j \in 1..Len(inbox) : inbox'[i] = inbox[j] /\ inbox[j].conn # c
<1>1. CASE conn[c] = "destroyed"
  <2>1. conn' = conn /\ inbox' = inbox
    BY <1>1 DEF CloseConnection
  <2>2. \A j \in 1..Len(inbox) : inbox[j].conn # c
    BY <1>1 DEF Messages
  <2>3. conn' = [conn EXCEPT ![c] = "destroyed"]
    BY <1>1, <2>1 DEF Shape
  <2> QED
    BY <2>1, <2>2, <2>3 DEF Messages
<1>2. CASE conn[c] # "destroyed"
  BY <1>2, Dropped DEF CloseConnection, Messages
<1> QED
  BY <1>1, <1>2


LEMMA MessageConns ==
  ASSUME RegistryInv
  PROVE  \A i \in 1..Len(inbox) : inbox[i] \in Msg /\ inbox[i].conn \in Conns
<1>1. inbox \in Seq(Msg)
  BY DEF RegistryInv, Messages
<1>2. \A i \in 1..Len(inbox) : inbox[i] \in Msg
  BY <1>1
<1> QED
  BY <1>2 DEF Msg

\* Steps that leave the registry, the connections and the queue alone.
LEMMA RegistryUndisturbed ==
  ASSUME RegistryInv, UNCHANGED <<clients, conn, events, inbox, kicked>>,
         pc' = "accepted" <=> pc = "accepted", pc = "accepted" => cur' = cur,
         pc = "done" => pc' = "done", pc' = "deliver" => pc = "deliver" /\ cur' = cur
  PROVE  RegistryInv'
<1>1. \A c : Held(c)' <=> Held(c)
  BY DEF Held
<1>2. \A i, c : Closed(i, c)' <=> Closed(i, c)
  BY DEF Closed
<1>3. ClosedOnce'
  BY <1>1, <1>2 DEF RegistryInv, ClosedOnce
<1>4. HeldCurrent'
  BY <1>1, <1>2 DEF RegistryInv, HeldCurrent
<1>5. Messages'
  BY <1>1 DEF RegistryInv, Messages
<1>6. InHand'
  BY DEF RegistryInv, InHand
<1> QED
  BY <1>3, <1>4, <1>5, <1>6 DEF RegistryInv

\* A connection that has no client, or that is kicked, or that loses its client, is destroyed
\* when the first k events of the queue are gone.
LEMMA RegistryClosing ==
  ASSUME SessionInv, RegistryInv, NEW c \in Conns, NEW k \in {0, 1},
         NEW queue \in Seq(Event), (k = 0 /\ queue = events) \/ (k = 1 /\ queue = Tail(events)),
         k = 1 => events # <<>> /\ (Head(events).new = "closed" => Head(events).conn = c),
         CloseConnection(c, queue),
         UNCHANGED <<pc, cur>>, kicked \subseteq kicked', kicked' \subseteq kicked \cup {c},
         pc = "deliver" => clients' = clients,
         \A d \in Conns \ {c} : d \in clients' <=> d \in clients,
         \/ clients' = clients /\ c \in kicked'
         \/ ~Held(c)' /\ ((\A i \in 1..Len(events) : i > k => ~Closed(i, c)) \/ ~Held(c))
  PROVE  RegistryInv'
<1>1. /\ conn' = [conn EXCEPT ![c] = "destroyed"]
      /\ inbox' \in Seq(Msg)
      /\ \A i \in 1..Len(inbox') : \E j \in 1..Len(inbox) : inbox'[i] = inbox[j] /\ inbox[j].conn # c
  BY CloseMessages DEF SessionInv, RegistryInv
<1>2. /\ conn'[c] = "destroyed"
      /\ \A d \in Conns \ {c} : conn'[d] = conn[d] /\ (Held(d)' <=> Held(d))
  BY <1>1 DEF SessionInv, Shape, Held
<1>3. Shifted(k)
  <2> DEFINE e == [conn |-> c, old |-> conn[c], new |-> "destroyed"]
  <2>1. e \in Event /\ e.new # "closed"
    BY DEF Event, States, Shape, SessionInv
  <2>2. events' = queue \/ events' = Append(queue, e)
    BY DEF CloseConnection
  <2> HIDE DEF e
  <2> QED
    BY <2>1, <2>2, ShiftedSame, ShiftedAppend, ShiftedTail, ShiftedTailAppend DEF SessionInv
<1>4. ClosedOnce'
  <2>1. \A d \in Conns : conn[d] \in {"closed", "destroyed"} => conn'[d] \in {"closed", "destroyed"}
    BY <1>2
  <2>2. \A d \in Conns : \A i \in 1..Len(events) :
          Closed(i, d) /\ i > k /\ pc' # "done" => pc # "done" /\ (Held(d)' <=> Held(d))
    BY <1>2 DEF Held
  <2> QED
    BY <1>3, <2>1, <2>2, ClosedOnceShifted DEF SessionInv, RegistryInv
<1>5. HeldCurrent'
  <2>1. ASSUME NEW d \in Conns \ {c}, NEW i \in 1..Len(events), Closed(i, d)
        PROVE  i > k
    <3>1. k = 1 /\ i = 1 => Head(events) = events[1]
      BY HeadEvent DEF SessionInv
    <3> QED
      BY <2>1, <3>1 DEF Closed
  <2>2. \A d \in Conns : Held(d)' =>
            \/ conn'[d] = "connected" \/ d \in kicked'
            \/ \E i \in 1..Len(events) : i > k /\ Closed(i, d) /\ events[i].old = "connected"
    BY <1>2, <2>1 DEF RegistryInv, HeldCurrent
  <2>3. \A d \in Conns : conn'[d] = "connected" => Held(d)'
    BY <1>2 DEF RegistryInv, HeldCurrent
  <2>4. \A d \in Conns : d \in kicked' => conn'[d] = "destroyed"
    BY <1>2 DEF RegistryInv, HeldCurrent
  <2> QED
    BY <1>3, <2>2, <2>3, <2>4, HeldShifted DEF SessionInv
<1>6. Messages'
  <2>1. \A j \in 1..Len(inbox) : inbox[j].conn \in Conns
    BY MessageConns
  <2>2. \A i \in 1..Len(inbox') : conn'[inbox'[i].conn] \in {"connected", "closed"} /\ Held(inbox[i].conn)'
    <3> SUFFICES ASSUME NEW i \in 1..Len(inbox')
                 PROVE  conn'[inbox'[i].conn] \in {"connected", "closed"} /\ Held(inbox[i].conn)'
      OBVIOUS
    <3>1. PICK j \in 1..Len(inbox) : inbox'[i] = inbox[j] /\ inbox[j].conn # c
      BY <1>1
    <3>2. PICK d \in Conns \ {c} : inbox[j].conn = d
      BY <2>1, <3>1
    <3>3. conn[d] \in {"connected", "closed"} /\ Held(d)
      BY <3>2 DEF RegistryInv, Messages
    <3> QED
      BY <1>2, <3>1, <3>2, <3>3
  <2> QED
    BY <1>1, <2>2 DEF Messages
<1>7. InHand'
  BY DEF RegistryInv, InHand
<1> QED
  BY <1>4, <1>5, <1>6, <1>7 DEF RegistryInv

LEMMA RegistryPeerConnects ==
  ASSUME SessionInv, RegistryInv, NEW c \in Conns, PeerConnects(c)
  PROVE  RegistryInv'
<1> DEFINE e == [conn |-> c, old |-> conn[c], new |-> "connecting"]
<1>1. e \in Event /\ e.new # "closed"
  BY DEF Event, States, Shape, SessionInv
<1>2. /\ conn[c] = "none" /\ conn' = [conn EXCEPT ![c] = "connecting"] /\ events' = Append(events, e)
      /\ UNCHANGED <<pc, cur, clients, kicked, inbox>>
  BY DEF PeerConnects, StatusChange, history
<1> HIDE DEF e
<1>3. Shifted(0) /\ (\A d : Held(d)' <=> Held(d))
  BY <1>1, <1>2, ShiftedAppend DEF SessionInv, Held
<1>4. conn'[c] = "connecting" /\ \A d \in Conns \ {c} : conn'[d] = conn[d]
  BY <1>2 DEF SessionInv, Shape
<1>5. \A i \in 1..Len(events) : i > 0
  OBVIOUS
<1>6. ClosedOnce'
  <2>1. \A d \in Conns : conn[d] \in {"closed", "destroyed"} => conn'[d] \in {"closed", "destroyed"}
    BY <1>2, <1>4
  <2> QED
    BY <1>2, <1>3, <2>1, ClosedOnceShifted DEF SessionInv, RegistryInv
<1>7. HeldCurrent'
  <2>1. \A d \in Conns : Held(d)' =>
            \/ conn'[d] = "connected" \/ d \in kicked'
            \/ \E i \in 1..Len(events) : i > 0 /\ Closed(i, d) /\ events[i].old = "connected"
    BY <1>2, <1>3, <1>4, <1>5 DEF RegistryInv, HeldCurrent
  <2>2. \A d \in Conns : conn'[d] = "connected" => Held(d)'
    BY <1>3, <1>4 DEF RegistryInv, HeldCurrent
  <2>3. \A d \in Conns : d \in kicked' => conn'[d] = "destroyed"
    BY <1>2, <1>4 DEF RegistryInv, HeldCurrent
  <2> QED
    BY <1>3, <2>1, <2>2, <2>3, HeldShifted DEF SessionInv
<1>8. Messages'
  BY <1>2, <1>3, <1>4 DEF RegistryInv, Messages, Msg
<1> QED
  BY <1>2, <1>6, <1>7, <1>8 DEF RegistryInv, InHand

\* The peer's closing is the one event that reports it.
LEMMA RegistryPeerCloses ==
  ASSUME SessionInv, RegistryInv, NEW c \in Conns, PeerCloses(c)
  PROVE  RegistryInv'
<1> DEFINE e == [conn |-> c, old |-> conn[c], new |-> "closed"]
<1>1. e \in Event /\ e.new = "closed" /\ e.conn = c /\ e.old = conn[c]
  BY DEF Event, States, Shape, SessionInv
<1>2. /\ conn[c] \in {"connecting", "connected"} /\ conn' = [conn EXCEPT ![c] = "closed"]
      /\ events' = Append(events, e) /\ UNCHANGED <<pc, cur, clients, kicked, inbox>>
  BY DEF PeerCloses, StatusChange, history
<1> HIDE DEF e
<1>3. conn'[c] = "closed" /\ \A d \in Conns \ {c} : conn'[d] = conn[d]
  BY <1>2 DEF SessionInv, Shape
<1>4. /\ events \in Seq(Event) /\ Len(events) \in Nat /\ Len(events') = Len(events) + 1
      /\ events'[Len(events) + 1] = e /\ \A i \in 1..Len(events) : events'[i] = events[i]
  BY <1>1, <1>2 DEF SessionInv, Shape
<1>5. \A i \in 1..Len(events) : ~Closed(i, c)
  BY <1>2 DEF RegistryInv, ClosedOnce
<1>6. \A d : Held(d)' <=> Held(d)
  BY <1>2 DEF Held
<1>7. \A d \in Conns : \A i \in 1..Len(events') :
        Closed(i, d)' <=> (i \in 1..Len(events) /\ Closed(i, d)) \/ (i = Len(events) + 1 /\ d = c)
  <2> SUFFICES ASSUME NEW d \in Conns, NEW i \in 1..Len(events')
               PROVE  Closed(i, d)' <=> (i \in 1..Len(events) /\ Closed(i, d)) \/ (i = Len(events) + 1 /\ d = c)
    OBVIOUS
  <2>1. CASE i = Len(events) + 1
    BY <1>1, <1>4, <2>1 DEF Closed
  <2>2. CASE i \in 1..Len(events)
    BY <1>4, <2>2 DEF Closed
  <2> QED
    BY <1>4, <2>1, <2>2
<1>8. conn[c] = "connected" <=> Held(c)
  BY <1>2, <1>5 DEF RegistryInv, HeldCurrent
<1>9. ClosedOnce'
  <2> SUFFICES ASSUME NEW d \in Conns
               PROVE  /\ \A i, j \in 1..Len(events') : Closed(i, d)' /\ Closed(j, d)' => i = j
                      /\ \A i \in 1..Len(events') : Closed(i, d)' =>
                           /\ conn'[d] \in {"closed", "destroyed"}
                           /\ pc' # "done" => (events'[i].old = "connected" <=> Held(d)')
    BY DEF ClosedOnce
  <2>1. CASE d = c
    <3>1. \A i \in 1..Len(events') : Closed(i, c)' => i = Len(events) + 1
      BY <1>5, <1>7
    <3>2. events'[Len(events) + 1].old = conn[c]
      BY <1>1, <1>4
    <3> QED
      BY <1>3, <1>6, <1>8, <2>1, <3>1, <3>2
  <2>2. CASE d # c
    <3>1. \A i \in 1..Len(events') : Closed(i, d)' => i \in 1..Len(events) /\ Closed(i, d) /\ events'[i] = events[i]
      BY <1>4, <1>7, <2>2
    <3> QED
      BY <1>2, <1>3, <1>6, <2>2, <3>1 DEF RegistryInv, ClosedOnce
  <2> QED
    BY <2>1, <2>2
<1>10. HeldCurrent'
  <2> SUFFICES ASSUME NEW d \in Conns
               PROVE  /\ Held(d)' => \/ conn'[d] = "connected" \/ d \in kicked'
                                     \/ \E i \in 1..Len(events') : Closed(i, d)' /\ events'[i].old = "connected"
                      /\ conn'[d] = "connected" => Held(d)'
                      /\ d \in kicked' => conn'[d] = "destroyed"
    BY DEF HeldCurrent
  <2>1. CASE d = c
    <3>1. PICK n \in 1..Len(events') : n = Len(events) + 1
      BY <1>4
    <3>2. events'[n].old = conn[c]
      BY <1>1, <1>4, <3>1
    <3>3. Closed(n, c)'
      BY <1>7, <3>1
    <3>4. c \notin kicked
      BY <1>2 DEF RegistryInv, HeldCurrent
    <3>5. Held(c)' => \E i \in 1..Len(events') : Closed(i, c)' /\ events'[i].old = "connected"
      BY <1>6, <1>8, <3>1, <3>2, <3>3
    <3> QED
      BY <1>2, <1>3, <2>1, <3>4, <3>5
  <2>2. CASE d # c
    <3>1. \A i \in 1..Len(events) : i \in 1..Len(events') /\ (Closed(i, d) => Closed(i, d)') /\ events'[i] = events[i]
      BY <1>4 DEF Closed
    <3> QED
      BY <1>2, <1>3, <1>6, <2>2, <3>1 DEF RegistryInv, HeldCurrent
  <2> QED
    BY <2>1, <2>2
<1>11. Messages'
  BY <1>2, <1>3, <1>6 DEF RegistryInv, Messages, Msg
<1> QED
  BY <1>2, <1>9, <1>10, <1>11 DEF RegistryInv, InHand

LEMMA RegistryPeerSends ==
  ASSUME SessionInv, RegistryInv, NEW c \in Conns, NEW s \in {"empty", "data"}, PeerSends(c, s)
  PROVE  RegistryInv'
<1> DEFINE m == [conn |-> c, size |-> s]
<1>1. /\ m \in Msg /\ m.conn = c /\ conn[c] = "connected" /\ inbox' = Append(inbox, m)
      /\ UNCHANGED <<pc, cur, clients, conn, events, kicked>>
  BY DEF PeerSends, history, Msg
<1> HIDE DEF m
<1>2. inbox \in Seq(Msg)
  BY DEF RegistryInv, Messages
<1>3. /\ inbox' \in Seq(Msg) /\ Len(inbox') = Len(inbox) + 1 /\ inbox'[Len(inbox) + 1] = m
      /\ \A i \in 1..Len(inbox) : inbox'[i] = inbox[i]
  BY <1>1, <1>2
<1>4. \A d : Held(d)' <=> Held(d)
  BY <1>1 DEF Held
<1>5. Messages'
  <2> SUFFICES ASSUME NEW i \in 1..Len(inbox')
               PROVE  conn'[inbox'[i].conn] \in {"connected", "closed"} /\ Held(inbox[i].conn)'
    BY <1>3 DEF Messages
  <2>1. CASE i = Len(inbox) + 1
    BY <1>1, <1>3, <1>4, <2>1 DEF RegistryInv, HeldCurrent
  <2>2. CASE i \in 1..Len(inbox)
    BY <1>1, <1>3, <1>4, <2>2 DEF RegistryInv, Messages
  <2> QED
    BY <1>2, <1>3, <2>1, <2>2
<1>6. ClosedOnce' /\ HeldCurrent'
  BY <1>1, <1>4 DEF RegistryInv, ClosedOnce, HeldCurrent, Closed
<1> QED
  BY <1>1, <1>5, <1>6 DEF RegistryInv, InHand

\* KickClient closes a connection and keeps its client.
LEMMA RegistryKick ==
  ASSUME SessionInv, RegistryInv, NEW c \in Conns, KickClient(c)
  PROVE  RegistryInv'
<1>1. /\ events \in Seq(Event) /\ CloseConnection(c, events) /\ UNCHANGED <<pc, cur, clients>>
      /\ kicked' = kicked \cup {c}
  BY DEF KickClient, SessionInv, Shape
<1> DEFINE k == 0
<1>2. k = 0 /\ k \in {0, 1}
  OBVIOUS
<1> HIDE DEF k
<1>3. (k = 0 /\ events = events) \/ (k = 1 /\ events = Tail(events))
  BY <1>2
<1>4. k = 1 => events # <<>> /\ (Head(events).new = "closed" => Head(events).conn = c)
  BY <1>2
<1>5. /\ kicked \subseteq kicked' /\ kicked' \subseteq kicked \cup {c} /\ c \in kicked'
      /\ \A d \in Conns \ {c} : d \in clients' <=> d \in clients
  BY <1>1
<1> QED
  BY <1>1, <1>2, <1>3, <1>4, <1>5, RegistryClosing

\* The thread takes up a message: as no connection is being accepted, it has a client.
LEMMA RegistryReceive ==
  ASSUME SessionInv, RegistryInv, ReceiveMessage
  PROVE  RegistryInv'
<1>1. /\ pc = "recv" /\ pc' = "deliver" /\ inbox # <<>> /\ inbox' = Tail(inbox) /\ cur' = Head(inbox).conn
      /\ UNCHANGED <<clients, conn, events, kicked>>
  BY DEF ReceiveMessage, At
<1>2. inbox \in Seq(Msg)
  BY DEF RegistryInv, Messages
<1>3. /\ inbox' \in Seq(Msg) /\ Head(inbox) = inbox[1] /\ 1 \in 1..Len(inbox)
      /\ \A i \in 1..Len(inbox') : i + 1 \in 1..Len(inbox) /\ inbox'[i] = inbox[i + 1]
  BY <1>1, <1>2
<1>4. \A d : Held(d)' <=> Held(d)
  BY <1>1 DEF Held
<1>5. Messages'
  BY <1>1, <1>3, <1>4 DEF RegistryInv, Messages
<1>6. InHand'
  BY <1>1, <1>3 DEF RegistryInv, Messages, Held, InHand
<1>7. ClosedOnce' /\ HeldCurrent'
  BY <1>1, <1>4 DEF RegistryInv, ClosedOnce, HeldCurrent, Closed
<1> QED
  BY <1>5, <1>6, <1>7 DEF RegistryInv

\* The end of the loop: no connection is connected any more.
LEMMA RegistryLoopHead ==
  ASSUME SessionInv, RegistryInv, LoopHead
  PROVE  RegistryInv'
<1>1. CASE running
  BY <1>1, RegistryUndisturbed DEF LoopHead, At, gns, history
<1>2. CASE ~running
  <2>1. /\ pc = "loop" /\ pc' = "done" /\ clients' = {} /\ inbox' = <<>> /\ UNCHANGED <<events, kicked>>
        /\ conn' = [c \in Conns |-> IF c \in clients \/ conn[c] = "connecting"
                                    THEN "destroyed" ELSE conn[c]]
    BY <1>2 DEF LoopHead, At
  <2>2. \A c : ~Held(c)'
    BY <2>1 DEF Held
  <2>3. ClosedOnce'
    BY <2>1 DEF RegistryInv, ClosedOnce, Closed
  <2>4. \A c \in Conns : conn'[c] # "connected"
    BY <2>1 DEF RegistryInv, HeldCurrent, Held
  <2>5. HeldCurrent'
    BY <2>1, <2>2, <2>4 DEF RegistryInv, HeldCurrent
  <2>6. Messages' /\ InHand'
    BY <2>1 DEF Messages, InHand
  <2> QED
    BY <2>3, <2>5, <2>6 DEF RegistryInv
<1> QED
  BY <1>1, <1>2

\* The closing of a connected connection takes its client along; no other closing of it is queued.
LEMMA RegistryClientLeaves ==
  ASSUME SessionInv, RegistryInv, ClientLeaves
  PROVE  RegistryInv'
<1>0. PICK c \in Conns : c = Head(events).conn
  BY HeadEvent DEF ClientLeaves, SessionInv
<1>1. /\ pc = "events" /\ events # <<>> /\ Head(events).new = "closed" /\ UNCHANGED <<pc, cur, kicked>>
      /\ c \in Conns /\ events \in Seq(Event) /\ Head(events) = events[1] /\ 1 \in 1..Len(events)
  BY <1>0, HeadEvent DEF ClientLeaves, SessionInv, At
<1>2. CASE c \in clients /\ "disconnected" \in callbacks
  <2>1. clients' = clients \ {c} /\ CloseConnection(c, Tail(events)) /\ Tail(events) \in Seq(Event)
    BY <1>0, <1>1, <1>2 DEF ClientLeaves
  <2>2. ~Held(c)'
    BY <1>0, <1>1, <2>1 DEF Held
  <2>3. \A i \in 1..Len(events) : i > 1 => ~Closed(i, c)
    BY <1>0, <1>1 DEF RegistryInv, ClosedOnce, Closed
  <2>4. \A d \in Conns \ {c} : d \in clients' <=> d \in clients
    BY <2>1
  <2> QED
    BY <1>0, <1>1, <2>1, <2>2, <2>3, <2>4, RegistryClosing
<1>3. CASE ~(c \in clients /\ "disconnected" \in callbacks)
  <2>1. UNCHANGED <<clients, conn, events, inbox>>
    BY <1>0, <1>3 DEF ClientLeaves, gns
  <2> QED
    BY <1>0, <1>1, <2>1, RegistryUndisturbed
<1> QED
  BY <1>0, <1>2, <1>3

\* That of another has no client to take along.
LEMMA RegistryNeverAccepted ==
  ASSUME SessionInv, RegistryInv, NeverAccepted
  PROVE  RegistryInv'
<1>0. PICK c \in Conns : c = Head(events).conn
  BY HeadEvent DEF NeverAccepted, SessionInv
<1>1. /\ pc = "events" /\ events # <<>> /\ Head(events).new = "closed" /\ Head(events).old # "connected"
      /\ UNCHANGED <<pc, cur, kicked, clients>> /\ CloseConnection(c, Tail(events))
      /\ c \in Conns /\ events \in Seq(Event) /\ Head(events) = events[1] /\ 1 \in 1..Len(events)
  BY <1>0, HeadEvent DEF NeverAccepted, SessionInv, At
<1>2. Tail(events) \in Seq(Event)
  BY <1>0, <1>1
<1>3. ~Held(c)
  BY <1>0, <1>1 DEF RegistryInv, ClosedOnce, Closed
<1>4. ~Held(c)'
  BY <1>0, <1>1, <1>3 DEF Held
<1> QED
  BY <1>0, <1>1, <1>2, <1>3, <1>4, RegistryClosing

\* A connection is accepted if nothing has become of it since it was opened.
LEMMA RegistryAccept ==
  ASSUME SessionInv, RegistryInv, Accept
  PROVE  RegistryInv'
<1>0. PICK c \in Conns : c = Head(events).conn
  BY HeadEvent DEF Accept, SessionInv
<1>1. /\ pc = "events" /\ proc = "running" /\ events # <<>> /\ Head(events).new = "connecting"
      /\ UNCHANGED <<clients, kicked>>
      /\ c \in Conns /\ events \in Seq(Event) /\ Head(events) = events[1] /\ 1 \in 1..Len(events)
  BY <1>0, HeadEvent DEF Accept, SessionInv, At, Alive
<1>2. c \notin clients /\ ~Held(c)
  BY <1>0, <1>1 DEF SessionInv, OpenedOnce, Opening, Registered, Held, Alive
<1>3. CASE conn[c] = "connecting"
  <2> DEFINE e == [conn |-> c, old |-> "connecting", new |-> "connected"]
  <2>1. e \in Event /\ e.new # "closed"
    BY <1>0, <1>1 DEF Event, States
  <2>2. /\ conn' = [conn EXCEPT ![c] = "connected"] /\ events' = Append(Tail(events), e)
        /\ cur' = c /\ pc' = "accepted" /\ UNCHANGED inbox
    BY <1>0, <1>3 DEF Accept
  <2> HIDE DEF e
  <2>3. Shifted(1)
    BY <1>0, <1>1, <2>1, <2>2, ShiftedTailAppend DEF SessionInv
  <2>4. conn'[c] = "connected" /\ \A d \in Conns \ {c} : conn'[d] = conn[d] /\ (Held(d)' <=> Held(d))
    BY <1>0, <1>1, <2>2 DEF SessionInv, Shape, Held
  <2>5. Held(c)'
    BY <2>2 DEF Held
  <2>6. \A i \in 1..Len(events) : ~Closed(i, c)
    BY <1>0, <1>1, <1>3 DEF RegistryInv, ClosedOnce
  <2>7. ClosedOnce'
    <3>1. \A d \in Conns : conn[d] \in {"closed", "destroyed"} => conn'[d] \in {"closed", "destroyed"}
      BY <1>0, <1>3, <2>4
    <3>2. \A d \in Conns : \A i \in 1..Len(events) :
            Closed(i, d) /\ i > 1 /\ pc' # "done" => pc # "done" /\ (Held(d)' <=> Held(d))
      BY <1>0, <1>1, <2>4, <2>6
    <3> QED
      BY <2>3, <3>1, <3>2, ClosedOnceShifted DEF SessionInv, RegistryInv
  <2>8. HeldCurrent'
    <3>1. \A d \in Conns : \A i \in 1..Len(events) : Closed(i, d) => i > 1
      BY <1>0, <1>1 DEF Closed
    <3>2. \A d \in Conns : Held(d)' =>
              \/ conn'[d] = "connected" \/ d \in kicked'
              \/ \E i \in 1..Len(events) : i > 1 /\ Closed(i, d) /\ events[i].old = "connected"
      BY <1>0, <1>1, <2>4, <3>1 DEF RegistryInv, HeldCurrent
    <3>3. \A d \in Conns : conn'[d] = "connected" => Held(d)'
      BY <2>4, <2>5 DEF RegistryInv, HeldCurrent
    <3>4. \A d \in Conns : d \in kicked' => conn'[d] = "destroyed"
      BY <1>0, <1>1, <1>3, <2>4 DEF RegistryInv, HeldCurrent
    <3> QED
      BY <2>3, <3>2, <3>3, <3>4, HeldShifted DEF SessionInv
  <2>9. Messages'
    <3>1. \A i \in 1..Len(inbox) : conn'[inbox[i].conn] \in {"connected", "closed"} /\ Held(inbox[i].conn)'
      BY <2>2, <2>4, <2>5, MessageConns DEF RegistryInv, Messages
    <3> QED
      BY <2>2, <3>1 DEF RegistryInv, Messages
  <2> QED
    BY <2>2, <2>7, <2>8, <2>9 DEF RegistryInv, InHand
<1>4. CASE conn[c] # "connecting"
  <2>1. CloseConnection(c, Tail(events)) /\ UNCHANGED <<pc, cur>>
    BY <1>0, <1>4 DEF Accept
  <2>2. ~Held(c)' /\ Tail(events) \in Seq(Event)
    BY <1>0, <1>1, <1>2, <2>1 DEF Held
  <2> QED
    BY <1>0, <1>1, <1>2, <2>1, <2>2, RegistryClosing
<1> QED
  BY <1>0, <1>3, <1>4

\* Registering changes nothing of who has a client or is about to have one.
LEMMA RegistryRegister ==
  ASSUME SessionInv, RegistryInv, RegisterClient
  PROVE  RegistryInv'
<1>1. /\ pc = "accepted" /\ pc' = "events" /\ clients' = clients \cup {cur}
      /\ UNCHANGED <<conn, events, inbox, kicked>>
  BY DEF RegisterClient, At, gns
<1>2. \A d : Held(d)' <=> Held(d)
  BY <1>1 DEF Held
<1>3. ClosedOnce' /\ HeldCurrent'
  BY <1>1, <1>2 DEF RegistryInv, ClosedOnce, HeldCurrent, Closed
<1>4. Messages'
  BY <1>1, <1>2 DEF RegistryInv, Messages
<1>5. InHand'
  BY <1>1 DEF InHand
<1> QED
  BY <1>3, <1>4, <1>5 DEF RegistryInv

LEMMA RegistryIgnore ==
  ASSUME SessionInv, RegistryInv, IgnoreEvent
  PROVE  RegistryInv'
<1>1. /\ pc = "events" /\ events # <<>> /\ Head(events).new \in {"connected", "destroyed"} /\ events' = Tail(events)
      /\ UNCHANGED <<pc, cur, clients, conn, inbox, kicked>>
      /\ Head(events) = events[1] /\ 1 \in 1..Len(events)
  BY HeadEvent DEF IgnoreEvent, SessionInv, At
<1>2. Shifted(1)
  BY <1>1, ShiftedTail DEF SessionInv
<1>3. \A d : Held(d)' <=> Held(d)
  BY <1>1 DEF Held
<1>4. ClosedOnce'
  BY <1>1, <1>2, <1>3, ClosedOnceShifted DEF SessionInv, RegistryInv
<1>5. HeldCurrent'
  <2>1. \A d \in Conns : \A i \in 1..Len(events) : Closed(i, d) => i > 1
    BY <1>1 DEF Closed
  <2>2. \A d \in Conns : Held(d)' =>
            \/ conn'[d] = "connected" \/ d \in kicked'
            \/ \E i \in 1..Len(events) : i > 1 /\ Closed(i, d) /\ events[i].old = "connected"
    BY <1>1, <1>3, <2>1 DEF RegistryInv, HeldCurrent
  <2>3. \A d \in Conns : conn'[d] = "connected" => Held(d)'
    BY <1>1, <1>3 DEF RegistryInv, HeldCurrent
  <2>4. \A d \in Conns : d \in kicked' => conn'[d] = "destroyed"
    BY <1>1 DEF RegistryInv, HeldCurrent
  <2> QED
    BY <1>2, <2>2, <2>3, <2>4, HeldShifted DEF SessionInv
<1>6. Messages'
  BY <1>1, <1>3 DEF RegistryInv, Messages
<1> QED
  BY <1>1, <1>4, <1>5, <1>6 DEF RegistryInv, InHand

LEMMA RegistryNext ==
  ASSUME SessionInv, RegistryInv, [Next]_vars
  PROVE  RegistryInv'
<1>1. CASE Environment
  BY <1>1, RegistryPeerConnects, RegistryPeerCloses, RegistryPeerSends DEF Environment
<1>2. CASE OtherThreads
  <2>1. CASE Stop \/ \E name \in Callbacks : SetCallback(name)
    BY <2>1, RegistryUndisturbed DEF Stop, SetCallback, gns, history
  <2> QED
    BY <1>2, <2>1, RegistryKick DEF OtherThreads
<1>3. CASE NetworkThread
  <2>1. CASE ThreadStarts \/ Listen \/ ReceiveNothing \/ ReceiveFails \/ EventsDone
    BY <2>1, RegistryUndisturbed
    DEF ThreadStarts, Listen, ReceiveNothing, ReceiveFails, EventsDone, gns, history, At
  <2>2. CASE DeliverMessage
    BY <2>2, RegistryUndisturbed DEF DeliverMessage, gns, At
  <2> QED
    BY <1>3, <2>1, <2>2, RegistryReceive, RegistryLoopHead, RegistryClientLeaves, RegistryNeverAccepted,
       RegistryAccept, RegistryRegister, RegistryIgnore DEF NetworkThread
<1>4. CASE UNCHANGED vars
  BY <1>4, RegistryUndisturbed DEF vars, gns, history
<1> QED
  BY <1>1, <1>2, <1>3, <1>4 DEF Next

LEMMA AlwaysRegistryInv == Spec => [](SessionInv /\ RegistryInv)
<1>1. Init => RegistryInv
  BY DEF Init, RegistryInv, ClosedOnce, HeldCurrent, Messages, InHand, Closed, Held
<1> QED
  BY <1>1, AlwaysSessionInv, RegistryNext, PTL DEF Spec

\* Whenever the thread looks a client up by its connection, for a closing or for a message, it
\* finds it: closings come to the connection's clients only and once, and a connection's
\* messages are gone before its client is.
THEOREM LookupsSucceed == Spec => []ClientsAreFound
<1>1. SessionInv /\ RegistryInv => ClientsAreFound
  <2> SUFFICES ASSUME SessionInv, RegistryInv
               PROVE  ClosingClientFound /\ NoUnregisteredData
    BY DEF ClientsAreFound
  <2>1. NoUnregisteredData
    BY DEF NoUnregisteredData, At, RegistryInv, InHand
  <2>2. ASSUME At("events"), events # <<>>, Head(events).new = "closed", Head(events).old = "connected"
        PROVE  Head(events).conn \in clients
    <3>1. Head(events) = events[1] /\ 1 \in 1..Len(events) /\ Head(events).conn \in Conns /\ pc = "events"
      BY <2>2, HeadEvent DEF SessionInv, At
    <3>2. Held(Head(events).conn)
      BY <2>2, <3>1 DEF RegistryInv, ClosedOnce, Closed
    <3> QED
      BY <3>1, <3>2 DEF Held
  <2> QED
    BY <2>1, <2>2 DEF ClosingClientFound
<1> QED
  BY <1>1, AlwaysRegistryInv, PTL

\* The registry holds no client whose connection is gone without the server knowing or being told.
THEOREM RegistryStaysCurrent == Spec => []RegistryIsCurrent
<1>1. SessionInv /\ RegistryInv => RegistryIsCurrent
  <2> SUFFICES ASSUME SessionInv, RegistryInv, NEW c \in clients
               PROVE  \/ conn[c] = "connected" \/ c \in kicked
                      \/ \E i \in 1..Len(events) :
                           events[i] = [conn |-> c, old |-> "connected", new |-> "closed"]
    BY DEF RegistryIsCurrent
  <2>1. c \in Conns /\ Held(c)
    BY DEF SessionInv, Shape, Held
  <2>2. ASSUME NEW i \in 1..Len(events), Closed(i, c), events[i].old = "connected"
        PROVE  events[i] = [conn |-> c, old |-> "connected", new |-> "closed"]
    <3>1. events[i] \in Event
      BY DEF SessionInv, Shape
    <3> QED
      BY <2>2, <3>1 DEF Event, Closed
  <2> QED
    BY <2>1, <2>2 DEF RegistryInv, HeldCurrent
<1> QED
  BY <1>1, AlwaysRegistryInv, PTL

\* What the thread holds beside the registry.
ThreadTypes ==
  /\ cur \in Conns \cup {NoConn} /\ size \in {"empty", "data"}
  /\ {running, stopAsked} \subseteq BOOLEAN
  /\ callbacks \subseteq Callbacks /\ kicked \subseteq Conns
  /\ proc \in {"running", "terminated"}
  /\ said \in {<<"nothing">>} \cup ({"connected", "data", "disconnected"} \X Conns)

LEMMA CalledBack ==
  ASSUME ThreadTypes, NEW name \in {"connected", "data", "disconnected"}, NEW c \in Conns, CallBack(name, c)
  PROVE  /\ proc' \in {"running", "terminated"}
         /\ said' \in {<<"nothing">>} \cup ({"connected", "data", "disconnected"} \X Conns)
BY DEF ThreadTypes, CallBack

LEMMA ThreadTypesNext ==
  ASSUME SessionInv, RegistryInv, ThreadTypes, [Next]_vars
  PROVE  ThreadTypes'
<1> USE DEF ThreadTypes
<1>1. CASE Environment
  BY <1>1 DEF Environment, PeerConnects, PeerCloses, PeerSends, history
<1>2. CASE Stop \/ \E name \in Callbacks : SetCallback(name)
  BY <1>2 DEF Stop, SetCallback, history
<1>3. ASSUME NEW c \in Conns, KickClient(c)
      PROVE  ThreadTypes'
  BY <1>3 DEF KickClient, history
<1>4. CASE ThreadStarts \/ Listen \/ LoopHead \/ ReceiveNothing \/ ReceiveFails \/ EventsDone
  BY <1>4 DEF ThreadStarts, Listen, LoopHead, ReceiveNothing, ReceiveFails, EventsDone, history
<1>5. CASE ReceiveMessage
  <2>1. Head(inbox) \in Msg
    BY <1>5 DEF ReceiveMessage, RegistryInv, Messages
  <2>2. cur' \in Conns /\ size' \in {"empty", "data"}
    BY <1>5, <2>1 DEF ReceiveMessage, Msg
  <2> QED
    BY <1>5, <2>2 DEF ReceiveMessage, history
<1>6. CASE DeliverMessage
  <2>1. CASE cur \in clients /\ size # "empty"
    <3>1. cur \in Conns /\ CallBack("data", cur)
      BY <1>6, <2>1 DEF DeliverMessage, SessionInv, Shape
    <3> HIDE DEF ThreadTypes
    <3>2. /\ proc' \in {"running", "terminated"}
          /\ said' \in {<<"nothing">>} \cup ({"connected", "data", "disconnected"} \X Conns)
      BY <3>1, CalledBack
    <3> QED
      BY <1>6, <3>2 DEF DeliverMessage, ThreadTypes
  <2>2. CASE ~(cur \in clients /\ size # "empty")
    BY <1>6, <2>2 DEF DeliverMessage
  <2> QED
    BY <2>1, <2>2
<1>7. CASE ClientLeaves
  <2>1. Head(events) \in Event
    BY <1>7 DEF ClientLeaves, SessionInv, Shape
  <2>2. Head(events).conn \in Conns
    BY <2>1 DEF Event
  <2> HIDE DEF ThreadTypes
  <2>3. /\ proc' \in {"running", "terminated"}
        /\ said' \in {<<"nothing">>} \cup ({"connected", "data", "disconnected"} \X Conns)
    <3>1. CASE CallBack("disconnected", Head(events).conn)
      BY <2>2, <3>1, CalledBack
    <3>2. CASE proc' = "terminated" /\ said' = said
      BY <3>2 DEF ThreadTypes
    <3> QED
      BY <1>7, <3>1, <3>2 DEF ClientLeaves
  <2> QED
    BY <1>7, <2>3 DEF ClientLeaves, ThreadTypes
<1>8. CASE NeverAccepted \/ IgnoreEvent
  BY <1>8 DEF NeverAccepted, IgnoreEvent, history
<1>9. CASE Accept
  <2>1. Head(events) \in Event
    BY <1>9 DEF Accept, SessionInv, Shape
  <2>2. cur' \in Conns \cup {NoConn}
    BY <1>9, <2>1 DEF Accept, Event
  <2> QED
    BY <1>9, <2>2 DEF Accept, history
<1>10. CASE RegisterClient
  <2>1. cur \in Conns
    BY <1>10 DEF RegisterClient, At, SessionInv, Accepting
  <2> HIDE DEF ThreadTypes
  <2>2. /\ proc' \in {"running", "terminated"}
        /\ said' \in {<<"nothing">>} \cup ({"connected", "data", "disconnected"} \X Conns)
    BY <1>10, <2>1, CalledBack DEF RegisterClient
  <2> QED
    BY <1>10, <2>2 DEF RegisterClient, ThreadTypes
<1>11. CASE UNCHANGED vars
  BY <1>11 DEF vars, history
<1> HIDE DEF ThreadTypes
<1> QED
  BY <1>1, <1>2, <1>3, <1>4, <1>5, <1>6, <1>7, <1>8, <1>9, <1>10, <1>11
  DEF Next, OtherThreads, NetworkThread

\* The connection in hand, the callbacks made and the events and messages that wait are always of
\* connections GNS has reported: the thread never works on a handle of another kind.
THEOREM ServerIsTyped == Spec => []TypeOK
<1>1. Init => ThreadTypes
  BY DEF Init, ThreadTypes
<1>2. SessionInv /\ RegistryInv /\ ThreadTypes => TypeOK
  BY DEF SessionInv, Shape, RegistryInv, Messages, ThreadTypes, TypeOK
<1> QED
  BY <1>1, <1>2, AlwaysRegistryInv, ThreadTypesNext, PTL DEF Spec
-----------------------------------------------------------------------------
(* The camera. What its handlers do to the list of users is, as far as the   *)
(* other list is concerned, what they do to the set of addresses in it.      *)

Listed == {users[i].ip : i \in DOMAIN users}

CameraShape ==
  /\ users \in Seq(User) /\ writers \in Seq(IPs)
  /\ position \in Nat /\ last \in Nat

\* UserConnected looks an address up before it appends it: the early return of the
\* loop that erases it leaves no second entry behind.
UsersOnce == \A i, j \in 1..Len(users) : users[i].ip = users[j].ip => i = j

CameraInv == CameraShape /\ UsersOnce /\ WalkInsideList

LEMMA UserAddress ==
  ASSUME CameraShape
  PROVE  /\ Len(users) \in Nat /\ DOMAIN users = 1..Len(users)
         /\ \A i \in 1..Len(users) : users[i] \in User /\ users[i].ip \in IPs
<1>1. Len(users) \in Nat /\ DOMAIN users = 1..Len(users)
  BY DEF CameraShape
<1>2. \A i \in 1..Len(users) : users[i] \in User
  BY <1>1 DEF CameraShape
<1> QED
  BY <1>1, <1>2 DEF User

\* What erasing an element of a list leaves.
LEMMA Removed ==
  ASSUME NEW S, NEW s \in Seq(S), NEW k \in 1..Len(s)
  PROVE  /\ RemoveAt(s, k) \in Seq(S) /\ Len(RemoveAt(s, k)) = Len(s) - 1
         /\ \A j \in 1..(Len(s) - 1) : RemoveAt(s, k)[j] = IF j < k THEN s[j] ELSE s[j + 1]
<1> DEFINE a == SubSeq(s, 1, k - 1)
           b == SubSeq(s, k + 1, Len(s))
<1>1. a \in Seq(S) /\ Len(a) = k - 1 /\ \A j \in 1..(k - 1) : a[j] = s[j]
  OBVIOUS
<1>2. b \in Seq(S) /\ Len(b) = Len(s) - k /\ \A j \in 1..(Len(s) - k) : b[j] = s[k + j]
  OBVIOUS
<1>3. RemoveAt(s, k) = a \o b
  BY DEF RemoveAt
<1> HIDE DEF a, b
<1>4. a \o b \in Seq(S) /\ Len(a \o b) = Len(s) - 1
  <2>1. a \in Seq(S) /\ b \in Seq(S)
    BY <1>1, <1>2
  <2>2. a \o b \in Seq(S) /\ Len(a \o b) = Len(a) + Len(b)
    BY <2>1
  <2>3. Len(s) \in Nat
    OBVIOUS
  <2> QED
    BY <1>1, <1>2, <2>2, <2>3
<1>5. ASSUME NEW j \in 1..(Len(s) - 1)
      PROVE  (a \o b)[j] = IF j < k THEN s[j] ELSE s[j + 1]
  <2>1. CASE j < k
    BY <1>1, <1>2, <2>1
  <2>2. CASE ~(j < k)
    <3>1. (a \o b)[j] = b[j - (k - 1)] /\ j - (k - 1) \in 1..(Len(s) - k)
      BY <1>1, <1>2, <2>2
    <3> QED
      BY <1>2, <2>2, <3>1
  <2> QED
    BY <2>1, <2>2
<1> QED
  BY <1>3, <1>4, <1>5

\* No writer is ever erased: the name it is compared with is no address.
LEMMA WritersKept ==
  ASSUME NEW ip \in IPs, RemoveVideoWriterWithIP(ip)
  PROVE  writers' = writers
  BY AddressAssumption DEF RemoveVideoWriterWithIP, BackendName

LEMMA UserConnectedInv ==
  ASSUME CameraInv, NEW ip \in IPs, UserConnected(ip)
  PROVE  CameraInv' /\ Listed' = Listed \cup {ip}
<1>1. CASE IsUser(ip)
  <2>1. users' = users
    BY <1>1 DEF UserConnected
  <2>2. Listed' = Listed /\ ip \in Listed
    BY <1>1, <2>1 DEF Listed, IsUser
  <2> QED
    BY <2>1, <2>2 DEF UserConnected, CameraInv, CameraShape, UsersOnce, WalkInsideList
<1>2. CASE ~IsUser(ip)
  <2> DEFINE u == [ip |-> ip, created |-> FALSE]
  <2>1. users' = Append(users, u)
    BY <1>2 DEF UserConnected
  <2>2. u \in User /\ u.ip = ip
    BY DEF User
  <2>3. Len(users) \in Nat /\ DOMAIN users = 1..Len(users)
    BY UserAddress DEF CameraInv
  <2> HIDE DEF u
  <2>4. /\ users' \in Seq(User) /\ DOMAIN users' = 1..(Len(users) + 1) /\ Len(users') = Len(users) + 1
        /\ \A i \in 1..Len(users) : users'[i] = users[i]
        /\ users'[Len(users) + 1] = u
    BY <2>1, <2>2, <2>3 DEF CameraInv, CameraShape
  <2>5. \A i \in 1..Len(users) : users[i].ip # ip
    BY <1>2, <2>3 DEF IsUser
  <2>6. UsersOnce'
    BY <2>2, <2>3, <2>4, <2>5 DEF CameraInv, UsersOnce
  <2>7. Listed' = Listed \cup {ip}
    BY <2>2, <2>3, <2>4 DEF Listed
  <2> QED
    BY <2>4, <2>6, <2>7 DEF UserConnected, CameraInv, CameraShape, WalkInsideList
<1> QED
  BY <1>1, <1>2

LEMMA UserDisconnectedInv ==
  ASSUME CameraInv, NEW ip \in IPs, UserDisconnected(ip)
  PROVE  CameraInv' /\ Listed' = Listed \ {ip}
<1>1. CASE ~IsUser(ip) /\ UNCHANGED <<users, writers>>
  <2>1. Listed' = Listed /\ ip \notin Listed
    BY <1>1 DEF Listed, IsUser
  <2> QED
    BY <1>1, <2>1 DEF UserDisconnected, CameraInv, CameraShape, UsersOnce, WalkInsideList
<1>2. ASSUME NEW k \in DOMAIN users, users[k].ip = ip, users' = RemoveAt(users, k),
             RemoveVideoWriterWithIP(ip)
      PROVE  CameraInv' /\ Listed' = Listed \ {ip}
  <2>1. writers' = writers
    BY <1>2, WritersKept
  <2>2. Len(users) \in Nat /\ DOMAIN users = 1..Len(users) /\ k \in 1..Len(users)
    BY UserAddress DEF CameraInv
  <2>3. /\ users' \in Seq(User) /\ Len(users') = Len(users) - 1
        /\ \A j \in 1..(Len(users) - 1) : users'[j] = IF j < k THEN users[j] ELSE users[j + 1]
    BY <1>2, <2>2, Removed DEF CameraInv, CameraShape
  <2>4. DOMAIN users' = 1..(Len(users) - 1)
    BY <2>2, <2>3
  <2>5. UsersOnce'
    <3> DEFINE before(m) == IF m < k THEN m ELSE m + 1
    <3>1. ASSUME NEW m \in 1..(Len(users) - 1)
          PROVE  before(m) \in 1..Len(users) /\ users'[m] = users[before(m)]
      <4>1. CASE m < k
        BY <2>2, <2>3, <4>1
      <4>2. CASE ~(m < k)
        BY <2>2, <2>3, <4>2
      <4> QED
        BY <4>1, <4>2
    <3> SUFFICES ASSUME NEW i \in 1..(Len(users) - 1), NEW j \in 1..(Len(users) - 1),
                        users'[i].ip = users'[j].ip
                 PROVE  i = j
      BY <2>2, <2>3 DEF UsersOnce
    <3>2. before(i) = before(j)
      BY <3>1 DEF CameraInv, UsersOnce
    <3> QED
      BY <2>2, <3>2
  <2>6. \A j \in DOMAIN users' : users'[j].ip \in Listed \ {ip}
    BY <1>2, <2>2, <2>3, <2>4 DEF CameraInv, UsersOnce, Listed
  <2>7. ASSUME NEW i \in DOMAIN users, users[i].ip # ip
        PROVE  \E j \in DOMAIN users' : users'[j].ip = users[i].ip
    <3>1. CASE i < k
      BY <2>2, <2>3, <2>4, <3>1
    <3>2. CASE i > k
      <4>1. i - 1 \in DOMAIN users' /\ users'[i - 1] = users[i]
        BY <2>2, <2>3, <2>4, <3>2
      <4> QED
        BY <4>1
    <3> QED
      BY <1>2, <2>2, <2>7, <3>1, <3>2
  <2>8. Listed' = Listed \ {ip}
    BY <2>6, <2>7 DEF Listed
  <2> QED
    BY <2>1, <2>3, <2>5, <2>8 DEF UserDisconnected, CameraInv, CameraShape, WalkInsideList
<1> QED
  BY <1>1, <1>2 DEF UserDisconnected

\* The request for the camera leaves both lists alone.
LEMMA CameraRequestInv ==
  ASSUME CameraInv, CameraRequest
  PROVE  CameraInv' /\ Listed' = Listed
<1>1. video' = "write" => video = "write"
  BY DEF CameraRequest
<1> QED
  BY <1>1 DEF CameraRequest, CameraInv, CameraShape, UsersOnce, WalkInsideList, Listed

\* A writer is appended to the list of an address; no entry of the users' gets another one.
LEMMA PushWriterInv ==
  ASSUME CameraInv, PushWriter
  PROVE  CameraInv' /\ Listed' = Listed
<1>1. Len(users) \in Nat /\ DOMAIN users = 1..Len(users)
  BY UserAddress DEF CameraInv
<1>2. PICK i \in 1..Len(users) :
        writers' = Append(writers, users[i].ip) /\ users' = [users EXCEPT ![i].created = TRUE]
  BY <1>1 DEF PushWriter, Waiting
<1>3. writers \in Seq(IPs) /\ users[i].ip \in IPs /\ users[i] \in User
  BY <1>1, UserAddress DEF CameraInv, CameraShape
<1>4. writers' \in Seq(IPs) /\ Len(writers') = Len(writers) + 1 /\ Len(writers) \in Nat
  BY <1>2, <1>3
<1> DEFINE u == [users[i] EXCEPT !.created = TRUE]
<1>5. u \in User /\ u.ip = users[i].ip
  BY <1>3 DEF User
<1>6. users' = [users EXCEPT ![i] = u]
  BY <1>2
<1> HIDE DEF u
<1>7. users' \in Seq(User) /\ Len(users') = Len(users) /\ DOMAIN users' = 1..Len(users)
  BY <1>1, <1>5, <1>6 DEF CameraInv, CameraShape
<1>8. \A j \in 1..Len(users) : users'[j].ip = users[j].ip
  BY <1>1, <1>5, <1>6
<1>9. UsersOnce'
  BY <1>7, <1>8 DEF CameraInv, UsersOnce
<1>10. Listed' = Listed
  BY <1>1, <1>7, <1>8 DEF Listed
<1>11. WalkInsideList'
  <2>1. last' = last /\ position' = position /\ video' = video /\ last \in Nat
    BY DEF PushWriter, CameraInv, CameraShape
  <2> QED
    BY <1>4, <2>1 DEF CameraInv, WalkInsideList
<1>12. position' \in Nat /\ last' \in Nat
  BY DEF PushWriter, CameraInv, CameraShape
<1> QED
  BY <1>4, <1>7, <1>9, <1>10, <1>11, <1>12 DEF CameraInv, CameraShape

LEMMA RequestDoneInv ==
  ASSUME CameraInv, RequestDone
  PROVE  CameraInv' /\ Listed' = Listed
BY DEF RequestDone, CameraInv, CameraShape, UsersOnce, WalkInsideList, Listed

LEMMA VideoThreadInv ==
  ASSUME CameraInv, VideoThread
  PROVE  CameraInv' /\ Listed' = Listed /\ streaming' = streaming
<1>1. users' = users /\ writers' = writers /\ streaming' = streaming
  BY DEF VideoThread, GrabFrame, WriteFrame
<1>2. Len(writers) \in Nat
  BY DEF CameraInv, CameraShape
<1>3. CASE GrabFrame
  <2>1. writers # <<>> => Len(writers) >= 1
    BY <1>2 DEF CameraInv, CameraShape
  <2> QED
    BY <1>1, <1>2, <1>3, <2>1 DEF GrabFrame, CameraInv, CameraShape, UsersOnce, WalkInsideList, Listed
<1>4. CASE WriteFrame
  BY <1>1, <1>2, <1>4 DEF WriteFrame, CameraInv, CameraShape, UsersOnce, WalkInsideList, Listed
<1> QED
  BY <1>3, <1>4 DEF VideoThread

LEMMA CameraUnchanged ==
  ASSUME UNCHANGED cameraVars
  PROVE  (CameraInv => CameraInv') /\ Listed' = Listed /\ streaming' = streaming
  BY DEF cameraVars, CameraInv, CameraShape, UsersOnce, WalkInsideList, Listed

-----------------------------------------------------------------------------
(* Server and camera together. Every step of the car is a step of the server *)
(* or leaves it alone, so that what holds of the server holds in the car.    *)

LEMMA CarStepsServer ==
  ASSUME [CarNext]_carVars
  PROVE  [Next]_vars
<1>1. CarNext => Next \/ UNCHANGED vars
  BY DEF CarNext, ClientConnects, ClientDisconnects, MessageArrives, ServerAlone, CameraAlone,
         RegisterHandler, Next, NetworkThread
<1> QED
  BY <1>1 DEF carVars

\* The car's server is the server: Application's handlers, the camera and its threads
\* do nothing to it that Server does not have.
THEOREM CarImplementsServer == CarSpec => Spec
<1>1. CarInit => Init
  BY DEF CarInit
<1>2. [CarNext]_carVars => [Next]_vars
  BY CarStepsServer
<1> QED
  BY <1>1, <1>2, PTL DEF CarSpec, Spec

\* The inductive invariant. Clients that are known were reported (Registered), so of two
\* clients with one address each is a reason for the other's missing entry.
CarInv ==
  /\ SessionInv /\ CameraInv
  /\ address \in [Conns -> IPs]
  /\ UsersMatchClients

Peers == {address[c] : c \in clients}

LEMMA UsersArePeers ==
  UsersAreClients <=> (Serving => Listed \subseteq missed \cup Peers)
BY DEF UsersAreClients, Listed, Peers

LEMMA LonePeers ==
  LoneClientsAreUsers <=>
          (Serving => \A c \in clients : \/ address[c] \in Listed \cup missed
                                         \/ \E d \in served \ {c} : address[d] = address[c])
BY DEF LoneClientsAreUsers, IsUser, Listed

\* A process that has crashed and a thread that has returned stay that way.
LEMMA ServingBefore ==
  ASSUME [Next]_vars, streaming' => streaming, Serving'
  PROVE  Serving
<1>1. proc' = "running" => proc = "running"
  BY DEF Next, Environment, PeerConnects, PeerCloses, PeerSends, OtherThreads, Stop, SetCallback, KickClient,
     NetworkThread, ThreadStarts, Listen, LoopHead, ReceiveMessage, ReceiveNothing, ReceiveFails,
     DeliverMessage, EventsDone, ClientLeaves, NeverAccepted, Accept, RegisterClient, IgnoreEvent, At, Alive,
     vars
<1>2. pc = "done" => pc' = "done"
  BY DEF Next, Environment, PeerConnects, PeerCloses, PeerSends, OtherThreads, Stop, SetCallback, KickClient,
     NetworkThread, ThreadStarts, Listen, LoopHead, ReceiveMessage, ReceiveNothing, ReceiveFails,
     DeliverMessage, EventsDone, ClientLeaves, NeverAccepted, Accept, RegisterClient, IgnoreEvent, At, vars
<1> QED
  BY <1>1, <1>2 DEF Serving, Alive

\* Steps that change neither list keep them matching.
LEMMA ListsUndisturbed ==
  ASSUME UsersMatchClients, Serving' => Serving, Listed' = Listed,
         UNCHANGED <<clients, served, missed, address>>
  PROVE  UsersMatchClients'
<1>1. Peers' = Peers
  BY DEF Peers
<1>2. UsersAreClients'
  BY <1>1, UsersArePeers DEF UsersMatchClients, UsersAreClients, Listed, Peers
<1>3. LoneClientsAreUsers'
  <2> SUFFICES ASSUME Serving', NEW c \in clients
               PROVE  \/ IsUser(address[c])' \/ address[c] \in missed
                      \/ \E d \in served \ {c} : address[d] = address[c]
    BY DEF LoneClientsAreUsers, IsUser
  <2>1. \/ address[c] \in Listed \cup missed
        \/ \E d \in served \ {c} : address[d] = address[c]
    BY LonePeers DEF UsersMatchClients
  <2> QED
    BY <2>1 DEF IsUser, Listed
<1> QED
  BY <1>2, <1>3 DEF UsersMatchClients

\* Both handlers, or the lack of them: the address is told to Application or missed.
LEMMA HandleConnected ==
  ASSUME CameraInv, NEW a \in IPs, NEW set, Handle(set, a, UserConnected(a))
  PROVE  /\ CameraInv'
         /\ \/ Listed' = Listed \cup {a} /\ missed' = missed
            \/ Listed' = Listed /\ missed' = missed \cup {a}
  BY UserConnectedInv, CameraUnchanged DEF Handle

LEMMA HandleDisconnected ==
  ASSUME CameraInv, NEW a \in IPs, NEW set, Handle(set, a, UserDisconnected(a))
  PROVE  /\ CameraInv'
         /\ \/ Listed' = Listed \ {a} /\ missed' = missed
            \/ Listed' = Listed /\ missed' = missed \cup {a}
  BY UserDisconnectedInv, CameraUnchanged DEF Handle

\* A client is registered: it becomes a camera user or its address misses a callback.
LEMMA ClientConnectsLists ==
  ASSUME CarInv, ClientConnects, Serving' => Serving
  PROVE  CameraInv' /\ UsersMatchClients'
<1>1. /\ pc = "accepted" /\ clients' = clients \cup {cur} /\ served \subseteq served'
      /\ address' = address
  BY DEF ClientConnects, RegisterClient, At
<1>2. cur \in Conns /\ clients \subseteq Conns
  BY <1>1 DEF CarInv, SessionInv, Shape, Accepting
<1> DEFINE a == address[cur]
<1>3. a \in IPs
  BY <1>2 DEF CarInv
<1>4. /\ CameraInv'
      /\ \/ Listed' = Listed \cup {a} /\ missed' = missed
         \/ Listed' = Listed /\ missed' = missed \cup {a}
  BY <1>3, HandleConnected DEF ClientConnects, CarInv
<1>5. Peers' = Peers \cup {a}
  BY <1>1 DEF Peers
<1>6. UsersAreClients'
  <2>1. Serving' => Listed \subseteq missed \cup Peers
    BY UsersArePeers DEF CarInv, UsersMatchClients
  <2>2. Serving' => Listed' \subseteq missed' \cup Peers'
    BY <2>1, <1>4, <1>5
  <2> QED
    BY <2>2 DEF UsersAreClients, Listed, Peers
<1>7. LoneClientsAreUsers'
  <2> SUFFICES ASSUME Serving', NEW c \in clients'
               PROVE  \/ IsUser(address[c])' \/ address'[c] \in missed'
                      \/ \E d \in served' \ {c} : address'[d] = address'[c]
    BY DEF LoneClientsAreUsers, IsUser
  <2>1. \/ address[c] \in Listed \cup missed \cup {a}
        \/ \E d \in served \ {c} : address[d] = address[c]
    <3>1. CASE c = cur
      BY <3>1
    <3>2. CASE c \in clients
      BY <3>2, LonePeers DEF CarInv, UsersMatchClients
    <3> QED
      BY <1>1, <3>1, <3>2
  <2>2. CASE address[c] \in Listed \cup missed \cup {a}
    <3>1. address[c] \in Listed' \cup missed'
      BY <1>4, <2>2
    <3> QED
      BY <1>1, <3>1 DEF IsUser, Listed
  <2> QED
    BY <1>1, <2>1, <2>2
<1> QED
  BY <1>4, <1>6, <1>7 DEF UsersMatchClients

\* A client leaves: its address goes with it, and the other clients that share it have its
\* connection to blame.
LEMMA ClientDisconnectsLists ==
  ASSUME CarInv, ClientDisconnects, Serving' => Serving
  PROVE  CameraInv' /\ UsersMatchClients'
<1> DEFINE c == Head(events).conn
           a == address[c]
<1>1. /\ events # <<>> /\ proc = "running" /\ served' = served /\ address' = address
      /\ Handle("disconnected" \in callbacks /\ handlers >= 2, a, UserDisconnected(a))
  BY DEF ClientDisconnects, ClientLeaves, At, Alive
<1>2. proc' = "running" => c \in clients /\ clients' = clients \ {c}
  BY <1>1 DEF ClientDisconnects, ClientLeaves, CallBack
<1>3. c \in Conns
  BY <1>1, HeadEvent DEF CarInv, SessionInv
<1> HIDE DEF c
<1>4. a \in IPs
  BY <1>3 DEF CarInv
<1>5. /\ CameraInv'
      /\ \/ Listed' = Listed \ {a} /\ missed' = missed
         \/ Listed' = Listed /\ missed' = missed \cup {a}
  BY <1>1, <1>4, HandleDisconnected DEF CarInv
<1>6. ASSUME Serving'
      PROVE  UsersAreClients' /\ LoneClientsAreUsers'
  <2>1. Serving /\ c \in clients /\ clients' = clients \ {c} /\ c \in served
    BY <1>1, <1>2, <1>6 DEF Serving, Alive, CarInv, SessionInv, Registered
  <2>2. Peers \subseteq Peers' \cup {a}
    BY <1>1, <2>1 DEF Peers
  <2>3. Listed \subseteq missed \cup Peers
    BY <2>1, UsersArePeers DEF CarInv, UsersMatchClients
  <2>4. Listed' \subseteq missed' \cup Peers'
    BY <1>5, <2>2, <2>3
  <2>5. ASSUME NEW e \in clients'
        PROVE  \/ address'[e] \in Listed' \cup missed'
               \/ \E d \in served' \ {e} : address'[d] = address'[e]
    <3>1. e \in clients /\ e # c
      BY <2>1
    <3>2. \/ address[e] \in Listed \cup missed
          \/ \E d \in served \ {e} : address[d] = address[e]
      BY <2>1, <3>1, LonePeers DEF CarInv, UsersMatchClients
    <3>3. CASE address[e] = a
      BY <1>1, <2>1, <3>1, <3>3
    <3>4. CASE address[e] # a
      BY <1>1, <1>5, <3>2, <3>4
    <3> QED
      BY <3>3, <3>4
  <2> QED
    BY <2>4, <2>5 DEF UsersAreClients, LoneClientsAreUsers, IsUser, Listed, Peers
<1> QED
  BY <1>5, <1>6 DEF UsersMatchClients, UsersAreClients, LoneClientsAreUsers

LEMMA MessageArrivesLists ==
  ASSUME CarInv, MessageArrives, Serving' => Serving
  PROVE  CameraInv' /\ UsersMatchClients'
<1>1. UNCHANGED <<clients, served, missed, address>>
  BY DEF MessageArrives, DeliverMessage
<1>2. CameraInv' /\ Listed' = Listed
  BY CameraRequestInv, CameraUnchanged DEF MessageArrives, CarInv
<1> QED
  BY <1>1, <1>2, ListsUndisturbed DEF CarInv

\* Of the server's other steps only the end of its loop touches the list of clients, and then
\* the network thread has nothing more to serve.
LEMMA ServerAloneLists ==
  ASSUME CarInv, ServerAlone, Serving' => Serving
  PROVE  CameraInv' /\ UsersMatchClients'
<1>1. CameraInv' /\ Listed' = Listed
  BY CameraUnchanged DEF ServerAlone, CarInv
<1>2. UNCHANGED <<missed, address>>
  BY DEF ServerAlone
<1>3. UNCHANGED <<clients, served>> \/ pc' = "done"
  BY DEF ServerAlone, Environment, PeerConnects, PeerCloses, PeerSends, OtherThreads, Stop, SetCallback,
     KickClient, ThreadStarts, Listen, LoopHead, ReceiveMessage, ReceiveNothing, ReceiveFails,
     EventsDone, NeverAccepted, Accept, IgnoreEvent, history
<1>4. CASE pc' = "done"
  BY <1>1, <1>4 DEF UsersMatchClients, UsersAreClients, LoneClientsAreUsers, Serving
<1> QED
  BY <1>1, <1>2, <1>3, <1>4, ListsUndisturbed DEF CarInv

LEMMA CarInvNext ==
  ASSUME CarInv, [CarNext]_carVars
  PROVE  CarInv'
<1>1. [Next]_vars
  BY CarStepsServer
<1>2. SessionInv'
  BY <1>1, NextInv DEF CarInv
<1>3. address' = address
  BY DEF CarNext, ClientConnects, ClientDisconnects, MessageArrives, ServerAlone, CameraAlone,
         RegisterHandler, carVars
<1>4. Serving' => Serving
  <2>1. streaming' => streaming
    BY Zenon DEF CarNext, ClientConnects, ClientDisconnects, MessageArrives, ServerAlone, CameraAlone,
       VideoThread, GrabFrame, WriteFrame, PushWriter, RequestDone, RegisterHandler, carVars, cameraVars
  <2> QED
    BY <1>1, <2>1, ServingBefore
<1>5. CameraInv' /\ UsersMatchClients'
  <2>1. CASE CameraAlone
    <3>1. CameraInv' /\ Listed' = Listed /\ UNCHANGED <<clients, served, missed, address>>
      BY <2>1, VideoThreadInv, PushWriterInv, RequestDoneInv DEF CameraAlone, CarInv, vars, history
    <3> QED
      BY <1>4, <3>1, ListsUndisturbed DEF CarInv
  <2>2. CASE RegisterHandler \/ UNCHANGED carVars
    <3>1. UNCHANGED <<cameraVars, clients, served, missed, address>>
      BY <2>2 DEF RegisterHandler, carVars, vars, history
    <3> QED
      BY <1>4, <3>1, CameraUnchanged, ListsUndisturbed DEF CarInv
  <2> QED
    BY <1>4, <2>1, <2>2, ClientConnectsLists, ClientDisconnectsLists, MessageArrivesLists,
       ServerAloneLists DEF CarNext
<1> QED
  BY <1>2, <1>3, <1>5 DEF CarInv

LEMMA AlwaysCarInv == CarSpec => []CarInv
<1>1. CarInit => CarInv
  <2> SUFFICES ASSUME CarInit PROVE CarInv
    OBVIOUS
  <2>1. SessionInv
    BY DEF CarInit, Init, SessionInv, Shape, OpenedOnce, Accepting, Registered, Opening, Pcs, States, Event
  <2>2. Len(users) = 0 /\ DOMAIN users = {} /\ users \in Seq(User) /\ writers \in Seq(IPs)
    BY DEF CarInit, CameraInit
  <2>3. CameraInv
    BY <2>2 DEF CarInit, CameraInit, CameraInv, CameraShape, UsersOnce, WalkInsideList
  <2>4. UsersMatchClients
    BY <2>2 DEF CarInit, Init, UsersMatchClients, UsersAreClients, LoneClientsAreUsers
  <2> QED
    BY <2>1, <2>3, <2>4 DEF CarInit, CarInv
<1> QED
  BY <1>1, CarInvNext, PTL DEF CarSpec

\* The video thread never writes past the end of the list of writers, whatever the handlers
\* on the network thread do to it while it walks: it only ever grows.
THEOREM WalksStayInside == CarSpec => []WalkInsideList
<1>1. CarInv => WalkInsideList
  BY DEF CarInv, CameraInv
<1> QED
  BY <1>1, AlwaysCarInv, PTL

\* The list of camera users follows the registry of clients: no user without a client, and no
\* client without an entry unless its address is shared or came before the handlers.
THEOREM UsersFollowClients == CarSpec => []UsersMatchClients
<1>1. CarInv => UsersMatchClients
  BY DEF CarInv
<1> QED
  BY <1>1, AlwaysCarInv, PTL

\* In the car, too, every look-up finds its client.
THEOREM CarLookupsSucceed == CarSpec => []ClientsAreFound
BY CarImplementsServer, LookupsSucceed, PTL

\* What the handlers and the video thread keep beside the two lists.
CameraTypes ==
  /\ cameraOpen \in BOOLEAN /\ camera \in {"closed", "open"}
  /\ video \in {"none", "grab", "write", "ended"} /\ {handling, streaming} \subseteq BOOLEAN
  /\ handlers \in 0..3 /\ missed \subseteq IPs

LEMMA CameraTypesNext ==
  ASSUME CarInv, CameraTypes, [CarNext]_carVars
  PROVE  CameraTypes'
<1> USE DEF CameraTypes
<1>1. CASE ClientConnects
  <2>1. address[cur] \in IPs
    BY <1>1 DEF ClientConnects, RegisterClient, At, CarInv, SessionInv, Accepting
  <2> QED
    BY <1>1, <2>1 DEF ClientConnects, Handle, UserConnected, cameraVars
<1>2. CASE ClientDisconnects
  <2>1. Head(events) \in Event
    BY <1>2 DEF ClientDisconnects, ClientLeaves, CarInv, SessionInv, Shape
  <2>2. address[Head(events).conn] \in IPs
    BY <2>1 DEF Event, CarInv
  <2> QED
    BY <1>2, <2>2 DEF ClientDisconnects, Handle, UserDisconnected, cameraVars
<1>3. CASE MessageArrives
  <2>1. CASE UNCHANGED cameraVars
    BY <1>3, <2>1 DEF MessageArrives, cameraVars
  <2>2. CASE CameraRequest
    BY <1>3, <2>2 DEF MessageArrives, CameraRequest
  <2> QED
    BY <1>3, <2>1, <2>2 DEF MessageArrives
<1>4. CASE ServerAlone \/ UNCHANGED carVars
  BY <1>4 DEF ServerAlone, cameraVars, carVars
<1>5. CASE CameraAlone
  BY <1>5 DEF CameraAlone, VideoThread, GrabFrame, WriteFrame, PushWriter, RequestDone
<1>6. CASE RegisterHandler
  BY <1>6 DEF RegisterHandler, cameraVars
<1> HIDE DEF CameraTypes
<1> QED
  BY <1>1, <1>2, <1>3, <1>4, <1>5, <1>6 DEF CarNext

\* In the car, the two lists hold addresses of connections, also those that came before the
\* handlers, and the walk over the writers counts from the first of them.
THEOREM CarIsTyped == CarSpec => []CarTypeOK
<1>1. CarInit => CameraTypes
  <2> SUFFICES ASSUME CarInit PROVE CameraTypes
    OBVIOUS
  <2>1. cameraOpen = FALSE /\ streaming = TRUE /\ handling = FALSE
    BY DEF CarInit, CameraInit
  <2>2. camera = "closed" /\ video = "none"
    BY DEF CarInit, CameraInit
  <2>3. handlers \in 0..3 /\ missed \subseteq IPs
    BY DEF CarInit
  <2> QED
    BY <2>1, <2>2, <2>3 DEF CameraTypes
<1>2. CarInv /\ CameraTypes /\ TypeOK => CarTypeOK
  BY DEF CarInv, CameraInv, CameraShape, CameraTypes, CameraTypeOK, CarTypeOK
<1> QED
  BY <1>1, <1>2, AlwaysCarInv, CameraTypesNext, CarImplementsServer, ServerIsTyped, PTL DEF CarSpec
-----------------------------------------------------------------------------
(* The sessions of the library's client, which has its own state.            *)

\* A connection exists only while m_Connection names it, within a session.
WireInv ==
  /\ wire # "none" => handle = "open"
  /\ handle = "open" => thread \in {"enter", "loop", "messages", "events", "tell", "close"}

\* m_Running is only set in the loop, and nothing is told before it.
RunningInv ==
  /\ clientRunning => thread \in {"loop", "messages", "events"}
  /\ thread \in {"init", "connect", "enter"} => told = "nothing"
  /\ thread = "close" => told = "disconnected"

ClientInv ==
  /\ thread \in Over \cup Session
  /\ WireInv /\ RunningInv /\ NothingLeftBehind

LEMMA UserCalls ==
  ASSUME ClientInv,
         ConnectToServer \/ StartThread \/ Disconnect \/ Destroy \/ Join
  PROVE  ClientInv'
<1> USE DEF ClientInv, WireInv, RunningInv, NothingLeftBehind, Over, Session, network
<1>1. CASE ConnectToServer
  BY <1>1 DEF ConnectToServer
<1>2. CASE StartThread
  BY <1>2 DEF StartThread
<1>3. CASE Disconnect
  BY <1>3 DEF Disconnect
<1>4. CASE Destroy
  BY <1>4 DEF Destroy
<1>5. CASE Join
  BY <1>5 DEF Join
<1> QED
  BY <1>1, <1>2, <1>3, <1>4, <1>5

LEMMA SessionBegins ==
  ASSUME ClientInv, InitLibrary \/ OpenConnection \/ EnterLoop \/ Loop
  PROVE  ClientInv'
<1> USE DEF ClientInv, WireInv, RunningInv, NothingLeftBehind, Over, Session, network
<1>1. CASE InitLibrary
  BY <1>1 DEF InitLibrary, Fail
<1>2. CASE OpenConnection
  BY <1>2 DEF OpenConnection, Fail
<1>3. CASE EnterLoop
  BY <1>3 DEF EnterLoop
<1>4. CASE Loop
  BY <1>4 DEF Loop
<1> QED
  BY <1>1, <1>2, <1>3, <1>4

LEMMA SessionRuns ==
  ASSUME ClientInv,
         \/ PollIncomingMessages \/ NoMoreEvents
         \/ OnConnecting \/ OnConnected \/ OnClosed
  PROVE  ClientInv'
<1> USE DEF ClientInv, WireInv, RunningInv, NothingLeftBehind, Over, Session, network
<1>1. CASE PollIncomingMessages
  BY <1>1 DEF PollIncomingMessages
<1>2. CASE NoMoreEvents
  BY <1>2 DEF NoMoreEvents
<1>3. CASE OnConnecting
  BY <1>3 DEF OnConnecting
<1>4. CASE OnConnected
  BY <1>4 DEF OnConnected
<1>5. CASE OnClosed
  BY <1>5 DEF OnClosed
<1> QED
  BY <1>1, <1>2, <1>3, <1>4, <1>5

LEMMA SessionEnds ==
  ASSUME ClientInv, TellDisconnected \/ EndSession
  PROVE  ClientInv'
<1> USE DEF ClientInv, WireInv, RunningInv, NothingLeftBehind, Over, Session, network
<1>1. CASE TellDisconnected
  BY <1>1 DEF TellDisconnected
<1>2. CASE EndSession
  BY <1>2 DEF EndSession
<1> QED
  BY <1>1, <1>2

LEMMA NetworkActs ==
  ASSUME ClientInv, Connected \/ Lost \/ Message \/ UNCHANGED clientVars
  PROVE  ClientInv'
<1> USE DEF ClientInv, WireInv, RunningInv, NothingLeftBehind, Over, Session
<1>1. CASE Connected \/ Lost
  BY <1>1 DEF Connected, Lost
<1>2. CASE Message \/ UNCHANGED clientVars
  BY <1>2 DEF Message, clientVars
<1> QED
  BY <1>1, <1>2

LEMMA ClientInvNext == ClientInv /\ [ClientNext]_clientVars => ClientInv'
BY UserCalls, SessionBegins, SessionRuns, SessionEnds, NetworkActs DEF ClientNext, NetworkThreadFunc

\* A session of the client that is over has left nothing behind: no connection, no running
\* flag, no initialised library unless it failed to begin, and nobody who was told of the
\* connection but not of its end.
THEOREM SessionsLeaveNothing == ClientSpec => []NothingLeftBehind
<1>1. ClientInit => ClientInv
  BY DEF ClientInit, ClientInv, WireInv, RunningInv, NothingLeftBehind, Over
<1>2. ClientInv => NothingLeftBehind
  BY DEF ClientInv
<1> QED
  BY <1>1, <1>2, ClientInvNext, PTL DEF ClientSpec

\* Every status change of one connection waits at most once: that it began, that it was
\* established, that it was lost.
ChangesWait ==
  /\ changes \in Seq({"connecting", "connected", "closed"})
  /\ Len(changes) <= 3
  /\ wire = "connecting" => Len(changes) <= 1
  /\ wire = "connected" => Len(changes) <= 2

ClientTypes ==
  /\ user \in {"idle", "disconnect", "connect", "destroy"}
  /\ {clientRunning, library, stopLost} \subseteq BOOLEAN /\ waiting \in 0..MaxWaiting
  /\ status \in {"Disconnected", "Connected", "Connecting", "FailedToConnect"}
  /\ handle \in {"invalid", "open", "stale"} /\ told \in {"nothing", "connected", "disconnected"}
  /\ wire \in {"none", "connecting", "connected", "lost"}

LEMMA ClientTypesNext ==
  ASSUME ClientTypes, [ClientNext]_clientVars
  PROVE  ClientTypes'
<1> USE WaitingAssumption DEF ClientTypes, network
<1>1. CASE ConnectToServer \/ StartThread \/ Disconnect \/ Destroy \/ Join
  BY <1>1 DEF ConnectToServer, StartThread, Disconnect, Destroy, Join
<1>2. CASE InitLibrary \/ OpenConnection
  BY <1>2 DEF InitLibrary, OpenConnection, Fail
<1>3. CASE EnterLoop \/ Loop \/ NoMoreEvents
  BY <1>3 DEF EnterLoop, Loop, NoMoreEvents
<1>4. CASE PollIncomingMessages
  <2>1. CASE waiting' = waiting /\ clientRunning' \in {clientRunning, FALSE}
    BY <1>4, <2>1 DEF PollIncomingMessages
  <2>2. CASE waiting > 0 /\ waiting' = waiting - 1 /\ clientRunning' = clientRunning
    BY <1>4, <2>2 DEF PollIncomingMessages
  <2> HIDE DEF ClientTypes
  <2> QED
    BY <1>4, <2>1, <2>2 DEF PollIncomingMessages
<1>5. CASE OnConnecting \/ OnConnected \/ OnClosed
  <2>1. CASE OnConnecting
    BY <2>1 DEF OnConnecting
  <2>2. CASE OnConnected
    BY <2>2 DEF OnConnected
  <2>3. CASE OnClosed
    <3>1. clientRunning' = FALSE /\ status' = "Disconnected" /\ handle' = "invalid" /\ wire' = "none" /\ waiting' = 0
          /\ UNCHANGED <<user, library, told, stopLost>>
      BY <2>3 DEF OnClosed
    <3>2. waiting' \in 0..MaxWaiting
      BY <3>1
    <3>3. clientRunning' \in BOOLEAN /\ library' \in BOOLEAN /\ stopLost' \in BOOLEAN
      BY <3>1, Zenon
    <3> QED
      BY <3>1, <3>2, <3>3
  <2> QED
    BY <1>5, <2>1, <2>2, <2>3
<1>6. CASE TellDisconnected \/ EndSession
  <2>1. CASE TellDisconnected
    BY <2>1 DEF TellDisconnected
  <2>2. CASE EndSession
    <3>1. handle' \in {handle, "stale"} /\ wire' \in {wire, "none"} /\ waiting' \in {waiting, 0}
      BY <2>2 DEF EndSession
    <3>2. status' = "Disconnected" /\ library' = FALSE /\ UNCHANGED <<user, clientRunning, told, stopLost>>
      BY <2>2 DEF EndSession
    <3>3. waiting' \in 0..MaxWaiting
      BY <3>1
    <3>4. clientRunning' \in BOOLEAN /\ library' \in BOOLEAN /\ stopLost' \in BOOLEAN
      BY <3>2, Zenon
    <3> QED
      BY <3>1, <3>2, <3>3, <3>4
  <2> QED
    BY <1>6, <2>1, <2>2
<1>7. CASE Connected \/ Lost \/ Message
  BY <1>7 DEF Connected, Lost, Message
<1>8. CASE UNCHANGED clientVars
  BY <1>8 DEF clientVars
<1> HIDE DEF ClientTypes
<1> QED
  BY <1>1, <1>2, <1>3, <1>4, <1>5, <1>6, <1>7, <1>8 DEF ClientNext, NetworkThreadFunc

LEMMA ChangesWaitNext ==
  ASSUME ChangesWait, [ClientNext]_clientVars
  PROVE  ChangesWait'
<1> USE DEF ChangesWait
<1>1. CASE UNCHANGED <<wire, changes>>
  BY <1>1
<1>2. CASE OpenConnection
  <2>1. CASE wire' = "connecting" /\ changes' = <<"connecting">>
    BY <2>1
  <2> QED
    BY <1>1, <1>2, <2>1 DEF OpenConnection, Fail, network
<1>3. CASE changes # <<>> /\ changes' = Tail(changes) /\ wire' \in {wire, "none"}
  BY <1>3
<1>4. CASE EndSession
  BY <1>4 DEF EndSession
<1>5. CASE Connected
  BY <1>5 DEF Connected
<1>6. CASE Lost
  BY <1>6 DEF Lost
<1> HIDE DEF ChangesWait
<1>7. CASE ConnectToServer \/ StartThread \/ Disconnect \/ Destroy \/ Join \/ InitLibrary
  BY <1>1, <1>7 DEF ConnectToServer, StartThread, Disconnect, Destroy, Join, InitLibrary, Fail, network
<1>8. CASE EnterLoop \/ Loop \/ NoMoreEvents \/ PollIncomingMessages \/ TellDisconnected
  BY <1>1, <1>8 DEF EnterLoop, Loop, NoMoreEvents, PollIncomingMessages, TellDisconnected, network
<1>9. CASE OnConnecting \/ OnConnected \/ OnClosed
  BY <1>3, <1>9 DEF OnConnecting, OnConnected, OnClosed
<1>10. CASE Message \/ UNCHANGED clientVars
  BY <1>1, <1>10 DEF Message, clientVars
<1> QED
  BY <1>2, <1>4, <1>5, <1>6, <1>7, <1>8, <1>9, <1>10 DEF ClientNext, NetworkThreadFunc

\* What the client's thread and user leave in its members is always one of their values, and the
\* changes that wait for RunCallbacks are at most three.
THEOREM ClientIsTyped == ClientSpec => []ClientTypeOK
<1>1. ClientInit => ClientInv /\ ClientTypes /\ ChangesWait
  <2> SUFFICES ASSUME ClientInit PROVE ClientInv /\ ClientTypes /\ ChangesWait
    OBVIOUS
  <2>1. ClientInv
    BY DEF ClientInit, ClientInv, WireInv, RunningInv, NothingLeftBehind, Over
  <2>2. ClientTypes
    <3>1. 0 \in 0..MaxWaiting
      BY WaitingAssumption
    <3> QED
      BY <3>1 DEF ClientInit, ClientTypes
  <2>3. ChangesWait
    BY DEF ClientInit, ChangesWait
  <2> QED
    BY <2>1, <2>2, <2>3
<1>2. ClientInv /\ ClientTypes /\ ChangesWait => ClientTypeOK
  BY DEF ClientInv, ClientTypes, ChangesWait, ClientTypeOK
<1> QED
  BY <1>1, <1>2, ClientInvNext, ClientTypesNext, ChangesWaitNext, PTL DEF ClientSpec
=============================================================================
