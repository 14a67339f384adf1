------------------------------- MODULE CarServer -------------------------------
(***************************************************************************)
(* The server together with the camera users Application keeps from its    *)
(* callbacks: a callback of Server runs ServerLayer's wrapper, which calls *)
(* Application's handler if it is there already. Application's constructor *)
(* registers its handlers one by one, while the network thread runs.       *)
(***************************************************************************)
EXTENDS Server, CameraUsers

VARIABLES
  address,  \* the address of each connection's peer
  handlers, \* how many of Application's handlers are registered: connected,
            \* disconnected, message 50
  missed    \* history: addresses with a callback that found no handler

carVars == <<vars, cameraVars, address, handlers, missed>>

CarTypeOK ==
  /\ TypeOK /\ CameraTypeOK
  /\ address \in [Conns -> IPs] /\ handlers \in 0..3 /\ missed \subseteq IPs

CarInit ==
  /\ Init /\ CameraInit
  /\ address \in [Conns -> IPs] /\ handlers = 0 /\ missed = {}

\* ServerLayer's constructor has returned; Application's goes on.
RegisterHandler ==
  /\ Alive /\ streaming /\ callbacks = Callbacks /\ handlers < 3
  /\ handlers' = handlers + 1
  /\ UNCHANGED <<vars, cameraVars, address, missed>>

\* m_ServerConnectedCallback and m_ServerDisconnectedCallback are tested before
\* they are called.
Handle(set, ip, handled) ==
  \/ set /\ handled /\ UNCHANGED missed
  \/ ~set /\ missed' = missed \cup {ip} /\ UNCHANGED cameraVars

ClientConnects ==
  /\ streaming /\ ~handling
  /\ RegisterClient
  /\ Handle("connected" \in callbacks /\ handlers >= 1, address[cur],
            UserConnected(address[cur]))
  /\ UNCHANGED <<address, handlers>>

ClientDisconnects ==
  /\ streaming /\ ~handling
  /\ ClientLeaves
  /\ Handle("disconnected" \in callbacks /\ handlers >= 2, address[Head(events).conn],
            UserDisconnected(address[Head(events).conn]))
  /\ UNCHANGED <<address, handlers>>

\* A message is a camera request or none of the camera's business; a request that
\* comes before its handler is registered is dropped.
MessageArrives ==
  /\ streaming /\ ~handling
  /\ DeliverMessage
  /\ \/ /\ cur \in clients /\ size = "data" /\ "data" \in callbacks /\ handlers = 3
        /\ CameraRequest
     \/ UNCHANGED cameraVars
  /\ UNCHANGED <<address, handlers, missed>>

\* The network thread does nothing else before the handler of a message has returned.
ServerAlone ==
  /\ streaming
  /\ \/ Environment \/ OtherThreads
     \/ /\ ~handling
        /\ \/ ThreadStarts \/ Listen \/ LoopHead
           \/ ReceiveMessage \/ ReceiveNothing \/ ReceiveFails
           \/ EventsDone \/ NeverAccepted \/ Accept \/ IgnoreEvent
  /\ UNCHANGED <<cameraVars, address, handlers, missed>>

CameraAlone ==
  /\ Alive
  /\ VideoThread \/ PushWriter \/ RequestDone
  /\ UNCHANGED <<vars, address, handlers, missed>>

CarNext ==
  \/ ClientConnects \/ ClientDisconnects \/ MessageArrives
  \/ ServerAlone \/ CameraAlone \/ RegisterHandler

CarSpec == CarInit /\ [][CarNext]_carVars

-----------------------------------------------------------------------------
(* Properties.                                                              *)

Serving == Alive /\ streaming /\ pc # "done"

\* A camera user is a connected client, unless a callback for its address came
\* before Application had registered the handler.
UsersAreClients ==
  Serving => \A i \in DOMAIN users :
               users[i].ip \in missed \/ \E c \in clients : address[c] = users[i].ip

\* A client is a camera user as long as no other connection shares its address:
\* the users are kept by address, and the first of two connections to close takes
\* the entry of both along.
LoneClientsAreUsers ==
  Serving => \A c \in clients :
               \/ IsUser(address[c]) \/ address[c] \in missed
               \/ \E d \in served \ {c} : address[d] = address[c]

\* Both: the two lists that are kept of the same events agree, but for these
\* exceptions.
UsersMatchClients == UsersAreClients /\ LoneClientsAreUsers
=============================================================================
