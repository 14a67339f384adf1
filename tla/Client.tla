------------------------------- MODULE Client -------------------------------
(***************************************************************************)
(* The networking library's client (Networking/Client.cpp): a thread per   *)
(* session, which its user starts with ConnectToServer and stops with      *)
(* Disconnect or waits for in the destructor. The network is external: it  *)
(* connects, loses the connection and brings messages as it likes. Reading *)
(* or writing m_Running is one step, although it is no atomic variable.    *)
(***************************************************************************)
EXTENDS Naturals, Sequences

CONSTANT MaxWaiting  \* messages that wait for the thread
ASSUME WaitingAssumption == MaxWaiting \in Nat \ {0}

VARIABLES
  thread,        \* where m_NetworkThread is: "none" if it is not joinable
  user,          \* what the client's user waits for
  clientRunning, \* m_Running
  status,        \* m_ConnectionStatus
  handle,        \* m_Connection
  library,       \* whether GameNetworkingSockets is initialised
  wire,          \* the connection itself
  changes,       \* its status changes that RunCallbacks has not reported yet
  waiting,       \* messages that have not been received
  told,          \* history: the callback called last in this session
  stopLost       \* history: m_Running was set again after Disconnect had cleared it

clientVars == <<thread, user, clientRunning, status, handle, library, wire, changes, waiting, told, stopLost>>
network == <<wire, changes, waiting>>

Over    == {"none", "ended"}
Session == {"init", "connect", "enter", "loop", "messages", "events", "tell", "close"}

ClientTypeOK ==
  /\ thread \in Over \cup Session /\ user \in {"idle", "disconnect", "connect", "destroy"}
  /\ {clientRunning, library, stopLost} \subseteq BOOLEAN /\ waiting \in 0..MaxWaiting
  /\ status \in {"Disconnected", "Connected", "Connecting", "FailedToConnect"}
  /\ handle \in {"invalid", "open", "stale"} /\ told \in {"nothing", "connected", "disconnected"}
  /\ wire \in {"none", "connecting", "connected", "lost"} /\ Len(changes) <= 3

ClientInit ==
  /\ thread = "none" /\ user = "idle" /\ clientRunning = FALSE /\ status = "Disconnected" /\ handle = "invalid"
  /\ library = FALSE /\ wire = "none" /\ changes = <<>> /\ waiting = 0 /\ told = "nothing" /\ stopLost = FALSE

-----------------------------------------------------------------------------
(* The user's calls.                                                        *)

\* ConnectToServer does nothing in a session, and waits for a thread that has ended, or that
\* is only about to enter its session.
ConnectToServer ==
  /\ user = "idle" /\ ~clientRunning
  /\ user' = "connect"
  /\ UNCHANGED <<thread, clientRunning, status, handle, library, network, told, stopLost>>

StartThread ==
  /\ user = "connect" /\ thread \in Over
  /\ thread' = "init" /\ user' = "idle" /\ told' = "nothing" /\ stopLost' = FALSE
  /\ UNCHANGED <<clientRunning, status, handle, library, network>>

Disconnect ==
  /\ user = "idle"
  /\ clientRunning' = FALSE /\ user' = "disconnect"
  /\ UNCHANGED <<thread, status, handle, library, network, told, stopLost>>

\* The destructor waits for the session's end, but does not bring it about.
Destroy ==
  /\ user = "idle" /\ user' = "destroy"
  /\ UNCHANGED <<thread, clientRunning, status, handle, library, network, told, stopLost>>

\* After a destructor, the user has a new client.
Join ==
  /\ user \in {"disconnect", "destroy"} /\ thread \in Over
  /\ thread' = "none" /\ user' = "idle"
  /\ IF user = "destroy"
     THEN clientRunning' = FALSE /\ status' = "Disconnected" /\ handle' = "invalid"
     ELSE UNCHANGED <<clientRunning, status, handle>>
  /\ UNCHANGED <<library, network, told, stopLost>>

-----------------------------------------------------------------------------
(* NetworkThreadFunc.                                                       *)

\* An early return leaves the library as it is.
Fail == /\ status' = "FailedToConnect" /\ thread' = "ended"
        /\ UNCHANGED <<handle, network>>

InitLibrary ==
  /\ thread = "init"
  /\ \/ Fail /\ UNCHANGED library
     \/ /\ thread' = "connect" /\ status' = "Connecting" /\ library' = TRUE
        /\ UNCHANGED <<handle, network>>
  /\ UNCHANGED <<user, clientRunning, told, stopLost>>

\* The address cannot be parsed, the connection cannot be created, or it begins.
OpenConnection ==
  /\ thread = "connect"
  /\ \/ Fail /\ clientRunning' = FALSE
     \/ Fail /\ UNCHANGED clientRunning
     \/ /\ thread' = "enter" /\ handle' = "open" /\ wire' = "connecting" /\ changes' = <<"connecting">>
        /\ UNCHANGED <<clientRunning, status, waiting>>
  /\ UNCHANGED <<user, library, told, stopLost>>

\* m_Running is set whatever happened since ConnectToServer.
EnterLoop ==
  /\ thread = "enter"
  /\ clientRunning' = TRUE /\ thread' = "loop" /\ stopLost' = (user = "disconnect")
  /\ UNCHANGED <<user, status, handle, library, network, told>>

Loop ==
  /\ thread = "loop"
  /\ thread' = IF clientRunning THEN "messages" ELSE "tell"
  /\ UNCHANGED <<user, clientRunning, status, handle, library, network, told, stopLost>>

\* Mutant: the loop does not look at m_Running.
PollUntilEmpty ==
  /\ thread = "messages"
  /\ \/ waiting = 0 /\ thread' = "events" /\ UNCHANGED <<clientRunning, waiting>>
     \/ waiting > 0 /\ waiting' = waiting - 1 /\ UNCHANGED <<thread, clientRunning>>
  /\ UNCHANGED <<user, status, handle, library, wire, changes, told, stopLost>>

\* PollIncomingMessages: every message is passed on, as long as the client runs; an error of
\* the library ends the session.
PollIncomingMessages ==
  /\ thread = "messages"
  /\ \/ (~clientRunning \/ waiting = 0) /\ thread' = "events" /\ UNCHANGED <<clientRunning, waiting>>
     \/ clientRunning /\ thread' = "events" /\ clientRunning' = FALSE /\ UNCHANGED waiting
     \/ clientRunning /\ waiting > 0 /\ waiting' = waiting - 1 /\ UNCHANGED <<thread, clientRunning>>
  /\ UNCHANGED <<user, status, handle, library, wire, changes, told, stopLost>>

\* RunCallbacks reports every event before it returns.
NoMoreEvents ==
  /\ thread = "events" /\ changes = <<>>
  /\ thread' = "loop"
  /\ UNCHANGED <<user, clientRunning, status, handle, library, network, told, stopLost>>

OnConnecting ==
  /\ thread = "events" /\ changes # <<>> /\ Head(changes) = "connecting"
  /\ changes' = Tail(changes)
  /\ UNCHANGED <<thread, user, clientRunning, status, handle, library, wire, waiting, told, stopLost>>

OnConnected ==
  /\ thread = "events" /\ changes # <<>> /\ Head(changes) = "connected"
  /\ changes' = Tail(changes) /\ status' = "Connected" /\ told' = "connected"
  /\ UNCHANGED <<thread, user, clientRunning, handle, library, wire, waiting, stopLost>>

\* Mutant: the connection is forgotten, but not closed.
OnClosedForget ==
  /\ thread = "events" /\ changes # <<>> /\ Head(changes) = "closed"
  /\ changes' = Tail(changes) /\ clientRunning' = FALSE /\ status' = "Disconnected" /\ handle' = "invalid"
  /\ UNCHANGED <<thread, user, library, wire, waiting, told, stopLost>>

\* ClosedByPeer or ProblemDetectedLocally: the connection is closed on this side, too.
OnClosed ==
  /\ thread = "events" /\ changes # <<>> /\ Head(changes) = "closed"
  /\ changes' = Tail(changes) /\ clientRunning' = FALSE /\ status' = "Disconnected"
  /\ handle' = "invalid" /\ wire' = "none" /\ waiting' = 0
  /\ UNCHANGED <<thread, user, library, told, stopLost>>

TellDisconnected ==
  /\ thread = "tell"
  /\ told' = "disconnected" /\ thread' = "close"
  /\ UNCHANGED <<user, clientRunning, status, handle, library, network, stopLost>>

\* A connection that is still open is closed; m_Connection keeps its value.
EndSession ==
  /\ thread = "close"
  /\ IF handle = "open"
     THEN handle' = "stale" /\ wire' = "none" /\ waiting' = 0
     ELSE UNCHANGED <<handle, wire, waiting>>
  /\ changes' = <<>> /\ status' = "Disconnected" /\ library' = FALSE /\ thread' = "ended"
  /\ UNCHANGED <<user, clientRunning, told, stopLost>>

NetworkThreadFunc ==
  \/ InitLibrary \/ OpenConnection \/ EnterLoop \/ Loop \/ PollIncomingMessages
  \/ NoMoreEvents \/ OnConnecting \/ OnConnected \/ OnClosed \/ TellDisconnected \/ EndSession

-----------------------------------------------------------------------------
(* The network.                                                             *)

Connected ==
  /\ wire = "connecting"
  /\ wire' = "connected" /\ changes' = Append(changes, "connected")
  /\ UNCHANGED <<thread, user, clientRunning, status, handle, library, waiting, told, stopLost>>

Lost ==
  /\ wire \in {"connecting", "connected"}
  /\ wire' = "lost" /\ changes' = Append(changes, "closed")
  /\ UNCHANGED <<thread, user, clientRunning, status, handle, library, waiting, told, stopLost>>

Message ==
  /\ wire = "connected" /\ waiting < MaxWaiting
  /\ waiting' = waiting + 1
  /\ UNCHANGED <<thread, user, clientRunning, status, handle, library, wire, changes, told, stopLost>>

ClientNext ==
  \/ ConnectToServer \/ StartThread \/ Disconnect \/ Destroy \/ Join
  \/ NetworkThreadFunc
  \/ Connected \/ Lost \/ Message

\* Threads are scheduled; the network need not do anything.
ClientSpec == ClientInit /\ [][ClientNext]_clientVars /\ WF_clientVars(NetworkThreadFunc) /\ WF_clientVars(Join)

-----------------------------------------------------------------------------
(* Properties.                                                              *)

\* A session that is over has left nothing behind: its connection is closed, the library shut
\* down, the status is not one of a session, and who was told of the connection was told
\* of its end. A session that failed to begin leaves the library initialised.
NothingLeftBehind ==
  thread \in Over =>
    /\ wire = "none" /\ ~clientRunning /\ told # "connected"
    /\ status \in {"Disconnected", "FailedToConnect"}
    /\ library => told = "nothing"

\* Disconnect returns, however many messages come in; unless it was called before the thread
\* had set m_Running, which then runs on until the network ends the session.
DisconnectReturns == user = "disconnect" ~> (user # "disconnect" \/ stopLost)
=============================================================================
