---------------------------- MODULE ClientSessions ----------------------------
(***************************************************************************)
(* What Server promises the code that registers its three callbacks: for   *)
(* every connection one "connected" at most, then any number of "data",    *)
(* then one "disconnected" at most, in that order. Only a shutdown of the  *)
(* server ends sessions without a "disconnected".                          *)
(***************************************************************************)
CONSTANT Conns

VARIABLES session,  \* session[c]: before, between or after its two callbacks
          said      \* the last callback made

sessionVars == <<session, said>>

SessionInit ==
  /\ session = [c \in Conns |-> "new"]
  /\ said = <<"nothing">>

Connected(c) ==
  /\ session[c] = "new"
  /\ session' = [session EXCEPT ![c] = "up"]
  /\ said' = <<"connected", c>>

DataReceived(c) ==
  /\ session[c] = "up"
  /\ said' = <<"data", c>>
  /\ UNCHANGED session

Disconnected(c) ==
  /\ session[c] = "up"
  /\ session' = [session EXCEPT ![c] = "down"]
  /\ said' = <<"disconnected", c>>

Shutdown ==
  /\ session' = [c \in Conns |-> IF session[c] = "up" THEN "down" ELSE session[c]]
  /\ UNCHANGED said

SessionNext ==
  \/ \E c \in Conns : Connected(c) \/ DataReceived(c) \/ Disconnected(c)
  \/ Shutdown

SessionSpec == SessionInit /\ [][SessionNext]_sessionVars
=============================================================================
