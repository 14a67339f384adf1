----------------------------- MODULE MCPerception -----------------------------
(***************************************************************************)
(* FrameParser and Perception for TLC. What the receive thread parses and  *)
(* what is computed of scans share no state here: a behaviour is of one.   *)
(***************************************************************************)
EXTENDS FrameParser, Perception

VARIABLE subject

DataInit == Init /\ PerceptionInit /\ subject \in {"bytes", "data"}

DataNext ==
  /\ UNCHANGED subject
  /\ \/ subject = "bytes" /\ Next /\ UNCHANGED result
     \/ subject = "data" /\ PerceptionNext /\ UNCHANGED vars

DataSpec == DataInit /\ [][DataNext]_<<vars, result, subject>>
=============================================================================
