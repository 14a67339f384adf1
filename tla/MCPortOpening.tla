---------------------------- MODULE MCPortOpening ----------------------------
(***************************************************************************)
(* LockFile and PortSettings for TLC: the lock files of two ports of one   *)
(* process and one of its child, and the settings of one port. They share  *)
(* no state: a behaviour is of one of them.                                *)
(***************************************************************************)
EXTENDS LockFile, PortSettings

MCProcess == [p \in Ports |-> IF p = "b" THEN "child" ELSE "main"]
MCParent == [q \in Procs |-> IF q = "child" THEN "main" ELSE "init"]

VARIABLE subject

\* Where what a behaviour is not about stays.
NoLock == style = "fhs" /\ file = None
OnePort == lib = "serial" /\ tty /\ settings.baud = 9600

OpeningInit ==
  /\ Init /\ SettingsInit
  /\ \/ subject = "locks" /\ OnePort
     \/ subject = "settings" /\ NoLock

OpeningNext ==
  /\ UNCHANGED subject
  /\ \/ subject = "locks" /\ Next /\ UNCHANGED settingsVars
     \/ subject = "settings" /\ SettingsNext /\ UNCHANGED vars

OpeningSpec == OpeningInit /\ [][OpeningNext]_<<vars, settingsVars, subject>>
=============================================================================
