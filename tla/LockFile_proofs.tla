---------------------------- MODULE LockFile_proofs ----------------------------
(***************************************************************************)
(* Theorems about LockFile, for every number of ports and processes, who-  *)
(* ever is whose parent.                                                   *)
(***************************************************************************)
EXTENDS LockFile, TLAPS

Holding == {"write", "device", "open"}

\* As long as no cause is known, a port that creates the lock or got it has it; and a lock
\* that is about to be removed as stale was read of a port that is gone.
LockInv ==
  causes = {} =>
    \A p \in Ports :
      /\ at[p] \in Holding => file = [by |-> p, pid |-> at[p] # "write"]
      /\ at[p] = "unlink" => ~Lives(seen[p])

\* A port without a rival finds the lock file as it left it.
AloneInv ==
  \A p \in Ports : at[p] \in Locking /\ p \notin rival =>
    /\ at[p] \in {"status", "stat", "read", "unlink"} => ~Lives(file.by)
    /\ at[p] \in {"read", "unlink"} => file # None
    /\ at[p] \in {"again", "create"} => file = None

\* The lock file of a living port that left nothing behind belongs to the open it is in.
OwnerInv ==
  file # None /\ Lives(file.by) /\ file.by \notin stranded =>
    /\ at[file.by] \in Holding \cup {"stop", "check", "remove"}
    /\ at[file.by] # "write" => file.pid

IInv == TypeOK /\ LockInv /\ AloneInv /\ ~wronged /\ OwnerInv

-----------------------------------------------------------------------------
(* What the steps do to the ports and the file.                              *)

\* A step of p moves p; nobody is killed or revived by it.
LEMMA GotoEffect ==
  ASSUME TypeOK, NEW p \in Ports, at[p] # "dead", NEW place, place # "dead", Goto(p, place)
  PROVE  /\ \A r \in Ports : at'[r] = IF r = p THEN place ELSE at[r]
         /\ \A x : Lives(x)' <=> Lives(x)
<1>1. \A r \in Ports : at'[r] = IF r = p THEN place ELSE at[r]
  BY DEF TypeOK, Goto
<1> QED
  BY <1>1 DEF Lives

\* The lock file of a port is a file.
LEMMA FileOf ==
  ASSUME NEW p \in Ports, NEW b \in BOOLEAN
  PROVE  /\ [by |-> p, pid |-> b].by = p /\ [by |-> p, pid |-> b].pid = b
         /\ [by |-> p, pid |-> b] \in [by : Ports \cup {Gone}, pid : BOOLEAN]
         /\ [by |-> p, pid |-> b] # None
<1>1. [by |-> p, pid |-> b].by # None.by
  BY NamesAssumption DEF None
<1> QED
  BY <1>1

LEMMA NewFile ==
  ASSUME NEW p \in Ports
  PROVE  [by |-> p, pid |-> FALSE] \in {None} \cup [by : Ports \cup {Gone}, pid : BOOLEAN]
OBVIOUS

\* The pid is written to the file of its port only, and the file stays what it was otherwise.
LEMMA PidEffect ==
  ASSUME TypeOK, NEW p \in Ports, WritePid(p)
  PROVE  /\ file'.by = file.by /\ (file' = None <=> file = None)
         /\ (file.by # p => file' = file)
<1>1. CASE file' = IF file.by = p THEN [file EXCEPT !.pid = TRUE] ELSE file
  <2>1. CASE file.by = p
    <3>1. file \in [by : Ports \cup {Gone}, pid : BOOLEAN]
      BY <2>1, NamesAssumption DEF TypeOK, None
    <3>2. file' = [by |-> p, pid |-> TRUE] /\ file = [by |-> p, pid |-> file.pid] /\ file.pid \in BOOLEAN
      BY <1>1, <2>1, <3>1
    <3> QED
      BY <2>1, <3>2, FileOf
  <2> QED
    BY <1>1, <2>1
<1> QED
  BY <1>1 DEF WritePid

LEMMA InitInv == Init => IInv
<1> SUFFICES ASSUME Init PROVE IInv
  OBVIOUS
<1>1. TypeOK
  <2>1. [by |-> Gone, pid |-> TRUE] \in [by : Ports \cup {Gone}, pid : BOOLEAN]
    OBVIOUS
  <2>2. [by |-> Gone, pid |-> FALSE] \in [by : Ports \cup {Gone}, pid : BOOLEAN]
    OBVIOUS
  <2>3. file \in {None} \cup [by : Ports \cup {Gone}, pid : BOOLEAN]
    BY <2>1, <2>2, Zenon DEF Init
  <2> QED
    BY <2>3 DEF Init, TypeOK
<1>2. LockInv /\ AloneInv /\ ~wronged
  BY DEF Init, LockInv, AloneInv, Holding, Locking
<1>3. OwnerInv
  BY ProcessAssumption, NamesAssumption DEF Init, OwnerInv, Lives, None
<1> QED
  BY <1>1, <1>2, <1>3 DEF IInv

-----------------------------------------------------------------------------
(* Types.                                                                    *)

\* Every step keeps the types.
LEMMA TypeStep ==
  ASSUME TypeOK, [Next]_vars
  PROVE  TypeOK'
<1> USE ProcessAssumption, NamesAssumption DEF TypeOK, Locking, None, Goto, Trying, history
<1>1. ASSUME NEW p \in Ports, Open(p)
      PROVE  TypeOK'
  BY <1>1 DEF Open
<1>2. ASSUME NEW p \in Ports, CheckStatus(p)
      PROVE  TypeOK'
  BY <1>2 DEF CheckStatus, TrialFileFails, LockedElsewhere, Refuse
<1>3. ASSUME NEW p \in Ports, StatLock(p)
      PROVE  TypeOK'
  BY <1>3 DEF StatLock
<1>4. ASSUME NEW p \in Ports, ReadLock(p)
      PROVE  TypeOK'
  BY <1>4 DEF ReadLock, Refuse
<1>5. ASSUME NEW p \in Ports, UnlinkStale(p)
      PROVE  TypeOK'
  BY <1>5 DEF UnlinkStale, Refuse
<1>6. ASSUME NEW p \in Ports, LookAgain(p)
      PROVE  TypeOK'
  BY <1>6 DEF LookAgain, Refuse
<1>7. ASSUME NEW p \in Ports, CreateLock(p)
      PROVE  TypeOK'
  <2>1. file' = file \/ file' = [by |-> p, pid |-> FALSE]
    BY <1>7 DEF CreateLock, Refuse
  <2>2. file' \in {None} \cup [by : Ports \cup {Gone}, pid : BOOLEAN]
    <3>1. CASE file' = file
      BY <3>1
    <3>2. CASE file' = [by |-> p, pid |-> FALSE]
      BY <3>2, NewFile, Zenon
    <3> QED
      BY <2>1, <3>1, <3>2
  <2> QED
    BY <1>7, <2>2 DEF CreateLock, Refuse
<1>8. ASSUME NEW p \in Ports, WritePid(p)
      PROVE  TypeOK'
  <2>1. file' = file \/ (file # None /\ file' = [file EXCEPT !.pid = TRUE])
    BY <1>8 DEF WritePid
  <2>2. file' \in {None} \cup [by : Ports \cup {Gone}, pid : BOOLEAN]
    <3>1. CASE file' = file
      BY <3>1
    <3>2. CASE file # None /\ file' = [file EXCEPT !.pid = TRUE]
      <4>1. file \in [by : Ports \cup {Gone}, pid : BOOLEAN]
        BY <3>2
      <4>2. file' \in [by : Ports \cup {Gone}, pid : BOOLEAN]
        BY <3>2, <4>1
      <4> QED
        BY <4>2
    <3> QED
      BY <2>1, <3>1, <3>2
  <2> QED
    BY <1>8, <2>2 DEF WritePid
<1>9. ASSUME NEW p \in Ports, OpenDevice(p)
      PROVE  TypeOK'
  BY <1>9 DEF OpenDevice
<1>10. ASSUME NEW p \in Ports, Close(p)
      PROVE  TypeOK'
  BY <1>10 DEF Close
<1>11. ASSUME NEW p \in Ports, LookForLock(p)
      PROVE  TypeOK'
  BY <1>11 DEF LookForLock, Unlocked
<1>12. ASSUME NEW p \in Ports, CheckPid(p)
      PROVE  TypeOK'
  BY <1>12 DEF CheckPid, Unlocked
<1>13. ASSUME NEW p \in Ports, RemoveLock(p)
      PROVE  TypeOK'
  BY <1>13 DEF RemoveLock, Unlocked
<1>14. ASSUME NEW q \in Procs, Die(q)
      PROVE  TypeOK'
  BY <1>14 DEF Die
<1>15. CASE UNCHANGED vars
  BY <1>15 DEF vars
<1> QED
  BY <1>1, <1>2, <1>3, <1>4, <1>5, <1>6, <1>7, <1>8, <1>9,
     <1>10, <1>11, <1>12, <1>13, <1>14, <1>15 DEF Next

-----------------------------------------------------------------------------
(* Who has the lock.                                                         *)

\* Who creates the lock finds none, so no other port has it.
LEMMA LockCreated ==
  ASSUME TypeOK, LockInv, NEW p \in Ports, CreateLock(p)
  PROVE  LockInv'
<1> USE DEF Lives
<1> SUFFICES ASSUME causes = {}, NEW r \in Ports
             PROVE  /\ at'[r] \in Holding => file' = [by |-> r, pid |-> at'[r] # "write"]
                    /\ at'[r] = "unlink" => ~Lives(seen[r])'
  BY DEF LockInv, CreateLock, Refuse, history
<1>1. /\ at[r] \in Holding => file = [by |-> r, pid |-> at[r] # "write"]
      /\ at[r] = "unlink" => ~Lives(seen[r])
  BY DEF LockInv
<1>2. CASE Goto(p, "shut") /\ UNCHANGED file /\ seen' = [seen EXCEPT ![p] = Gone]
  <2>1. CASE r = p
    BY <1>2, <2>1, GotoEffect DEF CreateLock, Holding
  <2>2. CASE r # p
    <3>1. seen'[r] = seen[r] /\ at'[r] = at[r] /\ UNCHANGED file
      BY <1>2, <2>2, GotoEffect DEF CreateLock, TypeOK
    <3> QED
      BY <1>1, <1>2, <3>1, GotoEffect DEF CreateLock
  <2> QED
    BY <2>1, <2>2
<1>3. CASE /\ file = None /\ file' = [by |-> p, pid |-> FALSE]
           /\ Goto(p, "write") /\ UNCHANGED seen
  <2>1. at[r] \notin Holding
    BY <1>1, <1>3, FileOf
  <2>2. at'[r] = (IF r = p THEN "write" ELSE at[r]) /\ (Lives(seen[r])' <=> Lives(seen[r]))
    BY <1>3, GotoEffect DEF CreateLock
  <2> QED
    BY <1>1, <1>3, <2>1, <2>2
<1> QED
  BY <1>2, <1>3 DEF CreateLock, Refuse

\* Who writes its pid has the lock, so the pid comes into its own file.
LEMMA LockWritten ==
  ASSUME TypeOK, LockInv, NEW p \in Ports, WritePid(p)
  PROVE  LockInv'
<1> USE DEF Lives
<1> SUFFICES ASSUME causes = {}, NEW r \in Ports
             PROVE  /\ at'[r] \in Holding => file' = [by |-> r, pid |-> at'[r] # "write"]
                    /\ at'[r] = "unlink" => ~Lives(seen[r])'
  BY DEF LockInv, WritePid
<1>1. file = [by |-> p, pid |-> FALSE] /\ file.by = p
  <2>1. at[p] = "write"
    BY DEF WritePid
  <2>2. file = [by |-> p, pid |-> at[p] # "write"]
    BY <2>1 DEF LockInv, Holding
  <2>3. (at[p] # "write") = FALSE
    BY <2>1
  <2>4. file = [by |-> p, pid |-> FALSE]
    BY <2>2, <2>3
  <2> QED
    BY <2>4
<1>2. /\ at[r] \in Holding => file = [by |-> r, pid |-> at[r] # "write"]
      /\ at[r] = "unlink" => ~Lives(seen[r])
  BY DEF LockInv
<1>3. \/ file' = [by |-> p, pid |-> TRUE] /\ Goto(p, "device")
      \/ file' = file /\ Goto(p, "shut")
  BY <1>1 DEF WritePid
<1>4. CASE r = p
  <2>1. CASE file' = [by |-> p, pid |-> TRUE] /\ Goto(p, "device")
    <3>1. at'[p] = "device"
      BY <2>1, GotoEffect DEF WritePid
    <3>2. (at'[p] # "write") = TRUE
      BY <3>1
    <3> QED
      BY <1>4, <2>1, <3>1, <3>2
  <2>2. CASE Goto(p, "shut")
    BY <1>4, <2>2, GotoEffect DEF WritePid, Holding
  <2> QED
    BY <1>3, <2>1, <2>2
<1>5. CASE r # p
  <2>1. at[r] \notin Holding
    BY <1>1, <1>2, <1>5, FileOf
  <2>2. at'[r] = at[r] /\ seen' = seen /\ (Lives(seen[r])' <=> Lives(seen[r]))
    BY <1>3, <1>5, GotoEffect DEF WritePid
  <2> QED
    BY <1>2, <2>1, <2>2
<1> QED
  BY <1>4, <1>5

\* LockInv: only the create that found no file gives the lock, and only the dead lose it.
LEMMA LockStep ==
  ASSUME TypeOK, LockInv, [Next]_vars
  PROVE  LockInv'
<1> USE ProcessAssumption, NamesAssumption DEF TypeOK, LockInv, Holding, Locking, Lives, None, Goto, Trying, history
<1>1. ASSUME NEW p \in Ports, Open(p)
      PROVE  LockInv'
  BY <1>1 DEF Open
<1>2. ASSUME NEW p \in Ports, CheckStatus(p)
      PROVE  LockInv'
  BY <1>2 DEF CheckStatus, TrialFileFails, LockedElsewhere, Refuse
<1>3. ASSUME NEW p \in Ports, StatLock(p)
      PROVE  LockInv'
  BY <1>3 DEF StatLock
<1>4. ASSUME NEW p \in Ports, ReadLock(p)
      PROVE  LockInv'
  BY <1>4 DEF ReadLock, Refuse
<1>5. ASSUME NEW p \in Ports, UnlinkStale(p)
      PROVE  LockInv'
  BY <1>5 DEF UnlinkStale, Refuse
<1>6. ASSUME NEW p \in Ports, LookAgain(p)
      PROVE  LockInv'
  BY <1>6 DEF LookAgain, Refuse
<1>7. ASSUME NEW p \in Ports, CreateLock(p)
      PROVE  LockInv'
  BY <1>7, LockCreated
<1>8. ASSUME NEW p \in Ports, WritePid(p)
      PROVE  LockInv'
  BY <1>8, LockWritten
<1>9. ASSUME NEW p \in Ports, OpenDevice(p)
      PROVE  LockInv'
  BY <1>9 DEF OpenDevice
<1>10. ASSUME NEW p \in Ports, Close(p)
      PROVE  LockInv'
  BY <1>10 DEF Close
<1>11. ASSUME NEW p \in Ports, LookForLock(p)
      PROVE  LockInv'
  BY <1>11 DEF LookForLock, Unlocked
<1>12. ASSUME NEW p \in Ports, CheckPid(p)
      PROVE  LockInv'
  BY <1>12 DEF CheckPid, Unlocked
<1>13. ASSUME NEW p \in Ports, RemoveLock(p)
      PROVE  LockInv'
  BY <1>13 DEF RemoveLock, Unlocked
<1>14. ASSUME NEW q \in Procs, Die(q)
      PROVE  LockInv'
  BY <1>14 DEF Die
<1>15. CASE UNCHANGED vars
  BY <1>15 DEF vars
<1> QED
  BY <1>1, <1>2, <1>3, <1>4, <1>5, <1>6, <1>7, <1>8, <1>9,
     <1>10, <1>11, <1>12, <1>13, <1>14, <1>15 DEF Next

-----------------------------------------------------------------------------
(* Who is refused.                                                           *)

LEMMA RefuseAlone ==
  ASSUME TypeOK, AloneInv, ~wronged, NEW p \in Ports, at[p] # "dead", NEW fault \in BOOLEAN, Refuse(p, fault),
         fault \/ p \in rival
  PROVE  AloneInv' /\ ~wronged'
<1>1. ~wronged' /\ rival' = rival \ {p} /\ UNCHANGED file /\ Goto(p, "shut")
  BY DEF Refuse
<1> QED
  BY <1>1, GotoEffect DEF AloneInv, Locking

\* AloneInv: whoever changes the file makes all who are trying its rivals.
LEMMA AloneStep ==
  ASSUME TypeOK, AloneInv, ~wronged, [Next]_vars
  PROVE  AloneInv' /\ ~wronged'
<1> USE ProcessAssumption, NamesAssumption DEF TypeOK, AloneInv, Locking, Lives, Goto, Trying, history
<1>1. ASSUME NEW p \in Ports, Open(p)
      PROVE  AloneInv' /\ ~wronged'
  BY <1>1 DEF Open
<1>2. ASSUME NEW p \in Ports, CheckStatus(p)
      PROVE  AloneInv' /\ ~wronged'
  <2>1. CASE Refuse(p, TRUE)
    BY <1>2, <2>1, RefuseAlone DEF CheckStatus
  <2>2. CASE at[p] = "status" /\ Goto(p, "stat") /\ UNCHANGED <<file, rival, wronged>>
    BY <2>2, GotoEffect DEF AloneInv, Locking, Trying
  <2> QED
    BY <1>2, <2>1, <2>2 DEF CheckStatus, TrialFileFails, LockedElsewhere
<1>3. ASSUME NEW p \in Ports, StatLock(p)
      PROVE  AloneInv' /\ ~wronged'
  BY <1>3 DEF StatLock
<1>4. ASSUME NEW p \in Ports, ReadLock(p)
      PROVE  AloneInv' /\ ~wronged'
  <2>0. at[p] = "read"
    BY <1>4 DEF ReadLock
  <2>1. CASE file = None
    BY <1>4, <2>0, <2>1, RefuseAlone DEF ReadLock
  <2>2. CASE file # None /\ (file.pid => ~Lives(file.by)) /\ Goto(p, "unlink") /\ UNCHANGED <<file, rival, wronged>>
    BY <2>0, <2>2, GotoEffect DEF AloneInv, Locking
  <2>3. CASE /\ file # None /\ (file.pid => Lives(file.by)) /\ Goto(p, "again")
             /\ rival' = (IF file.pid THEN rival ELSE rival \cup {p}) /\ UNCHANGED <<file, wronged>>
    <3>1. p \in rival' /\ \A r \in Ports : r # p => (r \in rival' <=> r \in rival)
      BY <2>0, <2>3 DEF AloneInv, Locking
    <3> QED
      BY <2>0, <2>3, <3>1, GotoEffect DEF AloneInv, Locking
  <2> QED
    BY <1>4, <2>1, <2>2, <2>3 DEF ReadLock
<1>5. ASSUME NEW p \in Ports, UnlinkStale(p)
      PROVE  AloneInv' /\ ~wronged'
  <2>0. at[p] = "unlink"
    BY <1>5 DEF UnlinkStale
  <2>1. CASE file = None
    BY <1>5, <2>0, <2>1, RefuseAlone DEF UnlinkStale
  <2>2. CASE file' = None /\ Goto(p, "again") /\ rival' = rival \cup (Trying \ {p}) /\ UNCHANGED wronged
    BY <2>0, <2>2, GotoEffect DEF AloneInv, Locking, Trying
  <2> QED
    BY <1>5, <2>1, <2>2 DEF UnlinkStale
<1>6. ASSUME NEW p \in Ports, LookAgain(p)
      PROVE  AloneInv' /\ ~wronged'
  <2>0. at[p] = "again"
    BY <1>6 DEF LookAgain
  <2>1. CASE Refuse(p, TRUE) \/ (file # None /\ Refuse(p, FALSE))
    BY <2>0, <2>1, RefuseAlone
  <2>2. CASE at[p] = "again" /\ Goto(p, "create") /\ UNCHANGED <<file, rival, wronged>>
    BY <2>2, GotoEffect DEF AloneInv, Locking, Trying
  <2> QED
    BY <1>6, <2>1, <2>2 DEF LookAgain
<1>7. ASSUME NEW p \in Ports, CreateLock(p)
      PROVE  AloneInv' /\ ~wronged'
  <2>0. at[p] = "create"
    BY <1>7 DEF CreateLock
  <2>1. CASE Refuse(p, TRUE) \/ (file # None /\ Refuse(p, FALSE))
    BY <2>0, <2>1, RefuseAlone
  <2>2. CASE at[p] = "create" /\ Goto(p, "write") /\ rival' = rival \cup (Trying \ {p}) /\ UNCHANGED wronged
    BY <2>2, GotoEffect DEF AloneInv, Locking, Trying
  <2> QED
    BY <1>7, <2>1, <2>2 DEF CreateLock
<1>8. ASSUME NEW p \in Ports, WritePid(p)
      PROVE  AloneInv' /\ ~wronged'
  <2>1. \A x : Lives(x)' <=> Lives(x)
    BY <1>8, GotoEffect DEF WritePid
  <2>2. file'.by = file.by /\ (file' = None <=> file = None)
    BY <1>8, PidEffect
  <2> QED
    BY <1>8, <2>1, <2>2 DEF WritePid
<1>9. ASSUME NEW p \in Ports, OpenDevice(p)
      PROVE  AloneInv' /\ ~wronged'
  BY <1>9 DEF OpenDevice
<1>10. ASSUME NEW p \in Ports, Close(p)
      PROVE  AloneInv' /\ ~wronged'
  BY <1>10 DEF Close
<1>11. ASSUME NEW p \in Ports, LookForLock(p)
      PROVE  AloneInv' /\ ~wronged'
  BY <1>11 DEF LookForLock, Unlocked
<1>12. ASSUME NEW p \in Ports, CheckPid(p)
      PROVE  AloneInv' /\ ~wronged'
  BY <1>12 DEF CheckPid, Unlocked
<1>13. ASSUME NEW p \in Ports, RemoveLock(p)
      PROVE  AloneInv' /\ ~wronged'
  BY <1>13 DEF RemoveLock, Unlocked
<1>14. ASSUME NEW q \in Procs, Die(q)
      PROVE  AloneInv' /\ ~wronged'
  BY <1>14 DEF Die
<1>15. CASE UNCHANGED vars
  BY <1>15 DEF vars
<1> QED
  BY <1>1, <1>2, <1>3, <1>4, <1>5, <1>6, <1>7, <1>8, <1>9,
     <1>10, <1>11, <1>12, <1>13, <1>14, <1>15 DEF Next

-----------------------------------------------------------------------------
(* Who leaves a lock behind.                                                 *)

\* OwnerInv: a port accepts its own pid, so it removes its own lock.
LEMMA OwnerStep ==
  ASSUME TypeOK, OwnerInv, [Next]_vars
  PROVE  OwnerInv'
<1> USE ProcessAssumption, NamesAssumption DEF TypeOK, OwnerInv, Holding, Locking, Lives, None, Goto, Trying, history
<1>1. ASSUME NEW p \in Ports, Open(p)
      PROVE  OwnerInv'
  BY <1>1 DEF Open
<1>2. ASSUME NEW p \in Ports, CheckStatus(p)
      PROVE  OwnerInv'
  BY <1>2 DEF CheckStatus, TrialFileFails, LockedElsewhere, Refuse
<1>3. ASSUME NEW p \in Ports, StatLock(p)
      PROVE  OwnerInv'
  BY <1>3 DEF StatLock
<1>4. ASSUME NEW p \in Ports, ReadLock(p)
      PROVE  OwnerInv'
  BY <1>4 DEF ReadLock, Refuse
<1>5. ASSUME NEW p \in Ports, UnlinkStale(p)
      PROVE  OwnerInv'
  BY <1>5 DEF UnlinkStale, Refuse
<1>6. ASSUME NEW p \in Ports, LookAgain(p)
      PROVE  OwnerInv'
  BY <1>6 DEF LookAgain, Refuse
<1>7. ASSUME NEW p \in Ports, CreateLock(p)
      PROVE  OwnerInv'
  BY <1>7 DEF CreateLock, Refuse
<1>8. ASSUME NEW p \in Ports, WritePid(p)
      PROVE  OwnerInv'
  BY <1>8 DEF WritePid
<1>9. ASSUME NEW p \in Ports, OpenDevice(p)
      PROVE  OwnerInv'
  BY <1>9 DEF OpenDevice
<1>10. ASSUME NEW p \in Ports, Close(p)
      PROVE  OwnerInv'
  BY <1>10 DEF Close
<1>11. ASSUME NEW p \in Ports, LookForLock(p)
      PROVE  OwnerInv'
  BY <1>11 DEF LookForLock, Unlocked
<1>12. ASSUME NEW p \in Ports, CheckPid(p)
      PROVE  OwnerInv'
  BY <1>12 DEF CheckPid, Unlocked, Accepts
<1>13. ASSUME NEW p \in Ports, RemoveLock(p)
      PROVE  OwnerInv'
  BY <1>13 DEF RemoveLock, Unlocked
<1>14. ASSUME NEW q \in Procs, Die(q)
      PROVE  OwnerInv'
  BY <1>14 DEF Die
<1>15. CASE UNCHANGED vars
  BY <1>15 DEF vars
<1> QED
  BY <1>1, <1>2, <1>3, <1>4, <1>5, <1>6, <1>7, <1>8, <1>9,
     <1>10, <1>11, <1>12, <1>13, <1>14, <1>15 DEF Next

LEMMA InvHolds == Spec => []IInv
<1>1. IInv /\ [Next]_vars => IInv'
  BY TypeStep, LockStep, AloneStep, OwnerStep DEF IInv
<1> QED
  BY <1>1, InitInv, PTL DEF Spec

-----------------------------------------------------------------------------
(* What follows.                                                             *)

\* The file names a port or a process that is gone, and no port is anywhere but in lock.c's steps.
THEOREM LocksAreTyped == Spec => []TypeOK
<1>1. IInv => TypeOK
  BY DEF IInv
<1> QED
  BY <1>1, InvHolds, PTL

\* lock.c keeps a device to one port, whatever dies and whatever is taken over, but for the
\* three causes that LockFile names.
THEOREM OneOwner == Spec => []OpenPortsAreLocked
<1>1. IInv => OpenPortsAreLocked
  BY DEF IInv, LockInv, Holding, OpenPortsAreLocked
<1> QED
  BY <1>1, InvHolds, PTL

\* LOCK refuses a port only for a fault or a rival.
THEOREM RefusalsAreRight == Spec => []NoneWronged
<1>1. IInv => NoneWronged
  BY DEF IInv, NoneWronged
<1> QED
  BY <1>1, InvHolds, PTL

\* UNLOCK leaves no lock of a living port behind, but after one of the three faults.
THEOREM LocksAreRemoved == Spec => []NoOrphans
<1>1. IInv => NoOrphans
  BY DEF IInv, OwnerInv, Holding, NoOrphans
<1> QED
  BY <1>1, InvHolds, PTL
=============================================================================
