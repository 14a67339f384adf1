------------------------------ MODULE LockFile ------------------------------
(***************************************************************************)
(* The lock files of the lidar SDK's serial port (lock.c, called from open *)
(* and close in unix_serial.cpp when USE_LOCK_FILE is defined): one file   *)
(* per device in /var/lock, which holds its creator's pid and is taken     *)
(* over when that process is gone. The two styles of lock.c, fhs and uucp, *)
(* differ in the file's name and in a stat or two.                         *)
(*                                                                         *)
(* Ports of one or of several processes contend for one device. A process  *)
(* may die at any step; its pid is not used again. Opening the lock file   *)
(* and reading it is one step: what is read was in the file at a moment    *)
(* between. What is read of a file whose pid is not written yet is an      *)
(* uninitialised buffer, taken for any pid.                                *)
(***************************************************************************)

CONSTANTS Ports, Procs,
          Process,  \* each port's process
          Parent,   \* each process's parent, which need not be one of Procs
          Gone      \* a port of a process that died before
ASSUME ProcessAssumption == Process \in [Ports -> Procs] /\ Gone \notin Ports
ASSUME NamesAssumption == "none" \notin Ports \cup {Gone}

VARIABLES
  style,    \* "fhs" or "uucp"
  file,     \* the lock file: the port that created it, and whether its pid is in it
  at,       \* where each port is in open or close
  hasPid,   \* ports whose member pid is not -1
  seen,     \* the creator a port has read of
  causes,   \* history: why a lock may have been taken from its holder
  rival,    \* history: ports during whose open another one had, or was taking, the lock
  stranded, \* history: ports that may have left their own lock file behind
  wronged   \* history: a port was refused for no reason

vars == <<style, file, at, hasPid, seen, causes, rival, stranded, wronged>>
history == <<causes, rival, stranded, wronged>>

None == [by |-> "none", pid |-> FALSE]
Locking == {"status", "stat", "read", "unlink", "again", "create", "write", "device"}

TypeOK ==
  /\ style \in {"fhs", "uucp"}
  /\ file \in {None} \cup [by : Ports \cup {Gone}, pid : BOOLEAN]
  /\ at \in [Ports -> Locking \cup {"shut", "open", "stop", "check", "remove", "dead"}]
  /\ hasPid \subseteq Ports /\ seen \in [Ports -> Ports \cup {Gone}]

Init ==
  /\ style \in {"fhs", "uucp"}
  /\ file \in {None, [by |-> Gone, pid |-> TRUE], [by |-> Gone, pid |-> FALSE]}
  /\ at = [p \in Ports |-> "shut"] /\ hasPid = {} /\ seen = [p \in Ports |-> Gone]
  /\ causes = {} /\ rival = {} /\ stranded = {} /\ wronged = FALSE

Lives(p) == p \in Ports /\ at[p] # "dead"
Trying   == {p \in Ports : at[p] \in Locking}

Goto(p, place) == at' = [at EXCEPT ![p] = place]

\* LOCK returned 1, and open returns false; hasPid stays.
Refuse(p, fault) ==
  /\ Goto(p, "shut")
  /\ wronged' = (wronged \/ (~fault /\ p \notin rival))
  /\ rival' = rival \ {p} /\ seen' = [seen EXCEPT ![p] = Gone]
  /\ UNCHANGED <<style, file, hasPid, causes, stranded>>

-----------------------------------------------------------------------------
(* open and LOCK.                                                           *)

Open(p) ==
  /\ at[p] = "shut"
  /\ Goto(p, "status") /\ hasPid' = hasPid \cup {p}
  /\ rival' = IF Lives(file.by) THEN rival \cup {p} ELSE rival \ {p}
  /\ UNCHANGED <<style, file, seen, causes, stranded, wronged>>

\* check_group_uucp creates a trial file, whose descriptor it never closes: after enough
\* calls it always fails.
TrialFileFails(p) == Refuse(p, TRUE)

\* is_device_locked's search for a lock file of this device in another directory.
LockedElsewhere(p) == Refuse(p, TRUE)

\* check_lock_status, where the lock directory may be missing, too.
CheckStatus(p) ==
  /\ at[p] = "status"
  /\ \/ TrialFileFails(p) \/ LockedElsewhere(p)
     \/ /\ Goto(p, "stat")
        /\ UNCHANGED <<style, file, hasPid, seen, history>>

\* is_device_locked, from its stat of the lock file on.
StatLock(p) ==
  /\ at[p] = "stat"
  /\ Goto(p, IF file = None THEN "again" ELSE "read")
  /\ UNCHANGED <<style, file, hasPid, seen, history>>

\* A file that vanished since cannot be read. The lock is stale if kill says that there is
\* no such process.
ReadLock(p) ==
  /\ at[p] = "read"
  /\ \/ file = None /\ Refuse(p, FALSE)
     \/ /\ file # None /\ (file.pid => ~Lives(file.by))
        /\ Goto(p, "unlink") /\ seen' = [seen EXCEPT ![p] = file.by]
        /\ causes' = IF file.pid THEN causes ELSE causes \cup {"unwritten"}
        /\ UNCHANGED <<style, file, hasPid, rival, stranded, wronged>>
     \/ /\ file # None /\ (file.pid => Lives(file.by))
        /\ Goto(p, "again")
        /\ rival' = IF file.pid THEN rival ELSE rival \cup {p}
        /\ UNCHANGED <<style, file, hasPid, seen, causes, stranded, wronged>>

\* Mutant: a stale lock is removed and reported all the same.
UnlinkOnly(p) ==
  /\ at[p] = "unlink"
  /\ \/ file = None /\ Refuse(p, FALSE)
     \/ /\ file # None /\ file' = None /\ Goto(p, "shut")
        /\ wronged' = (wronged \/ p \notin rival)
        /\ UNCHANGED <<style, hasPid, seen, causes, rival, stranded>>

\* ... which by now may be another file.
UnlinkStale(p) ==
  /\ at[p] = "unlink"
  /\ \/ file = None /\ Refuse(p, FALSE)
     \/ /\ file # None
        /\ file' = None /\ Goto(p, "again")
        /\ causes' = IF file.by = seen[p] THEN causes ELSE causes \cup {"overtaken"}
        /\ rival' = rival \cup (Trying \ {p}) /\ seen' = [seen EXCEPT ![p] = Gone]
        /\ UNCHANGED <<style, hasPid, stranded, wronged>>

\* uucp_lock looks once more, and at the directory and the device.
LookAgain(p) ==
  /\ at[p] = "again"
  /\ \/ style = "uucp" /\ Refuse(p, TRUE)
     \/ style = "uucp" /\ file # None /\ Refuse(p, FALSE)
     \/ /\ style = "uucp" => file = None
        /\ Goto(p, "create")
        /\ UNCHANGED <<style, file, hasPid, seen, history>>

\* Mutant: without O_EXCL.
CreateAnyway(p) ==
  /\ at[p] = "create"
  /\ file' = [by |-> p, pid |-> FALSE] /\ Goto(p, "write")
  /\ rival' = rival \cup (Trying \ {p}) /\ stranded' = stranded \ {p}
  /\ UNCHANGED <<style, hasPid, seen, causes, wronged>>

\* O_CREAT | O_EXCL decides.
CreateLock(p) ==
  /\ at[p] = "create"
  /\ \/ file # None /\ Refuse(p, FALSE)
     \/ Refuse(p, TRUE)
     \/ /\ file = None
        /\ file' = [by |-> p, pid |-> FALSE] /\ Goto(p, "write")
        /\ rival' = rival \cup (Trying \ {p}) /\ stranded' = stranded \ {p}
        /\ UNCHANGED <<style, hasPid, seen, causes, wronged>>

\* A write that fails leaves the file.
WritePid(p) ==
  /\ at[p] = "write"
  /\ \/ /\ file' = IF file.by = p THEN [file EXCEPT !.pid = TRUE] ELSE file
        /\ Goto(p, "device") /\ UNCHANGED <<stranded, rival>>
     \/ /\ Goto(p, "shut") /\ stranded' = stranded \cup {p} /\ rival' = rival \ {p} /\ UNCHANGED file
  /\ UNCHANGED <<style, hasPid, seen, causes, wronged>>

\* Mutant: a failure does not unlock.
OpenOrLeave(p) ==
  /\ at[p] = "device"
  /\ at' \in {[at EXCEPT ![p] = "open"], [at EXCEPT ![p] = "shut"]}
  /\ UNCHANGED <<style, file, hasPid, seen, history>>

\* The device is opened and configured; or a failure closes the port again; or EINTR makes
\* open call itself, against its own lock.
OpenDevice(p) ==
  /\ at[p] = "device"
  /\ \/ at' \in {[at EXCEPT ![p] = "open"], [at EXCEPT ![p] = "stop"]}
        /\ rival' = rival \ {p} /\ UNCHANGED stranded
     \/ /\ Goto(p, "status") /\ stranded' = stranded \cup {p}
        /\ rival' = rival \cup {p}
  /\ UNCHANGED <<style, file, hasPid, seen, causes, wronged>>

-----------------------------------------------------------------------------
(* close and UNLOCK, also of a port that was refused: its pid is set.        *)

Close(p) ==
  /\ at[p] = "open" \/ (at[p] = "shut" /\ p \in hasPid)
  /\ Goto(p, "stop")
  /\ UNCHANGED <<style, file, hasPid, seen, history>>

Unlocked(p) == /\ Goto(p, "shut") /\ hasPid' = hasPid \ {p}

\* uucp_unlock looks for the device and the file first.
LookForLock(p) ==
  /\ at[p] = "stop"
  /\ \/ Goto(p, "check") /\ UNCHANGED <<hasPid, stranded>>
     \/ style = "uucp" /\ file = None /\ Unlocked(p) /\ UNCHANGED stranded
     \/ style = "uucp" /\ Unlocked(p) /\ stranded' = stranded \cup {p}
  /\ UNCHANGED <<style, file, seen, causes, rival, wronged>>

\* check_lock_pid accepts the pid of the process, whichever of its ports wrote it, and of
\* its parent.
Accepts(p, by) == by \in Ports /\ Process[by] \in {Process[p], Parent[Process[p]]}

CheckPid(p) ==
  /\ at[p] = "check"
  /\ \/ /\ file # None /\ (file.pid => Accepts(p, file.by))
        /\ Goto(p, "remove") /\ UNCHANGED hasPid
     \/ /\ file = None \/ ~file.pid \/ ~Accepts(p, file.by)
        /\ Unlocked(p)
  /\ UNCHANGED <<style, file, seen, history>>

RemoveLock(p) ==
  /\ at[p] = "remove"
  /\ file' = None /\ Unlocked(p)
  /\ causes' = IF file.by \in {p, "none"} THEN causes ELSE causes \cup {"sibling"}
  /\ rival' = rival \cup (Trying \ {p})
  /\ UNCHANGED <<style, seen, stranded, wronged>>

Die(q) ==
  /\ at' = [p \in Ports |-> IF Process[p] = q THEN "dead" ELSE at[p]]
  /\ rival' = {p \in rival : Process[p] # q} /\ hasPid' = {p \in hasPid : Process[p] # q}
  /\ seen' = [p \in Ports |-> IF Process[p] = q THEN Gone ELSE seen[p]]
  /\ UNCHANGED <<style, file, causes, stranded, wronged>>

Next ==
  \/ \E p \in Ports :
       \/ Open(p) \/ CheckStatus(p) \/ StatLock(p) \/ ReadLock(p) \/ UnlinkStale(p) \/ LookAgain(p)
       \/ CreateLock(p) \/ WritePid(p) \/ OpenDevice(p)
       \/ Close(p) \/ LookForLock(p) \/ CheckPid(p) \/ RemoveLock(p)
  \/ \E q \in Procs : Die(q)

Spec == Init /\ [][Next]_vars

-----------------------------------------------------------------------------
(* Properties.                                                              *)

\* An open port has the lock file, so no two ports have the device open, whatever processes
\* die and whatever stale locks are taken over; unless the lock was read before its pid
\* was in it, a stale lock was replaced between its reading and its removal, or a port of
\* the same process, or of a child, was closed without having had the lock.
OpenPortsAreLocked == \A p \in Ports : at[p] = "open" /\ causes = {} => file = [by |-> p, pid |-> TRUE]

\* A port is only refused for a failing system call, or if meanwhile another port had the
\* lock or was taking it: a lock whose process is gone refuses nobody, unless that process
\* died before it wrote its pid.
NoneWronged == ~wronged

\* A lock file of a living process belongs to a port that is open, opening or closing,
\* except after a failed write of the pid, an interrupted open, or a device that vanished.
NoOrphans ==
  file # None /\ Lives(file.by) => at[file.by] # "shut" \/ file.by \in stranded
=============================================================================
