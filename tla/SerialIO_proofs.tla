----------------------------- MODULE SerialIO_proofs -----------------------------
(***************************************************************************)
(* Theorems about SerialIO, for every number of threads, sizes and times   *)
(* and each of the three libraries; and about PortSettings, the settings   *)
(* of the port those calls use, for all of their values.                   *)
(***************************************************************************)
EXTENDS SerialIO, PortSettings, TLAPS

Transfers == {"read", "write"}
Lines     == {"line", "lines"}
Readers   == {"read", "line", "lines", "flush", "flushInput", "setPort"} \* who lock the read mutex
Writers   == {"write", "flush", "flushOutput", "setPort"}                \* and the write mutex
Ops       == Readers \cup Writers \cup {"none", "setLine", "getLine", "change", "open", "close"}
Places    == Using \cup {"idle", "lockRead", "lockWrite", "enter", "ioctl", "change", "event", "reopen",
                       "open", "close"}

Calls == [op : Ops, at : Places, size : Nat, done : Nat \cup {-1}, left : Late..Total, wait : 0..Long,
          first : BOOLEAN, mark : BOOLEAN, failed : BOOLEAN]

\* Where each kind of call may be.
Placed(c) ==
  /\ c.at \in {"loop", "select", "file"} => c.op \in Transfers \cup Lines
  /\ c.at = "once"      => c.op \in Transfers
  /\ c.at = "drain"     => c.op \in {"flush", "flushInput", "flushOutput"}
  /\ c.at = "lockRead"  => c.op \in Readers
  /\ c.at = "lockWrite" => c.op \in Writers
  /\ c.at = "reopen"    => c.op = "setPort"
  /\ c.at \in {"open", "close"} => c.op = c.at
  /\ c.at = "idle" <=> c.op = "none"

\* The wait of a write is not over before its total time.
Timed(c) == c.at = "select" /\ c.op = "write" => c.left <= c.wait

\* A line in progress leaves room for a byte; its count is only below 0 after a failure.
Fits(c) == c.op \in Lines => /\ 2 <= c.size /\ -1 <= c.done /\ c.done < c.size
                             /\ c.done >= 0 \/ c.failed

\* A call holds the read mutex, or the write mutex, from when it got it to its end.
HoldsRead(c)  == c.op \in Readers /\ c.at # "lockRead"
HoldsWrite(c) == c.op \in Writers /\ c.at \notin {"lockRead", "lockWrite"}

Shape    == /\ isOpen \in BOOLEAN /\ call \in [Threads -> Calls]
            /\ {readMutex, writeMutex} \subseteq Threads \cup {"free"}
CallInv  == \A t \in Threads : Placed(call[t]) /\ Timed(call[t]) /\ Fits(call[t])
MutexInv == \A t \in Threads : /\ readMutex = t <=> HoldsRead(call[t])
                               /\ writeMutex = t <=> HoldsWrite(call[t])
ShortInv == short \in BOOLEAN /\ (short => lib = "lidar")

IInv == Shape /\ CallInv /\ MutexInv /\ ShortInv

-----------------------------------------------------------------------------
(* What a step of one thread may do.                                         *)

LEMMA Constants == Total \in Nat /\ InterByte \in Nat /\ InterByte <= Total /\ Late = -1 /\ Long = Total + 1
BY TimeAssumption DEF Late, Long

\* A step of one call that leaves the mutexes and the port alone.
LEMMA Local ==
  ASSUME IInv, lib' = lib, NEW t \in Threads, NEW d \in Calls, call' = [call EXCEPT ![t] = d], Stay,
         Placed(d), Timed(d), Fits(d),
         HoldsRead(d) <=> HoldsRead(call[t]), HoldsWrite(d) <=> HoldsWrite(call[t])
  PROVE  IInv'
<1>1. Shape'
  BY DEF IInv, Shape, Stay
<1>2. \A u \in Threads : call'[u] = IF u = t THEN d ELSE call[u]
  BY DEF IInv, Shape
<1>3. CallInv'
  BY <1>2 DEF IInv, CallInv, Stay
<1>4. MutexInv'
  BY <1>2 DEF IInv, MutexInv, Stay
<1> QED
  BY <1>1, <1>3, <1>4 DEF IInv, ShortInv, Stay

\* The end of a call.
LEMMA Ended ==
  ASSUME IInv, lib' = lib, NEW t \in Threads, End(t), isOpen' = isOpen, short' \in BOOLEAN, short' => lib = "lidar"
  PROVE  IInv'
<1>1. Idle \in Calls
  BY Constants DEF Idle, Calls, Ops, Places
<1>2. Shape'
  BY <1>1 DEF IInv, Shape, End
<1>3. \A u \in Threads : call'[u] = IF u = t THEN Idle ELSE call[u]
  BY DEF IInv, Shape, End
<1>4. CallInv'
  BY <1>3 DEF IInv, CallInv, Idle, Placed, Timed, Fits, Transfers, Lines, Readers, Writers, Using
<1>5. ~HoldsRead(Idle) /\ ~HoldsWrite(Idle)
  BY DEF HoldsRead, HoldsWrite, Idle, Readers, Writers
<1>6. MutexInv'
  BY <1>3, <1>5, ThreadsAssumption DEF IInv, MutexInv, End
<1> QED
  BY <1>2, <1>4, <1>6 DEF IInv, ShortInv

LEMMA Thrown ==
  ASSUME IInv, lib' = lib, NEW t \in Threads, Throw(t)
  PROVE  IInv'
BY Ended DEF Throw, IInv, ShortInv

\* A transfer that returns too little is late.
LEMMA Finished ==
  ASSUME IInv, lib' = lib, NEW t \in Threads, Finish(t),
         ~(call[t].done < call[t].size /\ call[t].left > 0 /\ ~PauseOver(t))
  PROVE  IInv'
<1>1. short' = (short \/ (call[t].done < call[t].size /\ call[t].left > 0 /\ ~PauseOver(t)))
  BY DEF Finish
<1>2. short' = short
  BY <1>1, Zenon DEF IInv, ShortInv
<1> QED
  BY <1>2, Ended DEF Finish, IInv, ShortInv

Locked(c) == c.at \notin {"idle", "lockRead", "lockWrite"}

\* A step of one call that has its mutexes, whatever it counts.
LEMMA Counted ==
  ASSUME IInv, lib' = lib, NEW t \in Threads, NEW d \in Calls, call' = [call EXCEPT ![t] = d], Stay,
         Locked(call[t]), Locked(d), d.op = call[t].op,
         Placed(d), Timed(d), Fits(d)
  PROVE  IInv'
<1>1. HoldsRead(d) <=> HoldsRead(call[t])
  BY DEF HoldsRead, Locked
<1>2. HoldsWrite(d) <=> HoldsWrite(call[t])
  BY DEF HoldsWrite, Locked
<1> QED
  BY <1>1, <1>2, Local

\* ... or that only goes to another place.
LEMMA Gone ==
  ASSUME IInv, lib' = lib, NEW t \in Threads, NEW place \in Places \ {"idle", "lockRead", "lockWrite", "select", "open", "close"},
         Goto(t, place), Stay, Locked(call[t]), 
         place \in {"loop", "file"} => call[t].op \in Transfers \cup Lines,
         place = "once" => call[t].op \in Transfers,
         place = "drain" => call[t].op \in {"flush", "flushInput", "flushOutput"},
         place = "reopen" => call[t].op = "setPort"
  PROVE  IInv'
<1> DEFINE d == [call[t] EXCEPT !.at = place]
<1>1. call[t] \in Calls
  BY DEF IInv, Shape
<1>2. d \in Calls /\ d.at = place
  BY <1>1 DEF Calls
<1>3. d.op = call[t].op /\ d.size = call[t].size /\ d.done = call[t].done /\ d.failed = call[t].failed
  BY <1>1 DEF Calls
<1>4. call' = [call EXCEPT ![t] = d]
  BY DEF Goto, IInv, Shape
<1> HIDE DEF d
<1>5. Placed(d) /\ Timed(d) /\ Fits(d)
  BY <1>2, <1>3 DEF IInv, CallInv, Placed, Timed, Fits, Locked
<1>6. Locked(d)
  BY <1>2 DEF Locked
<1> QED
  BY <1>2, <1>3, <1>4, <1>5, <1>6, Counted

LEMMA Tested ==
  ASSUME IInv, lib' = lib, NEW t \in Threads, NEW place \in {"once", "drain", "ioctl", "event"},
         IfOpen(t, place), Locked(call[t]),
         place = "once" => call[t].op \in Transfers,
         place = "drain" => call[t].op \in {"flush", "flushInput", "flushOutput"}
  PROVE  IInv'
<1>1. CASE Throw(t)
  BY <1>1, Thrown
<1>2. CASE isOpen /\ Goto(t, place) /\ Stay
  <2>1. place \in Places \ {"idle", "lockRead", "lockWrite", "select", "open", "close"}
    BY DEF Places, Using
  <2>2. place \notin {"loop", "file", "reopen"}
    OBVIOUS
  <2> QED
    BY <1>2, <2>1, <2>2, Gone
<1> QED
  BY <1>1, <1>2 DEF IfOpen

-----------------------------------------------------------------------------
(* The steps of each kind of call.                                           *)

\* The two locks.
LEMMA LockSteps ==
  ASSUME IInv, lib' = lib, NEW t \in Threads, LockRead(t) \/ LockWrite(t)
  PROVE  IInv'
<1>0. call[t] \in Calls /\ Placed(call[t]) /\ Timed(call[t]) /\ Fits(call[t]) /\ t # "free"
  BY ThreadsAssumption DEF IInv, Shape, CallInv
<1> DEFINE next == IF LockRead(t) /\ call[t].op \in {"flush", "setPort"} THEN "lockWrite" ELSE "enter"
           d == [call[t] EXCEPT !.at = next]
<1>1. d \in Calls /\ d.at = next
  BY <1>0 DEF Calls, Places
<1>2. d.op = call[t].op /\ d.size = call[t].size /\ d.done = call[t].done /\ d.failed = call[t].failed
  BY <1>0 DEF Calls
<1>3. call' = [call EXCEPT ![t] = d] /\ isOpen' = isOpen /\ short' = short
  BY DEF LockRead, LockWrite, Goto, IInv, Shape
<1> HIDE DEF d
<1>4. \A u \in Threads : call'[u] = IF u = t THEN d ELSE call[u]
  BY <1>3 DEF IInv, Shape
<1>5. Placed(d) /\ Timed(d) /\ Fits(d)
  BY <1>0, <1>1, <1>2 DEF Placed, Timed, Fits, Writers, Readers, LockRead, LockWrite, Using
<1>6. CallInv'
  BY <1>1, <1>3, <1>4, <1>5 DEF IInv, Shape, CallInv
<1>7. Shape'
  <2>1. {readMutex', writeMutex'} \subseteq Threads \cup {"free"}
    BY DEF LockRead, LockWrite, IInv, Shape
  <2> QED
    BY <1>1, <1>3, <2>1 DEF IInv, Shape
<1>8. MutexInv'
  <2>1. CASE LockRead(t)
    <3>1. HoldsRead(d) /\ ~HoldsRead(call[t]) /\ ~HoldsWrite(call[t])
      BY <1>0, <1>1, <1>2, <2>1 DEF LockRead, HoldsRead, HoldsWrite, Placed
    <3>2. ~HoldsWrite(d)
      BY <1>0, <1>1, <1>2, <2>1 DEF LockRead, HoldsWrite, Placed, Readers, Writers
    <3>3. readMutex = "free" /\ readMutex' = t /\ writeMutex' = writeMutex
      BY <2>1 DEF LockRead
    <3>4. \A u \in Threads \ {t} : ~HoldsRead(call[u])
      BY <3>3, ThreadsAssumption DEF IInv, MutexInv
    <3> QED
      BY <1>4, <3>1, <3>2, <3>3, <3>4 DEF IInv, MutexInv
  <2>2. CASE LockWrite(t)
    <3>1. HoldsWrite(d) /\ ~HoldsWrite(call[t]) /\ (HoldsRead(d) <=> HoldsRead(call[t]))
      BY <1>0, <1>1, <1>2, <2>2 DEF LockRead, LockWrite, HoldsRead, HoldsWrite, Placed
    <3>3. writeMutex = "free" /\ writeMutex' = t /\ readMutex' = readMutex
      BY <2>2 DEF LockWrite
    <3>4. \A u \in Threads \ {t} : ~HoldsWrite(call[u])
      BY <3>3, ThreadsAssumption DEF IInv, MutexInv
    <3> QED
      BY <1>4, <3>1, <3>3, <3>4 DEF IInv, MutexInv
  <2> QED
    BY <2>1, <2>2
<1> QED
  BY <1>3, <1>6, <1>7, <1>8 DEF IInv, ShortInv, LockRead, LockWrite

\* The beginning.
LEMMA BeginStep ==
  ASSUME IInv, lib' = lib, NEW t \in Threads, NEW op \in Ops \ {"none"}, NEW n \in Nat, Begin(t, op, n), op \in Lines => n >= 2
  PROVE  IInv'
<1> DEFINE d == [Idle EXCEPT !.op = op, !.size = n, !.at = FirstLock(op)]
<1>1. Idle \in Calls /\ call[t] = Idle
  BY Constants DEF Begin, Idle, Calls, Ops, Places
<1>2. FirstLock(op) \in Places
  BY DEF FirstLock, Places
<1>3. d \in Calls /\ d.op = op /\ d.size = n /\ d.at = FirstLock(op) /\ d.done = 0
  BY <1>1, <1>2 DEF Calls, Idle
<1>4. call' = [call EXCEPT ![t] = d] /\ Stay
  BY DEF Begin
<1> HIDE DEF d
<1>5. Placed(d) /\ Timed(d) /\ Fits(d)
  BY <1>3 DEF Placed, Timed, Fits, FirstLock, Using, Readers, Writers, Ops, Transfers, Lines
<1>6. ~HoldsRead(d) /\ ~HoldsWrite(d) /\ ~HoldsRead(call[t]) /\ ~HoldsWrite(call[t])
  BY <1>1, <1>3 DEF HoldsRead, HoldsWrite, FirstLock, Idle, Readers, Writers, Ops
<1> QED
  BY <1>3, <1>4, <1>5, <1>6, Local

\* What is known of a call before each of its steps.
LEMMA Known ==
  ASSUME IInv, NEW t \in Threads
  PROVE  /\ call[t] \in Calls /\ Placed(call[t]) /\ Timed(call[t]) /\ Fits(call[t])
BY DEF IInv, Shape, CallInv

\* A transfer or a line starts in an open port.
LEMMA EnterStep ==
  ASSUME IInv, lib' = lib, NEW t \in Threads, Enter(t)
  PROVE  IInv'
<1>0. call[t] \in Calls /\ Placed(call[t]) /\ Timed(call[t]) /\ Fits(call[t]) /\ Locked(call[t]) /\ call[t].op \in Transfers \cup Lines
  BY Known, Constants DEF Enter, Locked, Placed, Transfers, Lines, Using
<1>1. CASE Throw(t)
  BY <1>1, Thrown
<1>2. ASSUME isOpen, Stay,
             call' = [call EXCEPT ![t].at = "loop", ![t].left = Total, ![t].first = TRUE]
      PROVE IInv'
  <2> DEFINE d == [call[t] EXCEPT !.at = "loop", !.left = Total, !.first = TRUE]
  <2>1. d \in Calls
    <3>1. "loop" \in Places /\ call[t].done \in Int /\ Total \in Late..Total /\ InterByte \in 0..Long /\ 0 \in 0..Long
      BY <1>0, <1>2, Constants DEF Calls, Places, Using
    <3> QED
      BY <1>0, <1>2, <3>1 DEF Calls
  <2>2. d.op = call[t].op /\ d.size = call[t].size /\ d.done = call[t].done /\ d.failed = call[t].failed /\ d.at = "loop"
    BY <1>0 DEF Calls
  <2>3. call' = [call EXCEPT ![t] = d]
    BY <1>2 DEF IInv, Shape
  <2> HIDE DEF d
  <2>4. Placed(d) /\ Timed(d) /\ Fits(d) /\ Locked(d)
    BY <1>0, <1>2, <2>1, <2>2, Constants DEF Placed, Timed, Fits, Locked, Transfers, Lines, Calls
  <2> QED
    BY <1>0, <1>2, <2>1, <2>2, <2>3, <2>4, Counted
<1>3. ASSUME isOpen, Stay, call[t].op = "read", NEW k \in 1..call[t].size,
             call' = [call EXCEPT ![t].at = "loop", ![t].left = Total, ![t].done = k]
      PROVE IInv'
  <2> DEFINE d == [call[t] EXCEPT !.at = "loop", !.left = Total, !.done = k]
  <2>1. d \in Calls
    <3>1. "loop" \in Places /\ k \in Nat \cup {-1} /\ Total \in Late..Total /\ InterByte \in 0..Long /\ 0 \in 0..Long
      BY <1>0, <1>3, Constants DEF Calls, Places, Using
    <3> QED
      BY <1>0, <1>3, <3>1 DEF Calls
  <2>2. d.op = call[t].op /\ d.size = call[t].size /\ d.done = k /\ d.failed = call[t].failed /\ d.at = "loop"
    BY <1>0 DEF Calls
  <2>3. call' = [call EXCEPT ![t] = d]
    BY <1>3 DEF IInv, Shape
  <2> HIDE DEF d
  <2>4. Placed(d) /\ Timed(d) /\ Fits(d) /\ Locked(d)
    BY <1>0, <1>3, <2>1, <2>2, Constants DEF Placed, Timed, Fits, Locked, Transfers, Lines, Calls
  <2> QED
    BY <1>0, <1>3, <2>1, <2>2, <2>3, <2>4, Counted
<1> QED
  BY <1>1, <1>2, <1>3 DEF Enter

\* On Windows likewise.
LEMMA EnterWindowsStep ==
  ASSUME IInv, lib' = lib, NEW t \in Threads, EnterWindows(t)
  PROVE  IInv'
<1>0. call[t] \in Calls /\ Placed(call[t]) /\ Timed(call[t]) /\ Fits(call[t]) /\ Locked(call[t]) /\ call[t].op \in Transfers \cup Lines
  BY Known, Constants DEF EnterWindows, Locked, Placed, Transfers, Lines, Using
<1>1. CASE Throw(t)
  BY <1>1, Thrown
<1>2. ASSUME isOpen, Stay, call' = [call EXCEPT ![t].at = "file", ![t].left = Total]
      PROVE IInv'
  <2> DEFINE d == [call[t] EXCEPT !.at = "file", !.left = Total]
  <2>1. d \in Calls
    <3>1. "file" \in Places /\ call[t].done \in Int /\ Total \in Late..Total /\ InterByte \in 0..Long /\ 0 \in 0..Long
      BY <1>0, <1>2, Constants DEF Calls, Places, Using
    <3> QED
      BY <1>0, <1>2, <3>1 DEF Calls
  <2>2. d.op = call[t].op /\ d.size = call[t].size /\ d.done = call[t].done /\ d.failed = call[t].failed /\ d.at = "file"
    BY <1>0 DEF Calls
  <2>3. call' = [call EXCEPT ![t] = d]
    BY <1>2 DEF IInv, Shape
  <2> HIDE DEF d
  <2>4. Placed(d) /\ Timed(d) /\ Fits(d) /\ Locked(d)
    BY <1>0, <1>2, <2>1, <2>2, Constants DEF Placed, Timed, Fits, Locked, Transfers, Lines, Calls
  <2> QED
    BY <1>0, <1>2, <2>1, <2>2, <2>3, <2>4, Counted
<1> QED
  BY <1>1, <1>2 DEF EnterWindows

\* The one call of a Windows transfer moves some bytes,
LEMMA FileTransfersStep ==
  ASSUME IInv, lib' = lib, NEW t \in Threads, FileTransfers(t)
  PROVE  IInv'
<1>0. call[t] \in Calls /\ Placed(call[t]) /\ Timed(call[t]) /\ Fits(call[t]) /\ Locked(call[t]) /\ call[t].op \in Transfers /\ call[t].at = "file"
  BY Known, Constants DEF FileTransfers, Locked, Placed, Transfers, Lines, Using
<1>1. ASSUME Stay, NEW k \in 1..(call[t].size - call[t].done),
             call' = [call EXCEPT ![t].done = @ + k, ![t].wait = InterByte]
      PROVE IInv'
  <2> DEFINE d == [call[t] EXCEPT !.done = @ + k, !.wait = InterByte]
  <2>1. d \in Calls
    <3>1. call[t].at \in Places /\ call[t].done + k \in Nat \cup {-1} /\ Total \in Late..Total /\ InterByte \in 0..Long /\ 0 \in 0..Long
      BY <1>0, <1>1, Constants DEF Calls, Places, Using
    <3> QED
      BY <1>0, <1>1, <3>1 DEF Calls
  <2>2. d.op = call[t].op /\ d.size = call[t].size /\ d.done = call[t].done + k /\ d.failed = call[t].failed /\ d.at = call[t].at
    BY <1>0 DEF Calls
  <2>3. call' = [call EXCEPT ![t] = d]
    BY <1>1 DEF IInv, Shape
  <2> HIDE DEF d
  <2>4. Placed(d) /\ Timed(d) /\ Fits(d) /\ Locked(d)
    BY <1>0, <1>1, <2>1, <2>2, Constants DEF Placed, Timed, Fits, Locked, Transfers, Lines, Calls
  <2> QED
    BY <1>0, <1>1, <2>1, <2>2, <2>3, <2>4, Counted
<1> QED
  BY <1>1 DEF FileTransfers

\* and ends when it has them all or is late.
LEMMA FileEndsStep ==
  ASSUME IInv, lib' = lib, NEW t \in Threads, FileEnds(t)
  PROVE  IInv'
<1>1. call[t] \in Calls /\ Finish(t)
  BY Known DEF FileEnds
<1>2. CASE PauseOver(t)
  BY <1>1, <1>2, Finished
<1>3. CASE call[t].done = call[t].size \/ call[t].left <= 0
  BY <1>1, <1>3, Finished DEF Calls, Late
<1> QED
  BY <1>2, <1>3 DEF FileEnds

\* A read that waits again has something to wait for, and time.
LEMMA ReadLoopStep ==
  ASSUME IInv, lib' = lib, NEW t \in Threads, ReadLoop(t)
  PROVE  IInv'
<1>0. call[t] \in Calls /\ Placed(call[t]) /\ Timed(call[t]) /\ Fits(call[t]) /\ Locked(call[t]) /\ call[t].op = "read"
  BY Known, Constants DEF ReadLoop, Locked, Placed, Transfers, Lines, Using
<1>1. CASE (call[t].done = call[t].size \/ call[t].left <= 0) /\ Finish(t)
  BY <1>0, <1>1, Constants, Finished DEF Calls
<1>2. ASSUME Stay, NEW w \in 0..Long, call' = [call EXCEPT ![t].at = "select", ![t].wait = w]
      PROVE IInv'
  <2> DEFINE d == [call[t] EXCEPT !.at = "select", !.wait = w]
  <2>1. d \in Calls
    <3>1. "select" \in Places /\ call[t].done \in Int /\ Total \in Late..Total /\ InterByte \in 0..Long /\ 0 \in 0..Long
      BY <1>0, <1>2, Constants DEF Calls, Places, Using
    <3> QED
      BY <1>0, <1>2, <3>1 DEF Calls
  <2>2. d.op = call[t].op /\ d.size = call[t].size /\ d.done = call[t].done /\ d.failed = call[t].failed /\ d.at = "select"
    BY <1>0 DEF Calls
  <2>3. call' = [call EXCEPT ![t] = d]
    BY <1>2 DEF IInv, Shape
  <2> HIDE DEF d
  <2>4. Placed(d) /\ Timed(d) /\ Fits(d) /\ Locked(d)
    BY <1>0, <1>2, <2>1, <2>2, Constants DEF Placed, Timed, Fits, Locked, Transfers, Lines, Calls
  <2> QED
    BY <1>0, <1>2, <2>1, <2>2, <2>3, <2>4, Counted
<1>3. CASE /\ Stay /\ call[t].left > 0
          /\ call' = [call EXCEPT ![t].at = "select",
                                  ![t].wait = IF call[t].left < InterByte THEN call[t].left ELSE InterByte]
  <2>1. (IF call[t].left < InterByte THEN call[t].left ELSE InterByte) \in 0..Long
    BY <1>0, <1>3, Constants DEF Calls
  <2> QED
    BY <1>2, <1>3, <2>1
<1> QED
  BY <1>1, <1>3 DEF ReadLoop

\* So has a write, or it waits for ever.
LEMMA WriteLoopStep ==
  ASSUME IInv, lib' = lib, NEW t \in Threads, WriteLoop(t)
  PROVE  IInv'
<1>0. call[t] \in Calls /\ Placed(call[t]) /\ Timed(call[t]) /\ Fits(call[t]) /\ Locked(call[t]) /\ call[t].op = "write"
  BY Known, Constants DEF WriteLoop, Locked, Placed, Transfers, Lines, Using
<1>1. CASE (call[t].done = call[t].size \/ call[t].left <= 0) /\ Finish(t)
  BY <1>0, <1>1, Constants, Finished DEF Calls
<1>2. ASSUME Stay, NEW w \in 0..Long, call[t].left <= w,
             call' = [call EXCEPT ![t].at = "select", ![t].first = FALSE, ![t].wait = w]
      PROVE IInv'
  <2> DEFINE d == [call[t] EXCEPT !.at = "select", !.first = FALSE, !.wait = w]
  <2>1. d \in Calls
    <3>1. "select" \in Places /\ call[t].done \in Int /\ Total \in Late..Total /\ InterByte \in 0..Long /\ 0 \in 0..Long
      BY <1>0, <1>2, Constants DEF Calls, Places, Using
    <3> QED
      BY <1>0, <1>2, <3>1 DEF Calls
  <2>2. d.op = call[t].op /\ d.size = call[t].size /\ d.done = call[t].done /\ d.failed = call[t].failed /\ d.at = "select" /\ d.left = call[t].left /\ d.wait = w
    BY <1>0 DEF Calls
  <2>3. call' = [call EXCEPT ![t] = d]
    BY <1>2 DEF IInv, Shape
  <2> HIDE DEF d
  <2>4. Placed(d) /\ Timed(d) /\ Fits(d) /\ Locked(d)
    BY <1>0, <1>2, <2>1, <2>2, Constants DEF Placed, Timed, Fits, Locked, Transfers, Lines, Calls
  <2> QED
    BY <1>0, <1>2, <2>1, <2>2, <2>3, <2>4, Counted
<1>3. CASE /\ Stay
          /\ call' = [call EXCEPT ![t].at = "select", ![t].first = FALSE,
                                  ![t].wait = IF call[t].left < 0 THEN Long ELSE call[t].left]
  <2> DEFINE w == IF call[t].left < 0 THEN Long ELSE call[t].left
  <2>1. w \in 0..Long /\ call[t].left <= w
    BY <1>0, <1>3, Constants DEF Calls
  <2> HIDE DEF w
  <2> QED
    BY <1>2, <1>3, <2>1 DEF w
<1> QED
  BY <1>1, <1>3 DEF WriteLoop

\* select reports the port ready,
LEMMA TransferStep ==
  ASSUME IInv, lib' = lib, NEW t \in Threads, Transfer(t)
  PROVE  IInv'
<1>1. CASE Throw(t)
  BY <1>1, Thrown
<1>2. ASSUME call[t].op \in Transfers PROVE call[t] \in Calls /\ Locked(call[t]) /\ call[t].at = "select"
  BY Known DEF Transfer, Locked, Using
<1>3. ASSUME call[t].op \in Transfers, Stay, NEW k \in 1..(call[t].size - call[t].done),
             call' = [call EXCEPT ![t].at = "loop", ![t].done = @ + k, ![t].wait = 0]
      PROVE IInv'
  <2> DEFINE d == [call[t] EXCEPT !.at = "loop", !.done = @ + k, !.wait = 0]
  <2>1. d \in Calls
    <3>1. "loop" \in Places /\ call[t].done + k \in Nat \cup {-1} /\ Total \in Late..Total /\ InterByte \in 0..Long /\ 0 \in 0..Long
      BY <1>2, <1>3, Constants DEF Calls, Places, Using
    <3> QED
      BY <1>2, <1>3, <3>1 DEF Calls
  <2>2. d.op = call[t].op /\ d.size = call[t].size /\ d.done = call[t].done + k /\ d.failed = call[t].failed /\ d.at = "loop"
    BY <1>2 DEF Calls
  <2>3. call' = [call EXCEPT ![t] = d]
    BY <1>3 DEF IInv, Shape
  <2> HIDE DEF d
  <2>4. Placed(d) /\ Timed(d) /\ Fits(d) /\ Locked(d)
    BY <1>2, <1>3, <2>1, <2>2, Constants DEF Placed, Timed, Fits, Locked, Transfers, Lines, Calls
  <2> QED
    BY <1>2, <1>3, <2>1, <2>2, <2>3, <2>4, Counted
<1> QED
  BY <1>1, <1>3 DEF Transfer, Transfers

\* is interrupted,
LEMMA InterruptedStep ==
  ASSUME IInv, lib' = lib, NEW t \in Threads, Interrupted(t)
  PROVE  IInv'
<1>0. call[t] \in Calls /\ Placed(call[t]) /\ Timed(call[t]) /\ Fits(call[t]) /\ Locked(call[t]) /\ call[t].op \in Transfers \cup Lines
  BY Known, Constants DEF Interrupted, Locked, Placed, Transfers, Lines, Using
<1>1. ASSUME Stay, call' = [call EXCEPT ![t].at = "loop", ![t].wait = 0]
      PROVE IInv'
  <2> DEFINE d == [call[t] EXCEPT !.at = "loop", !.wait = 0]
  <2>1. d \in Calls
    <3>1. "loop" \in Places /\ call[t].done \in Int /\ Total \in Late..Total /\ InterByte \in 0..Long /\ 0 \in 0..Long
      BY <1>0, <1>1, Constants DEF Calls, Places, Using
    <3> QED
      BY <1>0, <1>1, <3>1 DEF Calls
  <2>2. d.op = call[t].op /\ d.size = call[t].size /\ d.done = call[t].done /\ d.failed = call[t].failed /\ d.at = "loop"
    BY <1>0 DEF Calls
  <2>3. call' = [call EXCEPT ![t] = d]
    BY <1>1 DEF IInv, Shape
  <2> HIDE DEF d
  <2>4. Placed(d) /\ Timed(d) /\ Fits(d) /\ Locked(d)
    BY <1>0, <1>1, <2>1, <2>2, Constants DEF Placed, Timed, Fits, Locked, Transfers, Lines, Calls
  <2> QED
    BY <1>0, <1>1, <2>1, <2>2, <2>3, <2>4, Counted
<1> QED
  BY <1>1 DEF Interrupted

\* or times out.
LEMMA SelectTimesOutStep ==
  ASSUME IInv, lib' = lib, NEW t \in Threads, SelectTimesOut(t)
  PROVE  IInv'
<1>0. call[t] \in Calls /\ Placed(call[t]) /\ Timed(call[t]) /\ Fits(call[t]) /\ Locked(call[t]) /\ call[t].op \in Transfers \cup Lines /\ call[t].at = "select"
  BY Known, Constants DEF SelectTimesOut, Locked, Placed, Transfers, Lines, Using
<1>1. CASE call[t].op = "write" /\ Finish(t)
  <2>1. call[t].left <= 0
    BY <1>0, <1>1 DEF SelectTimesOut, Timed
  <2> QED
    BY <1>0, <1>1, <2>1, Constants, Finished DEF Calls
<1>2. CASE Goto(t, "loop") /\ Stay
  <2>1. "loop" \in Places \ {"idle", "lockRead", "lockWrite", "select", "open", "close"}
    BY DEF Places, Using
  <2> QED
    BY <1>0, <1>2, <2>1, Gone
<1> QED
  BY <1>1, <1>2 DEF SelectTimesOut

-----------------------------------------------------------------------------
(* readline and readlines.                                                   *)

\* A line waits for its next byte.
LEMMA LineLoopStep ==
  ASSUME IInv, lib' = lib, NEW t \in Threads, LineLoop(t)
  PROVE  IInv'
<1>0. call[t] \in Calls /\ Placed(call[t]) /\ Timed(call[t]) /\ Fits(call[t]) /\ Locked(call[t]) /\ call[t].op \in Lines
  BY Known, Constants DEF LineLoop, Locked, Placed, Transfers, Lines, Using
<1>1. CASE End(t) /\ UNCHANGED <<isOpen, short>>
  BY <1>1, Thrown DEF Throw
<1>2. ASSUME Stay, NEW w \in 0..Long, call' = [call EXCEPT ![t].at = "select", ![t].wait = w]
      PROVE IInv'
  <2> DEFINE d == [call[t] EXCEPT !.at = "select", !.wait = w]
  <2>1. d \in Calls
    <3>1. "select" \in Places /\ call[t].done \in Int /\ Total \in Late..Total /\ InterByte \in 0..Long /\ 0 \in 0..Long
      BY <1>0, <1>2, Constants DEF Calls, Places, Using
    <3> QED
      BY <1>0, <1>2, <3>1 DEF Calls
  <2>2. d.op = call[t].op /\ d.size = call[t].size /\ d.done = call[t].done /\ d.failed = call[t].failed /\ d.at = "select"
    BY <1>0 DEF Calls
  <2>3. call' = [call EXCEPT ![t] = d]
    BY <1>2 DEF IInv, Shape
  <2> HIDE DEF d
  <2>4. Placed(d) /\ Timed(d) /\ Fits(d) /\ Locked(d)
    BY <1>0, <1>2, <2>1, <2>2, Constants DEF Placed, Timed, Fits, Locked, Transfers, Lines, Calls
  <2> QED
    BY <1>0, <1>2, <2>1, <2>2, <2>3, <2>4, Counted
<1>3. CASE /\ Stay /\ call[t].left > 0
          /\ call' = [call EXCEPT ![t].at = "select",
                                  ![t].wait = IF call[t].left < InterByte THEN call[t].left ELSE InterByte]
  <2>1. (IF call[t].left < InterByte THEN call[t].left ELSE InterByte) \in 0..Long
    BY <1>0, <1>3, Constants DEF Calls
  <2> QED
    BY <1>2, <1>3, <2>1
<1> QED
  BY <1>1, <1>3 DEF LineLoop

\* A byte ends it or leaves room for another, in time for the two of the mark.
LEMMA LineByteStep ==
  ASSUME IInv, lib' = lib, NEW t \in Threads, LineByte(t)
  PROVE  IInv'
<1>0. call[t] \in Calls /\ Placed(call[t]) /\ Timed(call[t]) /\ Fits(call[t]) /\ Locked(call[t]) /\ call[t].op \in Lines
  BY Known, Constants DEF LineByte, ByteComes, Locked, Placed, Transfers, Lines, Using
<1>1. CASE End(t) /\ UNCHANGED <<isOpen, short>>
  BY <1>1, Thrown DEF Throw
<1>2. ASSUME Stay, NEW mark \in BOOLEAN, NEW place \in {"enter", "loop"},
             call[t].done + 1 < call[t].size,
             call' = [call EXCEPT ![t].at = place, ![t].done = @ + 1, ![t].wait = 0,
                                  ![t].left = Total, ![t].mark = mark]
      PROVE IInv'
  <2> DEFINE d == [call[t] EXCEPT !.at = place, !.done = @ + 1, !.wait = 0, !.left = Total, !.mark = mark]
  <2>1. d \in Calls
    <3>1. place \in Places /\ call[t].done + 1 \in Nat \cup {-1} /\ Total \in Late..Total /\ InterByte \in 0..Long /\ 0 \in 0..Long
      BY <1>0, <1>2, Constants DEF Calls, Places, Using
    <3> QED
      BY <1>0, <1>2, <3>1 DEF Calls
  <2>2. d.op = call[t].op /\ d.size = call[t].size /\ d.done = call[t].done + 1 /\ d.failed = call[t].failed /\ d.at = place
    BY <1>0 DEF Calls
  <2>3. call' = [call EXCEPT ![t] = d]
    BY <1>2 DEF IInv, Shape
  <2> HIDE DEF d
  <2>4. Placed(d) /\ Timed(d) /\ Fits(d) /\ Locked(d)
    BY <1>0, <1>2, <2>1, <2>2, Constants DEF Placed, Timed, Fits, Locked, Transfers, Lines, Calls
  <2> QED
    BY <1>0, <1>2, <2>1, <2>2, <2>3, <2>4, Counted DEF Using
<1>3. call[t].done < 1 => call[t].done + 1 < call[t].size
  BY <1>0 DEF Fits, Calls
<1>4. ~IsFull(t) => call[t].done + 1 < call[t].size
  BY <1>0 DEF IsFull, Fits, Calls
<1>5. lib = "lidar" \/ call[t].done >= 1 \/ call[t].done < 1
  BY <1>0 DEF Calls
<1>6. ASSUME NEW mark \in BOOLEAN, NEW eol \in BOOLEAN,
             ~(/\ lib = "lidar" \/ call[t].done >= 1
               /\ IsFull(t) \/ (eol /\ call[t].op = "line")),
             Stay,
             call' = [call EXCEPT ![t].at = IF lib = "lidar" THEN "loop" ELSE "enter",
                                  ![t].done = @ + 1, ![t].wait = 0,
                                  ![t].left = Total, ![t].mark = mark]
      PROVE  IInv'
  <2>1. call[t].done + 1 < call[t].size
    BY <1>3, <1>4, <1>5, <1>6
  <2>2. CASE lib # "lidar"
    BY <1>2, <1>6, <2>1, <2>2
  <2>3. CASE lib = "lidar"
    BY <1>0, <1>2, <1>6, <2>1, <2>3
  <2> QED
    BY <2>2, <2>3
<1>7. PICK mark \in BOOLEAN, eol \in IF call[t].done < 1 THEN {FALSE, lib = "lidar"} ELSE {FALSE, call[t].mark} :
        IF /\ lib = "lidar" \/ call[t].done >= 1
           /\ IsFull(t) \/ (eol /\ call[t].op = "line")
        THEN End(t) /\ UNCHANGED <<isOpen, short>>
        ELSE /\ call' = [call EXCEPT ![t].at = IF lib = "lidar" THEN "loop" ELSE "enter",
                                     ![t].done = @ + 1, ![t].wait = 0,
                                     ![t].left = Total, ![t].mark = mark]
             /\ Stay
  BY DEF LineByte
<1>8. eol \in BOOLEAN
  BY <1>0, <1>7 DEF Calls
<1> QED
  BY <1>1, <1>6, <1>7, <1>8

\* In the library of the lidar, a line ends when nothing is there,
LEMMA LidarLineEndsStep ==
  ASSUME IInv, lib' = lib, NEW t \in Threads, LidarLineEnds(t)
  PROVE  IInv'
BY Thrown DEF LidarLineEnds, Throw

\* and goes back by a byte when the read fails.
LEMMA LidarLineFailsStep ==
  ASSUME IInv, lib' = lib, NEW t \in Threads, LidarLineFails(t)
  PROVE  IInv'
<1>0. call[t] \in Calls /\ Placed(call[t]) /\ Timed(call[t]) /\ Fits(call[t]) /\ Locked(call[t]) /\ call[t].op \in Lines
  BY Known, Constants DEF LidarLineFails, Locked, Placed, Transfers, Lines, Using
<1>1. CASE End(t) /\ UNCHANGED <<isOpen, short>>
  BY <1>1, Thrown DEF Throw
<1>2. ASSUME Stay, NEW mark \in BOOLEAN,
             call' = [call EXCEPT ![t].at = "loop", ![t].mark = mark, ![t].failed = TRUE,
                                  ![t].done = IF @ < 0 THEN @ ELSE @ - 1]
      PROVE IInv'
  <2> DEFINE d == [call[t] EXCEPT !.at = "loop", !.mark = mark, !.failed = TRUE, !.done = IF @ < 0 THEN @ ELSE @ - 1]
  <2>1. d \in Calls
    <3>1. "loop" \in Places /\ (IF call[t].done < 0 THEN call[t].done ELSE call[t].done - 1) \in Nat \cup {-1} /\ Total \in Late..Total /\ InterByte \in 0..Long /\ 0 \in 0..Long
      BY <1>0, <1>2, Constants DEF Calls, Places, Using
    <3> QED
      BY <1>0, <1>2, <3>1 DEF Calls
  <2>2. d.op = call[t].op /\ d.size = call[t].size /\ d.done = (IF call[t].done < 0 THEN call[t].done ELSE call[t].done - 1) /\ d.failed = TRUE /\ d.at = "loop"
    BY <1>0 DEF Calls
  <2>3. call' = [call EXCEPT ![t] = d]
    BY <1>2 DEF IInv, Shape
  <2> HIDE DEF d
  <2>4. Placed(d) /\ Timed(d) /\ Fits(d) /\ Locked(d)
    BY <1>0, <1>2, <2>1, <2>2, Constants DEF Placed, Timed, Fits, Locked, Transfers, Lines, Calls
  <2> QED
    BY <1>0, <1>2, <2>1, <2>2, <2>3, <2>4, Counted
<1> QED
  BY <1>1, <1>2 DEF LidarLineFails

-----------------------------------------------------------------------------
(* The other calls, and time.                                                *)

\* The calls that test the port and then leave it to the system.
LEMMA TestedSteps ==
  ASSUME IInv, lib' = lib, NEW t \in Threads,
         \/ EnterLidar(t) \/ Flush(t) \/ WindowsFlush(t) \/ LidarFlush(t) \/ SetLine(t) \/ GetLine(t)
         \/ WindowsSetLine(t) \/ WindowsGetLine(t) \/ LidarSetLine(t) \/ LidarGetLine(t) \/ WindowsChange(t)
  PROVE  IInv'
<1>1. CASE EnterLidar(t)
  BY <1>1, Tested DEF EnterLidar, Locked, Transfers
<1>2. CASE AtFlush(t) /\ IfOpen(t, "drain")
  BY <1>2, Tested DEF AtFlush, Locked
<1>3. CASE call[t].at = "enter" /\ IfOpen(t, "ioctl")
  BY <1>3, Tested DEF Locked
<1>4. CASE Throw(t)
  BY <1>4, Thrown
<1>5. CASE WindowsChange(t)
  BY <1>5, Tested DEF WindowsChange, Locked
<1> QED
  BY <1>1, <1>2, <1>3, <1>4, <1>5
     DEF Flush, WindowsFlush, LidarFlush, SetLine, GetLine, WindowsSetLine, WindowsGetLine, LidarSetLine,
         LidarGetLine, AtLine

\* And what ends them.
LEMMA ThrowSteps ==
  ASSUME IInv, lib' = lib, NEW t \in Threads,
         \/ FileFails(t) \/ Flushed(t) \/ Drained(t) \/ CloseFails(t) \/ Ioctl(t) \/ LineChanges(t)
         \/ LidarLineChanges(t) \/ WindowsLineChanges(t)
  PROVE  IInv'
BY Thrown DEF FileFails, Flushed, Drained, CloseFails, Ioctl, LineChanges, LidarLineChanges, WindowsLineChanges

\* The one read or write of the lidar's library.
LEMMA TransferOnceStep ==
  ASSUME IInv, lib' = lib, NEW t \in Threads, TransferOnce(t)
  PROVE  IInv'
<1>1. short' \in BOOLEAN
  BY DEF TransferOnce, IInv, ShortInv
<1> QED
  BY <1>1, Ended DEF TransferOnce

\* setPort closes the port and keeps its mutexes.
LEMMA SetPortSteps ==
  ASSUME IInv, lib' = lib, NEW t \in Threads, SetPort(t) \/ LidarSetPort(t)
  PROVE  IInv'
<1>0. /\ call[t] \in Calls /\ Placed(call[t]) /\ Timed(call[t]) /\ Fits(call[t])
      /\ call[t].at = "enter" /\ call[t].op = "setPort"
  BY Known DEF SetPort, LidarSetPort
<1>1. CASE Throw(t)
  BY <1>1, Thrown
<1>2. CASE /\ isOpen' = FALSE /\ Goto(t, "reopen") /\ UNCHANGED <<readMutex, writeMutex, short>>
  <2> DEFINE d == [call[t] EXCEPT !.at = "reopen"]
  <2>1. d \in Calls /\ d.at = "reopen" /\ d.op = "setPort"
    BY <1>0 DEF Calls, Places
  <2>2. call' = [call EXCEPT ![t] = d] /\ \A u \in Threads : call'[u] = IF u = t THEN d ELSE call[u]
    BY <1>2 DEF Goto, IInv, Shape
  <2> HIDE DEF d
  <2>3. Shape'
    BY <1>2, <2>1, <2>2 DEF IInv, Shape
  <2>4. Placed(d) /\ Timed(d) /\ Fits(d)
    BY <2>1 DEF Placed, Timed, Fits, Lines, Using
  <2>5. CallInv'
    BY <2>2, <2>4 DEF IInv, CallInv
  <2>6. HoldsRead(call[t]) /\ HoldsWrite(call[t]) /\ HoldsRead(d) /\ HoldsWrite(d)
    BY <1>0, <2>1 DEF HoldsRead, HoldsWrite, Readers, Writers
  <2>7. MutexInv'
    BY <1>2, <2>2, <2>6 DEF IInv, MutexInv
  <2> QED
    BY <1>2, <2>3, <2>5, <2>7 DEF IInv, ShortInv
<1> QED
  BY <1>1, <1>2 DEF SetPort, LidarSetPort

\* It ends with the port open or closed, and so do open and close.
LEMMA OpenStep ==
  ASSUME IInv, lib' = lib, NEW t \in Threads, isOpen' \in BOOLEAN, End(t), short' = short
  PROVE  IInv'
<1>1. Idle \in Calls /\ Placed(Idle) /\ Timed(Idle) /\ Fits(Idle) /\ ~HoldsRead(Idle) /\ ~HoldsWrite(Idle)
  BY Constants DEF Idle, Calls, Ops, Places, Placed, Timed, Fits, HoldsRead, HoldsWrite, Transfers, Lines, Using,
     Readers, Writers
<1>2. \A u \in Threads : call'[u] = IF u = t THEN Idle ELSE call[u]
  BY DEF End, IInv, Shape
<1>3. Shape'
  BY <1>1 DEF End, IInv, Shape
<1>4. CallInv'
  BY <1>1, <1>2 DEF IInv, CallInv
<1>5. MutexInv'
  BY <1>1, <1>2, ThreadsAssumption DEF End, IInv, MutexInv
<1> QED
  BY <1>3, <1>4, <1>5 DEF IInv, ShortInv

LEMMA OpenSteps ==
  ASSUME IInv, lib' = lib, NEW t \in Threads, Reopen(t) \/ OpenPort(t) \/ ClosePort(t)
  PROVE  IInv'
<1>1. isOpen' \in BOOLEAN /\ End(t) /\ short' = short
  BY DEF Reopen, OpenPort, ClosePort, OpenIt
<1> QED
  BY <1>1, OpenStep

\* Time shortens a write's wait and its total time together.
LEMMA TickStep ==
  ASSUME IInv, lib' = lib, Tick
  PROVE  IInv'
<1> DEFINE older(u) ==
       [call[u] EXCEPT !.left = IF call[u].at \in {"loop", "select", "file"} /\ @ > Late THEN @ - 1 ELSE @,
                       !.wait = IF @ > 0 /\ @ < Long THEN @ - 1 ELSE @]
<1>1. ASSUME NEW u \in Threads
      PROVE  /\ older(u) \in Calls /\ Placed(older(u)) /\ Timed(older(u)) /\ Fits(older(u))
             /\ older(u).at = call[u].at /\ older(u).op = call[u].op
  <2>1. call[u] \in Calls /\ Placed(call[u]) /\ Timed(call[u]) /\ Fits(call[u])
    BY Known
  <2>2. older(u) \in Calls
    <3>1. /\ (IF call[u].at \in {"loop", "select", "file"} /\ call[u].left > Late
           THEN call[u].left - 1 ELSE call[u].left) \in Late..Total
          /\ (IF call[u].wait > 0 /\ call[u].wait < Long THEN call[u].wait - 1 ELSE call[u].wait) \in 0..Long
      BY <2>1, Constants DEF Calls
    <3> QED
      BY <2>1, <3>1 DEF Calls
  <2>3. /\ older(u).at = call[u].at /\ older(u).op = call[u].op /\ older(u).size = call[u].size
        /\ older(u).done = call[u].done /\ older(u).failed = call[u].failed
        /\ older(u).left = (IF call[u].at \in {"loop", "select", "file"} /\ call[u].left > Late
                            THEN call[u].left - 1 ELSE call[u].left)
        /\ older(u).wait = (IF call[u].wait > 0 /\ call[u].wait < Long THEN call[u].wait - 1 ELSE call[u].wait)
    BY <2>1 DEF Calls
  <2> HIDE DEF older
  <2>4. Placed(older(u)) /\ Fits(older(u))
    BY <2>1, <2>3 DEF Placed, Fits
  <2>5. Timed(older(u))
    BY <2>1, <2>2, <2>3, Constants DEF Timed, Calls
  <2> QED
    BY <2>2, <2>3, <2>4, <2>5
<1>2. call' = [u \in Threads |-> older(u)] /\ Stay
  BY DEF Tick
<1> HIDE DEF older
<1>3. \A u \in Threads : call'[u] = older(u)
  BY <1>2
<1>4. Shape'
  BY <1>1, <1>2 DEF IInv, Shape, Stay
<1>5. CallInv'
  BY <1>1, <1>2, <1>3 DEF IInv, CallInv, Stay
<1>6. MutexInv'
  <2>1. \A u \in Threads : /\ HoldsRead(older(u)) <=> HoldsRead(call[u])
                           /\ HoldsWrite(older(u)) <=> HoldsWrite(call[u])
    BY <1>1 DEF HoldsRead, HoldsWrite
  <2> QED
    BY <1>2, <1>3, <2>1 DEF IInv, MutexInv, Stay
<1> QED
  BY <1>2, <1>4, <1>5, <1>6 DEF IInv, ShortInv, Stay

-----------------------------------------------------------------------------
(* The theorems.                                                             *)

LEMMA InitInv == Init => IInv
<1> SUFFICES ASSUME Init
             PROVE  IInv
  OBVIOUS
<1>1. Idle \in Calls /\ Placed(Idle) /\ Timed(Idle) /\ Fits(Idle) /\ ~HoldsRead(Idle) /\ ~HoldsWrite(Idle)
  BY Constants DEF Idle, Calls, Ops, Places, Placed, Timed, Fits, HoldsRead, HoldsWrite, Transfers, Lines, Using,
     Readers, Writers
<1> QED
  BY <1>1, ThreadsAssumption DEF Init, IInv, Shape, CallInv, MutexInv, ShortInv

Others == {"flush", "flushInput", "flushOutput", "setPort", "setLine", "getLine", "change", "open", "close"}

\* What a thread calls, and how its calls go on.
LEMMA CallInvStep ==
  ASSUME IInv, lib' = lib, NEW t \in Threads, Call(t)
  PROVE  IInv'
<1>1. CASE Step(t)
  BY <1>1, LockSteps, EnterStep, ReadLoopStep, WriteLoopStep, SelectTimesOutStep, LineLoopStep, LidarLineEndsStep,
     LidarLineFailsStep, TestedSteps, ThrowSteps, TransferOnceStep, EnterWindowsStep, FileEndsStep, SetPortSteps,
     OpenSteps, Zenon
     DEF Step
<1>2. CASE Port(t)
  BY <1>2, TransferStep, InterruptedStep, FileTransfersStep, LineByteStep, ThrowSteps, Zenon DEF Port
<1>3. ASSUME NEW op \in Ops, NEW n \in Nat, Begin(t, op, n), op # "none", op \in Lines => n >= 2
      PROVE  IInv'
  BY <1>3, BeginStep
<1>4. CASE \E n \in Sizes : Begin(t, "read", n) \/ Begin(t, "write", n)
  BY <1>3, <1>4, SizeAssumption DEF Ops, Readers, Writers, Lines
<1>5. CASE \E n \in LineSizes : Begin(t, "line", n) \/ Begin(t, "lines", n)
  BY <1>3, <1>5, SizeAssumption DEF Ops, Readers, Writers, Lines
<1>6. CASE \E op \in Others : Begin(t, op, 0)
  BY <1>3, <1>6 DEF Ops, Readers, Writers, Lines, Others
<1> QED
  BY <1>1, <1>2, <1>4, <1>5, <1>6, Zenon DEF Call, Others

LEMMA NextInv == IInv /\ [Next]_vars => IInv'
<1> SUFFICES ASSUME IInv, [Next]_vars
             PROVE  IInv'
  OBVIOUS
<1>1. CASE Next /\ Tick
  BY <1>1, TickStep DEF Next
<1>2. ASSUME Next, NEW t \in Threads, Call(t)
      PROVE  IInv'
  BY <1>2, CallInvStep DEF Next
<1>3. ASSUME Next, NEW t \in Threads, ClosePort(t)
      PROVE  IInv'
  BY <1>3, OpenSteps DEF Next
<1>4. ASSUME Next, NEW t \in Threads, Delete(t)
      PROVE  IInv'
  BY <1>4 DEF Next, Delete, IInv, Shape, CallInv, MutexInv, ShortInv
<1>5. CASE UNCHANGED <<lib, state>>
  BY <1>5 DEF state, IInv, Shape, CallInv, MutexInv, ShortInv
<1>6. CASE Next /\ UNCHANGED state
  BY <1>5, <1>6 DEF Next
<1>7. CASE UNCHANGED vars
  BY <1>5, <1>7 DEF vars
<1> QED
  BY <1>1, <1>2, <1>3, <1>4, <1>6, <1>7, Zenon DEF Next

LEMMA InvHolds == Spec => []IInv
BY InitInv, NextInv, PTL DEF Spec

\* Every call, time and mutex of the libraries keeps to its type: no count falls below the -1 of a
\* failed read, no time below Late, and whoever holds a mutex is a thread.
THEOREM CallsAreTyped == Spec => []TypeOK
<1> DEFINE Library == lib \in {"serial", "windows", "lidar"} /\ over \in BOOLEAN /\ cut \subseteq Threads
<1>1. Init => Library
  BY DEF Init
<1>2. Library /\ [Next]_vars => Library'
  BY DEF Next, vars
<1>3. IInv /\ Library => TypeOK
  BY DEF IInv, Shape, ShortInv, Calls, TypeOK
<1> QED
  BY <1>1, <1>2, <1>3, InvHolds, PTL DEF Spec

-----------------------------------------------------------------------------
(* Who closes the port under a transfer.                                     *)

\* What the port does to a call it does to no other.
LEMMA Moved ==
  ASSUME IInv, NEW t \in Threads, LineByte(t) \/ LidarLineFails(t) \/ Transfer(t) \/ FileTransfers(t)
  PROVE  End(t) \/ \A v \in Threads \ {t} : call'[v] = call[v]
<1>1. call \in [Threads -> Calls]
  BY DEF IInv, Shape
<1>2. ASSUME NEW place, NEW mark,
             call' = [call EXCEPT ![t].at = place, ![t].done = @ + 1, ![t].wait = 0, ![t].left = Total, ![t].mark = mark]
      PROVE  \A v \in Threads \ {t} : call'[v] = call[v]
  BY <1>1, <1>2
<1>3. ASSUME NEW mark,
             call' = [call EXCEPT ![t].at = "loop", ![t].mark = mark, ![t].failed = TRUE,
                                  ![t].done = IF @ < 0 THEN @ ELSE @ - 1]
      PROVE  \A v \in Threads \ {t} : call'[v] = call[v]
  BY <1>1, <1>3
<1>4. ASSUME NEW k, call' = [call EXCEPT ![t].at = "loop", ![t].done = @ + k, ![t].wait = 0]
      PROVE  \A v \in Threads \ {t} : call'[v] = call[v]
  BY <1>1, <1>4
<1>5. ASSUME NEW k, call' = [call EXCEPT ![t].done = @ + k, ![t].wait = InterByte]
      PROVE  \A v \in Threads \ {t} : call'[v] = call[v]
  BY <1>1, <1>5
<1>6. CASE LineByte(t)
  BY <1>2, <1>6, Zenon DEF LineByte
<1>7. CASE LidarLineFails(t)
  BY <1>3, <1>7, Zenon DEF LidarLineFails
<1>8. CASE Transfer(t)
  BY <1>4, <1>8, Zenon DEF Transfer, Throw
<1>9. CASE FileTransfers(t)
  BY <1>5, <1>9, Zenon DEF FileTransfers
<1> QED
  BY <1>6, <1>7, <1>8, <1>9

\* A thread gets past the test of is_open_ only while the port is open.
LEMMA TestsFirst ==
  ASSUME IInv, NEW t \in Threads, Call(t), NEW u \in Threads, call'[u].at \in Using
  PROVE  call[u].at \in Using \/ isOpen
<1>1. call \in [Threads -> Calls]
  BY DEF IInv, Shape
<1>2. CASE End(t)
  BY <1>1, <1>2 DEF End, Idle, Using
<1>3. ASSUME NEW place \in {"enter", "lockWrite", "ioctl", "event", "reopen"}, Goto(t, place)
      PROVE  call[u].at \in Using
  BY <1>1, <1>3 DEF Goto, Using
<1>4. CASE call[t].at \in Using /\ \A v \in Threads \ {t} : call'[v] = call[v]
  BY <1>4
<1>5. CASE LockRead(t) \/ LockWrite(t)
  BY <1>3, <1>5 DEF LockRead, LockWrite
<1>6. CASE isOpen
  BY <1>6
<1>7. CASE EnterLidar(t) \/ Enter(t) \/ EnterWindows(t) \/ Flush(t) \/ WindowsFlush(t) \/ LidarFlush(t)
           \/ SetLine(t) \/ GetLine(t) \/ WindowsSetLine(t) \/ WindowsGetLine(t) \/ LidarSetLine(t)
           \/ LidarGetLine(t) \/ WindowsChange(t) \/ SetPort(t) \/ LidarSetPort(t)
  BY <1>2, <1>6, <1>7 DEF EnterLidar, Enter, EnterWindows, Flush, WindowsFlush, LidarFlush, SetLine, GetLine,
     WindowsSetLine, WindowsGetLine, LidarSetLine, LidarGetLine, WindowsChange, SetPort, LidarSetPort, IfOpen, Throw
<1>8. CASE TransferOnce(t) \/ FileEnds(t) \/ Flushed(t) \/ Ioctl(t) \/ Reopen(t) \/ OpenPort(t) \/ CloseFails(t)
           \/ LidarLineEnds(t) \/ FileFails(t) \/ Drained(t) \/ LineChanges(t) \/ LidarLineChanges(t)
           \/ WindowsLineChanges(t)
  BY <1>2, <1>8 DEF TransferOnce, FileEnds, Flushed, Ioctl, Reopen, OpenPort, OpenIt, CloseFails, LidarLineEnds,
     FileFails, Drained, LineChanges, LidarLineChanges, WindowsLineChanges, Finish, Throw
<1>9. CASE LineByte(t) \/ LidarLineFails(t) \/ Transfer(t) \/ FileTransfers(t)
  <2>1. call[t].at \in Using \/ isOpen
    BY <1>9, Zenon DEF LineByte, LidarLineFails, ByteComes, Transfer, FileTransfers, Using
  <2>2. End(t) \/ \A v \in Threads \ {t} : call'[v] = call[v]
    BY <1>9, Moved
  <2> QED
    BY <1>2, <1>4, <1>6, <2>1, <2>2
<1>10. CASE ReadLoop(t) \/ WriteLoop(t) \/ SelectTimesOut(t) \/ LineLoop(t) \/ Interrupted(t)
  <2>1. call[t].at \in Using
    BY <1>10, Zenon DEF ReadLoop, WriteLoop, SelectTimesOut, LineLoop, Interrupted, Using
  <2>2. End(t) \/ \A v \in Threads \ {t} : call'[v] = call[v]
    BY <1>1, <1>10 DEF ReadLoop, WriteLoop, SelectTimesOut, LineLoop, Interrupted, Finish, Goto
  <2> QED
    BY <1>2, <1>4, <2>1, <2>2
<1>11. ASSUME NEW op, NEW n, Begin(t, op, n)
       PROVE  call[u].at \in Using
  <2>1. FirstLock(op) \notin Using
    BY DEF FirstLock, Using
  <2>2. Idle.at = "idle" /\ [Idle EXCEPT !.op = op, !.size = n, !.at = FirstLock(op)].at = FirstLock(op)
    BY DEF Idle
  <2> QED
    BY <1>1, <1>11, <2>1, <2>2 DEF Begin
<1>12. CASE Step(t) \/ Port(t)
  BY <1>5, <1>7, <1>8, <1>9, <1>10, <1>12, Zenon DEF Step, Port
<1> QED
  BY <1>11, <1>12 DEF Call

\* setPort, which alone closes it besides close, holds both mutexes then.
LEMMA ClosesAlone ==
  ASSUME IInv, NEW t \in Threads, Call(t), isOpen, ~isOpen'
  PROVE  \A u \in Threads : call'[u].at \notin Using
<1>1. call \in [Threads -> Calls]
  BY DEF IInv, Shape
<1>2. CASE SetPort(t) \/ LidarSetPort(t)
  <2>1. call[t].at = "enter" /\ call[t].op = "setPort" /\ Goto(t, "reopen")
    BY <1>2 DEF SetPort, LidarSetPort, Throw
  <2>2. HoldsRead(call[t]) /\ HoldsWrite(call[t])
    BY <2>1 DEF HoldsRead, HoldsWrite, Readers, Writers
  <2>3. \A u \in Threads \ {t} : call[u].at \notin Using
    <3> SUFFICES ASSUME NEW u \in Threads \ {t}, call[u].at \in Using
                 PROVE  FALSE
      OBVIOUS
    <3>1. ~HoldsRead(call[u]) /\ ~HoldsWrite(call[u])
      BY <2>2 DEF IInv, MutexInv
    <3>2. call[u].op \in Transfers \cup Lines \cup {"flush", "flushInput", "flushOutput"}
      BY Known DEF Placed, Using
    <3> QED
      BY <3>1, <3>2 DEF HoldsRead, HoldsWrite, Readers, Writers, Transfers, Lines, Using
  <2> QED
    BY <1>1, <2>1, <2>3 DEF Goto, Using
<1>3. CASE Step(t) /\ ~SetPort(t) /\ ~LidarSetPort(t)
  BY <1>3, Zenon DEF Step, LockRead, LockWrite, Enter, ReadLoop, WriteLoop, SelectTimesOut, LineLoop, LidarLineEnds,
     LidarLineFails, EnterLidar, TransferOnce, EnterWindows, FileEnds, Flush, WindowsFlush, LidarFlush, Flushed,
     SetLine, GetLine, WindowsSetLine, WindowsGetLine, LidarSetLine, LidarGetLine, Ioctl, WindowsChange, Reopen,
     OpenPort, OpenIt, CloseFails, IfOpen, Throw, Finish, PauseOver, Stay
<1>4. CASE Port(t)
  BY <1>4, Zenon DEF Port, Transfer, Interrupted, FileTransfers, FileFails, LineByte, IsFull, ByteComes, Drained, LineChanges,
     LidarLineChanges, WindowsLineChanges, Throw, Stay
<1>5. ASSUME NEW op, NEW n, Begin(t, op, n)
      PROVE  FALSE
  BY <1>5 DEF Begin, Stay
<1> QED
  BY <1>2, <1>3, <1>4, <1>5 DEF Call

LEMMA CutStep ==
  ASSUME IInv, OnlyCloseTakesPort, Next
  PROVE  OnlyCloseTakesPort'
<1>1. ~over
  BY DEF Next
<1>2. ASSUME NEW t \in Threads, Call(t), cut' = {u \in cut : call'[u].at \in Using}
      PROVE  OnlyCloseTakesPort'
  <2> SUFFICES ASSUME NEW u \in Threads, call'[u].at \in Using, ~isOpen'
               PROVE  u \in cut'
    BY DEF OnlyCloseTakesPort
  <2>2. ~isOpen
    BY <1>2, ClosesAlone
  <2>3. call[u].at \in Using
    BY <1>2, <2>2, TestsFirst
  <2> QED
    BY <1>1, <1>2, <2>2, <2>3 DEF OnlyCloseTakesPort
<1>3. CASE Tick /\ cut' = {u \in cut : call'[u].at \in Using}
  <2>1. isOpen' = isOpen
    BY <1>3 DEF Tick, Stay
  <2>2. \A u \in Threads : call'[u].at = call[u].at
    BY <1>3 DEF Tick, IInv, Shape, Calls
  <2> QED
    BY <1>1, <1>3, <2>1, <2>2 DEF OnlyCloseTakesPort
<1>4. ASSUME NEW t \in Threads, ClosePort(t), cut' = {u \in Threads : call[u].at \in Using}
      PROVE  OnlyCloseTakesPort'
  <2>1. \A u \in Threads : call'[u].at \in Using => call[u].at \in Using
    BY <1>4 DEF ClosePort, End, Idle, Using, IInv, Shape
  <2> QED
    BY <1>4, <2>1 DEF OnlyCloseTakesPort
<1>5. CASE over' = TRUE
  BY <1>5 DEF OnlyCloseTakesPort
<1> QED
  BY <1>2, <1>3, <1>4, <1>5, Zenon DEF Next

\* setPort closes no port under a transfer of another thread, whatever open and close do: whoever
\* is past the test of is_open_ holds a mutex that setPort, which holds both, would have to hold,
\* or has lost its port to close before.
THEOREM TransfersKeepTheirPort == Spec => []OnlyCloseTakesPort
<1>1. Init => OnlyCloseTakesPort
  BY DEF Init, OnlyCloseTakesPort, Using, Idle
<1>2. IInv /\ OnlyCloseTakesPort /\ [Next]_vars => OnlyCloseTakesPort'
  BY CutStep DEF vars, state, OnlyCloseTakesPort
<1> QED
  BY <1>1, <1>2, InvHolds, PTL DEF Spec

\* In Serial a transfer returns early only when its total time, or on Windows the time between two
\* bytes of a read, is up: for a write this is because its wait, the last one but for a negative
\* time, is as long as the time it has left. The lidar's library is left out.
THEOREM EarlyReturnsAreTimeouts == Spec => []ShortTransfersAreLate
<1>1. IInv => ShortTransfersAreLate
  BY DEF IInv, ShortInv, ShortTransfersAreLate
<1> QED
  BY <1>1, InvHolds, PTL

\* readline and readlines stay inside their buffer for every size of at least the mark's.
THEOREM LinesStayInBuffer == Spec => []LineFits
<1>1. IInv => LineFits
  BY DEF IInv, CallInv, Fits, LineFits, ByteComes, Lines
<1> QED
  BY <1>1, InvHolds, PTL
-----------------------------------------------------------------------------
(* The settings of the port those calls use, for all values of its settings. *)

Flags == {"PARENB", "PARODD", "CMSPAR"}

\* The rate of a device d.
RateOf(d) == IF d.rate = 38400 /\ d.spd THEN CustomBaud ELSE d.rate

\* What SettingsInForce says, one setting at a time, of library l and device d.
ParityAgrees(s, d) == \/ ParityOf(d.parity) = s.parity
                      \/ s.parity \in {"even", "odd"} /\ "CMSPAR" \in d.parity
StopAgrees(s, d)   == s.stopbits # "onehalf" => d.cstopb = (s.stopbits = "two")
RateAgrees(l, s, d) == \/ RateOf(d) = s.baud
                       \/ l = "serial" /\ d.spd
                       \/ l = "lidar" /\ ~tty /\ s.baud = CustomBaud

Agree(l, s, d) == /\ d.bits = s.bytesize /\ d.flow = s.flow
                  /\ StopAgrees(s, d) /\ ParityAgrees(s, d) /\ RateAgrees(l, s, d)

\* What a device may be set to: the values of the settings, and those of a new terminal.
Bits  == Bytesizes \cup {8}
Flow  == Flows \cup {"none"}
Rates == Bauds \cup {38400, 9600, CustomBaud}

PortDevice  == [bits : Bits, parity : SUBSET Flags, cstopb : BOOLEAN, flow : Flow, rate : Rates, spd : BOOLEAN]

\* Only the Serial library ever sets ASYNC_SPD_CUST.
PortInv ==
  /\ settings \in Settings /\ device \in PortDevice
  /\ lib \in {"serial", "windows", "lidar"} /\ isOpen \in BOOLEAN /\ faulted \in BOOLEAN
  /\ lib # "serial" => ~device.spd
  /\ DescriptorsKept
  /\ isOpen /\ ~faulted => Agree(lib, settings, device)

LEMMA DeviceFields ==
  ASSUME NEW d \in PortDevice
  PROVE  /\ d.bits \in Bits /\ d.parity \in SUBSET Flags /\ d.cstopb \in BOOLEAN
         /\ d.flow \in Flow /\ d.rate \in Rates /\ d.spd \in BOOLEAN
BY DEF PortDevice

LEMMA FieldsDevice ==
  ASSUME NEW b, NEW p, NEW c, NEW f, NEW r, NEW spd, NEW e,
         e = [bits |-> b, parity |-> p, cstopb |-> c, flow |-> f, rate |-> r, spd |-> spd]
  PROVE  b \in Bits /\ p \in SUBSET Flags /\ c \in BOOLEAN /\ f \in Flow /\ r \in Rates /\ spd \in BOOLEAN
         => e \in PortDevice
BY DEF PortDevice

LEMMA SerialParityWritten ==
  ASSUME NEW p \in Parities, NEW f \in SUBSET Flags, NEW g, g = SerialParity(p, f)
  PROVE  g \in SUBSET Flags /\ (ParityOf(g) = p \/ (p \in {"even", "odd"} /\ "CMSPAR" \in g))
<1>1. CASE p = "none"
  <2>1. g = f \ {"PARENB", "PARODD"}
    BY <1>1 DEF SerialParity
  <2>2. g \in SUBSET Flags /\ "PARENB" \notin g
    BY <2>1
  <2> QED
    BY <1>1, <2>2 DEF ParityOf
<1>2. CASE p = "even"
  BY <1>2 DEF SerialParity, ParityOf, Flags
<1>3. CASE p = "odd"
  BY <1>3 DEF SerialParity, ParityOf, Flags
<1>4. CASE p = "mark"
  BY <1>4 DEF SerialParity, ParityOf, Flags
<1>5. CASE p = "space"
  BY <1>5 DEF SerialParity, ParityOf, Flags
<1> QED
  BY <1>1, <1>2, <1>3, <1>4, <1>5 DEF Parities

LEMMA LidarParityWritten ==
  ASSUME NEW p \in Parities, NEW f \in SUBSET Flags, NEW g, g = LidarParity(p, f)
  PROVE  g \in SUBSET Flags /\ (ParityOf(g) = p \/ (p \in {"even", "odd"} /\ "CMSPAR" \in g))
<1>1. CASE p = "none"
  <2>1. g = f \ {"PARENB"}
    BY <1>1 DEF LidarParity
  <2>2. g \in SUBSET Flags /\ "PARENB" \notin g
    BY <2>1
  <2> QED
    BY <1>1, <2>2 DEF ParityOf
<1>2. CASE p = "even"
  BY <1>2 DEF LidarParity, ParityOf, Flags
<1>3. CASE p = "odd"
  BY <1>3 DEF LidarParity, ParityOf, Flags
<1>4. CASE p = "mark"
  BY <1>4 DEF LidarParity, ParityOf, Flags
<1>5. CASE p = "space"
  BY <1>5 DEF LidarParity, ParityOf, Flags
<1> QED
  BY <1>1, <1>2, <1>3, <1>4, <1>5 DEF Parities

LEMMA WindowsParityWritten ==
  ASSUME NEW p \in Parities, NEW g, g = WindowsParity(p)
  PROVE  g \in SUBSET Flags /\ ParityOf(g) = p
<1>1. CASE p = "none"
  BY <1>1 DEF WindowsParity, ParityOf, Flags
<1>2. CASE p = "even"
  BY <1>2 DEF WindowsParity, ParityOf, Flags
<1>3. CASE p = "odd"
  BY <1>3 DEF WindowsParity, ParityOf, Flags
<1>4. CASE p = "mark"
  BY <1>4 DEF WindowsParity, ParityOf, Flags
<1>5. CASE p = "space"
  BY <1>5 DEF WindowsParity, ParityOf, Flags
<1> QED
  BY <1>1, <1>2, <1>3, <1>4, <1>5 DEF Parities

\* The device that reconfigurePort writes agrees with the settings, whatever it was.
LEMMA SerialFlagsAgree ==
  ASSUME NEW s \in Settings, NEW d \in PortDevice, NEW spd \in BOOLEAN, NEW e,
         e = [SerialFlags(s, d) EXCEPT !.spd = spd]
  PROVE  e \in PortDevice /\ (Standard(s.baud) \/ spd => Agree("serial", s, e))
<1> DEFINE g == SerialParity(s.parity, d.parity)
           c == SerialStop(s.stopbits)
           r == IF Standard(s.baud) THEN s.baud ELSE d.rate
<1>1. e = [bits |-> s.bytesize, parity |-> g, cstopb |-> c,
           flow |-> s.flow, rate |-> r, spd |-> spd]
  BY DEF SerialFlags
<1>2. /\ s.bytesize \in Bytesizes /\ s.parity \in Parities /\ s.stopbits \in Stopbits
      /\ s.flow \in Flows /\ s.baud \in Bauds
      /\ d.parity \in SUBSET Flags /\ d.rate \in Rates
  BY DEF Settings, PortDevice
<1>3. g \in SUBSET Flags /\ (ParityOf(g) = s.parity \/ (s.parity \in {"even", "odd"} /\ "CMSPAR" \in g))
  BY <1>2, SerialParityWritten
<1>4. r \in Rates /\ (Standard(s.baud) => r = s.baud)
  BY <1>2 DEF Rates
<1>5. c \in BOOLEAN
  BY DEF SerialStop
<1> HIDE DEF g, r
<1>6. e \in PortDevice
  <2>1. s.bytesize \in Bits /\ s.flow \in Flow
    BY <1>2 DEF Bits, Flow
  <2> QED
    <3>1. g \in SUBSET Flags /\ r \in Rates /\ c \in BOOLEAN
      BY <1>3, <1>4, <1>5
    <3>2. /\ s.bytesize \in Bits /\ g \in SUBSET Flags /\ c \in BOOLEAN /\ s.flow \in Flow /\ r \in Rates
          /\ spd \in BOOLEAN
      BY <2>1, <3>1
    <3> HIDE DEF c
    <3> QED
      BY ONLY <1>1, <3>2, FieldsDevice
<1>7. ParityAgrees(s, e)
  BY <1>1, <1>3 DEF ParityAgrees
<1>8. StopAgrees(s, e)
  BY <1>1, <1>2 DEF StopAgrees, SerialStop, Stopbits
<1>9. Standard(s.baud) \/ spd => RateAgrees("serial", s, e)
  <2>1. e.spd = spd /\ e.rate = r
    BY <1>1
  <2> QED
    BY <2>1, <1>4 DEF RateAgrees, RateOf
<1> QED
  BY <1>1, <1>6, <1>7, <1>8, <1>9 DEF Agree

\* So does the one that Windows is given.
LEMMA WindowsFlagsAgree ==
  ASSUME NEW s \in Settings, NEW e, e = WindowsFlags(s)
  PROVE  e \in PortDevice /\ ~e.spd /\ Agree("windows", s, e)
<1> DEFINE g == WindowsParity(s.parity)
<1>1. e = [bits |-> s.bytesize, parity |-> g, cstopb |-> s.stopbits # "one",
           flow |-> s.flow, rate |-> s.baud, spd |-> FALSE]
  BY DEF WindowsFlags
<1>2. /\ s.bytesize \in Bytesizes /\ s.parity \in Parities /\ s.stopbits \in Stopbits
      /\ s.flow \in Flows /\ s.baud \in Bauds
  BY DEF Settings
<1>3. g \in SUBSET Flags /\ ParityOf(g) = s.parity
  BY <1>2, WindowsParityWritten
<1> HIDE DEF g
<1>4. e \in PortDevice /\ ~e.spd
  <2>1. s.bytesize \in Bits /\ s.flow \in Flow /\ s.baud \in Rates
    BY <1>2 DEF Bits, Flow, Rates
  <2> QED
    BY <1>1, <2>1, <1>3 DEF PortDevice
<1>5. ParityAgrees(s, e)
  BY <1>1, <1>3 DEF ParityAgrees
<1>6. StopAgrees(s, e)
  BY <1>1, <1>2 DEF StopAgrees, Stopbits
<1>7. RateAgrees("windows", s, e)
  BY <1>1 DEF RateAgrees, RateOf
<1> QED
  BY <1>1, <1>4, <1>5, <1>6, <1>7 DEF Agree

\* The lidar library writes the settings named and leaves the others as they are in force.
LEMMA LidarFlagsWrite ==
  ASSUME NEW s \in Settings, NEW d \in PortDevice, NEW which, NEW e, e = LidarFlags(which, s, d)
  PROVE  /\ e \in PortDevice /\ e.spd = d.spd /\ e.rate = d.rate
         /\ e.bits = s.bytesize \/ ("bytesize" \notin which /\ e.bits = d.bits)
         /\ ParityAgrees(s, e) \/ ("parity" \notin which /\ e.parity = d.parity)
         /\ StopAgrees(s, e) \/ ("stopbits" \notin which /\ e.cstopb = d.cstopb)
         /\ e.flow = s.flow \/ ("flow" \notin which /\ e.flow = d.flow)
<1> DEFINE g == IF "parity" \in which THEN LidarParity(s.parity, d.parity) ELSE d.parity
           b == IF "bytesize" \in which THEN s.bytesize ELSE d.bits
           c == IF "stopbits" \in which THEN LidarStop(s.stopbits) ELSE d.cstopb
           f == IF "flow" \in which THEN s.flow ELSE d.flow
<1>1. e = [bits |-> b, parity |-> g, cstopb |-> c, flow |-> f, rate |-> d.rate, spd |-> d.spd]
  <2>1. d = [bits |-> d.bits, parity |-> d.parity, cstopb |-> d.cstopb, flow |-> d.flow,
             rate |-> d.rate, spd |-> d.spd]
    BY DEF PortDevice
  <2>2. e = [[[[d EXCEPT !.bits = b] EXCEPT !.parity = g] EXCEPT !.cstopb = c] EXCEPT !.flow = f]
    BY <2>1 DEF LidarFlags
  <2> HIDE DEF g, b, c, f
  <2> QED
    BY <2>1, <2>2
<1>2. /\ s.bytesize \in Bytesizes /\ s.parity \in Parities /\ s.stopbits \in Stopbits
      /\ s.flow \in Flows
  BY DEF Settings
<1>3. /\ d.bits \in Bits /\ d.parity \in SUBSET Flags /\ d.cstopb \in BOOLEAN
      /\ d.flow \in Flow /\ d.rate \in Rates /\ d.spd \in BOOLEAN
  BY DEF PortDevice
<1>4. /\ g \in SUBSET Flags
      /\ \/ "parity" \notin which /\ g = d.parity
         \/ ParityOf(g) = s.parity \/ (s.parity \in {"even", "odd"} /\ "CMSPAR" \in g)
  BY <1>2, <1>3, LidarParityWritten
<1>5. /\ b \in Bits /\ (b = s.bytesize \/ ("bytesize" \notin which /\ b = d.bits))
      /\ f \in Flow /\ (f = s.flow \/ ("flow" \notin which /\ f = d.flow))
  BY <1>2, <1>3 DEF Bits, Flow
<1>6. /\ c \in BOOLEAN
      /\ \/ "stopbits" \notin which /\ c = d.cstopb
         \/ s.stopbits # "onehalf" => c = (s.stopbits = "two")
  <2>1. CASE "stopbits" \in which
    BY <2>1 DEF LidarStop
  <2>2. CASE "stopbits" \notin which
    BY <2>2, <1>3
  <2> QED
    BY <2>1, <2>2
<1> HIDE DEF g, b, c, f
<1>7. e \in PortDevice
  BY <1>1, <1>3, <1>4, <1>5, <1>6 DEF PortDevice
<1>8. /\ e.spd = d.spd /\ e.rate = d.rate /\ e.bits = b /\ e.flow = f /\ e.parity = g
  BY <1>1
<1>9. e.cstopb = c
  BY <1>1
<1>10. ParityAgrees(s, e) \/ ("parity" \notin which /\ e.parity = d.parity)
  BY <1>4, <1>8 DEF ParityAgrees
<1>11. StopAgrees(s, e) \/ ("stopbits" \notin which /\ e.cstopb = d.cstopb)
  BY <1>6, <1>9 DEF StopAgrees
<1> QED
  BY <1>5, <1>7, <1>8, <1>10, <1>11

LEMMA CustomWritten ==
  ASSUME NEW d \in PortDevice, ~d.spd, NEW r \in Rates, NEW e, e = [d EXCEPT !.rate = r]
  PROVE  /\ e \in PortDevice /\ e.rate = r /\ ~e.spd
         /\ e.bits = d.bits /\ e.parity = d.parity /\ e.cstopb = d.cstopb /\ e.flow = d.flow
<1>1. e \in PortDevice
  BY DEF PortDevice
<1>2. e.rate = r /\ e.spd = d.spd
  BY DEF PortDevice
<1>3. e.bits = d.bits /\ e.parity = d.parity /\ e.cstopb = d.cstopb /\ e.flow = d.flow
  BY DEF PortDevice
<1> QED
  BY <1>1, <1>2, <1>3

\* setBaudrate puts the rate in force, unless termios2 is missing for a custom one.
LEMMA LidarRateAgrees ==
  ASSUME NEW s \in Settings, NEW d \in PortDevice, ~d.spd, NEW e, e = LidarRate(s, d)
  PROVE  /\ e \in PortDevice /\ ~e.spd /\ RateAgrees("lidar", s, e)
         /\ e.bits = d.bits /\ e.parity = d.parity /\ e.cstopb = d.cstopb /\ e.flow = d.flow
<1>1. s.baud \in Bauds
  BY DEF Settings
<1>2. CASE Standard(s.baud)
  <2>1. e = [d EXCEPT !.rate = s.baud, !.spd = FALSE]
    BY <1>2 DEF LidarRate, StandardRate
  <2>2. s.baud \in Rates
    BY <1>1 DEF Rates
  <2>3. e \in PortDevice
    BY <2>1, <2>2 DEF PortDevice
  <2>4. e.rate = s.baud /\ ~e.spd
    BY <2>1, <2>2 DEF PortDevice
  <2>5. e.bits = d.bits /\ e.parity = d.parity /\ e.cstopb = d.cstopb /\ e.flow = d.flow
    BY <2>1, <2>2 DEF PortDevice
  <2> QED
    BY <2>3, <2>4, <2>5 DEF RateAgrees, RateOf
<1>3. CASE ~Standard(s.baud) /\ tty
  <2>1. e = [d EXCEPT !.rate = CustomBaud] /\ s.baud = CustomBaud
    BY <1>3 DEF LidarRate, CustomRate, Standard
  <2>2. CustomBaud \in Rates
    BY DEF Rates
  <2> QED
    BY <2>1, <2>2, CustomWritten DEF RateAgrees, RateOf
<1>4. CASE ~Standard(s.baud) /\ ~tty
  <2> DEFINE c == [d EXCEPT !.spd = TRUE]
             r == 38400
  <2>1. e = [c EXCEPT !.rate = r, !.spd = FALSE] /\ s.baud = CustomBaud
    BY <1>4 DEF LidarRate, CustomRate, StandardRate, Standard
  <2>2. r \in Rates
    BY DEF Rates
  <2>3. c \in PortDevice
    BY DEF PortDevice
  <2>4. c.bits = d.bits /\ c.parity = d.parity /\ c.cstopb = d.cstopb /\ c.flow = d.flow
    BY DEF PortDevice
  <2> HIDE DEF c, r
  <2>5. e \in PortDevice
    BY <2>1, <2>2, <2>3 DEF PortDevice
  <2>6. e.rate = r /\ ~e.spd
    BY <2>1, <2>2, <2>3 DEF PortDevice
  <2>7. e.bits = c.bits /\ e.parity = c.parity /\ e.cstopb = c.cstopb /\ e.flow = c.flow
    BY <2>1, <2>2, <2>3 DEF PortDevice
  <2> QED
    BY <1>4, <2>1, <2>4, <2>5, <2>6, <2>7 DEF RateAgrees
<1> QED
  BY <1>2, <1>3, <1>4

LEMMA SerialFlagsPlain ==
  ASSUME NEW s \in Settings, NEW d \in PortDevice
  PROVE  SerialFlags(s, d) = [SerialFlags(s, d) EXCEPT !.spd = d.spd]
BY DEF SerialFlags

-----------------------------------------------------------------------------
(* What a step does to a port whose invariant holds.                         *)

SameLib == UNCHANGED <<lib, tty>>

\* A Serial port: whatever is written keeps the types, and agrees if nothing failed.
LEMMA SerialOpenInv == PortInv /\ SerialOpen => PortInv'
<1> SUFFICES ASSUME PortInv, SerialOpen PROVE PortInv'
  OBVIOUS
<1>1. /\ lib = "serial" /\ ~isOpen /\ SameLib /\ settings' = settings
      /\ settings \in Settings /\ device \in PortDevice
  BY DEF PortInv, SerialOpen, SameLib
<1>2. CASE fd' = "none" /\ UNCHANGED <<isOpen, device, faulted>>
  BY <1>1, <1>2 DEF PortInv, SameLib, DescriptorsKept
<1>3. CASE /\ fd' = "open" /\ isOpen' = TRUE /\ faulted' = FALSE
           /\ device' = [SerialFlags(settings, device) EXCEPT !.spd = @ \/ ~Standard(settings.baud)]
  <2> DEFINE spd == device.spd \/ ~Standard(settings.baud)
  <2>1. spd \in BOOLEAN /\ (Standard(settings.baud) \/ spd)
    OBVIOUS
  <2>2. device' = [SerialFlags(settings, device) EXCEPT !.spd = spd]
    BY <1>3 DEF SerialFlags
  <2> HIDE DEF spd
  <2>3. device' \in PortDevice /\ Agree("serial", settings, device')
    BY <1>1, <2>1, <2>2, SerialFlagsAgree
  <2>4. Agree(lib, settings, device)'
    BY <1>1, <2>3 DEF SameLib, Agree, StopAgrees, ParityAgrees, RateAgrees, RateOf
  <2> QED
    BY <1>1, <1>3, <2>3, <2>4 DEF PortInv, SameLib, DescriptorsKept
<1>4. CASE fd' = "open" /\ isOpen' \in BOOLEAN /\ faulted' = TRUE /\ device' \in {device, SerialFlags(settings, device)}
  <2>1. device' \in PortDevice
    BY <1>1, <1>4, SerialFlagsPlain, SerialFlagsAgree, DeviceFields
  <2> QED
    BY <1>1, <1>4, <2>1 DEF PortInv, SameLib, DescriptorsKept
<1> QED
  BY <1>2, <1>3, <1>4 DEF SerialOpen

LEMMA SerialSetInv ==
  ASSUME PortInv, NEW s \in Settings, SerialSet(s)
  PROVE  PortInv'
<1>1. /\ lib = "serial" /\ SameLib /\ settings' = s /\ UNCHANGED <<isOpen, fd, leaked>>
      /\ settings \in Settings /\ device \in PortDevice
  BY DEF PortInv, SerialSet, SameLib
<1>2. CASE ~isOpen
  BY <1>1, <1>2 DEF PortInv, SameLib, SerialSet, DescriptorsKept
<1>3. CASE isOpen /\ Standard(s.baud) /\ device' = SerialFlags(s, device) /\ UNCHANGED faulted
  <2>1. device' = [SerialFlags(s, device) EXCEPT !.spd = device.spd] /\ device.spd \in BOOLEAN
    BY <1>1, <1>3, SerialFlagsPlain, DeviceFields
  <2>2. device' \in PortDevice /\ Agree("serial", s, device')
    BY <1>1, <1>3, <2>1, SerialFlagsAgree
  <2> QED
    BY <1>1, <1>3, <2>2 DEF PortInv, SameLib, DescriptorsKept, Agree, StopAgrees, ParityAgrees, RateAgrees, RateOf
<1>4. CASE isOpen /\ device' = [SerialFlags(s, device) EXCEPT !.spd = TRUE] /\ UNCHANGED faulted
  <2>1. device' \in PortDevice /\ Agree("serial", s, device')
    BY <1>1, <1>4, SerialFlagsAgree
  <2> QED
    BY <1>1, <1>4, <2>1 DEF PortInv, SameLib, DescriptorsKept, Agree, StopAgrees, ParityAgrees, RateAgrees, RateOf
<1>5. CASE isOpen /\ faulted' = TRUE /\ device' \in {device, SerialFlags(s, device)}
  <2>1. device' \in PortDevice
    BY <1>1, <1>5, SerialFlagsPlain, SerialFlagsAgree, DeviceFields
  <2> QED
    BY <1>1, <1>5, <2>1 DEF PortInv, SameLib, DescriptorsKept
<1> QED
  BY <1>2, <1>3, <1>4, <1>5 DEF SerialSet, Reconfigure

\* A Windows port.
LEMMA WindowsFailsInv ==
  ASSUME NEW s \in Settings, NEW d \in PortDevice, d = device, WindowsFails(s)
  PROVE  faulted' = TRUE /\ fd' \in {"open", "closed"} /\ device' \in PortDevice /\ (~d.spd => ~device'.spd)
<1>1. WindowsFlags(s) \in PortDevice /\ ~WindowsFlags(s).spd
  BY WindowsFlagsAgree
<1> QED
  BY <1>1 DEF WindowsFails

LEMMA WindowsOpenInv == PortInv /\ WindowsOpen => PortInv'
<1> SUFFICES ASSUME PortInv, WindowsOpen PROVE PortInv'
  OBVIOUS
<1>1. /\ lib = "windows" /\ ~isOpen /\ SameLib /\ settings' = settings
      /\ settings \in Settings /\ device \in PortDevice /\ ~device.spd
  BY DEF PortInv, WindowsOpen, SameLib
<1>2. CASE fd' = "none" /\ UNCHANGED <<isOpen, device, faulted>>
  BY <1>1, <1>2 DEF PortInv, SameLib, DescriptorsKept
<1>3. CASE isOpen' = FALSE /\ WindowsFails(settings)
  <2>1. faulted' = TRUE /\ device' \in PortDevice /\ ~device'.spd
    BY <1>1, <1>3, WindowsFailsInv
  <2> QED
    BY <1>1, <1>3, <2>1 DEF PortInv, SameLib, DescriptorsKept
<1>4. CASE isOpen' = TRUE /\ fd' = "open" /\ faulted' = FALSE /\ device' = WindowsFlags(settings)
  <2>1. device' \in PortDevice /\ ~device'.spd /\ Agree("windows", settings, device')
    BY <1>1, <1>4, WindowsFlagsAgree
  <2>2. Agree(lib, settings, device)'
    BY <1>1, <2>1 DEF SameLib, Agree, StopAgrees, ParityAgrees, RateAgrees, RateOf
  <2> QED
    BY <1>1, <1>4, <2>1, <2>2 DEF PortInv, SameLib, DescriptorsKept
<1> QED
  BY <1>2, <1>3, <1>4 DEF WindowsOpen

LEMMA WindowsSetInv ==
  ASSUME PortInv, NEW s \in Settings, WindowsSet(s)
  PROVE  PortInv'
<1>1. /\ lib = "windows" /\ SameLib /\ settings' = s /\ UNCHANGED <<isOpen, leaked>>
      /\ settings \in Settings /\ device \in PortDevice /\ ~device.spd
  BY DEF PortInv, WindowsSet, SameLib
<1>2. CASE isOpen /\ fd = "open" /\ device' = WindowsFlags(s) /\ UNCHANGED <<fd, faulted>>
  <2>1. device' \in PortDevice /\ ~device'.spd /\ Agree("windows", s, device')
    BY <1>1, <1>2, WindowsFlagsAgree
  <2>2. Agree(lib, settings, device)'
    BY <1>1, <2>1 DEF SameLib, Agree, StopAgrees, ParityAgrees, RateAgrees, RateOf
  <2> QED
    BY <1>1, <1>2, <2>1, <2>2 DEF PortInv, SameLib, DescriptorsKept
<1>3. CASE isOpen /\ WindowsFails(s)
  <2>1. faulted' = TRUE /\ device' \in PortDevice /\ ~device'.spd
    BY <1>1, <1>3, WindowsFailsInv
  <2> QED
    BY <1>1, <1>3, <2>1 DEF PortInv, SameLib, DescriptorsKept
<1>4. CASE (~isOpen \/ fd # "open") /\ UNCHANGED <<fd, device, faulted>>
  BY <1>1, <1>4 DEF PortInv, SameLib, DescriptorsKept
<1> QED
  BY <1>2, <1>3, <1>4 DEF WindowsSet

\* A port of the lidar's library, which writes one setting at a time.
LEMMA LidarOpenInv == PortInv /\ LidarOpen => PortInv'
<1> SUFFICES ASSUME PortInv, LidarOpen PROVE PortInv'
  OBVIOUS
<1> DEFINE raw   == Raw(device)
           flags == LidarFlags({"bytesize", "parity", "stopbits", "flow"}, settings, raw)
<1>1. /\ lib = "lidar" /\ SameLib /\ UNCHANGED <<settings, leaked>> /\ leaked = 0
      /\ settings \in Settings /\ device \in PortDevice /\ ~device.spd
  BY DEF PortInv, LidarOpen, SameLib, DescriptorsKept
<1>2. raw \in PortDevice /\ ~raw.spd
  <2>1. raw \in PortDevice
    BY <1>1 DEF Raw, PortDevice, Flow
  <2>2. raw.spd = device.spd
    BY <1>1 DEF Raw, PortDevice
  <2> QED
    BY <1>1, <2>1, <2>2
<1> HIDE DEF raw
<1>3. /\ flags \in PortDevice /\ flags.spd = raw.spd /\ flags.bits = settings.bytesize /\ flags.flow = settings.flow
      /\ ParityAgrees(settings, flags) /\ StopAgrees(settings, flags)
  BY <1>1, <1>2, LidarFlagsWrite
<1> HIDE DEF flags
<1>4. CASE isOpen' = TRUE /\ fd' = "open" /\ faulted' = FALSE /\ device' = LidarRate(settings, flags)
  <2>1. /\ device' \in PortDevice /\ ~device'.spd /\ RateAgrees("lidar", settings, device')
        /\ device'.bits = flags.bits /\ device'.parity = flags.parity /\ device'.cstopb = flags.cstopb
        /\ device'.flow = flags.flow
    BY <1>1, <1>2, <1>3, <1>4, LidarRateAgrees
  <2>2. Agree(lib, settings, device)'
    BY <1>1, <1>3, <2>1 DEF SameLib, Agree, StopAgrees, ParityAgrees, RateAgrees, RateOf
  <2> QED
    BY <1>1, <1>4, <2>1, <2>2 DEF PortInv, SameLib, DescriptorsKept
<1>5. CASE isOpen' = FALSE /\ fd' = "none" /\ faulted' = TRUE /\ device' \in {device, flags}
  BY <1>1, <1>2, <1>3, <1>5 DEF PortInv, SameLib, DescriptorsKept
<1> QED
  BY <1>4, <1>5 DEF LidarOpen, flags, raw

Fields == {"bytesize", "parity", "stopbits", "flow", "baud"}

\* s differs from the settings in one of them only.
OnlyChanges(which, s) ==
  /\ which # "bytesize" => s.bytesize = settings.bytesize
  /\ which # "parity"   => s.parity = settings.parity
  /\ which # "stopbits" => s.stopbits = settings.stopbits
  /\ which # "flow"     => s.flow = settings.flow
  /\ which # "baud"     => s.baud = settings.baud

\* Device e, made of d, has one of the settings s written.
OneWritten(which, s, d, e) ==
  /\ e \in PortDevice /\ e.spd = d.spd /\ e.rate = d.rate
  /\ e.bits = s.bytesize \/ (which # "bytesize" /\ e.bits = d.bits)
  /\ ParityAgrees(s, e) \/ (which # "parity" /\ e.parity = d.parity)
  /\ StopAgrees(s, e) \/ (which # "stopbits" /\ e.cstopb = d.cstopb)
  /\ e.flow = s.flow \/ (which # "flow" /\ e.flow = d.flow)

LEMMA LidarFlagWritten ==
  ASSUME NEW s \in Settings, NEW d \in PortDevice, NEW which, NEW e, e = LidarFlags({which}, s, d)
  PROVE  OneWritten(which, s, d, e)
<1> DEFINE W == {which}
<1>1. "bytesize" \notin W => which # "bytesize"
  OBVIOUS
<1>2. "parity" \notin W => which # "parity"
  OBVIOUS
<1>3. "stopbits" \notin W => which # "stopbits"
  OBVIOUS
<1>4. "flow" \notin W => which # "flow"
  OBVIOUS
<1>5. e = LidarFlags(W, s, d)
  OBVIOUS
<1> HIDE DEF W
<1>6. /\ e \in PortDevice /\ e.spd = d.spd /\ e.rate = d.rate
      /\ e.bits = s.bytesize \/ ("bytesize" \notin W /\ e.bits = d.bits)
      /\ ParityAgrees(s, e) \/ ("parity" \notin W /\ e.parity = d.parity)
      /\ StopAgrees(s, e) \/ ("stopbits" \notin W /\ e.cstopb = d.cstopb)
      /\ e.flow = s.flow \/ ("flow" \notin W /\ e.flow = d.flow)
  BY <1>5, LidarFlagsWrite
<1> QED
  BY <1>1, <1>2, <1>3, <1>4, <1>6 DEF OneWritten

LEMMA LidarSetInv ==
  ASSUME PortInv, NEW which \in Fields \ {"baud"}, NEW s \in Settings, OnlyChanges(which, s),
         LidarSet(which, s)
  PROVE  PortInv'
<1> DEFINE flags == LidarFlags({which}, s, device)
<1>1. /\ lib = "lidar" /\ SameLib /\ settings' = s /\ UNCHANGED <<isOpen, fd, leaked>> /\ isOpen
      /\ settings \in Settings /\ device \in PortDevice /\ ~device.spd
  BY DEF PortInv, LidarSet, SameLib, DescriptorsKept
<1>2. OneWritten(which, s, device, flags)
  <2> HIDE DEF flags
  <2>1. device \in PortDevice
    BY <1>1
  <2>2. flags = LidarFlags({which}, s, device)
    BY DEF flags
  <2> QED
    BY ONLY s \in Settings, <2>1, <2>2, LidarFlagWritten
<1> HIDE DEF flags
<1>3. CASE device' = flags /\ UNCHANGED faulted
  <2>1. ASSUME ~faulted PROVE Agree("lidar", s, flags)
    <3>1. Agree("lidar", settings, device)
      BY <1>1, <2>1 DEF PortInv
    <3>2. flags.bits = s.bytesize /\ flags.flow = s.flow
      BY <1>2, <3>1 DEF OneWritten, Agree, OnlyChanges
    <3>3. StopAgrees(s, flags)
      BY <1>2, <3>1 DEF OneWritten, Agree, OnlyChanges, StopAgrees
    <3>4. ParityAgrees(s, flags)
      BY <1>2, <3>1 DEF OneWritten, Agree, OnlyChanges, ParityAgrees
    <3>5. RateAgrees("lidar", s, flags)
      <4>1. s.baud = settings.baud
        BY DEF OnlyChanges
      <4> QED
        BY <1>1, <1>2, <3>1, <4>1 DEF OneWritten, Agree, RateAgrees, RateOf
    <3> QED
      BY <3>2, <3>3, <3>4, <3>5 DEF Agree
  <2>2. ~faulted => Agree(lib, settings, device)'
    BY <1>1, <1>3, <2>1 DEF SameLib, Agree, StopAgrees, ParityAgrees, RateAgrees, RateOf
  <2> QED
    BY <1>1, <1>2, <1>3, <2>2 DEF OneWritten, PortInv, SameLib, DescriptorsKept
<1>4. CASE faulted' = TRUE /\ UNCHANGED device
  BY <1>1, <1>4 DEF PortInv, SameLib, DescriptorsKept
<1> QED
  BY <1>3, <1>4 DEF LidarSet, flags

LEMMA LidarSetBaudrateInv ==
  ASSUME PortInv, NEW s \in Settings, OnlyChanges("baud", s), LidarSetBaudrate(s)
  PROVE  PortInv'
<1>1. /\ lib = "lidar" /\ SameLib /\ settings' = s /\ UNCHANGED <<isOpen, fd, leaked>> /\ isOpen
      /\ settings \in Settings /\ device \in PortDevice /\ ~device.spd
  BY DEF PortInv, LidarSetBaudrate, SameLib, DescriptorsKept
<1>2. CASE device' = LidarRate(s, device) /\ UNCHANGED faulted
  <2>1. /\ device' \in PortDevice /\ ~device'.spd /\ RateAgrees("lidar", s, device')
        /\ device'.bits = device.bits /\ device'.parity = device.parity /\ device'.cstopb = device.cstopb
        /\ device'.flow = device.flow
    BY <1>1, <1>2, LidarRateAgrees
  <2>2. ~faulted => Agree("lidar", s, device')
    <3> SUFFICES ASSUME ~faulted PROVE Agree("lidar", s, device')
      OBVIOUS
    <3>1. Agree("lidar", settings, device)
      BY <1>1 DEF PortInv
    <3>2. device'.bits = s.bytesize /\ device'.flow = s.flow
      BY <2>1, <3>1 DEF Agree, OnlyChanges
    <3>3. StopAgrees(s, device')
      BY <2>1, <3>1 DEF Agree, OnlyChanges, StopAgrees
    <3>4. ParityAgrees(s, device')
      BY <2>1, <3>1 DEF Agree, OnlyChanges, ParityAgrees
    <3> QED
      BY <2>1, <3>2, <3>3, <3>4 DEF Agree
  <2>3. ~faulted => Agree(lib, settings, device)'
    BY <1>1, <2>2 DEF SameLib, Agree, StopAgrees, ParityAgrees, RateAgrees, RateOf
  <2> QED
    BY <1>1, <1>2, <2>1, <2>3 DEF PortInv, SameLib, DescriptorsKept
<1>3. CASE faulted' = TRUE /\ UNCHANGED device
  BY <1>1, <1>3 DEF PortInv, SameLib, DescriptorsKept
<1> QED
  BY <1>2, <1>3 DEF LidarSetBaudrate

-----------------------------------------------------------------------------
LEMMA CloseInv ==
  ASSUME PortInv, SerialClose \/ WindowsClose \/ LidarClose \/ UNCHANGED settingsVars
  PROVE  PortInv'
<1>1. CASE SerialClose \/ WindowsClose
  BY <1>1 DEF PortInv, SerialClose, WindowsClose, DescriptorsKept
<1>2. CASE LidarClose
  BY <1>2 DEF PortInv, LidarClose, DescriptorsKept
<1>3. CASE UNCHANGED settingsVars
  BY <1>3 DEF PortInv, settingsVars, DescriptorsKept, Agree, StopAgrees, ParityAgrees, RateAgrees, RateOf
<1> QED
  BY <1>1, <1>2, <1>3

LEMMA SetInv ==
  ASSUME PortInv, NEW which \in Fields, NEW s \in Settings, OnlyChanges(which, s), Set(which, s)
  PROVE  PortInv'
BY SerialSetInv, WindowsSetInv, LidarSetInv, LidarSetBaudrateInv DEF Set

LEMMA PortInvNext == PortInv /\ [SettingsNext]_settingsVars => PortInv'
<1> SUFFICES ASSUME PortInv, [SettingsNext]_settingsVars PROVE PortInv'
  OBVIOUS
<1>1. settings \in Settings
  BY DEF PortInv
<1>2. ASSUME NEW v \in Bytesizes, Set("bytesize", [settings EXCEPT !.bytesize = v]) PROVE PortInv'
  <2>1. [settings EXCEPT !.bytesize = v] \in Settings /\ OnlyChanges("bytesize", [settings EXCEPT !.bytesize = v])
    BY <1>1 DEF Settings, OnlyChanges
  <2> QED
    BY <1>2, <2>1, SetInv DEF Fields
<1>3. ASSUME NEW v \in Parities, Set("parity", [settings EXCEPT !.parity = v]) PROVE PortInv'
  <2>1. [settings EXCEPT !.parity = v] \in Settings /\ OnlyChanges("parity", [settings EXCEPT !.parity = v])
    BY <1>1 DEF Settings, OnlyChanges
  <2> QED
    BY <1>3, <2>1, SetInv DEF Fields
<1>4. ASSUME NEW v \in Stopbits, Set("stopbits", [settings EXCEPT !.stopbits = v]) PROVE PortInv'
  <2>1. [settings EXCEPT !.stopbits = v] \in Settings /\ OnlyChanges("stopbits", [settings EXCEPT !.stopbits = v])
    BY <1>1 DEF Settings, OnlyChanges
  <2> QED
    BY <1>4, <2>1, SetInv DEF Fields
<1>5. ASSUME NEW v \in Flows, Set("flow", [settings EXCEPT !.flow = v]) PROVE PortInv'
  <2>1. [settings EXCEPT !.flow = v] \in Settings /\ OnlyChanges("flow", [settings EXCEPT !.flow = v])
    BY <1>1 DEF Settings, OnlyChanges
  <2> QED
    BY <1>5, <2>1, SetInv DEF Fields
<1>6. ASSUME NEW v \in Bauds, Set("baud", [settings EXCEPT !.baud = v]) PROVE PortInv'
  <2>1. [settings EXCEPT !.baud = v] \in Settings /\ OnlyChanges("baud", [settings EXCEPT !.baud = v])
    BY <1>1 DEF Settings, OnlyChanges
  <2> QED
    BY <1>6, <2>1, SetInv DEF Fields
<1> QED
  BY <1>2, <1>3, <1>4, <1>5, <1>6, SerialOpenInv, WindowsOpenInv, LidarOpenInv, CloseInv DEF SettingsNext

LEMMA AlwaysPortInv == SettingsSpec => []PortInv
<1>1. SettingsInit => PortInv
  <2> SUFFICES ASSUME SettingsInit PROVE PortInv
    OBVIOUS
  <2>1. settings \in Settings
    BY DEF SettingsInit, Settings
  <2>2. device \in PortDevice /\ ~device.spd
    <3>1. 8 \in Bits /\ {} \in SUBSET Flags /\ "none" \in Flow /\ 9600 \in Rates
      BY DEF Bits, Flow, Rates
    <3>2. device = [bits |-> 8, parity |-> {}, cstopb |-> FALSE, flow |-> "none", rate |-> 9600, spd |-> FALSE]
      BY DEF SettingsInit
    <3> QED
      BY <3>1, <3>2 DEF PortDevice
  <2>3. isOpen = FALSE /\ faulted = FALSE /\ fd = "none" /\ leaked = 0 /\ lib \in {"serial", "windows", "lidar"}
    BY DEF SettingsInit
  <2> QED
    BY <2>1, <2>2, <2>3 DEF PortInv, DescriptorsKept
<1> QED
  BY <1>1, PortInvNext, PTL DEF SettingsSpec

\* In an open port whose system calls succeeded, the settings that the library reports are in
\* force at the device, with the exceptions named, after any sequence of changes, closes and
\* opens.
THEOREM ReportedIsInForce == SettingsSpec => []SettingsInForce
<1>1. PortInv => SettingsInForce
  <2> SUFFICES ASSUME PortInv, isOpen, ~faulted PROVE SettingsInForce
    BY DEF SettingsInForce
  <2>1. Agree(lib, settings, device)
    BY DEF PortInv
  <2>2. ParityInForce = settings.parity
        \/ (settings.parity \in {"even", "odd"} /\ "CMSPAR" \in device.parity)
    BY <2>1 DEF Agree, ParityAgrees, ParityInForce
  <2>3. \/ RateInForce = settings.baud
        \/ lib = "serial" /\ device.spd
        \/ lib = "lidar" /\ ~tty /\ settings.baud = CustomBaud
    BY <2>1 DEF Agree, RateAgrees, RateOf, RateInForce
  <2>4. settings.stopbits # "onehalf" => device.cstopb = (settings.stopbits = "two")
    BY <2>1 DEF Agree, StopAgrees
  <2> QED
    BY <2>1, <2>2, <2>3, <2>4 DEF Agree, SettingsInForce
<1> QED
  BY <1>1, AlwaysPortInv, PTL

\* An open port has its descriptor, and only the Serial library forgets one.
THEOREM DescriptorsAreKept == SettingsSpec => []DescriptorsKept
<1>1. PortInv => DescriptorsKept
  BY DEF PortInv
<1> QED
  BY <1>1, AlwaysPortInv, PTL

\* Whatever the libraries make of a device's flags, it is left with values the settings can have.
\* SettingsInit only holds where those of a new terminal, 8 bits and no flow control, are among them.
THEOREM SettingsAreTyped == SettingsSpec => []SettingsTypeOK
<1> DEFINE Descriptors == fd \in {"open", "closed", "none"} /\ leaked \in 0..1 /\ tty \in BOOLEAN
           Defaults    == 8 \in Bytesizes /\ "none" \in Flows
<1>1. SettingsInit => Descriptors /\ Defaults
  BY DEF SettingsInit, Settings
<1>2. Descriptors /\ [SettingsNext]_settingsVars => Descriptors'
  <2> SUFFICES ASSUME Descriptors, [SettingsNext]_settingsVars PROVE Descriptors'
    OBVIOUS
  <2>1. CASE SerialOpen \/ SerialClose
    BY <2>1 DEF SerialOpen, SerialClose
  <2>2. CASE WindowsOpen \/ WindowsClose
    BY <2>2 DEF WindowsOpen, WindowsClose, WindowsFails
  <2>3. CASE LidarOpen \/ LidarClose
    BY <2>3 DEF LidarOpen, LidarClose
  <2>4. ASSUME NEW which, NEW s, Set(which, s)
        PROVE  Descriptors'
    BY <2>4 DEF Set, SerialSet, WindowsSet, WindowsFails, LidarSet, LidarSetBaudrate
  <2>5. CASE UNCHANGED settingsVars
    BY <2>5 DEF settingsVars
  <2> HIDE DEF Descriptors
  <2> QED
    BY <2>1, <2>2, <2>3, <2>4, <2>5, Zenon DEF SettingsNext
<1>3. PortInv /\ Descriptors /\ Defaults => SettingsTypeOK
  <2> SUFFICES ASSUME PortInv, Descriptors, Defaults PROVE device \in Device
    BY DEF PortInv, SettingsTypeOK
  <2>1. Bits = Bytesizes /\ Flow = Flows /\ Rates = Bauds
    BY ValuesAssumption DEF Bits, Flow, Rates
  <2> QED
    BY <2>1 DEF PortInv, PortDevice, Device, Flags
<1>4. Defaults /\ [SettingsNext]_settingsVars => Defaults'
  OBVIOUS
<1> QED
  BY <1>1, <1>2, <1>3, <1>4, AlwaysPortInv, PTL DEF SettingsSpec
=============================================================================
