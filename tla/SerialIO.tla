------------------------------ MODULE SerialIO ------------------------------
(***************************************************************************)
(* Calls of a serial library by several threads: read, readline and        *)
(* readlines under the read mutex, write under the write mutex, flush and  *)
(* setPort under both, the control lines, open and close under none.       *)
(* Serial's read and write loop over select until everything is            *)
(* transferred or their total time is up; on Windows they are one call     *)
(* that the system times; those of the lidar SDK's library, which descends *)
(* from Serial, are one call that never waits.                             *)
(*                                                                         *)
(* Bytes are counted; of a line's bytes only those of the two-byte         *)
(* end-of-line mark differ. Time is what is left of it: a tick shortens    *)
(* every call's total time and every wait. A thread may be late at any     *)
(* step.                                                                   *)
(***************************************************************************)
EXTENDS SerialPort, Integers

CONSTANTS Threads,
          Sizes,     \* bytes asked for by a read or write
          LineSizes, \* and by a readline or readlines
          Total,     \* total time-out of a call
          InterByte  \* inter_byte_timeout
\* A line's buffer must have room for the mark: see LineFits.
ASSUME SizeAssumption == Sizes \subseteq Nat \ {0} /\ \A n \in LineSizes : n \in Nat /\ n >= 2
ASSUME ThreadsAssumption == "free" \notin Threads
ASSUME TimeAssumption == Total \in Nat /\ InterByte \in Nat /\ InterByte <= Total

VARIABLES
  readMutex, writeMutex, \* the threads that hold them, or "free"
  call,    \* each thread's call in progress
  short,   \* history: a transfer ended early and normally, in time left
  cut,     \* history: the threads under whose transfer close() was called
  over     \* the port object was deleted, or undefined behaviour ended the process

state == <<isOpen, readMutex, writeMutex, call, short>>
vars  == <<lib, cut, over, state>>

Late == -1               \* some time after the deadline
Long == Total + 1        \* 2^32 - 1 ms and less: a negative time as uint32_t

\* A call there has tested is_open_ and works with the port.
Using == {"loop", "select", "once", "file", "drain"}

Idle == [op |-> "none", at |-> "idle", size |-> 0, done |-> 0, left |-> 0, wait |-> 0, first |-> FALSE,
         mark |-> FALSE, failed |-> FALSE]

TypeOK ==
  /\ lib \in {"serial", "windows", "lidar"} /\ {isOpen, short, over} \subseteq BOOLEAN /\ cut \subseteq Threads
  /\ {readMutex, writeMutex} \subseteq Threads \cup {"free"}
  /\ \A t \in Threads : call[t].left \in Late..Total /\ call[t].wait \in 0..Long /\ call[t].done \in Nat \cup {-1}

Init ==
  /\ lib \in {"serial", "windows", "lidar"} /\ isOpen \in BOOLEAN /\ readMutex = "free" /\ writeMutex = "free"
  /\ call = [t \in Threads |-> Idle]
  /\ short = FALSE /\ cut = {} /\ over = FALSE

-----------------------------------------------------------------------------
(* The beginning and the end of a call: scoped locks.                       *)

Stay == UNCHANGED <<isOpen, readMutex, writeMutex, short>>

FirstLock(op) == CASE op \in {"write", "flushOutput"} -> "lockWrite"
                   [] op \in {"setLine", "getLine"}   -> "enter"
                   [] op \in {"change", "open", "close"} -> op
                   [] OTHER                           -> "lockRead"

Begin(t, op, n) ==
  /\ call[t] = Idle
  /\ call' = [call EXCEPT ![t] = [Idle EXCEPT !.op = op, !.size = n, !.at = FirstLock(op)]]
  /\ Stay

Goto(t, place) == call' = [call EXCEPT ![t].at = place]

LockRead(t) ==
  /\ call[t].at = "lockRead" /\ readMutex = "free"
  /\ readMutex' = t
  /\ Goto(t, IF call[t].op \in {"flush", "setPort"} THEN "lockWrite" ELSE "enter")
  /\ UNCHANGED <<isOpen, writeMutex, short>>

\* Mutant: setPort does without the write mutex.
LockNothing(t) ==
  /\ call[t].at = "lockWrite"
  /\ writeMutex = "free" \/ call[t].op = "setPort"
  /\ writeMutex' = IF call[t].op = "setPort" THEN writeMutex ELSE t
  /\ Goto(t, "enter")
  /\ UNCHANGED <<isOpen, readMutex, short>>

LockWrite(t) ==
  /\ call[t].at = "lockWrite" /\ writeMutex = "free"
  /\ writeMutex' = t /\ Goto(t, "enter")
  /\ UNCHANGED <<isOpen, readMutex, short>>

\* Returning and throwing release the locks alike.
End(t) ==
  /\ call' = [call EXCEPT ![t] = Idle]
  /\ readMutex' = IF readMutex = t THEN "free" ELSE readMutex
  /\ writeMutex' = IF writeMutex = t THEN "free" ELSE writeMutex

Throw(t) == End(t) /\ UNCHANGED <<isOpen, short>>

\* A closed port throws (in the lidar's library: returns), an open one is used.
IfOpen(t, place) ==
  \/ ~isOpen /\ Throw(t)
  \/ isOpen /\ Goto(t, place) /\ Stay

\* The system's wait for the next byte is over, as Windows times it.
PauseOver(t) == lib = "windows" /\ call[t].op = "read" /\ call[t].done > 0 /\ call[t].wait = 0

\* A transfer returns, with all its bytes or fewer.
Finish(t) ==
  /\ End(t)
  /\ short' = (short \/ (call[t].done < call[t].size /\ call[t].left > 0 /\ ~PauseOver(t)))
  /\ UNCHANGED isOpen

-----------------------------------------------------------------------------
(* read and write.                                                          *)

\* A closed port throws. The total time begins, and what has arrived is read at once.
Enter(t) ==
  /\ lib = "serial"
  /\ call[t].at = "enter" /\ call[t].op \in {"read", "write", "line", "lines"}
  /\ \/ ~isOpen /\ Throw(t)
     \/ /\ isOpen
        /\ call' = [call EXCEPT ![t].at = "loop", ![t].left = Total, ![t].first = TRUE]
        /\ Stay
     \/ /\ isOpen /\ call[t].op = "read"
        /\ \E k \in 1..call[t].size :
             call' = [call EXCEPT ![t].at = "loop", ![t].left = Total, ![t].done = k]
        /\ Stay

\* The lidar's library: a closed port transfers nothing, an open one is read or written once.
EnterLidar(t) ==
  /\ lib = "lidar" /\ call[t].at = "enter" /\ call[t].op \in {"read", "write"}
  /\ IfOpen(t, "once")

\* What is there, or fits, counts, whatever time is left; and -1 counts as a length.
TransferOnce(t) ==
  /\ lib = "lidar" /\ call[t].at = "once" /\ End(t)
  /\ \/ UNCHANGED short
     \/ \E k \in 0..call[t].size : short' = (short \/ k < call[t].size)
  /\ UNCHANGED isOpen

\* On Windows: a closed port throws, an open one is handed to the system.
EnterWindows(t) ==
  /\ lib = "windows" /\ call[t].at = "enter" /\ call[t].op \in {"read", "write", "line", "lines"}
  /\ \/ ~isOpen /\ Throw(t)
     \/ isOpen /\ call' = [call EXCEPT ![t].at = "file", ![t].left = Total] /\ Stay

\* ReadFile and WriteFile: bytes are transferred, and the wait for the next one begins ...
FileTransfers(t) ==
  /\ call[t].at = "file" /\ call[t].op \in {"read", "write"}
  /\ \E k \in 1..(call[t].size - call[t].done) :
       call' = [call EXCEPT ![t].done = @ + k, ![t].wait = InterByte]
  /\ Stay

\* ... until all are, the total time or, in a read, that between two bytes is up.
FileEnds(t) ==
  /\ call[t].at = "file"
  /\ \/ call[t].done = call[t].size \/ call[t].left <= 0
     \/ PauseOver(t)
  /\ Finish(t)

FileFails(t) == call[t].at = "file" /\ Throw(t)


\* A read that got all it wants, or whose time is up, returns; or it waits, for the time
\* between two bytes at most.
ReadLoop(t) ==
  /\ call[t].at = "loop" /\ call[t].op = "read"
  /\ \/ (call[t].done = call[t].size \/ call[t].left <= 0) /\ Finish(t)
     \/ /\ call[t].done < call[t].size /\ call[t].left > 0
        /\ call' = [call EXCEPT ![t].at = "select", ![t].wait = IF call[t].left < InterByte THEN call[t].left ELSE InterByte]
        /\ Stay

\* A write may time out only from its second iteration; a wait of a negative time is as
\* good as one for ever.
WriteLoop(t) ==
  /\ call[t].at = "loop" /\ call[t].op = "write"
  /\ \/ call[t].done = call[t].size /\ Finish(t)
     \/ call[t].done < call[t].size /\ ~call[t].first /\ call[t].left <= 0 /\ Finish(t)
     \/ /\ call[t].done < call[t].size /\ (call[t].first \/ call[t].left > 0)
        /\ call' = [call EXCEPT ![t].at = "select", ![t].first = FALSE,
                                ![t].wait = IF call[t].left < 0 THEN Long ELSE call[t].left]
        /\ Stay

\* select reports the port ready: some bytes are transferred, or none, which is an exception.
Transfer(t) ==
  /\ call[t].at = "select"
  /\ \/ /\ call[t].op \in {"read", "write"}
        /\ \E k \in 1..(call[t].size - call[t].done) :
             call' = [call EXCEPT ![t].at = "loop", ![t].done = @ + k, ![t].wait = 0]
        /\ Stay
     \/ Throw(t)

Interrupted(t) == /\ call[t].at = "select"
                  /\ call' = [call EXCEPT ![t].at = "loop", ![t].wait = 0]
                  /\ Stay

\* Mutant: the time between two bytes ends a read.
InterByteEnds(t) == call[t].at = "select" /\ call[t].wait = 0 /\ call[t].op \in {"read", "write"} /\ Finish(t)

\* select times out: the end of a write, but not of a read.
SelectTimesOut(t) ==
  /\ call[t].at = "select" /\ call[t].wait = 0
  /\ \/ call[t].op = "write" /\ Finish(t)
     \/ /\ call[t].op # "write" /\ Goto(t, "loop")
        /\ Stay

-----------------------------------------------------------------------------
(* readline and readlines: a read of one byte after the other, each with    *)
(* the whole time-out.                                                      *)

\* The next byte, or its time is up, which is the end of the line.
LineLoop(t) ==
  /\ lib = "serial" /\ call[t].at = "loop" /\ call[t].op \in {"line", "lines"}
  /\ \/ call[t].left <= 0 /\ End(t) /\ UNCHANGED <<isOpen, short>>
     \/ /\ call[t].left > 0
        /\ call' = [call EXCEPT ![t].at = "select", ![t].wait = IF call[t].left < InterByte THEN call[t].left ELSE InterByte]
        /\ Stay

\* Mutant: the size is tested before the byte is counted.
WasFull(t) == call[t].done = call[t].size

\* The byte that was just read is the last that fits.
IsFull(t) == call[t].done + 1 = call[t].size

ByteComes(t) ==
  /\ call[t].op \in {"line", "lines"}
  /\ \/ lib = "serial" /\ call[t].at = "select"
     \/ lib = "windows" /\ call[t].at = "file"
     \/ lib = "lidar" /\ call[t].at \in {"enter", "loop"} /\ isOpen

\* A byte, which is the first of the mark, the second after the first, or another one. The
\* Serial library does not test the size while fewer bytes were read than the mark has, and
\* the lidar's takes what lies before the buffer for a part of the mark.
LineByte(t) ==
  /\ ByteComes(t)
  /\ \E mark \in BOOLEAN, eol \in IF call[t].done < 1 THEN {FALSE, lib = "lidar"} ELSE {FALSE, call[t].mark} :
       IF /\ lib = "lidar" \/ call[t].done >= 1
          /\ IsFull(t) \/ (eol /\ call[t].op = "line")
       THEN End(t) /\ UNCHANGED <<isOpen, short>>
       ELSE /\ call' = [call EXCEPT ![t].at = IF lib = "lidar" THEN "loop" ELSE "enter",
                                    ![t].done = @ + 1, ![t].wait = 0,
                                    ![t].left = Total, ![t].mark = mark]
            /\ Stay

\* The lidar's library reads a byte without waiting: none is the end, and so is a closed port.
LidarLineEnds(t) ==
  /\ lib = "lidar" /\ call[t].at \in {"enter", "loop"} /\ call[t].op \in {"line", "lines"}
  /\ End(t) /\ UNCHANGED <<isOpen, short>>

\* The -1 of a read that fails is added like a length: the next byte goes before the last one,
\* or before the buffer. A readlines that gets there ends, as its count is unsigned.
LidarLineFails(t) ==
  /\ lib = "lidar" /\ call[t].at \in {"enter", "loop"} /\ call[t].op \in {"line", "lines"} /\ isOpen
  /\ IF call[t].op = "lines" /\ call[t].done = 0
     THEN End(t) /\ UNCHANGED <<isOpen, short>>
     ELSE /\ \E mark \in BOOLEAN :
               call' = [call EXCEPT ![t].at = "loop", ![t].mark = mark, ![t].failed = TRUE,
                                    ![t].done = IF @ < 0 THEN @ ELSE @ - 1]
          /\ Stay

-----------------------------------------------------------------------------
(* The other calls: flush and setPort, under both locks; flushInput and     *)
(* flushOutput; the control lines.                                          *)

AtFlush(t) == call[t].at = "enter" /\ call[t].op \in {"flush", "flushInput", "flushOutput"}

Flush(t)        == lib = "serial"  /\ AtFlush(t) /\ IfOpen(t, "drain")
WindowsFlush(t) == lib = "windows" /\ AtFlush(t) /\ IfOpen(t, "drain")
LidarFlush(t)   == lib = "lidar"   /\ AtFlush(t) /\ IfOpen(t, "drain")

\* tcflush drops what it does not wait for.
Flushed(t) == call[t].at = "drain" /\ call[t].op # "flush" /\ Throw(t)

\* tcdrain waits until the port has sent everything, or fails.
Drained(t) == call[t].at = "drain" /\ call[t].op = "flush" /\ Throw(t)

\* setBreak, setRTS, setDTR test is_open_, and so do getCTS, getDSR, getRI and getCD. On Windows
\* sendBreak throws.
AtLine(t, op) == call[t].op = op /\ call[t].at = "enter"

SetLine(t)        == lib = "serial"  /\ AtLine(t, "setLine") /\ IfOpen(t, "ioctl")
GetLine(t)        == lib = "serial"  /\ AtLine(t, "getLine") /\ IfOpen(t, "ioctl")
WindowsSetLine(t) == lib = "windows" /\ AtLine(t, "setLine") /\ (IfOpen(t, "ioctl") \/ Throw(t))
WindowsGetLine(t) == lib = "windows" /\ AtLine(t, "getLine") /\ IfOpen(t, "ioctl")
LidarSetLine(t)   == lib = "lidar"   /\ AtLine(t, "setLine") /\ IfOpen(t, "ioctl")
LidarGetLine(t)   == lib = "lidar"   /\ AtLine(t, "getLine") /\ IfOpen(t, "ioctl")

\* Then the call to the descriptor, which setPort may have closed or replaced in between.
Ioctl(t) == call[t].at = "ioctl" /\ Throw(t)

\* waitForChange, with TIOCMIWAIT: whenever a line changes, or the wait fails.
LineChanges(t)      == lib = "serial" /\ call[t].at = "change" /\ Throw(t)
LidarLineChanges(t) == lib = "lidar"  /\ call[t].at = "change" /\ Throw(t)

\* On Windows a closed port throws.
WindowsChange(t)      == lib = "windows" /\ call[t].at = "change" /\ IfOpen(t, "event")
WindowsLineChanges(t) == call[t].at = "event" /\ Throw(t)

\* An open port is closed; if that throws, it stays open under its old name.
SetPort(t) ==
  /\ lib # "lidar" /\ call[t].at = "enter" /\ call[t].op = "setPort"
  /\ \/ isOpen /\ isOpen' = FALSE /\ Goto(t, "reopen") /\ UNCHANGED <<readMutex, writeMutex, short>>
     \/ Throw(t)

\* The lidar's library cannot fail to close it.
LidarSetPort(t) ==
  /\ lib = "lidar" /\ call[t].at = "enter" /\ call[t].op = "setPort"
  /\ \/ isOpen /\ isOpen' = FALSE /\ Goto(t, "reopen") /\ UNCHANGED <<readMutex, writeMutex, short>>
     \/ ~isOpen /\ Throw(t)

\* open throws if it is open (in the lidar's library: returns), and otherwise may fail.
OpenIt(t) == /\ isOpen' \in IF isOpen THEN {TRUE} ELSE BOOLEAN
             /\ End(t) /\ UNCHANGED short

\* ... and opened again under the new one, unless another thread did that; if that throws, it
\* stays closed.
Reopen(t) == call[t].at = "reopen" /\ OpenIt(t)

-----------------------------------------------------------------------------
(* open, close and the destructor take no mutex.                            *)

OpenPort(t) == call[t].at = "open" /\ OpenIt(t)

\* A close that throws leaves the port open; the lidar's does not throw.
CloseFails(t) == lib # "lidar" /\ call[t].at = "close" /\ isOpen /\ Throw(t)

ClosePort(t) == /\ call[t].at = "close"
                /\ isOpen' = FALSE /\ End(t) /\ UNCHANGED short

\* FD_SET with the descriptor of a closed port, -1, is undefined.
Undefined(t) == lib = "serial" /\ call[t].at = "select" /\ ~isOpen

\* The destructor closes the port and frees its mutexes; nothing is promised to who is still
\* in a call then.
Delete(t) == /\ call[t] = Idle /\ isOpen' = FALSE
             /\ UNCHANGED <<readMutex, writeMutex, call, short>>

-----------------------------------------------------------------------------
\* A millisecond passes.
Tick ==
  /\ call' = [t \in Threads |->
       [call[t] EXCEPT !.left = IF call[t].at \in {"loop", "select", "file"} /\ @ > Late THEN @ - 1 ELSE @,
                       !.wait = IF @ > 0 /\ @ < Long THEN @ - 1 ELSE @]]
  /\ Stay

\* What a thread does by itself, and what its port does to it.
Step(t) == LockRead(t) \/ LockWrite(t) \/ Enter(t) \/ ReadLoop(t) \/ WriteLoop(t) \/ SelectTimesOut(t)
           \/ LineLoop(t) \/ LidarLineEnds(t) \/ LidarLineFails(t) \/ EnterLidar(t) \/ TransferOnce(t)
           \/ EnterWindows(t) \/ FileEnds(t) \/ Flush(t) \/ WindowsFlush(t) \/ LidarFlush(t) \/ Flushed(t)
           \/ SetLine(t) \/ GetLine(t) \/ WindowsSetLine(t) \/ WindowsGetLine(t) \/ LidarSetLine(t)
           \/ LidarGetLine(t) \/ Ioctl(t) \/ WindowsChange(t) \/ SetPort(t) \/ LidarSetPort(t) \/ Reopen(t)
           \/ OpenPort(t) \/ CloseFails(t)
Port(t) == Transfer(t) \/ Interrupted(t) \/ FileTransfers(t) \/ FileFails(t) \/ LineByte(t)
           \/ Drained(t) \/ LineChanges(t) \/ LidarLineChanges(t) \/ WindowsLineChanges(t)

Call(t) ==
  \/ Step(t) \/ Port(t)
  \/ \E n \in Sizes : Begin(t, "read", n) \/ Begin(t, "write", n)
  \/ \E n \in LineSizes : Begin(t, "line", n) \/ Begin(t, "lines", n)
  \/ \E op \in {"flush", "flushInput", "flushOutput", "setPort", "setLine", "getLine", "change", "open", "close"} :
       Begin(t, op, 0)

Next ==
  /\ ~over /\ UNCHANGED lib
  /\ \/ /\ Tick \/ \E t \in Threads : Call(t)
        /\ cut' = {t \in cut : call'[t].at \in Using} /\ UNCHANGED over
     \/ /\ \E t \in Threads : ClosePort(t)
        /\ cut' = {t \in Threads : call[t].at \in Using} /\ UNCHANGED over
     \/ (\E t \in Threads : Delete(t)) /\ over' = TRUE /\ UNCHANGED cut
     \/ (\E t \in Threads : Undefined(t)) /\ over' = TRUE /\ UNCHANGED <<cut, state>>

Spec == Init /\ [][Next]_vars

\* Threads are scheduled and time passes; a mutex that is released again and again is got.
\* The port itself need not do anything.
FairSpec ==
  /\ Spec /\ WF_state(~over /\ Tick)
  /\ \A t \in Threads : /\ WF_state(~over /\ (Step(t) \/ ClosePort(t)))
                        /\ SF_state(~over /\ LockRead(t)) /\ SF_state(~over /\ LockWrite(t))

-----------------------------------------------------------------------------
(* Properties.                                                              *)

\* A transfer that tested is_open_ only loses its port to a close() of another thread, which
\* takes no mutex; never to a setPort, which closes the port as well. The control lines,
\* which take no mutex either, have no such promise.
OnlyCloseTakesPort == ~over => \A t \in Threads : call[t].at \in Using /\ ~isOpen => t \in cut

\* A transfer that returns with fewer bytes than asked for has used up its total time, or, on
\* Windows only, the time between two bytes of a read; in Serial a pause does not end a
\* read, although Serial.h (line 86) calls inter_byte_timeout the time between bytes to
\* time out on. The lidar's library returns what one system call takes or gives, without
\* waiting, although its header (oradar/serial.h, lines 253 to 268) names the same time-outs.
ShortTransfersAreLate == short => lib = "lidar"

\* readline and readlines never write outside their buffer, given that it has room for the
\* end-of-line mark; in the lidar's library, unless a read failed.
LineFits ==
  \A t \in Threads : ByteComes(t) => call[t].done < call[t].size /\ (call[t].done >= 0 \/ call[t].failed)

\* Held for ever by the port: a flush whose bytes the device does not take, a write whose first
\* wait began after its time was up, a line of the lidar's library whose reads fail.
Held(t) ==
  \/ call[t].at = "drain" /\ call[t].op = "flush"
  \/ call[t].wait = Long \/ call[t].failed

=============================================================================
