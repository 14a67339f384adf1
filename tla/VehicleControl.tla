---------------------------- MODULE VehicleControl ----------------------------
(***************************************************************************)
(* The command path of the car: every way in which a "#1:<speed>;;" or a   *)
(* "#2:<angle>;;" command reaches the motor controller on the serial port. *)
(*                                                                         *)
(* The contexts of execution are                                           *)
(*   "main"  the thread in Application::Run, which polls the serial port   *)
(*           (obstacle reports) and drives Autonomous::OnFixedUpdate;      *)
(*   "net"   the server's network thread, which runs the message handlers  *)
(*           registered by Application and Autonomous;                     *)
(*   "other" the lidar and video threads, which take neither mutex;         *)
(*   Handlers  the runs of Application::SignalHandler, one for each signal *)
(*           delivered. A handler runs on top of the context it interrupted *)
(*           until it returns.                                             *)
(*                                                                         *)
(* They share the write mutex of the serial port, the logger's mutex, the  *)
(* two flags called StartAutonomous (one in Application, one in Autonomous) *)
(* and m_IsRuning. Both mutexes are not recursive.                         *)
(***************************************************************************)
EXTENDS Integers

CONSTANTS OperatorValues,  \* speeds and angles an operator's client may send
          Messages,        \* ids of the messages clients send
          Handlers         \* the SIGINT/SIGTERM deliveries of a behaviour

Threads == {"main", "net", "other"}

ASSUME ValuesAssumption == OperatorValues \subseteq Int
ASSUME MessagesAssumption == Messages \subseteq {1, 2, 83, 87}
ASSUME HandlersAssumption == Handlers \cap (Threads \cup {"none", "free"}) = {}

Contexts == Threads \cup Handlers

\* Application accepts [-50, 50] for both speed and angle; Autonomous drives at
\* m_MaxSpeed. Values are the numbers printed in the command.
CommandLimit == 50
AutoSpeed == -12

\* A command on the wire: its kind, its value, and who decided to send it. The
\* autonomous steering value (the clamped PID output) is not told apart.
Command == [kind : {"speed", "steer"}, val : -CommandLimit..CommandLimit,
            by : {"operator", "auto", "obstacle", "shutdown"}]

\* Serial::flush takes the same write lock as a command and writes nothing; a
\* line of the log takes the logger's mutex.
FlushCall == [kind |-> "flush", val |-> 0, by |-> "nobody"]
LogCall == [kind |-> "log", val |-> 0, by |-> "nobody"]

VARIABLES
  pc,         \* where the main thread is in Application::Run
  call,       \* call[c]: the serial or log call context c is in, if any
  mutex,      \* holder of the serial port's write_mutex, or "free"
  logger,     \* holder of the logger's mutex (spdlog's stdout sink), or "free"
  port,       \* SerialCommunicationLayer::m_Serial: open, null, never assigned
              \* ("wild"), or closed and deleted
  appAuto,    \* Application::StartAutonomous (message 87)
  autoOn,     \* Autonomous::StartAutonomous  (message 83)
  alterate,   \* Autonomous::m_Alterate
  isRunning,  \* Application::m_IsRuning
  sigOn,      \* sigOn[h]: the context handler h runs on top of, or "none"
  sigPc,      \* sigPc[h]: where handler h is in WindowClose
  proc,       \* the process: running, terminated (uncaught exception), exited
  hist        \* history of the commands, for the properties only: autonomous
              \* ones written since "stop autonomous" and since m_IsRuning was
              \* cleared, the kind tried last

vars == <<pc, call, mutex, logger, port, appAuto, autoOn, alterate, isRunning,
          sigOn, sigPc, proc, hist>>

NoCall == [at |-> "none", cmd |-> FlushCall]
CallAt(at, cmd) == [at |-> at, cmd |-> cmd]

MainPcs == {"loop", "update", "obstacle", "flush", "interval", "autoCheck",
            "autoPid", "autoSend", "autoFlip", "teardown", "joinVideo", "delete",
            "exit", "joinLidar"}

Calls == [at : {"none", "open", "lock", "hold", "log", "logging"},
          cmd : Command \cup {FlushCall, LogCall}]

History == [lateStop : Nat, lateDown : Nat,
            lastAuto : {"none", "speed", "steer"}]

TypeOK ==
  /\ pc \in MainPcs
  /\ call \in [Contexts -> Calls]
  /\ mutex \in Contexts \cup {"free"}
  /\ logger \in Contexts \cup {"free"}
  /\ port \in {"open", "null", "wild", "deleted"}
  /\ appAuto \in BOOLEAN /\ autoOn \in BOOLEAN
  /\ alterate \in BOOLEAN /\ isRunning \in BOOLEAN
  /\ sigOn \in [Handlers -> Contexts \cup {"none"}]
  /\ sigPc \in [Handlers -> {"ready", "speed", "steer", "log", "clear", "done"}]
  /\ proc \in {"running", "terminated", "exited"}
  /\ hist \in History

\* The constructor has run: the serial port was opened; or m_Serial is null (no
\* serial device, or an exception); or the port was not among the devices found
\* and the early return left m_Serial uninitialised.
Init ==
  /\ pc = "loop"
  /\ call = [c \in Contexts |-> NoCall]
  /\ mutex = "free" /\ logger = "free"
  /\ port \in {"open", "null", "wild"}
  /\ appAuto = FALSE /\ autoOn = FALSE /\ alterate = FALSE
  /\ isRunning = TRUE
  /\ sigOn = [h \in Handlers |-> "none"] /\ sigPc = [h \in Handlers |-> "ready"]
  /\ proc = "running"
  /\ hist = [lateStop |-> 0, lateDown |-> 0, lastAuto |-> "none"]

flags == <<appAuto, autoOn>>
sigVars == <<sigOn, sigPc>>

\* A context can take a step: the process runs and no handler is on top of it.
Runnable(c) == proc = "running" /\ \A h \in Handlers : sigOn[h] # c

\* ... and it is not inside a serial or log call.
Ready(c) == Runnable(c) /\ call[c].at = "none"

-----------------------------------------------------------------------------
(* SerialCommunicationLayer::SendData and Serial::write, in any context.    *)

\* Entering SendData(data).
StartSend(c, cmd) == call' = [call EXCEPT ![c] = CallAt("open", cmd)]

\* if (m_Serial != nullptr && m_Serial->isOpen()): the command is dropped
\* silently otherwise. Through a dangling m_Serial the test may read "closed".
CheckOpen(c) ==
  /\ Runnable(c) /\ call[c].at = "open"
  /\ call' = IF port = "open" THEN [call EXCEPT ![c].at = "lock"]
                              ELSE [call EXCEPT ![c] = NoCall]
  /\ UNCHANGED <<pc, mutex, logger, port, flags, alterate, isRunning, sigVars, proc, hist>>

\* Undefined behaviour: any use of a dangling m_Serial may crash the process
\* instead (the other outcomes are those of the actions of this section).
Dangling == port \in {"wild", "deleted"}

TouchDangling(c) ==
  /\ Runnable(c) /\ Dangling
  /\ \/ call[c].at \in {"open", "lock", "hold"}
     \/ c = "main" /\ pc = "update"
  /\ proc' = "terminated"
  /\ UNCHANGED <<pc, call, mutex, logger, port, flags, alterate, isRunning, sigVars, hist>>

\* ScopedWriteLock: pthread_mutex_lock on a non-recursive mutex. The holder is a
\* context: a handler that interrupted the holder waits for it like any other.
AcquireWriteLock(c) ==
  /\ Runnable(c) /\ call[c].at = "lock"
  /\ mutex = "free"
  /\ mutex' = c
  /\ call' = [call EXCEPT ![c].at = "hold"]
  /\ UNCHANGED <<pc, logger, port, flags, alterate, isRunning, sigVars, proc, hist>>

\* The history of the commands that reached the controller.
Record(cmd) ==
  hist' = [hist EXCEPT
    !.lateStop = IF cmd.by = "auto" /\ ~autoOn THEN @ + 1 ELSE @,
    !.lateDown = IF cmd.by = "auto" /\ ~isRunning THEN @ + 1 ELSE @]

Unlock(c) == mutex' = "free" /\ call' = [call EXCEPT ![c] = NoCall]

\* Entering a log call.
StartLog(c) == call' = [call EXCEPT ![c] = CallAt("log", LogCall)]

\* The bytes of the command are out and the lock is released; SendData logs the
\* command before it returns.
WriteAll(c) ==
  /\ Runnable(c) /\ call[c].at = "hold" /\ call[c].cmd # FlushCall
  /\ mutex' = "free" /\ StartLog(c)
  /\ Record(call[c].cmd)
  /\ UNCHANGED <<pc, logger, port, flags, alterate, isRunning, sigVars, proc>>

\* The write timeout ran out before the last byte: write returns a short count,
\* which SendData ignores. The controller does not get the command.
WriteTimeout(c) ==
  /\ Runnable(c) /\ call[c].at = "hold" /\ call[c].cmd # FlushCall
  /\ mutex' = "free" /\ StartLog(c)
  /\ UNCHANGED <<pc, logger, port, flags, alterate, isRunning, sigVars, proc, hist>>

\* Mutant: a plain lock/unlock pair instead of ScopedWriteLock keeps the mutex
\* when write throws.
ThrowKeepsLock(c) ==
  /\ Runnable(c) /\ call[c].at = "hold" /\ call[c].cmd # FlushCall
  /\ call' = [call EXCEPT ![c] = NoCall]
  /\ proc' = IF c = "net" THEN proc ELSE "terminated"
  /\ UNCHANGED <<pc, mutex, logger, port, flags, alterate, isRunning, sigVars, hist>>

\* write throws SerialException (device gone). The network thread's handlers run
\* inside the try block of ServerLayer, which logs the exception; nothing catches
\* it in the other contexts.
WriteThrows(c) ==
  /\ Runnable(c) /\ call[c].at = "hold" /\ call[c].cmd # FlushCall
  /\ mutex' = "free"
  /\ \/ c = "net" /\ StartLog(c) /\ UNCHANGED proc
     \/ c # "net" /\ call' = [call EXCEPT ![c] = NoCall] /\ proc' = "terminated"
  /\ UNCHANGED <<pc, logger, port, flags, alterate, isRunning, sigVars, hist>>

\* Serial::flush: tcdrain under the read and the write lock. Only the main thread
\* takes the read lock.
Drain ==
  /\ Runnable("main") /\ call["main"].at = "hold" /\ call["main"].cmd = FlushCall
  /\ Unlock("main")
  /\ UNCHANGED <<pc, logger, port, flags, alterate, isRunning, sigVars, proc, hist>>

SerialStep(c) ==
  \/ CheckOpen(c) \/ TouchDangling(c) \/ AcquireWriteLock(c)
  \/ WriteAll(c) \/ WriteTimeout(c) \/ WriteThrows(c)

\* ATLOG_*: the line is written under the mutex of spdlog's stdout sink, like the
\* write mutex not recursive.
TakeLogger(c) ==
  /\ Runnable(c) /\ call[c].at = "log"
  /\ logger = "free"
  /\ logger' = c
  /\ call' = [call EXCEPT ![c].at = "logging"]
  /\ UNCHANGED <<pc, mutex, port, flags, alterate, isRunning, sigVars, proc, hist>>

LineLogged(c) ==
  /\ Runnable(c) /\ call[c].at = "logging"
  /\ logger' = "free"
  /\ call' = [call EXCEPT ![c] = NoCall]
  /\ UNCHANGED <<pc, mutex, port, flags, alterate, isRunning, sigVars, proc, hist>>

CallStep(c) == SerialStep(c) \/ TakeLogger(c) \/ LineLogged(c)

-----------------------------------------------------------------------------
(* The main thread: Application::Run and what it calls.                     *)

\* Mutant: while (true).
LoopForever ==
  /\ Ready("main") /\ pc = "loop"
  /\ pc' = "update"
  /\ UNCHANGED <<call, mutex, logger, port, flags, alterate, isRunning, sigVars, proc, hist>>

\* while (m_IsRuning)
LoopHead ==
  /\ Ready("main") /\ pc = "loop"
  /\ pc' = IF isRunning THEN "update" ELSE "teardown"
  /\ UNCHANGED <<call, mutex, logger, port, flags, alterate, isRunning, sigVars, proc, hist>>

\* SerialCommunicationLayer::OnUpdate: read() takes one character, which is logged.
\* '%' is the controller's obstacle report; any other only reaches the flush.
PollSerial ==
  /\ Ready("main") /\ pc = "update"
  /\ \/ pc' = "interval" /\ UNCHANGED call        \* closed, or nothing available
     \/ port = "open" /\ pc' \in {"obstacle", "flush"} /\ StartLog("main")
  /\ UNCHANGED <<mutex, logger, port, flags, alterate, isRunning, sigVars, proc, hist>>

\* available() or read() throws IOException: uncaught, std::terminate.
PollThrows ==
  /\ Ready("main") /\ pc = "update" /\ port = "open"
  /\ proc' = "terminated"
  /\ UNCHANGED <<pc, call, mutex, logger, port, flags, alterate, isRunning, sigVars, hist>>

\* The callback for '%': stop the car if Application believes it is autonomous,
\* warn otherwise. (The telemetry message 66 is the server's business.)
ObstacleReport ==
  /\ Ready("main") /\ pc = "obstacle"
  /\ \/ /\ appAuto
        /\ StartSend("main", [kind |-> "speed", val |-> 0, by |-> "obstacle"])
     \/ ~appAuto /\ StartLog("main")
  /\ pc' = "flush"
  /\ UNCHANGED <<mutex, logger, port, flags, alterate, isRunning, sigVars, proc, hist>>

FlushSerial ==
  /\ Ready("main") /\ pc = "flush"
  /\ call' = [call EXCEPT !["main"] = CallAt("lock", FlushCall)]
  /\ pc' = "interval"
  /\ UNCHANGED <<mutex, logger, port, flags, alterate, isRunning, sigVars, proc, hist>>

\* m_TimeSpan >= m_Interval decides whether the layers get OnFixedUpdate.
IntervalCheck ==
  /\ Ready("main") /\ pc = "interval"
  /\ pc' \in {"loop", "autoCheck"}
  /\ UNCHANGED <<call, mutex, logger, port, flags, alterate, isRunning, sigVars, proc, hist>>

\* Autonomous::OnFixedUpdate: if (StartAutonomous) ComputePid(), else only vision.
AutoCheck ==
  /\ Ready("main") /\ pc = "autoCheck"
  /\ pc' = IF autoOn THEN "autoPid" ELSE "loop"
  /\ UNCHANGED <<call, mutex, logger, port, flags, alterate, isRunning, sigVars, proc, hist>>

\* ComputePid tests StartAutonomous again, then the 25 ms command timer.
ComputePid ==
  /\ Ready("main") /\ pc = "autoPid"
  /\ pc' \in IF autoOn THEN {"loop", "autoSend"} ELSE {"loop"}
  /\ UNCHANGED <<call, mutex, logger, port, flags, alterate, isRunning, sigVars, proc, hist>>

\* Speed and steering alternate; steering goes first.
AutoCommand == IF alterate THEN [kind |-> "speed", val |-> AutoSpeed, by |-> "auto"]
                           ELSE [kind |-> "steer", val |-> 0, by |-> "auto"]

AutoSend ==
  /\ Ready("main") /\ pc = "autoSend"
  /\ StartSend("main", AutoCommand)
  /\ hist' = [hist EXCEPT !.lastAuto = AutoCommand.kind]
  /\ pc' = "autoFlip"
  /\ UNCHANGED <<mutex, logger, port, flags, alterate, isRunning, sigVars, proc>>

\* Mutant: both commands are sent in one go, the flag tested once.
SendBoth ==
  /\ Ready("main") /\ pc = "autoFlip"
  /\ alterate' = ~alterate
  /\ pc' = IF alterate THEN "loop" ELSE "autoSend"
  /\ UNCHANGED <<call, mutex, logger, port, flags, isRunning, sigVars, proc, hist>>

\* Mutant: m_Alterate flips only if the port took the command.
FlipIfOpen ==
  /\ Ready("main") /\ pc = "autoFlip"
  /\ alterate' = IF port = "open" THEN ~alterate ELSE alterate
  /\ pc' = "loop"
  /\ UNCHANGED <<call, mutex, logger, port, flags, isRunning, sigVars, proc, hist>>

\* m_Alterate is written when ComandCarSpeed/ComandCarSteering has returned,
\* whether or not the command reached the controller.
AutoFlip ==
  /\ Ready("main") /\ pc = "autoFlip"
  /\ alterate' = ~alterate
  /\ pc' = "loop"
  /\ UNCHANGED <<call, mutex, logger, port, flags, isRunning, sigVars, proc, hist>>

\* ~Application: the destructor of the server layer stops nothing, so the network
\* thread goes on. ~Frame joins the video thread, if the camera was ever opened.
Teardown ==
  /\ Ready("main") /\ pc = "teardown"
  /\ pc' \in {"joinVideo", "delete"}
  /\ UNCHANGED <<call, mutex, logger, port, flags, alterate, isRunning, sigVars, proc, hist>>

\* The video thread ends when the capture it is in has returned.
JoinVideo ==
  /\ Ready("main") /\ pc = "joinVideo"
  /\ pc' = "delete"
  /\ UNCHANGED <<call, mutex, logger, port, flags, alterate, isRunning, sigVars, proc, hist>>

\* The port is closed and deleted without taking its locks.
DeletePort ==
  /\ Ready("main") /\ pc = "delete"
  /\ port' = "deleted"
  /\ pc' = "exit"
  /\ UNCHANGED <<call, mutex, logger, flags, alterate, isRunning, sigVars, proc, hist>>

\* ~LayerStack deletes the three layers again, which may crash, and then the
\* lidar's, whose destructor joins the lidar thread.
LayersDeleted ==
  /\ Ready("main") /\ pc = "exit"
  /\ \/ proc' = "terminated" /\ UNCHANGED pc
     \/ pc' = "joinLidar" /\ UNCHANGED proc
  /\ UNCHANGED <<call, mutex, logger, port, flags, alterate, isRunning, sigVars, hist>>

\* The lidar's thread has ended (all its waits have time-outs); main() returns.
Exit ==
  /\ Ready("main") /\ pc = "joinLidar"
  /\ proc' = "exited"
  /\ UNCHANGED <<pc, call, mutex, logger, port, flags, alterate, isRunning, sigVars, hist>>

MainStep ==
  \/ LoopHead \/ PollSerial \/ PollThrows \/ ObstacleReport \/ FlushSerial
  \/ IntervalCheck \/ AutoCheck \/ ComputePid \/ AutoSend \/ AutoFlip
  \/ Teardown \/ DeletePort \/ LayersDeleted \/ Exit \/ Drain \/ CallStep("main")

-----------------------------------------------------------------------------
(* The network thread: the handlers of messages 1, 2, 83 and 87.            *)

InRange(v) == -CommandLimit <= v /\ v <= CommandLimit

\* Every message is logged, some more than once, before its handler acts.
NetLogs ==
  /\ Ready("net")
  /\ StartLog("net")
  /\ UNCHANGED <<pc, mutex, logger, port, flags, alterate, isRunning, sigVars, proc, hist>>

\* Messages 1 (speed) and 2 (angle): in range, the command is sent; out of range
\* it is logged and dropped.
OperatorCommand(kind, v) ==
  /\ Ready("net")
  /\ \/ InRange(v) /\ StartSend("net", [kind |-> kind, val |-> v, by |-> "operator"])
     \/ ~InRange(v) /\ StartLog("net")
  /\ UNCHANGED <<pc, mutex, logger, port, flags, alterate, isRunning, sigVars, proc, hist>>

\* Message 83, data 1 or 2 (anything else is logged): Autonomous::StartAutonomous.
SetAutonomous(on) ==
  /\ Ready("net")
  /\ autoOn' = on
  /\ hist' = [hist EXCEPT !.lateStop = IF on THEN 0 ELSE @]
  /\ UNCHANGED <<pc, call, mutex, logger, port, appAuto, alterate, isRunning, sigVars,
                 proc>>

\* Message 87, data 1 or 2: Application::StartAutonomous, another variable.
SetAppAutonomous(on) ==
  /\ Ready("net")
  /\ appAuto' = on
  /\ UNCHANGED <<pc, call, mutex, logger, port, autoOn, alterate, isRunning, sigVars,
                 proc, hist>>

NetStep ==
  \/ 1 \in Messages /\ \E v \in OperatorValues : OperatorCommand("speed", v)
  \/ 2 \in Messages /\ \E v \in OperatorValues : OperatorCommand("steer", v)
  \/ 83 \in Messages /\ \E on \in BOOLEAN : SetAutonomous(on)
  \/ 87 \in Messages /\ \E on \in BOOLEAN : SetAppAutonomous(on)
  \/ NetLogs \/ CallStep("net")

-----------------------------------------------------------------------------
(* SIGINT or SIGTERM: Application::SignalHandler on top of some context.    *)

\* What handler h runs on top of: a thread, and perhaps another handler.
Below(h) == {sigOn[h]} \cup (IF sigOn[h] \in Handlers THEN {sigOn[sigOn[h]]} ELSE {})

\* The handlers differ in nothing: the next delivery is any one of those left.
Fresh == CHOOSE h \in Handlers : sigPc[h] = "ready"

\* The kernel picks any thread. While a handler runs its signal is blocked in its
\* thread only: one more handler may run on top of it, for the other of the two
\* signals, and others on the other threads.
SignalArrives(h, c) ==
  /\ Runnable(c) /\ sigPc[h] = "ready" /\ h = Fresh
  /\ c \in Handlers => sigOn[c] \in Threads
  /\ sigOn' = [sigOn EXCEPT ![h] = c]
  /\ sigPc' = [sigPc EXCEPT ![h] = "speed"]
  /\ UNCHANGED <<pc, call, mutex, logger, port, flags, alterate, isRunning, proc, hist>>

\* WindowClose: stop the motor, centre the steering, log, clear m_IsRuning.
CloseSpeed(h) ==
  /\ Ready(h) /\ sigPc[h] = "speed"
  /\ StartSend(h, [kind |-> "speed", val |-> 0, by |-> "shutdown"])
  /\ sigPc' = [sigPc EXCEPT ![h] = "steer"]
  /\ UNCHANGED <<pc, mutex, logger, port, flags, alterate, isRunning, sigOn, proc, hist>>

\* Mutant: WindowClose gives up when the port is not open.
CloseGivesUp(h) ==
  /\ Ready(h) /\ sigPc[h] = "steer"
  /\ \/ /\ port = "open"
        /\ StartSend(h, [kind |-> "steer", val |-> 0, by |-> "shutdown"])
        /\ sigPc' = [sigPc EXCEPT ![h] = "log"] /\ UNCHANGED sigOn
     \/ /\ port # "open"
        /\ sigPc' = [sigPc EXCEPT ![h] = "done"] /\ sigOn' = [sigOn EXCEPT ![h] = "none"]
        /\ UNCHANGED call
  /\ UNCHANGED <<pc, mutex, logger, port, flags, alterate, isRunning, proc, hist>>

CloseSteer(h) ==
  /\ Ready(h) /\ sigPc[h] = "steer"
  /\ StartSend(h, [kind |-> "steer", val |-> 0, by |-> "shutdown"])
  /\ sigPc' = [sigPc EXCEPT ![h] = "log"]
  /\ UNCHANGED <<pc, mutex, logger, port, flags, alterate, isRunning, sigOn, proc, hist>>

CloseLog(h) ==
  /\ Ready(h) /\ sigPc[h] = "log"
  /\ StartLog(h)
  /\ sigPc' = [sigPc EXCEPT ![h] = "clear"]
  /\ UNCHANGED <<pc, mutex, logger, port, flags, alterate, isRunning, sigOn, proc, hist>>

CloseRunning(h) ==
  /\ Ready(h) /\ sigPc[h] = "clear"
  /\ isRunning' = FALSE
  /\ sigPc' = [sigPc EXCEPT ![h] = "done"] /\ sigOn' = [sigOn EXCEPT ![h] = "none"]
  /\ UNCHANGED <<pc, call, mutex, logger, port, flags, alterate, proc, hist>>

SigStep(h) == CloseSpeed(h) \/ CloseSteer(h) \/ CloseLog(h) \/ CloseRunning(h) \/ CallStep(h)

\* The process is gone.
Stopped == proc # "running" /\ UNCHANGED vars

Next == \/ MainStep \/ JoinVideo \/ NetStep
        \/ \E h \in Handlers : SigStep(h) \/ \E c \in Contexts : SignalArrives(h, c)
        \/ Stopped

Spec == Init /\ [][Next]_vars

\* Every runnable context is scheduled, and a context that waits for a mutex gets
\* it if it is released again and again: hence strong fairness. A serial write ends
\* (its select loop is bounded by the write timeout), and so does tcdrain: the port
\* is opened without flow control, so the bytes leave at the baud rate or the device
\* is gone. A capture of the video thread need not return: JoinVideo is not fair.
Fairness ==
  /\ SF_vars(MainStep)
  /\ SF_vars(CallStep("net"))
  /\ \A h \in Handlers : SF_vars(SigStep(h))

FairSpec == Spec /\ Fairness

-----------------------------------------------------------------------------
(* Properties.                                                              *)

\* Commands never interleave on the wire: whoever is inside Serial::write or
\* Serial::flush is the one holder of the write mutex, and a call that ends by an
\* exception, a timeout or a signal handler's return does not keep it.
WriteExclusive == \A c \in Contexts : mutex = c <=> call[c].at = "hold"

\* After "stop autonomous" (message 83, data 2) was handled, at most one command
\* of the autonomous driver still reaches the motor: the one the main thread had
\* decided on before (Autonomous::ComputePid tests the flag, then sends).
AtMostOneLateAuto == hist.lateStop <= 1

\* After WindowClose cleared m_IsRuning, at most one autonomous command follows:
\* Application::Run tests the flag only at the head of its loop.
AtMostOneAfterShutdown == hist.lateDown <= 1

\* Both: whatever switches the autonomous driver off, at most one of its commands
\* is on its way.
AutoStopsInTime == AtMostOneLateAuto /\ AtMostOneAfterShutdown

\* Autonomous::m_Alterate: the autonomous driver tries steering first and never
\* the same kind of command twice in a row, also when a command was dropped or
\* timed out, and when it was switched off and on again between two of them.
AutoAlternates ==
  [][(pc = "autoSend" /\ pc' = "autoFlip")
       => hist'.lastAuto # (IF hist.lastAuto = "none" THEN "speed" ELSE hist.lastAuto)]_vars

\* A handler that waits for a mutex one of the contexts below it holds waits for
\* ever: neither goes on before it returns.
WaitsForItself(h) ==
  \/ call[h].at = "lock" /\ mutex \in Below(h)
  \/ call[h].at = "log" /\ logger \in Below(h)

Hanging == \E h \in Handlers : WaitsForItself(h)

\* Until a handler waits for a context it interrupted, every call of SendData,
\* flush and the logger returns or the process ends: no lost unlock on a time-out
\* or an exception, no lock-order deadlock between threads and handlers.
SendDataReturns ==
  \A c \in {"main", "net"} :
    call[c].at # "none" ~> (call[c].at = "none" \/ proc # "running" \/ Hanging)

\* A signal stops the loop: WindowClose gets through its sends and its log line and
\* clears m_IsRuning, on whatever context and however many others run, unless a
\* handler interrupted the holder of the write mutex or of the logger's.
SafeSignalStops ==
  (\E h \in Handlers : sigOn[h] # "none") ~> (~isRunning \/ proc # "running" \/ Hanging)

\* Once m_IsRuning is clear the main thread leaves its loop and the process ends,
\* also when further signals arrive on the way, unless one of their handlers waits
\* for a context it interrupted or the capture of the camera does not return.
RunEnds ==
  ~isRunning ~> (proc # "running" \/ Hanging \/ pc = "joinVideo")
=============================================================================
