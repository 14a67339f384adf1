------------------------ MODULE VehicleControl_proofs ------------------------
(***************************************************************************)
(* Theorems about VehicleControl, for every set of operator values and of   *)
(* messages and every number of signals, nested or on several threads.     *)
(***************************************************************************)
EXTENDS VehicleControl, TLAPS

\* Recording a command, of whatever kind, keeps the history well-typed.
LEMMA RecordType ==
  ASSUME hist \in History, NEW cmd, Record(cmd)
  PROVE  hist' \in History
<1> DEFINE stop == IF cmd.by = "auto" /\ ~autoOn THEN hist.lateStop + 1 ELSE hist.lateStop
           down == IF cmd.by = "auto" /\ ~isRunning THEN hist.lateDown + 1 ELSE hist.lateDown
           h == [hist EXCEPT !.lateStop = stop, !.lateDown = down]
<1>1. stop \in Nat /\ down \in Nat
  BY DEF History
<1>2. h \in History
  <2> HIDE DEF stop, down
  <2> QED BY <1>1 DEF History
<1>3. hist' = h \/ hist' = hist
  BY Zenon DEF Record
<1> QED
  BY <1>2, <1>3

\* The sets the variables range over are preserved by every step of the serial
\* calls, whatever context makes them,
LEMMA SerialStepType ==
  ASSUME TypeOK, NEW c \in Contexts, SerialStep(c)
  PROVE  TypeOK'
<1> USE DEF Calls, NoCall, CallAt, FlushCall, LogCall, StartLog, flags, sigVars
<1>1. CASE CheckOpen(c)
  BY <1>1 DEF CheckOpen, TypeOK
<1>2. CASE TouchDangling(c)
  BY <1>2 DEF TouchDangling, TypeOK
<1>3. CASE AcquireWriteLock(c)
  BY <1>3 DEF AcquireWriteLock, TypeOK
<1>4. CASE WriteAll(c)
  <2>1. hist' \in History
    BY <1>4, RecordType DEF WriteAll, TypeOK
  <2> QED
    BY <1>4, <2>1 DEF WriteAll, TypeOK
<1>5. CASE WriteTimeout(c)
  BY <1>5 DEF WriteTimeout, TypeOK
<1>6. CASE WriteThrows(c)
  BY <1>6 DEF WriteThrows, TypeOK
<1> QED
  BY <1>1, <1>2, <1>3, <1>4, <1>5, <1>6 DEF SerialStep

\* ... and of the log calls,
LEMMA CallStepType ==
  ASSUME TypeOK, NEW c \in Contexts, CallStep(c)
  PROVE  TypeOK'
<1> USE DEF Calls, NoCall, FlushCall, LogCall, flags, sigVars
<1>1. CASE TakeLogger(c)
  BY <1>1 DEF TakeLogger, TypeOK
<1>2. CASE LineLogged(c)
  BY <1>2 DEF LineLogged, TypeOK
<1> QED
  BY <1>1, <1>2, SerialStepType DEF CallStep

\* ... by entering a call,
LEMMA CallEntered ==
  ASSUME TypeOK, NEW c \in Contexts, NEW at \in {"open", "lock", "log"},
         NEW cmd \in Command \cup {FlushCall, LogCall},
         call' = [call EXCEPT ![c] = CallAt(at, cmd)]
  PROVE  call' \in [Contexts -> Calls]
BY DEF TypeOK, CallAt, Calls

LEMMA LogEntered ==
  ASSUME TypeOK, NEW c \in Contexts, StartLog(c)
  PROVE  call' \in [Contexts -> Calls]
BY CallEntered DEF StartLog

LEMMA SendEntered ==
  ASSUME TypeOK, NEW c \in Contexts, NEW cmd \in Command, StartSend(c, cmd)
  PROVE  call' \in [Contexts -> Calls]
BY CallEntered DEF StartSend

\* ... by the steps of the main thread outside such a call,
LEMMA MainStepType ==
  ASSUME TypeOK, MainStep \/ JoinVideo
  PROVE  TypeOK'
<1> USE DEF MainPcs, flags, sigVars
<1>0. "main" \in Contexts
  BY DEF Contexts, Threads
<1>1. CASE LoopHead
  BY <1>1 DEF LoopHead, TypeOK
<1>2. CASE PollSerial
  BY <1>0, <1>2, LogEntered DEF PollSerial, TypeOK
<1>3. CASE PollThrows
  BY <1>3 DEF PollThrows, TypeOK
<1>4. CASE ObstacleReport
  <2>1. [kind |-> "speed", val |-> 0, by |-> "obstacle"] \in Command
    BY DEF Command, CommandLimit
  <2>2. call' \in [Contexts -> Calls]
    BY <1>0, <1>4, <2>1, LogEntered, SendEntered DEF ObstacleReport
  <2> QED
    BY <1>4, <2>2 DEF ObstacleReport, TypeOK
<1>5. CASE FlushSerial
  <2>1. call' \in [Contexts -> Calls]
    BY <1>0, <1>5, CallEntered DEF FlushSerial
  <2> QED
    BY <1>5, <2>1 DEF FlushSerial, TypeOK
<1>6. CASE IntervalCheck
  BY <1>6 DEF IntervalCheck, TypeOK
<1>7. CASE AutoCheck
  BY <1>7 DEF AutoCheck, TypeOK
<1>8. CASE ComputePid
  BY <1>8 DEF ComputePid, TypeOK
<1>9. CASE AutoSend
  <2>1. AutoCommand \in Command /\ AutoCommand.kind \in {"speed", "steer"}
    BY DEF AutoCommand, Command, CommandLimit, AutoSpeed
  <2>2. hist' \in History
    BY <1>9, <2>1 DEF AutoSend, History, TypeOK
  <2>3. call' \in [Contexts -> Calls]
    BY <1>0, <1>9, <2>1, SendEntered DEF AutoSend
  <2> QED
    BY <1>9, <2>2, <2>3 DEF AutoSend, TypeOK
<1>10. CASE AutoFlip
  BY <1>10 DEF AutoFlip, TypeOK
<1>11. CASE Teardown \/ JoinVideo \/ DeletePort
  BY <1>11 DEF Teardown, JoinVideo, DeletePort, TypeOK
<1>12. CASE LayersDeleted \/ Exit
  BY <1>12 DEF LayersDeleted, Exit, TypeOK
<1>13. CASE Drain
  BY <1>0, <1>13 DEF Drain, Unlock, TypeOK, NoCall, Calls
<1>14. CASE CallStep("main")
  BY <1>0, <1>14, CallStepType
<1> QED
  BY <1>1, <1>2, <1>3, <1>4, <1>5, <1>6, <1>7, <1>8, <1>9, <1>10, <1>11, <1>12,
     <1>13, <1>14 DEF MainStep

\* ... by the message handlers on the network thread,
LEMMA NetStepType ==
  ASSUME TypeOK, NetStep
  PROVE  TypeOK'
<1> USE DEF flags, sigVars
<1>0. "net" \in Contexts
  BY DEF Contexts, Threads
<1>1. ASSUME NEW kind \in {"speed", "steer"}, NEW v \in OperatorValues,
             OperatorCommand(kind, v)
      PROVE  TypeOK'
  <2>1. InRange(v) => [kind |-> kind, val |-> v, by |-> "operator"] \in Command
    BY ValuesAssumption DEF InRange, Command, CommandLimit
  <2>2. call' \in [Contexts -> Calls]
    BY <1>0, <1>1, <2>1, LogEntered, SendEntered DEF OperatorCommand
  <2> QED
    BY <1>1, <2>2 DEF OperatorCommand, TypeOK
<1>2. ASSUME NEW on \in BOOLEAN, SetAutonomous(on)
      PROVE  TypeOK'
  <2>1. hist' \in History
    BY <1>2 DEF SetAutonomous, History, TypeOK
  <2> QED
    BY <1>2, <2>1 DEF SetAutonomous, TypeOK
<1>3. ASSUME NEW on \in BOOLEAN, SetAppAutonomous(on)
      PROVE  TypeOK'
  BY <1>3 DEF SetAppAutonomous, TypeOK
<1>4. CASE NetLogs
  BY <1>0, <1>4, LogEntered DEF NetLogs, TypeOK
<1>5. CASE CallStep("net")
  BY <1>0, <1>5, CallStepType
<1> QED
  BY <1>1, <1>2, <1>3, <1>4, <1>5 DEF NetStep

\* ... and by the signal handlers.
LEMMA SigStepType ==
  ASSUME TypeOK, NEW h \in Handlers, SigStep(h)
  PROVE  TypeOK'
<1> USE DEF flags, sigVars
<1>0. h \in Contexts
  BY DEF Contexts
<1>1. CASE CloseSpeed(h) \/ CloseSteer(h)
  <2>1. \A kind \in {"speed", "steer"} : [kind |-> kind, val |-> 0, by |-> "shutdown"] \in Command
    BY DEF Command, CommandLimit
  <2>2. call' \in [Contexts -> Calls]
    BY <1>0, <1>1, <2>1, SendEntered DEF CloseSpeed, CloseSteer
  <2> QED
    BY <1>1, <2>2 DEF CloseSpeed, CloseSteer, TypeOK
<1>2. CASE CloseLog(h)
  <2>1. call' \in [Contexts -> Calls]
    BY <1>0, <1>2, LogEntered DEF CloseLog
  <2> QED
    BY <1>2, <2>1 DEF CloseLog, TypeOK
<1>3. CASE CloseRunning(h)
  BY <1>3 DEF CloseRunning, TypeOK
<1>4. CASE CallStep(h)
  BY <1>0, <1>4, CallStepType
<1> QED
  BY <1>1, <1>2, <1>3, <1>4 DEF SigStep

\* A signal only starts a handler.
LEMMA SignalType ==
  ASSUME TypeOK, NEW h \in Handlers, NEW c \in Contexts, SignalArrives(h, c)
  PROVE  TypeOK'
BY DEF SignalArrives, TypeOK, flags

LEMMA NextType ==
  ASSUME TypeOK, [Next]_vars
  PROVE  TypeOK'
<1>1. CASE Stopped \/ UNCHANGED vars
  BY <1>1 DEF Stopped, TypeOK, vars
<1> QED
  BY <1>1, MainStepType, NetStepType, SigStepType, SignalType DEF Next

LEMMA InitType == Init => TypeOK
<1> SUFFICES ASSUME Init PROVE TypeOK
  OBVIOUS
<1>1. call \in [Contexts -> Calls]
  BY DEF Init, NoCall, Calls
<1>2. hist \in History
  BY DEF Init, History
<1>3. /\ sigOn \in [Handlers -> Contexts \cup {"none"}]
      /\ sigPc \in [Handlers -> {"ready", "speed", "steer", "log", "clear", "done"}]
  BY DEF Init
<1>4. /\ appAuto \in BOOLEAN /\ autoOn \in BOOLEAN
      /\ alterate \in BOOLEAN /\ isRunning \in BOOLEAN
  BY Zenon DEF Init
<1> QED
  BY <1>1, <1>2, <1>3, <1>4 DEF Init, TypeOK, MainPcs

\* Type correctness of the command path.
THEOREM TypeCorrect == Spec => []TypeOK
BY InitType, NextType, PTL DEF Spec

-----------------------------------------------------------------------------

\* A step that only moves calls outside the lock keeps the lock exclusive.
LEMMA CallOutsideLock ==
  ASSUME TypeOK, WriteExclusive, mutex' = mutex, NEW c \in Contexts, NEW x,
         x.at # "hold", call[c].at # "hold", call' = [call EXCEPT ![c] = x]
  PROVE  WriteExclusive'
<1> SUFFICES ASSUME NEW d \in Contexts
             PROVE  mutex' = d <=> call'[d].at = "hold"
  BY DEF WriteExclusive
<1>1. call'[d] = IF d = c THEN x ELSE call[d]
  BY DEF TypeOK
<1> QED
  BY <1>1 DEF WriteExclusive

\* Entering SendData, flush and a log call are such steps.
LEMMA CallEnteredOutside ==
  ASSUME TypeOK, WriteExclusive, mutex' = mutex, NEW c \in Contexts,
         NEW at \in {"open", "lock", "log"}, NEW cmd,
         call[c].at # "hold", call' = [call EXCEPT ![c] = CallAt(at, cmd)]
  PROVE  WriteExclusive'
<1>1. CallAt(at, cmd).at # "hold"
  BY DEF CallAt
<1> QED
  BY <1>1, CallOutsideLock

\* Every way out of the lock releases it.
LEMMA UnlockExclusive ==
  ASSUME TypeOK, WriteExclusive, NEW c \in Contexts, NEW x, call[c].at = "hold",
         x.at # "hold", mutex' = "free", call' = [call EXCEPT ![c] = x]
  PROVE  WriteExclusive'
<1> SUFFICES ASSUME NEW d \in Contexts
             PROVE  mutex' = d <=> call'[d].at = "hold"
  BY DEF WriteExclusive
<1>1. call'[d] = IF d = c THEN x ELSE call[d]
  BY DEF TypeOK
<1>2. mutex = c /\ (d # c => call[d].at # "hold") /\ d # "free"
  BY HandlersAssumption DEF WriteExclusive, Contexts, Threads
<1> QED
  BY <1>1, <1>2

LEMMA CallStepExclusive ==
  ASSUME TypeOK, WriteExclusive, NEW c \in Contexts, CallStep(c)
  PROVE  WriteExclusive'
<1>0. NoCall.at = "none" /\ CallAt("log", LogCall).at = "log"
  BY DEF NoCall, CallAt
<1>1. CASE CheckOpen(c)
  <2>1. CASE port = "open"
    <3>1. call' = [call EXCEPT ![c] = [call[c] EXCEPT !.at = "lock"]]
      BY <1>1, <2>1 DEF CheckOpen
    <3>2. [call[c] EXCEPT !.at = "lock"].at # "hold"
      BY DEF TypeOK, Calls
    <3> QED
      BY <1>1, <3>1, <3>2, CallOutsideLock DEF CheckOpen
  <2>2. CASE port # "open"
    BY <1>0, <1>1, <2>2, CallOutsideLock DEF CheckOpen
  <2> QED
    BY <2>1, <2>2
<1>2. CASE TouchDangling(c)
  BY <1>2 DEF TouchDangling, WriteExclusive
<1>3. CASE AcquireWriteLock(c)
  <2> SUFFICES ASSUME NEW d \in Contexts
               PROVE  mutex' = d <=> call'[d].at = "hold"
    BY DEF WriteExclusive
  <2>1. call'[d].at = IF d = c THEN "hold" ELSE call[d].at
    BY <1>3 DEF AcquireWriteLock, TypeOK, Calls
  <2>2. mutex' = c /\ call[d].at # "hold"
    BY <1>3, HandlersAssumption DEF AcquireWriteLock, WriteExclusive, Contexts, Threads
  <2> QED
    BY <2>1, <2>2
<1>4. CASE WriteAll(c) \/ WriteTimeout(c) \/ WriteThrows(c)
  BY <1>0, <1>4, UnlockExclusive DEF WriteAll, WriteTimeout, WriteThrows, StartLog
<1>5. CASE TakeLogger(c)
  <2>1. call' = [call EXCEPT ![c] = [call[c] EXCEPT !.at = "logging"]]
    BY <1>5 DEF TakeLogger
  <2>2. [call[c] EXCEPT !.at = "logging"].at # "hold"
    BY DEF TypeOK, Calls
  <2> QED
    BY <1>5, <2>1, <2>2, CallOutsideLock DEF TakeLogger
<1>6. CASE LineLogged(c)
  BY <1>0, <1>6, CallOutsideLock DEF LineLogged
<1> QED
  BY <1>1, <1>2, <1>3, <1>4, <1>5, <1>6 DEF CallStep, SerialStep

LEMMA NextExclusive ==
  ASSUME TypeOK, WriteExclusive, [Next]_vars
  PROVE  WriteExclusive'
<1>0. "main" \in Contexts /\ "net" \in Contexts /\ \A h \in Handlers : h \in Contexts
  BY DEF Contexts, Threads
<1>1. CASE UNCHANGED <<call, mutex>>
  BY <1>1 DEF WriteExclusive
<1>2. CASE ObstacleReport \/ FlushSerial \/ AutoSend \/ PollSerial
  BY <1>0, <1>1, <1>2, CallEnteredOutside
  DEF ObstacleReport, FlushSerial, AutoSend, PollSerial, Ready, StartSend, StartLog
<1>3. CASE Drain
  <2>1. NoCall.at # "hold"
    BY DEF NoCall
  <2> QED
    BY <1>0, <1>3, <2>1, UnlockExclusive DEF Drain, Unlock
<1>4. ASSUME NEW kind \in {"speed", "steer"}, NEW v \in OperatorValues,
             OperatorCommand(kind, v)
      PROVE  WriteExclusive'
  BY <1>0, <1>4, CallEnteredOutside DEF OperatorCommand, Ready, StartSend, StartLog
<1>5. CASE NetLogs
  BY <1>0, <1>5, CallEnteredOutside DEF NetLogs, Ready, StartLog
<1>6. ASSUME NEW h \in Handlers, CloseSpeed(h) \/ CloseSteer(h) \/ CloseLog(h)
      PROVE  WriteExclusive'
  BY <1>0, <1>6, CallEnteredOutside DEF CloseSpeed, CloseSteer, CloseLog, Ready, StartSend, StartLog
<1>7. CASE MainStep \/ JoinVideo
  BY <1>0, <1>7, <1>1, <1>2, <1>3, CallStepExclusive
  DEF MainStep, LoopHead, PollThrows, IntervalCheck, AutoCheck, ComputePid, AutoFlip,
      Teardown, JoinVideo, DeletePort, LayersDeleted, Exit
<1>8. CASE NetStep
  BY <1>0, <1>8, <1>1, <1>4, <1>5, CallStepExclusive DEF NetStep, SetAutonomous, SetAppAutonomous
<1>9. ASSUME NEW h \in Handlers, SigStep(h)
      PROVE  WriteExclusive'
  BY <1>0, <1>9, <1>1, <1>6, CallStepExclusive DEF SigStep, CloseRunning
<1>10. ASSUME NEW h \in Handlers, NEW c \in Contexts, SignalArrives(h, c)
       PROVE  WriteExclusive'
  BY <1>10, <1>1 DEF SignalArrives
<1>11. CASE Stopped \/ UNCHANGED vars
  BY <1>11, <1>1 DEF Stopped, vars
<1> QED
  BY <1>7, <1>8, <1>9, <1>10, <1>11 DEF Next

\* At most one context is inside Serial::write or Serial::flush, and it is the one
\* that holds the write mutex: commands never interleave on the wire.
THEOREM WritesAreExclusive == Spec => []WriteExclusive
<1>1. Init => WriteExclusive
  BY HandlersAssumption DEF Init, WriteExclusive, NoCall, Contexts, Threads
<1>2. TypeOK /\ WriteExclusive /\ [Next]_vars => WriteExclusive'
  BY NextExclusive
<1> QED
  BY <1>1, <1>2, TypeCorrect, PTL DEF Spec

-----------------------------------------------------------------------------
(* The late autonomous commands. The main thread is committed to one more    *)
(* command once ComputePid has found the flag and the timer set, and until   *)
(* the write is over.                                                        *)

AutoPending == call["main"].at # "none" /\ call["main"].cmd.by = "auto"
Committed == pc = "autoSend" \/ AutoPending

\* m_IsRuning was tested in this iteration and a command may still come of it.
MayStillSend ==
  \/ pc \in {"update", "obstacle", "flush", "interval", "autoCheck", "autoPid", "autoSend"}
  \/ AutoPending

\* Only the main thread sends autonomous commands, and waits for each.
AutoFromMain ==
  /\ \A c \in Contexts \ {"main"} : call[c].cmd.by # "auto"
  /\ AutoPending => pc = "autoFlip"

LateStopInv ==
  /\ autoOn => hist.lateStop = 0
  /\ hist.lateStop <= 1
  /\ ~autoOn /\ Committed => hist.lateStop = 0

LateDownInv ==
  /\ isRunning => hist.lateDown = 0
  /\ hist.lateDown <= 1
  /\ MayStillSend => hist.lateDown = 0

\* The inductive invariant (with TypeOK).
Late == AutoFromMain /\ LateStopInv /\ LateDownInv

\* A step that leaves the main thread's place and call, the flags and the counts
\* alone, and lets no other context send an autonomous command.
LEMMA LateUndisturbed ==
  ASSUME TypeOK, Late,
         pc' = pc, call'["main"] = call["main"], autoOn' = autoOn, isRunning' = isRunning,
         hist' = hist, \A c \in Contexts \ {"main"} : call'[c].cmd.by # "auto"
  PROVE  Late'
BY DEF Late, AutoFromMain, LateStopInv, LateDownInv, Committed, MayStillSend,
       AutoPending

\* Such is entering a call in another context.
LEMMA LateCallEntered ==
  ASSUME TypeOK, Late, NEW c \in Contexts \ {"main"}, NEW at, NEW cmd, cmd.by # "auto",
         pc' = pc, autoOn' = autoOn, isRunning' = isRunning, hist' = hist,
         call' = [call EXCEPT ![c] = CallAt(at, cmd)]
  PROVE  Late'
<1>1. \A d \in Contexts : call'[d] = IF d = c THEN CallAt(at, cmd) ELSE call[d]
  BY DEF TypeOK
<1>2. CallAt(at, cmd).cmd.by # "auto" /\ "main" \in Contexts
  BY DEF CallAt, Contexts, Threads
<1>3. \A d \in Contexts \ {"main"} : call'[d].cmd.by # "auto"
  BY <1>1, <1>2 DEF Late, AutoFromMain
<1> QED
  BY <1>1, <1>2, <1>3, LateUndisturbed

\* What recording a command does to the two counts.
LEMMA RecordCounts ==
  ASSUME hist \in History, NEW cmd, Record(cmd)
  PROVE  /\ hist'.lateStop = IF cmd.by = "auto" /\ ~autoOn
                             THEN hist.lateStop + 1 ELSE hist.lateStop
         /\ hist'.lateDown = IF cmd.by = "auto" /\ ~isRunning
                             THEN hist.lateDown + 1 ELSE hist.lateDown
<1>1. hist' = [hist EXCEPT !.lateStop = IF cmd.by = "auto" /\ ~autoOn THEN @ + 1 ELSE @,
                           !.lateDown = IF cmd.by = "auto" /\ ~isRunning THEN @ + 1 ELSE @]
  BY Zenon DEF Record
<1> QED
  BY <1>1 DEF History

LEMMA CallStepLate ==
  ASSUME TypeOK, Late, NEW c \in Contexts, CallStep(c)
  PROVE  Late'
<1> USE DEF CallStep, SerialStep, CheckOpen, TouchDangling, AcquireWriteLock, WriteAll,
            WriteTimeout, WriteThrows, TakeLogger, LineLogged
<1>0. /\ NoCall.at = "none" /\ NoCall.cmd.by # "auto"
      /\ CallAt("log", LogCall).at = "log" /\ CallAt("log", LogCall).cmd.by # "auto"
      /\ "main" \in Contexts
  BY DEF NoCall, FlushCall, CallAt, LogCall, Contexts, Threads
<1>1. \A d \in Contexts : d # c => call'[d] = call[d]
  BY DEF TypeOK, StartLog
<1>2. \/ call'[c] = NoCall \/ call'[c] = CallAt("log", LogCall) \/ call'[c] = call[c]
      \/ call'[c].cmd = call[c].cmd /\ call[c].at # "none"
  BY DEF TypeOK, StartLog, Calls
<1>3. pc' = pc /\ autoOn' = autoOn /\ isRunning' = isRunning
  BY DEF flags
<1>4. \A d \in Contexts \ {"main"} : call'[d].cmd.by # "auto"
  BY <1>0, <1>1, <1>2 DEF Late, AutoFromMain
<1>5. AutoPending' => AutoPending
  BY <1>0, <1>1, <1>2 DEF AutoPending
<1>6. CASE hist' = hist
  BY <1>3, <1>4, <1>5, <1>6 DEF Late, AutoFromMain, LateStopInv, LateDownInv,
     Committed, MayStillSend
<1>7. CASE WriteAll(c)
  <2>1. Record(call[c].cmd) /\ call'[c] = CallAt("log", LogCall) /\ call[c].at = "hold"
    BY <1>7 DEF StartLog, TypeOK
  <2>2. CASE call[c].cmd.by = "auto"
    <3>1. c = "main" /\ AutoPending /\ pc = "autoFlip"
      BY <2>1, <2>2 DEF Late, AutoFromMain, AutoPending
    <3>2. ~Committed' /\ ~MayStillSend' /\ ~AutoPending'
      BY <3>1, <2>1, <1>0, <1>3 DEF Committed, MayStillSend, AutoPending
    <3>3. hist.lateStop = 0 /\ hist.lateDown = 0
      BY <3>1 DEF Late, LateStopInv, LateDownInv, Committed, MayStillSend
    <3>4. hist'.lateStop <= 1 /\ hist'.lateDown <= 1 /\ (autoOn => hist'.lateStop = 0)
            /\ (isRunning => hist'.lateDown = 0)
      BY <3>3, <2>1, RecordCounts DEF TypeOK
    <3> HIDE DEF CallStep, SerialStep, CheckOpen, TouchDangling, AcquireWriteLock, WriteAll,
                 WriteTimeout, WriteThrows, TakeLogger, LineLogged
    <3> QED
      BY <3>2, <3>4, <1>3, <1>4
      DEF Late, AutoFromMain, LateStopInv, LateDownInv
  <2>3. CASE call[c].cmd.by # "auto"
    <3>1. hist'.lateStop = hist.lateStop /\ hist'.lateDown = hist.lateDown
      BY <2>1, <2>3, RecordCounts DEF TypeOK
    <3> QED
      BY <3>1, <1>3, <1>4, <1>5 DEF Late, AutoFromMain, LateStopInv, LateDownInv,
         Committed, MayStillSend
  <2> QED
    BY <2>2, <2>3
<1> QED
  BY <1>6, <1>7

\* The main thread enters a call that is not an autonomous command.
LEMMA MainCallLate ==
  ASSUME TypeOK, Late, NEW at, NEW cmd, cmd.by # "auto",
         call' = [call EXCEPT !["main"] = CallAt(at, cmd)]
  PROVE  ~AutoPending' /\ \A c \in Contexts \ {"main"} : call'[c].cmd.by # "auto"
<1>1. \A d \in Contexts : call'[d] = IF d = "main" THEN CallAt(at, cmd) ELSE call[d]
  BY DEF TypeOK
<1> QED
  BY <1>1 DEF AutoPending, CallAt, Late, AutoFromMain, Contexts, Threads

LEMMA MainStepLate ==
  ASSUME TypeOK, Late, MainStep \/ JoinVideo
  PROVE  Late'
<1> USE DEF Late, AutoFromMain, LateStopInv, LateDownInv, Committed,
            MayStillSend, AutoPending, flags
<1>1. CASE LoopHead
  BY <1>1 DEF LoopHead, Ready
<1>2. CASE PollSerial \/ PollThrows \/ ObstacleReport \/ FlushSerial
  <2>1. FlushCall.by # "auto" /\ LogCall.by # "auto"
        /\ [kind |-> "speed", val |-> 0, by |-> "obstacle"].by # "auto"
    BY DEF FlushCall, LogCall
  <2>2. \/ call' = call
        \/ ~AutoPending' /\ \A c \in Contexts \ {"main"} : call'[c].cmd.by # "auto"
    <3> HIDE DEF AutoPending, Late
    <3> QED
      BY <1>2, <2>1, MainCallLate
      DEF PollSerial, PollThrows, ObstacleReport, FlushSerial, StartSend, StartLog
  <2>3. /\ pc \in {"update", "obstacle", "flush"}
        /\ pc' \in {"update", "obstacle", "flush", "interval"}
        /\ autoOn' = autoOn /\ isRunning' = isRunning /\ hist' = hist
        /\ call["main"].at = "none"
    BY <1>2 DEF PollSerial, PollThrows, ObstacleReport, FlushSerial, Ready
  <2> QED
    BY <2>2, <2>3
<1>3. CASE IntervalCheck \/ AutoCheck
  BY <1>3 DEF IntervalCheck, AutoCheck, Ready
<1>4. CASE ComputePid
  BY <1>4 DEF ComputePid, Ready
<1>5. CASE AutoSend
  <2>1. \A c \in Contexts \ {"main"} : call'[c] = call[c]
    BY <1>5 DEF AutoSend, StartSend, TypeOK
  <2>2. hist'.lateStop = hist.lateStop /\ hist'.lateDown = hist.lateDown
    BY <1>5 DEF AutoSend, TypeOK, History
  <2> QED
    BY <1>5, <2>1, <2>2 DEF AutoSend
<1>6. CASE AutoFlip
  BY <1>6 DEF AutoFlip, Ready
<1>7. CASE Teardown \/ JoinVideo \/ DeletePort \/ LayersDeleted \/ Exit
  BY <1>7 DEF Teardown, JoinVideo, DeletePort, LayersDeleted, Exit, Ready
<1>8. CASE Drain
  <2>1. call'["main"] = NoCall /\ \A c \in Contexts \ {"main"} : call'[c] = call[c]
    BY <1>8 DEF Drain, Unlock, TypeOK, Contexts, Threads
  <2> QED
    BY <1>8, <2>1 DEF Drain, NoCall
<1>9. CASE CallStep("main")
  BY <1>9, CallStepLate DEF Contexts, Threads
<1> QED
  BY <1>1, <1>2, <1>3, <1>4, <1>5, <1>6, <1>7, <1>8, <1>9 DEF MainStep

LEMMA NetStepLate ==
  ASSUME TypeOK, Late, NetStep
  PROVE  Late'
<1>0. "net" \in Contexts \ {"main"} /\ LogCall.by # "auto"
  BY DEF Contexts, Threads, LogCall
<1>1. ASSUME NEW kind \in {"speed", "steer"}, NEW v \in OperatorValues,
             OperatorCommand(kind, v)
      PROVE  Late'
  <2>1. [kind |-> kind, val |-> v, by |-> "operator"].by # "auto"
    OBVIOUS
  <2> QED
    BY <1>0, <1>1, <2>1, LateCallEntered DEF OperatorCommand, StartSend, StartLog, flags
<1>2. ASSUME NEW on \in BOOLEAN, SetAutonomous(on)
      PROVE  Late'
  <2>1. /\ hist'.lateStop = IF on THEN 0 ELSE hist.lateStop
        /\ hist'.lateDown = hist.lateDown
    BY <1>2 DEF SetAutonomous, TypeOK, History
  <2> QED
    BY <1>2, <2>1 DEF SetAutonomous, Late, AutoFromMain, LateStopInv, LateDownInv,
       Committed, MayStillSend, AutoPending
<1>3. ASSUME NEW on \in BOOLEAN, SetAppAutonomous(on)
      PROVE  Late'
  BY <1>3, LateUndisturbed DEF SetAppAutonomous, Late, AutoFromMain
<1>4. CASE NetLogs
  BY <1>0, <1>4, LateCallEntered DEF NetLogs, StartLog, flags
<1>5. CASE CallStep("net")
  BY <1>0, <1>5, CallStepLate
<1> QED
  BY <1>1, <1>2, <1>3, <1>4, <1>5 DEF NetStep

LEMMA SigStepLate ==
  ASSUME TypeOK, Late, NEW h \in Handlers, SigStep(h)
  PROVE  Late'
<1>0. h \in Contexts \ {"main"} /\ LogCall.by # "auto"
      /\ \A kind : [kind |-> kind, val |-> 0, by |-> "shutdown"].by # "auto"
  BY HandlersAssumption DEF Contexts, Threads, LogCall
<1>1. CASE CloseSpeed(h) \/ CloseSteer(h) \/ CloseLog(h)
  BY <1>0, <1>1, LateCallEntered DEF CloseSpeed, CloseSteer, CloseLog, StartSend, StartLog, flags
<1>2. CASE CloseRunning(h)
  BY <1>2 DEF CloseRunning, flags, Late, AutoFromMain, LateStopInv, LateDownInv,
     Committed, MayStillSend, AutoPending
<1>3. CASE CallStep(h)
  BY <1>0, <1>3, CallStepLate
<1> QED
  BY <1>1, <1>2, <1>3 DEF SigStep

LEMMA NextLate ==
  ASSUME TypeOK, Late, [Next]_vars
  PROVE  Late'
<1>1. ASSUME \/ \E h \in Handlers, c \in Contexts : SignalArrives(h, c)
             \/ Stopped \/ UNCHANGED vars
      PROVE  Late'
  BY <1>1, LateUndisturbed DEF SignalArrives, Stopped, vars, flags, Late, AutoFromMain
<1> QED
  BY <1>1, MainStepLate, NetStepLate, SigStepLate DEF Next

LEMMA AlwaysLate == Spec => []Late
<1>1. Init => Late
  <2> SUFFICES ASSUME Init PROVE Late
    OBVIOUS
  <2>1. \A c \in Contexts : call[c].at = "none" /\ call[c].cmd.by = "nobody"
    BY DEF Init, NoCall, FlushCall
  <2> QED
    BY <2>1 DEF Init, Late, AutoFromMain, LateStopInv, LateDownInv, Committed,
       MayStillSend, AutoPending, Contexts, Threads
<1>2. TypeOK /\ Late /\ [Next]_vars => Late'
  BY NextLate
<1> QED
  BY <1>1, <1>2, TypeCorrect, PTL DEF Spec

\* After "stop autonomous" was handled at most one autonomous command is still
\* written: the one ComputePid had committed the main thread to.
THEOREM OneLateAuto == Spec => []AtMostOneLateAuto
<1>1. Late => AtMostOneLateAuto
  BY DEF Late, LateStopInv, AtMostOneLateAuto
<1> QED
  BY <1>1, AlwaysLate, PTL

\* After m_IsRuning was cleared at most one autonomous command is still written.
THEOREM OneAfterShutdown == Spec => []AtMostOneAfterShutdown
<1>1. Late => AtMostOneAfterShutdown
  BY DEF Late, LateDownInv, AtMostOneAfterShutdown
<1> QED
  BY <1>1, AlwaysLate, PTL

\* Whatever switches the autonomous driver off, at most one of its commands is
\* still written.
THEOREM AutoStops == Spec => []AutoStopsInTime
<1>1. AtMostOneLateAuto /\ AtMostOneAfterShutdown => AutoStopsInTime
  BY DEF AutoStopsInTime
<1> QED
  BY <1>1, OneLateAuto, OneAfterShutdown, PTL
-----------------------------------------------------------------------------
(* Autonomous::m_Alterate tells what was tried last: between AutoSend and    *)
(* AutoFlip it is still the kind under way, at every other place the next.   *)

Last == hist.lastAuto

Alternating ==
  IF pc = "autoFlip" THEN Last = IF alterate THEN "speed" ELSE "steer"
                     ELSE IF alterate THEN Last = "steer" ELSE Last \in {"none", "speed"}

\* The other contexts leave the driver's place, its flag and the kind alone,
\* whatever they record.
LEMMA AlternatingUndisturbed ==
  ASSUME Alternating, alterate' = alterate, hist'.lastAuto = hist.lastAuto,
         pc' = pc \/ (pc # "autoFlip" /\ pc' # "autoFlip")
  PROVE  Alternating'
BY DEF Alternating, Last

LEMMA RecordKeepsKind ==
  ASSUME hist \in History, NEW cmd, Record(cmd)
  PROVE  hist'.lastAuto = hist.lastAuto
<1> DEFINE stop == IF cmd.by = "auto" /\ ~autoOn THEN hist.lateStop + 1 ELSE hist.lateStop
           down == IF cmd.by = "auto" /\ ~isRunning THEN hist.lateDown + 1 ELSE hist.lateDown
<1>1. hist' = [hist EXCEPT !.lateStop = stop, !.lateDown = down]
  BY Zenon DEF Record
<1> HIDE DEF stop, down
<1> QED
  BY <1>1 DEF History

LEMMA CallStepAlternates ==
  ASSUME TypeOK, Alternating, NEW c \in Contexts, CallStep(c)
  PROVE  Alternating'
<1> USE DEF CallStep, SerialStep, CheckOpen, TouchDangling, AcquireWriteLock, WriteAll,
            WriteTimeout, WriteThrows, TakeLogger, LineLogged
<1>1. pc' = pc /\ alterate' = alterate
  OBVIOUS
<1>2. hist' = hist \/ Record(call[c].cmd)
  OBVIOUS
<1> QED
  BY <1>1, <1>2, RecordKeepsKind, AlternatingUndisturbed DEF TypeOK

LEMMA AutoFlipAlternates ==
  ASSUME TypeOK, Alternating, AutoFlip
  PROVE  Alternating'
<1>1. pc = "autoFlip" /\ pc' = "loop" /\ alterate' = ~alterate /\ hist' = hist
  BY DEF AutoFlip
<1>2. CASE alterate
  BY <1>1, <1>2 DEF Alternating, Last
<1>3. CASE ~alterate
  BY <1>1, <1>3 DEF Alternating, Last
<1> QED
  BY <1>2, <1>3

\* AutoSend records the kind m_Alterate asks for.
LEMMA AutoSendKind ==
  ASSUME TypeOK, AutoSend
  PROVE  /\ pc = "autoSend" /\ pc' = "autoFlip" /\ alterate' = alterate
         /\ hist'.lastAuto = IF alterate THEN "speed" ELSE "steer"
<1>1. AutoCommand.kind = IF alterate THEN "speed" ELSE "steer"
  BY DEF AutoCommand
<1> QED
  BY <1>1 DEF AutoSend, TypeOK, History

LEMMA NextAlternates ==
  ASSUME TypeOK, Alternating, [Next]_vars
  PROVE  Alternating'
<1>0. "main" \in Contexts /\ "net" \in Contexts /\ \A h \in Handlers : h \in Contexts
  BY DEF Contexts, Threads
<1>1. CASE MainStep \/ JoinVideo
  <2>1. CASE AutoSend
    BY <2>1, AutoSendKind DEF Alternating, Last
  <2>2. CASE AutoFlip
    BY <2>2, AutoFlipAlternates
  <2>3. CASE CallStep("main")
    BY <1>0, <2>3, CallStepAlternates
  <2>4. CASE \/ LoopHead \/ PollSerial \/ PollThrows \/ ObstacleReport \/ FlushSerial
             \/ IntervalCheck \/ AutoCheck \/ ComputePid \/ Teardown \/ JoinVideo
             \/ DeletePort \/ LayersDeleted \/ Exit \/ Drain
    BY <2>4, AlternatingUndisturbed
    DEF LoopHead, PollSerial, PollThrows, ObstacleReport, FlushSerial, IntervalCheck,
        AutoCheck, ComputePid, Teardown, JoinVideo, DeletePort, LayersDeleted, Exit, Drain
  <2> QED
    BY <1>1, <2>1, <2>2, <2>3, <2>4 DEF MainStep
<1>2. CASE NetStep
  <2>1. ASSUME NEW on \in BOOLEAN, SetAutonomous(on)
        PROVE  Alternating'
    <3>1. hist'.lastAuto = hist.lastAuto
      BY <2>1 DEF SetAutonomous, TypeOK, History
    <3> QED
      BY <2>1, <3>1, AlternatingUndisturbed DEF SetAutonomous
  <2>2. CASE CallStep("net")
    BY <1>0, <2>2, CallStepAlternates
  <2> QED
    BY <1>2, <2>1, <2>2, AlternatingUndisturbed
    DEF NetStep, NetLogs, OperatorCommand, SetAppAutonomous
<1>3. ASSUME NEW h \in Handlers, SigStep(h)
      PROVE  Alternating'
  BY <1>0, <1>3, CallStepAlternates, AlternatingUndisturbed
  DEF SigStep, CloseSpeed, CloseSteer, CloseLog, CloseRunning
<1>4. ASSUME \/ \E h \in Handlers, c \in Contexts : SignalArrives(h, c)
             \/ Stopped \/ UNCHANGED vars
      PROVE  Alternating'
  BY <1>4, AlternatingUndisturbed DEF SignalArrives, Stopped, vars
<1> QED
  BY <1>1, <1>2, <1>3, <1>4 DEF Next

\* No other step goes from the place before the command to the place after it.
LEMMA OnlyAutoSend ==
  ASSUME [Next]_vars, pc = "autoSend", pc' = "autoFlip"
  PROVE  AutoSend
<1>1. \A c : CallStep(c) => pc' = pc
  BY DEF CallStep, SerialStep, CheckOpen, TouchDangling, AcquireWriteLock, WriteAll,
         WriteTimeout, WriteThrows, TakeLogger, LineLogged
<1>2. MainStep \/ JoinVideo => AutoSend
  BY <1>1 DEF MainStep, LoopHead, PollSerial, PollThrows, ObstacleReport, FlushSerial,
              IntervalCheck, AutoCheck, ComputePid, AutoFlip, Teardown, JoinVideo, DeletePort,
              LayersDeleted, Exit, Drain
<1>3. ~NetStep /\ \A h \in Handlers : ~SigStep(h)
  BY <1>1 DEF NetStep, NetLogs, OperatorCommand, SetAutonomous, SetAppAutonomous, SigStep,
              CloseSpeed, CloseSteer, CloseLog, CloseRunning
<1> QED
  BY <1>2, <1>3 DEF Next, SignalArrives, Stopped, vars

\* Steering comes first, and the autonomous driver never tries the same kind of
\* command twice in a row: not after a command that was dropped or timed out, and
\* not when it is switched off and on between two of them.
THEOREM CommandsAlternate == Spec => AutoAlternates
<1>1. Init => Alternating
  BY DEF Init, Alternating, Last
<1>2. TypeOK /\ Alternating /\ [Next]_vars => Alternating'
  BY NextAlternates
<1>3. TypeOK /\ Alternating /\ [Next]_vars
        => [(pc = "autoSend" /\ pc' = "autoFlip")
              => hist'.lastAuto # (IF hist.lastAuto = "none" THEN "speed" ELSE hist.lastAuto)]_vars
  <2> SUFFICES ASSUME TypeOK, Alternating, [Next]_vars, pc = "autoSend", pc' = "autoFlip"
               PROVE  hist'.lastAuto # (IF hist.lastAuto = "none" THEN "speed"
                                                                 ELSE hist.lastAuto)
    OBVIOUS
  <2>1. hist'.lastAuto = IF alterate THEN "speed" ELSE "steer"
    BY OnlyAutoSend, AutoSendKind
  <2> QED
    BY <2>1 DEF Alternating, Last
<1> QED
  BY <1>1, <1>2, <1>3, TypeCorrect, PTL DEF Spec, AutoAlternates
=============================================================================
