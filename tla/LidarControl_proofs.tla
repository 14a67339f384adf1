------------------------- MODULE LidarControl_proofs -------------------------
(***************************************************************************)
(* Theorems about LidarControl, for every number of polls: the receive     *)
(* thread and the port it waits in, and what a request is confirmed by.    *)
(***************************************************************************)
EXTENDS LidarControl, TLAPS

Closing == {"clear", "close", "forget", "join"}

\* The four steps of closing the port, and every other place: outside of Disconnect the
\* port is open exactly when the driver is connected.
PortState ==
  /\ at = "clear"  => isOpen /\ fd = "lidar"
  /\ at = "close"  => ~isOpen /\ fd = "lidar"
  /\ at = "forget" => ~isOpen /\ fd = "closed"
  /\ at = "join"   => ~isOpen /\ fd = "none"
  /\ at \notin Closing => fd = (IF isOpen THEN "lidar" ELSE "none") /\ (connected <=> isOpen)
  /\ isOpen => serial

\* Only what was called from within a call has something to go on with.
ResumeState ==
  /\ at \in {"exit"} \cup Closing => resume \in {"idle", "open", "delete"}
  /\ at \in {"activate", "activateWrite", "activatePoll"} => resume \in {"idle", "speedPoll"}
  /\ at \in {"deactive", "deactiveWrite", "deactivePoll"} => resume \in {"idle", "speedWrite"}
  /\ at \in {"idle", "connect", "open", "delete", "speed", "speedWrite", "speedPoll", "grab"} => resume = "idle"

\* A receive thread belongs to a connection, and there is none when a port is opened or the
\* driver deleted.
ThreadState ==
  /\ rx # "none" => connected
  /\ at \in {"open", "delete"} => ~connected

\* A valid_data_ that is no longer what the request's test found was set since.
HeardState ==
  /\ at \in {"activateWrite", "activatePoll"} /\ valid => TRUE \in heard
  /\ at \in {"deactiveWrite", "deactivePoll"} /\ ~valid => FALSE \in heard

IInv == PortState /\ ResumeState /\ ThreadState /\ HeardState

-----------------------------------------------------------------------------
(* The invariant holds at the beginning and is kept, one step per action.    *)

LEMMA InitInv == Init => IInv
BY DEF Init, IInv, PortState, ResumeState, ThreadState, HeardState, Closing

\* The caller's steps around the port.
LEMMA PortStep ==
  ASSUME IInv, Connect \/ Open \/ Disconnect \/ ClosePort \/ Join \/ Delete
  PROVE  IInv'
<1> USE DEF IInv, PortState, ResumeState, ThreadState, HeardState, Closing,
            port, driver, caller
<1>0. at' \notin {"activateWrite", "activatePoll", "deactiveWrite", "deactivePoll"} => HeardState'
  OBVIOUS
<1> HIDE DEF HeardState
<1>1. CASE Connect
  BY <1>0, <1>1 DEF Connect
<1>2. CASE Open
  BY <1>0, <1>2 DEF Open, Return
<1>3. CASE Disconnect
  BY <1>0, <1>3 DEF Disconnect
<1>4. CASE ClosePort
  BY <1>0, <1>4 DEF ClosePort
<1>5. CASE Join
  BY <1>0, <1>5 DEF Join, Return
<1>6. CASE Delete
  BY <1>0, <1>6 DEF Delete
<1> QED
  BY <1>1, <1>2, <1>3, <1>4, <1>5, <1>6

\* Its requests.
LEMMA RequestStep ==
  ASSUME IInv, Activate \/ Deactive \/ ActivateWrite \/ DeactiveWrite \/ ActivatePoll \/ DeactivePoll \/ SetRotationSpeed \/ WriteSpeed
               \/ PollSpeed \/ Grab
  PROVE  IInv'
<1> USE DEF IInv, PortState, ResumeState, ThreadState, HeardState, Closing,
            port, driver, caller
<1>1. CASE Activate
  BY <1>1 DEF Activate, Return
<1>2. CASE Deactive
  BY <1>2 DEF Deactive, Return
<1>9. CASE ActivateWrite
  BY <1>9 DEF ActivateWrite, Return, Write
<1>10. CASE DeactiveWrite
  BY <1>10 DEF DeactiveWrite, Return, Write
<1>3. CASE ActivatePoll
  BY <1>3 DEF ActivatePoll, Return, Poll
<1>4. CASE DeactivePoll
  BY <1>4 DEF DeactivePoll, Return, Poll
<1>5. CASE SetRotationSpeed
  BY <1>5 DEF SetRotationSpeed
<1>6. CASE WriteSpeed
  BY <1>6 DEF WriteSpeed, Return
<1>7. CASE PollSpeed
  BY <1>7 DEF PollSpeed, Return
<1>8. CASE Grab
  BY <1>8 DEF Grab, Return
<1> QED
  BY <1>1, <1>2, <1>3, <1>4, <1>5, <1>6, <1>7, <1>8, <1>9, <1>10

\* The receive thread.
LEMMA ReceiveStep ==
  ASSUME IInv, RxStep
  PROVE  IInv'
<1> USE DEF IInv, PortState, ResumeState, ThreadState, HeardState, Closing,
            port, driver, caller
<1>1. CASE RxLoop
  BY <1>1 DEF RxLoop
<1>0. CASE Failed /\ UNCHANGED <<port, driver, caller>> /\ rx # "none"
  <2>1. HeardState'
    <3>1. valid' = FALSE /\ at' = at /\ heard' = heard \cup {FALSE}
      BY <1>0 DEF Failed
    <3>2. FALSE \in heard'
      BY <3>1
    <3>3. at \in {"activateWrite", "activatePoll"} /\ valid' => TRUE \in heard'
      BY <3>1
    <3> QED
      BY <3>1, <3>2, <3>3
  <2>2. rx' = "loop" /\ UNCHANGED <<serial, isOpen, fd, connected, at, resume>> /\ rx # "none"
    BY <1>0 DEF Failed
  <2> HIDE DEF HeardState
  <2> QED
    BY <2>1, <2>2
<1>7. CASE rx' \in {"found", "armed"} /\ rx # "none" /\ UNCHANGED <<port, driver, caller, valid, heard>>
  BY <1>7
<1>2. CASE RxWait
  <2>1. Failed \/ (rx' \in {"found", "armed"} /\ UNCHANGED <<valid, heard>>)
    BY <1>2 DEF RxWait, HasData
  <2>2. rx # "none" /\ UNCHANGED <<port, driver, caller>>
    BY <1>2 DEF RxWait
  <2> QED
    BY <1>0, <1>7, <2>1, <2>2, Zenon
<1>3. CASE RxArm
  BY <1>3 DEF RxArm
<1>4. CASE RxSelect
  <2>1. Failed \/ (rx' \in {"found", "armed"} /\ UNCHANGED <<valid, heard>>)
    BY <1>4 DEF RxSelect, HasData
  <2>2. rx # "none" /\ UNCHANGED <<port, driver, caller>>
    BY <1>4 DEF RxSelect
  <2> QED
    BY <1>0, <1>7, <2>1, <2>2, Zenon
<1>5. CASE RxRead
  BY <1>5 DEF RxRead
<1>6. CASE RxFound
  BY <1>6 DEF RxFound
<1> QED
  BY <1>1, <1>2, <1>3, <1>4, <1>5, <1>6 DEF RxStep

LEMMA NextInv == IInv /\ [Next]_vars => IInv'
<1> SUFFICES ASSUME IInv, [Next]_vars PROVE IInv'
  OBVIOUS
<1> USE DEF IInv, PortState, ResumeState, ThreadState, HeardState, Closing,
            port, driver, caller
<1>1. CASE Create
  BY <1>1 DEF Create
<1>2. CASE Destroy
  BY <1>2 DEF Destroy
<1>3. CASE GetInfo
  BY <1>3 DEF GetInfo
<1>4. ASSUME NEW request \in {"connect", "exit", "activate", "deactive", "speed", "grab"}, Call(request)
      PROVE  IInv'
  BY <1>4 DEF Call
<1>5. CASE CallerStep
  BY <1>5, PortStep, RequestStep DEF CallerStep
<1>6. CASE RxStep
  BY <1>6, ReceiveStep
<1>7. CASE LidarChanges
  BY <1>7 DEF LidarChanges
<1>8. CASE UNCHANGED vars
  BY <1>8 DEF vars
<1> QED
  BY <1>1, <1>2, <1>3, <1>4, <1>5, <1>6, <1>7, <1>8 DEF Next

LEMMA InvHolds == Spec => []IInv
BY InitInv, NextInv, PTL DEF Spec

-----------------------------------------------------------------------------
(* Types.                                                                    *)

\* The types of the flags, and those of where the calling thread is.
Flags == {handle, serial, isOpen, connected, exitFlag, valid, wantInfo, setFlag, answer, crashed} \subseteq BOOLEAN
Where == at \in Places /\ resume \in Places /\ polls \in 0..SetTimeOut

LEMMA Returned ==
  ASSUME Where, NEW ok \in BOOLEAN, Return(ok)
  PROVE  Where' /\ answer' \in BOOLEAN
BY PollAssumption DEF Where, Places, Return

LEMMA Moved ==
  ASSUME Where, resume' = resume, polls' = polls, at' \in Places
  PROVE  Where'
BY DEF Where

LEMMA WhereStep ==
  ASSUME Flags, Where, Next
  PROVE  Where' /\ answer' \in BOOLEAN
<1>0. answer \in BOOLEAN
  BY DEF Flags
<1>1. CASE UNCHANGED caller
  BY <1>0, <1>1 DEF caller, Where
<1>2. CASE \E ok \in BOOLEAN : Return(ok)
  BY <1>2, Returned
<1>3. CASE answer' = answer /\ UNCHANGED <<resume, polls>> /\ at' \in Places
  BY <1>0, <1>3, Moved
<1>4. CASE answer' = answer /\ at' \in Places /\ resume' \in Places /\ polls' \in {0, polls}
  BY <1>0, <1>4, PollAssumption DEF Where
<1>5. CASE answer' = answer /\ UNCHANGED <<at, resume>> /\ polls # SetTimeOut /\ polls' = polls + 1
  BY <1>0, <1>5, PollAssumption DEF Where
<1> HIDE DEF Where
<1>6. CASE Create \/ GetInfo \/ RxStep \/ LidarChanges
  BY <1>1, <1>6 DEF Create, GetInfo, RxStep, RxLoop, RxWait, RxArm, RxSelect, RxFound, RxRead, LidarChanges, caller
<1>7. ASSUME NEW request \in {"connect", "exit", "activate", "deactive", "speed", "grab"}, Call(request)
      PROVE  Where' /\ answer' \in BOOLEAN
  BY <1>4, <1>7 DEF Call, Where, Places
<1>8. CASE Destroy \/ Connect \/ SetRotationSpeed
  BY <1>4, <1>8 DEF Destroy, Connect, SetRotationSpeed, Where, Places
<1>9. CASE Disconnect \/ ClosePort \/ Delete
  BY <1>3, <1>9 DEF Disconnect, ClosePort, Delete, Places
<1>10. CASE Open \/ Join \/ Grab
  BY <1>2, <1>10 DEF Open, Join, Grab
<1>11. CASE Activate \/ Deactive
  BY <1>2, <1>3, <1>11 DEF Activate, Deactive, Places
<1>15. CASE ActivateWrite \/ DeactiveWrite
  BY <1>1, <1>2, <1>3, <1>15 DEF ActivateWrite, DeactiveWrite, Write, caller, Places
<1>12. CASE ActivatePoll \/ DeactivePoll
  BY <1>2, <1>5, <1>12 DEF ActivatePoll, DeactivePoll, Poll
<1>13. CASE WriteSpeed
  BY <1>1, <1>2, <1>4, <1>13 DEF WriteSpeed, caller, Places
<1>14. CASE PollSpeed
  <2>1. polls < SetTimeOut => polls # SetTimeOut
    BY PollAssumption DEF Where
  <2>2. (\E ok \in BOOLEAN : Return(ok)) \/ (UNCHANGED <<at, resume, answer>> /\ polls # SetTimeOut /\ polls' = polls + 1)
    BY <1>14, <2>1, Zenon DEF PollSpeed
  <2> QED
    BY <1>2, <1>5, <2>2
<1> QED
  BY <1>6, <1>7, <1>8, <1>9, <1>10, <1>11, <1>12, <1>13, <1>14, <1>15 DEF Next, CallerStep

\* Polls are counted to SetTimeOut and no further, and a call only goes on with a place in a call.
THEOREM ControlIsTyped == Spec => []TypeOK
<1> DEFINE Others == /\ fd \in {"lidar", "closed", "none"} /\ lidar \in {"unplugged", "standby", "ranging"}
                     /\ rx \in {"none", "loop", "wait", "armed", "select", "found", "read", "over"}
                     /\ heard \subseteq BOOLEAN
<1>1. Init => Flags /\ Where /\ Others
  <2> SUFFICES ASSUME Init PROVE Flags /\ Where /\ Others
    OBVIOUS
  <2>1. Flags
    BY DEF Init, Flags
  <2>2. Where
    BY PollAssumption DEF Init, Where, Places
  <2>3. Others
    BY DEF Init
  <2> QED
    BY <2>1, <2>2, <2>3
<1>2. Others /\ [Next]_vars => Others'
  <2> SUFFICES ASSUME Others, [Next]_vars PROVE Others'
    OBVIOUS
  <2> USE DEF port, driver, caller
  <2>1. CASE RxStep \/ LidarChanges
    BY <2>1 DEF RxStep, RxLoop, RxWait, RxArm, RxSelect, RxFound, RxRead, Failed, HasData, LidarChanges
  <2>2. CASE CallerStep
    BY <2>2 DEF CallerStep, Connect, Open, Disconnect, ClosePort, Join, Delete, Activate, Deactive, Write, Return,
                ActivateWrite, DeactiveWrite, ActivatePoll, DeactivePoll, SetRotationSpeed, WriteSpeed, PollSpeed, Grab
  <2>3. CASE UNCHANGED <<fd, lidar, rx, heard>>
    BY <2>3
  <2> QED
    BY <2>1, <2>2, <2>3 DEF Next, Create, Destroy, GetInfo, Call, vars
<1>3. Flags /\ Where /\ [Next]_vars => Flags' /\ Where'
  <2> SUFFICES ASSUME Flags, Where, Next PROVE Flags' /\ Where'
    BY DEF vars, caller, port, driver, Flags, Where
  <2>1. Where' /\ answer' \in BOOLEAN
    BY WhereStep
  <2>2. {handle', serial', isOpen', connected', exitFlag', valid', wantInfo', setFlag', crashed'} \subseteq BOOLEAN
    <3> USE DEF Flags, port, driver, caller
    <3>1. CASE RxStep \/ LidarChanges
      BY <3>1 DEF RxStep, RxLoop, RxWait, RxArm, RxSelect, RxFound, RxRead, Failed, HasData, LidarChanges
    <3>2. CASE Connect \/ Open \/ Disconnect \/ ClosePort \/ Join \/ Delete \/ Grab
      BY <3>2 DEF Connect, Open, Disconnect, ClosePort, Join, Delete, Grab
    <3>3. CASE Activate \/ Deactive \/ ActivateWrite \/ DeactiveWrite
      BY <3>3 DEF Activate, Deactive, ActivateWrite, DeactiveWrite, Write
    <3>4. CASE ActivatePoll \/ DeactivePoll \/ SetRotationSpeed \/ WriteSpeed \/ PollSpeed
      BY <3>4 DEF ActivatePoll, DeactivePoll, SetRotationSpeed, WriteSpeed, PollSpeed
    <3>5. CASE Create \/ Destroy \/ GetInfo \/ \E request \in {"connect", "exit", "activate", "deactive", "speed", "grab"} : Call(request)
      BY <3>5 DEF Create, Destroy, GetInfo, Call
    <3> QED
      BY <3>1, <3>2, <3>3, <3>4, <3>5 DEF Next, CallerStep
  <2> QED
    BY <2>1, <2>2 DEF Flags
<1>4. Flags /\ Where /\ Others => TypeOK
  BY DEF Flags, Where, TypeOK
<1> QED
  BY <1>1, <1>2, <1>3, <1>4, PTL DEF Spec

-----------------------------------------------------------------------------
(* What follows.                                                             *)

\* Disconnect closes the port under the receive thread and joins it afterwards; still, the
\* thread only meets another descriptor than the lidar's while Disconnect waits for it, and
\* never lives to see a new port.
THEOREM NoStaleDescriptorHolds == Spec => []NoStaleDescriptor
<1>1. IInv => NoStaleDescriptor
  BY DEF IInv, PortState, ThreadState, Closing, NoStaleDescriptor
<1> QED
  BY <1>1, InvHolds, PTL

\* A request that polled succeeds only by a change of valid_data_ that the receive thread made
\* after the request's test of it: never by the value the test read, nor by what an earlier
\* connection or request left behind.
THEOREM RequestsAreHeard == Spec => RequestsHeard
<1>1. IInv /\ [Next]_vars =>
        [/\ at = "activatePoll" /\ at' # at /\ answer' => TRUE \in heard
         /\ at = "deactivePoll" /\ at' # at /\ answer' => FALSE \in heard]_vars
  <2> SUFFICES ASSUME IInv, Next, at \in {"activatePoll", "deactivePoll"}, at' # at, answer'
               PROVE  (at = "activatePoll" => TRUE \in heard) /\ (at = "deactivePoll" => FALSE \in heard)
    OBVIOUS
  <2>1. CASE ActivatePoll
    BY <2>1 DEF ActivatePoll, Poll, Return, IInv, HeardState
  <2>2. CASE DeactivePoll
    BY <2>2 DEF DeactivePoll, Poll, Return, IInv, HeardState
  <2>3. CASE RxStep \/ LidarChanges
    BY <2>3 DEF RxStep, RxLoop, RxWait, RxArm, RxSelect, RxFound, RxRead, LidarChanges, caller
  <2>4. CASE CallerStep /\ ~ActivatePoll /\ ~DeactivePoll
    BY <2>4 DEF CallerStep, Connect, Open, Disconnect, ClosePort, Join, Delete, Activate, Deactive,
                ActivateWrite, DeactiveWrite, SetRotationSpeed, WriteSpeed, PollSpeed, Grab
  <2> QED
    BY <2>1, <2>2, <2>3, <2>4 DEF Next, Create, Destroy, GetInfo, Call
<1> QED
  BY <1>1, InvHolds, PTL DEF Spec, RequestsHeard
=============================================================================
