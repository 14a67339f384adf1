---------------------------- MODULE LidarControl ----------------------------
(***************************************************************************)
(* The lidar driver's life and its requests (OrdlidarDriver, its C API and *)
(* its serial port): one thread calls the driver, the receive thread waits *)
(* for data and sets valid_data_, which the requests poll.                 *)
(*                                                                         *)
(* Disconnect closes the port under the receive thread and joins it only   *)
(* then. The descriptor fd_ is the lidar's, or closed (its number is still *)
(* in fd_ for a moment), or -1. Bytes are left out: a wait ends with data, *)
(* or it fails (time-out, interrupt or error, which the driver treats      *)
(* alike).                                                                 *)
(***************************************************************************)
EXTENDS Integers

CONSTANT SetTimeOut \* SET_TIME_OUT: polls of a request, one per second
ASSUME PollAssumption == SetTimeOut \in Nat

VARIABLES
  handle,    \* the C API's handle is not NULL
  serial,    \* serial_ is not NULL
  isOpen,    \* the port's is_open_
  fd,        \* the port's fd_
  connected, \* is_connected_
  exitFlag,  \* rx_thread_exit_flag_
  valid,     \* valid_data_
  wantInfo,  \* init_info_flag_
  rx,        \* where the receive thread is
  at,        \* where the calling thread is
  resume,    \* what it goes on with after an inner call
  polls,     \* timeout, the local counter of polls
  setFlag,   \* set_flag of SetRotationSpeed
  answer,    \* what the last call, or inner call, returned
  lidar,     \* the device: unplugged, in standby or ranging
  heard,     \* history: what valid_data_ was set to since a request last tested it
  crashed    \* undefined behaviour ended the process

port   == <<serial, isOpen, fd>>
driver == <<connected, exitFlag, wantInfo>>
caller == <<at, resume, polls, setFlag, answer>>
vars   == <<handle, port, driver, valid, rx, caller, lidar, heard, crashed>>

Places == {"idle", "connect", "open", "exit", "clear", "close", "forget", "join", "delete", "activate",
           "activateWrite", "activatePoll", "deactive", "deactiveWrite", "deactivePoll",
           "speed", "speedWrite", "speedPoll", "grab"}

TypeOK ==
  /\ {handle, serial, isOpen, connected, exitFlag, valid, wantInfo, setFlag, answer, crashed} \subseteq BOOLEAN
  /\ heard \subseteq BOOLEAN
  /\ fd \in {"lidar", "closed", "none"}
  /\ rx \in {"none", "loop", "wait", "armed", "select", "found", "read", "over"}
  /\ at \in Places /\ resume \in Places
  /\ polls \in 0..SetTimeOut
  /\ lidar \in {"unplugged", "standby", "ranging"}

Init ==
  /\ handle = FALSE /\ serial = FALSE /\ isOpen = FALSE /\ fd = "none"
  /\ connected = FALSE /\ exitFlag = FALSE /\ valid = FALSE /\ wantInfo = FALSE
  /\ rx = "none" /\ at = "idle" /\ resume = "idle" /\ polls = 0 /\ setFlag = FALSE /\ answer = FALSE
  /\ lidar \in {"unplugged", "standby", "ranging"}
  /\ heard = {} /\ crashed = FALSE

-----------------------------------------------------------------------------
(* The C API and the beginning and end of a call.                           *)

Create == /\ at = "idle" /\ ~handle /\ handle' = TRUE
          /\ UNCHANGED <<port, driver, valid, rx, caller, lidar, heard, crashed>>

\* Every wrapper returns false if the handle is NULL and calls the driver otherwise.
Call(request) ==
  /\ at = "idle" /\ handle
  /\ at' = request /\ polls' = 0
  /\ UNCHANGED <<handle, port, driver, valid, rx, resume, setFlag, answer, lidar, heard, crashed>>

\* GetFirmwareVersion and GetDeviceSN: unknown as long as the lidar has not restarted.
GetInfo == /\ at = "idle" /\ handle /\ wantInfo' = TRUE
           /\ UNCHANGED <<handle, port, connected, exitFlag, valid, rx, caller, lidar, heard, crashed>>

\* The driver's destructor disconnects.
Destroy ==
  /\ at = "idle" /\ handle
  /\ at' = "exit" /\ resume' = "delete"
  /\ UNCHANGED <<handle, port, driver, valid, rx, polls, setFlag, answer, lidar, heard, crashed>>

\* The next handle stands for a new driver.
Delete ==
  /\ at = "delete"
  /\ handle' = FALSE /\ at' = "idle"
  /\ serial' = FALSE /\ valid' = FALSE /\ wantInfo' = FALSE /\ exitFlag' = FALSE
  /\ UNCHANGED <<isOpen, fd, connected, rx, resume, polls, setFlag, answer, lidar, heard, crashed>>

\* A call ends, or an inner call, whose failure is the outer call's failure.
Return(ok) == /\ at' = IF ok THEN resume ELSE "idle"
              /\ resume' = "idle" /\ polls' = 0 /\ answer' = ok

\* The C API's four Grab functions, connected or not: the answer is LidarScan's and
\* ScanAssembly's matter; a blocking one has a time-out here.
Grab == /\ at = "grab"
        /\ \E there \in BOOLEAN : Return(there)
        /\ UNCHANGED <<handle, port, driver, valid, rx, setFlag, lidar, heard, crashed>>

-----------------------------------------------------------------------------
(* Connect and Disconnect.                                                  *)

Connect ==
  /\ at = "connect"
  /\ IF connected THEN at' = "exit" /\ resume' = "open"
                  ELSE at' = "open" /\ UNCHANGED resume
  /\ UNCHANGED <<handle, port, driver, valid, rx, polls, setFlag, answer, lidar, heard, crashed>>

\* The port is opened and configured, and the receive thread begins; any failure closes
\* the descriptor again. Only the first Connect makes the port object.
Open ==
  /\ at = "open"
  /\ serial' = TRUE
  /\ \/ /\ lidar # "unplugged"
        /\ isOpen' = TRUE /\ fd' = "lidar" /\ connected' = TRUE /\ exitFlag' = FALSE /\ rx' = "loop"
        /\ Return(TRUE)
     \/ /\ fd' = "none" /\ isOpen' = FALSE /\ UNCHANGED <<connected, exitFlag, rx>>
        /\ Return(FALSE)
  /\ UNCHANGED <<handle, wantInfo, valid, setFlag, lidar, heard, crashed>>

Disconnect ==
  /\ at = "exit"
  /\ exitFlag' = TRUE
  /\ at' = IF serial /\ isOpen THEN "clear" ELSE "join"
  /\ UNCHANGED <<handle, port, connected, wantInfo, valid, rx, resume, polls, setFlag, answer, lidar, heard, crashed>>

\* SerialImpl::close in its order: is_open_, the descriptor, fd_.
ClosePort ==
  /\ \/ at = "clear" /\ isOpen' = FALSE /\ at' = "close" /\ UNCHANGED fd
     \/ at = "close" /\ fd' = "closed" /\ at' = "forget" /\ UNCHANGED isOpen
     \/ at = "forget" /\ fd' = "none" /\ at' = "join" /\ UNCHANGED isOpen
  /\ UNCHANGED <<handle, serial, driver, valid, rx, resume, polls, setFlag, answer, lidar, heard, crashed>>

\* Mutant: the thread is detached instead of joined.
Detach == /\ at = "join"
          /\ connected' = FALSE /\ Return(TRUE)
          /\ UNCHANGED <<handle, port, exitFlag, wantInfo, valid, rx, setFlag, lidar, heard, crashed>>

\* Only now is the thread waited for; valid_data_ stays what it was.
Join == /\ at = "join"
        /\ rx \in {"none", "over"}
        /\ rx' = "none" /\ connected' = FALSE /\ Return(TRUE)
        /\ UNCHANGED <<handle, port, exitFlag, wantInfo, valid, setFlag, lidar, heard, crashed>>

-----------------------------------------------------------------------------
(* Activate, Deactive and SetRotationSpeed.                                 *)

\* writeData: before the first Connect there is no port; a closed one takes 0 bytes, which
\* is no error to the driver; an open one may fail, and the lidar may not obey.
Write(order, next) ==
  \/ ~serial /\ crashed' = TRUE /\ UNCHANGED <<at, resume, polls, answer, lidar>>
  \/ serial /\ ~isOpen /\ at' = next /\ UNCHANGED <<resume, polls, answer, lidar, crashed>>
  \/ isOpen /\ Return(FALSE) /\ UNCHANGED <<lidar, crashed>>
  \/ /\ isOpen /\ lidar # "unplugged" /\ lidar' \in {lidar, order}
     /\ at' = next /\ UNCHANGED <<resume, polls, answer, crashed>>

\* A request that valid_data_ shows to be carried out already returns at once.
Activate ==
  /\ at = "activate"
  /\ IF valid THEN Return(TRUE) /\ UNCHANGED heard
     ELSE at' = "activateWrite" /\ heard' = {} /\ UNCHANGED <<resume, polls, answer>>
  /\ UNCHANGED <<handle, port, driver, valid, rx, setFlag, lidar, crashed>>

Deactive ==
  /\ at = "deactive"
  /\ IF ~valid THEN Return(TRUE) /\ UNCHANGED heard
     ELSE at' = "deactiveWrite" /\ heard' = {} /\ UNCHANGED <<resume, polls, answer>>
  /\ UNCHANGED <<handle, port, driver, valid, rx, setFlag, lidar, crashed>>

\* The others are written 400 ms later: valid_data_ is not tested again.
ActivateWrite == /\ at = "activateWrite" /\ Write("ranging", "activatePoll")
                 /\ UNCHANGED <<handle, port, driver, valid, rx, setFlag, heard>>

DeactiveWrite == /\ at = "deactiveWrite" /\ Write("standby", "deactivePoll")
                 /\ UNCHANGED <<handle, port, driver, valid, rx, setFlag, heard>>

\* Mutant: after the last poll the request counts as carried out.
PollForgiving(wanted) ==
  IF valid = wanted \/ polls = SetTimeOut THEN Return(TRUE)
  ELSE polls' = polls + 1 /\ UNCHANGED <<at, resume, answer>>

\* Mutant: the time-out is not counted.
PollForever(wanted) ==
  IF valid = wanted THEN Return(TRUE) ELSE UNCHANGED <<at, resume, polls, answer>>

\* The loop that follows both requests, one poll a second.
Poll(wanted) ==
  IF polls = SetTimeOut THEN Return(FALSE)
  ELSE IF valid = wanted THEN Return(TRUE)
  ELSE polls' = polls + 1 /\ UNCHANGED <<at, resume, answer>>

ActivatePoll == /\ at = "activatePoll" /\ Poll(TRUE)
                /\ UNCHANGED <<handle, port, driver, valid, rx, setFlag, lidar, heard, crashed>>

DeactivePoll == /\ at = "deactivePoll" /\ Poll(FALSE)
                /\ UNCHANGED <<handle, port, driver, valid, rx, setFlag, lidar, heard, crashed>>

\* A lidar that seems to be ranging is put into standby first.
SetRotationSpeed ==
  /\ at = "speed"
  /\ setFlag' = valid
  /\ IF valid THEN at' = "deactive" /\ resume' = "speedWrite"
              ELSE at' = "speedWrite" /\ UNCHANGED resume
  /\ UNCHANGED <<handle, port, driver, valid, rx, polls, answer, lidar, heard, crashed>>

\* ... and activated again afterwards; if the write fails it stays in standby.
WriteSpeed ==
  /\ at = "speedWrite"
  /\ \/ ~serial /\ crashed' = TRUE /\ UNCHANGED <<at, resume, polls, answer>>
     \/ isOpen /\ Return(FALSE) /\ UNCHANGED crashed
     \/ serial /\ setFlag /\ at' = "activate" /\ resume' = "speedPoll" /\ UNCHANGED <<polls, answer, crashed>>
     \/ serial /\ ~setFlag /\ Return(TRUE) /\ UNCHANGED crashed
  /\ UNCHANGED <<handle, port, driver, valid, rx, setFlag, lidar, heard>>

\* Until the measured speed is near the one asked for, or the lidar falls silent.
PollSpeed ==
  /\ at = "speedPoll"
  /\ \/ polls = SetTimeOut /\ Return(FALSE)
     \/ polls < SetTimeOut /\ ~valid /\ Return(FALSE)
     \/ polls < SetTimeOut /\ valid /\ Return(TRUE)
     \/ polls < SetTimeOut /\ valid /\ polls' = polls + 1 /\ UNCHANGED <<at, resume, answer>>
  /\ UNCHANGED <<handle, port, driver, valid, rx, setFlag, lidar, heard, crashed>>

-----------------------------------------------------------------------------
(* The receive thread.                                                      *)

RxLoop ==
  /\ rx = "loop"
  /\ rx' = IF exitFlag THEN "over" ELSE "wait"
  /\ UNCHANGED <<handle, port, driver, valid, caller, lidar, heard, crashed>>

Failed  == rx' = "loop" /\ valid' = FALSE /\ heard' = heard \cup {FALSE}
HasData == fd = "lidar" /\ lidar = "ranging" /\ rx' = "found" /\ UNCHANGED <<valid, heard>>

\* waitfordata: is_open_ and the bytes that are there already; data that was received
\* before the lidar fell silent counts as none here.
RxWait ==
  /\ rx = "wait"
  /\ \/ Failed
     \/ isOpen /\ HasData
     \/ isOpen /\ fd = "lidar" /\ rx' = "armed" /\ UNCHANGED <<valid, heard>>
  /\ UNCHANGED <<handle, port, driver, caller, lidar, crashed>>

\* FD_SET with a descriptor of -1 is undefined.
RxArm ==
  /\ rx = "armed"
  /\ \/ rx' = "select" /\ UNCHANGED crashed
     \/ fd = "none" /\ crashed' = TRUE /\ UNCHANGED rx
  /\ UNCHANGED <<handle, port, driver, valid, caller, lidar, heard>>

\* while (isOpen()) pselect: ends with data, by the time-out, or with an error.
RxSelect ==
  /\ rx = "select"
  /\ Failed \/ (isOpen /\ HasData)
  /\ UNCHANGED <<handle, port, driver, caller, lidar, crashed>>

\* Only now, whenever the data came, does valid_data_ say so.
RxFound == /\ rx = "found"
           /\ rx' = "read" /\ valid' = TRUE /\ heard' = heard \cup {TRUE}
           /\ UNCHANGED <<handle, port, driver, caller, lidar, crashed>>

\* readData and uart_data_handle. A failed read counts as a length of -1, which the search
\* for the version, switched on by GetInfo, makes an undefined range of; and that function
\* returns no value at all.
RxRead ==
  /\ rx = "read"
  /\ \/ rx' = "loop" /\ UNCHANGED crashed
     \/ isOpen /\ wantInfo /\ crashed' = TRUE /\ UNCHANGED rx
  /\ UNCHANGED <<handle, port, driver, valid, caller, lidar, heard>>

-----------------------------------------------------------------------------
(* The device, at any time.                                                 *)

\* A lidar that is plugged in again is not the one an open descriptor belongs to.
LidarChanges == /\ lidar' \in {"unplugged", "standby", "ranging"} \ {lidar}
                /\ lidar = "unplugged" => fd # "lidar"
                /\ UNCHANGED <<handle, port, driver, valid, rx, caller, heard, crashed>>

CallerStep == Connect \/ Open \/ Disconnect \/ ClosePort \/ Join \/ Delete \/ Activate \/ Deactive
              \/ ActivateWrite \/ DeactiveWrite \/ ActivatePoll \/ DeactivePoll \/ SetRotationSpeed \/ WriteSpeed \/ PollSpeed \/ Grab
RxStep == RxLoop \/ RxWait \/ RxArm \/ RxSelect \/ RxFound \/ RxRead

Next ==
  /\ ~crashed
  /\ \/ Create \/ Destroy \/ GetInfo
     \/ \E request \in {"connect", "exit", "activate", "deactive", "speed", "grab"} : Call(request)
     \/ CallerStep \/ RxStep \/ LidarChanges

Spec == Init /\ [][Next]_vars

\* Both threads run; the lidar need not do anything, and nobody need call.
FairSpec == Spec /\ WF_vars(~crashed /\ CallerStep) /\ WF_vars(~crashed /\ RxStep)

-----------------------------------------------------------------------------
(* Properties.                                                              *)

\* The receive thread works with a descriptor that is no longer the lidar's only while
\* Disconnect waits for it; so no port is opened, and no second thread started, under a
\* receive thread that is still running.
NoStaleDescriptor ==
  /\ rx \in {"armed", "select", "found", "read"} /\ fd # "lidar" => at \in {"forget", "join"}
  /\ at \in {"open", "delete"} => rx = "none" /\ fd = "none"
  /\ rx # "none" => connected

\* A request that had to poll succeeds only if, since its test of valid_data_, the receive
\* thread found data (Activate), or none (Deactive). No more can be said: data that came
\* before the request was written confirms it too, and so does a wait a signal ended.
RequestsHeard ==
  [][/\ at = "activatePoll" /\ at' # at /\ answer' => TRUE \in heard
     /\ at = "deactivePoll" /\ at' # at /\ answer' => FALSE \in heard]_vars

\* Every call of the driver comes back, whatever the lidar does: polls are counted, and the
\* receive thread notices the exit flag because waitfordata is bounded.
CallsReturn == at # "idle" ~> (at = "idle" \/ crashed)
=============================================================================
