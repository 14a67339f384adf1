------------------------------- MODULE LidarScan -------------------------------
(***************************************************************************)
(* The way of a turn of the lidar to the operator: the driver's receive    *)
(* thread stores a finished turn in full_scan_data_ and signals an event;  *)
(* LidarReadLayer's thread waits for the event, copies the turn and stores *)
(* the coordinates it computes; the main thread copies the coordinates and *)
(* sends them. No lock covers any of the three hand-offs on both sides.    *)
(*                                                                         *)
(* Turns are numbered in the order they end; a struct or a vector that is  *)
(* copied is the number of the turn in each of its parts. Memory accesses  *)
(* take effect in program order.                                           *)
(***************************************************************************)
EXTENDS Naturals

CONSTANT MaxTurns  \* bound: turns the lidar makes
ASSUME TurnsAssumption == MaxTurns \in Nat

\* The parts of full_scan_data_st, in the order they are written: two halves of
\* the points, and the number of points with the speed.
Parts == {"first", "second", "count"}
AfterPart == [first |-> "second", second |-> "count", count |-> "publish"]

VARIABLES
  rx,      \* the receive thread: parsing, writing a part, publishing, signalling
  turn,    \* the last turn that ended
  whole,   \* whether it began near angle 0
  full,    \* full_scan_data_: the turn each part belongs to
  ready,   \* full_scan_ready_
  layer,   \* where the layer's thread is in ReadLidarDataThread
  copied,  \* the parts of full_scan_data_ it has copied
  scan,    \* m_ScanData
  list,    \* m_CoordinatesList: the scan each half was computed from
  online,  \* isOnline
  running, \* the layer's m_Running
  main,    \* the main thread: outside, copying the list, in ~LidarReadLayer, past it
  sent,    \* the copy of the list the main thread sends
  alive,   \* FALSE once a vector was copied whose memory was freed
  hist     \* history, for the properties only

rxVars == <<rx, turn, whole, full>>
layerVars == <<layer, copied, scan, list, online>>
mainVars == <<running, main, sent>>
vars == <<rxVars, ready, layerVars, mainVars, alive, hist>>

Halves == {"first", "second"}

\* pubs and grabs count the turns published and handed out (junk: ready was TRUE
\* before any); published is the last one published; seen is published when the
\* layer found a turn ready, quiet whether no turn has ended since that one.
History == [pubs : Nat, grabs : Nat, junk : BOOLEAN, published : Nat, seen : Nat,
            quiet : BOOLEAN]

TypeOK ==
  /\ rx \in {"parse", "publish", "signal"} \cup Parts
  /\ turn \in Nat /\ whole \in BOOLEAN
  /\ full \in [Parts -> Nat] /\ ready \in BOOLEAN
  /\ layer \in {"loop", "wait", "woken", "copy", "reset", "first", "second", "done"}
  /\ copied \in SUBSET Parts /\ scan \in [Parts -> Nat]
  /\ list \in [Halves -> [Parts -> Nat]] /\ online \in BOOLEAN /\ running \in BOOLEAN
  /\ main \in {"run", "read", "join", "gone"}
  /\ sent \in [Halves -> [Parts -> Nat]] /\ alive \in BOOLEAN
  /\ hist \in History

\* The driver is connected and the layer's thread enters its loop. The driver's
\* constructor zeroes full_scan_data_ and leaves full_scan_ready_ uninitialised.
Init ==
  /\ rx = "parse" /\ turn = 0 /\ whole = FALSE
  /\ full = [p \in Parts |-> 0] /\ ready \in BOOLEAN
  /\ layer = "loop" /\ copied = {} /\ scan = [p \in Parts |-> 0]
  /\ list = [h \in Halves |-> scan] /\ online = FALSE
  /\ running = TRUE /\ main = "run" /\ sent = list /\ alive = TRUE
  /\ hist = [pubs |-> 0, grabs |-> 0, junk |-> ready, published |-> 0, seen |-> 0,
             quiet |-> FALSE]

-----------------------------------------------------------------------------
(* The receive thread: the end of a turn in uart_data_handle.               *)

\* The angle fell by more than a degree: the turn collected in temp_data is over.
TurnEnds ==
  /\ alive /\ rx = "parse" /\ turn < MaxTurns
  /\ turn' = turn + 1 /\ whole' \in BOOLEAN
  /\ ready' = FALSE
  /\ rx' = "first"
  /\ hist' = [hist EXCEPT !.quiet = FALSE]
  /\ UNCHANGED <<full, layerVars, mainVars, alive>>

\* Mutant: the number of points is not updated.
CopyPoints ==
  /\ alive /\ rx \in Parts
  /\ full' = IF rx = "count" THEN full ELSE [full EXCEPT ![rx] = turn]
  /\ rx' = AfterPart[rx]
  /\ UNCHANGED <<turn, whole, ready, layerVars, mainVars, alive, hist>>

CopyTurn ==
  /\ alive /\ rx \in Parts
  /\ full' = [full EXCEPT ![rx] = turn]
  /\ rx' = AfterPart[rx]
  /\ UNCHANGED <<turn, whole, ready, layerVars, mainVars, alive, hist>>

\* "not a full scan": a turn that begins past 10 degrees is not announced.
Publish ==
  /\ alive /\ rx = "publish"
  /\ \/ /\ whole
        /\ ready' = TRUE /\ rx' = "signal"
        /\ hist' = [hist EXCEPT !.pubs = @ + 1, !.published = turn]
     \/ /\ ~whole
        /\ rx' = "parse" /\ UNCHANGED <<ready, hist>>
  /\ UNCHANGED <<turn, whole, full, layerVars, mainVars, alive>>

\* Event::set wakes a thread that waits now, and is forgotten if none does.
Signal ==
  /\ alive /\ rx = "signal"
  /\ layer' = IF layer = "wait" THEN "woken" ELSE layer
  /\ rx' = "parse"
  /\ UNCHANGED <<turn, whole, full, ready, copied, scan, list, online, mainVars, alive,
                 hist>>

ReceiveThread == TurnEnds \/ CopyTurn \/ Publish \/ Signal

-----------------------------------------------------------------------------
(* The layer's thread: ReadLidarDataThread and GrabFullScanBlocking.        *)

\* while (m_Running) GrabFullScanBlocking(m_ScanData, 4000): Event::wait waits
\* whether or not the event was set before.
LayerLoop ==
  /\ alive /\ layer = "loop"
  /\ layer' = IF running THEN "wait" ELSE "done"
  /\ UNCHANGED <<rxVars, ready, copied, scan, list, online, mainVars, alive, hist>>

\* Mutant: the wait has no time-out.
WaitForSignal ==
  /\ alive /\ layer = "wait" /\ rx = "signal"
  /\ layer' = "loop"
  /\ UNCHANGED <<rxVars, ready, copied, scan, list, online, mainVars, alive, hist>>

\* EVENT_TIMEOUT, or a failed wait.
WaitTimesOut ==
  /\ alive /\ layer = "wait"
  /\ layer' = "loop"
  /\ UNCHANGED <<rxVars, ready, copied, scan, list, online, mainVars, alive, hist>>

\* pthread_cond_timedwait may return 0 without a signal.
WakesSpuriously ==
  /\ alive /\ layer = "wait"
  /\ layer' = "woken"
  /\ UNCHANGED <<rxVars, ready, copied, scan, list, online, mainVars, alive, hist>>

CheckReady ==
  /\ alive /\ layer = "woken"
  /\ IF ready
     THEN /\ layer' = "copy" /\ copied' = {}
          /\ hist' = [hist EXCEPT !.seen = hist.published,
                                  !.quiet = (hist.published = turn)]
     ELSE layer' = "loop" /\ UNCHANGED <<copied, hist>>
  /\ UNCHANGED <<rxVars, ready, scan, list, online, mainVars, alive>>

\* scan_data = full_scan_data_, part by part in any order.
CopyScan(p) ==
  /\ alive /\ layer = "copy" /\ p \notin copied
  /\ scan' = [scan EXCEPT ![p] = full[p]]
  /\ copied' = copied \cup {p}
  /\ layer' = IF copied' = Parts THEN "reset" ELSE "copy"
  /\ UNCHANGED <<rxVars, ready, list, online, mainVars, alive, hist>>

\* Mutant: ResetFullScanReady is forgotten.
KeepReady ==
  /\ alive /\ layer = "reset"
  /\ layer' = "first" /\ online' = TRUE
  /\ hist' = [hist EXCEPT !.grabs = @ + 1]
  /\ UNCHANGED <<rxVars, ready, copied, scan, list, mainVars, alive>>

\* Whatever was published since the check is forgotten too.
ResetReady ==
  /\ alive /\ layer = "reset"
  /\ ready' = FALSE
  /\ layer' = "first" /\ online' = TRUE
  /\ hist' = [hist EXCEPT !.grabs = @ + 1]
  /\ UNCHANGED <<rxVars, copied, scan, list, mainVars, alive>>

\* m_CoordinatesList = interpolatedCoordinates, under a mutex nobody else takes. A
\* longer list gets new memory, from under a copy the main thread is making.
StoreList ==
  /\ alive /\ layer \in Halves
  /\ list' = [list EXCEPT ![layer] = scan]
  /\ layer' = IF layer = "first" THEN "second" ELSE "loop"
  /\ alive' \in IF main = "read" THEN BOOLEAN ELSE {TRUE}
  /\ UNCHANGED <<rxVars, ready, copied, scan, online, mainVars, hist>>

LayerThread ==
  \/ LayerLoop \/ WaitTimesOut \/ CheckReady \/ ResetReady \/ StoreList
  \/ \E p \in Parts : CopyScan(p)

-----------------------------------------------------------------------------
(* The main thread: Application::Run, and the layer's destructor.           *)

\* if (IsOnline()) GetCoordinatesList(): the vector is copied without the mutex.
ReadList ==
  /\ alive /\ main = "run" /\ online
  /\ sent' = [sent EXCEPT !["first"] = list["first"]]
  /\ main' = "read"
  /\ UNCHANGED <<rxVars, ready, layerVars, running, alive, hist>>

SendList ==
  /\ alive /\ main = "read"
  /\ sent' = [sent EXCEPT !["second"] = list["second"]]
  /\ main' = "run"
  /\ UNCHANGED <<rxVars, ready, layerVars, running, alive, hist>>

\* ~LidarReadLayer clears m_Running and joins the thread. The driver, and with it
\* the receive thread, is not deleted.
Destroy ==
  /\ alive /\ main = "run"
  /\ running' = FALSE /\ main' = "join"
  /\ UNCHANGED <<rxVars, ready, layerVars, sent, alive, hist>>

Join ==
  /\ alive /\ main = "join" /\ layer = "done"
  /\ main' = "gone"
  /\ UNCHANGED <<rxVars, ready, layerVars, running, sent, alive, hist>>

MainThread == ReadList \/ SendList \/ Destroy \/ Join

Next == ReceiveThread \/ LayerThread \/ WakesSpuriously \/ MainThread

Spec == Init /\ [][Next]_vars

\* The layer's thread is scheduled and its waits end at the latest by the time-out;
\* the lidar need not turn.
FairSpec == Spec /\ WF_vars(LayerThread) /\ WF_vars(SendList \/ Join)

-----------------------------------------------------------------------------
(* Properties.                                                              *)

Grabbed == layer = "first"

\* No turn is handed out more often than turns were published (but for one, before
\* the first, when the uninitialised full_scan_ready_ happened to be true), however
\* the check, the copy and the reset fall between the receive thread's steps.
GrabsArePublished ==
  hist.grabs <= hist.pubs + (IF hist.junk THEN 1 ELSE 0)

\* A turn is handed out whole when no turn ended between its publication and the
\* reset: the order in which uart_data_handle writes points, count and flag is the
\* one GrabFullScanBlocking relies on.
QuietGrabIsWhole ==
  (Grabbed /\ hist.quiet) => \A p \in Parts : scan[p] = hist.seen

\* Even of a torn hand-out no part is older than the turn published last when the
\* layer found one ready.
NothingOlder == Grabbed => \A p \in Parts : scan[p] >= hist.seen

\* Both: how old a hand-out may be, and when it is of one piece.
GrabsAreFresh == QuietGrabIsWhole /\ NothingOlder

\* ~LidarReadLayer returns: the layer's thread notices m_Running also when no lidar
\* signals any more.
DestructorReturns == main = "join" ~> (main = "gone" \/ ~alive)
=============================================================================
