---------------------------- MODULE LidarScan_proofs ----------------------------
(***************************************************************************)
(* Proofs about LidarScan, for every number of turns.                      *)
(***************************************************************************)
EXTENDS LidarScan, TLAPS

-----------------------------------------------------------------------------
(* Type correctness.                                                        *)

LEMMA InitType == Init => TypeOK
<1> SUFFICES ASSUME Init PROVE TypeOK
  OBVIOUS
<1>1. scan \in [Parts -> Nat]
  BY DEF Init
<1>2. list \in [Halves -> [Parts -> Nat]] /\ sent \in [Halves -> [Parts -> Nat]]
  BY <1>1 DEF Init
<1>3. hist \in History
  <2>1. ready \in BOOLEAN
    BY DEF Init
  <2> QED
    BY <2>1 DEF Init, History
<1> QED
  BY <1>1, <1>2, <1>3 DEF Init, TypeOK

\* What follows a part in the order the receive thread writes them.
LEMMA PartOrder ==
  ASSUME NEW p \in Parts
  PROVE  AfterPart[p] \in Parts \cup {"publish"}
BY DEF Parts, AfterPart

\* A publication keeps the history well-typed.
LEMMA PublishType ==
  ASSUME hist \in History, turn \in Nat
  PROVE  [hist EXCEPT !.pubs = @ + 1, !.published = turn] \in History
<1>1. hist.pubs + 1 \in Nat
  BY DEF History
<1> QED
  BY <1>1 DEF History

LEMMA ReceiveType == TypeOK /\ ReceiveThread => TypeOK'
<1> SUFFICES ASSUME TypeOK, ReceiveThread PROVE TypeOK'
  OBVIOUS
<1> USE DEF TypeOK, History, layerVars, mainVars
<1>1. CASE TurnEnds
  <2>1. hist' \in History
    BY <1>1 DEF TurnEnds
  <2>2. turn' \in Nat
    BY <1>1 DEF TurnEnds
  <2> QED
    BY <1>1, <2>1, <2>2 DEF TurnEnds, Parts
<1>2. CASE CopyTurn
  BY <1>2, PartOrder DEF CopyTurn
<1>3. CASE Publish
  <2>1. CASE whole
    <3>1. hist' = [hist EXCEPT !.pubs = @ + 1, !.published = turn]
      BY <1>3, <2>1 DEF Publish
    <3>2. hist' \in History
      BY <3>1, PublishType
    <3> QED
      BY <1>3, <2>1, <3>2 DEF Publish
  <2>2. CASE ~whole
    BY <1>3, <2>2 DEF Publish
  <2> QED
    BY <2>1, <2>2
<1>4. CASE Signal
  BY <1>4 DEF Signal
<1> QED
  BY <1>1, <1>2, <1>3, <1>4 DEF ReceiveThread

\* Looking at the flag keeps the history well-typed.
LEMMA LookType ==
  ASSUME hist \in History
  PROVE  [hist EXCEPT !.seen = hist.published, !.quiet = (hist.published = turn)] \in History
<1> DEFINE quiet == hist.published = turn
<1>1. quiet \in BOOLEAN
  BY Zenon
<1>2. [hist EXCEPT !.seen = hist.published, !.quiet = quiet] \in History
  <2> HIDE DEF quiet
  <2> QED BY <1>1 DEF History
<1> QED
  BY <1>2

\* ... and so does a hand-out.
LEMMA GrabType ==
  ASSUME hist \in History
  PROVE  [hist EXCEPT !.grabs = @ + 1] \in History
<1>1. hist.grabs + 1 \in Nat
  BY DEF History
<1> QED
  BY <1>1 DEF History

LEMMA LayerType == TypeOK /\ (LayerThread \/ WakesSpuriously) => TypeOK'
<1> SUFFICES ASSUME TypeOK, LayerThread \/ WakesSpuriously PROVE TypeOK'
  OBVIOUS
<1> USE DEF TypeOK, History, rxVars, mainVars
<1>1. CASE LayerLoop
  BY <1>1 DEF LayerLoop
<1>2. CASE WaitTimesOut \/ WakesSpuriously
  BY <1>2 DEF WaitTimesOut, WakesSpuriously
<1>3. CASE CheckReady
  <2>1. CASE ready
    <3>1. hist' \in History
      BY <1>3, <2>1, LookType DEF CheckReady
    <3> QED
      BY <1>3, <2>1, <3>1 DEF CheckReady
  <2>2. CASE ~ready
    BY <1>3, <2>2 DEF CheckReady
  <2> QED
    BY <2>1, <2>2
<1>4. CASE ResetReady
  BY <1>4, GrabType DEF ResetReady
<1>5. CASE StoreList
  <2>1. list' \in [Halves -> [Parts -> Nat]]
    BY <1>5 DEF StoreList
  <2>2. layer' \in {"second", "loop"} /\ alive' \in BOOLEAN
    BY <1>5 DEF StoreList
  <2> QED
    BY <1>5, <2>1, <2>2 DEF StoreList
<1>6. ASSUME NEW p \in Parts, CopyScan(p) PROVE TypeOK'
  <2>1. scan' \in [Parts -> Nat] /\ copied' \in SUBSET Parts
    BY <1>6 DEF CopyScan
  <2>2. layer' \in {"reset", "copy"}
    BY <1>6 DEF CopyScan
  <2> QED
    BY <1>6, <2>1, <2>2 DEF CopyScan
<1> HIDE DEF TypeOK, History, rxVars, mainVars
<1> QED
  BY <1>1, <1>2, <1>3, <1>4, <1>5, <1>6 DEF LayerThread

LEMMA MainType == TypeOK /\ MainThread => TypeOK'
<1> USE DEF TypeOK, rxVars, layerVars
<1>1. TypeOK /\ ReadList => TypeOK'
  BY DEF ReadList, Halves
<1>2. TypeOK /\ SendList => TypeOK'
  BY DEF SendList, Halves
<1>3. TypeOK /\ (Destroy \/ Join) => TypeOK'
  BY DEF Destroy, Join
<1> HIDE DEF TypeOK, rxVars, layerVars
<1> QED
  BY <1>1, <1>2, <1>3 DEF MainThread

LEMMA NextType == TypeOK /\ [Next]_vars => TypeOK'
<1>1. TypeOK /\ UNCHANGED vars => TypeOK'
  BY DEF vars, rxVars, layerVars, mainVars, TypeOK
<1> QED
  BY <1>1, ReceiveType, LayerType, MainType DEF Next

LEMMA AlwaysType == Spec => []TypeOK
BY InitType, NextType, PTL DEF Spec

-----------------------------------------------------------------------------
(* A publication is handed out once at most.                                *)

\* A hand-out is owed when the flag is set or the layer has seen it set.
Owed == ready \/ layer \in {"copy", "reset"}

\* Every hand-out, made or owed, has its publication.
Account ==
  hist.grabs + (IF Owed THEN 1 ELSE 0) <= hist.pubs + (IF hist.junk THEN 1 ELSE 0)

LEMMA NextAccount == TypeOK /\ Account /\ [Next]_vars => Account'
<1> SUFFICES ASSUME TypeOK, Account, [Next]_vars PROVE Account'
  OBVIOUS
<1>0. hist \in History /\ hist.grabs \in Nat /\ hist.pubs \in Nat
  BY DEF TypeOK, History
<1> USE DEF Account, Owed
<1>1. CASE TurnEnds
  BY <1>0, <1>1 DEF TurnEnds, layerVars, History
<1>2. CASE Publish
  <2>1. CASE whole
    <3>1. hist' = [hist EXCEPT !.pubs = @ + 1, !.published = turn]
      BY <1>2, <2>1 DEF Publish
    <3>2. /\ hist'.pubs = hist.pubs + 1 /\ hist'.grabs = hist.grabs
          /\ hist'.junk = hist.junk
      BY <1>0, <3>1 DEF History
    <3> QED
      BY <1>0, <3>2
  <2>2. CASE ~whole
    BY <1>2, <2>2 DEF Publish, layerVars
  <2> QED
    BY <2>1, <2>2
<1>3. CASE Signal
  BY <1>0, <1>3 DEF Signal
<1>4. CASE CheckReady
  <2>1. /\ hist'.pubs = hist.pubs /\ hist'.grabs = hist.grabs /\ hist'.junk = hist.junk
    <3>1. CASE ready
      BY <1>0, <1>4, <3>1 DEF CheckReady, History
    <3>2. CASE ~ready
      BY <1>4, <3>2 DEF CheckReady
    <3> QED
      BY <3>1, <3>2
  <2>2. Owed' => Owed
    BY <1>4 DEF CheckReady
  <2> QED
    BY <1>0, <2>1, <2>2
<1>5. CASE ResetReady
  BY <1>0, <1>5 DEF ResetReady, History
<1>6. ASSUME NEW p \in Parts, CopyScan(p) PROVE Account'
  BY <1>0, <1>6 DEF CopyScan
<1>7. CASE LayerLoop \/ WaitTimesOut \/ WakesSpuriously
  BY <1>0, <1>7 DEF LayerLoop, WaitTimesOut, WakesSpuriously
<1>8. CASE StoreList
  BY <1>0, <1>8 DEF StoreList, Halves
<1>9. CASE CopyTurn \/ MainThread \/ UNCHANGED vars
  BY <1>0, <1>9 DEF CopyTurn, MainThread, ReadList, SendList, Destroy, Join, vars, layerVars
<1> QED
  BY <1>1, <1>2, <1>3, <1>4, <1>5, <1>6, <1>7, <1>8, <1>9
     DEF Next, ReceiveThread, LayerThread

\* GrabFullScanBlocking: no turn is handed out more often than turns were published.
THEOREM NoFreeScans == Spec => []GrabsArePublished
<1>1. Init => Account
  BY DEF Init, Account, Owed
<1>2. TypeOK /\ Account => GrabsArePublished
  BY DEF Account, Owed, GrabsArePublished, TypeOK, History
<1> QED
  BY <1>1, <1>2, NextAccount, AlwaysType, PTL DEF Spec

-----------------------------------------------------------------------------
(* An undisturbed hand-out is whole.                                        *)

\* The parts the receive thread has written for the last turn.
Written == CASE rx = "first" -> {}
             [] rx = "second" -> {"first"}
             [] rx = "count" -> Halves
             [] OTHER -> Parts

\* full_scan_data_ holds the last turn as far as it is written, and a turn is
\* published only when all of it is.
Writing ==
  /\ \A p \in Written : full[p] = turn
  /\ hist.published <= turn
  /\ rx \in Parts \cup {"publish"} => hist.published < turn

\* An undisturbed copy is one of the last turn, as far as it is made.
Copying ==
  /\ hist.quiet => hist.seen = turn /\ hist.published = turn
  /\ layer \in {"reset", "first"} => copied = Parts
  /\ (hist.quiet /\ layer \in {"copy", "reset", "first"})
       => \A p \in copied : scan[p] = hist.seen

ScanInv == TypeOK /\ Writing /\ Copying

LEMMA InitScan == Init => ScanInv
<1> SUFFICES ASSUME Init PROVE Writing /\ Copying
  BY InitType DEF ScanInv
<1> QED
  BY DEF Init, Writing, Copying, Written, Parts, Halves

LEMMA ReceiveScan == ScanInv /\ ReceiveThread => Writing' /\ Copying'
<1> SUFFICES ASSUME ScanInv, ReceiveThread PROVE Writing' /\ Copying'
  OBVIOUS
<1> USE DEF ScanInv, Writing, Copying, Written
<1>0. /\ turn \in Nat /\ full \in [Parts -> Nat] /\ hist \in History
      /\ hist.published \in Nat
  BY DEF TypeOK, History
<1>1. CASE TurnEnds
  BY <1>0, <1>1 DEF TurnEnds, layerVars, History, Parts
<1>2. CASE CopyTurn
  <2>1. UNCHANGED <<turn, hist, layer, copied, scan>>
    BY <1>2 DEF CopyTurn, layerVars
  <2>2. CASE rx = "first"
    BY <1>0, <1>2, <2>1, <2>2 DEF CopyTurn, AfterPart, Parts
  <2>3. CASE rx = "second"
    BY <1>0, <1>2, <2>1, <2>3 DEF CopyTurn, AfterPart, Parts, Halves
  <2>4. CASE rx = "count"
    BY <1>0, <1>2, <2>1, <2>4 DEF CopyTurn, AfterPart, Parts, Halves
  <2> QED
    BY <1>2, <2>2, <2>3, <2>4 DEF CopyTurn, Parts
<1>3. CASE Publish
  <2>1. CASE whole
    <3>1. hist' = [hist EXCEPT !.pubs = @ + 1, !.published = turn]
      BY <1>3, <2>1 DEF Publish
    <3>2. hist'.published = turn /\ hist'.seen = hist.seen /\ hist'.quiet = hist.quiet
      BY <1>0, <3>1 DEF History
    <3>3. ~hist.quiet
      BY <1>0, <1>3 DEF Publish
    <3> QED
      BY <1>0, <1>3, <2>1, <3>2, <3>3 DEF Publish, layerVars, Parts
  <2>2. CASE ~whole
    BY <1>3, <2>2 DEF Publish, layerVars, Parts
  <2> QED
    BY <2>1, <2>2
<1>4. CASE Signal
  BY <1>0, <1>4 DEF Signal, Parts
<1> QED
  BY <1>1, <1>2, <1>3, <1>4 DEF ReceiveThread

LEMMA LayerScan == ScanInv /\ (LayerThread \/ WakesSpuriously) => Writing' /\ Copying'
<1> SUFFICES ASSUME ScanInv, LayerThread \/ WakesSpuriously PROVE Writing' /\ Copying'
  OBVIOUS
<1> USE DEF ScanInv
<1>0. /\ turn \in Nat /\ full \in [Parts -> Nat] /\ scan \in [Parts -> Nat]
      /\ hist \in History /\ hist.published \in Nat
  BY DEF TypeOK, History
<1>1. UNCHANGED <<rx, turn, full>>
  BY DEF LayerThread, LayerLoop, WaitTimesOut, WakesSpuriously, CheckReady, ResetReady,
         StoreList, CopyScan, rxVars
<1>2. hist'.published = hist.published
  BY <1>0 DEF LayerThread, LayerLoop, WaitTimesOut, WakesSpuriously, CheckReady, ResetReady,
         StoreList, CopyScan, History
<1>3. Writing'
  BY <1>1, <1>2 DEF Writing, Written
<1>4. Copying'
  <2> USE DEF Copying
  <2>1. CASE LayerLoop \/ WaitTimesOut \/ WakesSpuriously
    BY <1>1, <2>1 DEF LayerLoop, WaitTimesOut, WakesSpuriously
  <2>2. CASE CheckReady
    BY <1>0, <1>1, <2>2 DEF CheckReady, History
  <2>3. CASE ResetReady
    BY <1>0, <1>1, <2>3 DEF ResetReady, History
  <2>4. CASE StoreList
    BY <1>1, <2>4 DEF StoreList, Halves
  <2>5. ASSUME NEW p \in Parts, CopyScan(p) PROVE Copying'
    <3>1. hist.quiet => \A q \in copied' : scan'[q] = hist.seen
      <4>1. hist.quiet => rx \notin Parts
        BY <1>0 DEF Writing
      <4>2. hist.quiet => full[p] = hist.seen
        BY <4>1 DEF Writing, Written, Parts
      <4> QED
        BY <1>0, <2>5, <4>2 DEF CopyScan
    <3> QED
      BY <1>1, <2>5, <3>1 DEF CopyScan
  <2> QED
    BY <2>1, <2>2, <2>3, <2>4, <2>5 DEF LayerThread
<1> QED
  BY <1>3, <1>4

LEMMA NextScan == ScanInv /\ [Next]_vars => ScanInv'
<1> SUFFICES ASSUME ScanInv, [Next]_vars PROVE Writing' /\ Copying'
  BY NextType DEF ScanInv
<1>1. CASE MainThread \/ UNCHANGED vars
  <2>1. UNCHANGED <<rx, turn, full, layer, copied, scan, hist>>
    BY <1>1 DEF MainThread, ReadList, SendList, Destroy, Join, vars, rxVars, layerVars
  <2> QED
    BY <2>1 DEF ScanInv, Writing, Copying, Written
<1> QED
  BY <1>1, ReceiveScan, LayerScan DEF Next

\* The two threads, their buffers and what is counted of them keep to their types.
THEOREM ScansAreTyped == Spec => []TypeOK
<1>1. ScanInv => TypeOK
  BY DEF ScanInv
<1> QED
  BY <1>1, InitScan, NextScan, PTL DEF Spec

\* GrabFullScanBlocking: a hand-out during which no turn ends is the turn published
\* last, in all its parts.
THEOREM QuietGrabs == Spec => []QuietGrabIsWhole
<1>1. ScanInv => QuietGrabIsWhole
  BY DEF ScanInv, Copying, QuietGrabIsWhole, Grabbed
<1> QED
  BY <1>1, InitScan, NextScan, PTL DEF Spec
-----------------------------------------------------------------------------
(* Nothing older than the last publication is handed out.                   *)

\* full_scan_data_ never falls behind the last publication, nor does a copy behind
\* the one it began with.
Order ==
  /\ hist.seen <= hist.published
  /\ \A p \in Parts : full[p] >= hist.published
  /\ layer \in {"reset", "first"} => copied = Parts
  /\ layer \in {"copy", "reset", "first"} => \A p \in copied : scan[p] >= hist.seen

LEMMA ReceiveOrder == ScanInv /\ Order /\ ReceiveThread => Order'
<1> SUFFICES ASSUME ScanInv, Order, ReceiveThread PROVE Order'
  OBVIOUS
<1>0. /\ turn \in Nat /\ full \in [Parts -> Nat] /\ scan \in [Parts -> Nat]
      /\ hist \in History /\ hist.published \in Nat /\ hist.seen \in Nat
      /\ hist.published <= turn
  BY DEF ScanInv, TypeOK, History, Writing
<1> USE DEF Order
<1>1. CASE TurnEnds
  BY <1>0, <1>1 DEF TurnEnds, layerVars, History
<1>2. CASE CopyTurn
  BY <1>0, <1>2 DEF CopyTurn, layerVars
<1>3. CASE Publish
  <2>1. CASE whole
    <3>1. hist' = [hist EXCEPT !.pubs = @ + 1, !.published = turn]
      BY <1>3, <2>1 DEF Publish
    <3>2. hist'.published = turn /\ hist'.seen = hist.seen
      BY <1>0, <3>1 DEF History
    <3>3. \A p \in Parts : full[p] = turn
      BY <1>3 DEF ScanInv, Writing, Written, Publish
    <3> QED
      BY <1>0, <1>3, <2>1, <3>2, <3>3 DEF Publish, layerVars
  <2>2. CASE ~whole
    BY <1>3, <2>2 DEF Publish, layerVars
  <2> QED
    BY <2>1, <2>2
<1>4. CASE Signal
  BY <1>4 DEF Signal
<1> QED
  BY <1>1, <1>2, <1>3, <1>4 DEF ReceiveThread

LEMMA LayerOrder == ScanInv /\ Order /\ (LayerThread \/ WakesSpuriously) => Order'
<1> SUFFICES ASSUME ScanInv, Order, LayerThread \/ WakesSpuriously PROVE Order'
  OBVIOUS
<1>0. /\ full \in [Parts -> Nat] /\ scan \in [Parts -> Nat]
      /\ hist \in History /\ hist.published \in Nat /\ hist.seen \in Nat
  BY DEF ScanInv, TypeOK, History
<1> USE DEF Order
<1>1. CASE LayerLoop \/ WaitTimesOut \/ WakesSpuriously
  BY <1>1 DEF LayerLoop, WaitTimesOut, WakesSpuriously, rxVars
<1>2. CASE CheckReady
  <2>1. CASE ready
    <3>1. hist'.published = hist.published /\ hist'.seen = hist.published
      BY <1>0, <1>2, <2>1 DEF CheckReady, History
    <3> QED
      BY <1>0, <1>2, <2>1, <3>1 DEF CheckReady, rxVars
  <2>2. CASE ~ready
    BY <1>2, <2>2 DEF CheckReady, rxVars
  <2> QED
    BY <2>1, <2>2
<1>3. CASE ResetReady
  BY <1>0, <1>3 DEF ResetReady, rxVars, History
<1>4. CASE StoreList
  BY <1>4 DEF StoreList, rxVars, Halves
<1>5. ASSUME NEW p \in Parts, CopyScan(p) PROVE Order'
  BY <1>0, <1>5 DEF CopyScan, rxVars
<1> QED
  BY <1>1, <1>2, <1>3, <1>4, <1>5 DEF LayerThread

LEMMA NextOrder == ScanInv /\ Order /\ [Next]_vars => Order'
<1> SUFFICES ASSUME ScanInv, Order, [Next]_vars PROVE Order'
  OBVIOUS
<1>1. CASE MainThread \/ UNCHANGED vars
  BY <1>1 DEF Order, MainThread, ReadList, SendList, Destroy, Join, vars, rxVars, layerVars
<1> QED
  BY <1>1, ReceiveOrder, LayerOrder DEF Next

\* GrabFullScanBlocking: also a torn hand-out has no part from before the turn that
\* was published last when the flag was tested.
THEOREM GrabsAreRecent == Spec => []NothingOlder
<1>1. Init => Order
  BY DEF Init, Order, Parts
<1>2. ScanInv /\ Order => NothingOlder
  BY DEF Order, NothingOlder, Grabbed
<1> QED
  BY <1>1, <1>2, InitScan, NextScan, NextOrder, PTL DEF Spec

\* A hand-out is of one piece if no turn ended meanwhile, and never older than the
\* last publication.
THEOREM FreshGrabs == Spec => []GrabsAreFresh
<1>1. QuietGrabIsWhole /\ NothingOlder => GrabsAreFresh
  BY DEF GrabsAreFresh
<1> QED
  BY <1>1, QuietGrabs, GrabsAreRecent, PTL
=============================================================================
