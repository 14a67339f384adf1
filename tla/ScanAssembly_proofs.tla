-------------------------- MODULE ScanAssembly_proofs --------------------------
(***************************************************************************)
(* Theorems about ScanAssembly, for every number of points in a frame and  *)
(* in a turn, every resolution of the angles and every span of a frame     *)
(* that is short enough.                                                   *)
(***************************************************************************)
EXTENDS ScanAssembly, TLAPS

-----------------------------------------------------------------------------
(* The arithmetic of angles.                                                 *)

LEMMA Constants ==
  /\ PackPoints \in Nat /\ 2 <= PackPoints /\ MaxPoints \in Nat /\ Turn \in Nat /\ Turn >= 1
  /\ Tolerance \in Nat /\ FirstMax \in Nat
  /\ \A s \in Spans : s \in Nat /\ s + FirstMax + Tolerance < Turn
BY PackAssumption, AngleAssumption, SpanAssumption

LEMMA ModTurn ==
  ASSUME NEW x \in 0..(Turn - 1)
  PROVE  x % Turn = x /\ (x + Turn) % Turn = x
BY Constants

\* The difference of two angles.
LEMMA DiffIs ==
  ASSUME NEW a \in 0..(Turn - 1), NEW b \in 0..(Turn - 1)
  PROVE  Diff(a, b) = IF a <= b THEN b - a ELSE b - a + Turn
<1>1. CASE a <= b
  <2>1. b - a \in 0..(Turn - 1) /\ b + Turn - a = (b - a) + Turn
    BY <1>1, Constants
  <2> QED
    BY <1>1, <2>1, ModTurn DEF Diff
<1>2. CASE a > b
  <2>1. b - a + Turn \in 0..(Turn - 1) /\ b + Turn - a = b - a + Turn
    BY <1>2, Constants
  <2> QED
    BY <1>2, <2>1, ModTurn DEF Diff
<1> QED
  BY <1>1, <1>2

\* A frame's end is its start and its span.
LEMMA DiffIsSpan ==
  ASSUME NEW start \in 0..(Turn - 1), NEW span \in Spans
  PROVE  (start + span) % Turn \in 0..(Turn - 1) /\ Diff(start, (start + span) % Turn) = span
<1>0. span \in Nat /\ span < Turn /\ start \in Nat /\ start < Turn
  BY Constants
<1>1. CASE start + span < Turn
  <2>1. start + span \in 0..(Turn - 1) /\ (start + span) % Turn = start + span
    BY <1>0, <1>1, Constants, ModTurn
  <2> QED
    BY <1>0, <2>1, DiffIs
<1>2. CASE start + span >= Turn
  <2>1. start + span - Turn \in 0..(Turn - 1) /\ start + span = (start + span - Turn) + Turn
    BY <1>0, <1>2, Constants
  <2>2. (start + span) % Turn = start + span - Turn
    BY <2>1, ModTurn
  <2> QED
    BY <1>0, <2>1, <2>2, DiffIs, Constants
<1> QED
  BY <1>0, <1>1, <1>2, Constants

\* The angle between two points of a frame, so that all of them lie in its span.
Gap(span) == span \div (PackPoints - 1)

LEMMA GapInSpan ==
  ASSUME NEW span \in Nat
  PROVE  Gap(span) \in Nat /\ (PackPoints - 1) * Gap(span) <= span
BY Constants DEF Gap

LEMMA Monotone ==
  ASSUME NEW i \in Nat, NEW j \in Nat, i <= j, NEW g \in Nat
  PROVE  i * g \in Nat /\ j * g \in Nat /\ i * g <= j * g
BY SMT

\* Where point i lies, before a full turn is taken off.
At(start, span, i) == start + i * Gap(span)

LEMMA Places ==
  ASSUME NEW start \in 0..(Turn - 1), NEW span \in Spans
  PROVE  /\ \A i \in Indices : At(start, span, i) \in Nat /\ At(start, span, i) <= start + span
         /\ \A i, j \in Indices : i <= j => At(start, span, i) <= At(start, span, j)
         /\ \A i \in Indices : i > 0 => i - 1 \in Indices /\ At(start, span, i) = At(start, span, i - 1) + Gap(span)
         /\ At(start, span, 0) = start
<1>0. span \in Nat /\ Gap(span) \in Nat /\ start \in Nat /\ PackPoints - 1 \in Nat
  BY GapInSpan, Constants
<1>1. \A i, j \in Indices : i <= j => At(start, span, i) <= At(start, span, j)
  <2> SUFFICES ASSUME NEW i \in Indices, NEW j \in Indices, i <= j
               PROVE  At(start, span, i) <= At(start, span, j)
    OBVIOUS
  <2>1. i \in Nat /\ j \in Nat
    BY DEF Indices
  <2> QED
    BY <1>0, <2>1, Monotone DEF At
<1>2. \A i \in Indices : At(start, span, i) \in Nat /\ At(start, span, i) <= start + span
  <2> SUFFICES ASSUME NEW i \in Indices
               PROVE  At(start, span, i) \in Nat /\ At(start, span, i) <= start + span
    OBVIOUS
  <2>1. i \in Nat /\ i <= PackPoints - 1
    BY Constants DEF Indices
  <2>2. i * Gap(span) \in Nat /\ i * Gap(span) <= (PackPoints - 1) * Gap(span)
    BY <1>0, <2>1, Monotone
  <2> QED
    BY <1>0, <2>2, GapInSpan DEF At
<1>3. \A i \in Indices : i > 0 => i - 1 \in Indices /\ At(start, span, i) = At(start, span, i - 1) + Gap(span)
  BY <1>0, Constants DEF Indices, At
<1>4. At(start, span, 0) = start
  BY <1>0 DEF At
<1> QED
  BY <1>1, <1>2, <1>3, <1>4

\* The angles of a frame's points: a turn is taken off where they reach it, and so they only
\* fall there.
LEMMA Angles ==
  ASSUME NEW start \in 0..(Turn - 1), NEW span \in Spans, NEW end, end = (start + span) % Turn
  PROVE  /\ \A i \in Indices :
              /\ Angle(start, end, i) \in 0..(Turn - 1)
              /\ Angle(start, end, i) = IF At(start, span, i) >= Turn THEN At(start, span, i) - Turn ELSE At(start, span, i)
         /\ Diff(start, end) \div (PackPoints - 1) = Gap(span)
         /\ 0 \in Indices /\ PackPoints - 1 \in Indices /\ Angle(start, end, 0) = start
<1>0. span \in Nat /\ span < Turn /\ start \in Nat /\ start < Turn /\ Turn \in Nat
  BY Constants
<1>1. Diff(start, end) = span
  BY DiffIsSpan
<1>2. \A i \in Indices :
        Angle(start, end, i) = IF At(start, span, i) >= Turn THEN At(start, span, i) - Turn ELSE At(start, span, i)
  BY <1>1 DEF Angle, At, Gap
<1>3. \A i \in Indices : Angle(start, end, i) \in 0..(Turn - 1)
  <2> SUFFICES ASSUME NEW i \in Indices
               PROVE  Angle(start, end, i) \in 0..(Turn - 1)
    OBVIOUS
  <2>1. At(start, span, i) \in Nat /\ At(start, span, i) <= start + span
    BY Places
  <2> HIDE DEF At
  <2> QED
    BY <1>0, <1>2, <2>1
<1>4. 0 \in Indices /\ PackPoints - 1 \in Indices
  BY Constants DEF Indices
<1>5. Angle(start, end, 0) = start
  BY <1>0, <1>2, <1>4, Places
<1> QED
  BY <1>1, <1>2, <1>3, <1>4, <1>5 DEF Gap

\* A fall inside a frame is where the turn is taken off.
LEMMA FallInside ==
  ASSUME NEW start \in 0..(Turn - 1), NEW span \in Spans, NEW end, end = (start + span) % Turn,
         NEW i \in Indices, i > 0, FallsAt(start, end, i)
  PROVE  /\ i - 1 \in Indices /\ At(start, span, i - 1) < Turn /\ Turn <= At(start, span, i)
         /\ Angle(start, end, i) < Gap(span)
         /\ start > FirstMax
<1>0. span \in Nat /\ span + FirstMax + Tolerance < Turn /\ Turn \in Nat /\ Tolerance \in Nat /\ FirstMax \in Nat
  BY Constants
<1>1. /\ i - 1 \in Indices /\ At(start, span, i) = At(start, span, i - 1) + Gap(span)
      /\ At(start, span, i - 1) \in Nat /\ At(start, span, i) <= start + span /\ Gap(span) \in Nat
  BY <1>0, Places, GapInSpan
<1>2. Angle(start, end, i - 1) - Angle(start, end, i) > Tolerance
  BY DEF FallsAt
<1>3. /\ Angle(start, end, i) = IF At(start, span, i) >= Turn THEN At(start, span, i) - Turn ELSE At(start, span, i)
      /\ Angle(start, end, i - 1) =
           IF At(start, span, i - 1) >= Turn THEN At(start, span, i - 1) - Turn ELSE At(start, span, i - 1)
  BY <1>1, Angles
<1>4. At(start, span, i - 1) < Turn /\ Turn <= At(start, span, i)
  BY <1>0, <1>1, <1>2, <1>3
<1> QED
  BY <1>0, <1>1, <1>3, <1>4

\* There is only one.
LEMMA OneFallInside ==
  ASSUME NEW start \in 0..(Turn - 1), NEW span \in Spans, NEW end, end = (start + span) % Turn,
         NEW i \in Indices, NEW j \in Indices, 0 < i, i < j, FallsAt(start, end, i), FallsAt(start, end, j)
  PROVE  FALSE
<1>1. Turn <= At(start, span, i) /\ At(start, span, j - 1) < Turn /\ j - 1 \in Indices
  BY FallInside DEF Indices
<1>2. i <= j - 1 /\ At(start, span, i) \in Nat /\ At(start, span, j - 1) \in Nat /\ Turn \in Nat
  BY <1>1, Places, Constants DEF Indices
<1>3. At(start, span, i) <= At(start, span, j - 1)
  BY <1>1, <1>2, Places
<1> QED
  BY <1>1, <1>2, <1>3

-----------------------------------------------------------------------------
(* The invariant.                                                            *)

Turns == [n : Nat, first : 0..(Turn - 1), falls : BOOLEAN]

Shape == last \in 0..(Turn - 1) /\ temp \in Turns /\ full \in Turns /\ one \in {0, PackPoints}

\* A second fall among the points that begin a turn is where a frame passes the end of a turn
\* whose start was a fall already: so late a start is not published.
FallsBeginLate ==
  /\ temp.n > 0 /\ temp.falls => temp.first > FirstMax
  /\ full.n > 0 /\ full.falls => full.first > FirstMax
  /\ ready /\ full.n > 0 => full.first <= FirstMax

\* A turn without gaps has begun soon after the end of the one before.
WholeBegins == ~missed /\ (whole => temp.n > 0 /\ temp.first <= FirstMax)

\* Nothing has been collected only before the first frame or since a buffer was emptied.
EmptyExplained ==
  ~emptied => /\ full.n = 0 => full = Nothing
              /\ one = 0 => full = Nothing
              /\ temp.n = 0 => last = 0

IInv == Shape /\ FallsBeginLate /\ WholeBegins /\ EmptyExplained

\* The turn that a fall begins, begins less than a gap after the end of the one before.
LEMMA BeginsSoon ==
  ASSUME last \in 0..(Turn - 1), NEW start \in 0..(Turn - 1), NEW span \in Spans,
         NEW end, end = (start + span) % Turn,
         NEW i \in Indices, FallsAt(start, end, i), GapFree(start, end)
  PROVE  Angle(start, end, i) <= FirstMax
<1>0. Turn \in Nat /\ Tolerance \in Nat /\ FirstMax \in Nat /\ Gap(span) \in Nat
  BY Constants, GapInSpan
<1>1. CASE i = 0
  <2>1. last - start > Tolerance /\ Angle(start, end, i) = start
    BY <1>1, Angles DEF FallsAt
  <2>2. start - last + Turn <= FirstMax
    BY <1>0, <2>1, DiffIs DEF GapFree
  <2> QED
    BY <1>0, <2>1, <2>2
<1>2. CASE i # 0
  <2>1. Gap(span) <= FirstMax
    BY Angles DEF GapFree
  <2>2. Angle(start, end, i) < Gap(span) /\ Angle(start, end, i) \in 0..(Turn - 1)
    BY <1>2, FallInside, Angles DEF Indices
  <2> QED
    BY <1>0, <2>1, <2>2
<1> QED
  BY <1>1, <1>2

LEMMA EndTurnStep ==
  ASSUME IInv, NEW start \in 0..(Turn - 1), NEW span \in Spans, NEW end, end = (start + span) % Turn,
         EndTurn(start, end)
  PROVE  IInv'
<1>0. Turn \in Nat /\ Tolerance \in Nat /\ FirstMax \in Nat /\ PackPoints \in Nat /\ 2 <= PackPoints
  BY Constants
<1>1. PICK i \in Indices :
        /\ FallsAt(start, end, i) /\ \A j \in Indices : j < i => ~FallsAt(start, end, j)
        /\ full' = Before(start, i)
        /\ temp' = Rest(start, end, i)
  BY DEF EndTurn
<1>2. /\ last' = Angle(start, end, PackPoints - 1) /\ one' = PackPoints
      /\ whole' = GapFree(start, end)
      /\ missed' = (missed \/ (whole /\ GapFree(start, end) /\ ~ready'))
  BY DEF EndTurn, OneScan
<1>3. (ready' <=> full'.first <= FirstMax) /\ (emptied' <=> emptied /\ full'.n = 0)
  <2>1. ready' = IsFull(full') /\ emptied' = (emptied /\ full'.n = 0)
    BY DEF EndTurn
  <2> QED
    BY <2>1, Zenon DEF IsFull
<1>4. /\ \A j \in Indices : Angle(start, end, j) \in 0..(Turn - 1)
      /\ 0 \in Indices /\ PackPoints - 1 \in Indices /\ Angle(start, end, 0) = start
  BY Angles
<1>5. i \in Nat /\ i <= PackPoints - 1 /\ temp \in Turns /\ full \in Turns /\ last \in 0..(Turn - 1)
  BY <1>0 DEF Indices, IInv, Shape
<1>6. /\ full' \in Turns /\ full'.n = temp.n + i
      /\ full'.first = IF temp.n > 0 THEN temp.first ELSE IF i > 0 THEN start ELSE full.first
      /\ full'.falls <=> temp.n > 0 /\ temp.falls
  <2> DEFINE first == IF temp.n > 0 THEN temp.first ELSE IF i > 0 THEN start ELSE full.first
  <2>1. first \in 0..(Turn - 1) /\ temp.n + i \in Nat
    BY <1>5 DEF Turns
  <2>2. full' = [n |-> temp.n + i, first |-> first, falls |-> temp.n > 0 /\ temp.falls]
    BY <1>1 DEF Before
  <2> HIDE DEF first
  <2>3. CASE temp.n > 0 /\ temp.falls
    <3>1. full' = [n |-> temp.n + i, first |-> first, falls |-> TRUE]
      BY <2>2, <2>3
    <3> QED
      BY <2>1, <2>3, <3>1 DEF Turns, first
  <2>4. CASE ~(temp.n > 0 /\ temp.falls)
    <3>1. full' = [n |-> temp.n + i, first |-> first, falls |-> FALSE]
      BY <2>2, <2>4
    <3> QED
      BY <2>1, <2>4, <3>1 DEF Turns, first
  <2> QED
    BY <2>3, <2>4
<1>7. /\ temp' \in Turns /\ temp'.n = PackPoints - i /\ temp'.first = Angle(start, end, i)
      /\ temp'.falls <=> \E j \in Indices : j > i /\ FallsAt(start, end, j)
  BY <1>0, <1>1, <1>4, <1>5 DEF Rest, Turns
<1>8. Shape'
  BY <1>2, <1>4, <1>6, <1>7 DEF Shape
<1>9. FallsBeginLate'
  <2>1. temp'.falls => temp'.first > FirstMax
    <3> SUFFICES ASSUME NEW j \in Indices, j > i, FallsAt(start, end, j)
                 PROVE  Angle(start, end, i) > FirstMax
      BY <1>7
    <3>1. j > 0
      BY <1>5 DEF Indices
    <3>2. i = 0
      BY <1>1, <1>5, OneFallInside
    <3> QED
      BY <1>4, <3>1, <3>2, FallInside
  <2>2. full'.n > 0 /\ full'.falls => full'.first > FirstMax
    BY <1>6 DEF IInv, FallsBeginLate
  <2> QED
    BY <1>3, <2>1, <2>2 DEF FallsBeginLate
<1>10. WholeBegins'
  <2>1. whole' => temp'.n > 0 /\ temp'.first <= FirstMax
    BY <1>0, <1>1, <1>2, <1>5, <1>7, BeginsSoon
  <2>2. whole => ready'
    BY <1>3, <1>5, <1>6 DEF IInv, WholeBegins, Turns
  <2>3. ~missed'
    BY <1>2, <2>2, Zenon DEF IInv, WholeBegins
  <2> QED
    BY <2>1, <2>3 DEF WholeBegins
<1>11. EmptyExplained'
  <2>1. ~emptied /\ temp.n = 0 => i # 0
    BY <1>0, <1>1, <1>4, <1>5 DEF IInv, EmptyExplained, FallsAt
  <2>2. full'.n = 0 => emptied'
    BY <1>3, <1>5, <1>6, <2>1 DEF Turns
  <2>3. temp'.n # 0 /\ one' # 0
    BY <1>0, <1>2, <1>5, <1>7
  <2> QED
    BY <2>2, <2>3 DEF EmptyExplained
<1> QED
  BY <1>8, <1>9, <1>10, <1>11 DEF IInv

LEMMA AppendStep ==
  ASSUME IInv, NEW start \in 0..(Turn - 1), NEW span \in Spans, NEW end, end = (start + span) % Turn,
         Append(start, end)
  PROVE  IInv'
<1>0. PackPoints \in Nat /\ 2 <= PackPoints
  BY Constants
<1>1. /\ last' = Angle(start, end, PackPoints - 1) /\ one' = PackPoints
      /\ UNCHANGED <<full, ready, missed, emptied>>
      /\ \A i \in Indices : ~FallsAt(start, end, i)
  BY DEF Append, OneScan
<1>2. temp \in Turns /\ full \in Turns /\ last \in 0..(Turn - 1)
  BY DEF IInv, Shape
<1>3. /\ temp' \in Turns /\ temp'.n = temp.n + PackPoints
      /\ temp'.first = IF temp.n = 0 THEN start ELSE temp.first
      /\ temp'.falls <=> temp.n > 0 /\ temp.falls
  <2> DEFINE first == IF temp.n = 0 THEN start ELSE temp.first
  <2>1. first \in 0..(Turn - 1) /\ temp.n + PackPoints \in Nat
    BY <1>0, <1>2 DEF Turns
  <2>2. temp' = [n |-> temp.n + PackPoints, first |-> first, falls |-> temp.n > 0 /\ temp.falls]
    BY DEF Append
  <2> HIDE DEF first
  <2>3. CASE temp.n > 0 /\ temp.falls
    <3>1. temp' = [n |-> temp.n + PackPoints, first |-> first, falls |-> TRUE]
      BY <2>2, <2>3
    <3> QED
      BY <2>1, <2>3, <3>1 DEF Turns, first
  <2>4. CASE ~(temp.n > 0 /\ temp.falls)
    <3>1. temp' = [n |-> temp.n + PackPoints, first |-> first, falls |-> FALSE]
      BY <2>2, <2>4
    <3> QED
      BY <2>1, <2>4, <3>1 DEF Turns, first
  <2> QED
    BY <2>3, <2>4
<1>4. whole' => whole
  BY Zenon DEF Append
<1>5. Shape'
  BY <1>1, <1>2, <1>3, Angles DEF IInv, Shape
<1>6. FallsBeginLate'
  BY <1>1, <1>2, <1>3 DEF IInv, FallsBeginLate, Turns
<1>7. WholeBegins'
  BY <1>0, <1>1, <1>2, <1>3, <1>4 DEF IInv, WholeBegins, Turns
<1>8. EmptyExplained'
  BY <1>0, <1>1, <1>2, <1>3 DEF IInv, EmptyExplained, Turns
<1> QED
  BY <1>5, <1>6, <1>7, <1>8 DEF IInv

LEMMA OverflowStep ==
  ASSUME IInv, Overflow
  PROVE  IInv'
<1>1. /\ temp' = [temp EXCEPT !.n = 0] /\ whole' = FALSE /\ emptied' = TRUE
      /\ UNCHANGED <<last, full, ready, one, missed>>
  BY DEF Overflow, oneScan
<1>2. temp' \in Turns /\ temp'.n = 0
  BY <1>1 DEF IInv, Shape, Turns
<1> QED
  BY <1>1, <1>2 DEF IInv, Shape, FallsBeginLate, WholeBegins, EmptyExplained

\* The grabs of the user, and the emptying by Deactive.
LEMMA UserStep ==
  ASSUME IInv, GrabFullScan \/ GrabFullScanBlocking \/ GrabOneScan \/ GrabOneScanBlocking \/ Deactive
  PROVE  IInv'
<1>1. CASE Deactive
  <2>1. /\ full' = [full EXCEPT !.n = 0] /\ one' = 0 /\ emptied' = TRUE
        /\ UNCHANGED <<last, temp, ready, whole, missed>>
    BY <1>1 DEF Deactive
  <2>2. full' \in Turns /\ full'.n = 0
    BY <2>1 DEF IInv, Shape, Turns
  <2> QED
    BY <2>1, <2>2 DEF IInv, Shape, FallsBeginLate, WholeBegins, EmptyExplained
<1>2. CASE GrabFullScan \/ GrabFullScanBlocking \/ GrabOneScan \/ GrabOneScanBlocking
  <2>1. (ready' = FALSE \/ ready' = ready) /\ UNCHANGED <<last, temp, full, one, whole, missed, emptied>>
    BY <1>2 DEF GrabFullScan, GrabFullScanBlocking, GrabOneScan, GrabOneScanBlocking, oneScan
  <2> QED
    BY <2>1 DEF IInv, Shape, FallsBeginLate, WholeBegins, EmptyExplained
<1> QED
  BY <1>1, <1>2

LEMMA InvHolds == Spec => []IInv
<1>1. Init => IInv
  <2> SUFFICES ASSUME Init
               PROVE  IInv
    OBVIOUS
  <2>1. 0 \in 0..(Turn - 1) /\ Nothing \in Turns /\ Nothing.n = 0
    BY Constants DEF Nothing, Turns
  <2> QED
    BY <2>1 DEF Init, IInv, Shape, FallsBeginLate, WholeBegins, EmptyExplained
<1>2. IInv /\ [Next]_vars => IInv'
  <2> SUFFICES ASSUME IInv, [Next]_vars
               PROVE  IInv'
    OBVIOUS
  <2>1. ASSUME NEW start \in 0..(Turn - 1), NEW span \in Spans, Frame(start, (start + span) % Turn)
        PROVE  IInv'
    BY <2>1, EndTurnStep, AppendStep, OverflowStep, Zenon DEF Frame
  <2>2. CASE UNCHANGED vars
    BY <2>2 DEF vars, oneScan, IInv, Shape, FallsBeginLate, WholeBegins, EmptyExplained
  <2> QED
    BY <2>1, <2>2, UserStep, Zenon DEF Next
<1> QED
  BY <1>1, <1>2, PTL DEF Spec

-----------------------------------------------------------------------------
\* A frame's points fit behind those already collected, also those moved to the front after a
\* turn's end: neither buffer ever holds more than POINT_CIRCLE_MAX_SIZE points.
THEOREM BuffersSuffice == Spec => []TypeOK
<1> DEFINE Bounds == temp.n <= MaxPoints /\ full.n <= MaxPoints
           Flags  == {ready, oneReady, whole, missed, emptied} \subseteq BOOLEAN
<1>1. Init => Bounds /\ Flags
  <2>1. Nothing.n = 0 /\ 0 <= MaxPoints
    BY PackAssumption DEF Nothing
  <2> QED
    BY <2>1 DEF Init
<1>2. IInv /\ Bounds /\ [Next]_vars => Bounds'
  <2> SUFFICES ASSUME IInv, Bounds, [Next]_vars PROVE Bounds'
    OBVIOUS
  <2>0. /\ PackPoints \in Nat /\ MaxPoints \in Nat /\ PackPoints < MaxPoints
        /\ temp \in Turns /\ full \in Turns /\ temp.n \in Nat /\ full.n \in Nat
    BY PackAssumption DEF IInv, Shape, Turns
  <2>1. ASSUME NEW start, NEW end, EndTurn(start, end)
        PROVE  Bounds'
    <3>1. PICK i \in Indices : full' = Before(start, i) /\ temp' = Rest(start, end, i)
      BY <2>1 DEF EndTurn
    <3>2. full'.n = temp.n + i /\ temp'.n = PackPoints - i
      BY <3>1 DEF Before, Rest
    <3> QED
      BY <2>0, <2>1, <3>2 DEF EndTurn, HasRoom, Indices
  <2>2. ASSUME NEW start, NEW end, Append(start, end)
        PROVE  Bounds'
    <3>1. temp'.n = temp.n + PackPoints /\ full' = full
      BY <2>2 DEF Append
    <3> QED
      BY <2>0, <2>2, <3>1 DEF Append, HasRoom
  <2>3. CASE Overflow
    BY <2>0, <2>3 DEF Overflow, Turns
  <2>4. CASE GrabFullScan \/ GrabFullScanBlocking \/ GrabOneScan \/ GrabOneScanBlocking
    BY <2>4 DEF GrabFullScan, GrabFullScanBlocking, GrabOneScan, GrabOneScanBlocking
  <2>5. CASE Deactive
    BY <2>0, <2>5 DEF Deactive, Turns
  <2>6. CASE UNCHANGED vars
    BY <2>6 DEF vars
  <2> HIDE DEF Bounds
  <2> QED
    BY <2>1, <2>2, <2>3, <2>4, <2>5, <2>6, Zenon DEF Next, Frame
<1>3. Flags /\ [Next]_vars => Flags'
  <2> SUFFICES ASSUME Flags, [Next]_vars PROVE Flags'
    OBVIOUS
  <2>1. ASSUME NEW start, NEW end, EndTurn(start, end)
        PROVE  Flags'
    BY <2>1 DEF EndTurn, OneScan, IsFull, GapFree
  <2>2. ASSUME NEW start, NEW end, Append(start, end)
        PROVE  Flags'
    BY <2>2 DEF Append, OneScan, GapFree
  <2>3. CASE Overflow
    BY <2>3 DEF Overflow, oneScan
  <2>4. CASE GrabFullScan \/ GrabFullScanBlocking \/ GrabOneScan \/ GrabOneScanBlocking
    BY <2>4 DEF GrabFullScan, GrabFullScanBlocking, GrabOneScan, GrabOneScanBlocking, oneScan
  <2>5. CASE Deactive
    BY <2>5 DEF Deactive
  <2>6. CASE UNCHANGED vars
    BY <2>6 DEF vars, oneScan
  <2> HIDE DEF Flags
  <2> QED
    BY <2>1, <2>2, <2>3, <2>4, <2>5, <2>6, Zenon DEF Next, Frame
<1>4. IInv /\ Bounds /\ Flags => TypeOK
  BY PackAssumption DEF IInv, Shape, Turns, Points, TypeOK
<1> QED
  BY <1>1, <1>2, <1>3, <1>4, InvHolds, PTL DEF Spec

\* Whatever frames are lost, repeated or cut short, the angles of a published turn ascend: the
\* one fall that the loop overlooks begins a turn that comes too late to be published.
THEOREM PublishedAscend == Spec => []PublishedTurnsAscend
<1>1. IInv => PublishedTurnsAscend
  BY Constants DEF IInv, FallsBeginLate, PublishedTurnsAscend, Shape, Turns
<1> QED
  BY <1>1, InvHolds, PTL

\* A turn that ends and begins without a gap begins early enough to be published.
THEOREM NoTurnMissed == Spec => []WholeTurnsPublished
<1>1. IInv => WholeTurnsPublished
  BY DEF IInv, WholeBegins, WholeTurnsPublished
<1> QED
  BY <1>1, InvHolds, PTL

\* Only the limit and Deactive put an empty turn up for grabs: the first frame of all cannot
\* fall, as the angle before it is 0.
THEOREM EmptyTurnsHaveCause == Spec => []EmptyTurnsExplained
<1>1. IInv => EmptyTurnsExplained
  BY DEF IInv, EmptyExplained, EmptyTurnsExplained
<1> QED
  BY <1>1, InvHolds, PTL
=============================================================================
