---------------------------- MODULE ScanAssembly ----------------------------
(***************************************************************************)
(* How the lidar driver makes turns out of frames (uart_data_handle after  *)
(* the CRC, point_data_parse_frame_ms200). Every frame holds PackPoints    *)
(* points whose angles are interpolated between the frame's two; points    *)
(* are collected in temp_data until an angle falls, which ends the turn.   *)
(*                                                                         *)
(* Of a collection of points the model keeps how many there are, the angle *)
(* of the first and whether an angle falls somewhere among them. Angles    *)
(* are whole numbers; the rounding of floats is left out.                  *)
(***************************************************************************)
EXTENDS Integers

CONSTANTS PackPoints, \* POINT_PER_PACK: 12
          MaxPoints,  \* POINT_CIRCLE_MAX_SIZE
          Turn,       \* 360 degrees: 36000
          Tolerance,  \* a fall of more than 1 degree ends a turn
          FirstMax,   \* a turn that begins after 10 degrees is not published
          Spans       \* the angles a frame may span

\* A frame spans much less than a turn (about 7 of 360 degrees on the MS200).
ASSUME PackAssumption == PackPoints \in Nat /\ 2 <= PackPoints /\ MaxPoints \in Nat /\ PackPoints < MaxPoints
ASSUME AngleAssumption == Turn \in Nat \ {0} /\ Tolerance \in Nat /\ FirstMax \in Nat
ASSUME SpanAssumption == \A s \in Spans : s \in Nat /\ s + FirstMax + Tolerance < Turn

VARIABLES
  last,   \* the static last_angle
  temp,   \* temp_data
  full,   \* full_scan_data_
  ready,  \* full_scan_ready_
  one,    \* the number of points in one_scan_data_, which holds the points of a frame
  oneReady, \* one_scan_ready_
  whole,  \* history: temp began with a turn's end and no gap came since
  missed, \* history: a turn without gaps was not published
  emptied \* history: the limit or Deactive emptied a buffer since the last turn

oneScan == <<one, oneReady>>
vars == <<last, temp, full, ready, oneScan, whole, missed, emptied>>

\* At most MaxPoints, of the MaxPoints + 1 that the buffers have room for, also when a
\* turn never ends because the lidar stands still.
Points == [n : 0..MaxPoints, first : 0..(Turn - 1), falls : BOOLEAN]

TypeOK ==
  /\ last \in 0..(Turn - 1)
  /\ temp \in Points /\ full \in Points
  /\ one \in {0, PackPoints}
  /\ {ready, oneReady, whole, missed, emptied} \subseteq BOOLEAN

Nothing == [n |-> 0, first |-> 0, falls |-> FALSE]

Init ==
  /\ last = 0 /\ temp = Nothing /\ full = Nothing
  /\ one = 0
  /\ ready \in BOOLEAN /\ oneReady \in BOOLEAN \* not initialised
  /\ whole = FALSE /\ missed = FALSE /\ emptied = FALSE

-----------------------------------------------------------------------------
(* A frame with the angles start and end.                                   *)

Diff(start, end) == (end + Turn - start) % Turn

\* The angle of point i.
Angle(start, end, i) ==
  LET a == start + i * (Diff(start, end) \div (PackPoints - 1))
  IN IF a >= Turn THEN a - Turn ELSE a

\* The angle before point i falls to it.
FallsAt(start, end, i) ==
  (IF i = 0 THEN last ELSE Angle(start, end, i - 1)) - Angle(start, end, i) > Tolerance

Indices == 0..(PackPoints - 1)

\* No gap between the point before, and among the points, of this frame.
GapFree(start, end) ==
  /\ Diff(last, start) <= FirstMax
  /\ Diff(start, end) \div (PackPoints - 1) <= FirstMax

HasRoom == temp.n + PackPoints < MaxPoints

\* Mutant: every turn is published.
AnyTurn(points) == TRUE

\* Mutant: the first angle is compared with the tolerance.
BeginsAtZero(points) == points.first <= Tolerance

\* full_scan_data_.data[0].angle > 10: not a full scan.
IsFull(points) == points.first <= FirstMax

\* The points in front of point i, which are what is published; of none at all the first
\* angle is the one of the turn before.
Before(start, i) ==
  [n     |-> temp.n + i,
   first |-> IF temp.n > 0 THEN temp.first ELSE IF i > 0 THEN start ELSE full.first,
   falls |-> temp.n > 0 /\ temp.falls]

\* Mutant: the rest of the frame is lost with the turn.
DropRest(start, end, i) == Nothing

\* Point i and those after it, moved to the front of temp_data; a second fall among them
\* is not looked for.
Rest(start, end, i) ==
  [n     |-> PackPoints - i,
   first |-> Angle(start, end, i),
   falls |-> \E j \in Indices : j > i /\ FallsAt(start, end, j)]

\* The points of every frame are published by themselves.
OneScan == one' = PackPoints /\ oneReady' = TRUE

\* The first fall, at point i, ends the turn.
EndTurn(start, end) ==
  /\ HasRoom /\ OneScan
  /\ \E i \in Indices :
       /\ FallsAt(start, end, i) /\ \A j \in Indices : j < i => ~FallsAt(start, end, j)
       /\ full' = Before(start, i)
       /\ temp' = Rest(start, end, i)
  /\ ready' = IsFull(full')
  /\ last' = Angle(start, end, PackPoints - 1)
  /\ whole' = GapFree(start, end)
  /\ missed' = (missed \/ (whole /\ GapFree(start, end) /\ ~ready'))
  /\ emptied' = (emptied /\ full'.n = 0)

\* No fall: the points are appended.
Append(start, end) ==
  /\ HasRoom /\ OneScan
  /\ \A i \in Indices : ~FallsAt(start, end, i)
  /\ temp' = [n     |-> temp.n + PackPoints,
              first |-> IF temp.n = 0 THEN start ELSE temp.first,
              falls |-> temp.n > 0 /\ temp.falls]
  /\ last' = Angle(start, end, PackPoints - 1)
  /\ whole' = (whole /\ GapFree(start, end))
  /\ UNCHANGED <<full, ready, missed, emptied>>

\* The turn is too long: it is thrown away with the frame, and last_angle stays.
Overflow ==
  /\ ~HasRoom
  /\ temp' = [temp EXCEPT !.n = 0]
  /\ whole' = FALSE /\ emptied' = TRUE
  /\ UNCHANGED <<last, full, ready, oneScan, missed>>

Frame(start, end) == EndTurn(start, end) \/ Append(start, end) \/ Overflow

\* GrabFullScan and its blocking form, of which only the first tests the count.
GrabFullScan == /\ full.n # 0 /\ ready
                /\ ready' = FALSE
                /\ UNCHANGED <<last, temp, full, oneScan, whole, missed, emptied>>

GrabFullScanBlocking == /\ ready
                        /\ ready' = FALSE
                        /\ UNCHANGED <<last, temp, full, oneScan, whole, missed, emptied>>

\* The same for the points of one frame.
GrabOneScan == /\ one # 0 /\ oneReady
               /\ oneReady' = FALSE
               /\ UNCHANGED <<last, temp, full, ready, one, whole, missed, emptied>>

GrabOneScanBlocking == /\ oneReady
                       /\ oneReady' = FALSE
                       /\ UNCHANGED <<last, temp, full, ready, one, whole, missed, emptied>>

\* Deactive, on another thread, empties what is published but does not withdraw it.
Deactive == /\ full' = [full EXCEPT !.n = 0] /\ one' = 0
            /\ emptied' = TRUE
            /\ UNCHANGED <<last, temp, ready, oneReady, whole, missed>>

Next ==
  \/ \E start \in 0..(Turn - 1) : \E span \in Spans : Frame(start, (start + span) % Turn)
  \/ GrabFullScan \/ GrabFullScanBlocking \/ GrabOneScan \/ GrabOneScanBlocking \/ Deactive

Spec == Init /\ [][Next]_vars

-----------------------------------------------------------------------------
(* Properties.                                                              *)

\* In a published turn the angles never fall by more than the tolerance, whatever frames
\* were lost or repeated: the fall that the loop does not look for, the second one of a
\* frame, only occurs in a turn that begins too late to be published.
PublishedTurnsAscend == ready /\ full.n > 0 => ~full.falls

\* A turn during which nothing was lost is published.
WholeTurnsPublished == ~missed

\* An empty turn, or one frame's empty scan, is up for grabs only after the limit or
\* Deactive emptied a buffer (or, before the first turn, because neither flag is
\* initialised).
EmptyTurnsExplained ==
  (ready /\ full.n = 0) \/ (oneReady /\ one = 0) => emptied \/ full = Nothing
=============================================================================
