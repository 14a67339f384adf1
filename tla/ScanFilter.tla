----------------------------- MODULE ScanFilter -----------------------------
(***************************************************************************)
(* The lidar SDK's filters of a full scan (FullScanFilter.cpp), on the     *)
(* distances of its points in millimetres, 0 for a point without an echo.  *)
(* An operator returns the set of the scans a filter may return: floating- *)
(* point weights are left open within their bounds, and so is whatever     *)
(* undefined behaviour computes.                                           *)
(***************************************************************************)
EXTENDS Integers, Sequences, FiniteSets, FiniteSetsExt

CONSTANT Undefined  \* the distances that undefined behaviour is taken to return

Window == 2         \* w_r
MaxRange == 150     \* FilterPara's defaults: minRange, maxRange
MinRange == 0
Gap(a, b) == IF a >= b THEN a - b ELSE b - a

isValidRange(distance) == distance \in MinRange..MaxRange

-----------------------------------------------------------------------------
\* Mutant: the window ends one point early.
NearShort(d, i) == {j \in i - Window .. i + Window - 1 : d[j] # 0 /\ Gap(d[i], d[j]) < 40}

\* Mutant: points without an echo take part.
NearAll(d, i) == {j \in i - Window .. i + Window : Gap(d[i], d[j]) < 40}

\* The points of the window that take part in the mean.
Near(d, i) == {j \in i - Window .. i + Window : d[j] # 0 /\ Gap(d[i], d[j]) < 40}

\* What the points of the window around i add up to.
Total(f(_), i) == f(i - 2) + f(i - 1) + f(i) + f(i + 1) + f(i + 2)

\* sum_value over cnt.
Mean(d, i) ==
  LET near == Near(d, i)
  IN  Total(LAMBDA j : IF j \in near THEN d[j] ELSE 0, i) \div Total(LAMBDA j : IF j \in near THEN 1 ELSE 0, i)

\* smooth_filter: its median is computed, of the wrong points, but not used.
SmoothFilter(d) ==
  IF Len(d) < 5 THEN d
  ELSE [i \in DOMAIN d |->
         IF i \in Window + 1 .. Len(d) - Window /\ isValidRange(d[i]) /\ Near(d, i) # {} THEN Mean(d, i) ELSE d[i]]

-----------------------------------------------------------------------------
\* bilateral_filter's scan continues before its first point with its last ones. After the last
\* point, where the first ones were put, they are overwritten: only zeros are left.
Padded(d, j) == CASE j < 1 -> d[Len(d) + j] [] j \in DOMAIN d -> d[j] [] OTHER -> 0

\* A difference is kept in 16 bits without a sign and its square in 32 with one, which a
\* neighbour that is farther by less overflows.
Overflow == 65536 - 46340

\* The weight of a neighbour that differs by more is too small for a float: the square over
\* 2 * Sigma_R * Sigma_R, an integer, is above 103.
Reach == 43

\* The mean of those with a weight, truncated: the rounding of floats may make it one less than
\* the least of them. Without any it is 0 / 0, which is no integer.
BilateralAt(d, i) ==
  LET seen == {Padded(d, j) : j \in i - Window .. i + Window} \ {0}
      near == {v \in seen : (d[i] - v) % 65536 <= Reach}
  IN CASE ~isValidRange(d[i]) -> {d[i]}
       [] isValidRange(d[i]) /\ (near = {} \/ \E v \in seen : v > d[i] /\ v - d[i] < Overflow) -> Undefined
       [] OTHER -> (Min(near) - 1)..Max(near)

BilateralFilter(d) ==
  IF Len(d) < 3 THEN {d}
  ELSE {e \in [DOMAIN d -> UNION {BilateralAt(d, i) : i \in DOMAIN d}] : \A i \in DOMAIN d : e[i] \in BilateralAt(d, i)}

-----------------------------------------------------------------------------
\* tail_filter compares a point with two on either side. Those before the first are outside the
\* array, and those after the last are left from an earlier turn.
MayBeTail(d, i) ==
  {j \in {i - 2, i - 1, i + 1, i + 2} : j \notin DOMAIN d \/ Gap(d[i], d[j]) \in 21..79}

\* How many such neighbours, seen at a small angle, it takes; an unknown level takes none.
PointNumThreshold(level) == CASE level \in 0..2 -> 2 [] level = 3 -> 1 [] OTHER -> 0

TailAt(d, i, level) ==
  CASE d[i] = 0 -> {0}
    [] d[i] # 0 /\ level \notin 0..3 -> {0}
    [] d[i] # 0 /\ level \in 0..3 ->
         IF Cardinality(MayBeTail(d, i)) >= PointNumThreshold(level) THEN {0, d[i]} ELSE {d[i]}

TailFilter(d, level) ==
  {e \in [DOMAIN d -> UNION {TailAt(d, i, level) : i \in DOMAIN d}] : \A i \in DOMAIN d : e[i] \in TailAt(d, i, level)}

-----------------------------------------------------------------------------
\* intensity_filter tests the intensity against the negated threshold ("<-"), which is never
\* passed at the default, positive one.
IntensityFilter(d, intensity, range, threshold) ==
  [i \in DOMAIN d |-> IF d[i] < range /\ intensity[i] < -threshold THEN 0 ELSE d[i]]
=============================================================================
