----------------------------- MODULE ScanPoints -----------------------------
(***************************************************************************)
(* What the lidar layer makes of a scan before it publishes it             *)
(* (LidarLayer.cpp): angles turned by half a turn, and ranges interpolated *)
(* at Targets angles (360 in the code). An angle is counted in Fine parts  *)
(* of the distance between two targets.                                    *)
(***************************************************************************)
EXTENDS Integers, Sequences, Functions, SequencesExt

CONSTANTS Targets, Fine
ASSUME ScaleAssumption == Targets \in Nat \ {0} /\ Fine \in Nat \ {0}

FullTurn == Targets * Fine

\* The driver's angle, half a turn on.
Turned(point) == [angle |-> (point.angle + FullTurn \div 2) % FullTurn, range |-> point.range]

\* What sorting may return: which of two points of one angle comes first is open. It is never
\* both of them that a target lies between.
Sorted(points) ==
  LET places == DOMAIN points
      orders == {p \in Bijection(places, places) :
                   \A i, j \in places : i < j => points[p[i]].angle <= points[p[j]].angle}
  IN {[i \in places |-> points[p[i]]] : p \in orders}

\* Mutant: the first point beyond the target.
UpperBound(points, target) ==
  SelectInSeq(points, LAMBDA p : p.angle > target)

\* The first point that does not come before the target; 0 if all do.
LowerBound(points, target) ==
  SelectInSeq(points, LAMBDA p : p.angle >= target)

\* The range at the target, as a fraction.
Between(p, q, target) ==
  [angle |-> target,
   num   |-> (q.angle - target) * p.range + (target - p.angle) * q.range,
   den   |-> q.angle - p.angle]

\* The loop over the first n targets: one that is not between two points is left out.
InterpolatedUpTo(sorted) ==
  LET outputPoints[n \in 0..Targets] ==
        IF n = 0 THEN << >>
        ELSE LET target == (n - 1) * Fine
                 i == LowerBound(sorted, target)
             IN IF i > 1 THEN Append(outputPoints[n - 1], Between(sorted[i - 1], sorted[i], target))
                ELSE outputPoints[n - 1]
  IN outputPoints

\* What interpolateTo360Points may return.
Interpolated(points) == {InterpolatedUpTo(sorted)[Targets] : sorted \in Sorted(points)}

Published(scan) == Interpolated([i \in DOMAIN scan |-> Turned(scan[i])])
=============================================================================
