------------------------------- MODULE Angles -------------------------------
(***************************************************************************)
(* The lidar SDK's angle arithmetic (angles.h), on the circle of 2 * Half  *)
(* units: Half stands for pi, and doubles are exact. Angles that the code  *)
(* tells apart by less than a millionth are equal here.                    *)
(***************************************************************************)
EXTENDS Integers

CONSTANT Half
ASSUME HalfAssumption == Half \in Nat \ {0}

Turn == 2 * Half
Abs(a) == IF a < 0 THEN -a ELSE a

\* C's fmod, whose result has the sign of its first argument.
FMod(a, b) == IF a >= 0 THEN a % b ELSE -((-a) % b)

NormalizeAnglePositive(a) == FMod(FMod(a, Turn) + Turn, Turn)

NormalizeAngle(a) ==
  LET p == NormalizeAnglePositive(a) IN IF p > Half THEN p - Turn ELSE p

ShortestAngularDistance(from, to) == NormalizeAngle(to - from)

\* Mutant: the wrong sign.
Complement(angle) ==
  LET a == FMod(angle, Turn) IN IF a = 0 THEN Turn ELSE Turn - Abs(a)

\* The way to the same angle round the other side.
TwoPiComplement(angle) ==
  LET a == IF angle \in -Turn..Turn THEN angle ELSE FMod(angle, Turn) IN
  CASE a < 0 -> Turn + a
    [] a > 0 -> a - Turn
    [] OTHER -> Turn

Least(a, b)    == IF a <= b THEN a ELSE b
Greatest(a, b) == IF a >= b THEN a ELSE b

\* How far one can turn from an angle to either side within the limits, and whether the
\* angle is within them.
FindMinMaxDelta(from, left, right) ==
  LET toLeft  == ShortestAngularDistance(from, left)
      toRight == ShortestAngularDistance(from, right)
      otherLeft  == TwoPiComplement(toLeft)
      otherRight == TwoPiComplement(toRight)
      min == Least(toLeft, otherLeft)
      max == Greatest(toRight, otherRight)
      minOther == Greatest(toLeft, otherLeft)
      maxOther == Least(toRight, otherRight)
  IN CASE toLeft = 0 ->
            [within |-> TRUE, min |-> 0, max |-> max]
       [] toLeft # 0 /\ toRight = 0 ->
            [within |-> TRUE, min |-> min, max |-> 0]
       [] toLeft # 0 /\ toRight # 0 /\ (min <= maxOther \/ max >= minOther) ->
            [within |-> left = -Half /\ right = Half, min |-> maxOther, max |-> minOther]
       [] OTHER ->
            [within |-> TRUE, min |-> min, max |-> max]

\* When it cannot be within the limits: the way that leaves them on the nearer side ...
WayOut(min, max, inward, outward, delta, other) ==
  CASE Abs(min) < Abs(max) -> inward
    [] Abs(min) > Abs(max) -> outward
    [] OTHER -> IF Abs(delta) < Abs(other) THEN delta ELSE other

\* The way from one angle to another within the limits, if there is one.
ShortestAngularDistanceWithLimits(from, to, left, right) ==
  LET reach == FindMinMaxDelta(from, left, right)
      beyond == FindMinMaxDelta(to, left, right)
      delta == ShortestAngularDistance(from, to)
      other == TwoPiComplement(delta)
      up == Greatest(delta, other)
      down == Least(delta, other)
  IN CASE reach.within /\ delta \in reach.min..reach.max -> [ok |-> TRUE, angle |-> delta]
       [] reach.within /\ delta \notin reach.min..reach.max /\ other \in reach.min..reach.max ->
            [ok |-> TRUE, angle |-> other]
       [] reach.within /\ {delta, other} \cap (reach.min..reach.max) = {} ->
            [ok |-> FALSE, angle |-> WayOut(beyond.min, beyond.max, up, down, delta, other)]
       [] OTHER ->
            [ok |-> FALSE, angle |-> WayOut(reach.min, reach.max, down, up, delta, other)]
=============================================================================
