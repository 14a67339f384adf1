----------------------------- MODULE Perception -----------------------------
(***************************************************************************)
(* What is computed of lidar scans and camera images between their arrival *)
(* and their use. Nothing is kept from one computation to the next: a      *)
(* behaviour is one computation, on any input of the small sets below.     *)
(***************************************************************************)
EXTENDS Angles, ScanFilter, ScanPoints, LineFinder

CONSTANTS Distances,   \* of points
          Lengths,     \* of the scans that are filtered
          Levels,      \* of the tail filter
          Intensities, \* of points
          Thresholds,  \* of the intensity filter, each with either sign
          Counts,      \* of the points in a scan that is published
          Ranges,      \* of these points
          Means,       \* columns of a window's white points
          Sides        \* leftLineSide, in percent

ASSUME InputAssumption ==
  /\ Distances \cup Lengths \cup Intensities \cup Thresholds \cup Counts \cup Ranges \subseteq Nat
  /\ \A distance \in Distances : distance < 65536
  /\ Means \subseteq 0..(RectWidth - 1)
  /\ Sides \subseteq 0..100

VARIABLE result  \* what was computed, of what, and what came out

PerceptionInit == result = [of |-> "nothing"]

Echoes == Distances \ {0}

\* Scans of a round wall, some of whose points have no echo.
RoundScans == UNION {[1..n -> {0, v}] : n \in Lengths, v \in Echoes}

SmoothAny ==
  \E n \in Lengths : \E d \in [1..n -> Distances] :
    result' = [of |-> "any", in |-> d, out |-> SmoothFilter(d), mirrored |-> SmoothFilter(Reverse(d))]

FilterRound ==
  \E d \in RoundScans :
    \/ result' = [of |-> "smooth", in |-> d, out |-> SmoothFilter(d)]
    \/ \E e \in BilateralFilter(d) : result' = [of |-> "bilateral", in |-> d, out |-> e]
    \/ \E level \in Levels : \E e \in TailFilter(d, level) :
         result' = [of |-> "tail", in |-> d, out |-> e, level |-> level]
    \/ \E intensity \in [DOMAIN d -> Intensities], threshold \in Thresholds \cup {-t : t \in Thresholds} :
         result' = [of |-> "intensity", in |-> d, threshold |-> threshold,
                    out |-> IntensityFilter(d, intensity, 70, threshold)]

PublishScan ==
  \E n \in Counts : \E scan \in [1..n -> [angle : 0..(FullTurn - 1), range : Ranges]] :
    \E points \in Published(scan) :
      result' = [of |-> "points", in |-> scan, out |-> points]

\* On every second unit, so that between any two of them there is one to pass.
TurnWithin ==
  \E from, to, left, right \in {2 * k : k \in -(Half \div 2)..(Half \div 2)} :
    result' = [of |-> "turn", from |-> from, to |-> to, left |-> left, right |-> right,
               out |-> ShortestAngularDistanceWithLimits(from, to, left, right)]

FollowLine ==
  \E x \in {0, ImageWidth - RectWidth}, side \in Sides :
    LET y == ImageHeight - RectHeight IN
    \E means \in [1..(y \div RectHeight + 1) -> Means \cup {NoPoints}] :
      result' = [of |-> "line", windows |-> Windows(x, y, side, means), points |-> Points(x, y, side, means)]

PerceptionNext ==
  /\ result.of = "nothing"
  /\ SmoothAny \/ FilterRound \/ PublishScan \/ TurnWithin \/ FollowLine

PerceptionSpec == PerceptionInit /\ [][PerceptionNext]_result

-----------------------------------------------------------------------------
(* Properties.                                                              *)

\* Smoothing does not depend on the direction in which the scan is gone through: every mean
\* is of measured distances, and of as many points on one side as on the other.
SmoothIsSymmetric ==
  result.of = "any" => result.mirrored = Reverse(result.out)

\* In a scan of a round wall no filter changes or removes an echo, wherever other points have
\* none; except that the bilateral filter, whose mean of floats is truncated, may return one a
\* millimetre nearer; that the tail filter may remove the first two and last two echoes, whose
\* neighbours it looks for outside the scan, and any echo of 21 to 79 mm, whose distance is
\* that to a missing point; and that the intensity filter works with a negative threshold.
RoundWallsStay ==
  result.of \in {"smooth", "bilateral", "tail", "intensity"} =>
    \A i \in DOMAIN result.in :
      \/ result.in[i] = 0
      \/ result.out[i] = result.in[i]
      \/ result.of = "bilateral" /\ result.out[i] = result.in[i] - 1
      \/ /\ result.of = "tail"
         /\ i \notin 3..(Len(result.in) - 2) \/ result.in[i] \in 21..79 \/ result.level \notin 0..3
      \/ result.of = "intensity" /\ result.threshold < 0

\* A published scan has one point for every target that a measured point comes before and
\* another at or behind, in the order of the angles; its range is between theirs, and the
\* measured one where it was measured, unless that angle was measured twice.
PointsAreMeasured ==
  result.of = "points" =>
    LET measured == {Turned(result.in[i]) : i \in DOMAIN result.in}
        before(t) == {p \in measured : p.angle < t /\ \A q \in measured : q.angle < t => q.angle <= p.angle}
        behind(t) == {p \in measured : p.angle >= t /\ \A q \in measured : q.angle >= t => q.angle >= p.angle}
        targets == {t \in {k * Fine : k \in 0..(Targets - 1)} : before(t) # {} /\ behind(t) # {}}
    IN /\ {result.out[k].angle : k \in DOMAIN result.out} = targets
       /\ \A k, l \in DOMAIN result.out : k < l => result.out[k].angle < result.out[l].angle
       /\ \A k \in DOMAIN result.out :
            LET point == result.out[k] IN
            \E p \in before(point.angle), q \in behind(point.angle) :
              /\ point.num \in (Least(p.range, q.range) * point.den)..(Greatest(p.range, q.range) * point.den)
              /\ q.angle = point.angle => point.num = q.range * point.den

\* The angles passed on the way from one limit to the other.
Interval(left, right) ==
  IF left = -Half /\ right = Half THEN 0..(Turn - 1)
  ELSE {(left + k) % Turn : k \in 0..((right - left) % Turn)}

\* The turn that is returned always ends at the other angle. It is called possible only if
\* all of it is within the limits, and impossible only if one of its ends is not; and it is
\* the longer way round only if the shorter one is not within the limits. Exceptions: limits
\* that are one angle, from which every turn is called possible, and limits of a whole
\* circle, where a turn past pi is avoided. (The example in angles.h, line 229, has the
\* other sign, which would not end at the other angle: LimitsExample.)
TurnsStayWithinLimits ==
  result.of = "turn" =>
    LET within == Interval(result.left, result.right)
        at(k) == (result.from + k) % Turn
        angle == result.out.angle
        to == result.to % Turn
        turn(a) == {at(k) : k \in Least(0, a)..Greatest(0, a)}
    IN /\ at(angle) = to
       /\ \/ result.out.ok /\ within = {at(0)}
          \/ result.out.ok = (turn(angle) \subseteq within)
       /\ ~result.out.ok => ~({at(0), to} \subseteq within)
       /\ result.out.ok /\ Abs(angle) > Half /\ within # 0..(Turn - 1) =>
             \E a \in -Half..Half : at(a) = to /\ ~(turn(a) \subseteq within)


\* Every window lies within the image (or reading it throws), the last one at its top, and
\* every point of the line within its columns or, at a side of 100 percent, just past them.
WindowsInImage ==
  result.of = "line" =>
    /\ \A k \in DOMAIN result.windows :
         /\ result.windows[k].x \in 0..(ImageWidth - RectWidth)
         /\ result.windows[k].y \in 0..(ImageHeight - RectHeight)
    /\ \E k \in DOMAIN result.windows : result.windows[k].y < RectHeight
    /\ \A k \in DOMAIN result.points : result.points[k].x \in 0..ImageWidth
=============================================================================
