----------------------------- MODULE LineFinder -----------------------------
(***************************************************************************)
(* The sliding window that follows a lane line up the camera image         *)
(* (FindLines.cpp). In every position the window's white points give the   *)
(* column of the line and the window moves up and sideways, until it has   *)
(* been at the top. A window's white points are what their mean is: a      *)
(* column, or none.                                                        *)
(***************************************************************************)
EXTENDS Integers

CONSTANTS ImageWidth, ImageHeight, RectWidth, RectHeight
ASSUME RectAssumption ==
  /\ {ImageWidth, ImageHeight, RectWidth, RectHeight} \subseteq Nat \ {0}
  /\ RectWidth < ImageWidth /\ RectHeight <= ImageHeight

NoPoints == -1

\* The column of the line in a window: that of its points' mean, or, when there are none, the
\* one at leftLineSide, in percent of the window's width.
PointX(x, side, mean) == IF mean = NoPoints THEN x + (RectWidth * side) \div 100 ELSE x + mean

\* Mutant: the window may lean over the right edge.
HeldLoosely(x) == IF x < 0 THEN 0 ELSE IF x >= ImageWidth THEN ImageWidth - RectWidth - 1 ELSE x

\* The window is held within the image's columns.
Held(x) == IF x < 0 THEN 0 ELSE IF x + RectWidth >= ImageWidth THEN ImageWidth - RectWidth - 1 ELSE x

\* The next window: where the line was in the last one, leftLineSide comes to be.
NextWindow(window, side, mean) ==
  [x |-> Held((100 * PointX(window.x, side, mean) - RectWidth * side) \div 100),
   y |-> window.y - RectHeight]

\* The windows slidingWindow looks at, from (x, y) on. Given is the points' mean in each.
Windows(x, y, side, means) ==
  LET at[k \in 1..(y \div RectHeight + 1)] ==
        IF k = 1 THEN [x |-> x, y |-> y] ELSE NextWindow(at[k - 1], side, means[k - 1])
  IN at

\* The points it returns.
Points(x, y, side, means) ==
  LET w == Windows(x, y, side, means) IN
  [k \in DOMAIN w |-> [x |-> PointX(w[k].x, side, means[k]), y |-> w[k].y + RectHeight \div 10]]
=============================================================================
