--------------------------- MODULE Perception_proofs ---------------------------
(***************************************************************************)
(* Theorems about what is made of the lidar's bytes and scans and of the   *)
(* camera's images: FrameParser, for every length of a frame, of a chunk   *)
(* and of the array it is read into, twice which is within the limit, and  *)
(* Perception, for every size of the circle, the scan and the image and    *)
(* for any natural numbers as distances, ranges and intensities.           *)
(***************************************************************************)
EXTENDS FrameParser, Perception, FiniteSetTheorems, SequenceTheorems, TLAPS

-----------------------------------------------------------------------------
(* FrameParser.                                                             *)

\* How much bin_buf_ holds. A search erases the pos bytes in front of what it found, so that pos
\* and size together are no more than the size before; the frame or header erased after it
\* takes at least two bytes more. Where the loop ends because pos >= size - 2, the smaller of
\* the two is the size. What is left of a frame behind its header is two bytes or more.
SizeInv ==
  /\ size \in Nat /\ pos \in Nat
  /\ pc = "loop"   => 2 <= size
  /\ pc = "search" => 2 < size
  /\ pc = "check"  => FrameLen <= size

\* The same in chunks that fit the array: a call leaves at most one behind.
BoundInv ==
  /\ pc = "idle"   => size <= BufLen
  /\ pc = "entry"  => size <= 2 * BufLen
  /\ pc = "loop"   => \/ pos = 0 /\ FrameLen <= size /\ size <= 2 * BufLen
                      \/ pos + size <= 2 * BufLen - 2
  /\ pc = "search" => size <= 2 * BufLen
  /\ pc = "check"  => pos + size <= 2 * BufLen

\* head_flag stands for a header at the front of bin_buf_, also between two calls.
FlagInv == (headFlag => 0 \in headers) /\ ~headless

\* Without head_flag no frame is tested.
HeadInv ==
  /\ headers \subseteq Nat
  /\ pc = "check" => headFlag
  /\ pc \in {"idle", "entry", "loop", "search", "check", "crashed"}
  /\ overrun \in BOOLEAN /\ headFlag \in BOOLEAN

IInv == SizeInv /\ HeadInv /\ (overrun \/ (BoundInv /\ FlagInv))

LEMMA Constants ==
  /\ FrameLen \in Nat /\ BufLen \in Nat /\ MaxChunk \in Nat /\ MaxFrames \in Nat
  /\ FrameLen * MaxFrames \in Nat
  /\ 4 <= FrameLen /\ FrameLen <= BufLen /\ 2 * BufLen <= FrameLen * MaxFrames
BY FrameAssumption, ChunkAssumption, LimitAssumption

\* Erasing what lies in front of a header brings it to the front.
LEMMA Erased ==
  ASSUME headers \subseteq Nat, NEW k \in Nat, Erase(k)
  PROVE  headers' \subseteq Nat /\ (k \in headers => 0 \in headers')
BY DEF Erase

LEMMA ReceiveInv ==
  ASSUME IInv, NEW n \in 0..MaxChunk, Receive(n)
  PROVE  IInv'
<1>1. SizeInv'
  BY Constants DEF IInv, SizeInv, Receive
<1>2. PICK new \in SUBSET (0..(size + n - 2) \ 0..(size - 2)) : headers' = headers \cup new
  BY DEF Receive
<1>3. HeadInv'
  <2>1. overrun' \in BOOLEAN
    BY Zenon DEF Receive
  <2> QED
    BY <1>2, <2>1 DEF IInv, HeadInv, Receive
<1>4. CASE ~overrun'
  <2>0. ~overrun /\ ~(n > BufLen)
    BY <1>4, Zenon DEF Receive
  <2>1. ~overrun /\ n <= BufLen
    BY <2>0, Constants
  <2>2. BoundInv'
    BY <2>1, Constants DEF IInv, SizeInv, BoundInv, Receive
  <2>3. FlagInv'
    BY <2>1, <1>2 DEF IInv, FlagInv, Receive
  <2> QED
    BY <1>1, <1>3, <2>2, <2>3 DEF IInv
<1> QED
  BY <1>1, <1>3, <1>4 DEF IInv

LEMMA StackSmashedInv ==
  ASSUME IInv, StackSmashed
  PROVE  IInv'
BY DEF StackSmashed, IInv, SizeInv, HeadInv

\* In chunks that fit the array the limit is out of reach, so that its branch leaves no
\* head_flag without a header.
LEMMA EntryInv ==
  ASSUME IInv, Entry
  PROVE  IInv'
<1>0. SizeInv'
  BY Constants DEF IInv, SizeInv, Entry
<1>1. SizeInv' /\ HeadInv'
  BY <1>0 DEF IInv, HeadInv, Entry
<1>2. CASE ~overrun
  <2>1. ~(size > FrameLen * MaxFrames)
    BY <1>2, Constants DEF IInv, SizeInv, BoundInv, Entry
  <2>2. BoundInv'
    BY <2>1, <1>2, Constants DEF IInv, SizeInv, BoundInv, Entry
  <2>3. FlagInv'
    BY <2>1, <1>2 DEF IInv, FlagInv, Entry
  <2> QED
    BY <1>1, <2>2, <2>3 DEF IInv
<1>3. CASE overrun
  BY <1>1, <1>3 DEF IInv, Entry
<1> QED
  BY <1>2, <1>3

LEMMA LoopInv ==
  ASSUME IInv, Loop
  PROVE  IInv'
<1>1. SizeInv' /\ HeadInv'
  BY Constants DEF IInv, SizeInv, HeadInv, Loop
<1>2. BoundInv /\ FlagInv => BoundInv' /\ FlagInv'
  BY <1>1, Constants DEF IInv, SizeInv, BoundInv, FlagInv, Loop
<1> QED
  BY <1>1, <1>2 DEF IInv, Loop

LEMMA SearchInv ==
  ASSUME IInv, Search
  PROVE  IInv'
<1>1. PICK p \in 0..(size - 2) :
        /\ \/ headFlag /\ p = 0
           \/ ~headFlag /\ p \in headers
           \/ ~headFlag /\ p = size - 2
        /\ pos' = p /\ Erase(p)
        /\ headFlag' = (headFlag \/ p < size - 2)
        /\ pc' = IF size - p < FrameLen THEN "idle" ELSE "check"
  BY DEF Search
<1>2. p \in Nat /\ p <= size - 2 /\ size \in Nat /\ 2 < size
  BY <1>1 DEF IInv, SizeInv, Search
<1>3. SizeInv'
  BY <1>1, <1>2, Constants DEF SizeInv, Erase
<1>4. headers' \subseteq Nat /\ (p \in headers => 0 \in headers')
  BY <1>1, <1>2, Erased DEF IInv, HeadInv
<1>5. headFlag' \in BOOLEAN /\ (headFlag' <=> (headFlag \/ p < size - 2))
  BY <1>1, Zenon
<1>6. pc' = "check" => headFlag'
  BY <1>1, <1>2, <1>5, Constants
<1>7. HeadInv'
  BY <1>1, <1>4, <1>5, <1>6 DEF IInv, HeadInv, Search
<1>8. CASE ~overrun
  <2>1. BoundInv'
    BY <1>1, <1>2, <1>8, Constants DEF IInv, BoundInv, Search, Erase
  <2>2. headFlag' => p \in headers
    BY <1>1, <1>2, <1>5, <1>8 DEF IInv, FlagInv
  <2>3. FlagInv'
    BY <1>4, <1>8, <2>2 DEF IInv, FlagInv, Search
  <2> QED
    BY <1>3, <1>7, <2>1, <2>3 DEF IInv
<1> QED
  BY <1>3, <1>7, <1>8 DEF IInv, Search

LEMMA AcceptInv ==
  ASSUME IInv, Accept
  PROVE  IInv'
<1>1. SizeInv'
  BY Constants DEF IInv, SizeInv, Accept, Erase
<1>2. headers' \subseteq Nat
  BY Constants, Erased DEF IInv, HeadInv, Accept
<1>3. HeadInv'
  BY <1>2 DEF IInv, HeadInv, Accept
<1>4. CASE ~overrun
  <2>1. BoundInv'
    BY <1>4, Constants DEF IInv, SizeInv, BoundInv, Accept, Erase
  <2>2. 0 \in headers
    BY <1>4 DEF IInv, HeadInv, FlagInv, Accept
  <2>3. FlagInv'
    BY <1>4, <2>2 DEF IInv, FlagInv, Accept
  <2> QED
    BY <1>1, <1>3, <2>1, <2>3 DEF IInv
<1> QED
  BY <1>1, <1>3, <1>4 DEF IInv, Accept

LEMMA RejectInv ==
  ASSUME IInv, Reject
  PROVE  IInv'
<1>1. SizeInv'
  BY Constants DEF IInv, SizeInv, Reject, Erase
<1>2. headers' \subseteq Nat
  BY Erased DEF IInv, HeadInv, Reject
<1>3. HeadInv'
  BY <1>2 DEF IInv, HeadInv, Reject
<1>4. BoundInv /\ FlagInv => BoundInv' /\ FlagInv'
  BY Constants DEF IInv, SizeInv, BoundInv, FlagInv, Reject, Erase
<1> QED
  BY <1>1, <1>3, <1>4 DEF IInv, Reject

LEMMA InvHolds == Spec => []IInv
<1>1. Init => IInv
  <2>1. Init => SizeInv /\ BoundInv
    BY Constants DEF Init, SizeInv, BoundInv
  <2>2. Init => HeadInv /\ FlagInv
    BY DEF Init, HeadInv, FlagInv
  <2> QED
    BY <2>1, <2>2 DEF IInv
<1>2. IInv /\ UNCHANGED vars => IInv'
  BY DEF vars, IInv, SizeInv, BoundInv, HeadInv, FlagInv
<1>3. IInv /\ [Next]_vars => IInv'
  BY <1>2, ReceiveInv, StackSmashedInv, EntryInv, LoopInv, SearchInv, AcceptInv, RejectInv, Zenon
  DEF Next
<1> QED
  BY <1>1, <1>3, PTL DEF Spec

\* No erasure takes more bytes than there are: the size of bin_buf_, pos and the offsets of headers
\* stay natural numbers, whatever the chunks.
THEOREM SizesAreNatural == Spec => []TypeOK
<1> DEFINE Told == headless \in BOOLEAN
<1>1. Init => Told
  BY DEF Init
<1>2. Told /\ [Next]_vars => Told'
  BY DEF Next, Receive, StackSmashed, Entry, Loop, Search, Accept, Reject, vars
<1>3. IInv /\ Told => TypeOK
  BY DEF IInv, SizeInv, HeadInv, TypeOK
<1> QED
  BY <1>1, <1>2, <1>3, InvHolds, PTL DEF Spec

\* The limit of bin_buf_ is only ever met after a chunk overran the array it is read into, if twice
\* the array is below it, as 2 * 1024 bytes are below 100 frames of 47.
THEOREM OnlyOverrunsMeetLimit == Spec => []NothingThrownAway
<1>1. IInv => NothingThrownAway
  BY Constants DEF IInv, SizeInv, BoundInv, NothingThrownAway
<1> QED
  BY <1>1, InvHolds, PTL

\* Only the frame and the header are erased between two tests of the loop: the first ends it when
\* less than another frame is left, and the second leaves the rest of a frame.
THEOREM LoopsDoNotWrap == Spec => []SizeNeverWraps
<1>1. IInv => SizeNeverWraps
  BY DEF IInv, SizeInv, SizeNeverWraps
<1> QED
  BY <1>1, InvHolds, PTL

\* Whatever the chunks cut off, a frame that is handed on begins with a header, unless one of
\* them overran its array.
THEOREM FramesBeginWithHeaders == Spec => []FramesHaveHeaders
<1>1. IInv => FramesHaveHeaders
  BY DEF IInv, FlagInv, FramesHaveHeaders
<1> QED
  BY <1>1, InvHolds, PTL

-----------------------------------------------------------------------------
(* Induction over natural numbers.                                          *)

\* The order of the natural numbers as a relation, which the library proves well-founded.
LEMMA NatOrder ==
  \E R : IsWellFoundedOn(R, Nat) /\ \A x, y \in Nat : <<y, x>> \in R <=> y < x
<1>1. \A x, y \in Nat : <<y, x>> \in OpToRel(<, Nat) <=> y < x
  BY DEF OpToRel
<1> QED BY <1>1, NatLessThanWellFounded, Zenon

\* Every set of natural numbers but the empty one has a least element, which is induction over
\* the numbers stated without an operator as a parameter.
LEMMA LeastElement ==
  ASSUME NEW T, T \subseteq Nat, T # {}
  PROVE \E x \in T : \A y \in T : x <= y
<1>1. PICK R : IsWellFoundedOn(R, Nat) /\ \A x, y \in Nat : <<y, x>> \in R <=> y < x
  BY NatOrder
<1>2. PICK x \in T : \A y \in T : ~(<<y, x>> \in R)
  BY <1>1, WFMin
<1>3. \A y \in T : x \in Nat /\ y \in Nat /\ ~(y < x)
  BY <1>1, <1>2
<1> QED BY <1>3

LEMMA SetInduction ==
  ASSUME NEW T, 0 \in T, \A n \in Nat : n \in T => n + 1 \in T
  PROVE Nat \subseteq T
<1> SUFFICES ASSUME Nat \ T # {} PROVE FALSE
  OBVIOUS
<1>1. PICK n \in Nat \ T : \A k \in Nat \ T : n <= k
  BY LeastElement
<1>2. n # 0 /\ n - 1 \in Nat /\ n - 1 \in T
  BY <1>1
<1>3. (n - 1) + 1 = n
  BY <1>2
<1> QED BY <1>1, <1>2, <1>3

\* f is c at m and goes on to n with step.
Steps(f, m, n, S, c, step) ==
  f \in [m..n -> S] /\ f[m] = c /\ \A k \in m..n : k # m => f[k] = step[k][f[k - 1]]

\* A recursive function over an interval exists, so that CHOOSE finds it.
LEMMA Recursion ==
  ASSUME NEW m \in Nat, NEW n \in Nat, m <= n, NEW S, NEW c \in S, NEW step \in [m..n -> [S -> S]]
  PROVE  \E f : Steps(f, m, n, S, c, step)
<1> DEFINE Upto(l) == \E f \in [m..l -> S] : f[m] = c /\ \A k \in m..l : k # m => f[k] = step[k][f[k - 1]]
           T == {i \in Nat : m + i <= n => Upto(m + i)}
<1>1. 0 \in T
  <2>1. [k \in m..m |-> c] \in [m..m -> S] /\ [k \in m..m |-> c][m] = c
    OBVIOUS
  <2>2. \A k \in m..m : k = m
    OBVIOUS
  <2>3. Upto(m)
    <3> DEFINE g == [k \in m..m |-> c]
    <3>1. g \in [m..m -> S] /\ g[m] = c
      BY <2>1
    <3> HIDE DEF g
    <3> QED BY <2>2, <3>1
  <2>4. m + 0 = m
    OBVIOUS
  <2> QED BY <2>3, <2>4
<1>2. ASSUME NEW i \in Nat, i \in T
      PROVE  i + 1 \in T
  <2> SUFFICES ASSUME m + (i + 1) <= n PROVE Upto(m + (i + 1))
    OBVIOUS
  <2>1. PICK f \in [m..(m + i) -> S] : f[m] = c /\ \A k \in m..(m + i) : k # m => f[k] = step[k][f[k - 1]]
    BY <1>2
  <2> DEFINE l == m + i + 1
             g == [k \in m..l |-> IF k = l THEN step[l][f[m + i]] ELSE f[k]]
  <2>2. step[l][f[m + i]] \in S
    <3>1. l \in m..n /\ m + i \in m..(m + i)
      OBVIOUS
    <3> QED BY <3>1, <2>1
  <2>3. g \in [m..l -> S] /\ g[m] = c
    BY <2>1, <2>2
  <2>4. ASSUME NEW k \in m..l, k # m PROVE g[k] = step[k][g[k - 1]]
    <3>1. CASE k = l
      <4>1. g[k] = step[l][f[m + i]] /\ g[k - 1] = f[m + i]
        BY <3>1
      <4> QED BY <3>1, <4>1
    <3>2. CASE k # l
      <4>1. k \in m..(m + i) /\ k \in m..l /\ k - 1 \in m..l /\ k - 1 # l
        BY <2>4, <3>2
      <4>2. g[k] = f[k] /\ g[k - 1] = f[k - 1]
        BY <3>2, <4>1
      <4> HIDE DEF g
      <4> QED BY <2>1, <2>4, <4>1, <4>2
    <3> QED BY <3>1, <3>2
  <2>5. l = m + (i + 1)
    OBVIOUS
  <2> HIDE DEF g
  <2> QED BY <2>3, <2>4, <2>5
<1> DEFINE d == n - m
<1>3. d \in Nat /\ m + d = n
  OBVIOUS
<1> HIDE DEF d
<1> HIDE DEF Upto
<1>4. Nat \subseteq T
  <2> HIDE DEF T
  <2> QED BY <1>1, <1>2, SetInduction
<1>5. Upto(m + d)
  BY <1>3, <1>4
<1> QED BY <1>3, <1>5 DEF Upto, Steps

-----------------------------------------------------------------------------
(* Angles.                                                                  *)

LEMMA TurnNat == Half \in Nat /\ Half > 0 /\ Turn \in Nat /\ Turn > 0 /\ Turn = 2 * Half
BY HalfAssumption DEF Turn

\* A remainder of what is no farther than two turns from the circle.
LEMMA Remainder ==
  ASSUME NEW a \in Int
  PROVE  /\ a % Turn \in 0..(Turn - 1)
         /\ a \in 0..(Turn - 1) => a % Turn = a
         /\ a - Turn \in 0..(Turn - 1) => a % Turn = a - Turn
         /\ a + Turn \in 0..(Turn - 1) => a % Turn = a + Turn
         /\ a - 2 * Turn \in 0..(Turn - 1) => a % Turn = a - 2 * Turn
         /\ a + 2 * Turn \in 0..(Turn - 1) => a % Turn = a + 2 * Turn
<1> DEFINE N == Turn
<1>0. N \in Nat /\ N > 0 BY TurnNat
<1> HIDE DEF N
<1>1. a % N \in 0..(N - 1)
  BY <1>0
<1>2. a \in 0..(N - 1) => a % N = a
  BY <1>0
<1>3. a - N \in 0..(N - 1) => a % N = a - N
  BY <1>0
<1>4. a + N \in 0..(N - 1) => a % N = a + N
  BY <1>0
<1>5. a - 2 * N \in 0..(N - 1) => a % N = a - 2 * N
  BY <1>0
<1>6. a + 2 * N \in 0..(N - 1) => a % N = a + 2 * N
  BY <1>0
<1> QED BY <1>1, <1>2, <1>3, <1>4, <1>5, <1>6 DEF N

\* The shortest way is at most half a turn and leads to the other angle.
LEMMA ShortestIs ==
  ASSUME NEW from \in -Half..Half, NEW to \in -Half..Half
  PROVE  /\ ShortestAngularDistance(from, to) \in (1 - Half)..Half
         /\ ShortestAngularDistance(from, to) - (to - from) \in {-Turn, 0, Turn}
<1> DEFINE a == to - from
           n == NormalizeAnglePositive(a)
<1>0. a \in Int /\ a \in -Turn..Turn
  BY TurnNat
<1> HIDE DEF a
<1>1. FMod(a, Turn) = IF a \in {-Turn, Turn} THEN 0 ELSE a
  <2>1. CASE a >= 0
    BY <1>0, <2>1, Remainder, TurnNat DEF FMod
  <2>2. CASE a < 0
    <3>1. -a \in Int /\ (-a) % Turn = IF a = -Turn THEN 0 ELSE -a
      <4>1. -a \in Int /\ -a \in 1..Turn
        BY <1>0, <2>2, TurnNat
      <4> QED BY <4>1, Remainder, <1>0, TurnNat
    <3> QED BY <3>1, <1>0, <2>2, TurnNat DEF FMod
  <2> QED BY <2>1, <2>2, <1>0
<1>2. n = IF a \in {-Turn, Turn} THEN 0 ELSE IF a < 0 THEN a + Turn ELSE a
  <2>1. FMod(a, Turn) + Turn \in Int /\ FMod(a, Turn) + Turn >= 0
    BY <1>0, <1>1, TurnNat
  <2>2. n = (FMod(a, Turn) + Turn) % Turn
    BY <2>1 DEF NormalizeAnglePositive, FMod
  <2>3. CASE a \in {-Turn, Turn}
    BY <1>0, <1>1, <2>1, <2>2, <2>3, Remainder, TurnNat
  <2>4. CASE a \notin {-Turn, Turn} /\ a < 0
    BY <1>0, <1>1, <2>1, <2>2, <2>4, Remainder, TurnNat
  <2>5. CASE a \notin {-Turn, Turn} /\ a >= 0
    BY <1>0, <1>1, <2>1, <2>2, <2>5, Remainder, TurnNat
  <2> QED BY <2>3, <2>4, <2>5, <1>0
<1>3. ShortestAngularDistance(from, to) = IF n > Half THEN n - Turn ELSE n
  BY DEF ShortestAngularDistance, NormalizeAngle, a
<1> QED BY <1>0, <1>2, <1>3, TurnNat DEF a

\* The other way is a turn longer or shorter.
LEMMA OtherWay ==
  ASSUME NEW d \in (1 - Half)..Half
  PROVE  TwoPiComplement(d) = IF d < 0 THEN d + Turn ELSE IF d > 0 THEN d - Turn ELSE Turn
<1>1. d \in -Turn..Turn
  BY TurnNat
<1>2. CASE d < 0
  BY <1>1, <1>2, TurnNat DEF TwoPiComplement
<1>3. CASE d > 0
  BY <1>1, <1>3, TurnNat DEF TwoPiComplement
<1>4. CASE d = 0
  BY <1>1, <1>4, TurnNat DEF TwoPiComplement
<1> QED BY <1>1, <1>2, <1>3, <1>4

\* How far an angle is from the left limit.
Offset(left, a) == (a - left) % Turn

LEMMA OffsetIs ==
  ASSUME NEW left \in -Half..Half, NEW a \in -Half..Half
  PROVE  /\ Offset(left, a) \in 0..(Turn - 1)
         /\ Offset(left, a) - (a - left) \in {-Turn, 0, Turn}
<1>1. a - left \in Int /\ a - left \in -Turn..Turn
  BY TurnNat
<1> QED BY <1>1, Remainder, TurnNat DEF Offset

\* How far one can turn, in terms of the offsets of the angle and of the right limit.
LEMMA ReachIs ==
  ASSUME NEW from \in -Half..Half, NEW left \in -Half..Half, NEW right \in -Half..Half
  PROVE  LET u == Offset(left, from)
             w == Offset(left, right)
         IN FindMinMaxDelta(from, left, right) =
              IF u <= w THEN [within |-> TRUE, min |-> -u, max |-> IF w = 0 THEN Turn ELSE w - u]
              ELSE [within |-> left = -Half /\ right = Half, min |-> w - u, max |-> Turn - u]
<1> DEFINE u == Offset(left, from)
           w == Offset(left, right)
           toLeft  == ShortestAngularDistance(from, left)
           toRight == ShortestAngularDistance(from, right)
           otherLeft  == TwoPiComplement(toLeft)
           otherRight == TwoPiComplement(toRight)
           min == Least(toLeft, otherLeft)
           max == Greatest(toRight, otherRight)
           minOther == Greatest(toLeft, otherLeft)
           maxOther == Least(toRight, otherRight)
           full == left = -Half /\ right = Half
<1>1. /\ u \in 0..(Turn - 1) /\ u - (from - left) \in {-Turn, 0, Turn}
      /\ w \in 0..(Turn - 1) /\ w - (right - left) \in {-Turn, 0, Turn}
  BY OffsetIs
<1>2. /\ toLeft \in (1 - Half)..Half /\ toLeft - (left - from) \in {-Turn, 0, Turn}
      /\ toRight \in (1 - Half)..Half /\ toRight - (right - from) \in {-Turn, 0, Turn}
  BY ShortestIs
<1>3. /\ otherLeft = IF toLeft < 0 THEN toLeft + Turn ELSE IF toLeft > 0 THEN toLeft - Turn ELSE Turn
      /\ otherRight = IF toRight < 0 THEN toRight + Turn ELSE IF toRight > 0 THEN toRight - Turn ELSE Turn
  BY <1>2, OtherWay
<1>4. FindMinMaxDelta(from, left, right) =
        CASE toLeft = 0 -> [within |-> TRUE, min |-> 0, max |-> max]
          [] toLeft # 0 /\ toRight = 0 -> [within |-> TRUE, min |-> min, max |-> 0]
          [] toLeft # 0 /\ toRight # 0 /\ (min <= maxOther \/ max >= minOther) ->
               [within |-> full, min |-> maxOther, max |-> minOther]
          [] OTHER -> [within |-> TRUE, min |-> min, max |-> max]
  BY DEF FindMinMaxDelta
<1> HIDE DEF u, w, toLeft, toRight, otherLeft, otherRight, full
<1>5. toLeft \in {-u, Turn - u} /\ (toLeft = 0 <=> u = 0)
  BY <1>1, <1>2, TurnNat
<1>6. min = -u /\ minOther = Turn - u
  BY <1>1, <1>2, <1>3, <1>5, TurnNat DEF Least, Greatest
<1>7. toRight = 0 <=> u = w
  BY <1>1, <1>2, TurnNat
<1>8. /\ u = w => max = Turn /\ maxOther = 0
      /\ u < w => max = w - u /\ maxOther = w - u - Turn
      /\ u > w => max = w - u + Turn /\ maxOther = w - u
  BY <1>1, <1>2, <1>3, TurnNat DEF Least, Greatest
<1> HIDE DEF min, max, minOther, maxOther
<1> SUFFICES FindMinMaxDelta(from, left, right) =
              IF u <= w THEN [within |-> TRUE, min |-> -u, max |-> IF w = 0 THEN Turn ELSE w - u]
              ELSE [within |-> full, min |-> w - u, max |-> Turn - u]
  BY DEF u, w, full
<1>10. CASE u = 0
  BY <1>1, <1>4, <1>5, <1>8, <1>10, TurnNat
<1>11. CASE u # 0 /\ u = w
  <2>1. toLeft # 0 /\ toRight = 0 /\ min = -u /\ u <= w /\ w # 0 /\ w - u = 0
    BY <1>1, <1>5, <1>6, <1>7, <1>11
  <2> QED BY <1>4, <2>1
<1>12. CASE u # 0 /\ u < w
  <2>1. /\ toLeft # 0 /\ toRight # 0 /\ ~(min <= maxOther) /\ ~(max >= minOther)
        /\ min = -u /\ max = w - u /\ u <= w /\ w # 0
    BY <1>1, <1>5, <1>6, <1>7, <1>8, <1>12, TurnNat
  <2> QED BY <1>4, <2>1
<1>13. CASE u # 0 /\ u > w
  BY <1>1, <1>4, <1>5, <1>6, <1>7, <1>8, <1>13, TurnNat
<1> QED BY <1>1, <1>10, <1>11, <1>12, <1>13

LEMMA RemainderNear ==
  ASSUME NEW a \in Int, a \in -(2 * Turn)..(2 * Turn)
  PROVE  a % Turn \in 0..(Turn - 1) /\ (a % Turn) - a \in {-2 * Turn, -Turn, 0, Turn, 2 * Turn}
<1>1. a \in 0..(Turn - 1) \/ a - Turn \in 0..(Turn - 1) \/ a + Turn \in 0..(Turn - 1)
      \/ a - 2 * Turn \in 0..(Turn - 1) \/ a + 2 * Turn \in 0..(Turn - 1)
  BY TurnNat
<1> QED BY <1>1, Remainder, TurnNat

WholeCircle(left, right) == left = -Half /\ right = Half

\* An angle is within the limits if its offset is no more than that of the right one.
LEMMA InInterval ==
  ASSUME NEW left \in -Half..Half, NEW right \in -Half..Half, ~WholeCircle(left, right),
         NEW x \in Int, x \in -(Half + Turn)..(Half + Turn)
  PROVE  x % Turn \in Interval(left, right) <=> (x - left) % Turn <= Offset(left, right)
<1> DEFINE w == Offset(left, right)
           e == (x - left) % Turn
<1>1. w \in 0..(Turn - 1)
  BY OffsetIs
<1>2. Interval(left, right) = {(left + k) % Turn : k \in 0..w}
  BY DEF Interval, WholeCircle, Offset
<1>3. x % Turn \in 0..(Turn - 1) /\ (x % Turn) - x \in {-2 * Turn, -Turn, 0, Turn, 2 * Turn}
  <2>1. x \in -(2 * Turn)..(2 * Turn)
    BY TurnNat
  <2> QED BY <2>1, RemainderNear
<1>4. e \in 0..(Turn - 1) /\ e - (x - left) \in {-2 * Turn, -Turn, 0, Turn, 2 * Turn}
  <2>1. x - left \in Int /\ x - left \in -(2 * Turn)..(2 * Turn)
    BY TurnNat
  <2> QED BY <2>1, RemainderNear
<1> HIDE DEF w, e
<1>5. ASSUME NEW k \in 0..(Turn - 1)
      PROVE  x % Turn = (left + k) % Turn <=> e = k
  <2>1. left + k \in Int /\ left + k \in -(2 * Turn)..(2 * Turn)
    BY TurnNat
  <2>2. (left + k) % Turn \in 0..(Turn - 1) /\ ((left + k) % Turn) - (left + k) \in {-2 * Turn, -Turn, 0, Turn, 2 * Turn}
    BY <2>1, RemainderNear
  <2> QED BY <1>3, <1>4, <2>2, TurnNat
<1>6. \A k \in 0..w : k \in 0..(Turn - 1)
  BY <1>1, TurnNat
<1>7. x % Turn \in Interval(left, right) <=> \E k \in 0..w : e = k
  BY <1>2, <1>5, <1>6
<1>8. e <= w <=> \E k \in 0..w : e = k
  BY <1>1, <1>4
<1> QED BY <1>7, <1>8 DEF w, e

\* The angles of the model: between any two of them is one to pass.
Evens == {2 * k : k \in -(Half \div 2)..(Half \div 2)}

LEMMA EvenOffsets ==
  ASSUME NEW left \in Evens, NEW a \in Evens
  PROVE  a \in -Half..Half /\ left \in -Half..Half /\ Offset(left, a) <= Turn - 2
<1>1. PICK j \in -(Half \div 2)..(Half \div 2), k \in -(Half \div 2)..(Half \div 2) : left = 2 * j /\ a = 2 * k
  BY DEF Evens
<1>2. a \in -Half..Half /\ left \in -Half..Half
  BY <1>1, TurnNat
<1>3. Offset(left, a) \in 0..(Turn - 1) /\ Offset(left, a) - (a - left) \in {-Turn, 0, Turn}
  BY <1>2, OffsetIs
<1>4. Offset(left, a) # Turn - 1
  BY <1>1, <1>3, TurnNat
<1> QED BY <1>2, <1>3, <1>4, TurnNat

\* The angles passed in a turn by a.
Passed(from, a) == {(from + k) % Turn : k \in Least(0, a)..Greatest(0, a)}

\* A turn stays within the limits if its offset does, from its start to its end.
LEMMA StaysWithin ==
  ASSUME NEW from \in -Half..Half, NEW left \in Evens, NEW right \in Evens, ~WholeCircle(left, right),
         NEW a \in -Turn..Turn
  PROVE  Passed(from, a) \subseteq Interval(left, right)
           <=> LET u == Offset(left, from)
                   w == Offset(left, right)
               IN u <= w /\ u + a \in 0..w
<1> DEFINE u == Offset(left, from)
           w == Offset(left, right)
<1>1. /\ left \in -Half..Half /\ right \in -Half..Half
      /\ u \in 0..(Turn - 1) /\ u - (from - left) \in {-Turn, 0, Turn}
      /\ w \in 0..(Turn - 1) /\ w <= Turn - 2
  BY EvenOffsets, OffsetIs
<1> HIDE DEF u, w
<1>2. ASSUME NEW k \in -Turn..Turn
      PROVE  /\ (from + k) % Turn \in Interval(left, right) <=> (from + k - left) % Turn <= w
             /\ (from + k - left) % Turn \in 0..(Turn - 1)
             /\ ((from + k - left) % Turn) - (u + k) \in {-2 * Turn, -Turn, 0, Turn, 2 * Turn, 3 * Turn, -3 * Turn}
  <2>1. from + k \in Int /\ from + k \in -(Half + Turn)..(Half + Turn)
    BY TurnNat
  <2>2. from + k - left \in Int /\ from + k - left \in -(2 * Turn)..(2 * Turn)
    BY <1>1, TurnNat
  <2>3. /\ (from + k - left) % Turn \in 0..(Turn - 1)
        /\ ((from + k - left) % Turn) - (from + k - left) \in {-2 * Turn, -Turn, 0, Turn, 2 * Turn}
    BY <2>2, RemainderNear
  <2>4. (from + k) % Turn \in Interval(left, right) <=> (from + k - left) % Turn <= w
    BY <1>1, <2>1, InInterval DEF w
  <2> QED BY <1>1, <2>3, <2>4, TurnNat
<1>3. DEFINE range == Least(0, a)..Greatest(0, a)
<1>4. range \subseteq -Turn..Turn /\ \A k \in Int : k \in range <=> (0 <= k /\ k <= a) \/ (a <= k /\ k <= 0)
  BY TurnNat DEF Least, Greatest
<1>5. Passed(from, a) \subseteq Interval(left, right) <=> \A k \in range : (from + k - left) % Turn <= w
  BY <1>2, <1>4 DEF Passed
<1> HIDE DEF range
<1>6. ASSUME u <= w, u + a \in 0..w
      PROVE  \A k \in range : (from + k - left) % Turn <= w
  <2> TAKE k \in range
  <2>1. k \in -Turn..Turn /\ u + k \in 0..w
    BY <1>1, <1>4, <1>6
  <2> QED BY <1>1, <1>2, <2>1, TurnNat
<1>7. ASSUME \A k \in range : (from + k - left) % Turn <= w
      PROVE  u <= w /\ u + a \in 0..w
  <2>1. u <= w
    <3>1. 0 \in range /\ 0 \in -Turn..Turn
      BY <1>4, TurnNat
    <3> QED BY <1>1, <1>2, <1>7, <3>1, TurnNat
  <2>2. u + a <= w
    <3> SUFFICES ASSUME u + a > w PROVE FALSE
      BY <1>1
    <3>1. w + 1 - u \in range /\ w + 1 - u \in -Turn..Turn
      BY <1>1, <1>4, <2>1, TurnNat
    <3> QED BY <1>1, <1>2, <1>7, <3>1, TurnNat
  <2>3. u + a >= 0
    <3> SUFFICES ASSUME u + a < 0 PROVE FALSE
      BY <1>1
    <3>1. -1 - u \in range /\ -1 - u \in -Turn..Turn
      BY <1>1, <1>4, <2>1, TurnNat
    <3> QED BY <1>1, <1>2, <1>7, <3>1, TurnNat
  <2> QED BY <1>1, <2>1, <2>2, <2>3
<1> QED BY <1>5, <1>6, <1>7 DEF u, w

\* What the code decides, in terms of the offsets of the two angles and of the right limit.
LEMMA TurnIs ==
  ASSUME NEW from \in -Half..Half, NEW to \in -Half..Half, NEW left \in -Half..Half, NEW right \in -Half..Half
  PROVE  LET u == Offset(left, from)
             v == Offset(left, to)
             w == Offset(left, right)
             delta == ShortestAngularDistance(from, to)
             out == ShortestAngularDistanceWithLimits(from, to, left, right)
         IN /\ out.ok \in BOOLEAN
            /\ delta \in (1 - Half)..Half /\ delta - (v - u) \in {-Turn, 0, Turn}
            /\ out.angle \in {delta, TwoPiComplement(delta)}
            /\ WholeCircle(left, right) => out.ok
            /\ u = 0 /\ w = 0 => out.ok /\ out.angle = v
            /\ ~WholeCircle(left, right) /\ ~(u = 0 /\ w = 0) =>
                 /\ out.ok <=> u <= w /\ v <= w
                 /\ out.ok => out.angle = v - u
<1> DEFINE u == Offset(left, from)
           v == Offset(left, to)
           w == Offset(left, right)
           delta == ShortestAngularDistance(from, to)
           other == TwoPiComplement(delta)
           reach == FindMinMaxDelta(from, left, right)
           beyond == FindMinMaxDelta(to, left, right)
           out == ShortestAngularDistanceWithLimits(from, to, left, right)
           up == Greatest(delta, other)
           down == Least(delta, other)
           range == reach.min..reach.max
           full == WholeCircle(left, right)
<1>1. /\ u \in 0..(Turn - 1) /\ u - (from - left) \in {-Turn, 0, Turn}
      /\ v \in 0..(Turn - 1) /\ v - (to - left) \in {-Turn, 0, Turn}
      /\ w \in 0..(Turn - 1) /\ w - (right - left) \in {-Turn, 0, Turn}
  BY OffsetIs
<1>2. /\ delta \in (1 - Half)..Half /\ delta - (to - from) \in {-Turn, 0, Turn}
      /\ other = IF delta < 0 THEN delta + Turn ELSE IF delta > 0 THEN delta - Turn ELSE Turn
  BY ShortestIs, OtherWay
<1>3. reach = IF u <= w THEN [within |-> TRUE, min |-> -u, max |-> IF w = 0 THEN Turn ELSE w - u]
              ELSE [within |-> full, min |-> w - u, max |-> Turn - u]
  BY ReachIs DEF WholeCircle
<1>4. out = CASE reach.within /\ delta \in range -> [ok |-> TRUE, angle |-> delta]
              [] reach.within /\ delta \notin range /\ other \in range -> [ok |-> TRUE, angle |-> other]
              [] reach.within /\ {delta, other} \cap range = {} ->
                   [ok |-> FALSE, angle |-> WayOut(beyond.min, beyond.max, up, down, delta, other)]
              [] OTHER -> [ok |-> FALSE, angle |-> WayOut(reach.min, reach.max, down, up, delta, other)]
  BY DEF ShortestAngularDistanceWithLimits
<1>5. full => w = 0
  BY <1>1, TurnNat DEF WholeCircle
<1> HIDE DEF u, v, w, delta, other, reach, beyond, out, full
<1>6. up \in {delta, other} /\ down \in {delta, other}
  BY DEF Greatest, Least
<1> HIDE DEF up, down
<1>7. \A min, max : WayOut(min, max, up, down, delta, other) \in {delta, other}
                    /\ WayOut(min, max, down, up, delta, other) \in {delta, other}
  BY <1>6 DEF WayOut
<1>8. /\ delta - (v - u) \in {-Turn, 0, Turn} /\ delta \in Int /\ other \in Int
      /\ u = v => delta = 0 /\ other = Turn
      /\ u < v => \/ delta = v - u /\ other = v - u - Turn
                  \/ delta = v - u - Turn /\ other = v - u
      /\ u > v => \/ delta = v - u /\ other = v - u + Turn
                  \/ delta = v - u + Turn /\ other = v - u
  BY <1>1, <1>2, TurnNat
<1> HIDE DEF range
<1>9. reach.within /\ delta \in range => out = [ok |-> TRUE, angle |-> delta]
  BY <1>4
<1>10. reach.within /\ delta \notin range /\ other \in range => out = [ok |-> TRUE, angle |-> other]
  BY <1>4
<1>11. reach.within /\ delta \notin range /\ other \notin range =>
         out = [ok |-> FALSE, angle |-> WayOut(beyond.min, beyond.max, up, down, delta, other)]
  <2>1. delta \notin range /\ other \notin range <=> {delta, other} \cap range = {}
    OBVIOUS
  <2> QED BY <1>4, <2>1
<1>12. ~reach.within => out = [ok |-> FALSE, angle |-> WayOut(reach.min, reach.max, down, up, delta, other)]
  BY <1>4
<1>13. reach.within \in BOOLEAN /\ (reach.within <=> u <= w \/ full)
  BY <1>1, <1>3 DEF WholeCircle, full
<1>14. out.ok \in BOOLEAN /\ out.angle \in {delta, other}
       /\ (out.ok <=> reach.within /\ (delta \in range \/ other \in range))
       /\ (out.ok => out.angle \in range)
       /\ (delta \in range /\ out.ok => out.angle = delta)
  <2>1. CASE reach.within /\ delta \in range
    <3>1. out.ok = TRUE /\ out.angle = delta
      BY <1>13, <1>9, <2>1
    <3> QED BY <3>1, <1>13, <2>1
  <2>2. CASE reach.within /\ delta \notin range /\ other \in range
    <3>1. out.ok = TRUE /\ out.angle = other
      BY <1>13, <1>10, <2>2
    <3> QED BY <3>1, <1>13, <2>2
  <2>3. CASE reach.within /\ delta \notin range /\ other \notin range
    <3>1. out.ok = FALSE /\ out.angle \in {delta, other}
      BY <1>13, <1>7, <1>11, <2>3
    <3> QED BY <3>1, <1>13, <2>3
  <2>4. CASE ~reach.within
    <3>1. out.ok = FALSE /\ out.angle \in {delta, other}
      BY <1>13, <1>7, <1>12, <2>4
    <3> QED BY <3>1, <1>13, <2>4
  <2> QED BY <1>13, <2>1, <2>2, <2>3, <2>4
<1>15. range = IF u <= w THEN (-u)..(IF w = 0 THEN Turn ELSE w - u) ELSE (w - u)..(Turn - u)
  BY <1>1, <1>3 DEF range
<1>16. full => out.ok
  <2> SUFFICES ASSUME full PROVE delta \in range \/ other \in range
    BY <1>13, <1>14
  <2>1. range = (-u)..(Turn - u)
    <3>1. w = 0 /\ (u <= w => u = 0) /\ w - u = -u
      BY <1>1, <1>5
    <3> QED BY <1>1, <1>15, <3>1, TurnNat
  <2> QED BY <1>1, <1>8, <2>1, TurnNat
<1>17. u = 0 /\ w = 0 => out.ok /\ out.angle = v
  <2> SUFFICES ASSUME u = 0, w = 0 PROVE out.ok /\ out.angle = v
    OBVIOUS
  <2>1. range = 0..Turn /\ reach.within
    BY <1>1, <1>13, <1>15
  <2>2. CASE v = 0
    BY <1>1, <1>8, <1>14, <2>1, <2>2, TurnNat
  <2>3. CASE v > 0
    <3>1. v \in range /\ v - Turn \notin range
      BY <1>1, <2>1, <2>3, TurnNat
    <3>2. (delta = v /\ other = v - Turn) \/ (delta = v - Turn /\ other = v)
      BY <1>1, <1>8, <2>3
    <3> QED BY <1>14, <2>1, <3>1, <3>2
  <2> QED BY <1>1, <2>2, <2>3
<1>18. ~full /\ ~(u = 0 /\ w = 0) => (out.ok <=> u <= w /\ v <= w) /\ (out.ok => out.angle = v - u)
  <2> SUFFICES ASSUME ~full, ~(u = 0 /\ w = 0)
               PROVE  (out.ok <=> u <= w /\ v <= w) /\ (out.ok => out.angle = v - u)
    OBVIOUS
  <2>1. CASE u > w
    BY <1>1, <1>13, <1>14, <2>1
  <2>2. CASE u <= w
    <3>1. range = (-u)..(w - u) /\ reach.within
      BY <1>1, <1>13, <1>15, <2>2
    <3>2. v - u \in range <=> v <= w
      BY <1>1, <3>1
    <3>3. v - u - Turn \notin range /\ (v # u => v - u + Turn \notin range \/ v > u) /\ (v = u => Turn \notin range)
      BY <1>1, <3>1, TurnNat
    <3>4. \A a \in {delta, other} : a \in range => a = v - u
      BY <1>1, <1>8, <3>3
    <3>5. v - u \in {delta, other}
      BY <1>1, <1>8
    <3> QED BY <1>14, <2>2, <3>1, <3>2, <3>4, <3>5
  <2> QED BY <1>1, <2>1, <2>2
<1>19. delta \in (1 - Half)..Half
  BY <1>2
<1> QED BY <1>8, <1>14, <1>16, <1>17, <1>18, <1>19 DEF u, v, w, delta, other, out, full

\* What TurnsStayWithinLimits says of one turn.
KeepsLimits(from, to, left, right, out) ==
  LET within == Interval(left, right)
      target == to % Turn
      angle == out.angle
  IN /\ (from + angle) % Turn = target
     /\ \/ out.ok /\ within = {from % Turn}
        \/ out.ok = (Passed(from, angle) \subseteq within)
     /\ ~out.ok => ~({from % Turn, target} \subseteq within)
     /\ out.ok /\ Abs(angle) > Half /\ within # 0..(Turn - 1) =>
          \E a \in -Half..Half : (from + a) % Turn = target /\ ~(Passed(from, a) \subseteq within)

LEMMA Congruent ==
  ASSUME NEW from \in -Half..Half, NEW to \in -Half..Half,
         NEW a \in -Turn..Turn, a - (to - from) \in {-Turn, 0, Turn, -2 * Turn, 2 * Turn}
  PROVE  (from + a) % Turn = to % Turn
<1>1. /\ from + a \in Int /\ from + a \in -(2 * Turn)..(2 * Turn)
      /\ to \in Int /\ to \in -(2 * Turn)..(2 * Turn)
  BY TurnNat
<1>2. /\ (from + a) % Turn \in 0..(Turn - 1)
      /\ ((from + a) % Turn) - (from + a) \in {-2 * Turn, -Turn, 0, Turn, 2 * Turn}
      /\ to % Turn \in 0..(Turn - 1) /\ (to % Turn) - to \in {-2 * Turn, -Turn, 0, Turn, 2 * Turn}
  BY <1>1, RemainderNear
<1> QED BY <1>2, TurnNat

LEMMA LimitsKept ==
  ASSUME NEW from \in Evens, NEW to \in Evens, NEW left \in Evens, NEW right \in Evens
  PROVE  KeepsLimits(from, to, left, right, ShortestAngularDistanceWithLimits(from, to, left, right))
<1> DEFINE u == Offset(left, from)
           v == Offset(left, to)
           w == Offset(left, right)
           delta == ShortestAngularDistance(from, to)
           out == ShortestAngularDistanceWithLimits(from, to, left, right)
           angle == out.angle
           within == Interval(left, right)
           full == WholeCircle(left, right)
<1>1. from \in -Half..Half /\ to \in -Half..Half /\ left \in -Half..Half /\ right \in -Half..Half
  BY EvenOffsets
<1>2. /\ u \in 0..(Turn - 1) /\ u - (from - left) \in {-Turn, 0, Turn}
      /\ v \in 0..(Turn - 1) /\ v - (to - left) \in {-Turn, 0, Turn}
      /\ w \in 0..(Turn - 1)
  BY <1>1, OffsetIs
<1>3. /\ out.ok \in BOOLEAN
      /\ delta \in (1 - Half)..Half /\ delta - (v - u) \in {-Turn, 0, Turn}
      /\ angle \in {delta, TwoPiComplement(delta)}
      /\ full => out.ok
      /\ u = 0 /\ w = 0 => out.ok /\ angle = v
      /\ ~full /\ ~(u = 0 /\ w = 0) =>
           /\ out.ok <=> u <= w /\ v <= w
           /\ out.ok => angle = v - u
  BY <1>1, TurnIs
<1>4. TwoPiComplement(delta) = IF delta < 0 THEN delta + Turn ELSE IF delta > 0 THEN delta - Turn ELSE Turn
  BY <1>3, OtherWay
<1>5. full => within = 0..(Turn - 1)
  BY DEF WholeCircle, Interval
<1>6. ~full => /\ from % Turn \in within <=> u <= w
               /\ to % Turn \in within <=> v <= w
  <2>1. /\ from \in Int /\ from \in -(Half + Turn)..(Half + Turn)
        /\ to \in Int /\ to \in -(Half + Turn)..(Half + Turn)
    BY <1>1, TurnNat
  <2> QED BY <1>1, <2>1, InInterval DEF Offset
<1>7. \A a \in -Turn..Turn : ~full => (Passed(from, a) \subseteq within <=> u <= w /\ u + a \in 0..w)
  BY <1>1, StaysWithin
<1>8. \A a \in -Turn..Turn : a - (to - from) \in {-Turn, 0, Turn, -2 * Turn, 2 * Turn} => (from + a) % Turn = to % Turn
  BY <1>1, Congruent
<1>9. \A a \in -Turn..Turn : full => Passed(from, a) \subseteq within
  <2>1. ASSUME NEW a \in -Turn..Turn PROVE \A k \in Least(0, a)..Greatest(0, a) : (from + k) % Turn \in 0..(Turn - 1)
    <3> TAKE k \in Least(0, a)..Greatest(0, a)
    <3>1. from + k \in Int
      BY <1>1, TurnNat DEF Least, Greatest
    <3> QED BY <3>1, Remainder
  <2> QED BY <1>5, <2>1 DEF Passed
<1>10. u = 0 /\ w = 0 /\ ~full => within = {from % Turn}
  <2> SUFFICES ASSUME u = 0, w = 0, ~full PROVE within = {from % Turn}
    OBVIOUS
  <2>1. within = {(left + k) % Turn : k \in 0..0}
    BY DEF Interval, WholeCircle, Offset
  <2>2. within = {(left + 0) % Turn} /\ left + 0 = left
    BY <1>1, <2>1
  <2>3. from % Turn \in within
    BY <1>6, <1>2
  <2> QED BY <2>2, <2>3
<1> HIDE DEF u, v, w, delta, out, angle, within, full
<1>11. angle \in -Turn..Turn /\ angle - (to - from) \in {-Turn, 0, Turn, -2 * Turn, 2 * Turn}
       /\ delta \in -Turn..Turn /\ delta - (to - from) \in {-Turn, 0, Turn, -2 * Turn, 2 * Turn}
  <2>1. delta \in -Turn..Turn /\ delta - (to - from) \in {-Turn, 0, Turn, -2 * Turn, 2 * Turn}
    BY <1>1, <1>2, <1>3, TurnNat
  <2>2. angle \in -Turn..Turn /\ (angle = delta \/ angle = delta + Turn \/ angle = delta - Turn)
    BY <1>3, <1>4, TurnNat
  <2> QED BY <1>1, <1>2, <1>3, <2>1, <2>2, TurnNat
<1>12. (from + angle) % Turn = to % Turn /\ (from + delta) % Turn = to % Turn
  BY <1>8, <1>11
<1>13. (out.ok /\ within = {from % Turn}) \/ out.ok = (Passed(from, angle) \subseteq within)
  <2>1. CASE full
    BY <1>3, <1>9, <1>11, <2>1
  <2>2. CASE ~full /\ u = 0 /\ w = 0
    BY <1>3, <1>10, <2>2
  <2>3. CASE ~full /\ ~(u = 0 /\ w = 0)
    <3>1. out.ok <=> u <= w /\ v <= w
      BY <1>3, <2>3
    <3>2. Passed(from, angle) \subseteq within <=> u <= w /\ u + angle \in 0..w
      BY <1>7, <1>11, <2>3
    <3>3. out.ok => angle = v - u /\ u + angle = v
      BY <1>2, <1>3, <2>3
    <3>4. u <= w /\ u + angle \in 0..w => v <= w
      <4>1. angle = v - u \/ angle = v - u + Turn \/ angle = v - u - Turn \/ angle = v - u + 2 * Turn \/ angle = v - u - 2 * Turn
        BY <1>1, <1>2, <1>3, <1>4, TurnNat
      <4> QED BY <1>2, <4>1, TurnNat
    <3> QED BY <1>2, <1>3, <3>1, <3>2, <3>3, <3>4
  <2> QED BY <2>1, <2>2, <2>3
<1>14. ~out.ok => ~({from % Turn, to % Turn} \subseteq within)
  <2> SUFFICES ASSUME ~out.ok PROVE from % Turn \notin within \/ to % Turn \notin within
    OBVIOUS
  <2> QED BY <1>3, <1>6
<1>15. ASSUME out.ok, Abs(angle) > Half, within # 0..(Turn - 1)
       PROVE  \E a \in -Half..Half : (from + a) % Turn = to % Turn /\ ~(Passed(from, a) \subseteq within)
  <2>1. ~full /\ delta \in -Half..Half
    BY <1>3, <1>5, <1>15, TurnNat
  <2>2. angle # delta
    BY <1>3, <1>15, TurnNat DEF Abs
  <2>3. ~(u <= w /\ u + delta \in 0..w)
    <3>1. u + delta = v \/ u + delta = v - Turn \/ u + delta = v + Turn
      BY <1>2, <1>3, TurnNat
    <3>2. angle = v - u
      BY <1>2, <1>3, <1>15, <2>1
    <3>3. u + delta # v
      BY <1>2, <1>3, <2>2, <3>2
    <3> QED BY <1>2, <3>1, <3>3, TurnNat
  <2>4. ~(Passed(from, delta) \subseteq within)
    BY <1>7, <1>11, <2>1, <2>3
  <2> QED BY <1>12, <2>1, <2>4
<1> QED BY <1>12, <1>13, <1>14, <1>15 DEF KeepsLimits, out, angle, within

-----------------------------------------------------------------------------
(* ScanFilter.                                                              *)

\* A scan of n points is a sequence.
LEMMA ScanIs ==
  ASSUME NEW n \in Nat, NEW S, NEW d \in [1..n -> S]
  PROVE  Len(d) = n /\ DOMAIN d = 1..n /\ d \in Seq(S)
OBVIOUS

\* The place of a point in the reversed scan.
Mirror(n, i) == n - i + 1

\* The same points take part in a mean, whichever way the scan is gone through.
LEMMA NearMirrored ==
  ASSUME NEW n \in Nat, NEW d \in [1..n -> Nat], NEW i \in (Window + 1)..(n - Window), NEW j \in (i - 2)..(i + 2)
  PROVE  /\ Mirror(n, i) \in (Window + 1)..(n - Window)
         /\ j \in Near(Reverse(d), i) <=> Mirror(n, j) \in Near(d, Mirror(n, i))
         /\ Reverse(d)[j] = d[Mirror(n, j)]
<1> DEFINE r == Reverse(d)
<1>1. r \in [1..n -> Nat] /\ \A k \in 1..n : r[k] = d[Mirror(n, k)]
  BY ScanIs DEF Reverse, Mirror
<1>2. Mirror(n, i) \in (Window + 1)..(n - Window) /\ i \in 1..n /\ j \in 1..n
      /\ Mirror(n, j) \in (Mirror(n, i) - 2)..(Mirror(n, i) + 2)
  BY DEF Mirror, Window
<1>3. r[i] = d[Mirror(n, i)] /\ r[j] = d[Mirror(n, j)]
  BY <1>1, <1>2
<1> HIDE DEF r
<1>4. j \in Near(r, i) <=> r[j] # 0 /\ Gap(r[i], r[j]) < 40
  BY DEF Near, Window
<1>5. Mirror(n, j) \in Near(d, Mirror(n, i)) <=> d[Mirror(n, j)] # 0 /\ Gap(d[Mirror(n, i)], d[Mirror(n, j)]) < 40
  BY <1>2 DEF Near, Window
<1> QED BY <1>2, <1>3, <1>4, <1>5 DEF r

LEMMA MeanMirrored ==
  ASSUME NEW n \in Nat, NEW d \in [1..n -> Nat], NEW i \in (Window + 1)..(n - Window)
  PROVE  Mean(Reverse(d), i) = Mean(d, Mirror(n, i))
<1> DEFINE r == Reverse(d)
           m == Mirror(n, i)
           near == Near(r, i)
           nearM == Near(d, m)
           part(j) == IF j \in near THEN r[j] ELSE 0
           one(j) == IF j \in near THEN 1 ELSE 0
           partM(j) == IF j \in nearM THEN d[j] ELSE 0
           oneM(j) == IF j \in nearM THEN 1 ELSE 0
<1>1. \A j \in (i - 2)..(i + 2) : part(j) = partM(Mirror(n, j)) /\ one(j) = oneM(Mirror(n, j))
  BY NearMirrored
<1>2. \A j \in 1..n : partM(j) \in Nat /\ oneM(j) \in Nat
  OBVIOUS
<1>3. /\ Mean(r, i) = (part(i - 2) + part(i - 1) + part(i) + part(i + 1) + part(i + 2))
                      \div (one(i - 2) + one(i - 1) + one(i) + one(i + 1) + one(i + 2))
      /\ Mean(d, m) = (partM(m - 2) + partM(m - 1) + partM(m) + partM(m + 1) + partM(m + 2))
                      \div (oneM(m - 2) + oneM(m - 1) + oneM(m) + oneM(m + 1) + oneM(m + 2))
  BY DEF Mean, Total
<1> HIDE DEF r, near, nearM, part, one, partM, oneM
<1>5. /\ Mirror(n, i - 2) = m + 2 /\ Mirror(n, i - 1) = m + 1 /\ Mirror(n, i) = m
      /\ Mirror(n, i + 1) = m - 1 /\ Mirror(n, i + 2) = m - 2
      /\ {m - 2, m - 1, m, m + 1, m + 2} \subseteq 1..n
      /\ {i - 2, i - 1, i, i + 1, i + 2} \subseteq (i - 2)..(i + 2)
  BY DEF Mirror, Window
<1> HIDE DEF m
<1>6. /\ part(i - 2) = partM(m + 2) /\ part(i - 1) = partM(m + 1) /\ part(i) = partM(m)
      /\ part(i + 1) = partM(m - 1) /\ part(i + 2) = partM(m - 2)
      /\ one(i - 2) = oneM(m + 2) /\ one(i - 1) = oneM(m + 1) /\ one(i) = oneM(m)
      /\ one(i + 1) = oneM(m - 1) /\ one(i + 2) = oneM(m - 2)
  BY <1>1, <1>5
<1>7. /\ \A j \in {m - 2, m - 1, m, m + 1, m + 2} : partM(j) \in Nat /\ oneM(j) \in Nat
  BY <1>2, <1>5
<1>8. part(i - 2) + part(i - 1) + part(i) + part(i + 1) + part(i + 2)
        = partM(m - 2) + partM(m - 1) + partM(m) + partM(m + 1) + partM(m + 2)
  <2> DEFINE a == partM(m + 2)
             b == partM(m + 1)
             c == partM(m)
             e == partM(m - 1)
             f == partM(m - 2)
  <2>1. a \in Nat /\ b \in Nat /\ c \in Nat /\ e \in Nat /\ f \in Nat
    BY <1>7
  <2>2. part(i - 2) + part(i - 1) + part(i) + part(i + 1) + part(i + 2) = a + b + c + e + f
    BY <1>6
  <2> HIDE DEF a, b, c, e, f
  <2>3. a + b + c + e + f = f + e + c + b + a
    BY <2>1
  <2> QED BY <2>2, <2>3 DEF a, b, c, e, f
<1>9. one(i - 2) + one(i - 1) + one(i) + one(i + 1) + one(i + 2)
        = oneM(m - 2) + oneM(m - 1) + oneM(m) + oneM(m + 1) + oneM(m + 2)
  <2> DEFINE a == oneM(m + 2)
             b == oneM(m + 1)
             c == oneM(m)
             e == oneM(m - 1)
             f == oneM(m - 2)
  <2>1. a \in Nat /\ b \in Nat /\ c \in Nat /\ e \in Nat /\ f \in Nat
    BY <1>7
  <2>2. one(i - 2) + one(i - 1) + one(i) + one(i + 1) + one(i + 2) = a + b + c + e + f
    BY <1>6
  <2> HIDE DEF a, b, c, e, f
  <2>3. a + b + c + e + f = f + e + c + b + a
    BY <2>1
  <2> QED BY <2>2, <2>3 DEF a, b, c, e, f
<1> QED BY <1>3, <1>8, <1>9 DEF r, m

LEMMA SmoothMirrored ==
  ASSUME NEW n \in Nat, NEW d \in [1..n -> Nat]
  PROVE  SmoothFilter(Reverse(d)) = Reverse(SmoothFilter(d))
<1> DEFINE r == Reverse(d)
           inner == (Window + 1)..(n - Window)
           averaged(x, i) == i \in inner /\ isValidRange(x[i]) /\ Near(x, i) # {}
<1>1. /\ Len(d) = n /\ DOMAIN d = 1..n
      /\ r = [i \in 1..n |-> d[Mirror(n, i)]] /\ Len(r) = n /\ DOMAIN r = 1..n
  BY ScanIs DEF Reverse, Mirror
<1>2. CASE n < 5
  BY <1>1, <1>2 DEF SmoothFilter
<1>3. CASE n >= 5
  <2>1. /\ SmoothFilter(d) = [i \in 1..n |-> IF averaged(d, i) THEN Mean(d, i) ELSE d[i]]
        /\ SmoothFilter(r) = [i \in 1..n |-> IF averaged(r, i) THEN Mean(r, i) ELSE r[i]]
    BY <1>1, <1>3 DEF SmoothFilter
  <2>2. Reverse(SmoothFilter(d)) = [i \in 1..n |-> SmoothFilter(d)[Mirror(n, i)]]
    <3>1. Len(SmoothFilter(d)) = n
      BY <2>1
    <3> QED BY <3>1 DEF Reverse, Mirror
  <2>3. \A i \in 1..n : Mirror(n, i) \in 1..n /\ r[i] = d[Mirror(n, i)] /\ (Mirror(n, i) \in inner <=> i \in inner)
    BY <1>1 DEF Mirror, Window
  <2>4. ASSUME NEW i \in inner
        PROVE  Near(r, i) # {} <=> Near(d, Mirror(n, i)) # {}
    <3>1. \A j \in (i - 2)..(i + 2) : j \in Near(r, i) <=> Mirror(n, j) \in Near(d, Mirror(n, i))
      BY NearMirrored
    <3>2. Near(r, i) \subseteq (i - 2)..(i + 2) /\ Near(d, Mirror(n, i)) \subseteq (Mirror(n, i) - 2)..(Mirror(n, i) + 2)
      BY DEF Near, Window
    <3>3. \A j \in (Mirror(n, i) - 2)..(Mirror(n, i) + 2) : Mirror(n, j) \in (i - 2)..(i + 2) /\ Mirror(n, Mirror(n, j)) = j
      BY DEF Mirror, Window
    <3> QED BY <3>1, <3>2, <3>3
  <2>5. ASSUME NEW i \in 1..n
        PROVE  SmoothFilter(r)[i] = SmoothFilter(d)[Mirror(n, i)]
    <3>1. averaged(r, i) <=> averaged(d, Mirror(n, i))
      BY <2>3, <2>4
    <3>2. averaged(r, i) => Mean(r, i) = Mean(d, Mirror(n, i))
      BY MeanMirrored
    <3>3. CASE averaged(r, i)
      <4>1. averaged(d, Mirror(n, i)) /\ Mirror(n, i) \in 1..n
        BY <2>3, <3>1, <3>3
      <4>2. SmoothFilter(r)[i] = Mean(r, i)
        BY <2>1, <3>3
      <4>3. SmoothFilter(d)[Mirror(n, i)] = Mean(d, Mirror(n, i))
        BY <2>1, <4>1
      <4> QED BY <3>2, <3>3, <4>2, <4>3
    <3>4. CASE ~averaged(r, i)
      <4>1. ~averaged(d, Mirror(n, i)) /\ Mirror(n, i) \in 1..n
        BY <2>3, <3>1, <3>4
      <4>2. SmoothFilter(r)[i] = r[i]
        BY <2>1, <3>4
      <4>3. SmoothFilter(d)[Mirror(n, i)] = d[Mirror(n, i)]
        BY <2>1, <4>1
      <4> QED BY <2>3, <4>2, <4>3
    <3> QED BY <3>3, <3>4
  <2>6. SmoothFilter(r) = [i \in 1..n |-> SmoothFilter(r)[i]]
    BY <2>1
  <2> HIDE DEF r, averaged
  <2> QED BY <2>2, <2>5, <2>6 DEF r
<1> QED BY <1>2, <1>3

\* Among points at one distance the mean is that distance.
LEMMA MeanOfOneValue ==
  ASSUME NEW n \in Nat, NEW v \in Nat, NEW d \in [1..n -> {0, v}],
         NEW i \in (Window + 1)..(n - Window), Near(d, i) # {}
  PROVE  Mean(d, i) = v
<1> DEFINE near == Near(d, i)
           part(j) == IF j \in near THEN d[j] ELSE 0
           one(j) == IF j \in near THEN 1 ELSE 0
           sum == part(i - 2) + part(i - 1) + part(i) + part(i + 1) + part(i + 2)
           cnt == one(i - 2) + one(i - 1) + one(i) + one(i + 1) + one(i + 2)
<1>1. Mean(d, i) = sum \div cnt
  BY DEF Mean, Total
<1>2. near \subseteq (i - 2)..(i + 2) /\ near # {} /\ \A j \in near : d[j] = v
  BY DEF Near, Window
<1>3. \A j : (part(j) = v /\ one(j) = 1) \/ (part(j) = 0 /\ one(j) = 0)
  BY <1>2
<1>4. \E j \in {i - 2, i - 1, i, i + 1, i + 2} : one(j) = 1
  BY <1>2
<1> HIDE DEF near, part, one
<1>5. cnt \in 1..5 /\ sum = v * cnt
  <2> DEFINE a == one(i - 2)
             b == one(i - 1)
             c == one(i)
             e == one(i + 1)
             f == one(i + 2)
  <2>1. a \in {0, 1} /\ b \in {0, 1} /\ c \in {0, 1} /\ e \in {0, 1} /\ f \in {0, 1}
        /\ (a = 1 \/ b = 1 \/ c = 1 \/ e = 1 \/ f = 1)
    BY <1>3, <1>4
  <2>2. part(i - 2) = v * a /\ part(i - 1) = v * b /\ part(i) = v * c /\ part(i + 1) = v * e /\ part(i + 2) = v * f
    BY <1>3
  <2> SUFFICES a + b + c + e + f \in 1..5 /\ v * a + v * b + v * c + v * e + v * f = v * (a + b + c + e + f)
    BY <2>2
  <2> HIDE DEF a, b, c, e, f
  <2> QED BY <2>1
<1> HIDE DEF sum, cnt
<1>6. \A k \in 1..5 : (v * k) \div k = v
  OBVIOUS
<1> QED BY <1>1, <1>5, <1>6

\* A scan whose points are all at one distance or have no echo.
RoundWall(d, n, v) == n \in Nat /\ v \in Nat /\ d \in [1..n -> {0, v}]

LEMMA SmoothKeepsRoundWalls ==
  ASSUME NEW n, NEW v, NEW d, RoundWall(d, n, v), NEW i \in 1..n, d[i] # 0
  PROVE  SmoothFilter(d)[i] = d[i]
<1> USE DEF RoundWall
<1>1. Len(d) = n /\ DOMAIN d = 1..n
  BY ScanIs
<1>2. i \in Window + 1 .. Len(d) - Window /\ Near(d, i) # {} => Mean(d, i) = d[i]
  BY <1>1, MeanOfOneValue
<1> QED BY <1>1, <1>2 DEF SmoothFilter

\* No neighbour is farther, so that nothing overflows, and all that are seen are at the distance
\* of the point itself: the mean is that or, truncated, one less.
LEMMA BilateralKeepsRoundWalls ==
  ASSUME NEW n, NEW v, NEW d, RoundWall(d, n, v), NEW e \in BilateralFilter(d),
         NEW i \in 1..n, d[i] # 0
  PROVE  e[i] = d[i] \/ e[i] = d[i] - 1
<1> USE DEF RoundWall
<1>1. Len(d) = n /\ DOMAIN d = 1..n /\ d[i] = v /\ v # 0
  BY ScanIs
<1>2. CASE n < 3
  BY <1>1, <1>2 DEF BilateralFilter
<1>3. CASE n >= 3
  <2> DEFINE seen == {Padded(d, j) : j \in i - Window .. i + Window} \ {0}
             near == {x \in seen : (d[i] - x) % 65536 <= Reach}
  <2>1. e[i] \in BilateralAt(d, i)
    BY <1>1, <1>3 DEF BilateralFilter
  <2>2. seen = {v}
    <3>1. \A j \in i - Window .. i + Window : Padded(d, j) \in {0, v}
      BY <1>1, <1>3 DEF Padded, Window
    <3>2. i \in i - Window .. i + Window /\ Padded(d, i) = v
      BY <1>1 DEF Padded, Window
    <3> QED BY <1>1, <3>1, <3>2
  <2>3. near = {v}
    <3>1. (v - v) % 65536 <= Reach
      BY <1>1 DEF Reach
    <3> HIDE DEF seen
    <3> QED BY <1>1, <2>2, <3>1
  <2>4. Min(near) = v /\ Max(near) = v
    <3>1. v <= v /\ v >= v
      BY <1>1
    <3>2. \E x \in {v} : \A y \in {v} : x <= y
      BY <3>1
    <3>3. \E x \in {v} : \A y \in {v} : x >= y
      BY <3>1
    <3>4. Min({v}) \in {v}
      BY <3>2, Zenon DEF Min
    <3>5. Max({v}) \in {v}
      BY <3>3, Zenon DEF Max
    <3> HIDE DEF near
    <3> QED BY <2>3, <3>4, <3>5
  <2>5. BilateralAt(d, i) = IF isValidRange(v) THEN (v - 1)..v ELSE {v}
    <3>1. BilateralAt(d, i) = CASE ~isValidRange(d[i]) -> {d[i]}
            [] isValidRange(d[i]) /\ (near = {} \/ \E x \in seen : x > d[i] /\ x - d[i] < Overflow) -> Undefined
            [] OTHER -> (Min(near) - 1)..Max(near)
      BY DEF BilateralAt
    <3>2. isValidRange(v) \in BOOLEAN
      BY DEF isValidRange
    <3> HIDE DEF seen, near
    <3> QED BY <1>1, <2>2, <2>3, <2>4, <3>1, <3>2
  <2> QED BY <1>1, <2>1, <2>5
<1> QED BY <1>2, <1>3

\* Of two distances, one of them zero, no difference is that of a tail.
LEMMA TailKeepsRoundWalls ==
  ASSUME NEW n, NEW v, NEW d, RoundWall(d, n, v), NEW level \in 0..3,
         NEW e \in TailFilter(d, level), NEW i \in 3..(n - 2), d[i] \notin 21..79
  PROVE  d[i] = 0 \/ e[i] = d[i]
<1> USE DEF RoundWall
<1>1. DOMAIN d = 1..n /\ i \in 1..n
  BY ScanIs
<1>2. e[i] \in TailAt(d, i, level)
  BY <1>1 DEF TailFilter
<1>3. d[i] = v => MayBeTail(d, i) = {}
  <2> SUFFICES ASSUME d[i] = v, NEW j \in {i - 2, i - 1, i + 1, i + 2}
               PROVE  j \in DOMAIN d /\ Gap(d[i], d[j]) \notin 21..79
    BY DEF MayBeTail
  <2>1. j \in 1..n
    OBVIOUS
  <2>2. Gap(d[i], d[j]) = IF d[j] = 0 THEN v ELSE 0
    BY <2>1 DEF Gap
  <2>3. Gap(d[i], d[j]) \notin 21..79
    BY <2>2
  <2> QED BY <1>1, <2>1, <2>3
<1>4. ~(0 >= PointNumThreshold(level))
  BY DEF PointNumThreshold
<1>5. Cardinality({}) = 0
  BY FS_EmptySet
<1>6. CASE d[i] = v /\ v # 0
  <2>1. Cardinality(MayBeTail(d, i)) = 0
    BY <1>3, <1>5, <1>6, Zenon
  <2>2. ~(Cardinality(MayBeTail(d, i)) >= PointNumThreshold(level))
    BY <1>4, <2>1, Zenon
  <2>3. TailAt(d, i, level) = {d[i]}
    BY <1>6, <2>2 DEF TailAt
  <2> QED BY <1>2, <2>3
<1> QED BY <1>1, <1>6

\* No intensity is below the negative of a threshold that is not negative.
LEMMA IntensityKeepsScans ==
  ASSUME NEW n, NEW v, NEW d, RoundWall(d, n, v), NEW intensity \in [1..n -> Nat],
         NEW range, NEW threshold \in Int, ~(threshold < 0), NEW i \in 1..n
  PROVE  IntensityFilter(d, intensity, range, threshold)[i] = d[i]
<1>1. DOMAIN d = 1..n /\ intensity[i] \in Nat /\ ~(intensity[i] < -threshold)
  BY DEF RoundWall
<1> QED BY <1>1 DEF IntensityFilter

-----------------------------------------------------------------------------
(* ScanPoints.                                                              *)

Measured == [angle : Nat, range : Nat]
Value == [angle : Int, num : Int, den : Int]

\* What is sorted and searched.
InOrder(s) ==
  /\ s \in Seq(Measured)
  /\ \A i, j \in DOMAIN s : i < j => s[i].angle <= s[j].angle

LEMMA MeasuredSeq ==
  ASSUME NEW s \in Seq(Measured)
  PROVE  /\ Len(s) \in Nat /\ DOMAIN s = 1..Len(s)
         /\ \A i \in DOMAIN s : i \in Nat /\ s[i] \in Measured /\ s[i].angle \in Nat /\ s[i].range \in Nat
<1>1. Len(s) \in Nat /\ DOMAIN s = 1..Len(s) /\ s \in [1..Len(s) -> Measured]
  BY LenProperties
<1>2. \A p \in Measured : p.angle \in Nat /\ p.range \in Nat
  BY DEF Measured
<1> QED BY <1>1, <1>2

\* The place found is that of the first point that does not come before the target.
LEMMA LowerBoundIs ==
  ASSUME NEW s \in Seq(Measured), NEW t \in Int
  PROVE  LET b == LowerBound(s, t) IN
         /\ b \in 0..Len(s)
         /\ b = 0 => \A i \in DOMAIN s : s[i].angle < t
         /\ b # 0 => s[b].angle >= t /\ \A i \in DOMAIN s : i < b => s[i].angle < t
<1> DEFINE I == {i \in 1..Len(s) : s[i].angle >= t}
           b == LowerBound(s, t)
<1>1. b = IF I # {} THEN Min(I) ELSE 0
  BY DEF LowerBound, SelectInSeq
<1>2. Len(s) \in Nat /\ DOMAIN s = 1..Len(s) /\ \A i \in DOMAIN s : s[i].angle \in Nat
  BY MeasuredSeq
<1>3. CASE I = {}
  <2>1. b = 0
    BY <1>1, <1>3
  <2>2. \A i \in DOMAIN s : s[i].angle < t
    BY <1>2, <1>3
  <2> HIDE DEF I, b
  <2> QED BY <1>2, <2>1, <2>2 DEF b
<1>4. CASE I # {}
  <2>1. I \subseteq Nat
    BY <1>2
  <2>2. PICK m \in I : \A i \in I : m <= i
    <3> HIDE DEF I
    <3> QED BY <1>4, <2>1, LeastElement
  <2>3. Min(I) \in I /\ \A i \in I : Min(I) <= i
    <3> HIDE DEF I
    <3> QED BY <2>2 DEF Min
  <2>4. b \in I /\ \A i \in I : b <= i
    <3> HIDE DEF I, b
    <3> QED BY <1>1, <1>4, <2>3
  <2>5. b \in 1..Len(s) /\ s[b].angle >= t
    <3> HIDE DEF b
    <3> QED BY <2>4
  <2>6. ASSUME NEW i \in DOMAIN s, i < b PROVE s[i].angle < t
    <3> HIDE DEF b
    <3> QED BY <1>2, <2>4, <2>5, <2>6
  <2> HIDE DEF I, b
  <2> QED BY <1>2, <2>5, <2>6 DEF b
<1> QED BY <1>3, <1>4

\* Whether the loop appends a value for a target, and which.
Hit(s, t) == LowerBound(s, t) > 1
ValueAt(s, t) == Between(s[LowerBound(s, t) - 1], s[LowerBound(s, t)], t)

\* A value is between the last point before its target and the first at or behind it.
LEMMA ValueAtIs ==
  ASSUME NEW s, InOrder(s), NEW t \in Nat, Hit(s, t)
  PROVE  /\ ValueAt(s, t) \in Value
         /\ ValueAt(s, t).angle = t
         /\ \E i, j \in DOMAIN s :
              /\ s[i].angle < t /\ \A k \in DOMAIN s : s[k].angle < t => s[k].angle <= s[i].angle
              /\ s[j].angle >= t /\ \A k \in DOMAIN s : s[k].angle >= t => s[k].angle >= s[j].angle
              /\ ValueAt(s, t) = Between(s[i], s[j], t)
<1> DEFINE j == LowerBound(s, t)
           i == j - 1
<1>1. /\ s \in Seq(Measured) /\ Len(s) \in Nat /\ DOMAIN s = 1..Len(s)
      /\ \A k \in DOMAIN s : s[k] \in Measured /\ s[k].angle \in Nat /\ s[k].range \in Nat /\ k \in Nat
  BY MeasuredSeq DEF InOrder
<1>2. /\ j \in 2..Len(s) /\ s[j].angle >= t
      /\ \A k \in DOMAIN s : k < j => s[k].angle < t
  <2>1. /\ j \in 0..Len(s) /\ j > 1
        /\ j # 0 => s[j].angle >= t /\ \A k \in DOMAIN s : k < j => s[k].angle < t
    <3>1. t \in Int
      OBVIOUS
    <3> QED BY <1>1, <3>1, LowerBoundIs DEF Hit
  <2> HIDE DEF j
  <2> QED BY <1>1, <2>1
<1>3. ValueAt(s, t) = Between(s[i], s[j], t)
  BY DEF ValueAt
<1> HIDE DEF j
<1>4. i \in DOMAIN s /\ j \in DOMAIN s /\ i < j
  BY <1>1, <1>2
<1> HIDE DEF i
<1>5. \A k \in DOMAIN s : s[k] \in Measured /\ s[k].angle \in Nat /\ s[k].range \in Nat /\ k \in Nat
  BY <1>1
<1>6. s[i].angle < t
  BY <1>2, <1>4
<1>7. ASSUME NEW k \in DOMAIN s, s[k].angle < t PROVE s[k].angle <= s[i].angle
  <2>1. k < j
    <3> SUFFICES ASSUME ~(k < j) PROVE FALSE
      OBVIOUS
    <3>1. k = j \/ s[j].angle <= s[k].angle
      BY <1>4, <1>5 DEF InOrder
    <3> QED BY <1>2, <1>4, <1>5, <1>7, <3>1
  <2>2. k = i \/ k < i
    BY <1>4, <1>5, <2>1 DEF i
  <2> QED BY <1>4, <1>5, <2>2 DEF InOrder
<1>8. ASSUME NEW k \in DOMAIN s, s[k].angle >= t PROVE s[k].angle >= s[j].angle
  <2>1. k = j \/ j < k
    BY <1>2, <1>4, <1>5, <1>8
  <2> QED BY <1>4, <1>5, <2>1 DEF InOrder
<1>9. Between(s[i], s[j], t) \in Value /\ Between(s[i], s[j], t).angle = t
  BY <1>4, <1>5 DEF Between, Value
<1> QED BY <1>2, <1>3, <1>4, <1>6, <1>7, <1>8, <1>9

\* There is a value for a target if some point comes before it and another does not.
LEMMA HitIs ==
  ASSUME NEW s, InOrder(s), NEW t \in Nat
  PROVE  Hit(s, t) <=> (\E i \in DOMAIN s : s[i].angle < t) /\ (\E j \in DOMAIN s : s[j].angle >= t)
<1>1. CASE Hit(s, t)
  BY <1>1, ValueAtIs
<1>2. ASSUME NEW i \in DOMAIN s, NEW j \in DOMAIN s, s[i].angle < t, s[j].angle >= t
      PROVE  Hit(s, t)
  <2> DEFINE b == LowerBound(s, t)
  <2>1. Len(s) \in Nat /\ DOMAIN s = 1..Len(s) /\ \A k \in DOMAIN s : s[k].angle \in Nat /\ k \in Nat
    BY MeasuredSeq DEF InOrder
  <2>2. /\ b \in 0..Len(s)
        /\ b = 0 => \A k \in DOMAIN s : s[k].angle < t
        /\ b # 0 => s[b].angle >= t
    <3>1. t \in Int /\ s \in Seq(Measured)
      BY DEF InOrder
    <3> QED BY <3>1, LowerBoundIs
  <2> HIDE DEF b
  <2>3. b # 0
    BY <1>2, <2>1, <2>2
  <2>4. b # 1
    <3>1. i = 1 \/ s[1].angle <= s[i].angle
      BY <2>1 DEF InOrder
    <3>2. b = 1 => s[1].angle >= t
      BY <2>2
    <3> QED BY <1>2, <2>1, <3>1, <3>2
  <2> QED BY <2>2, <2>3, <2>4 DEF Hit, b
<1> QED BY <1>1, <1>2

\* What the loop has appended after n targets.
Appended(o, s, n) ==
  /\ o \in Seq(Value)
  /\ \A k \in 1..Len(o) : \E m \in 0..(n - 1) : Hit(s, m * Fine) /\ o[k] = ValueAt(s, m * Fine)
  /\ \A m \in 0..(n - 1) : Hit(s, m * Fine) => \E k \in 1..Len(o) : o[k].angle = m * Fine
  /\ \A k, l \in 1..Len(o) : k < l => o[k].angle < o[l].angle

LEMMA AppendedStarts ==
  ASSUME NEW s
  PROVE  Appended(<< >>, s, 0)
<1>1. << >> \in Seq(Value) /\ Len(<< >>) = 0
  BY EmptySeq
<1>2. 1..0 = {} /\ 0..(0 - 1) = {}
  OBVIOUS
<1> QED BY <1>1, <1>2 DEF Appended

\* One turn of the loop.
LEMMA AppendedGoesOn ==
  ASSUME NEW s, InOrder(s), NEW n \in Nat \ {0}, NEW o, Appended(o, s, n - 1)
  PROVE  Appended(IF Hit(s, (n - 1) * Fine) THEN Append(o, ValueAt(s, (n - 1) * Fine)) ELSE o, s, n)
<1> DEFINE t == (n - 1) * Fine
           v == ValueAt(s, t)
           out == Append(o, v)
<1>1. t \in Nat
  <2>1. n - 1 \in Nat /\ Fine \in Nat
    BY ScaleAssumption
  <2> QED BY <2>1
<1>2. o \in Seq(Value) /\ Len(o) \in Nat
  BY LenProperties DEF Appended
<1>3. \A m \in 0..(n - 1) : m = n - 1 \/ m \in 0..((n - 1) - 1)
  OBVIOUS
<1>4. \A m \in 0..((n - 1) - 1) : m \in 0..(n - 1) /\ n - 1 \in 0..(n - 1)
  OBVIOUS
<1>5. n - 1 \in 0..(n - 1)
  OBVIOUS
<1>6. CASE ~Hit(s, t)
  <2>1. \A k \in 1..Len(o) : \E m \in 0..(n - 1) : Hit(s, m * Fine) /\ o[k] = ValueAt(s, m * Fine)
    BY <1>4 DEF Appended
  <2>2. \A m \in 0..(n - 1) : Hit(s, m * Fine) => \E k \in 1..Len(o) : o[k].angle = m * Fine
    BY <1>3, <1>6 DEF Appended
  <2> QED BY <1>6, <2>1, <2>2 DEF Appended
<1>7. CASE Hit(s, t)
  <2>1. v \in Value /\ v.angle = t
    BY <1>1, <1>7, ValueAtIs
  <2> HIDE DEF v
  <2>2. /\ out \in Seq(Value) /\ Len(out) = Len(o) + 1
        /\ \A k \in 1..Len(o) : out[k] = o[k]
        /\ out[Len(o) + 1] = v
    BY <1>2, <2>1, AppendProperties
  <2> HIDE DEF out
  <2>3. \A k \in 1..Len(out) : (k \in 1..Len(o) /\ out[k] = o[k]) \/ (k = Len(out) /\ out[k] = v)
    BY <1>2, <2>2
  <2>4. ASSUME NEW k \in 1..Len(out)
        PROVE  \E m \in 0..(n - 1) : Hit(s, m * Fine) /\ out[k] = ValueAt(s, m * Fine)
    <3>1. CASE k \in 1..Len(o) /\ out[k] = o[k]
      <4>1. PICK m \in 0..((n - 1) - 1) : Hit(s, m * Fine) /\ o[k] = ValueAt(s, m * Fine)
        BY <3>1 DEF Appended
      <4> QED BY <1>4, <3>1, <4>1
    <3>2. CASE k = Len(out) /\ out[k] = v
      BY <1>5, <1>7, <3>2 DEF v
    <3> QED BY <2>3, <3>1, <3>2
  <2>5. ASSUME NEW m \in 0..(n - 1), Hit(s, m * Fine)
        PROVE  \E k \in 1..Len(out) : out[k].angle = m * Fine
    <3>1. CASE m = n - 1
      <4>1. Len(out) \in 1..Len(out) /\ out[Len(out)].angle = m * Fine
        BY <1>2, <2>1, <2>2, <3>1
      <4> QED BY <4>1
    <3>2. CASE m \in 0..((n - 1) - 1)
      <4>1. PICK k \in 1..Len(o) : o[k].angle = m * Fine
        BY <2>5, <3>2 DEF Appended
      <4>2. k \in 1..Len(out) /\ out[k] = o[k]
        BY <1>2, <2>2
      <4> QED BY <4>1, <4>2
    <3> QED BY <1>3, <3>1, <3>2
  <2>6. ASSUME NEW k \in 1..Len(o)
        PROVE  o[k].angle < t
    <3>1. PICK m \in 0..((n - 1) - 1) : Hit(s, m * Fine) /\ o[k] = ValueAt(s, m * Fine)
      BY DEF Appended
    <3>2. m * Fine \in Nat /\ m * Fine < t
      <4>1. Fine \in Nat /\ Fine > 0 /\ m \in Nat /\ (n - 1) - m \in Nat /\ (n - 1) - m > 0
        BY ScaleAssumption
      <4>2. (n - 1) * Fine = m * Fine + ((n - 1) - m) * Fine
        BY <4>1
      <4>3. ((n - 1) - m) * Fine > 0 /\ m * Fine \in Nat
        BY <4>1
      <4> QED BY <4>1, <4>2, <4>3
    <3>3. o[k].angle = m * Fine
      BY <3>1, <3>2, ValueAtIs
    <3> QED BY <3>2, <3>3
  <2>7. ASSUME NEW k \in 1..Len(out), NEW l \in 1..Len(out), k < l
        PROVE  out[k].angle < out[l].angle
    <3>1. k \in 1..Len(o) /\ out[k] = o[k]
      BY <1>2, <2>2, <2>7
    <3>2. CASE l \in 1..Len(o) /\ out[l] = o[l]
      BY <2>7, <3>1, <3>2 DEF Appended
    <3>3. CASE l = Len(out) /\ out[l] = v
      BY <2>1, <2>6, <3>1, <3>3
    <3> QED BY <2>3, <3>2, <3>3
  <2>8. Appended(out, s, n)
    BY <2>2, <2>4, <2>5, <2>7 DEF Appended
  <2> QED BY <1>7, <2>8 DEF out, v
<1> QED BY <1>6, <1>7

\* The whole loop, by induction over the targets.
LEMMA InterpolatedIs ==
  ASSUME NEW s, InOrder(s)
  PROVE  Appended(InterpolatedUpTo(s)[Targets], s, Targets)
<1> DEFINE S == Seq(Value)
           next(o, n) == IF Hit(s, (n - 1) * Fine) THEN Append(o, ValueAt(s, (n - 1) * Fine)) ELSE o
           step == [n \in 0..Targets |-> [o \in S |-> IF n = 0 THEN o ELSE next(o, n)]]
           F == InterpolatedUpTo(s)
<1>1. Targets \in Nat /\ 0 <= Targets
  BY ScaleAssumption
<1>2. << >> \in S
  BY EmptySeq
<1>3. ASSUME NEW n \in 0..Targets, n # 0, NEW o \in S
      PROVE  next(o, n) \in S
  <2>1. CASE Hit(s, (n - 1) * Fine)
    <3>1. (n - 1) * Fine \in Nat
      <4>1. n - 1 \in Nat /\ Fine \in Nat
        BY <1>3, ScaleAssumption
      <4> QED BY <4>1
    <3>2. ValueAt(s, (n - 1) * Fine) \in Value
      BY <2>1, <3>1, ValueAtIs
    <3> QED BY <2>1, <3>2, AppendProperties
  <2> QED BY <2>1
<1> HIDE DEF next, S
<1>4. step \in [0..Targets -> [S -> S]]
  BY <1>3
<1>5. PICK f : Steps(f, 0, Targets, S, << >>, step)
  BY <1>1, <1>2, <1>4, Recursion
<1>6. f = [n \in 0..Targets |-> IF n = 0 THEN << >> ELSE next(f[n - 1], n)]
  <2>1. f \in [0..Targets -> S] /\ f[0] = << >> /\ \A n \in 0..Targets : n # 0 => f[n] = step[n][f[n - 1]]
    BY <1>5 DEF Steps
  <2>2. ASSUME NEW n \in 0..Targets, n # 0
        PROVE  f[n] = next(f[n - 1], n)
    <3>1. f[n - 1] \in S
      <4>1. n - 1 \in 0..Targets
        BY <1>1, <2>2
      <4> QED BY <2>1, <4>1
    <3>2. f[n] = step[n][f[n - 1]]
      <4> HIDE DEF step
      <4> QED BY <2>1, <2>2
    <3> QED BY <2>2, <3>1, <3>2
  <2> HIDE DEF step
  <2> QED BY <2>1, <2>2
<1>7. F = CHOOSE g : g = [n \in 0..Targets |-> IF n = 0 THEN << >> ELSE next(g[n - 1], n)]
  BY DEF InterpolatedUpTo, next, Hit, ValueAt
<1>8. F = [n \in 0..Targets |-> IF n = 0 THEN << >> ELSE next(F[n - 1], n)]
  <2> HIDE DEF F
  <2> QED BY <1>6, <1>7, Zenon
<1> HIDE DEF F
<1> DEFINE T == {n \in Nat : n <= Targets => Appended(F[n], s, n)}
<1>9. 0 \in T
  BY <1>1, <1>8, AppendedStarts
<1>10. ASSUME NEW n \in Nat, n \in T
       PROVE  n + 1 \in T
  <2> SUFFICES ASSUME n + 1 <= Targets PROVE Appended(F[n + 1], s, n + 1)
    OBVIOUS
  <2> DEFINE m == n + 1
  <2>1. m \in Nat \ {0} /\ m \in 0..Targets /\ m - 1 = n /\ n <= Targets
    BY <1>1
  <2>2. Appended(F[m - 1], s, m - 1)
    BY <1>10, <2>1
  <2> HIDE DEF m
  <2>3. F[m] = next(F[m - 1], m)
    BY <1>8, <2>1
  <2>4. Appended(F[m], s, m)
    BY <2>1, <2>2, <2>3, AppendedGoesOn DEF next
  <2> QED BY <2>4 DEF m
<1>11. Nat \subseteq T
  <2> HIDE DEF T
  <2> QED BY <1>9, <1>10, SetInduction
<1> QED BY <1>1, <1>11 DEF F

\* Sorting keeps the points and puts them in order, wherever two of one angle come.
LEMMA SortedIs ==
  ASSUME NEW n \in Nat, NEW points \in [1..n -> Measured], NEW s \in Sorted(points)
  PROVE  InOrder(s) /\ {s[i] : i \in DOMAIN s} = {points[i] : i \in 1..n}
<1>1. DOMAIN points = 1..n
  OBVIOUS
<1>2. PICK p \in Bijection(1..n, 1..n) :
        /\ \A i, j \in 1..n : i < j => points[p[i]].angle <= points[p[j]].angle
        /\ s = [i \in 1..n |-> points[p[i]]]
  BY <1>1 DEF Sorted
<1>3. p \in [1..n -> 1..n] /\ \A j \in 1..n : \E i \in 1..n : p[i] = j
  BY <1>2 DEF Bijection, Injection, Surjection
<1>4. s \in [1..n -> Measured]
  BY <1>2, <1>3
<1>5. s \in Seq(Measured) /\ DOMAIN s = 1..n
  BY <1>4
<1>6. \A i, j \in DOMAIN s : i < j => s[i].angle <= s[j].angle
  BY <1>2, <1>5
<1>7. \A i \in 1..n : s[i] = points[p[i]] /\ p[i] \in 1..n
  BY <1>2, <1>3
<1>8. {s[i] : i \in DOMAIN s} = {points[i] : i \in 1..n}
  BY <1>3, <1>5, <1>7
<1> QED BY <1>5, <1>6, <1>8 DEF InOrder

LEMMA TurnedIs ==
  ASSUME NEW p \in [angle : 0..(FullTurn - 1), range : Ranges]
  PROVE  Turned(p) \in Measured
<1> DEFINE N == FullTurn
           a == p.angle + N \div 2
<1>1. N \in Nat /\ N > 0
  BY ScaleAssumption DEF FullTurn
<1>2. p.angle \in Nat /\ p.range \in Nat
  BY InputAssumption
<1>3. Turned(p) = [angle |-> a % N, range |-> p.range]
  BY DEF Turned
<1> HIDE DEF N
<1>4. N \div 2 \in Nat
  BY <1>1
<1>5. a \in Nat
  BY <1>2, <1>4
<1> HIDE DEF a
<1>6. a % N \in Nat
  BY <1>1, <1>5
<1> QED BY <1>2, <1>3, <1>6 DEF Measured

\* A value between two points is between their ranges.
LEMMA BetweenRanges ==
  ASSUME NEW p \in Measured, NEW q \in Measured, NEW t \in Nat, p.angle < t, t <= q.angle,
         NEW v, v = Between(p, q, t)
  PROVE  /\ v.num \in (Least(p.range, q.range) * v.den)..(Greatest(p.range, q.range) * v.den)
         /\ q.angle = t => v.num = q.range * v.den
<1> DEFINE A == q.angle - t
           B == t - p.angle
           a == p.range
           b == q.range
           lo == Least(a, b)
           hi == Greatest(a, b)
<1>1. A \in Nat /\ B \in Nat /\ a \in Nat /\ b \in Nat
  BY DEF Measured
<1>2. v.num = A * a + B * b /\ v.den = A + B /\ (q.angle = t => A = 0)
  BY <1>1 DEF Between, Measured
<1> HIDE DEF A, B, a, b
<1>3. /\ lo \in Nat /\ hi \in Nat
      /\ a - lo \in Nat /\ b - lo \in Nat /\ hi - a \in Nat /\ hi - b \in Nat
  BY <1>1 DEF Least, Greatest
<1> HIDE DEF lo, hi
<1>4. /\ A * (a - lo) \in Nat /\ B * (b - lo) \in Nat
      /\ A * (hi - a) \in Nat /\ B * (hi - b) \in Nat
  BY <1>1, <1>3
<1>5. /\ A * (a - lo) = A * a - A * lo /\ B * (b - lo) = B * b - B * lo
      /\ A * (hi - a) = A * hi - A * a /\ B * (hi - b) = B * hi - B * b
  BY <1>1, <1>3
<1>6. lo * (A + B) = A * lo + B * lo /\ hi * (A + B) = A * hi + B * hi
  BY <1>1, <1>3
<1>7. /\ A * a \in Int /\ B * b \in Int /\ A * lo \in Int /\ B * lo \in Int
      /\ A * hi \in Int /\ B * hi \in Int
  BY <1>1, <1>3
<1>8. A * lo + B * lo <= A * a + B * b /\ A * a + B * b <= A * hi + B * hi
  BY <1>4, <1>5, <1>7
<1>9. v.num \in (lo * v.den)..(hi * v.den)
  BY <1>2, <1>6, <1>7, <1>8
<1>10. A = 0 => A * a + B * b = b * (A + B)
  BY <1>1
<1>11. q.angle = t => v.num = b * v.den
  BY <1>2, <1>10
<1> QED BY <1>9, <1>11 DEF lo, hi, a, b

LEMMA PublishedIs ==
  ASSUME NEW n \in Nat, NEW scan \in [1..n -> [angle : 0..(FullTurn - 1), range : Ranges]],
         NEW out \in Published(scan)
  PROVE  \E s : /\ InOrder(s) /\ Appended(out, s, Targets)
               /\ {s[i] : i \in DOMAIN s} = {Turned(scan[i]) : i \in 1..n}
<1> DEFINE points == [i \in DOMAIN scan |-> Turned(scan[i])]
<1>1. DOMAIN scan = 1..n
  OBVIOUS
<1>2. points \in [1..n -> Measured] /\ \A i \in 1..n : points[i] = Turned(scan[i])
  <2>1. \A i \in 1..n : Turned(scan[i]) \in Measured
    BY TurnedIs
  <2> QED BY <1>1, <2>1
<1>3. PICK s \in Sorted(points) : out = InterpolatedUpTo(s)[Targets]
  BY DEF Published, Interpolated
<1> HIDE DEF points
<1>4. InOrder(s) /\ {s[i] : i \in DOMAIN s} = {points[i] : i \in 1..n}
  BY <1>2, <1>3, SortedIs
<1>5. Appended(out, s, Targets)
  BY <1>3, <1>4, InterpolatedIs
<1>6. {points[i] : i \in 1..n} = {Turned(scan[i]) : i \in 1..n}
  BY <1>2
<1> QED BY <1>4, <1>5, <1>6

\* What PointsAreMeasured says of one scan.
Measures(scan, out) ==
  LET measured == {Turned(scan[i]) : i \in DOMAIN scan}
      before(t) == {p \in measured : p.angle < t /\ \A q \in measured : q.angle < t => q.angle <= p.angle}
      behind(t) == {p \in measured : p.angle >= t /\ \A q \in measured : q.angle >= t => q.angle >= p.angle}
      targets == {t \in {k * Fine : k \in 0..(Targets - 1)} : before(t) # {} /\ behind(t) # {}}
  IN /\ {out[k].angle : k \in DOMAIN out} = targets
     /\ \A k, l \in DOMAIN out : k < l => out[k].angle < out[l].angle
     /\ \A k \in DOMAIN out :
          LET point == out[k] IN
          \E p \in before(point.angle), q \in behind(point.angle) :
            /\ point.num \in (Least(p.range, q.range) * point.den)..(Greatest(p.range, q.range) * point.den)
            /\ q.angle = point.angle => point.num = q.range * point.den

LEMMA PublishedIsMeasured ==
  ASSUME NEW n \in Nat, NEW scan \in [1..n -> [angle : 0..(FullTurn - 1), range : Ranges]],
         NEW out \in Published(scan)
  PROVE  Measures(scan, out)
<1> DEFINE measured == {Turned(scan[i]) : i \in DOMAIN scan}
           before(t) == {p \in measured : p.angle < t /\ \A q \in measured : q.angle < t => q.angle <= p.angle}
           behind(t) == {p \in measured : p.angle >= t /\ \A q \in measured : q.angle >= t => q.angle >= p.angle}
           targets == {t \in {k * Fine : k \in 0..(Targets - 1)} : before(t) # {} /\ behind(t) # {}}
<1>1. PICK s : /\ InOrder(s) /\ Appended(out, s, Targets)
               /\ {s[i] : i \in DOMAIN s} = {Turned(scan[i]) : i \in 1..n}
  BY PublishedIs
<1>2. measured = {s[i] : i \in DOMAIN s}
  <2>1. DOMAIN scan = 1..n
    OBVIOUS
  <2> QED BY <1>1, <2>1
<1> HIDE DEF measured
<1>3. /\ Len(s) \in Nat /\ DOMAIN s = 1..Len(s)
      /\ \A i \in DOMAIN s : i \in Nat /\ s[i] \in Measured /\ s[i].angle \in Nat /\ s[i].range \in Nat
  BY <1>1, MeasuredSeq DEF InOrder
<1>4. DOMAIN out = 1..Len(out)
  BY <1>1, LenProperties DEF Appended
<1>5. ASSUME NEW m \in 0..(Targets - 1) PROVE m * Fine \in Nat
  BY ScaleAssumption
<1>6. ASSUME NEW t \in Nat, Hit(s, t)
      PROVE  \E p \in before(t), q \in behind(t) : ValueAt(s, t) = Between(p, q, t)
  <2>1. PICK i, j \in DOMAIN s :
          /\ s[i].angle < t /\ \A k \in DOMAIN s : s[k].angle < t => s[k].angle <= s[i].angle
          /\ s[j].angle >= t /\ \A k \in DOMAIN s : s[k].angle >= t => s[k].angle >= s[j].angle
          /\ ValueAt(s, t) = Between(s[i], s[j], t)
    BY <1>1, <1>6, ValueAtIs
  <2>2. s[i] \in before(t)
    BY <1>2, <2>1
  <2>3. s[j] \in behind(t)
    BY <1>2, <2>1
  <2> HIDE DEF before, behind
  <2> QED BY <2>1, <2>2, <2>3
<1>7. ASSUME NEW t \in Nat, before(t) # {}, behind(t) # {}
      PROVE  Hit(s, t)
  <2>1. \E i \in DOMAIN s : s[i].angle < t
    BY <1>2, <1>7
  <2>2. \E j \in DOMAIN s : s[j].angle >= t
    BY <1>2, <1>7
  <2> QED BY <1>1, <2>1, <2>2, HitIs
<1>8. ASSUME NEW k \in DOMAIN out
      PROVE  \E m \in 0..(Targets - 1) :
               /\ Hit(s, m * Fine) /\ out[k] = ValueAt(s, m * Fine) /\ out[k].angle = m * Fine
  <2>1. PICK m \in 0..(Targets - 1) : Hit(s, m * Fine) /\ out[k] = ValueAt(s, m * Fine)
    BY <1>1, <1>4 DEF Appended
  <2>2. ValueAt(s, m * Fine).angle = m * Fine
    BY <1>1, <1>5, <2>1, ValueAtIs
  <2> QED BY <2>1, <2>2
<1>9. {out[k].angle : k \in DOMAIN out} = targets
  <2>1. ASSUME NEW k \in DOMAIN out PROVE out[k].angle \in targets
    <3>1. PICK m \in 0..(Targets - 1) : Hit(s, m * Fine) /\ out[k].angle = m * Fine
      BY <1>8
    <3>2. before(m * Fine) # {} /\ behind(m * Fine) # {}
      <4> HIDE DEF before, behind
      <4> QED BY <1>5, <1>6, <3>1
    <3> HIDE DEF before, behind
    <3> QED BY <3>1, <3>2
  <2>2. ASSUME NEW t \in targets PROVE \E k \in DOMAIN out : out[k].angle = t
    <3>1. PICK m \in 0..(Targets - 1) : t = m * Fine
      OBVIOUS
    <3>2. before(t) # {} /\ behind(t) # {}
      <4> HIDE DEF before, behind
      <4> QED OBVIOUS
    <3>3. Hit(s, m * Fine)
      <4> HIDE DEF before, behind, targets
      <4> QED BY <1>5, <1>7, <3>1, <3>2
    <3> QED BY <1>1, <1>4, <3>1, <3>3 DEF Appended
  <2> HIDE DEF targets
  <2> QED BY <2>1, <2>2
<1>10. \A k, l \in DOMAIN out : k < l => out[k].angle < out[l].angle
  BY <1>1, <1>4 DEF Appended
<1>11. ASSUME NEW k \in DOMAIN out
       PROVE  LET point == out[k] IN
              \E p \in before(point.angle), q \in behind(point.angle) :
                /\ point.num \in (Least(p.range, q.range) * point.den)..(Greatest(p.range, q.range) * point.den)
                /\ q.angle = point.angle => point.num = q.range * point.den
  <2>1. PICK m \in 0..(Targets - 1) :
          /\ Hit(s, m * Fine) /\ out[k] = ValueAt(s, m * Fine) /\ out[k].angle = m * Fine
    BY <1>8
  <2> DEFINE t == m * Fine
             v == out[k]
  <2>2. t \in Nat /\ v.angle = t
    BY <1>5, <2>1
  <2>3. PICK p \in before(t), q \in behind(t) : v = Between(p, q, t)
    <3> HIDE DEF before, behind
    <3> QED BY <1>6, <2>1, <2>2
  <2>4. p \in Measured /\ q \in Measured /\ p.angle < t /\ q.angle >= t
    BY <1>2, <1>3
  <2> HIDE DEF t, v
  <2>5. /\ v.num \in (Least(p.range, q.range) * v.den)..(Greatest(p.range, q.range) * v.den)
        /\ q.angle = t => v.num = q.range * v.den
    <3>1. t <= q.angle
      BY <2>2, <2>4 DEF Measured
    <3> QED BY <2>2, <2>3, <2>4, <3>1, BetweenRanges
  <2> HIDE DEF before, behind
  <2>6. p \in before(v.angle) /\ q \in behind(v.angle)
    BY <2>2, <2>3
  <2>7. q.angle = v.angle => v.num = q.range * v.den
    BY <2>2, <2>5
  <2>8. \E pp \in before(v.angle), qq \in behind(v.angle) :
                /\ v.num \in (Least(pp.range, qq.range) * v.den)..(Greatest(pp.range, qq.range) * v.den)
                /\ qq.angle = v.angle => v.num = qq.range * v.den
    BY <2>5, <2>6, <2>7
  <2> QED BY <2>8 DEF v
<1> HIDE DEF before, behind, targets
<1>12. QED
  BY <1>9, <1>10, <1>11 DEF Measures, before, behind, targets, measured

-----------------------------------------------------------------------------
(* LineFinder.                                                              *)

\* Held, and so every window but the first, is within the image's columns.
LEMMA HeldInside ==
  ASSUME NEW x \in Int
  PROVE  Held(x) \in 0..(ImageWidth - RectWidth)
BY RectAssumption DEF Held

\* What the program can ask for: a window within the image, and means within the windows.
LineInput(x, y, side, means) ==
  /\ x \in 0..(ImageWidth - RectWidth)
  /\ y \in 0..(ImageHeight - RectHeight)
  /\ side \in 0..100
  /\ means \in [1..(y \div RectHeight + 1) -> Means \cup {NoPoints}]

\* A point of the line is within its window's columns.
LEMMA PointInWindow ==
  ASSUME NEW x \in 0..(ImageWidth - RectWidth), NEW side \in 0..100, NEW mean \in Means \cup {NoPoints}
  PROVE  PointX(x, side, mean) \in 0..ImageWidth
<1>1. ImageWidth \in Nat /\ RectWidth \in Nat /\ RectWidth < ImageWidth
  BY RectAssumption
<1>2. (RectWidth * side) \div 100 \in 0..RectWidth
  <2>1. RectWidth * side \in Nat /\ RectWidth * side <= RectWidth * 100
    BY <1>1
  <2> QED BY <1>1, <2>1
<1>3. mean # NoPoints => mean \in 0..(RectWidth - 1)
  BY InputAssumption
<1> QED BY <1>1, <1>2, <1>3 DEF PointX

\* The windows as the recursion defines them, each in a column the image has.
LEMMA WindowsAre ==
  ASSUME NEW x, NEW y, NEW side, NEW means, LineInput(x, y, side, means)
  PROVE  LET w == Windows(x, y, side, means)
             rows == y \div RectHeight + 1
         IN /\ rows \in Nat /\ rows >= 1
            /\ w \in [1..rows -> [x : 0..(ImageWidth - RectWidth), y : Int]]
            /\ w[1] = [x |-> x, y |-> y]
            /\ \A k \in 2..rows : w[k] = NextWindow(w[k - 1], side, means[k - 1])
<1> DEFINE rows == y \div RectHeight + 1
           S == [x : 0..(ImageWidth - RectWidth), y : Int]
           W == Windows(x, y, side, means)
           step == [k \in 1..rows |-> [w \in S |-> IF k = 1 THEN w ELSE NextWindow(w, side, means[k - 1])]]
<1>1. rows \in Nat /\ rows >= 1
  <2>1. y \in Nat /\ RectHeight \in Nat /\ RectHeight > 0
    BY RectAssumption DEF LineInput
  <2>2. y \div RectHeight \in Nat
    BY <2>1
  <2> QED BY <2>2
<1>2. [x |-> x, y |-> y] \in S
  BY RectAssumption DEF LineInput
<1>3. ASSUME NEW k \in 2..rows, NEW w \in S
      PROVE  NextWindow(w, side, means[k - 1]) \in S
  <2>1. means[k - 1] \in Means \cup {NoPoints}
    BY <1>1 DEF LineInput
  <2>2. PointX(w.x, side, means[k - 1]) \in Int /\ side \in Int /\ w.y \in Int
    <3>1. side \in 0..100 /\ w.x \in 0..(ImageWidth - RectWidth) /\ w.y \in Int
      BY DEF LineInput
    <3>2. PointX(w.x, side, means[k - 1]) \in 0..ImageWidth
      BY <2>1, <3>1, PointInWindow
    <3> QED BY <3>1, <3>2
  <2>3. RectWidth \in Int /\ RectHeight \in Int
    BY RectAssumption
  <2>4. (100 * PointX(w.x, side, means[k - 1]) - RectWidth * side) \div 100 \in Int
    BY <2>2, <2>3
  <2> QED BY <2>2, <2>3, <2>4, HeldInside DEF NextWindow
<1> HIDE DEF rows
<1>4. step \in [1..rows -> [S -> S]]
  <2>1. ASSUME NEW k \in 1..rows, NEW w \in S
        PROVE  (IF k = 1 THEN w ELSE NextWindow(w, side, means[k - 1])) \in S
    <3>1. k # 1 => k \in 2..rows
      BY <1>1
    <3> HIDE DEF S
    <3> QED BY <1>3, <3>1
  <2> HIDE DEF S
  <2> QED BY <2>1
<1>5. PICK f \in [1..rows -> S] : f[1] = [x |-> x, y |-> y] /\ \A k \in 1..rows : k # 1 => f[k] = step[k][f[k - 1]]
  <2> HIDE DEF step, S
  <2>1. 1 \in Nat /\ 1 <= rows /\ rows \in Nat
    BY <1>1
  <2>2. \E f : Steps(f, 1, rows, S, [x |-> x, y |-> y], step)
    BY <2>1, <1>2, <1>4, Recursion
  <2> QED BY <2>2 DEF Steps
<1>6. f = [k \in 1..rows |-> IF k = 1 THEN [x |-> x, y |-> y] ELSE NextWindow(f[k - 1], side, means[k - 1])]
  <2>1. ASSUME NEW k \in 1..rows, k # 1
        PROVE  f[k] = NextWindow(f[k - 1], side, means[k - 1])
    <3>1. k \in 2..rows /\ f[k - 1] \in S
      BY <1>1, <1>5, <2>1
    <3>2. f[k] = step[k][f[k - 1]]
      <4> HIDE DEF step, S
      <4> QED BY <1>5, <3>1
    <3>3. step[k] = [w \in S |-> NextWindow(w, side, means[k - 1])]
      <4>1. step[k] = [w \in S |-> IF k = 1 THEN w ELSE NextWindow(w, side, means[k - 1])]
        <5> HIDE DEF S
        <5> QED OBVIOUS
      <4> HIDE DEF S, step
      <4> QED BY <2>1, <4>1
    <3> HIDE DEF S, step
    <3> QED BY <3>1, <3>2, <3>3
  <2> HIDE DEF step, S
  <2> QED BY <1>5, <2>1
<1>7. W = CHOOSE at : at = [k \in 1..rows |-> IF k = 1 THEN [x |-> x, y |-> y] ELSE NextWindow(at[k - 1], side, means[k - 1])]
  BY DEF Windows, rows
<1>8. W = [k \in 1..rows |-> IF k = 1 THEN [x |-> x, y |-> y] ELSE NextWindow(W[k - 1], side, means[k - 1])]
  BY <1>6, <1>7, Zenon
<1>9. \A k \in 1..rows : W[k] \in S
  <2> DEFINE T == {i \in Nat : i + 1 <= rows => W[i + 1] \in S}
  <2>1. 0 \in T
    <3>1. W[1] = [x |-> x, y |-> y]
      BY <1>1, <1>8
    <3> QED BY <1>2, <3>1
  <2>2. ASSUME NEW i \in Nat, i \in T
        PROVE  i + 1 \in T
    <3> SUFFICES ASSUME i + 1 + 1 <= rows PROVE W[i + 1 + 1] \in S
      OBVIOUS
    <3> DEFINE k == i + 1 + 1
    <3>1. k \in 2..rows /\ k \in 1..rows /\ k # 1 /\ k - 1 = i + 1
      BY <1>1
    <3>2. W[k - 1] \in S
      BY <1>1, <2>2, <3>1
    <3>3. W[k] = NextWindow(W[k - 1], side, means[k - 1])
      <4> HIDE DEF k, W
      <4> QED BY <1>8, <3>1
    <3> HIDE DEF k, W, S
    <3>4. W[k] \in S
      BY <1>3, <3>1, <3>2, <3>3
    <3> QED BY <3>4 DEF k
  <2>3. Nat \subseteq T
    <3> HIDE DEF T
    <3> QED BY <2>1, <2>2, SetInduction
  <2>4. ASSUME NEW k \in 1..rows PROVE W[k] \in S
    <3>1. k - 1 \in Nat /\ (k - 1) + 1 = k /\ k <= rows
      BY <1>1
    <3>2. k - 1 \in T
      BY <2>3, <3>1
    <3> HIDE DEF W, S
    <3> QED BY <3>1, <3>2
  <2> QED BY <2>4
<1>10. W \in [1..rows -> S]
  <2>1. W = [k \in 1..rows |-> W[k]]
    <3> HIDE DEF W
    <3> QED BY <1>8
  <2> HIDE DEF W, S
  <2> QED BY <1>9, <2>1
<1>11. W[1] = [x |-> x, y |-> y] /\ \A k \in 2..rows : W[k] = NextWindow(W[k - 1], side, means[k - 1])
  <2> HIDE DEF W
  <2>1. 1 \in 1..rows /\ \A k \in 2..rows : k \in 1..rows /\ k # 1
    BY <1>1
  <2> QED BY <1>8, <2>1
<1> QED BY <1>1, <1>10, <1>11 DEF rows

\* A window is its height above the next, so the last one is at the top.
LEMMA WindowRows ==
  ASSUME NEW x, NEW y, NEW side, NEW means, LineInput(x, y, side, means),
         NEW k \in 1..(y \div RectHeight + 1)
  PROVE  Windows(x, y, side, means)[k].y = y - (k - 1) * RectHeight
<1> DEFINE rows == y \div RectHeight + 1
           W == Windows(x, y, side, means)
           T == {i \in Nat : i + 1 <= rows => W[i + 1].y = y - i * RectHeight}
<1>1. /\ rows \in Nat /\ W[1] = [x |-> x, y |-> y]
      /\ \A l \in 2..rows : W[l] = NextWindow(W[l - 1], side, means[l - 1])
  BY WindowsAre
<1>2. RectHeight \in Int /\ y \in Int
  BY RectAssumption DEF LineInput
<1>3. 0 \in T
  BY <1>1, <1>2
<1>4. ASSUME NEW i \in Nat, i \in T
      PROVE  i + 1 \in T
  <2> SUFFICES ASSUME i + 1 + 1 <= rows PROVE W[i + 1 + 1].y = y - (i + 1) * RectHeight
    OBVIOUS
  <2> HIDE DEF rows, W
  <2> DEFINE l == i + 1 + 1
  <2>1. l \in 2..rows /\ l - 1 = i + 1 /\ i + 1 <= rows
    BY <1>1
  <2>2. W[i + 1].y = y - i * RectHeight
    BY <1>4, <2>1
  <2>3. W[l].y = W[i + 1].y - RectHeight
    <3> HIDE DEF l
    <3>1. W[l] = NextWindow(W[i + 1], side, means[i + 1])
      BY <1>1, <2>1
    <3> QED BY <3>1 DEF NextWindow
  <2>4. (i + 1) * RectHeight = i * RectHeight + RectHeight
    BY <1>2
  <2> QED BY <1>2, <2>2, <2>3, <2>4
<1>5. Nat \subseteq T
  <2> HIDE DEF T
  <2> QED BY <1>3, <1>4, SetInduction
<1>6. k - 1 \in Nat /\ (k - 1) + 1 = k /\ k <= rows
  BY <1>1
<1>7. k - 1 \in T
  BY <1>5, <1>6
<1> HIDE DEF W, rows
<1>8. W[k].y = y - (k - 1) * RectHeight
  BY <1>6, <1>7
<1> QED BY <1>8 DEF W

\* What WindowsInImage says of one line.
LEMMA WindowsInside ==
  ASSUME NEW x, NEW y, NEW side, NEW means, LineInput(x, y, side, means)
  PROVE  LET w == Windows(x, y, side, means)
             points == Points(x, y, side, means)
         IN /\ \A k \in DOMAIN w : w[k].x \in 0..(ImageWidth - RectWidth) /\ w[k].y \in 0..(ImageHeight - RectHeight)
            /\ \E k \in DOMAIN w : w[k].y < RectHeight
            /\ \A k \in DOMAIN points : points[k].x \in 0..ImageWidth
<1> DEFINE rows == y \div RectHeight + 1
           w == Windows(x, y, side, means)
           points == Points(x, y, side, means)
<1>1. rows \in Nat /\ rows >= 1 /\ w \in [1..rows -> [x : 0..(ImageWidth - RectWidth), y : Int]]
  BY WindowsAre
<1>2. /\ RectHeight \in Nat \ {0} /\ ImageHeight \in Nat /\ y \in Nat
      /\ side \in 0..100 /\ y <= ImageHeight - RectHeight
  BY RectAssumption DEF LineInput
<1>3. \A k \in 1..rows : w[k].y = y - (k - 1) * RectHeight
  BY WindowRows
<1>4. (rows - 1) * RectHeight <= y /\ y < (rows - 1) * RectHeight + RectHeight
  <2> DEFINE q == y \div RectHeight
  <2>1. q \in Nat /\ q * RectHeight <= y /\ y < (q + 1) * RectHeight
    <3>1. q \in Nat
      BY <1>2
    <3> QED BY <1>2, <3>1
  <2>2. rows - 1 = q
    BY <1>2
  <2> HIDE DEF q, rows
  <2> QED BY <1>2, <2>1, <2>2
<1> HIDE DEF rows, w
<1>5. ASSUME NEW k \in 1..rows
      PROVE  w[k].x \in 0..(ImageWidth - RectWidth) /\ w[k].y \in 0..(ImageHeight - RectHeight)
  <2>1. w[k].x \in 0..(ImageWidth - RectWidth)
    BY <1>1
  <2>2. (k - 1) * RectHeight \in Nat /\ (k - 1) * RectHeight <= (rows - 1) * RectHeight
    <3>1. k - 1 \in Nat /\ rows - k \in Nat
      BY <1>1
    <3>2. (k - 1) * RectHeight \in Nat /\ (rows - k) * RectHeight \in Nat
      BY <1>2, <3>1
    <3>3. (rows - 1) * RectHeight = (k - 1) * RectHeight + (rows - k) * RectHeight
      BY <1>1, <1>2
    <3> QED BY <1>1, <1>2, <3>2, <3>3
  <2> DEFINE up == (k - 1) * RectHeight
             top == (rows - 1) * RectHeight
  <2>3. w[k].y = y - up /\ top <= y
    BY <1>3, <1>4
  <2>4. up \in Nat /\ up <= top /\ top \in Int
    BY <1>1, <1>2, <2>2
  <2> HIDE DEF up, top
  <2>5. w[k].y \in 0..(ImageHeight - RectHeight)
    BY <1>2, <2>3, <2>4
  <2> QED BY <2>1, <2>5
<1>6. rows \in 1..rows /\ w[rows].y < RectHeight
  <2> DEFINE top == (rows - 1) * RectHeight
  <2>1. rows \in 1..rows
    BY <1>1
  <2>2. w[rows].y = y - top
    BY <1>3, <2>1
  <2>3. top <= y /\ y < top + RectHeight /\ top \in Int
    BY <1>1, <1>2, <1>4
  <2> HIDE DEF top
  <2> QED BY <1>2, <2>1, <2>2, <2>3
<1>7. ASSUME NEW k \in DOMAIN points PROVE points[k].x \in 0..ImageWidth
  <2>1. k \in 1..rows /\ points[k].x = PointX(w[k].x, side, means[k])
    BY <1>1 DEF Points, w
  <2>2. w[k].x \in 0..(ImageWidth - RectWidth) /\ means[k] \in Means \cup {NoPoints}
    BY <1>1, <2>1 DEF LineInput, rows
  <2> QED BY <1>2, <2>1, <2>2, PointInWindow
<1> QED BY <1>1, <1>5, <1>6, <1>7 DEF w

-----------------------------------------------------------------------------
(* Perception.                                                              *)

\* Which computation was made is told by the result.
LEMMA Computation ==
  ASSUME PerceptionNext
  PROVE  /\ result.of = "nothing"
         /\ \/ SmoothAny /\ result'.of = "any"
            \/ FilterRound /\ result'.of \in {"smooth", "bilateral", "tail", "intensity"}
            \/ PublishScan /\ result'.of = "points"
            \/ TurnWithin /\ result'.of = "turn"
            \/ FollowLine /\ result'.of = "line"
<1>1. SmoothAny => result'.of = "any"
  BY DEF SmoothAny
<1>2. FilterRound => result'.of \in {"smooth", "bilateral", "tail", "intensity"}
  BY DEF FilterRound
<1>3. PublishScan => result'.of = "points"
  BY DEF PublishScan
<1>4. TurnWithin => result'.of = "turn"
  BY DEF TurnWithin
<1>5. FollowLine => result'.of = "line"
  BY DEF FollowLine
<1> QED
  BY <1>1, <1>2, <1>3, <1>4, <1>5 DEF PerceptionNext

\* Smoothing a scan backwards gives the smoothed scan backwards, for every length and all
\* distances: the window is as wide on both sides and only measured points take part.
THEOREM SmoothingIsSymmetric == PerceptionSpec => []SmoothIsSymmetric
<1>1. PerceptionInit => SmoothIsSymmetric
  BY DEF PerceptionInit, SmoothIsSymmetric
<1>2. ASSUME SmoothIsSymmetric, [PerceptionNext]_result
      PROVE  SmoothIsSymmetric'
  <2>1. CASE PerceptionNext
    <3> SUFFICES ASSUME result'.of = "any" PROVE result'.mirrored = Reverse(result'.out)
      BY DEF SmoothIsSymmetric
    <3>1. SmoothAny
      BY <2>1, Computation
    <3>2. PICK n \in Lengths : \E d \in [1..n -> Distances] :
            result' = [of |-> "any", in |-> d, out |-> SmoothFilter(d), mirrored |-> SmoothFilter(Reverse(d))]
      BY <3>1 DEF SmoothAny
    <3>3. PICK d \in [1..n -> Distances] :
            result' = [of |-> "any", in |-> d, out |-> SmoothFilter(d), mirrored |-> SmoothFilter(Reverse(d))]
      BY <3>2
    <3>4. n \in Nat /\ d \in [1..n -> Nat]
      BY <3>3, InputAssumption
    <3> QED
      BY <3>3, <3>4, SmoothMirrored
  <2>2. CASE UNCHANGED result
    BY <1>2, <2>2 DEF SmoothIsSymmetric
  <2> QED
    BY <1>2, <2>1, <2>2
<1> QED
  BY <1>1, <1>2, PTL DEF PerceptionSpec

\* In a scan of a round wall the filters keep every echo, for every length and distance, but
\* for the exceptions the code makes, the millimetre that truncation takes off among them.
THEOREM RoundWallsAreKept == PerceptionSpec => []RoundWallsStay
<1>1. PerceptionInit => RoundWallsStay
  BY DEF PerceptionInit, RoundWallsStay
<1>2. ASSUME RoundWallsStay, [PerceptionNext]_result
      PROVE  RoundWallsStay'
  <2>1. CASE PerceptionNext
    <3> SUFFICES ASSUME result'.of \in {"smooth", "bilateral", "tail", "intensity"},
                        NEW i \in DOMAIN result'.in, result'.in[i] # 0
                 PROVE  \/ result'.out[i] = result'.in[i]
                        \/ result'.of = "bilateral" /\ result'.out[i] = result'.in[i] - 1
                        \/ /\ result'.of = "tail"
                           /\ i \notin 3..(Len(result'.in) - 2) \/ result'.in[i] \in 21..79 \/ result'.level \notin 0..3
                        \/ result'.of = "intensity" /\ result'.threshold < 0
      BY DEF RoundWallsStay
    <3>1. FilterRound
      BY <2>1, Computation
    <3>2. PICK d \in RoundScans :
            \/ result' = [of |-> "smooth", in |-> d, out |-> SmoothFilter(d)]
            \/ \E e \in BilateralFilter(d) : result' = [of |-> "bilateral", in |-> d, out |-> e]
            \/ \E level \in Levels : \E e \in TailFilter(d, level) :
                 result' = [of |-> "tail", in |-> d, out |-> e, level |-> level]
            \/ \E intensity \in [DOMAIN d -> Intensities], threshold \in Thresholds \cup {-t : t \in Thresholds} :
                 result' = [of |-> "intensity", in |-> d, threshold |-> threshold,
                            out |-> IntensityFilter(d, intensity, 70, threshold)]
      BY <3>1 DEF FilterRound
    <3>3. result'.in = d
      BY <3>2
    <3>4. PICK n, v : RoundWall(d, n, v)
      <4>1. PICK n \in Lengths, v \in Echoes : d \in [1..n -> {0, v}]
        BY DEF RoundScans
      <4>2. n \in Nat /\ v \in Nat
        BY <4>1, InputAssumption DEF Echoes
      <4> QED BY <4>1, <4>2 DEF RoundWall
    <3>5. Len(d) = n /\ DOMAIN d = 1..n /\ i \in 1..n /\ d[i] # 0
      BY <3>3, <3>4, ScanIs DEF RoundWall
    <3>6. CASE result' = [of |-> "smooth", in |-> d, out |-> SmoothFilter(d)]
      <4>1. SmoothFilter(d)[i] = d[i]
        BY <3>4, <3>5, SmoothKeepsRoundWalls
      <4> QED BY <3>6, <4>1
    <3>7. CASE \E e \in BilateralFilter(d) : result' = [of |-> "bilateral", in |-> d, out |-> e]
      <4>1. PICK e \in BilateralFilter(d) : result' = [of |-> "bilateral", in |-> d, out |-> e]
        BY <3>7
      <4>2. e[i] = d[i] \/ e[i] = d[i] - 1
        BY <3>4, <3>5, BilateralKeepsRoundWalls
      <4> QED BY <4>1, <4>2
    <3>8. CASE \E level \in Levels : \E e \in TailFilter(d, level) :
                 result' = [of |-> "tail", in |-> d, out |-> e, level |-> level]
      <4>1. PICK level \in Levels : \E e \in TailFilter(d, level) :
              result' = [of |-> "tail", in |-> d, out |-> e, level |-> level]
        BY <3>8
      <4>2. PICK e \in TailFilter(d, level) : result' = [of |-> "tail", in |-> d, out |-> e, level |-> level]
        BY <4>1
      <4>3. ASSUME level \in 0..3, i \in 3..(n - 2), d[i] \notin 21..79
            PROVE  e[i] = d[i]
        <5>1. d[i] = 0 \/ e[i] = d[i]
          BY <3>4, <4>2, <4>3, TailKeepsRoundWalls
        <5> QED BY <3>5, <5>1
      <4>4. result'.of = "tail" /\ result'.in = d /\ result'.out = e /\ result'.level = level
        BY <4>2
      <4> QED BY <3>5, <4>3, <4>4
    <3>9. CASE \E intensity \in [DOMAIN d -> Intensities], threshold \in Thresholds \cup {-t : t \in Thresholds} :
                 result' = [of |-> "intensity", in |-> d, threshold |-> threshold,
                            out |-> IntensityFilter(d, intensity, 70, threshold)]
      <4>1. ASSUME NEW intensity \in [1..n -> Nat], NEW threshold \in Int, ~(threshold < 0)
            PROVE  IntensityFilter(d, intensity, 70, threshold)[i] = d[i]
        BY <3>4, <3>5, <4>1, IntensityKeepsScans
      <4>2. PICK intensity \in [DOMAIN d -> Intensities], threshold \in Thresholds \cup {-t : t \in Thresholds} :
                 result' = [of |-> "intensity", in |-> d, threshold |-> threshold,
                            out |-> IntensityFilter(d, intensity, 70, threshold)]
        BY <3>9
      <4>3. threshold \in Int /\ intensity \in [1..n -> Nat]
        BY <3>5, InputAssumption
      <4>4. threshold < 0 \/ IntensityFilter(d, intensity, 70, threshold)[i] = d[i]
        BY <4>1, <4>3
      <4>5. /\ result'.of = "intensity" /\ result'.in = d /\ result'.threshold = threshold
            /\ result'.out = IntensityFilter(d, intensity, 70, threshold)
        BY <4>2
      <4> QED BY <4>4, <4>5
    <3> QED
      BY <3>2, <3>6, <3>7, <3>8, <3>9
  <2>2. CASE UNCHANGED result
    BY <1>2, <2>2 DEF RoundWallsStay
  <2> QED
    BY <1>2, <2>1, <2>2
<1> QED
  BY <1>1, <1>2, PTL DEF PerceptionSpec

\* A published scan is what was measured, for every number of points and targets: a value for
\* each target between two points, in order, and between the ranges of the nearest two.
THEOREM PublishedPointsAreMeasured == PerceptionSpec => []PointsAreMeasured
<1>1. PerceptionInit => PointsAreMeasured
  BY DEF PerceptionInit, PointsAreMeasured
<1>2. ASSUME PointsAreMeasured, [PerceptionNext]_result
      PROVE  PointsAreMeasured'
  <2>1. CASE PerceptionNext
    <3>1. CASE result'.of = "points"
      <4>1. PublishScan
        BY <2>1, <3>1, Computation
      <4>2. PICK n \in Counts : \E scan \in [1..n -> [angle : 0..(FullTurn - 1), range : Ranges]] :
              \E points \in Published(scan) : result' = [of |-> "points", in |-> scan, out |-> points]
        BY <4>1 DEF PublishScan
      <4>3. PICK scan \in [1..n -> [angle : 0..(FullTurn - 1), range : Ranges]] :
              \E points \in Published(scan) : result' = [of |-> "points", in |-> scan, out |-> points]
        BY <4>2
      <4>4. PICK points \in Published(scan) : result' = [of |-> "points", in |-> scan, out |-> points]
        BY <4>3
      <4>5. n \in Nat /\ result'.in = scan /\ result'.out = points
        BY <4>4, InputAssumption
      <4>6. Measures(result'.in, result'.out)
        <5>1. Measures(scan, points)
          BY <4>4, <4>5, PublishedIsMeasured
        <5> QED BY <4>5, <5>1
      <4> QED
        BY <4>6 DEF PointsAreMeasured, Measures
    <3>2. CASE result'.of # "points"
      BY <3>2 DEF PointsAreMeasured
    <3> QED
      BY <3>1, <3>2
  <2>2. CASE UNCHANGED result
    BY <1>2, <2>2 DEF PointsAreMeasured
  <2> QED
    BY <1>2, <2>1, <2>2
<1> QED
  BY <1>1, <1>2, PTL DEF PerceptionSpec

\* A turn that is called possible is one within the limits, one that is called impossible is
\* not, and the longer way is taken only where the shorter one leaves them, on every circle.
THEOREM TurnsKeepLimits == PerceptionSpec => []TurnsStayWithinLimits
<1>1. PerceptionInit => TurnsStayWithinLimits
  BY DEF PerceptionInit, TurnsStayWithinLimits
<1>2. ASSUME TurnsStayWithinLimits, [PerceptionNext]_result
      PROVE  TurnsStayWithinLimits'
  <2>1. CASE PerceptionNext
    <3>1. CASE result'.of = "turn"
      <4>1. TurnWithin
        BY <2>1, <3>1, Computation
      <4>2. PICK from \in Evens, to \in Evens, left \in Evens, right \in Evens :
              result' = [of |-> "turn", from |-> from, to |-> to, left |-> left, right |-> right,
                         out |-> ShortestAngularDistanceWithLimits(from, to, left, right)]
        BY <4>1 DEF TurnWithin, Evens
      <4>3. KeepsLimits(from, to, left, right, result'.out)
        BY <4>2, LimitsKept
      <4>4. from \in Int /\ from + 0 = from
        BY EvenOffsets
      <4>5. /\ result'.from = from /\ result'.to = to /\ result'.left = left /\ result'.right = right
        BY <4>2
      <4> QED
        BY <4>3, <4>4, <4>5 DEF TurnsStayWithinLimits, KeepsLimits, Passed
    <3>2. CASE result'.of # "turn"
      BY <3>2 DEF TurnsStayWithinLimits
    <3> QED
      BY <3>1, <3>2
  <2>2. CASE UNCHANGED result
    BY <1>2, <2>2 DEF TurnsStayWithinLimits
  <2> QED
    BY <1>2, <2>1, <2>2
<1> QED
  BY <1>1, <1>2, PTL DEF PerceptionSpec

\* No window leaves the image, whatever the sizes of the two and wherever the line is, and the
\* windows reach its top.
THEOREM WindowsStayInImage == PerceptionSpec => []WindowsInImage
<1>1. PerceptionInit => WindowsInImage
  BY DEF PerceptionInit, WindowsInImage
<1>2. ASSUME WindowsInImage, [PerceptionNext]_result
      PROVE  WindowsInImage'
  <2>1. CASE PerceptionNext
    <3>1. CASE result'.of = "line"
      <4> DEFINE y == ImageHeight - RectHeight
      <4>1. FollowLine
        BY <2>1, <3>1, Computation
      <4>2. PICK x \in {0, ImageWidth - RectWidth}, side \in Sides,
                 means \in [1..(y \div RectHeight + 1) -> Means \cup {NoPoints}] :
              result' = [of |-> "line", windows |-> Windows(x, y, side, means), points |-> Points(x, y, side, means)]
        BY <4>1 DEF FollowLine
      <4>3. LineInput(x, y, side, means)
        BY <4>2, RectAssumption, InputAssumption DEF LineInput
      <4>4. result'.windows = Windows(x, y, side, means) /\ result'.points = Points(x, y, side, means)
        BY <4>2
      <4> QED
        BY <4>3, <4>4, WindowsInside DEF WindowsInImage
    <3>2. CASE result'.of # "line"
      BY <3>2 DEF WindowsInImage
    <3> QED
      BY <3>1, <3>2
  <2>2. CASE UNCHANGED result
    BY <1>2, <2>2 DEF WindowsInImage
  <2> QED
    BY <1>2, <2>1, <2>2
<1> QED
  BY <1>1, <1>2, PTL DEF PerceptionSpec
=============================================================================
