----------------------------- MODULE FrameParser -----------------------------
(***************************************************************************)
(* How the lidar driver finds frames in the bytes of the serial port       *)
(* (OrdlidarDriver::uart_data_handle): chunks of any size are appended to  *)
(* bin_buf_, which is searched for the two header bytes; a frame whose CRC *)
(* is right is taken out, a header with a wrong CRC is skipped.            *)
(*                                                                         *)
(* Of the bytes only the places of header pairs matter, as offsets into    *)
(* bin_buf_; whether a frame's CRC is right is found out when it is        *)
(* computed, which happens once per place. The call runs on one thread;    *)
(* its loop is cut into steps at its tests.                                *)
(*                                                                         *)
(* A chunk is as long as FIONREAD says, up to the size of the tty's buffer; *)
(* the array on the stack it is read into is shorter.                      *)
(***************************************************************************)
EXTENDS Integers

CONSTANTS FrameLen,   \* sizeof(OradarLidarFrame): 47
          MaxFrames,  \* frames bin_buf_ may hold: 100
          BufLen,     \* the array a chunk is read into, TMPBUFF_SIZE: 1024
          MaxChunk    \* bytes FIONREAD may report: 4095 for a tty of Linux

ASSUME FrameAssumption == FrameLen \in Nat /\ FrameLen >= 4
ASSUME ChunkAssumption == MaxChunk \in Nat /\ BufLen \in Nat /\ FrameLen <= BufLen
ASSUME LimitAssumption == MaxFrames \in Nat /\ 2 * BufLen <= FrameLen * MaxFrames

VARIABLES
  pc,       \* where the receive thread is in uart_data_handle
  size,     \* bin_buf_.size()
  headers,  \* offsets at which 0x54 0x2C begins
  headFlag, \* parsed_data_.head_flag, kept between calls
  pos,      \* the local pos: where the last search stopped
  headless, \* history: a frame was taken that did not begin with a header
  overrun   \* history: a chunk was longer than the array it was read into

vars == <<pc, size, headers, headFlag, pos, headless, overrun>>

TypeOK ==
  /\ pc \in {"idle", "entry", "loop", "search", "check", "crashed"}
  /\ size \in Nat /\ headers \subseteq Nat
  /\ headFlag \in BOOLEAN /\ pos \in Nat /\ headless \in BOOLEAN /\ overrun \in BOOLEAN

Init ==
  /\ pc = "idle" /\ size = 0 /\ headers = {}
  /\ headFlag = FALSE /\ pos = 0 /\ headless = FALSE /\ overrun = FALSE

\* A header is two different bytes, so two of them never overlap.
Apart(places) == \A p \in places : p + 1 \notin places

\* Bytes arrive; a header may begin with the last byte of the chunk before. None do
\* when the read fails: its -1 counts as data, of which the copying loop takes nothing.
Receive(n) ==
  /\ pc = "idle"
  /\ \E new \in SUBSET (0..(size + n - 2) \ 0..(size - 2)) :
       Apart(headers \cup new) /\ headers' = headers \cup new
  /\ size' = size + n
  /\ overrun' = (overrun \/ n > BufLen)
  /\ pc' = "entry"
  /\ UNCHANGED <<headFlag, pos, headless>>

\* Undefined behaviour: the rest of a chunk longer than the array overwrites the
\* thread's stack, which may end the process (or, as in Receive, not be noticed).
StackSmashed ==
  /\ pc = "idle" /\ BufLen < MaxChunk
  /\ pc' = "crashed" /\ overrun' = TRUE
  /\ UNCHANGED <<size, headers, headFlag, pos, headless>>

\* Too little for a frame; or too much, and all of it is thrown away (but not
\* head_flag); or the loop begins.
Entry ==
  /\ pc = "entry"
  /\ \/ size < FrameLen /\ pc' = "idle" /\ UNCHANGED <<size, headers, pos>>
     \/ size > FrameLen * MaxFrames /\ pc' = "idle" /\ size' = 0 /\ headers' = {} /\ UNCHANGED pos
     \/ /\ FrameLen <= size /\ size <= FrameLen * MaxFrames
        /\ pc' = "loop" /\ pos' = 0 /\ UNCHANGED <<size, headers>>
  /\ UNCHANGED <<headFlag, headless, overrun>>

\* The first k bytes are erased.
Erase(k) ==
  /\ size' = size - k
  /\ headers' = {p - k : p \in {q \in headers : q >= k}}

\* while (pos < bin_buf_.size() - 2), with the pos of the search before.
Loop ==
  /\ pc = "loop"
  /\ pc' = IF pos < size - 2 THEN "search" ELSE "idle"
  /\ UNCHANGED <<size, headers, headFlag, pos, headless, overrun>>

\* The search for the first header, which is not repeated while head_flag says that
\* it was found; what lies before it is erased, the last two bytes never.
Search ==
  /\ pc = "search"
  /\ \E p \in 0..(size - 2) :
       /\ \/ headFlag /\ p = 0
          \/ ~headFlag /\ p \in headers /\ \A q \in headers : p <= q
          \/ ~headFlag /\ p = size - 2 /\ \A q \in headers : q >= size - 2
       /\ pos' = p /\ Erase(p)
       /\ headFlag' = (headFlag \/ p < size - 2)
       /\ pc' = IF size - p < FrameLen THEN "idle" ELSE "check"
  /\ UNCHANGED <<headless, overrun>>

\* Mutant: one frame per call.
AcceptOne ==
  /\ pc = "check"
  /\ Erase(FrameLen)
  /\ headFlag' = FALSE
  /\ headless' = (headless \/ 0 \notin headers)
  /\ pc' = "idle"
  /\ UNCHANGED <<pos, overrun>>

\* Mutant: the loop goes on although less than a frame is left.
AcceptOn ==
  /\ pc = "check"
  /\ Erase(FrameLen)
  /\ headFlag' = FALSE
  /\ headless' = (headless \/ 0 \notin headers)
  /\ pc' = "loop"
  /\ UNCHANGED <<pos, overrun>>

\* The CRC is right: the frame is handed on and erased.
Accept ==
  /\ pc = "check"
  /\ Erase(FrameLen)
  /\ headFlag' = FALSE
  /\ headless' = (headless \/ 0 \notin headers)
  /\ pc' = IF size - FrameLen < FrameLen THEN "idle" ELSE "loop"
  /\ UNCHANGED <<pos, overrun>>

\* Mutant: head_flag is not reset.
RejectFrame ==
  /\ pc = "check"
  /\ Erase(2)
  /\ pc' = "loop"
  /\ UNCHANGED <<headFlag, pos, headless, overrun>>

\* The CRC is wrong: only the header is erased, "because lidar data may contain
\* head".
Reject ==
  /\ pc = "check"
  /\ Erase(2)
  /\ headFlag' = FALSE
  /\ pc' = "loop"
  /\ UNCHANGED <<pos, headless, overrun>>

Next ==
  \/ \E n \in 0..MaxChunk : Receive(n)
  \/ StackSmashed \/ Entry \/ Loop \/ Search \/ Accept \/ Reject

Spec == Init /\ [][Next]_vars

-----------------------------------------------------------------------------
(* Properties.                                                              *)

\* The limit of 100 frames, which would throw away whole frames and leave head_flag
\* behind, is never met unless a chunk overran the array before: although a call may
\* leave complete frames behind (Loop compares a pos from before the erasures with the
\* size after them), what it leaves is at most as much as a chunk, and two chunks that
\* fit the array are below the limit. Only longer ones reach it.
NothingThrownAway == pc = "entry" => size <= FrameLen * MaxFrames \/ overrun

\* Every frame that is handed on begins with a header, whatever the chunks and
\* however often head_flag is carried over to the next call, as long as none overran
\* the array (head_flag would outlive a buffer that the limit cleared).
FramesHaveHeaders == headless => overrun

\* The loops compare with bin_buf_.size() - 2, an unsigned difference: whatever was erased since
\* the size was last tested and however long the chunks, two bytes are left for it, so that no
\* loop runs past the end.
SizeNeverWraps == pc \in {"loop", "search"} => size >= 2
=============================================================================
