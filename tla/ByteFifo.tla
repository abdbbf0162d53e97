------------------------------- MODULE ByteFifo -------------------------------
(***************************************************************************)
(* What a ring buffer promises its caller: a bounded first-in first-out    *)
(* store of bytes.  A block that does not fit is cut to what fits; the     *)
(* "force" calls discard the oldest bytes instead.                         *)
(***************************************************************************)
EXTENDS Integers, Sequences

CONSTANTS Bytes,      \* the bytes stored
          MaxBlock,   \* the longest block a caller passes or asks for
          Capacity    \* how many bytes fit

VARIABLES contents,   \* the bytes stored, oldest first
          out         \* the bytes the last get returned

vars == <<contents, out>>

Blocks == UNION {[1..n -> Bytes] : n \in 1..MaxBlock}
Least(m, n) == IF m < n THEN m ELSE n
Last(s, n) == SubSeq(s, Len(s) - n + 1, Len(s))

Init == contents = <<>> /\ out = <<>>

\* The bytes that do not fit are dropped.
Put(xs) ==
    /\ contents' = contents \o SubSeq(xs, 1, Least(Len(xs), Capacity - Len(contents)))
    /\ UNCHANGED out

\* The oldest bytes make room; a block longer than the buffer is cut.
PutForce(xs) ==
    /\ LET all == contents \o SubSeq(xs, 1, Least(Len(xs), Capacity))
       IN contents' = Last(all, Least(Len(all), Capacity))
    /\ UNCHANGED out

Get(n) ==
    LET k == Least(n, Len(contents))
    IN /\ k > 0
       /\ out' = SubSeq(contents, 1, k)
       /\ contents' = SubSeq(contents, k + 1, Len(contents))

Next ==
    \/ \E xs \in Blocks : Put(xs) \/ PutForce(xs)
    \/ \E n \in 1..MaxBlock : Get(n)

Spec == Init /\ [][Next]_vars
===============================================================================
