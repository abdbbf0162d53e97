------------------------------ MODULE RingBuffer ------------------------------
(***************************************************************************)
(* The ring buffer of 20180720ringbuffer: an index and a mirror bit for    *)
(* the reader and for the writer.  Equal indices mean empty when the       *)
(* mirror bits are equal and full when they differ.  Calls are atomic here *)
(* (one thread, or callers that exclude each other).                       *)
(***************************************************************************)
EXTENDS RingBufferConstants, Sequences

VARIABLES read_mirror, read_index, write_mirror, write_index, buffer_ptr,
          out,       \* the bytes the last ring_buffer_get or getchar copied out
          overtaken  \* history: a forced block ran past the reader

vars == <<read_mirror, read_index, write_mirror, write_index, buffer_ptr, out, overtaken>>

buffer_size == 4 * (PoolSize \div 4)      \* ALIGN_DOWN(size, ALIGN_SIZE)

Cells == 0 .. buffer_size - 1
Blocks == UNION {[1..n -> Bytes] : n \in 1..MaxBlock}

Init ==
    /\ read_mirror = 0 /\ read_index = 0
    /\ write_mirror = 0 /\ write_index = 0
    /\ buffer_ptr = [c \in Cells |-> NoByte]
    /\ out = <<>>
    /\ overtaken = FALSE

-------------------------------------------------------------------------------
(* ringbuffer.h                                                            *)

ring_buffer_status ==
    IF read_index # write_index THEN "HALFFULL"
    ELSE IF read_mirror = write_mirror THEN "EMPTY" ELSE "FULL"

ring_buffer_data_len ==
    CASE ring_buffer_status = "EMPTY" -> 0
      [] ring_buffer_status = "FULL" -> buffer_size
      [] OTHER -> IF write_index > read_index THEN write_index - read_index
                  ELSE buffer_size - (read_index - write_index)

ring_buffer_space_len == buffer_size - ring_buffer_data_len

-------------------------------------------------------------------------------
(* ringbuffer.c                                                            *)

Flip(mirror) == 1 - mirror
Shorter(m, n) == IF m < n THEN m ELSE n

\* The memcpy calls: the first n bytes of xs from write_index on, the rest of
\* them at the start of the pool.
Stored(xs, n) ==
    [c \in Cells |-> LET k == (c - write_index) % buffer_size
                     IN IF k < n THEN xs[k + 1] ELSE buffer_ptr[c]]

Copied(n) == [i \in 1..n |-> buffer_ptr[(read_index + i - 1) % buffer_size]]

FitsBelowEnd(index, n) == buffer_size - index > n

\* Fault: the mirror bit is not flipped.
AdvanceWriteNoFlip(n) ==
    /\ UNCHANGED write_mirror
    /\ write_index' = IF FitsBelowEnd(write_index, n) THEN write_index + n
                      ELSE n - (buffer_size - write_index)

AdvanceWrite(n) ==
    \/ /\ FitsBelowEnd(write_index, n)
       /\ write_index' = write_index + n
       /\ UNCHANGED write_mirror
    \/ /\ ~FitsBelowEnd(write_index, n)
       /\ write_mirror' = Flip(write_mirror)
       /\ write_index' = n - (buffer_size - write_index)

AdvanceRead(n) ==
    \/ /\ FitsBelowEnd(read_index, n)
       /\ read_index' = read_index + n
       /\ UNCHANGED read_mirror
    \/ /\ ~FitsBelowEnd(read_index, n)
       /\ read_mirror' = Flip(read_mirror)
       /\ read_index' = n - (buffer_size - read_index)

\* A full buffer stays full: the reader follows the writer.
FollowWriter(n) ==
    IF ring_buffer_status = "FULL"
    THEN /\ read_index' = write_index'
         /\ read_mirror' = IF FitsBelowEnd(write_index, n) THEN read_mirror
                                                           ELSE Flip(read_mirror)
    ELSE UNCHANGED <<read_index, read_mirror>>

ring_buffer_put(xs) ==
    LET length == Shorter(Len(xs), ring_buffer_space_len)
    IN /\ ring_buffer_space_len # 0
       /\ buffer_ptr' = Stored(xs, length)
       /\ AdvanceWrite(length)
       /\ UNCHANGED <<read_mirror, read_index, out, overtaken>>

\* Writing more than fits into a buffer that is not full passes the reader, who
\* is moved only in a full one.
Overtakes(length) == ring_buffer_status # "FULL" /\ length > ring_buffer_space_len

ring_buffer_put_force(xs) ==
    LET length == Shorter(Len(xs), buffer_size)
    IN /\ buffer_ptr' = Stored(xs, length)
       /\ overtaken' = (overtaken \/ Overtakes(length))
       /\ AdvanceWrite(length)
       /\ FollowWriter(length)
       /\ UNCHANGED out

ring_buffer_get(n) ==
    LET length == Shorter(n, ring_buffer_data_len)
    IN /\ ring_buffer_data_len # 0
       /\ out' = Copied(length)
       /\ AdvanceRead(length)
       /\ UNCHANGED <<write_mirror, write_index, buffer_ptr, overtaken>>

\* The single-character calls test index = buffer_size - 1.
BumpWrite ==
    \/ /\ write_index = buffer_size - 1
       /\ write_mirror' = Flip(write_mirror) /\ write_index' = 0
    \/ /\ write_index # buffer_size - 1
       /\ write_index' = write_index + 1 /\ UNCHANGED write_mirror

ring_buffer_putchar(ch) ==
    /\ ring_buffer_space_len # 0
    /\ buffer_ptr' = [buffer_ptr EXCEPT ![write_index] = ch]
    /\ BumpWrite
    /\ UNCHANGED <<read_mirror, read_index, out, overtaken>>

\* Fault: the reader does not follow when the buffer was full.
PutcharForceNoFollow(ch) ==
    /\ buffer_ptr' = [buffer_ptr EXCEPT ![write_index] = ch]
    /\ BumpWrite
    /\ UNCHANGED <<read_mirror, read_index, out, overtaken>>

ring_buffer_putchar_force(ch) ==
    /\ buffer_ptr' = [buffer_ptr EXCEPT ![write_index] = ch]
    /\ BumpWrite
    /\ IF ring_buffer_status = "FULL"
       THEN /\ read_index' = write_index'
            /\ read_mirror' = IF write_index = buffer_size - 1 THEN Flip(read_mirror)
                                                               ELSE read_mirror
       ELSE UNCHANGED <<read_index, read_mirror>>
    /\ UNCHANGED <<out, overtaken>>

ring_buffer_getchar ==
    /\ ring_buffer_data_len # 0
    /\ out' = <<buffer_ptr[read_index]>>
    /\ \/ /\ read_index = buffer_size - 1
          /\ read_mirror' = Flip(read_mirror) /\ read_index' = 0
       \/ /\ read_index # buffer_size - 1
          /\ read_index' = read_index + 1 /\ UNCHANGED read_mirror
    /\ UNCHANGED <<write_mirror, write_index, buffer_ptr, overtaken>>

Next ==
    \/ \E xs \in Blocks : ring_buffer_put(xs) \/ ring_buffer_put_force(xs)
    \/ \E ch \in Bytes : ring_buffer_putchar(ch) \/ ring_buffer_putchar_force(ch)
    \/ \E n \in 1..MaxBlock : ring_buffer_get(n)
    \/ ring_buffer_getchar

Spec == Init /\ [][Next]_vars

-------------------------------------------------------------------------------

\* The bytes stored, oldest first, as the caller would read them.
Contents == Copied(ring_buffer_data_len)

\* Both indices stay inside the pool, the mirror bits are bits, and every byte
\* handed out was put.
TypeOK ==
    /\ read_mirror \in {0, 1} /\ write_mirror \in {0, 1}
    /\ read_index \in Cells /\ write_index \in Cells
    /\ buffer_ptr \in [Cells -> Bytes \cup {NoByte}]
    /\ out \in Seq(Bytes)
    /\ overtaken \in BOOLEAN

\* With the same mirror bits the writer is not behind the reader, with different
\* ones not ahead of it.
InOrder ==
    IF read_mirror = write_mirror THEN write_index >= read_index
                                  ELSE write_index <= read_index

\* The indices stay below buffer_size, whatever ends exactly at the edge, and
\* until a forced block runs past the reader the pair of mirror bits counts the
\* laps correctly, which ring_buffer_data_len relies on but tests only for equal
\* indices.
MirrorsAgree == TypeOK /\ (overtaken \/ InOrder)

Fifo == INSTANCE ByteFifo WITH Capacity <- buffer_size, contents <- Contents

\* Until a forced block runs past the reader every call does to the stored bytes
\* what the abstract buffer does: nothing lost, reordered or invented, the oldest
\* bytes discarded when a full buffer is forced, the oldest bytes returned.
ImplementsByteFifo == Fifo!Init /\ [][overtaken' \/ Fifo!Next]_(Fifo!vars)

\* The same of every call, as ring_buffer_put_force promises ("When the buffer is
\* full, it will discard the old data"): the forced block itself is kept.
ForceDiscardsOldData == Fifo!Spec
===============================================================================
