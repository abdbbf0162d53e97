------------------------------- MODULE RingDemo -------------------------------
(***************************************************************************)
(* 20180720ringbuffer/main.c: pthread_func_1 puts blocks of 32 bytes while *)
(* thread_buffer_put is set, pthread_func_2 gets blocks of 32 bytes, and   *)
(* neither takes a lock.  The calls are split into the loads and stores of *)
(* the -O2 build that the makefile asks for: each call loads the other     *)
(* side's index once and its mirror bit separately, and stores its own     *)
(* mirror bit before its index.  A block is one cell of the pool: every    *)
(* index and length is a multiple of 32.                                   *)
(***************************************************************************)
EXTENDS Integers, Sequences

CONSTANTS
    Blocks,     \* blocks in the pool (BUFFER_POOL_SIZE is 32*5)
    MaxPuts     \* bound: blocks the writer makes

VARIABLES
    read_mirror, read_index, write_mirror, write_index, pool,
    thread_buffer_put,
    writer,     \* where pthread_func_1 is
    reader,     \* where pthread_func_2 is
    j,          \* blocks made so far; also the contents of the last one
    data,       \* what pthread_func_2 has copied
    stored,     \* blocks copied to the pool, in order
    got,        \* blocks pthread_func_2 printed, in order
    seenFull,   \* was the buffer full at some moment of the current put?
    pause       \* "put" or "get": that side returned while the other was between its
                \* stores of mirror bit and index; "outrun": and began another call

vars == <<read_mirror, read_index, write_mirror, write_index, pool, thread_buffer_put,
          writer, reader, j, data, stored, got, seenFull, pause>>

ring == <<read_mirror, read_index, write_mirror, write_index, pool>>

Torn == 0       \* half of one block and half of another

Init ==
    /\ read_mirror = 0 /\ read_index = 0 /\ write_mirror = 0 /\ write_index = 0
    /\ pool = [c \in 0 .. Blocks - 1 |-> Torn]
    /\ thread_buffer_put = TRUE
    /\ writer = "idle" /\ reader = "idle"
    /\ j = 0 /\ data = Torn /\ stored = <<>> /\ got = <<>> /\ seenFull = FALSE
    /\ pause = "none"

IsFull == read_index = write_index /\ read_mirror # write_mirror

-------------------------------------------------------------------------------
(* main: "stop" and "start".                                               *)
SetPut(on) ==
    /\ thread_buffer_put # on /\ thread_buffer_put' = on
    /\ UNCHANGED <<ring, writer, reader, j, data, stored, got, seenFull, pause>>

-------------------------------------------------------------------------------
(* pthread_func_1 and ring_buffer_put.                                     *)
\* The sleep between two calls of one side, while the other stays between
\* its two stores.
Outrun(side, other, from, to, otherAt) ==
    IF to = "idle" /\ otherAt = "wrap" /\ pause # "outrun" THEN side
    ELSE IF from = "idle" /\ pause = side THEN "outrun"
    ELSE IF from = "wrap" /\ pause = other THEN "none"
    ELSE pause

Writer(from, to) ==
    /\ writer = from /\ writer' = to
    /\ pause' = Outrun("put", "get", from, to, reader)

MakeBlock ==
    /\ thread_buffer_put /\ j < MaxPuts
    /\ Writer("idle", "index") /\ j' = j + 1 /\ seenFull' = IsFull
    /\ UNCHANGED <<ring, thread_buffer_put, reader, data, stored, got>>

\* Indices that differ leave room for a block; equal ones need the mirror bits.
PutLoadIndex ==
    /\ Writer("index", IF read_index = write_index THEN "mirror" ELSE "copy")
    /\ UNCHANGED <<ring, thread_buffer_put, reader, j, data, stored, got, seenFull>>

PutSeesFull == read_mirror # write_mirror

PutLoadMirror ==
    /\ Writer("mirror", IF PutSeesFull THEN "dropped" ELSE "copy")
    /\ UNCHANGED <<ring, thread_buffer_put, reader, j, data, stored, got, seenFull>>

\* memcpy is not atomic: the cell holds part of the block in between.
PutCopy ==
    /\ Writer("copy", "copied")
    /\ pool' = [pool EXCEPT ![write_index] = Torn]
    /\ UNCHANGED <<read_mirror, read_index, write_mirror, write_index, thread_buffer_put,
                   reader, j, data, stored, got, seenFull>>

PutCopied ==
    /\ Writer("copied", "advance")
    /\ pool' = [pool EXCEPT ![write_index] = j]
    /\ stored' = Append(stored, j)
    /\ UNCHANGED <<read_mirror, read_index, write_mirror, write_index, thread_buffer_put,
                   reader, j, data, got, seenFull>>

Last(index) == index = Blocks - 1

PutAdvance ==
    /\ IF Last(write_index)
       THEN /\ Writer("advance", "wrap")
            /\ write_mirror' = 1 - write_mirror /\ UNCHANGED write_index
       ELSE /\ Writer("advance", "idle")
            /\ write_index' = write_index + 1 /\ UNCHANGED write_mirror
    /\ UNCHANGED <<read_mirror, read_index, pool, thread_buffer_put,
                   reader, j, data, stored, got, seenFull>>

PutWrap ==
    /\ Writer("wrap", "idle")
    /\ write_index' = 0
    /\ UNCHANGED <<read_mirror, read_index, write_mirror, pool, thread_buffer_put,
                   reader, j, data, stored, got, seenFull>>

\* ring_buffer_put returned 0; the block is not made again.
PutDropped ==
    /\ Writer("dropped", "idle")
    /\ UNCHANGED <<ring, thread_buffer_put, reader, j, data, stored, got, seenFull>>

-------------------------------------------------------------------------------
(* pthread_func_2 and ring_buffer_get.                                     *)
Reader(from, to) ==
    /\ reader = from /\ reader' = to
    /\ pause' = Outrun("get", "put", from, to, writer)

GetLoadIndex ==
    /\ Reader("idle", IF read_index = write_index THEN "mirror" ELSE "copy")
    /\ UNCHANGED <<ring, thread_buffer_put, writer, j, data, stored, got, seenFull>>

\* Fault: equal indices mean data.
GetSeesEmptyNever == FALSE

GetSeesEmpty == read_mirror = write_mirror

GetLoadMirror ==
    /\ Reader("mirror", IF GetSeesEmpty THEN "idle" ELSE "copy")
    /\ UNCHANGED <<ring, thread_buffer_put, writer, j, data, stored, got, seenFull>>

GetCopy ==
    /\ Reader("copy", "copied")
    /\ data' = pool[read_index]
    /\ UNCHANGED <<ring, thread_buffer_put, writer, j, stored, got, seenFull>>

GetCopied ==
    /\ Reader("copied", "advance")
    /\ data' = IF pool[read_index] = data THEN data ELSE Torn
    /\ UNCHANGED <<ring, thread_buffer_put, writer, j, stored, got, seenFull>>

\* A get that frees a cell may end the time in which the buffer is full.
GetAdvance ==
    /\ IF Last(read_index)
       THEN /\ Reader("advance", "wrap")
            /\ read_mirror' = 1 - read_mirror /\ UNCHANGED <<read_index, got>>
       ELSE /\ Reader("advance", "idle")
            /\ read_index' = read_index + 1 /\ got' = Append(got, data)
            /\ UNCHANGED read_mirror
    /\ UNCHANGED <<write_mirror, write_index, pool, thread_buffer_put,
                   writer, j, data, stored, seenFull>>

GetWrap ==
    /\ Reader("wrap", "idle")
    /\ read_index' = 0
    /\ got' = Append(got, data)
    /\ UNCHANGED <<read_mirror, write_mirror, write_index, pool, thread_buffer_put,
                   writer, j, data, stored, seenFull>>

Next ==
    \/ \E on \in BOOLEAN : SetPut(on)
    \/ MakeBlock \/ PutLoadIndex \/ PutLoadMirror \/ PutCopy \/ PutCopied
    \/ PutAdvance \/ PutWrap \/ PutDropped
    \/ GetLoadIndex \/ GetLoadMirror \/ GetCopy \/ GetCopied \/ GetAdvance \/ GetWrap

Reading == GetLoadIndex \/ GetLoadMirror \/ GetCopy \/ GetCopied \/ GetAdvance \/ GetWrap

-------------------------------------------------------------------------------
(* Types.                                                                  *)
TypeOK ==
    /\ read_mirror \in {0, 1} /\ write_mirror \in {0, 1}
    /\ read_index \in 0 .. Blocks - 1 /\ write_index \in 0 .. Blocks - 1
    /\ pool \in [0 .. Blocks - 1 -> 0..MaxPuts]
    /\ thread_buffer_put \in BOOLEAN
    /\ writer \in {"idle", "index", "mirror", "copy", "copied", "advance", "wrap", "dropped"}
    /\ reader \in {"idle", "mirror", "copy", "copied", "advance", "wrap"}
    /\ j \in 0..MaxPuts /\ data \in 0..MaxPuts
    /\ pause \in {"none", "put", "get", "outrun"}
    /\ stored \in Seq(1..MaxPuts) /\ got \in Seq(0..MaxPuts)

(* Without a lock and with indices and mirror bits that are seen half      *)
(* updated, pthread_func_2 prints exactly the blocks that were put, whole  *)
(* and in order, unless a thread was stopped between its two stores while  *)
(* the other returned, slept (1 s or 2 s) and called again.  Both move one *)
(* block at a time: that too is needed.                                    *)
BlocksInOrder ==
    pause # "outrun" => \A k \in DOMAIN got : k <= Len(stored) /\ got[k] = stored[k]

(* With the same provision, ring_buffer_put drops a block only if the      *)
(* buffer was really full, never because it saw a half updated reader.     *)
DropsOnlyWhenFull == writer = "dropped" /\ pause # "outrun" => seenFull
=============================================================================
