--------------------------- MODULE RingBufferProofs ---------------------------
(***************************************************************************)
(* Proofs about RingBuffer for every pool size, set of bytes and block     *)
(* length: the mirror bits count the laps, and the calls do to the stored  *)
(* bytes what ByteFifo says, until a forced block runs past the reader.    *)
(* From then on the whole pool is written, so that still only bytes that   *)
(* were put are handed out, and the indices stay inside it.                *)
(***************************************************************************)
EXTENDS RingBuffer, ProofLemmas

-------------------------------------------------------------------------------
(* The inductive invariant.                                                *)

\* The cell k places after cell r, for k up to the size of the buffer.
At(r, k) == IF r + k < buffer_size THEN r + k ELSE r + k - buffer_size

\* How many bytes are stored, by the indices and the mirror bits alone.
Stock ==
    IF read_mirror = write_mirror THEN write_index - read_index
    ELSE buffer_size - (read_index - write_index)

\* The cells from the reader to the writer were all written.
StoredBytes == \A k \in 0 .. Stock - 1 : buffer_ptr[At(read_index, k)] \in Bytes

\* The mirror bits count the laps.
Agree == TypeOK /\ InOrder

\* The buffer before any forced block ran past the reader, and after it: by then
\* every cell was written.
RingInv == Agree /\ StoredBytes
Filled == TypeOK /\ \A c \in Cells : buffer_ptr[c] \in Bytes

BufferInv == (overtaken /\ Filled) \/ (~overtaken /\ RingInv)

-------------------------------------------------------------------------------
(* Arithmetic of the indices.                                              *)

\* ALIGN_DOWN of an accepted size leaves a multiple of four that is not zero.
LEMMA BufferSize == buffer_size \in Nat /\ buffer_size >= 4
  BY PoolAssumption DEF buffer_size

\* What % buffer_size does to the values the code gives it.
LEMMA Wrap ==
    ASSUME NEW x \in Int, 0 - buffer_size <= x, x < 2 * buffer_size
    PROVE  x % buffer_size = IF x < 0 THEN x + buffer_size
                             ELSE IF x < buffer_size THEN x ELSE x - buffer_size
  <1> DEFINE N == buffer_size
  <1>1. N \in Nat /\ N >= 4
    BY BufferSize
  <1> HIDE DEF N
  <1>2. 0 - N <= x /\ x < 2 * N =>
           x % N = IF x < 0 THEN x + N ELSE IF x < N THEN x ELSE x - N
    BY <1>1, Z3
  <1> QED BY <1>2 DEF N

\* At stays inside the pool, and going n and then k places is going n + k.
LEMMA AtFacts ==
    ASSUME NEW r \in Cells
    PROVE  /\ \A k \in 0 .. buffer_size : At(r, k) \in Cells
           /\ At(r, 0) = r
           /\ \A n, k \in 0 .. buffer_size : n + k <= buffer_size =>
                 At(At(r, n), k) = At(r, n + k)
           /\ \A n, k \in 0 .. buffer_size : n + k >= buffer_size =>
                 At(At(r, n), k) = At(r, n + k - buffer_size)
  BY BufferSize DEF At, Cells

\* ring_buffer_data_len, which looks at the mirror bits only for equal indices,
\* is the stock; status and space follow from it.
LEMMA DataLen ==
    ASSUME Agree
    PROVE  /\ ring_buffer_data_len = Stock
           /\ Stock \in 0 .. buffer_size
           /\ ring_buffer_space_len = buffer_size - Stock
           /\ ring_buffer_status = "FULL" <=> Stock = buffer_size
           /\ write_index = At(read_index, Stock)
  <1>1. /\ read_index \in Int /\ write_index \in Int
        /\ 0 <= read_index /\ read_index < buffer_size
        /\ 0 <= write_index /\ write_index < buffer_size
    BY BufferSize DEF Agree, InOrder, TypeOK, Cells
  <1>2. ring_buffer_data_len = Stock
    BY <1>1, BufferSize DEF Agree, InOrder, ring_buffer_data_len, ring_buffer_status, Stock
  <1>3. Stock \in 0 .. buffer_size
    BY <1>1, BufferSize DEF Agree, InOrder, Stock
  <1>4. ring_buffer_status = "FULL" <=> Stock = buffer_size
    BY <1>1, BufferSize DEF Agree, InOrder, ring_buffer_status, Stock
  <1>5. write_index = At(read_index, Stock)
    BY <1>1, BufferSize DEF Agree, InOrder, Stock, At
  <1> QED BY <1>2, <1>3, <1>4, <1>5 DEF ring_buffer_space_len

\* Whatever the mirror bits say, the length stays within the buffer, and a
\* buffer without space is a full one.
LEMMA LenInRange ==
    ASSUME TypeOK
    PROVE  /\ ring_buffer_data_len \in 0 .. buffer_size
           /\ ring_buffer_space_len \in 0 .. buffer_size
           /\ ring_buffer_space_len = 0 => ring_buffer_status = "FULL"
  <1>1. /\ read_index \in Int /\ write_index \in Int
        /\ 0 <= read_index /\ read_index < buffer_size
        /\ 0 <= write_index /\ write_index < buffer_size
    BY BufferSize DEF TypeOK, Cells
  <1>2. CASE read_index = write_index
    <2>1. CASE read_mirror = write_mirror
      <3>1. ring_buffer_status = "EMPTY" /\ ring_buffer_data_len = 0
        BY <1>2, <2>1 DEF ring_buffer_data_len, ring_buffer_status
      <3> QED BY <3>1, BufferSize DEF ring_buffer_space_len
    <2>2. CASE read_mirror # write_mirror
      <3>1. ring_buffer_status = "FULL"
        BY <1>2, <2>2 DEF ring_buffer_status
      <3>2. ring_buffer_data_len = buffer_size
        BY <3>1 DEF ring_buffer_data_len
      <3> QED BY <3>1, <3>2, BufferSize DEF ring_buffer_space_len
    <2> QED BY <2>1, <2>2
  <1>3. CASE read_index # write_index
    <2>1. ring_buffer_status = "HALFFULL"
      BY <1>3 DEF ring_buffer_status
    <2>2. ring_buffer_data_len \in 1 .. buffer_size - 1
      BY <1>1, <1>3, <2>1, BufferSize DEF ring_buffer_data_len
    <2> QED BY <2>2, BufferSize DEF ring_buffer_space_len
  <1> QED BY <1>2, <1>3

\* Stored and Copied by cells: the n bytes of xs lie in the n places from
\* write_index on, every other cell keeps its byte.
LEMMA StoredCells ==
    ASSUME TypeOK, NEW xs, NEW n \in 0 .. buffer_size
    PROVE  /\ \A k \in 0 .. buffer_size - 1 :
                 Stored(xs, n)[At(write_index, k)] =
                    IF k < n THEN xs[k + 1] ELSE buffer_ptr[At(write_index, k)]
           /\ DOMAIN Stored(xs, n) = Cells
  <1>0. write_index \in Int /\ 0 <= write_index /\ write_index < buffer_size
    BY BufferSize DEF TypeOK, Cells
  <1>1. ASSUME NEW k \in 0 .. buffer_size - 1
        PROVE  /\ At(write_index, k) \in Cells
               /\ (At(write_index, k) - write_index) % buffer_size = k
    <2>1. At(write_index, k) \in Cells
      BY <1>0, BufferSize DEF At, Cells
    <2>2. CASE write_index + k < buffer_size
      <3>1. At(write_index, k) - write_index = k
        BY <2>2, <1>0, BufferSize DEF At
      <3> QED BY <2>1, <3>1, Wrap, BufferSize
    <2>3. CASE write_index + k >= buffer_size
      <3>1. At(write_index, k) - write_index = k - buffer_size
        BY <2>3, <1>0, BufferSize DEF At
      <3>2. (k - buffer_size) % buffer_size = k
        BY Wrap, BufferSize
      <3> QED BY <2>1, <3>1, <3>2
    <2> QED BY <2>2, <2>3, <1>0, BufferSize
  <1> QED BY <1>1 DEF Stored

\* Copied reads the n places from read_index on.
LEMMA CopiedCells ==
    ASSUME TypeOK, NEW n \in 0 .. buffer_size
    PROVE  Copied(n) = [i \in 1 .. n |-> buffer_ptr[At(read_index, i - 1)]]
  <1>0. read_index \in Int /\ 0 <= read_index /\ read_index < buffer_size
    BY BufferSize DEF TypeOK, Cells
  <1>1. ASSUME NEW i \in 1 .. n
        PROVE  (read_index + i - 1) % buffer_size = At(read_index, i - 1)
    BY <1>0, BufferSize, Wrap DEF At
  <1> QED BY <1>1 DEF Copied
-------------------------------------------------------------------------------
(* What the calls do to the indices and the cells.                         *)

\* The pool keeps its type whatever is stored in it.
LEMMA StoredType ==
    ASSUME TypeOK, NEW xs \in Seq(Bytes), NEW n \in 0 .. buffer_size, n <= Len(xs)
    PROVE  Stored(xs, n) \in [Cells -> Bytes \cup {NoByte}]
  <1>1. ASSUME NEW c \in Cells
        PROVE  /\ (c - write_index) % buffer_size \in 0 .. buffer_size - 1
               /\ buffer_ptr[c] \in Bytes \cup {NoByte}
    BY BufferSize, Wrap DEF TypeOK, Cells
  <1>2. \A k \in 0 .. buffer_size - 1 : k < n => xs[k + 1] \in Bytes
    <2>1. \A k \in 0 .. buffer_size - 1 : k < n => k + 1 \in 1 .. Len(xs)
      BY BufferSize
    <2> QED BY <2>1, ElementOfSeq
  <1> QED BY <1>1, <1>2 DEF Stored

\* AdvanceWrite moves the writer n places and, with its mirror bit, adds n to
\* the stock of a buffer that had room for n.
LEMMA AdvanceWriteMoves ==
    ASSUME Agree, NEW n \in 1 .. buffer_size, n <= buffer_size - Stock,
           AdvanceWrite(n), read_mirror' = read_mirror, read_index' = read_index
    PROVE  /\ Stock' = Stock + n
           /\ write_mirror' \in {0, 1} /\ write_index' \in Cells
           /\ IF read_mirror' = write_mirror' THEN write_index' >= read_index'
                                              ELSE write_index' <= read_index'
  <1>1. /\ read_index \in Int /\ write_index \in Int
        /\ 0 <= read_index /\ read_index < buffer_size
        /\ 0 <= write_index /\ write_index < buffer_size
        /\ read_mirror \in {0, 1} /\ write_mirror \in {0, 1}
    BY BufferSize DEF Agree, InOrder, TypeOK, Cells
  <1>s. buffer_size' = buffer_size
    BY DEF buffer_size
  <1>2. /\ write_mirror' \in {0, 1} /\ write_index' \in Cells
    BY <1>1, BufferSize DEF AdvanceWrite, FitsBelowEnd, Flip, Cells
  <1>3. Stock' = Stock + n
    BY <1>1, <1>s, BufferSize DEF AdvanceWrite, FitsBelowEnd, Flip, Stock, Agree, InOrder
  <1>4. IF read_mirror' = write_mirror' THEN write_index' >= read_index'
                                        ELSE write_index' <= read_index'
    BY <1>1, BufferSize DEF AdvanceWrite, FitsBelowEnd, Flip, Stock, Agree, InOrder
  <1> QED BY <1>2, <1>3, <1>4

\* Storing n bytes that fit appends them: every stored byte stays where it was.
LEMMA WriteEffect ==
    ASSUME RingInv, NEW xs \in Seq(Bytes), NEW n \in 1 .. buffer_size,
           n <= Len(xs), n <= buffer_size - Stock,
           buffer_ptr' = Stored(xs, n), AdvanceWrite(n),
           read_mirror' = read_mirror, read_index' = read_index, out' = out,
           overtaken' \in BOOLEAN
    PROVE  /\ RingInv'
           /\ Stock' = Stock + n
           /\ \A k \in 0 .. Stock - 1 :
                 buffer_ptr'[At(read_index, k)] = buffer_ptr[At(read_index, k)]
           /\ \A k \in 0 .. n - 1 : buffer_ptr'[At(read_index, Stock + k)] = xs[k + 1]
  <1>1. Agree /\ TypeOK /\ StoredBytes
    BY DEF RingInv, Agree, InOrder
  <1>2. Stock \in 0 .. buffer_size /\ write_index = At(read_index, Stock)
    BY <1>1, DataLen
  <1>3. /\ Stock' = Stock + n /\ write_mirror' \in {0, 1} /\ write_index' \in Cells
        /\ IF read_mirror' = write_mirror' THEN write_index' >= read_index'
                                           ELSE write_index' <= read_index'
    BY <1>1, AdvanceWriteMoves
  <1>r. read_index \in Cells
    BY <1>1 DEF TypeOK
  <1>4. ASSUME NEW k \in 0 .. Stock - 1
        PROVE  buffer_ptr'[At(read_index, k)] = buffer_ptr[At(read_index, k)]
    <2> DEFINE j == buffer_size - Stock + k
    <2>1. j \in 0 .. buffer_size - 1 /\ j \in 0 .. buffer_size /\ ~(j < n)
          /\ Stock + j >= buffer_size /\ Stock + j - buffer_size = k
      BY <1>2, BufferSize
    <2>2. At(write_index, j) = At(read_index, k)
      BY <1>2, <1>r, <2>1, AtFacts
    <2> HIDE DEF j
    <2>3. Stored(xs, n)[At(write_index, j)] = buffer_ptr[At(write_index, j)]
      BY <1>1, <2>1, StoredCells, BufferSize
    <2> QED BY <2>2, <2>3
  <1>5. ASSUME NEW k \in 0 .. n - 1
        PROVE  buffer_ptr'[At(read_index, Stock + k)] = xs[k + 1]
    <2>1. k \in 0 .. buffer_size - 1 /\ k \in 0 .. buffer_size /\ k < n
          /\ Stock + k <= buffer_size
      BY <1>2, BufferSize
    <2>2. At(write_index, k) = At(read_index, Stock + k)
      BY <1>2, <1>r, <2>1, AtFacts
    <2>3. Stored(xs, n)[At(write_index, k)] = xs[k + 1]
      BY <1>1, <2>1, StoredCells, BufferSize
    <2> QED BY <2>2, <2>3
  <1>6. Agree'
    <2>1. n \in 0 .. buffer_size
      BY BufferSize
    <2>2. buffer_ptr' \in [Cells -> Bytes \cup {NoByte}]
      BY <1>1, <2>1, StoredType
    <2>3. Cells' = Cells
      BY DEF Cells, buffer_size
    <2> QED BY <1>1, <1>3, <2>2, <2>3 DEF Agree, InOrder, TypeOK
  <1>7. StoredBytes'
    <2>1. ASSUME NEW k \in 0 .. Stock + n - 1
          PROVE  buffer_ptr'[At(read_index, k)] \in Bytes
      <3>1. CASE k < Stock
        <4>1. k \in 0 .. Stock - 1
          BY <3>1, <1>2
        <4> QED BY <4>1, <1>1, <1>4 DEF StoredBytes
      <3>2. CASE k >= Stock
        <4>1. PICK j \in 0 .. n - 1 : k = Stock + j /\ j + 1 \in 1 .. Len(xs)
          <5>1. k - Stock \in 0 .. n - 1 /\ k = Stock + (k - Stock)
                /\ (k - Stock) + 1 \in 1 .. Len(xs)
            BY <3>2, <1>2
          <5> QED BY <5>1
        <4>2. xs[j + 1] \in Bytes
          BY <4>1, ElementOfSeq
        <4> QED BY <4>1, <4>2, <1>5
      <3> QED BY <3>1, <3>2, <1>2
    <2>2. \A k \in 0 .. Stock' - 1 : buffer_ptr'[At(read_index', k)] \in Bytes
      BY <1>2, <1>3, <2>1, BufferSize
    <2> QED BY <2>2 DEF StoredBytes, At, buffer_size
  <1> QED BY <1>3, <1>4, <1>5, <1>6, <1>7 DEF RingInv

\* Forcing n bytes into a full buffer: reader and writer move n places together,
\* the n oldest bytes go and the others keep their order before the new ones.
LEMMA ForceEffect ==
    ASSUME RingInv, NEW xs \in Seq(Bytes), NEW n \in 1 .. buffer_size,
           n <= Len(xs), ring_buffer_status = "FULL",
           buffer_ptr' = Stored(xs, n), AdvanceWrite(n), FollowWriter(n), out' = out,
           overtaken' \in BOOLEAN
    PROVE  /\ RingInv'
           /\ Stock = buffer_size /\ Stock' = buffer_size
           /\ \A k \in 0 .. buffer_size - n - 1 :
                 buffer_ptr'[At(read_index', k)] = buffer_ptr[At(read_index, n + k)]
           /\ \A k \in 0 .. n - 1 :
                 buffer_ptr'[At(read_index', buffer_size - n + k)] = xs[k + 1]
  <1>1. Agree /\ TypeOK /\ StoredBytes
    BY DEF RingInv, Agree, InOrder
  <1>2. /\ Stock = buffer_size
        /\ read_index = write_index /\ read_mirror # write_mirror
    BY <1>1, DataLen DEF ring_buffer_status
  <1>r. read_index \in Cells /\ write_index \in Cells
    BY <1>1 DEF TypeOK
  <1>b. read_mirror \in {0, 1} /\ write_mirror \in {0, 1}
    BY <1>1 DEF TypeOK
  <1>3. /\ read_index' = write_index' /\ write_index' \in Cells
        /\ read_mirror' \in {0, 1} /\ write_mirror' \in {0, 1}
        /\ read_mirror' # write_mirror'
        /\ read_index' = At(read_index, n)
    BY <1>2, <1>b, <1>r, BufferSize
       DEF AdvanceWrite, FollowWriter, FitsBelowEnd, Flip, At, Cells
  <1>4. ASSUME NEW k \in 0 .. buffer_size - n - 1
        PROVE  buffer_ptr'[At(read_index', k)] = buffer_ptr[At(read_index, n + k)]
    <2>1. n + k \in 0 .. buffer_size - 1 /\ ~(n + k < n) /\ n + k <= buffer_size
          /\ n \in 0 .. buffer_size /\ k \in 0 .. buffer_size
      BY BufferSize
    <2>2. At(read_index', k) = At(write_index, n + k)
      BY <1>2, <1>3, <1>r, <2>1, AtFacts
    <2>3. Stored(xs, n)[At(write_index, n + k)] = buffer_ptr[At(write_index, n + k)]
      BY <1>1, <2>1, StoredCells
    <2> QED BY <1>2, <2>2, <2>3
  <1>5. ASSUME NEW k \in 0 .. n - 1
        PROVE  buffer_ptr'[At(read_index', buffer_size - n + k)] = xs[k + 1]
    <2> DEFINE j == buffer_size - n + k
    <2>1. k \in 0 .. buffer_size - 1 /\ j \in 0 .. buffer_size /\ k < n
          /\ n \in 0 .. buffer_size /\ n + j >= buffer_size /\ n + j - buffer_size = k
      BY BufferSize
    <2>2. At(read_index', j) = At(write_index, k)
      BY <1>2, <1>3, <1>r, <2>1, AtFacts
    <2> HIDE DEF j
    <2>3. Stored(xs, n)[At(write_index, k)] = xs[k + 1]
      BY <1>1, <2>1, StoredCells
    <2> QED BY <2>2, <2>3 DEF j
  <1>6. Agree' /\ Stock' = buffer_size
    <2>1. n \in 0 .. buffer_size
      BY BufferSize
    <2>2. buffer_ptr' \in [Cells -> Bytes \cup {NoByte}]
      BY <1>1, <2>1, StoredType
    <2>3. Cells' = Cells /\ buffer_size' = buffer_size
      BY DEF Cells, buffer_size
    <2>4. write_index' \in Int /\ read_index' \in Int
      BY <1>3, BufferSize DEF Cells
    <2>5. Agree'
      BY <1>1, <1>3, <2>2, <2>3, <2>4 DEF Agree, InOrder, TypeOK
    <2> QED BY <1>3, <2>3, <2>4, <2>5, BufferSize DEF Stock
  <1>7. StoredBytes'
    <2>1. ASSUME NEW k \in 0 .. buffer_size - 1
          PROVE  buffer_ptr'[At(read_index', k)] \in Bytes
      <3>1. CASE k < buffer_size - n
        <4>1. k \in 0 .. buffer_size - n - 1 /\ n + k \in 0 .. Stock - 1
          BY <3>1, <1>2, BufferSize
        <4> QED BY <4>1, <1>1, <1>4 DEF StoredBytes
      <3>2. CASE k >= buffer_size - n
        <4>1. PICK j \in 0 .. n - 1 : k = buffer_size - n + j /\ j + 1 \in 1 .. Len(xs)
          <5>1. /\ k - (buffer_size - n) \in 0 .. n - 1
                /\ k = buffer_size - n + (k - (buffer_size - n))
                /\ (k - (buffer_size - n)) + 1 \in 1 .. Len(xs)
            BY <3>2, BufferSize
          <5> QED BY <5>1
        <4>2. xs[j + 1] \in Bytes
          BY <4>1, ElementOfSeq
        <4> QED BY <4>1, <4>2, <1>5
      <3> QED BY <3>1, <3>2, BufferSize
    <2>2. \A k \in 0 .. Stock' - 1 : buffer_ptr'[At(read_index', k)] \in Bytes
      BY <1>6, <2>1
    <2> QED BY <2>2 DEF StoredBytes, At, buffer_size
  <1> QED BY <1>2, <1>4, <1>5, <1>6, <1>7 DEF RingInv

\* Reading n of the stored bytes leaves the others in place, in order.
LEMMA ReadEffect ==
    ASSUME RingInv, NEW n \in 1 .. Stock, AdvanceRead(n),
           UNCHANGED <<write_mirror, write_index, buffer_ptr>>, out' = Copied(n),
           overtaken' \in BOOLEAN
    PROVE  /\ RingInv'
           /\ Stock' = Stock - n
           /\ \A k \in 0 .. Stock - n - 1 :
                 buffer_ptr'[At(read_index', k)] = buffer_ptr[At(read_index, n + k)]
  <1>1. Agree /\ TypeOK /\ StoredBytes
    BY DEF RingInv, Agree, InOrder
  <1>2. Stock \in 0 .. buffer_size
    BY <1>1, DataLen
  <1>3. /\ read_index \in Int /\ write_index \in Int
        /\ 0 <= read_index /\ read_index < buffer_size
        /\ 0 <= write_index /\ write_index < buffer_size
        /\ read_mirror \in {0, 1} /\ write_mirror \in {0, 1}
        /\ n \in 1 .. buffer_size
    BY <1>1, <1>2, BufferSize DEF TypeOK, Cells
  <1>s. buffer_size' = buffer_size /\ Cells' = Cells
    BY DEF buffer_size, Cells
  <1>4. /\ read_mirror' \in {0, 1} /\ read_index' \in Cells
        /\ read_index' = At(read_index, n)
    BY <1>3, BufferSize DEF AdvanceRead, FitsBelowEnd, Flip, Cells, At
  <1>5. Stock' = Stock - n
    BY <1>1, <1>3, <1>s, BufferSize
       DEF AdvanceRead, FitsBelowEnd, Flip, Stock, Agree, InOrder
  <1>6. IF read_mirror' = write_mirror' THEN write_index' >= read_index'
                                        ELSE write_index' <= read_index'
    BY <1>1, <1>3, BufferSize DEF AdvanceRead, FitsBelowEnd, Flip, Stock, Agree, InOrder
  <1>7. out' \in Seq(Bytes)
    <2>1. n \in 0 .. buffer_size /\ n \in Nat
      BY <1>3, BufferSize
    <2>2. Copied(n) = [i \in 1 .. n |-> buffer_ptr[At(read_index, i - 1)]]
      BY <1>1, <2>1, CopiedCells
    <2>3. \A i \in 1 .. n : buffer_ptr[At(read_index, i - 1)] \in Bytes
      <3>1. \A i \in 1 .. n : i - 1 \in 0 .. Stock - 1
        BY <1>2
      <3> QED BY <3>1, <1>1 DEF StoredBytes
    <2>4. Copied(n) \in [1 .. n -> Bytes]
      BY <2>2, <2>3
    <2> QED BY <2>1, <2>4, FunctionIsSeq
  <1>8. ASSUME NEW k \in 0 .. Stock - n - 1
        PROVE  /\ buffer_ptr'[At(read_index', k)] = buffer_ptr[At(read_index, n + k)]
               /\ buffer_ptr'[At(read_index', k)] \in Bytes
    <2>1. n \in 0 .. buffer_size /\ k \in 0 .. buffer_size /\ n + k <= buffer_size
          /\ n + k \in 0 .. Stock - 1
      BY <1>2, <1>3, BufferSize
    <2>2. At(read_index', k) = At(read_index, n + k)
      BY <1>1, <1>4, <2>1, AtFacts DEF TypeOK
    <2> QED BY <1>1, <2>1, <2>2 DEF StoredBytes
  <1>9. Agree'
    BY <1>1, <1>4, <1>6, <1>7, <1>s DEF Agree, InOrder, TypeOK
  <1>10. StoredBytes'
    <2>1. \A k \in 0 .. Stock' - 1 : buffer_ptr'[At(read_index', k)] \in Bytes
      BY <1>5, <1>8
    <2> QED BY <2>1 DEF StoredBytes, At, buffer_size
  <1> QED BY <1>5, <1>8, <1>9, <1>10 DEF RingInv
-------------------------------------------------------------------------------
(* The calls in terms of these effects.                                    *)

\* A block is a sequence of at least one byte.
LEMMA BlockIsSeq ==
    ASSUME NEW xs \in Blocks
    PROVE  xs \in Seq(Bytes) /\ Len(xs) \in Nat /\ Len(xs) >= 1
  <1>1. PICK m \in 1 .. MaxBlock : xs \in [1 .. m -> Bytes]
    BY DEF Blocks
  <1>2. m \in Nat
    BY BlockAssumption
  <1> QED BY <1>1, <1>2, FunctionIsSeq

\* One byte is a block: the single-character calls are the block calls with it.
LEMMA OneByte ==
    ASSUME NEW ch \in Bytes
    PROVE  <<ch>> \in Blocks /\ <<ch>>[1] = ch /\ Len(<<ch>>) = 1
  <1>1. <<ch>> \in [1 .. 1 -> Bytes] /\ <<ch>>[1] = ch /\ Len(<<ch>>) = 1
    OBVIOUS
  <1>2. 1 \in 1 .. MaxBlock
    BY BlockAssumption
  <1> QED BY <1>1, <1>2 DEF Blocks

\* Storing a single character stores a block of one.
LEMMA StoreOne ==
    ASSUME TypeOK, NEW ch \in Bytes
    PROVE  [buffer_ptr EXCEPT ![write_index] = ch] = Stored(<<ch>>, 1)
  <1>1. write_index \in Int /\ 0 <= write_index /\ write_index < buffer_size
    BY BufferSize DEF TypeOK, Cells
  <1>2. ASSUME NEW c \in Cells
        PROVE  (c - write_index) % buffer_size < 1 <=> c = write_index
    BY <1>1, Wrap, BufferSize DEF Cells
  <1>3. ASSUME NEW c \in Cells
        PROVE  [buffer_ptr EXCEPT ![write_index] = ch][c] = Stored(<<ch>>, 1)[c]
    <2>1. CASE c = write_index
      <3>1. (c - write_index) % buffer_size = 0
        BY <1>1, <2>1, Wrap, BufferSize
      <3>2. Stored(<<ch>>, 1)[c] = <<ch>>[0 + 1]
        BY <3>1 DEF Stored
      <3> QED BY <2>1, <3>2 DEF TypeOK
    <2>2. CASE c # write_index
      BY <2>2, <1>2 DEF TypeOK, Stored
    <2> QED BY <2>1, <2>2
  <1> QED BY <1>3 DEF TypeOK, Stored

\* The edge test of the single-character calls is the one of the block calls.
LEMMA BumpIsAdvance ==
    ASSUME TypeOK
    PROVE  BumpWrite => AdvanceWrite(1)
  BY BufferSize DEF TypeOK, Cells, BumpWrite, AdvanceWrite, FitsBelowEnd

\* ring_buffer_putchar is ring_buffer_put of one byte.
LEMMA PutcharIsPut ==
    ASSUME TypeOK, NEW ch \in Bytes, ring_buffer_putchar(ch)
    PROVE  ring_buffer_put(<<ch>>)
  <1>1. TypeOK
    OBVIOUS
  <1>2. Shorter(Len(<<ch>>), ring_buffer_space_len) = 1
    BY LenInRange, OneByte, BufferSize DEF Shorter, ring_buffer_putchar
  <1>3. buffer_ptr' = Stored(<<ch>>, 1) /\ AdvanceWrite(1)
    BY <1>1, StoreOne, BumpIsAdvance DEF ring_buffer_putchar
  <1> QED BY <1>2, <1>3 DEF ring_buffer_put, ring_buffer_putchar

\* ring_buffer_putchar_force is ring_buffer_put_force of one byte; one byte
\* always fits or finds the buffer full.
LEMMA PutcharForceIsPutForce ==
    ASSUME TypeOK, NEW ch \in Bytes, ring_buffer_putchar_force(ch)
    PROVE  ring_buffer_put_force(<<ch>>)
  <1>1. overtaken \in BOOLEAN
    BY DEF TypeOK
  <1>2. Shorter(Len(<<ch>>), buffer_size) = 1
    BY OneByte, BufferSize DEF Shorter
  <1>3. ~Overtakes(1)
    BY LenInRange, BufferSize DEF Overtakes
  <1>4. buffer_ptr' = Stored(<<ch>>, 1) /\ AdvanceWrite(1)
    BY StoreOne, BumpIsAdvance DEF ring_buffer_putchar_force
  <1>5. FollowWriter(1)
    BY BufferSize
       DEF ring_buffer_putchar_force, FollowWriter, FitsBelowEnd, TypeOK, Cells
  <1>6. overtaken' = (overtaken \/ Overtakes(1))
    BY <1>1, <1>3 DEF ring_buffer_putchar_force
  <1> QED BY <1>2, <1>4, <1>5, <1>6 DEF ring_buffer_put_force, ring_buffer_putchar_force

\* ring_buffer_getchar is ring_buffer_get of one byte.
LEMMA GetcharIsGet ==
    ASSUME TypeOK, ring_buffer_getchar
    PROVE  ring_buffer_get(1)
  <1>1. TypeOK
    OBVIOUS
  <1>2. ring_buffer_data_len >= 1 /\ ring_buffer_data_len \in Nat
    BY LenInRange, BufferSize DEF ring_buffer_getchar
  <1>3. Shorter(1, ring_buffer_data_len) = 1
    BY <1>2 DEF Shorter
  <1>4. Copied(1) = <<buffer_ptr[read_index]>>
    <2>1. 1 \in 0 .. buffer_size
      BY BufferSize
    <2>2. Copied(1) = [i \in 1 .. 1 |-> buffer_ptr[At(read_index, i - 1)]]
      BY <1>1, <2>1, CopiedCells
    <2>3. \A i \in 1 .. 1 : At(read_index, i - 1) = read_index
      BY <1>1, BufferSize DEF TypeOK, Cells, At
    <2> QED BY <2>2, <2>3
  <1>5. AdvanceRead(1)
    BY <1>1, BufferSize
       DEF TypeOK, Cells, ring_buffer_getchar, AdvanceRead, FitsBelowEnd
  <1> QED BY <1>2, <1>3, <1>4, <1>5 DEF ring_buffer_get, ring_buffer_getchar

\* A put stores the part of its block that fits.
LEMMA PutStores ==
    ASSUME RingInv, NEW xs \in Blocks, ring_buffer_put(xs),
           NEW n, n = Shorter(Len(xs), buffer_size - Stock)
    PROVE  /\ n \in 1 .. buffer_size /\ n <= Len(xs) /\ n <= buffer_size - Stock
           /\ buffer_ptr' = Stored(xs, n) /\ AdvanceWrite(n)
           /\ UNCHANGED <<read_mirror, read_index, out>> /\ overtaken' \in BOOLEAN
  <1>1. /\ ring_buffer_space_len = buffer_size - Stock /\ Stock \in 0 .. buffer_size
    BY DataLen DEF RingInv
  <1>2. n \in 1 .. buffer_size /\ n <= Len(xs) /\ n <= buffer_size - Stock
    BY <1>1, BlockIsSeq, BufferSize DEF ring_buffer_put, Shorter
  <1>3. overtaken' \in BOOLEAN
    BY DEF ring_buffer_put, RingInv, Agree, TypeOK
  <1> QED BY <1>1, <1>2, <1>3 DEF ring_buffer_put

\* A forced put that does not run past the reader stores a block that fits or
\* fills a full buffer.
LEMMA PutForceStores ==
    ASSUME RingInv, ~overtaken', NEW xs \in Blocks, ring_buffer_put_force(xs),
           NEW n, n = Shorter(Len(xs), buffer_size)
    PROVE  /\ n \in 1 .. buffer_size /\ n <= Len(xs)
           /\ buffer_ptr' = Stored(xs, n) /\ AdvanceWrite(n)
           /\ out' = out /\ overtaken' \in BOOLEAN
           /\ \/ /\ n <= buffer_size - Stock
                 /\ read_mirror' = read_mirror /\ read_index' = read_index
              \/ ring_buffer_status = "FULL" /\ FollowWriter(n)
  <1>1. /\ ring_buffer_space_len = buffer_size - Stock
    BY DataLen DEF RingInv
  <1>2. n \in 1 .. buffer_size /\ n <= Len(xs)
    BY BlockIsSeq, BufferSize DEF Shorter
  <1>3. overtaken' \in BOOLEAN
    BY DEF ring_buffer_put_force, RingInv, Agree, TypeOK
  <1>4. ~Overtakes(n)
    BY DEF ring_buffer_put_force
  <1>5. ring_buffer_status = "FULL" \/ n <= buffer_size - Stock
    BY <1>1, <1>2, <1>4, DataLen, BufferSize DEF Overtakes, RingInv
  <1> QED BY <1>1, <1>2, <1>3, <1>5 DEF ring_buffer_put_force, FollowWriter

\* A get reads what it asks for or all there is.
LEMMA GetReads ==
    ASSUME RingInv, NEW m \in 1 .. MaxBlock, ring_buffer_get(m),
           NEW n, n = Shorter(m, Stock)
    PROVE  /\ n \in 1 .. Stock
           /\ AdvanceRead(n) /\ out' = Copied(n) /\ overtaken' \in BOOLEAN
           /\ UNCHANGED <<write_mirror, write_index, buffer_ptr>>
  <1>1. ring_buffer_data_len = Stock /\ Stock \in 0 .. buffer_size
    BY DataLen DEF RingInv
  <1>2. n \in 1 .. Stock
    BY <1>1, BufferSize, BlockAssumption DEF ring_buffer_get, Shorter
  <1>3. overtaken' \in BOOLEAN
    BY DEF ring_buffer_get, RingInv, Agree, TypeOK
  <1> QED BY <1>1, <1>2, <1>3 DEF ring_buffer_get

\* AdvanceWrite and AdvanceRead stay inside the pool, wherever the other side is.
LEMMA AdvanceStays ==
    ASSUME TypeOK, NEW n \in 0 .. buffer_size
    PROVE  /\ AdvanceWrite(n) => write_mirror' \in {0, 1} /\ write_index' \in Cells
           /\ AdvanceRead(n) => read_mirror' \in {0, 1} /\ read_index' \in Cells
  <1>1. /\ read_index \in Int /\ write_index \in Int
        /\ 0 <= read_index /\ read_index < buffer_size
        /\ 0 <= write_index /\ write_index < buffer_size
        /\ read_mirror \in {0, 1} /\ write_mirror \in {0, 1}
    BY BufferSize DEF TypeOK, Cells
  <1> QED BY <1>1, BufferSize DEF AdvanceWrite, AdvanceRead, FitsBelowEnd, Flip, Cells

\* A forced block that runs past the reader leaves no cell unwritten: together
\* with the bytes stored before it covers the whole pool.
LEMMA OvertakeFills ==
    ASSUME RingInv, NEW xs \in Seq(Bytes), NEW n \in 1 .. buffer_size, n <= Len(xs),
           Overtakes(n), NEW c \in Cells
    PROVE  Stored(xs, n)[c] \in Bytes
  <1>1. TypeOK /\ StoredBytes /\ Agree
    BY DEF RingInv, Agree
  <1>2. /\ Stock \in 0 .. buffer_size /\ write_index = At(read_index, Stock)
        /\ n > buffer_size - Stock
    BY <1>1, DataLen DEF Overtakes
  <1>3. read_index \in Cells /\ write_index \in Cells
    BY <1>1 DEF TypeOK
  <1>4. PICK k \in 0 .. buffer_size - 1 : k = (c - write_index) % buffer_size
                                          /\ At(write_index, k) = c
    <2>0. /\ c \in Int /\ 0 <= c /\ c < buffer_size
          /\ write_index \in Int /\ 0 <= write_index /\ write_index < buffer_size
      BY <1>3, BufferSize DEF Cells
    <2>1. (c - write_index) % buffer_size = IF c < write_index
                                            THEN c - write_index + buffer_size
                                            ELSE c - write_index
      <3>1. PICK x \in Int : x = c - write_index
        BY <2>0
      <3>2. 0 - buffer_size <= x /\ x < 2 * buffer_size
        BY <2>0, <3>1, BufferSize
      <3>3. x % buffer_size = IF x < 0 THEN x + buffer_size
                              ELSE IF x < buffer_size THEN x ELSE x - buffer_size
        BY <3>2, Wrap
      <3> QED BY <2>0, <3>1, <3>3, BufferSize
    <2>2. PICK k \in Int : k = (c - write_index) % buffer_size
      BY <2>0, <2>1, BufferSize
    <2>3. k \in 0 .. buffer_size - 1 /\ At(write_index, k) = c
      BY <2>0, <2>1, <2>2, BufferSize DEF At
    <2> QED BY <2>2, <2>3
  <1>5. CASE k < n
    <2>1. k + 1 \in 1 .. Len(xs)
      BY <1>5
    <2>2. xs[k + 1] \in Bytes
      BY <2>1, ElementOfSeq
    <2> QED BY <1>4, <1>5, <2>2 DEF Stored
  <1>6. CASE ~(k < n)
    <2>1. PICK j \in 0 .. Stock - 1 : j = Stock + k - buffer_size
      BY <1>2, <1>6, BufferSize
    <2>2. At(read_index, j) = c
      <3>1. k \in 0 .. buffer_size /\ Stock + k >= buffer_size
        BY <1>2, <2>1, BufferSize
      <3>2. At(At(read_index, Stock), k) = At(read_index, Stock + k - buffer_size)
        BY <1>2, <1>3, <3>1, AtFacts
      <3> QED BY <1>2, <1>4, <2>1, <3>2
    <2>3. buffer_ptr[c] \in Bytes
      BY <1>1, <2>2 DEF StoredBytes
    <2> QED BY <1>4, <1>6, <2>3 DEF Stored
  <1> QED BY <1>5, <1>6

\* A pool that is written everywhere stays so, whatever is stored in it.
LEMMA StoredFilled ==
    ASSUME Filled, NEW xs \in Seq(Bytes), NEW n \in 0 .. buffer_size, n <= Len(xs),
           NEW c \in Cells
    PROVE  Stored(xs, n)[c] \in Bytes
  <1>1. (c - write_index) % buffer_size \in 0 .. buffer_size - 1
    BY BufferSize, Wrap DEF Filled, TypeOK, Cells
  <1>2. \A k \in 0 .. buffer_size - 1 : k < n => xs[k + 1] \in Bytes
    <2>1. \A k \in 0 .. buffer_size - 1 : k < n => k + 1 \in 1 .. Len(xs)
      BY BufferSize
    <2> QED BY <2>1, ElementOfSeq
  <1> QED BY <1>1, <1>2 DEF Stored, Filled
-------------------------------------------------------------------------------
(* The invariant holds.                                                    *)

\* ring_buffer_init establishes the invariant.
LEMMA RingInit == Init => RingInv
  <1> SUFFICES ASSUME Init PROVE RingInv
    OBVIOUS
  <1>1. 0 \in Cells
    BY BufferSize DEF Cells
  <1>2. buffer_ptr \in [Cells -> Bytes \cup {NoByte}]
    BY DEF Init
  <1>3. Agree
    BY <1>1, <1>2 DEF Init, Agree, InOrder, TypeOK
  <1>4. Stock = 0
    BY DEF Init, Stock
  <1> QED BY <1>3, <1>4 DEF RingInv, StoredBytes

\* A call after which no forced block has run past the reader keeps it.
LEMMA RingNext == RingInv /\ ~overtaken' /\ [Next]_vars => RingInv'
  <1> SUFFICES ASSUME RingInv, ~overtaken', [Next]_vars PROVE RingInv'
    OBVIOUS
  <1>0. TypeOK
    BY DEF RingInv, Agree
  <1>1. ASSUME NEW xs \in Blocks, ring_buffer_put(xs) PROVE RingInv'
    <2>1. PICK n : n = Shorter(Len(xs), buffer_size - Stock)
      OBVIOUS
    <2>2. xs \in Seq(Bytes)
      BY BlockIsSeq
    <2>3. /\ n \in 1 .. buffer_size /\ n <= Len(xs) /\ n <= buffer_size - Stock
          /\ buffer_ptr' = Stored(xs, n) /\ AdvanceWrite(n)
          /\ read_mirror' = read_mirror /\ read_index' = read_index
          /\ out' = out /\ overtaken' \in BOOLEAN
      BY <1>1, <2>1, PutStores
    <2> QED BY <2>2, <2>3, WriteEffect
  <1>2. ASSUME NEW xs \in Blocks, ring_buffer_put_force(xs) PROVE RingInv'
    <2>1. PICK n : n = Shorter(Len(xs), buffer_size)
      OBVIOUS
    <2>2. xs \in Seq(Bytes)
      BY BlockIsSeq
    <2>3. /\ n \in 1 .. buffer_size /\ n <= Len(xs)
          /\ buffer_ptr' = Stored(xs, n) /\ AdvanceWrite(n)
          /\ out' = out /\ overtaken' \in BOOLEAN
          /\ \/ /\ n <= buffer_size - Stock
                /\ read_mirror' = read_mirror /\ read_index' = read_index
             \/ ring_buffer_status = "FULL" /\ FollowWriter(n)
      BY <1>2, <2>1, PutForceStores
    <2>4. CASE /\ n <= buffer_size - Stock
               /\ read_mirror' = read_mirror /\ read_index' = read_index
      BY <2>2, <2>3, <2>4, WriteEffect
    <2>5. CASE ring_buffer_status = "FULL" /\ FollowWriter(n)
      BY <2>2, <2>3, <2>5, ForceEffect
    <2> QED BY <2>3, <2>4, <2>5
  <1>3. ASSUME NEW m \in 1 .. MaxBlock, ring_buffer_get(m) PROVE RingInv'
    <2>1. PICK n : n = Shorter(m, Stock)
      OBVIOUS
    <2>2. /\ n \in 1 .. Stock /\ AdvanceRead(n) /\ out' = Copied(n) /\ overtaken' \in BOOLEAN
          /\ UNCHANGED <<write_mirror, write_index, buffer_ptr>>
      BY <1>3, <2>1, GetReads
    <2> QED BY <2>2, ReadEffect
  <1>4. ASSUME NEW ch \in Bytes, ring_buffer_putchar(ch) PROVE RingInv'
    BY <1>0, <1>1, <1>4, PutcharIsPut, OneByte
  <1>5. ASSUME NEW ch \in Bytes, ring_buffer_putchar_force(ch) PROVE RingInv'
    BY <1>0, <1>2, <1>5, PutcharForceIsPutForce, OneByte
  <1>6. CASE ring_buffer_getchar
    <2>1. 1 \in 1 .. MaxBlock
      BY BlockAssumption
    <2> QED BY <1>0, <1>3, <1>6, <2>1, GetcharIsGet
  <1>7. CASE UNCHANGED vars
    BY <1>7 DEF vars, RingInv, Agree, InOrder, TypeOK, StoredBytes, Stock, At, Cells, buffer_size
  <1> QED BY <1>1, <1>2, <1>3, <1>4, <1>5, <1>6, <1>7 DEF Next

\* Before and after a forced block ran past the reader the indices stay inside
\* the pool; only a forced block can do so, and it leaves every cell written.
LEMMA FilledNext ==
    ASSUME TypeOK, [Next]_vars, overtaken',
           Filled \/ (RingInv /\ ~overtaken)
    PROVE  Filled'
  <1>0. Cells' = Cells /\ overtaken' \in BOOLEAN
    <2>1. overtaken \in BOOLEAN
      BY DEF TypeOK
    <2> QED BY <2>1 DEF Cells, buffer_size, Next, vars, ring_buffer_put, ring_buffer_put_force,
               ring_buffer_putchar, ring_buffer_putchar_force, ring_buffer_get, ring_buffer_getchar
  <1>1. ASSUME NEW xs \in Blocks, ring_buffer_put(xs) PROVE Filled'
    <2>1. PICK n : n = Shorter(Len(xs), ring_buffer_space_len)
      OBVIOUS
    <2>2. xs \in Seq(Bytes) /\ n \in 0 .. buffer_size /\ n <= Len(xs)
      BY <2>1, BlockIsSeq, LenInRange, BufferSize DEF Shorter
    <2>3. Filled
      BY <1>1 DEF ring_buffer_put
    <2>4. buffer_ptr' = Stored(xs, n) /\ AdvanceWrite(n)
      BY <1>1, <2>1 DEF ring_buffer_put
    <2>5. buffer_ptr' \in [Cells -> Bytes \cup {NoByte}]
      BY <2>2, <2>4, StoredType
    <2>6. \A c \in Cells : buffer_ptr'[c] \in Bytes
      BY <2>2, <2>3, <2>4, StoredFilled
    <2>7. write_mirror' \in {0, 1} /\ write_index' \in Cells
      BY <2>2, <2>4, AdvanceStays
    <2> QED BY <1>0, <1>1, <2>5, <2>6, <2>7 DEF Filled, TypeOK, ring_buffer_put
  <1>2. ASSUME NEW xs \in Blocks, ring_buffer_put_force(xs) PROVE Filled'
    <2>1. PICK n : n = Shorter(Len(xs), buffer_size)
      OBVIOUS
    <2>2. xs \in Seq(Bytes) /\ n \in 0 .. buffer_size /\ n \in 1 .. buffer_size /\ n <= Len(xs)
      BY <2>1, BlockIsSeq, BufferSize DEF Shorter
    <2>3. /\ buffer_ptr' = Stored(xs, n) /\ AdvanceWrite(n) /\ FollowWriter(n) /\ out' = out
          /\ overtaken' = (overtaken \/ Overtakes(n))
      BY <1>2, <2>1 DEF ring_buffer_put_force
    <2>4. \A c \in Cells : buffer_ptr'[c] \in Bytes
      <3>1. CASE Filled
        BY <2>2, <2>3, <3>1, StoredFilled
      <3>2. CASE RingInv /\ Overtakes(n)
        BY <2>2, <2>3, <3>2, OvertakeFills
      <3> QED BY <2>3, <3>1, <3>2
    <2>5. buffer_ptr' \in [Cells -> Bytes \cup {NoByte}]
      BY <2>2, <2>3, StoredType
    <2>6. write_mirror' \in {0, 1} /\ write_index' \in Cells
      BY <2>2, <2>3, AdvanceStays
    <2>7. read_mirror' \in {0, 1} /\ read_index' \in Cells
      BY <2>3, <2>6 DEF FollowWriter, Flip, TypeOK
    <2> QED BY <1>0, <2>3, <2>4, <2>5, <2>6, <2>7 DEF Filled, TypeOK
  <1>3. ASSUME NEW m \in 1 .. MaxBlock, ring_buffer_get(m) PROVE Filled'
    <2>1. PICK n : n = Shorter(m, ring_buffer_data_len)
      OBVIOUS
    <2>2. n \in 0 .. buffer_size /\ n \in Nat
      BY <2>1, LenInRange, BlockAssumption, BufferSize DEF Shorter
    <2>3. /\ AdvanceRead(n) /\ out' = Copied(n)
          /\ UNCHANGED <<write_mirror, write_index, buffer_ptr, overtaken>>
      BY <1>3, <2>1 DEF ring_buffer_get
    <2>4. Filled
      BY <2>3
    <2>5. out' \in Seq(Bytes)
      <3>1. Copied(n) = [i \in 1 .. n |-> buffer_ptr[At(read_index, i - 1)]]
        BY <2>2, CopiedCells
      <3>2. \A i \in 1 .. n : At(read_index, i - 1) \in Cells
        <4>1. \A i \in 1 .. n : i - 1 \in 0 .. buffer_size
          BY <2>2, BufferSize
        <4> QED BY <4>1, AtFacts DEF TypeOK
      <3>3. Copied(n) \in [1 .. n -> Bytes]
        BY <2>4, <3>1, <3>2 DEF Filled
      <3> QED BY <2>2, <2>3, <3>3, FunctionIsSeq
    <2>6. read_mirror' \in {0, 1} /\ read_index' \in Cells
      BY <2>2, <2>3, AdvanceStays
    <2> QED BY <1>0, <2>3, <2>4, <2>5, <2>6 DEF Filled, TypeOK
  <1>4. ASSUME NEW ch \in Bytes, ring_buffer_putchar(ch) PROVE Filled'
    BY <1>1, <1>4, PutcharIsPut, OneByte
  <1>5. ASSUME NEW ch \in Bytes, ring_buffer_putchar_force(ch) PROVE Filled'
    BY <1>2, <1>5, PutcharForceIsPutForce, OneByte
  <1>6. CASE ring_buffer_getchar
    <2>1. 1 \in 1 .. MaxBlock
      BY BlockAssumption
    <2> QED BY <1>3, <1>6, <2>1, GetcharIsGet
  <1>7. CASE UNCHANGED vars
    BY <1>0, <1>7 DEF vars, Filled, TypeOK
  <1> QED BY <1>1, <1>2, <1>3, <1>4, <1>5, <1>6, <1>7 DEF Next

\* A forced block that ran past the reader is never forgotten.
LEMMA OvertakenStays == overtaken /\ [Next]_vars => overtaken'
  BY DEF Next, vars, ring_buffer_put, ring_buffer_put_force, ring_buffer_putchar,
     ring_buffer_putchar_force, ring_buffer_get, ring_buffer_getchar

\* The invariant holds in every run.
LEMMA BufferInvariant == Spec => []BufferInv
  <1>1. Init => BufferInv
    BY RingInit DEF Init, BufferInv
  <1>2. BufferInv /\ [Next]_vars => BufferInv'
    <2> SUFFICES ASSUME BufferInv, [Next]_vars PROVE BufferInv'
      OBVIOUS
    <2>1. TypeOK /\ (Filled \/ (RingInv /\ ~overtaken))
      BY DEF BufferInv, Filled, RingInv, Agree
    <2>2. CASE overtaken'
      BY <2>1, <2>2, FilledNext DEF BufferInv
    <2>3. CASE ~overtaken'
      BY <2>3, OvertakenStays, RingNext DEF BufferInv
    <2> QED BY <2>2, <2>3
  <1> QED BY <1>1, <1>2, PTL DEF Spec

\* For every pool size and block length, whatever is forced into the buffer, the
\* indices stay inside the pool and only bytes that were put are handed out;
\* and until a forced block runs past the reader the mirror bits count the laps:
\* with equal bits the writer is not behind the reader and with different bits
\* not ahead of it.
THEOREM MirrorsCountLaps == Spec => []MirrorsAgree
  <1>1. BufferInv => MirrorsAgree
    BY DEF BufferInv, RingInv, Filled, Agree, MirrorsAgree
  <1> QED BY <1>1, BufferInvariant, PTL
-------------------------------------------------------------------------------
(* The refinement of ByteFifo.                                             *)

\* The abstract contents are the stored cells from the reader on.
ContentsShape ==
    /\ Stock \in 0 .. buffer_size
    /\ Contents \in [1 .. Stock -> Bytes]
    /\ \A i \in 1 .. Stock : Contents[i] = buffer_ptr[At(read_index, i - 1)]

\* The invariant gives the contents that shape.
LEMMA ContentsAre == RingInv => ContentsShape
  <1> SUFFICES ASSUME RingInv PROVE ContentsShape
    OBVIOUS
  <1>1. Agree /\ TypeOK /\ StoredBytes
    BY DEF RingInv, Agree, InOrder
  <1>2. Stock \in 0 .. buffer_size /\ ring_buffer_data_len = Stock
    BY <1>1, DataLen
  <1>3. Contents = [i \in 1 .. Stock |-> buffer_ptr[At(read_index, i - 1)]]
    BY <1>1, <1>2, CopiedCells DEF Contents
  <1>4. \A i \in 1 .. Stock : buffer_ptr[At(read_index, i - 1)] \in Bytes
    <2>1. \A i \in 1 .. Stock : i - 1 \in 0 .. Stock - 1
      BY <1>2, BufferSize
    <2> QED BY <2>1, <1>1 DEF StoredBytes
  <1> QED BY <1>2, <1>3, <1>4 DEF ContentsShape

\* The same in the state after a step, by cells of the step's own pool.
LEMMA ContentsNext ==
    ASSUME RingInv'
    PROVE  /\ Stock' \in 0 .. buffer_size
           /\ Contents' \in [1 .. Stock' -> Bytes]
           /\ \A i \in 1 .. Stock' : Contents'[i] = buffer_ptr'[At(read_index', i - 1)]
  <1>1. RingInv' => ContentsShape'
    BY ContentsAre, PTL
  <1>2. buffer_size' = buffer_size
    BY DEF buffer_size
  <1> QED BY <1>1, <1>2 DEF ContentsShape, At

\* Storing n bytes that fit is appending them to the contents.
LEMMA WriteAppends ==
    ASSUME RingInv, RingInv', NEW xs \in Seq(Bytes), NEW n \in 1 .. buffer_size,
           n <= Len(xs), Stock' = Stock + n,
           read_index' = read_index,
           \A k \in 0 .. Stock - 1 :
              buffer_ptr'[At(read_index, k)] = buffer_ptr[At(read_index, k)],
           \A k \in 0 .. n - 1 : buffer_ptr'[At(read_index, Stock + k)] = xs[k + 1]
    PROVE  Contents' = Contents \o SubSeq(xs, 1, n)
  <1>1. /\ Stock \in 0 .. buffer_size /\ Contents \in [1 .. Stock -> Bytes]
        /\ \A i \in 1 .. Stock : Contents[i] = buffer_ptr[At(read_index, i - 1)]
    BY ContentsAre DEF ContentsShape
  <1>2. /\ Contents' \in [1 .. Stock' -> Bytes]
        /\ \A i \in 1 .. Stock' : Contents'[i] = buffer_ptr'[At(read_index', i - 1)]
    BY ContentsNext
  <1>3. PICK m \in Nat : m = Stock
    BY <1>1, BufferSize
  <1>4. PICK C \in [1 .. m -> Bytes] : C = Contents
    BY <1>1, <1>3
  <1>5. PICK D \in [1 .. m + n -> Bytes] : D = Contents'
    BY <1>2, <1>3
  <1>6. PICK t \in [1 .. n -> Bytes] :
             t = SubSeq(xs, 1, n) /\ \A i \in 1 .. n : t[i] = xs[i]
    <2>1. n \in Nat
      BY BufferSize
    <2>2. /\ SubSeq(xs, 1, n) \in [1 .. n -> Bytes]
          /\ \A i \in 1 .. n : SubSeq(xs, 1, n)[i] = xs[i]
      BY <2>1, PrefixElements
    <2> QED BY <2>2, Zenon
  <1>7. \A i \in 1 .. m : D[i] = C[i]
    <2> SUFFICES ASSUME NEW i \in 1 .. m PROVE D[i] = C[i]
      OBVIOUS
    <2>1. i \in 1 .. Stock /\ i \in 1 .. Stock' /\ i - 1 \in 0 .. Stock - 1
      BY <1>3, BufferSize
    <2> QED BY <1>1, <1>2, <1>4, <1>5, <2>1
  <1>8. \A i \in 1 .. n : D[m + i] = t[i]
    <2> SUFFICES ASSUME NEW i \in 1 .. n PROVE D[m + i] = t[i]
      OBVIOUS
    <2>1. m + i \in 1 .. Stock' /\ i - 1 \in 0 .. n - 1 /\ (m + i) - 1 = Stock + (i - 1)
          /\ (i - 1) + 1 = i
      BY <1>3, BufferSize
    <2>2. D[m + i] = buffer_ptr'[At(read_index, Stock + (i - 1))]
      BY <1>2, <1>5, <2>1
    <2>3. buffer_ptr'[At(read_index, Stock + (i - 1))] = xs[(i - 1) + 1]
      BY <2>1
    <2> QED BY <1>6, <2>1, <2>2, <2>3
  <1>9. D = C \o t
    <2>1. OneAfterOther(Bytes, D, C, m, t, n) /\ n \in Nat
      BY <1>7, <1>8, BufferSize DEF OneAfterOther
    <2> QED BY <2>1, ConcatByElements
  <1> QED BY <1>4, <1>5, <1>6, <1>9

\* Forcing n bytes into a full buffer keeps the last buffer_size bytes of the
\* contents with the new bytes appended.
LEMMA ForceKeepsLast ==
    ASSUME RingInv, RingInv', NEW xs \in Seq(Bytes), NEW n \in 1 .. buffer_size,
           n <= Len(xs), Stock = buffer_size, Stock' = buffer_size,
           \A k \in 0 .. buffer_size - n - 1 :
              buffer_ptr'[At(read_index', k)] = buffer_ptr[At(read_index, n + k)],
           \A k \in 0 .. n - 1 :
              buffer_ptr'[At(read_index', buffer_size - n + k)] = xs[k + 1]
    PROVE  /\ Contents' = SubSeq(Contents \o SubSeq(xs, 1, n), n + 1, buffer_size + n)
           /\ Len(Contents \o SubSeq(xs, 1, n)) = buffer_size + n
  <1>1. /\ Contents \in [1 .. Stock -> Bytes]
        /\ \A i \in 1 .. Stock : Contents[i] = buffer_ptr[At(read_index, i - 1)]
    BY ContentsAre DEF ContentsShape
  <1>2. /\ Contents' \in [1 .. Stock' -> Bytes]
        /\ \A i \in 1 .. Stock' : Contents'[i] = buffer_ptr'[At(read_index', i - 1)]
    BY ContentsNext
  <1>3. PICK m \in Nat : m = buffer_size
    BY BufferSize
  <1>n. n \in Nat /\ n <= m
    BY <1>3, BufferSize
  <1>4. PICK C \in [1 .. m -> Bytes] : C = Contents
    BY <1>1, <1>3
  <1>5. PICK D \in [1 .. m -> Bytes] : D = Contents'
    BY <1>2, <1>3
  <1>6. PICK t \in [1 .. n -> Bytes] :
             t = SubSeq(xs, 1, n) /\ \A i \in 1 .. n : t[i] = xs[i]
    <2>1. /\ SubSeq(xs, 1, n) \in [1 .. n -> Bytes]
          /\ \A i \in 1 .. n : SubSeq(xs, 1, n)[i] = xs[i]
      BY <1>n, PrefixElements
    <2> QED BY <2>1, Zenon
  <1>7. /\ C \o t \in Seq(Bytes) /\ Len(C \o t) = m + n
        /\ \A i \in 1 .. m + n : (C \o t)[i] = IF i <= m THEN C[i] ELSE t[i - m]
    <2>1. C \in Seq(Bytes) /\ Len(C) = m /\ t \in Seq(Bytes) /\ Len(t) = n
      BY <1>n, FunctionIsSeq
    <2> QED BY <2>1, ConcatProperties
  <1>8. PICK all \in [1 .. m + n -> Bytes] : all = C \o t
    BY <1>7, LenProperties
  <1>9. \A i \in 1 .. m : D[i] = all[n + i]
    <2> SUFFICES ASSUME NEW i \in 1 .. m PROVE D[i] = all[n + i]
      OBVIOUS
    <2>1. D[i] = buffer_ptr'[At(read_index', i - 1)]
      BY <1>2, <1>3, <1>5
    <2>2. CASE n + i <= m
      <3>1. i - 1 \in 0 .. buffer_size - n - 1 /\ n + i \in 1 .. Stock
            /\ n + (i - 1) = (n + i) - 1 /\ n + i \in 1 .. m + n
        BY <1>3, <1>n, <2>2
      <3>2. buffer_ptr'[At(read_index', i - 1)] = buffer_ptr[At(read_index, n + (i - 1))]
        BY <3>1
      <3>3. C[n + i] = buffer_ptr[At(read_index, (n + i) - 1)]
        BY <1>1, <1>4, <3>1
      <3> QED BY <1>7, <1>8, <2>1, <2>2, <3>1, <3>2, <3>3
    <2>3. CASE n + i > m
      <3>1. PICK k \in 0 .. n - 1 : i - 1 = buffer_size - n + k /\ k + 1 = n + i - m
                                    /\ k + 1 \in 1 .. n
        <4>1. /\ n + i - m - 1 \in 0 .. n - 1
              /\ i - 1 = buffer_size - n + (n + i - m - 1)
              /\ (n + i - m - 1) + 1 = n + i - m
              /\ (n + i - m - 1) + 1 \in 1 .. n
          BY <1>3, <1>n, <2>3
        <4> QED BY <4>1
      <3>2. buffer_ptr'[At(read_index', i - 1)] = xs[k + 1]
        BY <3>1
      <3>3. all[n + i] = t[n + i - m]
        BY <1>7, <1>8, <1>n, <2>3
      <3> QED BY <1>6, <2>1, <3>1, <3>2, <3>3
    <2> QED BY <1>n, <2>2, <2>3
  <1>10. D = SubSeq(all, n + 1, m + n)
    <2>1. PICK h \in Nat : h = m + n
      BY <1>n
    <2>2. n \in 0 .. h /\ h \in n .. h /\ D \in [1 .. h - n -> Bytes]
          /\ all \in [1 .. h -> Bytes] /\ \A i \in 1 .. h - n : D[i] = all[n + i]
      BY <1>n, <1>9, <2>1
    <2>3. D = SubSeq(all, n + 1, h)
      BY <2>2, SuffixByElements
    <2> QED BY <2>1, <2>3
  <1> QED BY <1>3, <1>4, <1>5, <1>6, <1>7, <1>8, <1>10

\* Reading n bytes returns the first n of the contents and leaves the rest.
LEMMA ReadTakesFirst ==
    ASSUME RingInv, RingInv', NEW n \in 1 .. Stock, out' = Copied(n), Stock' = Stock - n,
           \A k \in 0 .. Stock - n - 1 :
              buffer_ptr'[At(read_index', k)] = buffer_ptr[At(read_index, n + k)]
    PROVE  /\ out' = SubSeq(Contents, 1, n)
           /\ Contents' = SubSeq(Contents, n + 1, Stock)
  <1>1. /\ Stock \in 0 .. buffer_size /\ Contents \in [1 .. Stock -> Bytes]
        /\ \A i \in 1 .. Stock : Contents[i] = buffer_ptr[At(read_index, i - 1)]
    BY ContentsAre DEF ContentsShape
  <1>2. /\ Contents' \in [1 .. Stock' -> Bytes]
        /\ \A i \in 1 .. Stock' : Contents'[i] = buffer_ptr'[At(read_index', i - 1)]
    BY ContentsNext
  <1>3. PICK m \in Nat : m = Stock
    BY <1>1, BufferSize
  <1>n. n \in Nat /\ n <= m /\ n > 0
    BY <1>3
  <1>4. PICK C \in [1 .. m -> Bytes] : C = Contents
    BY <1>1, <1>3
  <1>5. PICK D \in [1 .. m - n -> Bytes] : D = Contents'
    BY <1>2, <1>3
  <1>6. D = SubSeq(C, n + 1, m)
    <2>1. ASSUME NEW i \in 1 .. m - n PROVE D[i] = C[n + i]
      <3>1. i - 1 \in 0 .. Stock - n - 1 /\ n + i \in 1 .. Stock /\ i \in 1 .. Stock'
            /\ n + (i - 1) = (n + i) - 1
        BY <1>3, <1>n
      <3>2. D[i] = buffer_ptr[At(read_index, n + (i - 1))]
        BY <1>2, <1>5, <3>1
      <3>3. C[n + i] = buffer_ptr[At(read_index, (n + i) - 1)]
        BY <1>1, <1>4, <3>1
      <3> QED BY <3>1, <3>2, <3>3
    <2>2. n \in 0 .. m /\ m \in n .. m
      BY <1>n
    <2> QED BY <2>1, <2>2, SuffixByElements
  <1>7. out' = SubSeq(C, 1, n)
    <2>1. n \in 0 .. buffer_size /\ TypeOK
      BY <1>1, <1>n, <1>3, BufferSize DEF RingInv, Agree, InOrder
    <2>2. out' = [i \in 1 .. n |-> buffer_ptr[At(read_index, i - 1)]]
      BY <2>1, CopiedCells
    <2>3. \A i \in 1 .. n : i \in 1 .. Stock
      BY <1>3, <1>n
    <2>4. \A i \in 1 .. n : buffer_ptr[At(read_index, i - 1)] = C[i]
      BY <1>1, <1>4, <2>3
    <2>5. PICK u \in [1 .. n -> Bytes] : u = out'
      BY <2>2, <2>3, <2>4, <1>3
    <2>6. \A i \in 1 .. n - 0 : u[i] = C[0 + i]
      BY <2>2, <2>4, <2>5, <1>n
    <2>7. 0 \in 0 .. m /\ n \in 0 .. m /\ u \in [1 .. n - 0 -> Bytes]
      BY <1>n
    <2>8. u = SubSeq(C, 0 + 1, n)
      BY <2>6, <2>7, SuffixByElements
    <2> QED BY <2>5, <2>8
  <1> QED BY <1>3, <1>4, <1>5, <1>6, <1>7
\* ring_buffer_put does what the abstract Put does.
LEMMA PutMaps ==
    ASSUME RingInv, NEW xs \in Blocks, ring_buffer_put(xs)
    PROVE  Fifo!Put(xs)
  <1>1. PICK n : n = Shorter(Len(xs), buffer_size - Stock)
    OBVIOUS
  <1>2. xs \in Seq(Bytes)
    BY BlockIsSeq
  <1>3. /\ n \in 1 .. buffer_size /\ n <= Len(xs) /\ n <= buffer_size - Stock
        /\ buffer_ptr' = Stored(xs, n) /\ AdvanceWrite(n)
        /\ read_mirror' = read_mirror /\ read_index' = read_index
        /\ out' = out /\ overtaken' \in BOOLEAN
    BY <1>1, PutStores
  <1>4. Contents' = Contents \o SubSeq(xs, 1, n)
    <2>1. /\ RingInv' /\ Stock' = Stock + n
          /\ \A k \in 0 .. Stock - 1 :
                buffer_ptr'[At(read_index, k)] = buffer_ptr[At(read_index, k)]
          /\ \A k \in 0 .. n - 1 : buffer_ptr'[At(read_index, Stock + k)] = xs[k + 1]
      BY <1>2, <1>3, WriteEffect
    <2> QED BY <1>2, <1>3, <2>1, WriteAppends
  <1>5. Len(Contents) = Stock
    BY ContentsAre, FunctionIsSeq, BufferSize DEF ContentsShape
  <1>6. n = Fifo!Least(Len(xs), buffer_size - Len(Contents))
    BY <1>1, <1>5 DEF Fifo!Least, Shorter
  <1> QED BY <1>3, <1>4, <1>6 DEF Fifo!Put

\* ring_buffer_put_force does what the abstract PutForce does, unless it runs past
\* the reader.
LEMMA PutForceMaps ==
    ASSUME RingInv, ~overtaken', NEW xs \in Blocks, ring_buffer_put_force(xs)
    PROVE  Fifo!PutForce(xs)
  <1>1. PICK n : n = Shorter(Len(xs), buffer_size)
    OBVIOUS
  <1>2. xs \in Seq(Bytes)
    BY BlockIsSeq
  <1>3. /\ n \in 1 .. buffer_size /\ n <= Len(xs)
        /\ buffer_ptr' = Stored(xs, n) /\ AdvanceWrite(n)
        /\ out' = out /\ overtaken' \in BOOLEAN
        /\ \/ /\ n <= buffer_size - Stock
              /\ read_mirror' = read_mirror /\ read_index' = read_index
           \/ ring_buffer_status = "FULL" /\ FollowWriter(n)
    BY <1>1, PutForceStores
  <1>4. n = Fifo!Least(Len(xs), buffer_size)
    BY <1>1 DEF Fifo!Least, Shorter
  <1> DEFINE all == Contents \o SubSeq(xs, 1, n)
  <1>5. Contents' = Fifo!Last(all, Fifo!Least(Len(all), buffer_size))
    <2>1. CASE /\ n <= buffer_size - Stock
               /\ read_mirror' = read_mirror /\ read_index' = read_index
      <3>1. /\ RingInv' /\ Stock' = Stock + n
            /\ \A k \in 0 .. Stock - 1 :
                  buffer_ptr'[At(read_index, k)] = buffer_ptr[At(read_index, k)]
            /\ \A k \in 0 .. n - 1 : buffer_ptr'[At(read_index, Stock + k)] = xs[k + 1]
        BY <1>2, <1>3, <2>1, WriteEffect
      <3>2. Contents' = all
        BY <1>2, <1>3, <2>1, <3>1, WriteAppends
      <3>3. /\ Stock' \in 0 .. buffer_size
            /\ Contents' \in Seq(Bytes) /\ Len(Contents') = Stock'
        <4>1. Stock' \in 0 .. buffer_size /\ Contents' \in [1 .. Stock' -> Bytes]
          BY <3>1, ContentsNext
        <4>2. Stock' \in Nat
          BY <4>1, BufferSize
        <4> QED BY <4>1, <4>2, FunctionIsSeq
      <3> HIDE DEF all
      <3>4. all \in Seq(Bytes) /\ Len(all) \in 0 .. buffer_size
        BY <3>2, <3>3
      <3>5. Fifo!Least(Len(all), buffer_size) = Len(all)
        BY <3>4, BufferSize DEF Fifo!Least
      <3>6. Len(all) - Len(all) + 1 = 1
        BY <3>4
      <3>7. SubSeq(all, 1, Len(all)) = all
        BY <3>4, SubSeqFull
      <3> QED BY <3>2, <3>5, <3>6, <3>7 DEF Fifo!Last
    <2>2. CASE ring_buffer_status = "FULL" /\ FollowWriter(n)
      <3>1. /\ RingInv' /\ Stock = buffer_size /\ Stock' = buffer_size
            /\ \A k \in 0 .. buffer_size - n - 1 :
                  buffer_ptr'[At(read_index', k)] = buffer_ptr[At(read_index, n + k)]
            /\ \A k \in 0 .. n - 1 :
                  buffer_ptr'[At(read_index', buffer_size - n + k)] = xs[k + 1]
        BY <1>2, <1>3, <2>2, ForceEffect
      <3>2. Contents' = SubSeq(all, n + 1, buffer_size + n) /\ Len(all) = buffer_size + n
        BY <1>2, <1>3, <3>1, ForceKeepsLast
      <3> HIDE DEF all
      <3>3. Fifo!Least(Len(all), buffer_size) = buffer_size
            /\ Len(all) - buffer_size + 1 = n + 1
        BY <1>3, <3>2, BufferSize DEF Fifo!Least
      <3> QED BY <3>2, <3>3 DEF Fifo!Last
    <2> QED BY <1>3, <2>1, <2>2
  <1> QED BY <1>3, <1>4, <1>5 DEF Fifo!PutForce

\* ring_buffer_get does what the abstract Get does.
LEMMA GetMaps ==
    ASSUME RingInv, NEW m \in 1 .. MaxBlock, ring_buffer_get(m)
    PROVE  Fifo!Get(m)
  <1>1. PICK n : n = Shorter(m, Stock)
    OBVIOUS
  <1>2. /\ n \in 1 .. Stock /\ AdvanceRead(n) /\ out' = Copied(n) /\ overtaken' \in BOOLEAN
        /\ UNCHANGED <<write_mirror, write_index, buffer_ptr>>
    BY <1>1, GetReads
  <1>3. /\ RingInv' /\ Stock' = Stock - n
        /\ \A k \in 0 .. Stock - n - 1 :
              buffer_ptr'[At(read_index', k)] = buffer_ptr[At(read_index, n + k)]
    BY <1>2, ReadEffect
  <1>4. out' = SubSeq(Contents, 1, n) /\ Contents' = SubSeq(Contents, n + 1, Stock)
    BY <1>2, <1>3, ReadTakesFirst
  <1>5. Len(Contents) = Stock /\ Stock \in Nat
    BY ContentsAre, FunctionIsSeq, BufferSize DEF ContentsShape
  <1>6. n = Fifo!Least(m, Len(Contents)) /\ n > 0
    BY <1>1, <1>2, <1>5 DEF Fifo!Least, Shorter
  <1> QED BY <1>4, <1>5, <1>6 DEF Fifo!Get

\* Every call is a step of the abstract buffer, until one runs past the reader.
LEMMA CallMaps ==
    ASSUME RingInv, ~overtaken', [Next]_vars
    PROVE  [Fifo!Next]_(Fifo!vars)
  <1>0. TypeOK /\ Fifo!Blocks = Blocks
    BY DEF RingInv, Agree, Blocks, Fifo!Blocks
  <1>1. ASSUME NEW xs \in Blocks, ring_buffer_put(xs) PROVE Fifo!Next
    BY <1>0, <1>1, PutMaps DEF Fifo!Next
  <1>2. ASSUME NEW xs \in Blocks, ring_buffer_put_force(xs) PROVE Fifo!Next
    BY <1>0, <1>2, PutForceMaps DEF Fifo!Next
  <1>3. ASSUME NEW m \in 1 .. MaxBlock, ring_buffer_get(m) PROVE Fifo!Next
    BY <1>3, GetMaps DEF Fifo!Next
  <1>4. ASSUME NEW ch \in Bytes, ring_buffer_putchar(ch) PROVE Fifo!Next
    BY <1>0, <1>1, <1>4, PutcharIsPut, OneByte
  <1>5. ASSUME NEW ch \in Bytes, ring_buffer_putchar_force(ch) PROVE Fifo!Next
    BY <1>0, <1>2, <1>5, PutcharForceIsPutForce, OneByte
  <1>6. CASE ring_buffer_getchar
    <2>1. 1 \in 1 .. MaxBlock
      BY BlockAssumption
    <2> QED BY <1>0, <1>3, <1>6, <2>1, GetcharIsGet
  <1>7. CASE UNCHANGED vars
    BY <1>7 DEF vars, Fifo!vars, Contents, Copied, ring_buffer_data_len,
                ring_buffer_status
  <1> QED BY <1>1, <1>2, <1>3, <1>4, <1>5, <1>6, <1>7 DEF Next

\* The ring buffer implements a byte queue of buffer_size bytes, for every size of
\* the pool and length of the blocks, until a forced block runs past the reader:
\* nothing is lost, reordered or invented, a put drops what does not fit, and
\* forcing a full buffer discards the oldest.
THEOREM RingImplementsFifo == Spec => ImplementsByteFifo
  <1>1. Init => Fifo!Init
    <2> SUFFICES ASSUME Init PROVE Fifo!Init
      OBVIOUS
    <2>1. RingInv /\ out = <<>> /\ Stock = 0
      BY RingInit DEF Init, Stock
    <2>2. Contents \in [1 .. 0 -> Bytes]
      BY <2>1, ContentsAre DEF ContentsShape
    <2>3. Contents = <<>>
      BY <2>2, FunctionIsSeq, EmptySeq
    <2> QED BY <2>1, <2>3 DEF Fifo!Init
  <1>2. BufferInv /\ [Next]_vars => [overtaken' \/ Fifo!Next]_(Fifo!vars)
    <2> SUFFICES ASSUME BufferInv, [Next]_vars, ~overtaken'
                 PROVE  [overtaken' \/ Fifo!Next]_(Fifo!vars)
      OBVIOUS
    <2>1. RingInv
      BY OvertakenStays DEF BufferInv
    <2> QED BY <2>1, CallMaps
  <1> QED BY <1>1, <1>2, BufferInvariant, PTL DEF Spec, ImplementsByteFifo
===============================================================================
