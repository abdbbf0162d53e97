------------------------- MODULE RingBufferConstants -------------------------
(* The parameters of RingBuffer and what is assumed of them.                 *)
EXTENDS Integers

CONSTANTS
    PoolSize,     \* the size passed to ring_buffer_init
    Bytes,        \* the bytes stored
    NoByte,       \* what the pool holds where nothing was written
    MaxBlock      \* the longest block a caller passes or asks for

\* ring_buffer_init asserts size > 0; a size below ALIGN_SIZE gives no buffer.
ASSUME PoolAssumption == PoolSize \in Nat /\ PoolSize >= 4
ASSUME ByteAssumption == NoByte \notin Bytes
ASSUME BlockAssumption == MaxBlock \in Nat \ {0}
==============================================================================
