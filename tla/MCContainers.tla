---------------------------- MODULE MCContainers ----------------------------
(***************************************************************************)
(* The containers of the repository, each explored on its own: the queue   *)
(* of strings, the ring buffer of bytes and the dictionary.  A behaviour   *)
(* is one of one container.                                                *)
(***************************************************************************)
EXTENDS MsgQueue, RingBufferConstants, DictionaryConstants

CONSTANTS k1, k2, k3, k4

\* Of the keys, k1 and k2 collide.
MCHash(k) == CASE k \in {k1, k2} -> 1 [] k = k3 -> 3 [] OTHER -> 4

VARIABLES container,
          rgReadMirror, rgReadIndex, rgWriteMirror, rgWriteIndex, rgPool, rgOut, rgOvertaken,
          dcN, dcSize, dcKey, dcVal, dcHash, dcUncopied

Ring == INSTANCE RingBuffer WITH
    read_mirror <- rgReadMirror, read_index <- rgReadIndex, write_mirror <- rgWriteMirror,
    write_index <- rgWriteIndex, buffer_ptr <- rgPool, out <- rgOut, overtaken <- rgOvertaken
Dict == INSTANCE Dictionary WITH
    n <- dcN, size <- dcSize, key <- dcKey, val <- dcVal, hash <- dcHash, uncopied <- dcUncopied

rg == <<rgReadMirror, rgReadIndex, rgWriteMirror, rgWriteIndex, rgPool, rgOut, rgOvertaken>>
dc == <<dcN, dcSize, dcKey, dcVal, dcHash, dcUncopied>>

ContainersInit ==
    /\ container \in {"queue", "ring", "dictionary"}
    /\ Init /\ Ring!Init /\ Dict!Init
    /\ container # "queue" => next[node] = NULL

ContainersNext ==
    /\ UNCHANGED container
    /\ \/ container = "queue" /\ Next /\ UNCHANGED <<rg, dc>>
       \/ container = "ring" /\ Ring!Next /\ UNCHANGED <<vars, dc>>
       \/ container = "dictionary" /\ Dict!Next /\ UNCHANGED <<vars, rg>>

ContainersSpec == ContainersInit /\ [][ContainersNext]_<<container, vars, rg, dc>>

-----------------------------------------------------------------------------
(* The properties of the containers are stated in their modules.  Only a   *)
(* container's own steps move it, so the properties of the others are not  *)
(* looked at in them.                                                      *)

(* RingBuffer: the mirror bits count the laps, until a forced block runs   *)
(* past the reader.                                                        *)
MirrorsAgree == container = "ring" => Ring!MirrorsAgree

(* RingBuffer: until then every call does what it does to a bounded FIFO.  *)
ImplementsByteFifo ==
    /\ Ring!Fifo!Init
    /\ [][container = "ring" => rgOvertaken' \/ Ring!Fifo!Next]_(Ring!Fifo!vars)

(* Dictionary: the count is the number of keys stored and of keys counted  *)
(* that could not be copied.                                               *)
CountExact == container = "dictionary" => Dict!TypeOK /\ Dict!CountExact

(* Dictionary: below size the search for an empty slot ends.               *)
InsertTerminates == container = "dictionary" => Dict!InsertTerminates

(* Dictionary: no key is stored twice.                                     *)
KeysUnique == container = "dictionary" => Dict!KeysUnique

(* Dictionary: seen through dictionary_get every call does what it does to *)
(* a map, or nothing when memory runs out.                                 *)
ImplementsKeyMap ==
    /\ Dict!Contents!Init
    /\ [][container = "dictionary" => Dict!Contents!Next]_[k \in Keys |-> Dict!dictionary_get(k)]
=============================================================================
