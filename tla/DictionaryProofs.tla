--------------------------- MODULE DictionaryProofs ---------------------------
(***************************************************************************)
(* Theorems about Dictionary, for every set of keys, every hash function   *)
(* and every initial size.                                                 *)
(***************************************************************************)
EXTENDS Dictionary, FiniteSetTheorems, TLAPS

-------------------------------------------------------------------------------
(* The slots in use.                                                         *)

\* The slots in use are finitely many and no more than there are slots.
LEMMA UsedFinite ==
    ASSUME TypeOK
    PROVE  /\ IsFiniteSet(Used)
           /\ Cardinality(Used) \in Nat
           /\ Cardinality(Used) <= size
  <1>1. /\ IsFiniteSet(0 .. size - 1)
        /\ Cardinality(0 .. size - 1) = size
    BY FS_Interval DEF TypeOK
  <1>2. Used \subseteq 0 .. size - 1
    BY DEF Used, Slots
  <1> QED BY <1>1, <1>2, FS_Subset, FS_CardinalityType

\* The empty dictionary dictionary_new returns satisfies the invariant.
LEMMA DictInit == Init => DictInv
  <1> SUFFICES ASSUME Init PROVE DictInv
    OBVIOUS
  <1>1. TypeOK
    BY TableAssumption, ValsAssumption DEF Init, TypeOK, Slots
  <1>2. Used = {}
    BY DEF Init, Used, Slots
  <1>3. CountExact
    BY <1>2, FS_EmptySet DEF Init, CountExact
  <1>4. KeysUnique /\ HashesFit
    BY DEF Init, KeysUnique, HashesFit, Slots
  <1> QED BY <1>1, <1>3, <1>4 DEF DictInv

\* The slots of a larger array include those of a smaller one.
LEMMA IntervalGrows ==
    ASSUME NEW a \in Nat, NEW b \in Nat, b >= a
    PROVE  0 .. a - 1 \subseteq 0 .. b - 1
  OBVIOUS

\* Writing a key that is not stored into an empty slot of the arrays, or of
\* larger copies of them, keeps the invariant.
LEMMA StoreKeepsInv ==
    ASSUME DictInv,
           NEW k \in Keys, NEW v \in Vals, ~Found(k),
           NEW STATE ks, NEW STATE vs, NEW STATE hs,
           size' \in Nat, size' >= size, n < size',
           ks \in [0 .. size' - 1 -> Keys \cup {NULL}],
           vs \in [0 .. size' - 1 -> Vals],
           hs \in [0 .. size' - 1 -> Nat],
           \A i \in Slots : ks[i] = key[i] /\ hs[i] = hash[i],
           \A i \in 0 .. size' - 1 : i \notin Slots => ks[i] = NULL,
           Store(ks, vs, hs, k, v)
    PROVE  DictInv'
  <1>1. PICK i \in 0 .. size' - 1, name \in {k, NULL}, copy \in Vals :
            /\ ks[i] = NULL
            /\ key' = [ks EXCEPT ![i] = name]
            /\ val' = [vs EXCEPT ![i] = copy]
            /\ hash' = [hs EXCEPT ![i] = Hash(k)]
            /\ n' = n + 1
            /\ uncopied' = IF name = NULL THEN uncopied + 1 ELSE uncopied
    BY ValsAssumption DEF Store, FirstEmpty, CountUp, xstrdup
  <1>t. size \in Nat \ {0} /\ n \in 0 .. size
    BY DEF DictInv, TypeOK
  <1>s. Slots' = 0 .. size' - 1
    BY DEF Slots
  <1>2. Slots \subseteq Slots' /\ Slots' = 0 .. size' - 1
    <2>1. 0 .. size - 1 \subseteq 0 .. size' - 1
      BY <1>t, IntervalGrows
    <2> QED BY <2>1, <1>s DEF Slots
  <1>3. TypeOK'
    <2>1. size' \in Nat \ {0} /\ n' \in 0 .. size'
      BY <1>1, <1>t
    <2>2. key' \in [Slots' -> Keys \cup {NULL}]
      BY <1>1, <1>s
    <2>3. val' \in [Slots' -> Vals]
      BY <1>1, <1>s
    <2>4. hash' \in [Slots' -> Nat]
      BY <1>1, <1>s, HashAssumption
    <2>5. uncopied' \in Nat
      BY <1>1 DEF DictInv, TypeOK
    <2> QED BY <2>1, <2>2, <2>3, <2>4, <2>5 DEF TypeOK
  <1>4. \A j \in Slots : key[j] # k
    <2> SUFFICES ASSUME NEW j \in Slots, key[j] = k PROVE FALSE
      OBVIOUS
    <2>1. hash[j] = Hash(k)
      BY KeysAssumption DEF DictInv, HashesFit
    <2> QED BY <2>1, KeysAssumption DEF Found, Matches
  <1>5. KeysUnique'
    <2> SUFFICES ASSUME NEW a \in Slots', NEW b \in Slots',
                        key'[a] # NULL, key'[a] = key'[b]
                 PROVE  a = b
      BY DEF KeysUnique
    <2>1. \A c \in Slots' : c # i => key'[c] = ks[c]
      BY <1>1, <1>s
    <2>2. key'[i] \in {k, NULL}
      BY <1>1
    <2>3. \A c \in Slots' : ks[c] # NULL => c \in Slots /\ key[c] = ks[c] /\ ks[c] # k
      BY <1>4, <1>s
    <2> QED BY <2>1, <2>2, <2>3 DEF KeysUnique, DictInv
  <1>6. HashesFit'
    BY <1>1, <1>2 DEF HashesFit, DictInv
  <1>7. CASE name = k
    <2>1. Used' = Used \cup {i} /\ i \notin Used /\ uncopied' = uncopied
      BY <1>1, <1>2, <1>7, KeysAssumption DEF Used
    <2>2. Cardinality(Used') = Cardinality(Used) + 1 /\ Cardinality(Used) \in Nat
      BY <2>1, UsedFinite, FS_AddElement DEF DictInv
    <2>3. CountExact'
      BY <1>1, <1>t, <2>1, <2>2 DEF CountExact, DictInv, TypeOK
    <2> QED BY <1>3, <1>5, <1>6, <2>3 DEF DictInv
  <1>8. CASE name = NULL
    <2>1. Used' = Used /\ uncopied' = uncopied + 1
      BY <1>1, <1>2, <1>8 DEF Used
    <2>2. Cardinality(Used) \in Nat
      BY UsedFinite DEF DictInv
    <2>3. CountExact'
      BY <1>1, <1>t, <2>1, <2>2 DEF CountExact, DictInv, TypeOK
    <2> QED BY <1>3, <1>5, <1>6, <2>3 DEF DictInv
  <1> QED BY <1>1, <1>7, <1>8

\* Larger copies hold what the arrays held, and nothing else.
LEMMA GrownArrays ==
    ASSUME DictInv
    PROVE  /\ Grown(key, NULL) \in [0 .. 2 * size - 1 -> Keys \cup {NULL}]
           /\ Grown(val, NULL) \in [0 .. 2 * size - 1 -> Vals]
           /\ Grown(hash, 0) \in [0 .. 2 * size - 1 -> Nat]
           /\ \A i \in Slots : /\ Grown(key, NULL)[i] = key[i]
                               /\ Grown(val, NULL)[i] = val[i]
                               /\ Grown(hash, 0)[i] = hash[i]
           /\ \A i \in 0 .. 2 * size - 1 : i \notin Slots => Grown(key, NULL)[i] = NULL
  BY ValsAssumption DEF Grown, DictInv, TypeOK, Slots

\* Adding a key keeps the invariant, with and without growth.
LEMMA AddKeepsInv ==
    ASSUME DictInv, NEW k \in Keys, NEW v \in Vals, ~Found(k),
           Add(k, v) \/ AddGrown(k, v)
    PROVE  DictInv'
  <1>1. CASE Add(k, v)
    <2>1. size' = size /\ n < size /\ size \in Nat
      BY <1>1 DEF Add, DictInv, TypeOK
    <2>2. Store(key, val, hash, k, v)
      BY <1>1 DEF Add
    <2> QED BY <2>1, <2>2, StoreKeepsInv DEF DictInv, TypeOK, Slots
  <1>2. CASE AddGrown(k, v)
    <2>1. size' = 2 * size /\ n < size' /\ size' \in Nat /\ size' >= size
      BY <1>2 DEF AddGrown, DictInv, TypeOK
    <2>2. Store(Grown(key, NULL), Grown(val, NULL), Grown(hash, 0), k, v)
      BY <1>2 DEF AddGrown
    <2> QED BY <2>1, <2>2, StoreKeepsInv, GrownArrays
  <1> QED BY <1>1, <1>2

\* Replacing a value keeps the invariant.
LEMMA ReplaceKeepsInv ==
    ASSUME DictInv, NEW k \in Keys, NEW v \in Vals, Replace(k, v)
    PROVE  DictInv'
  <1>1. TypeOK'
    BY ValsAssumption DEF Replace, First, xstrdup, DictInv, TypeOK, Slots
  <1>2. Used' = Used /\ n' = n /\ uncopied' = uncopied
    BY DEF Replace, Used, Slots
  <1>3. KeysUnique' /\ HashesFit'
    BY DEF Replace, KeysUnique, HashesFit, DictInv, Slots
  <1> QED BY <1>1, <1>2, <1>3 DEF DictInv, CountExact

\* Clearing a slot in use and counting it out keeps the invariant.
LEMMA UnsetKeepsInv ==
    ASSUME DictInv, NEW k \in Keys, dictionary_unset(k)
    PROVE  DictInv'
  <1>1. CASE UNCHANGED vars
    BY <1>1 DEF vars, DictInv, TypeOK, CountExact, KeysUnique, HashesFit, Used, Slots
  <1>2. ASSUME NEW i \in First(k),
               key' = [key EXCEPT ![i] = NULL],
               val' = [val EXCEPT ![i] = NULL],
               hash' = [hash EXCEPT ![i] = 0],
               n' = n - 1, size' = size, uncopied' = uncopied
        PROVE  DictInv'
    <2>1. i \in Slots /\ key[i] # NULL /\ Slots' = Slots
      BY <1>2 DEF First, Matches, Slots
    <2>2. i \in Used /\ Used' = Used \ {i}
      BY <1>2, <2>1 DEF Used, DictInv, TypeOK
    <2>3. CountExact' /\ n' \in 0 .. size
      <3>1. Cardinality(Used \ {i}) = Cardinality(Used) - 1
        BY <2>2, UsedFinite, FS_RemoveElement DEF DictInv
      <3>2. Cardinality(Used') \in Nat /\ Cardinality(Used') = Cardinality(Used) - 1
        BY <2>2, <3>1, UsedFinite, FS_RemoveElement, FS_CardinalityType DEF DictInv
      <3>3. n = Cardinality(Used) + uncopied /\ uncopied \in Nat /\ n \in 0 .. size
        BY DEF CountExact, DictInv, TypeOK
      <3>4. PICK u \in Nat : u = Cardinality(Used')
        BY <3>2
      <3>5. PICK m \in Nat : m = Cardinality(Used)
        BY UsedFinite DEF DictInv
      <3>6. n' = u + uncopied /\ n' \in 0 .. size
        BY <1>2, <3>2, <3>3, <3>4, <3>5 DEF DictInv, TypeOK
      <3> QED BY <1>2, <3>4, <3>6 DEF CountExact
    <2>4. TypeOK'
      BY <1>2, <2>1, <2>3, ValsAssumption DEF DictInv, TypeOK
    <2>5. KeysUnique' /\ HashesFit'
      BY <1>2, <2>1 DEF KeysUnique, HashesFit, DictInv, TypeOK
    <2> QED BY <2>3, <2>4, <2>5 DEF DictInv
  <1> QED BY <1>1, <1>2 DEF dictionary_unset

\* Every call keeps the invariant.
LEMMA DictNext == DictInv /\ [Next]_vars => DictInv'
  <1> SUFFICES ASSUME DictInv, [Next]_vars PROVE DictInv'
    OBVIOUS
  <1>1. CASE UNCHANGED vars
    BY <1>1 DEF vars, DictInv, TypeOK, CountExact, KeysUnique, HashesFit, Used, Slots
  <1>2. ASSUME NEW k \in Keys, dictionary_unset(k)
        PROVE  DictInv'
    BY <1>2, UnsetKeepsInv
  <1>3. ASSUME NEW k \in Keys, NEW v \in Vals, dictionary_set(k, v)
        PROVE  DictInv'
    BY <1>1, <1>3, ReplaceKeepsInv, AddKeepsInv DEF dictionary_set, AddFailed
  <1> QED BY <1>1, <1>2, <1>3 DEF Next

\* The arrays of dictionary.c keep their shape, n counts the keys stored in them
\* and those that could not be copied, no key is stored twice and every key has
\* its own hash beside it.
THEOREM DictInvariant == Spec => []DictInv
  BY DictInit, DictNext, PTL DEF Spec

\* d->n is the number of keys stored and of keys that could not be copied,
\* whatever was set, removed and grown.
THEOREM CountIsExact == Spec => []CountExact
  <1>1. DictInv => CountExact
    BY DEF DictInv
  <1> QED BY <1>1, DictInvariant, PTL

\* dictionary_set always finds an empty slot, even when n counts keys that are
\* not there: its search loop ends.
THEOREM InsertEnds == Spec => []InsertTerminates
  <1>1. DictInv => InsertTerminates
    <2> SUFFICES ASSUME DictInv, n < size, \A i \in Slots : key[i] # NULL
                 PROVE  FALSE
      BY DEF InsertTerminates
    <2>1. Used = 0 .. size - 1
      BY DEF Used, Slots
    <2>2. Cardinality(0 .. size - 1) = size
      BY FS_Interval DEF DictInv, TypeOK
    <2> QED BY <2>1, <2>2, UsedFinite DEF DictInv, CountExact, TypeOK
  <1> QED BY <1>1, DictInvariant, PTL

\* dictionary_set never stores a key a second time.
THEOREM NoKeyTwice == Spec => []KeysUnique
  <1>1. DictInv => KeysUnique
    BY DEF DictInv
  <1> QED BY <1>1, DictInvariant, PTL

-------------------------------------------------------------------------------
(* The dictionary implements a map.                                          *)

StoredFound == \A i \in Slots : key[i] # NULL => dictionary_get(key[i]) = val[i]
MissingAbsent ==
    \A k \in Keys : (\A i \in Slots : key[i] # k) => dictionary_get(k) = Absent

\* dictionary_get finds the value beside the key, wherever it is stored.
LEMMA GetStored == DictInv => StoredFound
  <1> SUFFICES ASSUME DictInv, NEW i \in Slots, key[i] # NULL
               PROVE  dictionary_get(key[i]) = val[i]
    BY DEF StoredFound
  <1>1. Matches(i, key[i])
    BY DEF Matches, DictInv, HashesFit
  <1>2. \A j \in Slots : Matches(j, key[i]) => j = i
    BY DEF Matches, DictInv, KeysUnique
  <1>3. \A j \in 0 .. i - 1 : j \in Slots /\ j # i
    BY DEF Slots, DictInv, TypeOK
  <1>4. First(key[i]) = {i}
    BY <1>1, <1>2, <1>3 DEF First
  <1>5. (CHOOSE j \in First(key[i]) : TRUE) = i
    BY <1>4
  <1>6. Found(key[i])
    BY <1>1 DEF Found
  <1> QED BY <1>5, <1>6 DEF dictionary_get

\* dictionary_get finds no key that is not stored.
LEMMA GetMissing == MissingAbsent
  BY DEF MissingAbsent, dictionary_get, Found, Matches

\* The two facts about dictionary_get hold after a call as well.
LEMMA GetAfter == (DictInv' => StoredFound') /\ MissingAbsent'
  BY GetStored, GetMissing, PTL

\* What a call does to the arrays, it does to the map: if a key keeps its value
\* or its absence in the arrays, dictionary_get gives the same answer for it.
LEMMA GetKept ==
    ASSUME DictInv, DictInv', NEW k \in Keys,
           \/ \E i \in Slots, j \in Slots' : key[i] = k /\ key'[j] = k /\ val'[j] = val[i]
           \/ (\A i \in Slots : key[i] # k) /\ (\A j \in Slots' : key'[j] # k)
    PROVE  dictionary_get(k)' = dictionary_get(k)
  BY GetStored, GetMissing, GetAfter, KeysAssumption DEF StoredFound, MissingAbsent

\* A call that changes the answer for one key only changes the map at that key.
LEMMA OneKeyChanges ==
    ASSUME NEW k \in Keys, NEW v,
           dictionary_get(k)' = v,
           \A c \in Keys \ {k} : dictionary_get(c)' = dictionary_get(c)
    PROVE  [c \in Keys |-> dictionary_get(c)]'
              = [[c \in Keys |-> dictionary_get(c)] EXCEPT ![k] = v]
  OBVIOUS

\* Replacing a value is Set, of NULL when the value cannot be copied.
LEMMA ReplaceMaps ==
    ASSUME DictInv, DictInv', NEW k \in Keys, NEW v \in Vals, Replace(k, v)
    PROVE  Contents!Set(k, v) \/ Contents!Set(k, NULL)
  <1>1. PICK i \in First(k), w \in {v, NULL} : val' = [val EXCEPT ![i] = w]
    BY DEF Replace, xstrdup
  <1>2. i \in Slots /\ key[i] = k /\ Slots' = Slots /\ key' = key
    BY DEF Replace, First, Matches, Slots
  <1>3. dictionary_get(k)' = w
    BY <1>1, <1>2, GetAfter, KeysAssumption DEF StoredFound, DictInv, TypeOK
  <1>4. ASSUME NEW c \in Keys \ {k}
        PROVE  dictionary_get(c)' = dictionary_get(c)
    <2>1. CASE \A j \in Slots : key[j] # c
      BY <1>2, <2>1, GetKept
    <2>2. CASE \E j \in Slots : key[j] = c
      <3>1. PICK j \in Slots : key[j] = c
        BY <2>2
      <3>2. val'[j] = val[j]
        BY <1>1, <1>2, <3>1 DEF DictInv, TypeOK
      <3> QED BY <1>2, <3>1, <3>2, GetKept
    <2> QED BY <2>1, <2>2
  <1>5. Contents!Set(k, w)
    BY <1>3, <1>4, OneKeyChanges DEF Contents!Set
  <1> QED BY <1>1, <1>5

\* Storing a key in an empty slot, of the arrays or of larger copies, is Set; a
\* key that cannot be copied leaves the map as it is.
LEMMA StoreMaps ==
    ASSUME DictInv, DictInv', NEW k \in Keys, NEW v \in Vals, ~Found(k),
           NEW STATE ks, NEW STATE vs, NEW STATE hs,
           Slots \subseteq 0 .. size' - 1,
           ks \in [0 .. size' - 1 -> Keys \cup {NULL}],
           vs \in [0 .. size' - 1 -> Vals],
           \A j \in Slots : ks[j] = key[j] /\ vs[j] = val[j],
           \A j \in 0 .. size' - 1 : j \notin Slots => ks[j] = NULL,
           Store(ks, vs, hs, k, v)
    PROVE  \/ Contents!Set(k, v) \/ Contents!Set(k, NULL)
           \/ UNCHANGED [c \in Keys |-> dictionary_get(c)]
  <1>1. PICK i \in 0 .. size' - 1, name \in {k, NULL}, w \in {v, NULL} :
            /\ ks[i] = NULL
            /\ key' = [ks EXCEPT ![i] = name]
            /\ val' = [vs EXCEPT ![i] = w]
    BY DEF Store, FirstEmpty, xstrdup
  <1>2. Slots' = 0 .. size' - 1
    BY DEF Slots
  <1>3. key'[i] = name /\ val'[i] = w
    BY <1>1
  <1>5. ASSUME NEW c \in Keys \ {k}
        PROVE  dictionary_get(c)' = dictionary_get(c)
    <2>1. CASE \A j \in Slots : key[j] # c
      <3>1. \A j \in Slots' : key'[j] # c
        BY <1>1, <1>2, <2>1, KeysAssumption
      <3> QED BY <2>1, <3>1, GetKept
    <2>2. CASE \E j \in Slots : key[j] = c
      <3>1. PICK j \in Slots : key[j] = c
        BY <2>2
      <3>2. j # i /\ j \in Slots'
        BY <1>1, <1>2, <3>1, KeysAssumption
      <3>3. key'[j] = c /\ val'[j] = val[j]
        BY <1>1, <1>2, <3>1, <3>2
      <3> QED BY <3>1, <3>2, <3>3, GetKept
    <2> QED BY <2>1, <2>2
  <1>6. CASE name = k
    <2>1. dictionary_get(k)' = w
      BY <1>2, <1>3, <1>6, GetAfter, KeysAssumption DEF StoredFound
    <2>2. Contents!Set(k, w)
      BY <1>5, <2>1, OneKeyChanges DEF Contents!Set
    <2> QED BY <1>1, <2>2
  <1>7. CASE name = NULL
    <2>1. \A j \in Slots : key[j] # k
      <3> SUFFICES ASSUME NEW j \in Slots, key[j] = k PROVE FALSE
        OBVIOUS
      <3>1. hash[j] = Hash(k)
        BY KeysAssumption DEF DictInv, HashesFit
      <3> QED BY <3>1, KeysAssumption DEF Found, Matches
    <2>2. \A j \in Slots' : key'[j] # k
      BY <1>1, <1>2, <1>7, <2>1, KeysAssumption
    <2>3. dictionary_get(k)' = dictionary_get(k)
      BY <2>1, <2>2, GetKept
    <2>4. \A c \in Keys : dictionary_get(c)' = dictionary_get(c)
      BY <1>5, <2>3
    <2> QED BY <2>4
  <1> QED BY <1>1, <1>6, <1>7

\* Clearing the slot of a key is Unset.
LEMMA UnsetMaps ==
    ASSUME DictInv, DictInv', NEW k \in Keys, NEW i \in First(k),
           key' = [key EXCEPT ![i] = NULL],
           val' = [val EXCEPT ![i] = NULL],
           size' = size
    PROVE  Contents!Unset(k)
  <1>1. i \in Slots /\ key[i] = k /\ Slots' = Slots
    BY DEF First, Matches, Slots
  <1>2. \A j \in Slots : key'[j] = (IF j = i THEN NULL ELSE key[j])
                         /\ val'[j] = (IF j = i THEN NULL ELSE val[j])
    BY <1>1 DEF DictInv, TypeOK
  <1>3. \A j \in Slots' : key'[j] # k
    BY <1>1, <1>2, KeysAssumption DEF DictInv, KeysUnique
  <1>4. dictionary_get(k)' = Absent
    BY <1>3, GetAfter DEF MissingAbsent
  <1>5. ASSUME NEW c \in Keys \ {k}
        PROVE  dictionary_get(c)' = dictionary_get(c)
    <2>1. CASE \A j \in Slots : key[j] # c
      <3>1. \A j \in Slots' : key'[j] # c
        BY <1>1, <1>2, <2>1, KeysAssumption
      <3> QED BY <2>1, <3>1, GetKept
    <2>2. CASE \E j \in Slots : key[j] = c
      <3>1. PICK j \in Slots : key[j] = c
        BY <2>2
      <3> QED BY <1>1, <1>2, <3>1, GetKept
    <2> QED BY <2>1, <2>2
  <1> QED BY <1>4, <1>5, OneKeyChanges DEF Contents!Unset

\* A call that leaves the arrays alone leaves the map alone.
LEMMA StutterMaps ==
    ASSUME UNCHANGED vars
    PROVE  UNCHANGED [k \in Keys |-> dictionary_get(k)]
  BY DEF vars, dictionary_get, Found, First, Matches, Slots

\* Every call is a step of the map, or leaves it alone.
LEMMA StepMaps ==
    ASSUME DictInv, DictInv', [Next]_vars
    PROVE  [Contents!Next]_[k \in Keys |-> dictionary_get(k)]
  <1>1. CASE UNCHANGED vars
    BY <1>1, StutterMaps
  <1>2. ASSUME NEW k \in Keys, NEW v \in Vals, dictionary_set(k, v), ~UNCHANGED vars
        PROVE  [Contents!Next]_[c \in Keys |-> dictionary_get(c)]
    <2>0. Contents!Set(k, v) \/ Contents!Set(k, NULL) => Contents!Next
      BY ValsAssumption DEF Contents!Next
    <2>1. CASE Replace(k, v)
      BY <2>0, <2>1, ReplaceMaps
    <2>2. CASE ~Found(k) /\ Add(k, v)
      <3>1. Store(key, val, hash, k, v) /\ size' = size
        BY <2>2 DEF Add
      <3> QED BY <2>0, <2>2, <3>1, StoreMaps DEF DictInv, TypeOK, Slots
    <2>3. CASE ~Found(k) /\ AddGrown(k, v)
      <3>1. /\ Store(Grown(key, NULL), Grown(val, NULL), Grown(hash, 0), k, v)
            /\ size' = 2 * size
        BY <2>3 DEF AddGrown
      <3>2. Slots \subseteq 0 .. size' - 1
        BY <3>1, IntervalGrows DEF Slots, DictInv, TypeOK
      <3> QED BY <2>0, <2>3, <3>1, <3>2, StoreMaps, GrownArrays
    <2> QED BY <1>2, <2>1, <2>2, <2>3 DEF dictionary_set, AddFailed
  <1>3. ASSUME NEW k \in Keys, dictionary_unset(k), ~UNCHANGED vars
        PROVE  Contents!Unset(k)
    BY <1>3, UnsetMaps DEF dictionary_unset
  <1> QED BY <1>1, <1>2, <1>3 DEF Next, Contents!Next

\* dictionary.c implements a map, for every set of keys and every hash function:
\* setting or removing a key never changes the answer for another key, also when
\* memory runs out.
THEOREM ImplementsMap == Spec => ImplementsKeyMap
  <1>1. Init => Contents!Init
    <2> SUFFICES ASSUME Init PROVE \A k \in Keys : dictionary_get(k) = Absent
      BY DEF Contents!Init
    <2>1. \A i \in Slots : key[i] = NULL
      BY DEF Init, Slots
    <2> QED BY <2>1, GetMissing, KeysAssumption DEF MissingAbsent
  <1>2. DictInv /\ DictInv' /\ [Next]_vars
           => [Contents!Next]_[k \in Keys |-> dictionary_get(k)]
    BY StepMaps
  <1> QED BY <1>1, <1>2, DictInvariant, PTL DEF Spec, ImplementsKeyMap, Contents!Spec
===============================================================================
