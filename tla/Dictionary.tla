------------------------------ MODULE Dictionary ------------------------------
(***************************************************************************)
(* The dictionary of auto_imi_db_bin/src/dictionary.c: three parallel      *)
(* arrays that double when they are full.  A new key goes to the first     *)
(* empty slot from slot n on, wrapping at the end; removed keys leave      *)
(* holes.  Keys are compared by hash first and by string only then.        *)
(***************************************************************************)
EXTENDS DictionaryConstants, FiniteSets

VARIABLES n, size, key, val, hash,
          uncopied  \* history: keys counted although xstrdup found no memory

vars == <<n, size, key, val, hash, uncopied>>

Slots == 0 .. size - 1

\* dictionary_new: calloc clears the arrays.
Init ==
    /\ n = 0
    /\ size = DictMinSz
    /\ key = [i \in Slots |-> NULL]
    /\ val = [i \in Slots |-> NULL]
    /\ hash = [i \in Slots |-> 0]
    /\ uncopied = 0

\* xstrdup returns a copy, or NULL when it was given NULL or malloc fails.
xstrdup(s) == {s, NULL}

\* Fault: only the hashes are compared.
MatchesByHash(i, k) == key[i] # NULL /\ hash[i] = Hash(k)

Matches(i, k) == key[i] # NULL /\ hash[i] = Hash(k) /\ key[i] = k

\* The slots the loops of dictionary_get, _set and _unset stop at: the first match.
First(k) == {i \in Slots : Matches(i, k) /\ \A j \in 0 .. i - 1 : ~Matches(j, k)}

\* Fault: the search ends at n, as if there were no holes.
FoundBelowCount(k) == \E i \in 0 .. n - 1 : Matches(i, k)

Found(k) == \E i \in Slots : Matches(i, k)

dictionary_get(k) == IF Found(k) THEN val[CHOOSE i \in First(k) : TRUE] ELSE Absent

\* The key is there: replace its value.
Replace(k, v) ==
    /\ \E i \in First(k), copy \in xstrdup(v) : val' = [val EXCEPT ![i] = copy]
    /\ UNCHANGED <<n, size, key, hash, uncopied>>

\* dictionary_grow copies the arrays into larger ones.
Grown(array, empty) ==
    [i \in 0 .. 2 * size - 1 |-> IF i < size THEN array[i] ELSE empty]

\* Slot i is where the search that starts at n and wraps at the end stops.
FirstEmpty(k, i) ==
    /\ k[i] = NULL
    /\ IF i >= n THEN \A j \in n .. i - 1 : k[j] # NULL
                 ELSE \A j \in (n .. size' - 1) \cup (0 .. i - 1) : k[j] # NULL

\* Fault: a key added to a full dictionary is not counted.
CountUpLate == IF n = size THEN n ELSE n + 1

CountUp == n + 1

\* The key is counted whether or not it could be copied; without a copy the
\* slot stays empty.
Store(ks, vs, hs, k, v) ==
    \E i \in 0 .. size' - 1, name \in xstrdup(k), copy \in xstrdup(v) :
        /\ FirstEmpty(ks, i)
        /\ key' = [ks EXCEPT ![i] = name]
        /\ val' = [vs EXCEPT ![i] = copy]
        /\ hash' = [hs EXCEPT ![i] = Hash(k)]
        /\ n' = CountUp
        /\ uncopied' = IF name = NULL THEN uncopied + 1 ELSE uncopied

Add(k, v) ==
    /\ n # size
    /\ UNCHANGED size
    /\ Store(key, val, hash, k, v)

AddGrown(k, v) ==
    /\ n = size /\ 2 * size <= MaxSize
    /\ size' = 2 * size
    /\ Store(Grown(key, NULL), Grown(val, NULL), Grown(hash, 0), k, v)

\* dictionary_grow finds no memory: the dictionary stays as it is.
AddFailed == n = size /\ UNCHANGED vars

dictionary_set(k, v) ==
    \/ Found(k) /\ Replace(k, v)
    \/ ~Found(k) /\ (Add(k, v) \/ AddGrown(k, v) \/ AddFailed)

dictionary_unset(k) ==
    \/ /\ \E i \in First(k) :
            /\ key' = [key EXCEPT ![i] = NULL]
            /\ val' = [val EXCEPT ![i] = NULL]
            /\ hash' = [hash EXCEPT ![i] = 0]
       /\ n' = n - 1
       /\ UNCHANGED <<size, uncopied>>
    \/ ~Found(k) /\ UNCHANGED vars

Next == \E k \in Keys : dictionary_unset(k) \/ \E v \in Vals : dictionary_set(k, v)

Spec == Init /\ [][Next]_vars

-------------------------------------------------------------------------------

Used == {i \in Slots : key[i] # NULL}

\* The three arrays have size slots and the count is a slot number or size.
TypeOK ==
    /\ size \in Nat \ {0} /\ n \in 0 .. size
    /\ key \in [Slots -> Keys \cup {NULL}]
    /\ val \in [Slots -> Vals]
    /\ hash \in [Slots -> Nat]
    /\ uncopied \in Nat

\* n is the number of keys stored plus the number of keys that were counted but
\* could not be copied, holes and growth notwithstanding.
CountExact == n = Cardinality(Used) + uncopied

\* The search of dictionary_set for an empty slot terminates, even when n counts
\* keys that are not there: "Because d->n < d->size this will necessarily
\* terminate".
InsertTerminates == n < size => \E i \in Slots : key[i] = NULL

\* No key is stored twice, so the first match of a search is the only one and
\* removing a key removes it.
KeysUnique == \A i, j \in Slots : key[i] # NULL /\ key[i] = key[j] => i = j

\* Every used slot carries the hash of its key, or searches would miss it.
HashesFit == \A i \in Slots : key[i] # NULL => hash[i] = Hash(key[i])

\* The inductive invariant behind the properties of the dictionary.
DictInv == TypeOK /\ CountExact /\ KeysUnique /\ HashesFit

Contents == INSTANCE KeyMap WITH map <- [k \in Keys |-> dictionary_get(k)]

\* Seen through dictionary_get every call does what it does to a map, or nothing
\* when memory runs out: setting or removing a key never changes or loses
\* another one.
ImplementsKeyMap == Contents!Spec
===============================================================================
