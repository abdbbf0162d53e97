------------------------- MODULE DictionaryConstants -------------------------
(* The parameters of Dictionary and what is assumed of them.                 *)
EXTENDS Integers, Pointers

CONSTANTS
    Keys, Vals,     \* Vals holds NULL too: a key may be stored without a value
    Absent,         \* what dictionary_get returns for a key it does not find
    Hash(_),        \* dictionary_hash, which may collide
    DictMinSz,      \* DICTMINSZ
    MaxSize         \* bound: dictionary_grow runs out of memory beyond it

ASSUME KeysAssumption == NULL \notin Keys
ASSUME ValsAssumption == Absent \notin Vals /\ NULL \in Vals
ASSUME HashAssumption == \A k \in Keys : Hash(k) \in Nat
ASSUME TableAssumption == DictMinSz \in Nat \ {0} /\ MaxSize \in Nat
==============================================================================
