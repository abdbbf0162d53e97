-------------------------------- MODULE KeyMap --------------------------------
(***************************************************************************)
(* What a dictionary promises its caller: a map from keys to values.  A    *)
(* key may be present with the value NULL (the section names of an ini     *)
(* file are).  Adding a key may fail and then changes nothing; a value     *)
(* that cannot be copied is stored as NULL.                                *)
(***************************************************************************)
CONSTANTS Keys, Vals, Absent

VARIABLE map    \* the value of every key, Absent when it has none

Init == map = [k \in Keys |-> Absent]

Set(k, v) == map' = [map EXCEPT ![k] = v]

Unset(k) == map' = [map EXCEPT ![k] = Absent]

Next == \E k \in Keys : Unset(k) \/ \E v \in Vals : Set(k, v)

Spec == Init /\ [][Next]_map
===============================================================================
