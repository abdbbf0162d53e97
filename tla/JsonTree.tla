------------------------------ MODULE JsonTree ------------------------------
(***************************************************************************)
(* A client of 20170801/cjson.c that builds, edits, copies and deletes     *)
(* trees through the public functions, while any allocation may fail.  The *)
(* client keeps the rules of cjson.h: it gives away only trees it holds,   *)
(* adds references to an existing tree to another one, keeps what a        *)
(* reference shares alive, and reaches objects by name and arrays by       *)
(* index.                                                                  *)
(***************************************************************************)
EXTENDS JsonHeap

CONSTANTS Kinds,     \* the types of item the client creates
          Names,     \* the names it gives them
          MaxCalls   \* calls it makes

VARIABLES
    mem,        \* the heap
    held,       \* the roots the client holds a pointer to and must delete
    missed,     \* a replacement named an item that is not there
    ret,        \* what the last call did: "made" or "null" for a constructor
    calls       \* calls so far

treeVars == <<mem, held, missed, ret, calls>>

Init ==
    /\ mem = NewMem(0)
    /\ held = {}
    /\ missed = FALSE
    /\ ret = "other" /\ calls = 0

-----------------------------------------------------------------------------
(* What the client knows of its trees                                      *)

(* The items below i, not through references, i included.                  *)
RECURSIVE Below(_, _)
Below(m, i) ==
    {i} \cup IF m.items[i].ref THEN {}
             ELSE UNION {Below(m, c) : c \in Range(ChildrenOf(m, i))}

Owned(i) == Below(mem, i)
Mine     == UNION {Owned(i) : i \in held}
Arrays   == {i \in Mine : cJSON_Is(mem, i, "Array") /\ ~mem.items[i].ref}
Objects  == {i \in Mine : cJSON_Is(mem, i, "Object") /\ ~mem.items[i].ref}

(* A live reference elsewhere shares memory of the tree at i.              *)
Shared(i) ==
    \E r \in Live(mem) \ Owned(i), o \in Owned(i) :
        /\ mem.items[r].ref
        /\ \/ mem.items[r].child # Null /\ mem.items[r].child \in Owned(i)
           \/ mem.items[r].value # Null /\ mem.items[r].value = mem.items[o].value

(* The memory of a call whose k-th allocation fails (k = 0: none), one     *)
(* such failure in a behaviour.                                            *)
Budget == IF mem.failed THEN {0} ELSE 0..3
Before(k) == [mem EXCEPT !.left = k]

(* A call ends: its memory, the allocation that failed if one did.         *)
Done(m, k, result) ==
    /\ mem' = [m EXCEPT !.left = 0]
    /\ k > 0 => m.left = 0
    /\ ret' = result
    /\ calls' = calls + 1

Obtain(r, k) ==
    /\ Done(r.m, k, "other")
    /\ held' = held \cup ({r.p} \ {Null})
    /\ UNCHANGED missed

Make(r, k) ==
    /\ Done(r.m, k, IF r.p = Null THEN "null" ELSE "made")
    /\ held' = held \cup ({r.p} \ {Null})
    /\ UNCHANGED missed

(* The client gives x away.                                                *)
Give(m, k, x) ==
    /\ Done(m, k, "other")
    /\ held' = held \ {x}

-----------------------------------------------------------------------------
(* Creation                                                                *)

cJSON_CreateItem(t) ==
    \E k \in Budget : Make(CreateItem(Before(k), t), k)

cJSON_CreateText(t, n) ==
    \E k \in Budget : Make(CreateText(Before(k), t, -n), k)

cJSON_CreateArrayOf(t, count) ==
    \E k \in Budget : Make(CreateFilledArray(Before(k), t, count), k)

cJSON_Duplicate_(i, recurse) ==
    \E k \in Budget : Make(cJSON_Duplicate(Before(k), i, recurse), k)

(* Adding                                                                  *)

cJSON_AddItemToArray(array, x) ==
    /\ array \notin Owned(x)
    /\ Give(AddToList(mem, array, x), 0, x)
    /\ UNCHANGED missed

cJSON_AddItemToObject(object, n, x) ==
    /\ object \notin Owned(x)
    /\ \E k \in Budget : Give(AddToObject(Before(k), object, -n, x), k, x)
    /\ UNCHANGED missed

cJSON_AddItemToObjectCS(object, n, x) ==
    /\ object \notin Owned(x)
    /\ Give(AddToObjectCS(mem, object, -n, x), 0, x)
    /\ UNCHANGED missed

(* "add an existing cJSON to a new cJSON": two different trees.            *)
Separate(container, x) ==
    \E h \in held : x \in Owned(h) /\ container \notin Owned(h)

cJSON_AddItemReferenceToArray(array, x) ==
    /\ Separate(array, x)
    /\ \E k \in Budget :
         LET r == create_reference(Before(k), x) IN
         Done(AddToList(r.m, array, r.p), k, "other")
    /\ UNCHANGED <<held, missed>>

cJSON_AddItemReferenceToObject(object, n, x) ==
    /\ Separate(object, x)
    /\ \E k \in Budget :
         LET r == create_reference(Before(k), x) IN
         Done(AddToObject(r.m, object, -n, r.p), k, "other")
    /\ UNCHANGED <<held, missed>>

(* Detaching, deleting, inserting, replacing                               *)

cJSON_DetachItemFromArray(array, which) ==
    Obtain(Unlink(mem, array, get_array_item(mem, array, which)), 0)

cJSON_DetachItemFromObject(object, n, cs) ==
    LET g == get_object_item(mem, object, -n, cs) IN
    Obtain(Unlink(g.m, object, g.p), 0)

cJSON_DeleteItemFromArray(array, which) ==
    LET u == Unlink(mem, array, get_array_item(mem, array, which)) IN
    /\ u.p # Null => ~Shared(u.p)
    /\ Done(cJSON_Delete(u.m, u.p), 0, "other")
    /\ UNCHANGED <<held, missed>>

cJSON_DeleteItemFromObject(object, n, cs) ==
    LET g == get_object_item(mem, object, -n, cs)
        u == Unlink(g.m, object, g.p)
    IN  /\ u.p # Null => ~Shared(u.p)
        /\ Done(cJSON_Delete(u.m, u.p), 0, "other")
        /\ UNCHANGED <<held, missed>>

cJSON_DeleteRoot(x) ==
    /\ ~Shared(x)
    /\ Give(cJSON_Delete(mem, x), 0, x)
    /\ UNCHANGED missed

cJSON_InsertItemInArray(array, which, x) ==
    /\ array \notin Owned(x)
    /\ Give(InsertInArray(mem, array, which, x), 0, x)
    /\ UNCHANGED missed

cJSON_ReplaceItemInArray(array, which, x) ==
    LET old == get_array_item(mem, array, which) IN
    /\ array \notin Owned(x)
    /\ old # Null => ~Shared(old)
    /\ Give(ReplaceViaPointer(mem, array, old, x), 0, x)
    /\ missed' = (missed \/ old = Null)

cJSON_ReplaceItemInObject(object, n, x, cs) ==
    LET old == get_object_item(mem, object, -n, cs).p IN
    /\ object \notin Owned(x)
    /\ old # Null => ~Shared(old)
    /\ \E k \in Budget :
         Give(replace_item_in_object(Before(k), object, -n, x, cs), k, x)
    /\ missed' = (missed \/ old = Null)

-----------------------------------------------------------------------------
Next ==
    /\ calls < MaxCalls /\ ~mem.bad
    /\ \/ \E t \in Kinds \ Texts : cJSON_CreateItem(t)
       \/ \E t \in Kinds \cap Texts : cJSON_CreateText(t, 3)
       \/ \E t \in Kinds \ Containers : cJSON_CreateArrayOf(t, 2)
       \/ \E i \in Mine, recurse \in BOOLEAN : cJSON_Duplicate_(i, recurse)
       \/ \E a \in Arrays, x \in held : cJSON_AddItemToArray(a, x)
       \/ \E o \in Objects, n \in Names, x \in held :
            cJSON_AddItemToObject(o, n, x) \/ cJSON_AddItemToObjectCS(o, n, x)
       \/ \E a \in Arrays, x \in Mine : cJSON_AddItemReferenceToArray(a, x)
       \/ \E o \in Objects, n \in Names, x \in Mine : cJSON_AddItemReferenceToObject(o, n, x)
       \/ \E a \in Arrays, which \in 0..1 :
            cJSON_DetachItemFromArray(a, which) \/ cJSON_DeleteItemFromArray(a, which)
       \/ \E o \in Objects, n \in Names, cs \in BOOLEAN :
            cJSON_DetachItemFromObject(o, n, cs) \/ cJSON_DeleteItemFromObject(o, n, cs)
       \/ \E x \in held : cJSON_DeleteRoot(x)
       \/ \E a \in Arrays, which \in 0..1, x \in held :
            cJSON_InsertItemInArray(a, which, x) \/ cJSON_ReplaceItemInArray(a, which, x)
       \/ \E o \in Objects, n \in Names, x \in held, cs \in BOOLEAN :
            cJSON_ReplaceItemInObject(o, n, x, cs)

Spec == Init /\ [][Next]_treeVars

-----------------------------------------------------------------------------
(* Every call leaves the memory a heap of items and strings.               *)
TypeOK ==
    /\ \A i \in 1..MaxItems :
         /\ mem.items[i].type \in Scalars \cup Texts \cup Containers \cup {"free"}
         /\ {mem.items[i].next, mem.items[i].prev, mem.items[i].child} \subseteq 0..MaxItems
         /\ {mem.items[i].value, mem.items[i].string} \subseteq -3..MaxStrs
    /\ mem.strs \in [1..MaxStrs -> {Free} \cup Name]
    /\ mem.left = 0 /\ mem.failed \in BOOLEAN /\ mem.bad \in BOOLEAN
    /\ held \subseteq Live(mem)

(* The sibling lists that add, insert, detach, replace, reference and      *)
(* delete edit by hand stay doubly linked lists of live items: next and    *)
(* prev are each other's inverse, a parent's child is the head of a list,  *)
(* no two parents own the same list and a root is in none.                 *)
ListsSound ==
    \A i \in Live(mem) :
        LET n == mem.items[i]
            Parents == {p \in Live(mem) : mem.items[p].child = i /\ ~mem.items[p].ref}
        IN  /\ n.next # Null => n.next \in Live(mem) /\ mem.items[n.next].prev = i
            /\ n.prev # Null => n.prev \in Live(mem) /\ mem.items[n.prev].next = i
            /\ n.child # Null /\ ~n.ref =>
                 n.child \in Live(mem) /\ mem.items[n.child].prev = Null
            /\ Cardinality(Parents) <= 1
            /\ i \in held => n.next = Null /\ n.prev = Null /\ Parents = {}

(* Without a failed allocation no call frees a constant or a freed string, *)
(* touches a freed item or hands strcmp a NULL name, whatever mix of       *)
(* constant names, references and replacements the trees hold.             *)
SafeMemory == mem.bad => mem.failed

(* The strings the items own, each by one item.                            *)
StringOwners(s) ==
    {<<i, f>> \in Live(mem) \X {"value", "string"} :
        /\ mem.items[i][f] = s
        /\ IF f = "value" THEN ~mem.items[i].ref ELSE ~mem.items[i].cst}

(* Nothing is lost: every live item is in a tree the client holds and      *)
(* every live string has one owner, unless a call without a result could   *)
(* not say that it had run out of memory or found nothing to replace.      *)
Accounted ==
    ~mem.failed /\ ~missed =>
        /\ Live(mem) = Mine
        /\ \A s \in LiveStrs(mem) : Cardinality(StringOwners(s)) = 1
=============================================================================
