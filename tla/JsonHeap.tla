------------------------------ MODULE JsonHeap ------------------------------
(***************************************************************************)
(* The memory of 20170801/cjson.c: cJSON structures and strings on a heap  *)
(* where any single allocation may fail, and the functions of the library  *)
(* that build, link, copy, compare and free them, as operators on a        *)
(* memory.  A memory is a record                                           *)
(*   items  - the cJSON structures, by address; type "free" when unallocated *)
(*   strs   - the heap strings, by address; Free when unallocated          *)
(*   left   - the left-th allocation from now fails (0: none need)         *)
(*   failed - an allocation has failed, for that or for want of room       *)
(*   bad    - freed or used memory it must not (free of a constant, double *)
(*            free, use after free, strcmp with NULL)                      *)
(* Address 0 is NULL and address -n is the string literal n.               *)
(***************************************************************************)
EXTENDS Integers, Sequences, FiniteSets, SequencesExt, FiniteSetsExt

CONSTANTS MaxItems,  \* cJSON structures the heap can hold
          MaxStrs    \* strings the heap can hold

Free == 0
Null == 0

(* Names and string values: 1 is "a", 2 is "A", 3 is "\n".                 *)
Name == 1..3
tolower(n) == IF n = 2 THEN 1 ELSE n

Containers == {"Array", "Object"}
Texts      == {"String", "Raw"}
Scalars    == {"NULL", "False", "True", "Number"}

(* A zeroed structure; ref and cst are the flags cJSON_IsReference and     *)
(* cJSON_StringIsConst of the type word.                                   *)
Node(t) == [type |-> t, ref |-> FALSE, cst |-> FALSE, next |-> Null, prev |-> Null,
            child |-> Null, value |-> Null, string |-> Null, num |-> 0]
FreeNode == Node("free")

NewMem(left) == [items |-> [i \in 1..MaxItems |-> FreeNode],
                 strs  |-> [s \in 1..MaxStrs |-> Free],
                 left  |-> left, failed |-> FALSE, bad |-> FALSE]

Live(m)     == {i \in 1..MaxItems : m.items[i].type # "free"}
LiveStrs(m) == {s \in 1..MaxStrs : m.strs[s] # Free}
Text(m, p)  == IF p < 0 THEN -p ELSE m.strs[p]

(* Every call of hooks->allocate: one allocation fewer before the failure. *)
Fails(m, freeSlots) == m.left = 1 \/ freeSlots = {}
Counted(m) == [m EXCEPT !.left = IF @ = 0 THEN 0 ELSE @ - 1]
Refused(m) == [Counted(m) EXCEPT !.failed = TRUE]

(* Result of a call: the memory it leaves and the pointer it returns.      *)
Ret(m, p) == [m |-> m, p |-> p]

cJSON_New_Item(m) ==
    LET slots == (1..MaxItems) \ Live(m) IN
    IF Fails(m, slots) THEN Ret(Refused(m), Null)
    ELSE Ret([Counted(m) EXCEPT !.items[Min(slots)] = Node("Invalid")], Min(slots))

cJSON_strdup(m, p) ==
    LET slots == (1..MaxStrs) \ LiveStrs(m) IN
    IF p = Null THEN Ret(m, Null)
    ELSE IF Fails(m, slots) THEN Ret(Refused(m), Null)
    ELSE Ret([Counted(m) EXCEPT !.strs[Min(slots)] = Text(m, p)], Min(slots))

deallocate(m, p) ==
    IF p \in LiveStrs(m) THEN [m EXCEPT !.strs[p] = Free] ELSE [m EXCEPT !.bad = TRUE]

(***************************************************************************)
(* cJSON_Delete frees the item, its siblings after it, and what they own:  *)
(* a reference owns neither its children nor its value, an item with a     *)
(* constant name does not own the name.                                    *)
(***************************************************************************)
OwnsContents(n) == ~n.ref

\* Fault: a constant name is freed like any other.
OwnsNameAlways(n) == n.string # Null

OwnsName(n) == ~n.cst /\ n.string # Null

RECURSIVE cJSON_Delete(_, _)
cJSON_Delete(m, i) ==
    IF i = Null THEN m
    ELSE IF i \notin Live(m) THEN [m EXCEPT !.bad = TRUE]
    ELSE LET n  == m.items[i]
             m1 == IF OwnsContents(n) /\ n.child # Null THEN cJSON_Delete(m, n.child) ELSE m
             m2 == IF OwnsContents(n) /\ n.value # Null THEN deallocate(m1, n.value) ELSE m1
             m3 == IF OwnsName(n) THEN deallocate(m2, n.string) ELSE m2
         IN  cJSON_Delete([m3 EXCEPT !.items[i] = FreeNode], n.next)

-----------------------------------------------------------------------------
(* Walks.  The addresses along the next pointers from i.                   *)
RECURSIVE Chain(_, _, _)
Chain(m, i, fuel) ==
    IF i = Null \/ fuel = 0 THEN <<>> ELSE <<i>> \o Chain(m, m.items[i].next, fuel - 1)

(* The predicates on the type of an item, NULL being of none.              *)
cJSON_Is(m, i, t) == i # Null /\ m.items[i].type = t

ChildrenOf(m, i) == Chain(m, m.items[i].child, MaxItems)

cJSON_GetArraySize(m, array) == Len(ChildrenOf(m, array))

get_array_item(m, array, index) ==
    LET c == ChildrenOf(m, array) IN IF index < Len(c) THEN c[index + 1] ELSE Null

case_insensitive_strcmp(m, p, q) ==
    p # Null /\ q # Null /\ tolower(Text(m, p)) = tolower(Text(m, q))

(* The first child of that name; the case sensitive walk hands the NULL    *)
(* name of a nameless child to strcmp when it comes before a match.        *)
get_object_item(m, object, name, case_sensitive) ==
    LET c == ChildrenOf(m, object)
        Same(i) == IF case_sensitive
                   THEN m.items[i].string = Null \/ Text(m, m.items[i].string) = Text(m, name)
                   ELSE case_insensitive_strcmp(m, name, m.items[i].string)
        hits == {k \in 1..Len(c) : Same(c[k])}
    IN  IF hits = {} \/ name = Null THEN Ret(m, Null)
        ELSE LET i == c[Min(hits)] IN
             IF case_sensitive /\ m.items[i].string = Null
             THEN Ret([m EXCEPT !.bad = TRUE], Null) ELSE Ret(m, i)

-----------------------------------------------------------------------------
(* Creation: an item and, for text, its own copy of the string; an array   *)
(* of numbers or strings.  On failure everything made so far is deleted.   *)

CreateItem(m, t) ==
    LET r == cJSON_New_Item(m) IN
    IF r.p = Null THEN r ELSE Ret([r.m EXCEPT !.items[r.p].type = t], r.p)

CreateText(m, t, p) ==
    LET r == CreateItem(m, t)
        s == cJSON_strdup(r.m, p)
    IN  IF r.p = Null THEN r
        ELSE IF s.p = Null THEN Ret(cJSON_Delete(s.m, r.p), Null)
        ELSE Ret([s.m EXCEPT !.items[r.p].value = s.p], r.p)

CreateElement(m, t) == IF t = "String" THEN CreateText(m, t, -1) ELSE CreateItem(m, t)

suffix_object(m, prev, item) ==
    [m EXCEPT !.items[prev].next = item, !.items[item].prev = prev]

RECURSIVE FillArray(_, _, _, _, _)
FillArray(m, a, p, t, count) ==
    LET n == CreateElement(m, t) IN
    IF a = Null \/ count = 0 THEN Ret(m, a)
    ELSE IF n.p = Null THEN Ret(cJSON_Delete(n.m, a), Null)
    ELSE FillArray(IF p = Null THEN [n.m EXCEPT !.items[a].child = n.p]
                   ELSE suffix_object(n.m, p, n.p), a, n.p, t, count - 1)

CreateFilledArray(m, t, count) ==
    LET a == CreateItem(m, "Array") IN FillArray(a.m, a.p, Null, t, count)

-----------------------------------------------------------------------------
(* Linking and unlinking                                                   *)

create_reference(m, item) ==
    LET r == cJSON_New_Item(m) IN
    IF item = Null THEN Ret(m, Null)
    ELSE IF r.p = Null THEN r
    ELSE Ret([r.m EXCEPT !.items[r.p] = [m.items[item] EXCEPT
                !.string = Null, !.ref = TRUE, !.next = Null, !.prev = Null]], r.p)

AddToList(m, array, item) ==
    LET c == ChildrenOf(m, array) IN
    IF item = Null THEN m
    ELSE IF c = <<>> THEN [m EXCEPT !.items[array].child = item]
    ELSE suffix_object(m, Last(c), item)

NameFreed(m, item) ==
    LET n == m.items[item] IN IF OwnsName(n) THEN deallocate(m, n.string) ELSE m

AddToObjectCS(m, object, name, item) ==
    LET m1 == NameFreed(m, item)
    IN  IF item = Null \/ name = Null THEN m
        ELSE AddToList([m1 EXCEPT !.items[item].string = name, !.items[item].cst = TRUE],
                       object, item)

(* The flag is cleared whether or not the copy of the name was made.       *)
AddToObject(m, object, name, item) ==
    LET s == cJSON_strdup(m, name) IN
    IF item = Null THEN m
    ELSE [AddToObjectCS(s.m, object, s.p, item) EXCEPT !.items[item].cst = FALSE]

Unlink(m, parent, item) ==
    LET n  == m.items[item]
        m1 == IF n.prev # Null THEN [m EXCEPT !.items[n.prev].next = n.next] ELSE m
        m2 == IF n.next # Null THEN [m1 EXCEPT !.items[n.next].prev = n.prev] ELSE m1
        m3 == IF item = m.items[parent].child
              THEN [m2 EXCEPT !.items[parent].child = n.next] ELSE m2
    IN  IF item = Null THEN Ret(m, Null)
        ELSE Ret([m3 EXCEPT !.items[item].prev = Null, !.items[item].next = Null], item)

InsertInArray(m, array, which, newitem) ==
    LET after == get_array_item(m, array, which)
        prev  == m.items[after].prev
        m1 == [m EXCEPT !.items[newitem].next = after, !.items[newitem].prev = prev,
                        !.items[after].prev = newitem]
    IN  IF after = Null THEN AddToList(m, array, newitem)
        ELSE IF after = m.items[array].child THEN [m1 EXCEPT !.items[array].child = newitem]
        ELSE [m1 EXCEPT !.items[prev].next = newitem]

ReplaceViaPointer(m, parent, item, replacement) ==
    LET n  == m.items[item]
        m1 == [m EXCEPT !.items[replacement].next = n.next, !.items[replacement].prev = n.prev]
        m2 == IF n.next # Null THEN [m1 EXCEPT !.items[n.next].prev = replacement] ELSE m1
        m3 == IF n.prev # Null THEN [m2 EXCEPT !.items[n.prev].next = replacement] ELSE m2
        m4 == IF item = m.items[parent].child
              THEN [m3 EXCEPT !.items[parent].child = replacement] ELSE m3
    IN  IF item = Null \/ replacement = item THEN m
        ELSE cJSON_Delete([m4 EXCEPT !.items[item].next = Null, !.items[item].prev = Null], item)

(* The replacement takes the name before the old item is looked for, and   *)
(* whatever becomes of the copy of the name.                               *)
replace_item_in_object(m, object, name, replacement, case_sensitive) ==
    LET m1 == NameFreed(m, replacement)
        s  == cJSON_strdup(m1, name)
        m2 == [s.m EXCEPT !.items[replacement].string = s.p, !.items[replacement].cst = FALSE]
        g  == get_object_item(m2, object, name, case_sensitive)
    IN  ReplaceViaPointer(g.m, object, g.p, replacement)

-----------------------------------------------------------------------------
(* Copying and comparing                                                   *)

CopyOf(n) == [Node(n.type) EXCEPT !.cst = n.cst, !.num = n.num]

RECURSIVE cJSON_Duplicate(_, _, _)
RECURSIVE DuplicateChain(_, _, _, _)
(* The children from child on are copied behind last, in copy.             *)
DuplicateChain(m, child, copy, last) ==
    LET d == cJSON_Duplicate(m, child, TRUE) IN
    IF child = Null THEN Ret(m, copy)
    ELSE IF d.p = Null THEN Ret(cJSON_Delete(d.m, copy), Null)
    ELSE DuplicateChain(IF last # Null THEN suffix_object(d.m, last, d.p)
                        ELSE [d.m EXCEPT !.items[copy].child = d.p],
                        m.items[child].next, copy, d.p)

cJSON_Duplicate(m, item, recurse) ==
    LET n == m.items[item]
        r == cJSON_New_Item(m)
        m1 == [r.m EXCEPT !.items[r.p] = CopyOf(n)]
        v == cJSON_strdup(m1, n.value)
        m2 == [v.m EXCEPT !.items[r.p].value = v.p]
        s == IF n.cst THEN Ret(m2, n.string) ELSE cJSON_strdup(m2, n.string)
        m3 == [s.m EXCEPT !.items[r.p].string = s.p]
    IN  IF item = Null THEN Ret(m, Null)
        ELSE IF r.p = Null THEN r
        ELSE IF n.value # Null /\ v.p = Null THEN Ret(cJSON_Delete(m2, r.p), Null)
        ELSE IF n.string # Null /\ s.p = Null THEN Ret(cJSON_Delete(m3, r.p), Null)
        ELSE IF ~recurse THEN Ret(m3, r.p)
        ELSE DuplicateChain(m3, n.child, r.p, Null)

RECURSIVE cJSON_Compare(_, _, _, _)

(* Every member of a is equal to the member of b of its name.              *)
MembersIn(m, a, b, cs) ==
    \A i \in Range(ChildrenOf(m, a)) :
        LET j == get_object_item(m, b, m.items[i].string, cs).p IN
        j # Null /\ cJSON_Compare(m, i, j, cs)

SameMembers(m, a, b, cs) == MembersIn(m, a, b, cs) /\ MembersIn(m, b, a, cs)

cJSON_Compare(m, a, b, cs) ==
    LET x == m.items[a]
        y == m.items[b]
        p == ChildrenOf(m, a)
        q == ChildrenOf(m, b)
    IN  /\ a # Null /\ b # Null /\ x.type = y.type /\ ~cJSON_Is(m, a, "Invalid")
        /\ x.type \in Scalars \cup Texts \cup Containers
        /\ \/ a = b
           \/ x.type \in {"NULL", "False", "True"}
           \/ x.type = "Number" /\ x.num = y.num
           \/ /\ x.type \in Texts /\ x.value # Null /\ y.value # Null
              /\ Text(m, x.value) = Text(m, y.value)
           \/ /\ x.type = "Array" /\ Len(p) = Len(q)
              /\ \A k \in 1..Len(p) : cJSON_Compare(m, p[k], q[k], cs)
           \/ x.type = "Object" /\ SameMembers(m, a, b, cs)
=============================================================================
