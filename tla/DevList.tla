------------------------------- MODULE DevList -------------------------------
(***************************************************************************)
(* 20180208/list.c: the singly linked device table, in its memory.  A node *)
(* and its copy of the device are two allocations; a record is never in    *)
(* two nodes, so that records are only counted.  list_iter and             *)
(* list_cycle keep their place in static variables, one for all lists.     *)
(* The calls are those of main.c and of any other caller of list.h, one    *)
(* after the other; a list whose nodes list_extend gave to another one is  *)
(* not used again until list_init.  Allocation does not fail.              *)
(***************************************************************************)
EXTENDS Integers, Sequences, FiniteSets, SequencesExt, FiniteSetsExt

CONSTANTS
    Lists,      \* the list_t's
    Devices,    \* the device IDs
    Nodes,      \* the addresses malloc can return for a node (bound)
    MaxCalls,   \* bound: calls
    NULL, FREE

VARIABLES
    head,       \* list -> its first node
    node,       \* node -> FREE or [data, next], data being the device ID in its record
    records,    \* how many device records are allocated
    place,      \* the statics: iter and flag of list_iter, cycle of list_cycle
    table,      \* list -> the devices that its calls should have left in it
    calls,      \* calls so far (bound)
    lost,       \* how many records the calls so far gave up without freeing them
    given,      \* the lists whose nodes belong to another one
    round,      \* the round of list_iter: its list, what is due, what came, how it goes
    bad         \* the call, and its list, that reached memory that is not the list's

vars == <<head, node, records, place, table, calls, lost, given, round, bad>>

NoRound == [list |-> NULL, due |-> {}, came |-> {}, astray |-> FALSE, moved |-> FALSE]

NoFault == [call |-> "", list |-> NULL]

Init ==
    /\ head = [l \in Lists |-> NULL]
    /\ node = [n \in Nodes |-> FREE] /\ records = 0
    /\ place = [iter |-> NULL, flag |-> FALSE, cycle |-> NULL, cycled |-> NULL]
    /\ table = [l \in Lists |-> <<>>] /\ calls = 0 /\ lost = 0 /\ given = {}
    /\ round = NoRound /\ bad = NoFault

-------------------------------------------------------------------------------
(* Memory and walks.                                                       *)

FreeNodes == {n \in Nodes : node[n] = FREE}

\* The nodes behind a pointer, the pointer included, up to the first NULL.
Walk(from) ==
    LET step[k \in 0 .. Cardinality(Nodes)] ==
            IF k = 0 THEN from
            ELSE LET n == step[k - 1]
                 IN IF n = NULL \/ node[n] = FREE THEN NULL ELSE node[n].next
        met == {k \in 0 .. Cardinality(Nodes) - 1 : step[k] # NULL}
    IN [i \in 1 .. Cardinality(met) |-> step[i - 1]]
NodesOf(l) == Walk(head[l])

list_len(l) == Len(NodesOf(l))
list_get(l, pos) == IF pos \in 0 .. list_len(l) - 1 THEN NodesOf(l)[pos + 1] ELSE NULL
FirstPos(S) == IF S = {} THEN -1 ELSE Min(S) - 1

\* data is the record in node n.
list_index(l, n) == FirstPos({i \in DOMAIN NodesOf(l) : NodesOf(l)[i] = n})

list_index_by_devID(l, d) ==
    FirstPos({i \in DOMAIN NodesOf(l) : node[NodesOf(l)[i]].data = d})

\* new_node: the node at n, with a record of the device d.
new_node(n, d) == [node EXCEPT ![n] = [data |-> d, next |-> NULL]]

\* new_node of every device of ds, at the addresses ns, each linked to the next.
Chain(ns, ds) ==
    [n \in Nodes |->
        IF n \notin ToSet(ns) THEN node[n]
        ELSE LET i == CHOOSE i \in DOMAIN ns : ns[i] = n
             IN [data |-> ds[i], next |-> IF i = Len(ns) THEN NULL ELSE ns[i + 1]]]

Usable(l) == bad = NoFault /\ l \notin given

\* A round of list_iter that a node is taken from, or that the order changes in.
RoundWithout(l, n) ==
    [round EXCEPT !.due = @ \ {n}, !.astray = @ \/ (place.flag /\ place.iter = n)]
RoundMoved == IF place.flag THEN [round EXCEPT !.moved = TRUE] ELSE round
CycleWithout(n) == [place EXCEPT !.cycled = IF place.cycle = n THEN NULL ELSE @]

-------------------------------------------------------------------------------
(* The calls.                                                              *)

list_init(l) ==
    /\ bad = NoFault /\ (l \in given \/ head[l] = NULL)
    /\ head' = [head EXCEPT ![l] = NULL]
    /\ table' = [table EXCEPT ![l] = <<>>] /\ given' = given \ {l}
    /\ UNCHANGED <<node, records, place, lost, round, bad>>

list_append(l, d) ==
    /\ Usable(l)
    /\ \E n \in FreeNodes :
          LET ns == NodesOf(l)
          IN IF ns = <<>>
             THEN head' = [head EXCEPT ![l] = n] /\ node' = new_node(n, d)
             ELSE node' = [new_node(n, d) EXCEPT ![Last(ns)].next = n] /\ UNCHANGED head
    /\ records' = records + 1
    /\ table' = [table EXCEPT ![l] = Append(@, d)]
    /\ UNCHANGED <<place, lost, given, round, bad>>

\* The last node and its record are freed.
list_pop_tail(l) ==
    /\ Usable(l) /\ head[l] # NULL
    /\ LET ns == NodesOf(l)
           n == Last(ns)
           without == [node EXCEPT ![n] = FREE]
       IN /\ records' = records - 1
          /\ IF Len(ns) = 1 THEN head' = [head EXCEPT ![l] = NULL] /\ node' = without
             ELSE node' = [without EXCEPT ![ns[Len(ns) - 1]].next = NULL] /\ UNCHANGED head
          /\ round' = RoundWithout(l, n) /\ place' = CycleWithout(n)
    /\ table' = [table EXCEPT ![l] = Front(@)]
    /\ UNCHANGED <<lost, given, bad>>

\* The first node is freed and its record is not.
PopHead(l, n) ==
    /\ head' = [head EXCEPT ![l] = node[n].next]
    /\ node' = [node EXCEPT ![n] = FREE]
    /\ lost' = lost + 1
    /\ UNCHANGED records

PopInner(l, n, before) ==
    /\ node' = [node EXCEPT ![before].next = node[n].next, ![n] = FREE]
    /\ records' = records - 1
    /\ UNCHANGED <<head, lost>>

list_pop(l, pos) ==
    /\ Usable(l) /\ pos \in 0 .. list_len(l) - 1
    /\ LET ns == NodesOf(l)
           n == ns[pos + 1]
       IN /\ IF pos = 0 THEN PopHead(l, n) ELSE PopInner(l, n, ns[pos])
          /\ round' = RoundWithout(l, n) /\ place' = CycleWithout(n)
    /\ table' = [table EXCEPT ![l] = RemoveAt(@, pos + 1)]
    /\ UNCHANGED <<given, bad>>

\* The pop of main.c: look the device up, and pop what is found (nothing at -1).
PopDevice(l, d) == list_pop(l, list_index_by_devID(l, d))

\* The caller's record takes the place of the old one, which nothing frees.
list_set(l, pos, d) ==
    /\ Usable(l) /\ pos \in 0 .. list_len(l) - 1
    /\ node' = [node EXCEPT ![NodesOf(l)[pos + 1]].data = d]
    /\ records' = records + 1 /\ lost' = lost + 1
    /\ table' = [table EXCEPT ![l][pos + 1] = d]
    /\ UNCHANGED <<head, place, given, round, bad>>

\* a takes the nodes of b; both lists now hold them.
list_extend(a, b) ==
    /\ Usable(a) /\ Usable(b) /\ a # b
    /\ IF head[a] = NULL THEN head' = [head EXCEPT ![a] = head[b]] /\ UNCHANGED node
       ELSE node' = [node EXCEPT ![Last(NodesOf(a))].next = head[b]] /\ UNCHANGED head
    /\ table' = [table EXCEPT ![a] = @ \o table[b]] /\ given' = given \cup {b}
    /\ round' = [RoundMoved EXCEPT !.list = IF @ = b THEN a ELSE @]
    /\ place' = [place EXCEPT !.cycled = IF @ = b THEN a ELSE @]
    /\ UNCHANGED <<records, lost, bad>>

\* Fault: next of b is read after next of a was set in its place.
CrossedLate(m, a, b) ==
    LET m1 == [m EXCEPT ![a].next = m[b].next]
    IN [m1 EXCEPT ![b].next = m1[a].next]

\* The last three assignments of list_swap.
Crossed(m, a, b) == [m EXCEPT ![a].next = m[b].next, ![b].next = m[a].next]

list_swap(l, i, j) ==
    /\ Usable(l) /\ i # j /\ {i, j} \subseteq 0 .. list_len(l) - 1
    /\ LET ns == NodesOf(l)
           a == ns[i + 1]
           b == ns[j + 1]
       IN \/ i = 0 /\ head' = [head EXCEPT ![l] = b]
                   /\ node' = Crossed([node EXCEPT ![ns[j]].next = a], a, b)
          \/ j = 0 /\ head' = [head EXCEPT ![l] = a]
                   /\ node' = Crossed([node EXCEPT ![ns[i]].next = b], a, b)
          \/ i > 0 /\ j > 0 /\ UNCHANGED head
             /\ node' = Crossed([node EXCEPT ![ns[i]].next = b, ![ns[j]].next = a], a, b)
    /\ table' = [table EXCEPT ![l][i + 1] = table[l][j + 1], ![l][j + 1] = table[l][i + 1]]
    /\ round' = RoundMoved
    /\ UNCHANGED <<records, place, lost, given, bad>>

list_reverse(l) ==
    /\ Usable(l)
    /\ LET ns == NodesOf(l)
       IN /\ head' = [head EXCEPT ![l] = IF ns = <<>> THEN NULL ELSE Last(ns)]
          /\ node' = [n \in Nodes |->
                        IF n \notin ToSet(ns) THEN node[n]
                        ELSE LET i == CHOOSE i \in DOMAIN ns : ns[i] = n
                             IN [node[n] EXCEPT !.next = IF i = 1 THEN NULL ELSE ns[i - 1]]]
    /\ table' = [table EXCEPT ![l] = Reverse(@)]
    /\ round' = RoundMoved
    /\ UNCHANGED <<records, place, lost, given, bad>>

\* len nodes from the array, but one at least.
list_from_array(l, ds, len) ==
    LET made == SubSeq(ds, 1, Max({1, len}))
    IN /\ Usable(l) /\ head[l] = NULL
       /\ \E ns \in Injection(DOMAIN made, FreeNodes) :
             head' = [head EXCEPT ![l] = ns[1]] /\ node' = Chain(ns, made)
       /\ records' = records + Len(made)
       /\ table' = [table EXCEPT ![l] = made]
       /\ UNCHANGED <<place, lost, given, round, bad>>

\* Fault: a new round begins behind the first node.
IterPlaceBehind(l) ==
    IF place.flag THEN place.iter ELSE IF head[l] = NULL THEN NULL ELSE node[head[l]].next

IterPlace(l) == IF place.flag THEN place.iter ELSE head[l]

CyclePlace(l) == IF place.cycle = NULL THEN head[l] ELSE place.cycle

\* p->data and get_index_by_node, which runs off the end of a list without p.
OffTheList(l, p) == p = NULL \/ p \notin ToSet(NodesOf(l))

list_iter(l) ==
    LET p == IterPlace(l)
        r == IF place.flag THEN round
             ELSE [NoRound EXCEPT !.list = l, !.due = ToSet(NodesOf(l))]
    IN /\ Usable(l)
       /\ IF p = NULL
          THEN place' = [place EXCEPT !.flag = FALSE, !.iter = NULL] /\ round' = NoRound
               /\ UNCHANGED bad
          ELSE IF OffTheList(l, p)
          THEN bad' = [call |-> "iter", list |-> l] /\ round' = r /\ UNCHANGED place
          ELSE /\ place' = [place EXCEPT !.flag = TRUE, !.iter = node[p].next]
               /\ round' = [r EXCEPT !.came = @ \cup {p}, !.moved = @ \/ r.list # l]
               /\ UNCHANGED bad
       /\ UNCHANGED <<head, node, records, table, lost, given>>

list_cycle(l) ==
    LET p == CyclePlace(l)
    IN /\ Usable(l)
       /\ IF OffTheList(l, p) THEN bad' = [call |-> "cycle", list |-> l] /\ UNCHANGED place
          ELSE place' = [place EXCEPT !.cycle = node[p].next, !.cycled = l] /\ UNCHANGED bad
       /\ UNCHANGED <<head, node, records, table, lost, given, round>>

Arrays == Devices \X Devices

Next ==
    /\ calls < MaxCalls /\ calls' = calls + 1
    /\ \E l \in Lists :
        \/ list_init(l) \/ list_pop_tail(l) \/ list_reverse(l) \/ list_iter(l) \/ list_cycle(l)
        \/ \E d \in Devices : list_append(l, d) \/ PopDevice(l, d)
        \/ \E pos \in 0 .. Cardinality(Nodes) - 1 :
              list_pop(l, pos) \/ \E d \in Devices : list_set(l, pos, d)
        \/ \E i, j \in 0 .. Cardinality(Nodes) - 1 : list_swap(l, i, j)
        \/ \E m \in Lists : list_extend(l, m)
        \/ \E ds \in Arrays, len \in 0 .. 2 : list_from_array(l, ds, len)

-------------------------------------------------------------------------------
TypeOK ==
    /\ head \in [Lists -> Nodes \cup {NULL}]
    /\ node \in [Nodes -> {FREE} \cup [data : Devices, next : Nodes \cup {NULL}]]
    /\ records \in Nat /\ lost \in 0 .. calls /\ calls <= MaxCalls
    /\ given \subseteq Lists /\ bad.call \in {"", "iter", "cycle"}

(* After every sequence of calls a list holds the devices that the calls   *)
(* should have left in it, in order, in nodes and records of its own that  *)
(* are not freed, and list_get and the look-ups find them there.           *)
ListIsTable ==
    /\ \A l \in Lists \ given :
          /\ \A n \in ToSet(NodesOf(l)) : node[n] # FREE
          /\ [i \in DOMAIN NodesOf(l) |-> node[NodesOf(l)[i]].data] = table[l]
          /\ \A d \in Devices : list_index_by_devID(l, d) = FirstPos({i \in DOMAIN table[l] :
                                                                        table[l][i] = d})
          /\ \A i \in DOMAIN table[l] : list_index(l, list_get(l, i - 1)) = i - 1
    /\ \A l, m \in Lists \ given : l # m => ToSet(NodesOf(l)) \cap ToSet(NodesOf(m)) = {}

\* What a list still holds.
Held == UNION {ToSet(NodesOf(l)) : l \in Lists \ given}

(* Memory is given up in two places only, the pop of a first node and      *)
(* list_set, one record each time; every other node and record is in a     *)
(* list or free.                                                           *)
LeaksExact ==
    /\ Nodes \ FreeNodes = Held
    /\ records = Cardinality(Held) + lost

(* A round of list_iter that ends without the node at its place having     *)
(* been removed, and without a change of the order or of the list, has     *)
(* shown every node that was there from its start to its end.              *)
RoundComplete ==
    [][round.list # NULL /\ round' = NoRound /\ ~round.astray /\ ~round.moved
         => round.due \subseteq round.came]_vars

(* A call reaches memory that is not the list's only if the node at the    *)
(* static place was removed or is another list's, or if list_cycle meets   *)
(* an empty list.                                                          *)
FaultsNamed ==
    /\ bad.call = "iter" => round.astray \/ round.list # bad.list
    /\ bad.call = "cycle" =>
           place.cycled # bad.list \/ (place.cycle = NULL /\ head[bad.list] = NULL)
=============================================================================
