------------------------------ MODULE EventTimer ------------------------------
(***************************************************************************)
(* The event timers of auto_imi_db_bin/src/miio_timer.c: a linked list of  *)
(* nodes, each with a POSIX timer.  Calls come from one thread; time       *)
(* passes between them.  Time is counted in half seconds, because the code *)
(* looks at whole seconds only.                                            *)
(***************************************************************************)
EXTENDS Integers, FiniteSets

CONSTANTS
    TimerIds,   \* values of event_timer_e
    Nodes,      \* addresses malloc can return
    head,       \* the head node of the list
    NULL,
    MaxSec      \* bound: the longest period, in seconds

ASSUME NodesAssumption == IsFiniteSet(Nodes) /\ head \notin Nodes /\ NULL \notin Nodes
ASSUME IdsAssumption == NULL \notin TimerIds
ASSUME TimersAssumption == NULL \notin [left : Nat, interval : Nat]
ASSUME SecAssumption == MaxSec \in Nat \ {0}

VARIABLES
    next,       \* the next field of every node
    id,         \* evp.sigev_value.sival_int of every node
    alive,      \* the nodes allocated
    timer,      \* the kernel timer created for a node, NULL when there is none
    released    \* history: delete_all_timer has just returned 0

vars == <<next, id, alive, timer, released>>

HalfSecs == 0 .. 2 * MaxSec
KernelTimers == [left : HalfSecs, interval : HalfSecs]

\* timer_init
Init ==
    /\ next = [x \in Nodes \cup {head} |-> NULL]
    /\ id = [x \in Nodes |-> NULL]
    /\ alive = {}
    /\ timer = [x \in Nodes |-> NULL]
    /\ released = FALSE

-------------------------------------------------------------------------------
(* list_for_each                                                           *)

\* The i-th node of a walk along the list, NULL behind its end.
Walk == LET walk[i \in 0 .. Cardinality(Nodes)] ==
                IF i = 0 THEN next[head]
                ELSE IF walk[i - 1] = NULL THEN NULL ELSE next[walk[i - 1]]
        IN walk

Listed == {Walk[i] : i \in DOMAIN Walk} \ {NULL}

\* list_for_entry: the first node with this id, or NULL.
list_for_entry(t) ==
    LET hits == {i \in DOMAIN Walk : Walk[i] # NULL /\ id[Walk[i]] = t}
    IN IF hits = {} THEN NULL
       ELSE Walk[CHOOSE i \in hits : \A j \in hits : i <= j]

\* tv_sec of the time left and of the interval, both rounded down.
check_timer_status(t) ==
    LET node == list_for_entry(t)
    IN IF node = NULL \/ timer[node] = NULL THEN -1
       ELSE IF timer[node].left \div 2 = 0 /\ timer[node].interval \div 2 = 0 THEN -2
       ELSE 0

-------------------------------------------------------------------------------

Period(sec, interval) == [left |-> 2 * sec, interval |-> 2 * interval]

list_add(node) == [next EXCEPT ![node] = next[head], ![head] = node]

\* timer_create or malloc may fail; the call then changes nothing.
create_event_timer(t, loop, sec) ==
    /\ check_timer_status(t) = -1
    /\ \E node \in Nodes \ alive :
          /\ alive' = alive \cup {node}
          /\ id' = [id EXCEPT ![node] = t]
          /\ timer' = [timer EXCEPT ![node] = Period(sec, IF loop THEN sec ELSE 0)]
          /\ next' = list_add(node)
    /\ released' = FALSE

\* A single-shot timer becomes a periodic one.
refresh_event_timer(t, sec) ==
    LET node == list_for_entry(t)
    IN /\ node # NULL /\ timer[node] # NULL
       /\ timer' = [timer EXCEPT ![node] = Period(sec, sec)]
       /\ released' = FALSE
       /\ UNCHANGED <<next, id, alive>>

\* The node whose next field leads to this one.
Prev(node) == CHOOSE x \in Listed \cup {head} : next[x] = node

Unlinked(node) == [next EXCEPT ![Prev(node)] = next[node], ![node] = NULL]

\* Fault: the kernel timer survives its node.
TimerKept(node) == timer

timer_delete(node) == [timer EXCEPT ![node] = NULL]

delete_designation_timer(t) ==
    LET node == list_for_entry(t)
    IN /\ node # NULL
       /\ timer' = timer_delete(node)
       /\ next' = Unlinked(node)
       /\ alive' = alive \ {node}
       /\ id' = [id EXCEPT ![node] = NULL]
       /\ released' = FALSE

\* The loop unlinks and frees the first node and then reads its next field, which
\* it set to NULL (free does not write that far into the node): it ends there.
delete_all_timer ==
    /\ released' = TRUE
    /\ IF next[head] = NULL THEN UNCHANGED <<next, id, alive, timer>>
       ELSE /\ timer' = timer_delete(next[head])
            /\ next' = Unlinked(next[head])
            /\ alive' = alive \ {next[head]}
            /\ id' = [id EXCEPT ![next[head]] = NULL]

\* Half a second of a kernel timer: it runs down, and starts again or stops.
Elapsed(k) ==
    CASE k.left > 1 -> [k EXCEPT !.left = k.left - 1]
      [] k.left = 1 -> [k EXCEPT !.left = k.interval]
      [] k.left = 0 -> k

Tick ==
    /\ timer' = [x \in Nodes |-> IF timer[x] = NULL THEN NULL ELSE Elapsed(timer[x])]
    /\ released' = FALSE
    /\ UNCHANGED <<next, id, alive>>

Next ==
    \/ \E t \in TimerIds, sec \in 1 .. MaxSec :
          \/ \E loop \in BOOLEAN : create_event_timer(t, loop, sec)
          \/ refresh_event_timer(t, sec)
    \/ \E t \in TimerIds : delete_designation_timer(t)
    \/ delete_all_timer
    \/ Tick

Spec == Init /\ [][Next]_vars

-------------------------------------------------------------------------------

\* Fields have their types; a kernel timer never has more than a period left.
TypeOK ==
    /\ next \in [Nodes \cup {head} -> Nodes \cup {NULL}]
    /\ id \in [Nodes -> TimerIds \cup {NULL}]
    /\ alive \subseteq Nodes
    /\ timer \in [Nodes -> KernelTimers \cup {NULL}]
    /\ released \in BOOLEAN

\* The list holds exactly the nodes allocated, each once, and ends: no call leaks
\* a node, links a freed one or closes a cycle.
ListIntact == Listed = alive /\ Walk[Cardinality(Nodes)] = NULL

\* create_event_timer never makes a second timer with the same id.
OneNodePerId == \A x, y \in Listed : id[x] = id[y] => x = y

\* Every kernel timer belongs to a listed node, through which it can be deleted:
\* none goes on firing behind the list's back.
EveryTimerListed == \A x \in Nodes : timer[x] # NULL => x \in Listed

(* In every sequence of calls the list is intact, has one node per id, and *)
(* every kernel timer can be reached through it.                           *)
TimersListed == TypeOK /\ ListIntact /\ OneNodePerId /\ EveryTimerListed

\* When delete_all_timer reports "Release all timer success !" no timer is left.
AllReleased == released => \A x \in Nodes : timer[x] = NULL

\* check_timer_status returns -2, "Current timer is invalid", only for a timer
\* that will not expire any more.
InvalidMeansStopped ==
    \A t \in TimerIds :
        check_timer_status(t) = -2 => timer[list_for_entry(t)].left = 0
===============================================================================
