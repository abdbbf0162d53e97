------------------------------- MODULE MsgQueue -------------------------------
(***************************************************************************)
(* The message queue of 20180320queue/src/queue.c: a linked list of nodes, *)
(* a count and a limit under one lock and one condition variable.          *)
(* QUEUE_INIT allocates one node, q->node, that a push into a queue        *)
(* without a front uses again.  malloc leaves the next field of a node     *)
(* uninitialised.  The field rear is written and never read: left out.     *)
(***************************************************************************)
EXTENDS Pointers, Integers, Sequences, FiniteSets

CONSTANTS
    Items,                  \* the strings that are pushed
    Producers, Consumers,   \* threads
    Addrs,                  \* addresses malloc can return
    node,                   \* q->node
    Size,                   \* qc->size
    Wild                    \* what an uninitialised pointer may hold, if not NULL

ASSUME SizeAssumption == Size \in Nat \ {0}
ASSUME AddrsAssumption ==
    /\ IsFiniteSet(Addrs) /\ Cardinality(Addrs) > Size
    /\ node \in Addrs /\ NULL \notin Addrs /\ Wild \notin Addrs
ASSUME ThreadsAssumption == IsFiniteSet(Producers) /\ IsFiniteSet(Consumers)

VARIABLES
    front, backrear, count,     \* the fields of msgqueue_t
    next, data,                 \* the fields of the nodes
    alive,                      \* the nodes allocated
    ppc, cpc,                   \* where producers and consumers are
    out,                        \* the last string a QUEUE_POP returned
    fault                       \* freed memory or a wild pointer was used

queue == <<front, backrear, count, next, data, alive>>
vars == <<queue, ppc, cpc, out, fault>>

Garbage == {NULL, Wild}

\* QUEUE_INIT
Init ==
    /\ front = NULL /\ backrear = NULL /\ count = 0
    /\ \E g \in Garbage : next = [a \in Addrs |-> IF a = node THEN g ELSE NULL]
    /\ data = [a \in Addrs |-> NULL]
    /\ alive = {node}
    /\ ppc = [p \in Producers |-> "idle"]
    /\ cpc = [c \in Consumers |-> "idle"]
    /\ out = <<>>
    /\ fault = FALSE

\* Undefined from here on: nothing more is said of this run.
Undefined == fault' = TRUE /\ UNCHANGED <<queue, ppc, cpc, out>>

-------------------------------------------------------------------------------
(* QUEUE_PUSH, under the lock                                              *)

\* Fault: only the push that finds the queue empty signals.
SignalWhenEmpty == IF count = 0 THEN "signal" ELSE "idle"

AfterPush == "signal"

Pushed(p) == ppc' = [ppc EXCEPT ![p] = AfterPush] /\ UNCHANGED <<cpc, out, fault>>

\* The first string goes to q->node.
PushFirst(p, item) ==
    /\ front = NULL /\ node \in alive
    /\ data' = [data EXCEPT ![node] = item]
    /\ front' = node /\ backrear' = node
    /\ count' = count + 1
    /\ Pushed(p) /\ UNCHANGED <<next, alive>>

\* A new node behind the last one, when live is what is allocated.
Link(live, item) ==
    \E a \in Addrs \ live, g \in Garbage :
        /\ alive' = live \cup {a}
        /\ next' = [next EXCEPT ![backrear] = a, ![a] = g]
        /\ data' = [data EXCEPT ![a] = item]
        /\ backrear' = a

PushMore(p, item) ==
    /\ front # NULL /\ count < Size /\ backrear \in alive
    /\ Link(alive, item)
    /\ count' = count + 1
    /\ Pushed(p) /\ UNCHANGED front

\* count-- for the old string, count++ for the new one.
CountFull == count

\* Fault: the node stays at the front.
FrontStays == front

AfterFront == next[front]

\* The queue is full: the node at the front is freed.
PushFull(p, item) ==
    /\ front \in alive /\ count >= Size /\ backrear \in alive \ {front}
    /\ front' = AfterFront
    /\ Link(alive \ {front}, item)
    /\ count' = CountFull
    /\ Pushed(p)

\* The nodes a push reads or writes, and what it frees before it writes the last one.
Touched ==
    CASE front = NULL -> {node}
      [] front # NULL /\ count < Size -> {backrear}
      [] OTHER -> {front, backrear}

FreedFirst == front # NULL /\ count >= Size /\ front = backrear

PushUndefined ==
    /\ ~(Touched \subseteq alive) \/ FreedFirst
    /\ Undefined

QUEUE_PUSH(p, item) ==
    /\ ~fault /\ ppc[p] = "idle"
    /\ \/ PushFirst(p, item) \/ PushMore(p, item) \/ PushFull(p, item)
       \/ PushUndefined

\* pthread_cond_signal, after the lock was released.
Waiting == {c \in Consumers : cpc[c] = "wait"}

PushSignal(p) ==
    /\ ~fault /\ ppc[p] = "signal"
    /\ ppc' = [ppc EXCEPT ![p] = "idle"]
    /\ \/ Waiting = {} /\ UNCHANGED cpc
       \/ \E c \in Waiting : cpc' = [cpc EXCEPT ![c] = "woken"]
    /\ UNCHANGED <<queue, out, fault>>

-------------------------------------------------------------------------------
(* QUEUE_POP                                                               *)

PopWait(c) ==
    /\ count = 0
    /\ cpc' = [cpc EXCEPT ![c] = "wait"]
    /\ UNCHANGED <<queue, ppc, out, fault>>

\* The code's test for a front is not repeated: ChainSound says that there is an
\* allocated one whenever count is positive.
PopFront(c) ==
    /\ count > 0 /\ front \in alive
    /\ out' = <<data[front]>>
    /\ front' = AfterFront
    /\ alive' = alive \ {front}
    /\ count' = count - 1
    /\ cpc' = [cpc EXCEPT ![c] = "idle"]
    /\ UNCHANGED <<backrear, next, data, ppc, fault>>

QUEUE_POP(c) ==
    /\ ~fault /\ cpc[c] \in {"idle", "woken"}
    /\ PopWait(c) \/ PopFront(c)

\* pthread_cond_wait may return without a signal.
SpuriousWakeup(c) ==
    /\ ~fault /\ cpc[c] = "wait"
    /\ cpc' = [cpc EXCEPT ![c] = "woken"]
    /\ UNCHANGED <<queue, ppc, out, fault>>

Next ==
    \/ \E p \in Producers : PushSignal(p) \/ \E item \in Items : QUEUE_PUSH(p, item)
    \/ \E c \in Consumers : QUEUE_POP(c) \/ SpuriousWakeup(c)

Spec == Init /\ [][Next]_vars

-------------------------------------------------------------------------------

\* Every variable has its type and the count stays within the limit.
TypeOK ==
    /\ front \in Addrs \cup Garbage
    /\ backrear \in Addrs \cup {NULL}
    /\ count \in 0 .. Size
    /\ next \in [Addrs -> Addrs \cup Garbage]
    /\ data \in [Addrs -> Items \cup {NULL}]
    /\ alive \subseteq Addrs
    /\ ppc \in [Producers -> {"idle", "signal"}]
    /\ cpc \in [Consumers -> {"idle", "wait", "woken"}]
    /\ fault \in BOOLEAN

\* The nodes of the list, as many as count says.
Chain ==
    LET walk[i \in 1 .. count] == IF i = 1 THEN front ELSE next[walk[i - 1]]
    IN walk

\* The count stays within its limit and the list can be followed from front to
\* backrear through allocated nodes, each visited once, although the last next
\* field is never initialised.
ChainSound ==
    /\ TypeOK
    /\ \A i \in 1 .. count : Chain[i] \in alive
    /\ \A i, j \in 1 .. count : Chain[i] = Chain[j] => i = j
    /\ count > 0 => Chain[count] = backrear

Fifo == INSTANCE ByteFifo WITH
            Bytes <- Items, MaxBlock <- 1, Capacity <- Size, out <- out,
            contents <- [i \in 1 .. count |-> data[Chain[i]]]

\* Strings come out in the order they went in, and a push into a full queue
\* "will cover the data at the front": exactly the oldest string.
ImplementsFifo == Fifo!Spec

\* No consumer sleeps beside a string: whenever consumers wait, as many wakeups are
\* on their way as there are strings for them.
NoStrandedConsumer ==
    Waiting # {} =>
        count <= Cardinality({p \in Producers : ppc[p] = "signal"})
                 + Cardinality({c \in Consumers : cpc[c] = "woken"})

\* "You can put the string to the queue, and read it in another thread": no call
\* ever uses a node that was freed.
NoFreedNodeUsed == ~fault
===============================================================================
