------------------------------ MODULE ToolsProofs ------------------------------
(***************************************************************************)
(* Proofs about the parts that MCTools runs together, the event timers,    *)
(* the NTP client and the device list, for every value of the constants:   *)
(* every set of timer ids and of addresses malloc can choose from, every   *)
(* longest period, every address space of the list.                        *)
(***************************************************************************)
EXTENDS MCTools, ProofLemmas, FiniteSetTheorems

-------------------------------------------------------------------------------
(* EventTimer: the inductive invariant.                                    *)

\* f lists the head node and the n allocated nodes along the next fields.
Follows(f, n) ==
    /\ f[0] = head
    /\ \A k \in 1 .. n : f[k] \in alive
    /\ \A x \in alive : \E k \in 1 .. n : f[k] = x
    /\ \A k \in 0 .. n - 1 : next[f[k]] = f[k + 1]
    /\ next[f[n]] = NULL
    /\ \A k, m \in 1 .. n : f[k] = f[m] => k = m

\* Exactly the allocated nodes have a kernel timer, and each an id of its own.
Timed ==
    /\ \A x \in Nodes : timer[x] # NULL <=> x \in alive
    /\ \A x \in alive : id[x] \in TimerIds
    /\ \A x, y \in alive : id[x] = id[y] => x = y

TimerInv ==
    /\ TypeOK
    /\ \E f \in [0 .. Cardinality(alive) -> Nodes \cup {head}] : Follows(f, Cardinality(alive))
    /\ Timed

-------------------------------------------------------------------------------
(* The recursive function Walk and what is found along it.                 *)

\* The recursive equation that Walk satisfies, and the function it defines.
Walks(g, first, nx, n) ==
    g = [k \in 0 .. n |->
           IF k = 0 THEN first ELSE IF g[k - 1] = NULL THEN NULL ELSE nx[g[k - 1]]]
WalkFrom(first, nx, n) == CHOOSE g : Walks(g, first, nx, n)

\* A function that satisfies the equation is the one it defines.
LEMMA WalkUnique ==
    ASSUME NEW first, NEW nx, NEW n \in Nat, NEW w, Walks(w, first, nx, n)
    PROVE  WalkFrom(first, nx, n) = w
  <1> DEFINE v == CHOOSE g : Walks(g, first, nx, n)
  <1>1. Walks(v, first, nx, n)
    BY Zenon
  <1> HIDE DEF v
  <1>2. \A k \in 0 .. n : v[k] = w[k]
    <2>1. StepwiseEqual(v, w, 0, n)
      BY <1>1 DEF StepwiseEqual, Walks
    <2>2. 0 \in Nat /\ n \in Int
      OBVIOUS
    <2> QED BY <2>1, <2>2, EqualAlong
  <1>3. v = [k \in 0 .. n |-> v[k]] /\ w = [k \in 0 .. n |-> w[k]]
    BY <1>1 DEF Walks
  <1>4. v = w
    BY <1>2, <1>3
  <1> QED BY <1>4 DEF v, WalkFrom

\* The walk along the list gives the nodes of f and then NULL.
LEMMA WalkFollows ==
    ASSUME TypeOK, NEW n \in Nat, n <= Cardinality(Nodes),
           NEW f \in [0 .. n -> Nodes \cup {head}], Follows(f, n)
    PROVE  /\ DOMAIN Walk = 0 .. Cardinality(Nodes)
           /\ \A k \in 0 .. Cardinality(Nodes) : Walk[k] = IF k < n THEN f[k + 1] ELSE NULL
  <1>0. PICK c \in Nat : c = Cardinality(Nodes)
    BY NodesAssumption, FS_CardinalityType
  <1>1. PICK w : w = [k \in 0 .. c |-> IF k < n THEN f[k + 1] ELSE NULL]
    OBVIOUS
  <1>2. \A k \in 0 .. c : w[k] = IF k < n THEN f[k + 1] ELSE NULL
    BY <1>1
  <1>3. \A k \in 1 .. n : f[k] # NULL
    BY NodesAssumption DEF Follows, TypeOK
  <1>4. ASSUME NEW k \in 0 .. c
        PROVE  w[k] = IF k = 0 THEN next[head]
                      ELSE IF w[k - 1] = NULL THEN NULL ELSE next[w[k - 1]]
    <2>1. CASE k = 0
      <3>1. n > 0 => next[head] = f[1]
        <4>1. n > 0 => 0 \in 0 .. n - 1 /\ 0 + 1 = 1
          OBVIOUS
        <4> QED BY <4>1 DEF Follows
      <3>2. n = 0 => next[head] = NULL
        BY DEF Follows
      <3> QED BY <1>2, <2>1, <3>1, <3>2
    <2>2. CASE k # 0
      <3>0. k - 1 \in 0 .. c /\ (k - 1) + 1 = k
        BY <2>2
      <3>1. w[k - 1] = IF k - 1 < n THEN f[k] ELSE NULL
        BY <1>2, <3>0
      <3>2. CASE k < n
        <4>1. k \in 0 .. n - 1 /\ k \in 1 .. n /\ k - 1 < n
          BY <2>2, <3>2
        <4>2. next[f[k]] = f[k + 1] /\ f[k] # NULL
          BY <1>3, <4>1 DEF Follows
        <4> QED BY <1>2, <2>2, <3>1, <3>2, <4>1, <4>2
      <3>3. CASE k = n
        <4>1. k \in 1 .. n /\ k - 1 < n
          BY <2>2, <3>3
        <4>2. next[f[k]] = NULL /\ f[k] # NULL
          BY <1>3, <3>3, <4>1 DEF Follows
        <4> QED BY <1>2, <2>2, <3>1, <3>3, <4>1, <4>2
      <3>4. CASE k > n
        BY <1>2, <2>2, <3>1, <3>4
      <3> QED BY <3>2, <3>3, <3>4
    <2> QED BY <2>1, <2>2
  <1>5. Walks(w, next[head], next, c)
    <2>1. w = [k \in 0 .. c |-> w[k]]
      BY <1>1
    <2> QED BY <1>4, <2>1 DEF Walks
  <1>6. WalkFrom(next[head], next, c) = w
    BY <1>5, WalkUnique
  <1>7. Walk = WalkFrom(next[head], next, Cardinality(Nodes))
    BY DEF Walk, WalkFrom, Walks
  <1>8. Walk = w
    BY <1>0, <1>6, <1>7
  <1> QED BY <1>0, <1>1, <1>2, <1>8
\* What the invariant says of the walk: it visits the allocated nodes and ends.
LEMMA ListedIsAlive ==
    ASSUME TimerInv
    PROVE  /\ Listed = alive /\ Walk[Cardinality(Nodes)] = NULL
           /\ DOMAIN Walk \in SUBSET Nat
           /\ Cardinality(alive) \in Nat /\ Cardinality(alive) <= Cardinality(Nodes)
  <1>1. /\ Cardinality(Nodes) \in Nat /\ Cardinality(alive) \in Nat
        /\ Cardinality(alive) <= Cardinality(Nodes)
    BY NodesAssumption, FS_CardinalityType, FS_Subset DEF TimerInv, TypeOK
  <1>2. PICK c \in Nat : c = Cardinality(Nodes)
    BY <1>1
  <1>3. PICK n \in Nat : n = Cardinality(alive) /\ n <= c
    BY <1>1, <1>2
  <1>4. PICK f \in [0 .. n -> Nodes \cup {head}] : Follows(f, n)
    BY <1>3 DEF TimerInv
  <1>5. /\ DOMAIN Walk = 0 .. c
        /\ \A k \in 0 .. c : Walk[k] = IF k < n THEN f[k + 1] ELSE NULL
    BY <1>2, <1>3, <1>4, WalkFollows DEF TimerInv
  <1>6. ASSUME NEW x \in Listed PROVE x \in alive
    <2>1. PICK k \in 0 .. c : x = Walk[k] /\ x # NULL
      BY <1>5 DEF Listed
    <2>2. k < n /\ x = f[k + 1] /\ k + 1 \in 1 .. n
      BY <1>5, <2>1
    <2> QED BY <1>4, <2>2 DEF Follows
  <1>7. ASSUME NEW x \in alive PROVE x \in Listed
    <2>1. PICK k \in 1 .. n : f[k] = x
      BY <1>4 DEF Follows
    <2>2. k - 1 \in 0 .. c /\ k - 1 < n /\ (k - 1) + 1 = k
      BY <1>3
    <2>3. Walk[k - 1] = x
      BY <1>5, <2>1, <2>2
    <2>4. x # NULL
      BY NodesAssumption DEF TimerInv, TypeOK
    <2> QED BY <1>5, <2>2, <2>3, <2>4 DEF Listed
  <1>8. Walk[c] = NULL
    BY <1>3, <1>5
  <1> QED BY <1>1, <1>2, <1>5, <1>6, <1>7, <1>8

\* list_for_entry finds the node with the id, if there is one.
LEMMA EntryFound ==
    ASSUME TimerInv, NEW t \in TimerIds
    PROVE  /\ list_for_entry(t) = NULL => \A x \in alive : id[x] # t
           /\ list_for_entry(t) # NULL => list_for_entry(t) \in alive
  <1>1. Listed = alive /\ DOMAIN Walk \in SUBSET Nat
    BY ListedIsAlive
  <1> DEFINE hits == {k \in DOMAIN Walk : Walk[k] # NULL /\ id[Walk[k]] = t}
  <1>2. list_for_entry(t) = IF hits = {} THEN NULL
                            ELSE Walk[CHOOSE k \in hits : \A m \in hits : k <= m]
    BY DEF list_for_entry
  <1>3. \A k \in hits : Walk[k] \in alive
    BY <1>1 DEF Listed
  <1>4. hits = {} => \A x \in alive : id[x] # t
    BY <1>1 DEF Listed
  <1>5. hits # {} => (CHOOSE k \in hits : \A m \in hits : k <= m) \in hits
    <2>1. hits \in SUBSET Nat
      BY <1>1
    <2> HIDE DEF hits
    <2>2. hits # {} => \E k \in hits : \A m \in hits : k <= m
      BY <2>1, LeastNatural
    <2> QED BY <2>2, Zenon
  <1>6. hits # {} => list_for_entry(t) \in alive
    BY <1>2, <1>3, <1>5
  <1>7. hits # {} => list_for_entry(t) # NULL
    BY <1>6, NodesAssumption DEF TimerInv, TypeOK
  <1> QED BY <1>2, <1>4, <1>6, <1>7
-------------------------------------------------------------------------------
(* The invariant holds.                                                    *)

\* timer_init: an empty list.
LEMMA TimerInit ==
    ASSUME Init
    PROVE  TimerInv
  <1>1. TypeOK
    BY DEF Init, TypeOK
  <1>2. Timed
    BY DEF Init, Timed
  <1>3. Cardinality(alive) = 0
    BY FS_EmptySet DEF Init
  <1>4. \E f \in [0 .. 0 -> Nodes \cup {head}] : Follows(f, 0)
    <2> DEFINE g == [k \in 0 .. 0 |-> head]
    <2>1. g \in [0 .. 0 -> Nodes \cup {head}] /\ g[0] = head
      OBVIOUS
    <2> HIDE DEF g
    <2>2. Follows(g, 0)
      BY <2>1 DEF Init, Follows
    <2> QED BY <2>1, <2>2
  <1> QED BY <1>1, <1>2, <1>3, <1>4 DEF TimerInv

\* The kernel timers have their type.
LEMMA PeriodType ==
    ASSUME NEW sec \in 1 .. MaxSec, NEW interval \in {0, sec}
    PROVE  Period(sec, interval) \in KernelTimers /\ Period(sec, interval) # NULL
  <1>1. /\ 2 * sec \in HalfSecs /\ 2 * interval \in HalfSecs
        /\ 2 * sec \in Nat /\ 2 * interval \in Nat
    BY SecAssumption DEF HalfSecs
  <1> QED BY <1>1, TimersAssumption DEF Period, KernelTimers

\* A node is linked behind the head node.
LEMMA CreateKeeps ==
    ASSUME TimerInv, NEW t \in TimerIds, NEW loop \in BOOLEAN, NEW sec \in 1 .. MaxSec,
           create_event_timer(t, loop, sec)
    PROVE  TimerInv'
  <1>t. TypeOK /\ Timed
    BY DEF TimerInv
  <1>1. PICK node \in Nodes \ alive :
          /\ alive' = alive \cup {node} /\ id' = [id EXCEPT ![node] = t]
          /\ timer' = [timer EXCEPT ![node] = Period(sec, IF loop THEN sec ELSE 0)]
          /\ next' = [next EXCEPT ![node] = next[head], ![head] = node]
          /\ released' = FALSE
    BY DEF create_event_timer, list_add
  <1>2. \A x \in alive : id[x] # t
    <2>1. list_for_entry(t) = NULL \/ timer[list_for_entry(t)] = NULL
      BY DEF create_event_timer, check_timer_status
    <2>2. list_for_entry(t) # NULL => list_for_entry(t) \in alive
      BY EntryFound
    <2>3. \A x \in alive : timer[x] # NULL
      BY <1>t DEF Timed, TypeOK
    <2>4. list_for_entry(t) = NULL
      BY <2>1, <2>2, <2>3
    <2> QED BY <2>4, EntryFound
  <1>3. PICK k : k = Period(sec, IF loop THEN sec ELSE 0) /\ k \in KernelTimers /\ k # NULL
    <2>1. (IF loop THEN sec ELSE 0) \in {0, sec}
      OBVIOUS
    <2> QED BY <2>1, PeriodType
  <1>4. timer' = [timer EXCEPT ![node] = k]
    BY <1>1, <1>3
  <1>5. TypeOK'
    BY <1>1, <1>3, <1>4, <1>t DEF TypeOK
  <1>6. Timed'
    <2>1. /\ timer'[node] = k /\ id'[node] = t
          /\ \A x \in Nodes : x # node => timer'[x] = timer[x] /\ id'[x] = id[x]
      BY <1>1, <1>4, <1>t DEF TypeOK
    <2>2. \A x \in Nodes : timer'[x] # NULL <=> x \in alive'
      BY <1>1, <1>3, <1>t, <2>1 DEF Timed
    <2>3. \A x \in alive' : x \in Nodes /\ (x = node \/ x \in alive)
      BY <1>1, <1>t DEF TypeOK
    <2>4. \A x \in alive' : id'[x] \in TimerIds
      BY <1>t, <2>1, <2>3 DEF Timed
    <2>5. \A x, y \in alive' : id'[x] = id'[y] => x = y
      BY <1>2, <1>t, <2>1, <2>3 DEF Timed
    <2> QED BY <2>2, <2>4, <2>5 DEF Timed
  <1>7. PICK n \in Nat : n = Cardinality(alive) /\ Cardinality(alive') = n + 1
    <2>1. IsFiniteSet(alive)
      BY <1>t, NodesAssumption, FS_Subset DEF TypeOK
    <2> QED BY <1>1, <2>1, FS_CardinalityType, FS_AddElement
  <1>8. PICK f \in [0 .. n -> Nodes \cup {head}] : Follows(f, n)
    BY <1>7 DEF TimerInv
  <1>9. PICK g \in [0 .. n + 1 -> Nodes \cup {head}] :
               g = [m \in 0 .. n + 1 |-> IF m = 0 THEN head ELSE IF m = 1 THEN node ELSE f[m - 1]]
    <2>1. \A m \in 0 .. n + 1 :
             (IF m = 0 THEN head ELSE IF m = 1 THEN node ELSE f[m - 1]) \in Nodes \cup {head}
      <3>1. \A m \in 0 .. n + 1 : m # 0 => m - 1 \in 0 .. n
        OBVIOUS
      <3> QED BY <3>1
    <2>2. [m \in 0 .. n + 1 |-> IF m = 0 THEN head ELSE IF m = 1 THEN node ELSE f[m - 1]]
             \in [0 .. n + 1 -> Nodes \cup {head}]
      BY <2>1
    <2> QED BY <2>2, Zenon
  <1>10. /\ g[0] = head /\ g[1] = node
         /\ \A m \in 2 .. n + 1 : g[m] = f[m - 1] /\ m - 1 \in 1 .. n
    BY <1>9
  <1>11. \A m \in 1 .. n : g[m + 1] = f[m]
    <2>1. \A m \in 1 .. n : m + 1 \in 2 .. n + 1 /\ (m + 1) - 1 = m
      OBVIOUS
    <2> QED BY <1>10, <2>1
  <1>12. /\ next'[head] = node /\ next'[node] = next[head]
         /\ \A x \in Nodes : x # node => next'[x] = next[x]
    BY <1>1, <1>t, NodesAssumption DEF TypeOK
  <1>13. \A m \in 1 .. n : f[m] \in alive /\ f[m] \in Nodes /\ f[m] # node
    BY <1>8, <1>t DEF Follows, TypeOK
  <1>14. Follows(g, n + 1)'
    <2>1. \A m \in 1 .. n + 1 : m = 1 \/ m \in 2 .. n + 1
      OBVIOUS
    <2>2. \A m \in 1 .. n + 1 : g[m] \in alive'
      BY <1>1, <1>10, <1>13, <2>1
    <2>3. ASSUME NEW x \in alive' PROVE \E m \in 1 .. n + 1 : g[m] = x
      <3>1. CASE x = node
        <4>1. 1 \in 1 .. n + 1
          OBVIOUS
        <4> QED BY <1>10, <3>1, <4>1
      <3>2. CASE x \in alive
        <4>1. PICK m \in 1 .. n : f[m] = x
          BY <1>8, <3>2 DEF Follows
        <4>2. m + 1 \in 1 .. n + 1
          OBVIOUS
        <4> QED BY <1>11, <4>1, <4>2
      <3> QED BY <1>1, <3>1, <3>2
    <2>4. ASSUME NEW m \in 0 .. n PROVE next'[g[m]] = g[m + 1]
      <3>1. CASE m = 0
        BY <1>10, <1>12, <3>1
      <3>2. CASE m = 1
        <4>1. 0 \in 0 .. n - 1 /\ 1 \in 1 .. n
          BY <3>2
        <4>2. next[f[0]] = f[1] /\ f[0] = head
          BY <1>8, <4>1 DEF Follows
        <4>3. g[1 + 1] = f[1]
          BY <1>11, <4>1
        <4> QED BY <1>10, <1>12, <3>2, <4>2, <4>3
      <3>3. CASE m > 1
        <4>1. m - 1 \in 0 .. n - 1 /\ m - 1 \in 1 .. n /\ m \in 2 .. n + 1 /\ m \in 1 .. n
              /\ (m - 1) + 1 = m
          BY <3>3
        <4>2. next[f[m - 1]] = f[m]
          BY <1>8, <4>1 DEF Follows
        <4> QED BY <1>10, <1>11, <1>12, <1>13, <4>1, <4>2
      <3> QED BY <3>1, <3>2, <3>3
    <2>5. next'[g[n + 1]] = NULL
      <3>1. CASE n = 0
        BY <1>8, <1>10, <1>12, <3>1 DEF Follows
      <3>2. CASE n > 0
        <4>1. n \in 1 .. n
          BY <3>2
        <4> QED BY <1>8, <1>11, <1>12, <1>13, <4>1 DEF Follows
      <3> QED BY <3>1, <3>2
    <2>6. ASSUME NEW a \in 1 .. n + 1, NEW b \in 1 .. n + 1, g[a] = g[b] PROVE a = b
      <3>1. CASE a = 1 /\ b # 1
        BY <1>10, <1>13, <2>1, <2>6, <3>1
      <3>2. CASE a # 1 /\ b = 1
        BY <1>10, <1>13, <2>1, <2>6, <3>2
      <3>3. CASE a # 1 /\ b # 1
        <4>1. a - 1 \in 1 .. n /\ b - 1 \in 1 .. n /\ f[a - 1] = f[b - 1]
          BY <1>10, <2>1, <2>6, <3>3
        <4>2. a - 1 = b - 1
          BY <1>8, <4>1 DEF Follows
        <4> QED BY <4>2
      <3> QED BY <3>1, <3>2, <3>3
    <2>7. (n + 1) - 1 = n
      OBVIOUS
    <2> QED BY <1>10, <2>2, <2>3, <2>4, <2>5, <2>6, <2>7 DEF Follows
  <1>15. \E h \in [0 .. Cardinality(alive') -> Nodes \cup {head}] :
            Follows(h, Cardinality(alive))'
    <2>1. Cardinality(alive)' = n + 1
      BY <1>7
    <2>2. Follows(g, Cardinality(alive))'
      BY <1>14, <2>1 DEF Follows
    <2> QED BY <2>1, <2>2
  <1> QED BY <1>5, <1>6, <1>15 DEF TimerInv
\* A node is unlinked and freed and its kernel timer deleted.
Dropped(x) ==
    /\ timer' = timer_delete(x) /\ next' = Unlinked(x)
    /\ alive' = alive \ {x} /\ id' = [id EXCEPT ![x] = NULL]
    /\ released' \in BOOLEAN

\* The rest of the list stays linked, wherever the node was.
LEMMA DropKeeps ==
    ASSUME TimerInv, NEW x \in alive, Dropped(x)
    PROVE  TimerInv'
  <1>t. TypeOK /\ Timed /\ x \in Nodes
    BY DEF TimerInv, TypeOK
  <1>0. /\ timer' = [timer EXCEPT ![x] = NULL] /\ alive' = alive \ {x}
        /\ id' = [id EXCEPT ![x] = NULL] /\ released' \in BOOLEAN
        /\ next' = [next EXCEPT ![Prev(x)] = next[x], ![x] = NULL]
    BY DEF Dropped, timer_delete, Unlinked
  <1>1. PICK n \in Nat : n = Cardinality(alive) /\ Cardinality(alive') = n - 1 /\ n > 0
    <2>1. IsFiniteSet(alive)
      BY <1>t, NodesAssumption, FS_Subset DEF TypeOK
    <2>2. Cardinality(alive \ {x}) = Cardinality(alive) - 1 /\ Cardinality(alive) \in Nat
          /\ Cardinality(alive \ {x}) \in Nat
      BY <2>1, FS_CardinalityType, FS_RemoveElement, FS_Subset
    <2> QED BY <1>0, <2>2
  <1>2. PICK f \in [0 .. n -> Nodes \cup {head}] : Follows(f, n)
    BY <1>1 DEF TimerInv
  <1>3. PICK p \in 1 .. n : f[p] = x
    BY <1>2 DEF Follows
  <1>4. \A m \in 1 .. n : f[m] \in alive /\ f[m] \in Nodes /\ f[m] # head /\ f[m] # NULL
    BY <1>2, <1>t, NodesAssumption DEF Follows, TypeOK
  <1>5. \A a, b \in 0 .. n : f[a] = f[b] => a = b
    <2>1. \A a \in 0 .. n : a = 0 \/ a \in 1 .. n
      OBVIOUS
    <2> QED BY <1>2, <1>4, <2>1 DEF Follows
  <1>6. Prev(x) = f[p - 1]
    <2>1. p - 1 \in 0 .. n - 1 /\ (p - 1) + 1 = p /\ p - 1 \in 0 .. n
      OBVIOUS
    <2>2. next[f[p - 1]] = x
      BY <1>2, <1>3, <2>1 DEF Follows
    <2>3. f[p - 1] \in alive \cup {head}
      <3>1. p - 1 = 0 \/ p - 1 \in 1 .. n
        BY <2>1
      <3> QED BY <1>2, <1>4, <3>1 DEF Follows
    <2>4. ASSUME NEW y \in alive \cup {head}, next[y] = x PROVE y = f[p - 1]
      <3>1. PICK m \in 0 .. n : f[m] = y
        <4>1. CASE y = head
          <5>1. 0 \in 0 .. n
            OBVIOUS
          <5> QED BY <1>2, <4>1, <5>1 DEF Follows
        <4>2. CASE y \in alive
          <5>1. PICK m \in 1 .. n : f[m] = y
            BY <1>2, <4>2 DEF Follows
          <5>2. m \in 0 .. n
            OBVIOUS
          <5> QED BY <5>1, <5>2
        <4> QED BY <4>1, <4>2
      <3>2. m # n
        <4>1. x # NULL
          BY <1>3, <1>4
        <4> QED BY <1>2, <2>4, <3>1, <4>1 DEF Follows
      <3>3. m \in 0 .. n - 1 /\ m + 1 \in 0 .. n /\ p \in 0 .. n
        BY <3>2
      <3>4. f[m + 1] = f[p]
        BY <1>2, <1>3, <2>4, <3>1, <3>3 DEF Follows
      <3>5. m + 1 = p
        BY <1>5, <3>3, <3>4
      <3>6. m = p - 1
        BY <3>5
      <3> QED BY <3>1, <3>6
    <2>5. Listed = alive
      BY ListedIsAlive
    <2>6. f[p - 1] = CHOOSE y \in alive \cup {head} : next[y] = x
      BY <2>2, <2>3, <2>4
    <2> QED BY <2>5, <2>6 DEF Prev
  <1>7. /\ p - 1 \in 0 .. n /\ f[p - 1] # x
        /\ next'[f[p - 1]] = next[x] /\ next'[x] = NULL
        /\ \A y \in Nodes \cup {head} : y # x /\ y # f[p - 1] => next'[y] = next[y]
    <2>1. p - 1 \in 0 .. n /\ p \in 0 .. n /\ p - 1 # p
      OBVIOUS
    <2>2. f[p - 1] # f[p]
      BY <1>5, <2>1
    <2>3. next' = [next EXCEPT ![f[p - 1]] = next[x], ![x] = NULL]
      BY <1>0, <1>6
    <2> QED BY <1>3, <1>t, <2>1, <2>2, <2>3 DEF TypeOK
  <1>8. TypeOK'
    <2>1. next' \in [Nodes \cup {head} -> Nodes \cup {NULL}]
      BY <1>0, <1>t DEF TypeOK
    <2> QED BY <1>0, <1>t, <2>1 DEF TypeOK
  <1>9. Timed'
    BY <1>0, <1>t DEF Timed, TypeOK
  <1>10. PICK g \in [0 .. n - 1 -> Nodes \cup {head}] :
               g = [m \in 0 .. n - 1 |-> IF m < p THEN f[m] ELSE f[m + 1]]
    <2>1. \A m \in 0 .. n - 1 : (IF m < p THEN f[m] ELSE f[m + 1]) \in Nodes \cup {head}
      <3>1. \A m \in 0 .. n - 1 : m \in 0 .. n /\ m + 1 \in 0 .. n
        OBVIOUS
      <3> QED BY <3>1
    <2>2. [m \in 0 .. n - 1 |-> IF m < p THEN f[m] ELSE f[m + 1]]
             \in [0 .. n - 1 -> Nodes \cup {head}]
      BY <2>1
    <2> QED BY <2>2, Zenon
  <1>11. \A m \in 0 .. n - 1 : g[m] = IF m < p THEN f[m] ELSE f[m + 1]
    BY <1>10
  <1>12. Follows(g, n - 1)'
    <2>1. g[0] = head
      <3>1. 0 \in 0 .. n - 1 /\ 0 < p
        BY <1>1
      <3> QED BY <1>2, <1>11, <3>1 DEF Follows
    <2>2. ASSUME NEW m \in 1 .. n - 1 PROVE g[m] \in alive'
      <3>1. PICK a \in 1 .. n : g[m] = f[a] /\ a # p
        <4>1. m \in 0 .. n - 1 /\ m \in 1 .. n /\ m + 1 \in 1 .. n
          OBVIOUS
        <4>2. CASE m < p
          BY <1>11, <4>1, <4>2
        <4>3. CASE ~(m < p)
          <5>1. m + 1 # p
            BY <4>3
          <5> QED BY <1>11, <4>1, <4>3, <5>1
        <4> QED BY <4>2, <4>3
      <3>2. f[a] # x
        BY <1>2, <1>3, <3>1 DEF Follows
      <3> QED BY <1>0, <1>4, <3>1, <3>2
    <2>3. ASSUME NEW y \in alive' PROVE \E m \in 1 .. n - 1 : g[m] = y
      <3>1. PICK a \in 1 .. n : f[a] = y
        BY <1>0, <1>2 DEF Follows
      <3>2. a # p
        BY <1>0, <1>3, <3>1
      <3>3. CASE a < p
        <4>1. a \in 1 .. n - 1 /\ a \in 0 .. n - 1
          BY <3>3
        <4> QED BY <1>11, <3>1, <3>3, <4>1
      <3>4. CASE a > p
        <4>1. a - 1 \in 1 .. n - 1 /\ a - 1 \in 0 .. n - 1 /\ ~(a - 1 < p) /\ (a - 1) + 1 = a
          BY <3>4
        <4>2. g[a - 1] = y
          BY <1>11, <3>1, <4>1
        <4> QED BY <4>1, <4>2
      <3> QED BY <3>2, <3>3, <3>4
    <2>4. ASSUME NEW m \in 0 .. n - 2 PROVE next'[g[m]] = g[m + 1]
      <3>0. /\ m \in 0 .. n - 1 /\ m + 1 \in 0 .. n - 1 /\ m \in 0 .. n /\ m + 1 \in 0 .. n
            /\ m + 2 \in 0 .. n /\ p \in 0 .. n /\ p - 1 \in 0 .. n /\ (m + 1) + 1 = m + 2
        OBVIOUS
      <3>1. CASE m + 1 < p
        <4>1. m < p /\ m # p /\ m # p - 1
          BY <3>1
        <4>2. f[m] # x /\ f[m] # f[p - 1]
          BY <1>3, <1>5, <3>0, <4>1
        <4>3. next'[f[m]] = f[m + 1]
          BY <1>2, <1>7, <3>0, <4>2 DEF Follows
        <4> QED BY <1>11, <3>0, <3>1, <4>1, <4>3
      <3>2. CASE m + 1 = p
        <4>1. m = p - 1 /\ m < p /\ p \in 0 .. n - 1 /\ ~(m + 1 < p) /\ p + 1 = m + 2
          BY <3>0, <3>2
        <4>2. next'[f[m]] = f[m + 2]
          <5>1. next[f[p]] = f[p + 1]
            BY <1>2, <4>1 DEF Follows
          <5> QED BY <1>3, <1>7, <4>1, <5>1
        <4>3. g[m] = f[m] /\ g[m + 1] = f[m + 2]
          BY <1>11, <3>0, <4>1
        <4> QED BY <4>2, <4>3
      <3>3. CASE m + 1 > p
        <4>1. ~(m < p) /\ ~(m + 1 < p) /\ m + 1 # p /\ m + 1 # p - 1
          BY <3>3
        <4>2. f[m + 1] # x /\ f[m + 1] # f[p - 1]
          BY <1>3, <1>5, <3>0, <4>1
        <4>3. next'[f[m + 1]] = f[m + 2]
          <5>1. next[f[m + 1]] = f[(m + 1) + 1]
            BY <1>2, <3>0 DEF Follows
          <5>2. f[m + 1] \in Nodes \cup {head}
            BY <3>0
          <5> QED BY <1>7, <3>0, <4>2, <5>1, <5>2
        <4>4. g[m] = f[m + 1] /\ g[m + 1] = f[m + 2]
          BY <1>11, <3>0, <4>1
        <4> QED BY <4>3, <4>4
      <3> QED BY <3>1, <3>2, <3>3
    <2>5. next'[g[n - 1]] = NULL
      <3>0. n - 1 \in 0 .. n - 1 /\ (n - 1) + 1 = n /\ n \in 0 .. n /\ p \in 0 .. n
            /\ p - 1 \in 0 .. n
        BY <1>1
      <3>1. CASE p = n
        <4>1. g[n - 1] = f[p - 1]
          BY <1>11, <3>0, <3>1
        <4> QED BY <1>2, <1>3, <1>7, <3>1, <4>1 DEF Follows
      <3>2. CASE p # n
        <4>1. ~(n - 1 < p) /\ n # p - 1
          BY <3>2
        <4>2. g[n - 1] = f[n]
          BY <1>11, <3>0, <4>1
        <4>3. f[n] # x /\ f[n] # f[p - 1]
          BY <1>3, <1>5, <3>0, <3>2, <4>1
        <4> QED BY <1>2, <1>7, <3>0, <4>2, <4>3 DEF Follows
      <3> QED BY <3>1, <3>2
    <2>6. ASSUME NEW a \in 1 .. n - 1, NEW b \in 1 .. n - 1, g[a] = g[b] PROVE a = b
      <3>1. /\ a \in 0 .. n - 1 /\ b \in 0 .. n - 1 /\ a \in 0 .. n /\ b \in 0 .. n
            /\ a + 1 \in 0 .. n /\ b + 1 \in 0 .. n
        OBVIOUS
      <3>2. /\ g[a] = f[IF a < p THEN a ELSE a + 1] /\ g[b] = f[IF b < p THEN b ELSE b + 1]
        BY <1>11, <3>1
      <3>3. (IF a < p THEN a ELSE a + 1) = (IF b < p THEN b ELSE b + 1)
        BY <1>5, <2>6, <3>1, <3>2
      <3> QED BY <3>3
    <2>7. (n - 1) - 1 = n - 2
      OBVIOUS
    <2> QED BY <2>1, <2>2, <2>3, <2>4, <2>5, <2>6, <2>7 DEF Follows
  <1>13. \E h \in [0 .. Cardinality(alive') -> Nodes \cup {head}] :
            Follows(h, Cardinality(alive))'
    <2>1. Cardinality(alive)' = n - 1
      BY <1>1
    <2>2. Follows(g, Cardinality(alive))'
      BY <1>12, <2>1 DEF Follows
    <2> QED BY <2>1, <2>2
  <1> QED BY <1>8, <1>9, <1>13 DEF TimerInv

\* The kernel timers change, the list does not.
LEMMA TimersOnly ==
    ASSUME TimerInv, next' = next, id' = id, alive' = alive, released' \in BOOLEAN,
           timer' \in [Nodes -> KernelTimers \cup {NULL}],
           \A x \in Nodes : timer'[x] = NULL <=> timer[x] = NULL
    PROVE  TimerInv'
  <1>1. TypeOK'
    BY DEF TimerInv, TypeOK
  <1>2. Timed'
    BY DEF TimerInv, TypeOK, Timed
  <1>3. PICK f \in [0 .. Cardinality(alive) -> Nodes \cup {head}] : Follows(f, Cardinality(alive))
    BY DEF TimerInv
  <1>4. Follows(f, Cardinality(alive))'
    BY <1>3 DEF Follows
  <1> QED BY <1>1, <1>2, <1>3, <1>4 DEF TimerInv

\* Half a second of a kernel timer.
LEMMA ElapsedType ==
    ASSUME NEW k \in KernelTimers
    PROVE  Elapsed(k) \in KernelTimers /\ Elapsed(k) # NULL
  <1>1. k.left \in 0 .. 2 * MaxSec /\ k.interval \in 0 .. 2 * MaxSec /\ 2 * MaxSec \in Nat
    BY SecAssumption DEF KernelTimers, HalfSecs
  <1>2. Elapsed(k) \in KernelTimers
    <2>1. CASE k.left > 1
      BY <1>1, <2>1 DEF Elapsed, KernelTimers, HalfSecs
    <2>2. CASE k.left = 1
      BY <1>1, <2>2 DEF Elapsed, KernelTimers, HalfSecs
    <2>3. CASE k.left = 0
      BY <1>1, <2>3 DEF Elapsed, KernelTimers, HalfSecs
    <2> QED BY <1>1, <2>1, <2>2, <2>3
  <1>3. NULL \notin KernelTimers
    <2>1. KernelTimers \subseteq [left : Nat, interval : Nat]
      BY <1>1 DEF KernelTimers, HalfSecs
    <2> QED BY <2>1, TimersAssumption
  <1> QED BY <1>2, <1>3

\* TimerInv is inductive.
LEMMA TimerNext ==
    ASSUME TimerInv, [Next]_vars
    PROVE  TimerInv'
  <1>t. TypeOK
    BY DEF TimerInv
  <1>1. ASSUME NEW t \in TimerIds, NEW sec \in 1 .. MaxSec, NEW loop \in BOOLEAN,
               create_event_timer(t, loop, sec)
        PROVE  TimerInv'
    BY <1>1, CreateKeeps
  <1>2. ASSUME NEW t \in TimerIds, NEW sec \in 1 .. MaxSec, refresh_event_timer(t, sec)
        PROVE  TimerInv'
    <2>1. PICK x : x = list_for_entry(t)
      OBVIOUS
    <2>2. /\ x # NULL /\ timer[x] # NULL /\ timer' = [timer EXCEPT ![x] = Period(sec, sec)]
          /\ released' = FALSE /\ next' = next /\ id' = id /\ alive' = alive
      BY <1>2, <2>1 DEF refresh_event_timer
    <2>3. x \in Nodes
      BY <1>t, <2>1, <2>2, EntryFound DEF TypeOK
    <2>4. Period(sec, sec) \in KernelTimers /\ Period(sec, sec) # NULL
      BY PeriodType
    <2>5. timer' \in [Nodes -> KernelTimers \cup {NULL}]
      BY <1>t, <2>2, <2>4 DEF TypeOK
    <2>6. \A y \in Nodes : timer'[y] = NULL <=> timer[y] = NULL
      BY <1>t, <2>2, <2>3, <2>4 DEF TypeOK
    <2> QED BY <2>2, <2>5, <2>6, TimersOnly
  <1>3. ASSUME NEW t \in TimerIds, delete_designation_timer(t)
        PROVE  TimerInv'
    <2>1. list_for_entry(t) \in alive
      BY <1>3, EntryFound DEF delete_designation_timer
    <2>2. PICK x \in alive : x = list_for_entry(t)
      BY <2>1
    <2>3. Dropped(x)
      BY <1>3, <2>2 DEF delete_designation_timer, Dropped
    <2> QED BY <2>3, DropKeeps
  <1>4. CASE delete_all_timer
    <2>1. CASE next[head] = NULL
      <3>1. /\ next' = next /\ id' = id /\ alive' = alive /\ timer' = timer
            /\ released' \in BOOLEAN
        BY <1>4, <2>1 DEF delete_all_timer
      <3> QED BY <1>t, <3>1, TimersOnly DEF TypeOK
    <2>2. CASE next[head] # NULL
      <3>1. next[head] \in alive
        <4>1. PICK f \in [0 .. Cardinality(alive) -> Nodes \cup {head}] :
                  Follows(f, Cardinality(alive))
          BY DEF TimerInv
        <4>2. Cardinality(alive) \in Nat
          BY ListedIsAlive
        <4>3. Cardinality(alive) # 0
          BY <2>2, <4>1 DEF Follows
        <4>4. 0 \in 0 .. Cardinality(alive) - 1 /\ 1 \in 1 .. Cardinality(alive)
          BY <4>2, <4>3
        <4>5. next[f[0]] = f[0 + 1] /\ f[0] = head /\ f[1] \in alive
          BY <4>1, <4>4 DEF Follows
        <4> QED BY <4>5
      <3>2. PICK x \in alive : x = next[head]
        BY <3>1
      <3>3. Dropped(x)
        BY <1>4, <2>2, <3>2 DEF delete_all_timer, Dropped
      <3> QED BY <3>3, DropKeeps
    <2> QED BY <2>1, <2>2
  <1>5. CASE Tick
    <2>1. /\ timer' = [x \in Nodes |-> IF timer[x] = NULL THEN NULL ELSE Elapsed(timer[x])]
          /\ released' = FALSE /\ next' = next /\ id' = id /\ alive' = alive
      BY <1>5 DEF Tick
    <2>2. \A x \in Nodes : timer[x] # NULL =>
             Elapsed(timer[x]) \in KernelTimers /\ Elapsed(timer[x]) # NULL
      BY <1>t, ElapsedType DEF TypeOK
    <2>3. timer' \in [Nodes -> KernelTimers \cup {NULL}]
      BY <2>1, <2>2
    <2>4. \A x \in Nodes : timer'[x] = NULL <=> timer[x] = NULL
      BY <2>1, <2>2
    <2> QED BY <2>1, <2>3, <2>4, TimersOnly
  <1>6. CASE UNCHANGED vars
    BY <1>6, <1>t, TimersOnly DEF vars, TypeOK
  <1> QED BY <1>1, <1>2, <1>3, <1>4, <1>5, <1>6 DEF Next

\* Whatever calls are made in whatever order, and however much time passes
\* between them, the timer list is intact, holds each id once, and no kernel timer
\* runs outside it (miio_timer.c: create_event_timer, delete_designation_timer and
\* delete_all_timer, which frees one node and stops).
THEOREM TimersAreListed == Spec => []TimersListed
  <1>1. Init => TimerInv
    BY TimerInit
  <1>2. TimerInv /\ [Next]_vars => TimerInv'
    BY TimerNext
  <1>3. TimerInv => TimersListed
    <2> SUFFICES ASSUME TimerInv PROVE TimersListed
      OBVIOUS
    <2>1. Listed = alive /\ Walk[Cardinality(Nodes)] = NULL
      BY ListedIsAlive
    <2> QED BY <2>1 DEF TimerInv, Timed, TimersListed, ListIntact, OneNodePerId, EveryTimerListed
  <1> QED BY <1>1, <1>2, <1>3, PTL DEF Spec

-------------------------------------------------------------------------------
(* NtpClient.                                                              *)

\* Quotient and remainder.
LEMMA DivisionLeaves ==
  ASSUME NEW x \in Int, NEW u \in Int, u > 0
  PROVE  \E q, r \in Int : /\ q = x \div u /\ r = x % u
                           /\ x = u * q + r /\ 0 <= r /\ r < u
  <1>1. x \div u \in Int /\ x % u \in Int
    OBVIOUS
  <1>2. PICK q \in Int : q = x \div u
    BY <1>1
  <1>3. PICK r \in Int : r = x % u
    BY <1>1
  <1>4. x = u * q + r
    BY <1>2, <1>3
  <1>5. 0 <= r /\ r < u
    BY <1>3
  <1> QED BY <1>2, <1>3, <1>4, <1>5

\* A product grows with its factors.
LEMMA ProductGrows ==
  ASSUME NEW u \in Int, u > 0, NEW p \in Int, NEW q \in Int, p <= q
  PROVE  u * p <= u * q
  OBVIOUS

\* A number within one width of the field, above or below, is moved by that width.
LEMMA OneWidth ==
  ASSUME NEW u \in Int, u > 0, NEW x \in Int, -u <= x, x < 2 * u
  PROVE  x % u = IF x < 0 THEN x + u ELSE IF x < u THEN x ELSE x - u
  <1>1. PICK q, r \in Int : r = x % u /\ x = u * q + r /\ 0 <= r /\ r < u
    BY DivisionLeaves
  <1>2. q < 2
    <2>1. SUFFICES ASSUME 2 <= q PROVE FALSE
      OBVIOUS
    <2>2. u * 2 <= u * q
      BY <2>1, ProductGrows
    <2>3. PICK z \in Int : z = u * q
      OBVIOUS
    <2> QED BY <1>1, <2>2, <2>3
  <1>3. q > -2
    <2>1. SUFFICES ASSUME q <= -2 PROVE FALSE
      OBVIOUS
    <2>2. u * q <= u * (-2)
      BY <2>1, ProductGrows
    <2>3. PICK z \in Int : z = u * q
      OBVIOUS
    <2> QED BY <1>1, <2>2, <2>3
  <1>4. q = -1 \/ q = 0 \/ q = 1
    BY <1>2, <1>3
  <1> QED BY <1>1, <1>4

\* A time of this era can be told from its time stamp (NTP_LFIXED2DOUBLE undoes what

\* get_ntp_packet and the server do).
LEMMA StampKeepsTime ==
  ASSUME NEW t \in Nat, t < Era * Second
  PROVE  Ntp!FromStamp(Ntp!Stamp(t)) = t
  <1>1. Second \in Nat \ {0} /\ Era \in Nat \ {0} /\ Jan1970 \in 0 .. Era - 1
    BY NtpAssumption
  <1>2. PICK s, f \in Int : /\ s = t \div Second /\ f = t % Second
                            /\ t = Second * s + f /\ 0 <= f /\ f < Second
    BY <1>1, DivisionLeaves
  <1>3. PICK z \in Int : z = Second * s
    BY <1>1
  <1>4. 0 <= s
    <2>1. SUFFICES ASSUME s <= -1 PROVE FALSE
      OBVIOUS
    <2>2. Second * s <= Second * (-1)
      BY <1>1, <2>1, ProductGrows
    <2> QED BY <1>1, <1>2, <1>3, <2>2
  <1>5. s < Era
    <2>1. SUFFICES ASSUME Era <= s PROVE FALSE
      BY <1>1
    <2>2. Second * Era <= Second * s
      BY <1>1, <2>1, ProductGrows
    <2>3. PICK y \in Int : y = Era * Second
      BY <1>1
    <2> QED BY <1>1, <1>2, <1>3, <2>2, <2>3
  <1>6. (s + Jan1970) % Era = IF s + Jan1970 < Era THEN s + Jan1970 ELSE s + Jan1970 - Era
    BY <1>1, <1>4, <1>5, OneWidth
  <1>7. (((s + Jan1970) % Era) - Jan1970) % Era = s
    <2>1. CASE s + Jan1970 < Era
      <3>1. ((s + Jan1970) % Era) - Jan1970 = s
        BY <1>1, <1>6, <2>1
      <3>2. s % Era = s
        BY <1>1, <1>4, <1>5, OneWidth
      <3> QED BY <3>1, <3>2
    <2>2. CASE ~(s + Jan1970 < Era)
      <3>1. ((s + Jan1970) % Era) - Jan1970 = s - Era
        BY <1>1, <1>6, <2>2
      <3>2. (s - Era) % Era = s
        <4>1. s - Era \in Int /\ -Era <= s - Era /\ s - Era < 2 * Era /\ s - Era < 0
          BY <1>1, <1>4, <1>5
        <4>2. (s - Era) % Era = (s - Era) + Era
          BY <1>1, <4>1, OneWidth
        <4> QED BY <1>1, <4>2
      <3> QED BY <3>1, <3>2
    <2> QED BY <2>1, <2>2
  <1>8. Ntp!FromStamp(Ntp!Stamp(t)) = s * Second + f
    <2>1. Ntp!Stamp(t) = [sec |-> (s + Jan1970) % Era, frac |-> f]
      BY <1>2 DEF Ntp!Stamp, Ntp!Seconds
    <2>2. Ntp!Stamp(t).sec = (s + Jan1970) % Era /\ Ntp!Stamp(t).frac = f
      BY <2>1
    <2> QED BY <1>7, <2>2 DEF Ntp!FromStamp
  <1> QED BY <1>1, <1>2, <1>8

\* What the conversion to int leaves of a number is less than the unit.
LEMMA TruncateLeaves ==
  ASSUME NEW x \in Int, NEW u \in Int, u > 0
  PROVE  \E q \in Int : q = Ntp!Truncate(x, u) /\ -u < x - u * q /\ x - u * q < u
  <1>1. CASE x >= 0
    <2>1. PICK q, r \in Int : q = x \div u /\ x = u * q + r /\ 0 <= r /\ r < u
      BY DivisionLeaves
    <2>2. q = Ntp!Truncate(x, u)
      BY <1>1, <2>1 DEF Ntp!Truncate
    <2>3. PICK z \in Int : z = u * q
      OBVIOUS
    <2>4. -u < x - u * q /\ x - u * q < u
      BY <2>1, <2>3
    <2> QED BY <2>2, <2>4
  <1>2. CASE x < 0
    <2>1. -x \in Int
      OBVIOUS
    <2>2. PICK q, r \in Int : q = (-x) \div u /\ -x = u * q + r /\ 0 <= r /\ r < u
      BY <2>1, DivisionLeaves
    <2>3. -q = Ntp!Truncate(x, u)
      BY <1>2, <2>2 DEF Ntp!Truncate
    <2>4. u * (-q) = -(u * q)
      OBVIOUS
    <2>5. PICK z \in Int : z = u * q
      OBVIOUS
    <2>6. -u < x - u * (-q) /\ x - u * (-q) < u
      BY <2>2, <2>4, <2>5
    <2> QED BY <2>3, <2>6
  <1> QED BY <1>1, <1>2

\* The conversion to int goes towards zero.
LEMMA TruncateShrinks ==
  ASSUME NEW x \in Int, NEW u \in Int, u > 0
  PROVE  \E q \in Int : /\ q = Ntp!Truncate(x, u)
                        /\ x >= 0 => u * q <= x
                        /\ x < 0 => x <= u * q /\ u * q <= 0
  <1>1. CASE x >= 0
    <2>1. PICK q, r \in Int : q = x \div u /\ x = u * q + r /\ 0 <= r /\ r < u
      BY DivisionLeaves
    <2>2. q = Ntp!Truncate(x, u)
      BY <1>1, <2>1 DEF Ntp!Truncate
    <2>3. PICK z \in Int : z = u * q
      OBVIOUS
    <2>4. u * q <= x
      BY <2>1, <2>3
    <2> QED BY <1>1, <2>2, <2>4
  <1>2. CASE x < 0
    <2>1. -x \in Int
      OBVIOUS
    <2>2. PICK q, r \in Int : q = (-x) \div u /\ -x = u * q + r /\ 0 <= r /\ r < u
      BY <2>1, DivisionLeaves
    <2>3. -q = Ntp!Truncate(x, u) /\ -q \in Int
      BY <1>2, <2>2 DEF Ntp!Truncate
    <2>4. u * (-q) = -(u * q)
      OBVIOUS
    <2>5. PICK z \in Int : z = u * q
      OBVIOUS
    <2>6. q >= 0
      <3>1. SUFFICES ASSUME q <= -1 PROVE FALSE
        OBVIOUS
      <3>2. u * q <= u * (-1)
        BY <3>1, ProductGrows
      <3> QED BY <1>2, <2>2, <2>5, <3>2
    <2>7. u * 0 <= u * q
      BY <2>6, ProductGrows
    <2>8. x <= u * (-q) /\ u * (-q) <= 0
      BY <2>2, <2>4, <2>5, <2>7
    <2> QED BY <1>2, <2>3, <2>8
  <1> QED BY <1>1, <1>2

\* Half of less than Era seconds is an int.
LEMMA HalfFits ==
  ASSUME NEW x \in Int, NEW y \in Int, y = Era * Second, -y < x, x < y
  PROVE  Ntp!Truncate(x, 2 * Second) \in Ntp!IntRange
  <1>1. Second \in Int /\ Second > 0 /\ Era \in Int /\ Era > 0 /\ Era % 2 = 0
    BY NtpAssumption
  <1>2. PICK h \in Int : h = Era \div 2 /\ Era = 2 * h
    BY <1>1
  <1>3. PICK u \in Int : u = 2 * Second /\ u > 0
    BY <1>1
  <1>4. u * h = y /\ u * (-h) = -y
    <2>1. (2 * Second) * h = (2 * h) * Second
      BY <1>1
    <2>2. u * (-h) = -(u * h)
      OBVIOUS
    <2> QED BY <1>2, <1>3, <2>1, <2>2
  <1>5. PICK q \in Int : /\ q = Ntp!Truncate(x, u)
                         /\ x >= 0 => u * q <= x
                         /\ x < 0 => x <= u * q /\ u * q <= 0
    BY <1>3, TruncateShrinks
  <1>6. PICK w \in Int : w = u * q
    OBVIOUS
  <1>7. q < h
    <2>1. SUFFICES ASSUME h <= q PROVE FALSE
      OBVIOUS
    <2>2. u * h <= u * q
      BY <1>3, <2>1, ProductGrows
    <2> QED BY <1>4, <1>5, <1>6, <2>2
  <1>8. -h <= q
    <2>1. SUFFICES ASSUME q <= -h PROVE q = -h
      OBVIOUS
    <2>2. u * q <= u * (-h)
      BY <1>3, <2>1, ProductGrows
    <2>3. CASE x >= 0
      <3>1. SUFFICES ASSUME q # -h PROVE FALSE
        OBVIOUS
      <3>2. PICK r \in Int : x = u * q + r /\ -u < r /\ r < u
        <4>1. PICK p \in Int : p = Ntp!Truncate(x, u) /\ -u < x - u * p /\ x - u * p < u
          BY <1>3, TruncateLeaves
        <4>2. p = q
          BY <1>5, <4>1
        <4>3. PICK r \in Int : r = x - w
          OBVIOUS
        <4> QED BY <1>6, <4>1, <4>2, <4>3
      <3>3. q <= -h - 1
        BY <2>1, <3>1
      <3>4. u * q <= u * (-1)
        <4>1. 0 < h
          BY <1>1, <1>2
        <4>2. q <= -1
          BY <3>3, <4>1
        <4> QED BY <1>3, <4>2, ProductGrows
      <3>5. u * (-1) = -u
        OBVIOUS
      <3> QED BY <1>6, <2>3, <3>2, <3>4, <3>5
    <2>4. CASE x < 0
      BY <1>4, <1>5, <1>6, <2>2, <2>4
    <2> QED BY <2>3, <2>4
  <1>9. q \in -h .. h - 1
    BY <1>7, <1>8
  <1> QED BY <1>2, <1>3, <1>5, <1>9 DEF Ntp!IntRange

\* What will be set is a number.
LEMMA AdjustedIsNumber ==
  ASSUME NEW t \in Int, NEW x \in Int, NEW time \in Ntp!Adjusted(t, x)
  PROVE  time \in Int
  <1>1. Second \in Int /\ Second > 0 /\ 2 * Second \in Int /\ 2 * Second > 0
    BY NtpAssumption
  <1>2. PICK q \in Int : q = Ntp!Truncate(x, 2 * Second)
    BY <1>1, TruncateLeaves
  <1>3. CASE q \in Ntp!IntRange
    <2>1. time = t + Second * q
      BY <1>2, <1>3 DEF Ntp!Adjusted
    <2> QED BY <1>1, <1>2, <2>1
  <1>4. CASE q \notin Ntp!IntRange
    <2>1. PICK i \in Ntp!IntRange, f \in 0 .. Second - 1 :
             time = Second * (Ntp!Seconds(t) + i) + f
      BY <1>2, <1>4 DEF Ntp!Adjusted
    <2>2. i \in Int /\ f \in Int
      BY <1>1, <2>1 DEF Ntp!IntRange
    <2>3. PICK s \in Int : s = t \div Second
      BY <1>1, DivisionLeaves
    <2>4. Ntp!Seconds(t) = s
      BY <2>3 DEF Ntp!Seconds
    <2> QED BY <1>1, <2>1, <2>2, <2>4
  <1> QED BY <1>3, <1>4

\* How far the clock of the machine is ahead; only settimeofday changes it.
Ahead == ntClock - ntNow

\* The packets that hold the request, and the answer to it.
StampSet == [sec : 0 .. Era - 1, frac : 0 .. Second - 1]
RequestPacket ==
    [orits |-> Ntp!Zero, recvts |-> Ntp!Zero, transts |-> Ntp!Stamp(ntSent.out + Ahead)]
AnswerPacket ==
    [orits |-> Ntp!Stamp(ntSent.out + Ahead),
     recvts |-> Ntp!Stamp(ntSent.there), transts |-> Ntp!Stamp(ntSent.back)]

NtpTyped ==
    /\ Ntp!TypeOK
    /\ ntSent \in [out : Int, there : Int, back : Int, here : Int]
    /\ ntBuf \in [orits : StampSet, recvts : StampSet, transts : StampSet]
    /\ ntPc \in {"start", "select"} => ntOutcome = "none"
    /\ ntPc # "done" => ntClock >= 0

\* Before the answer: the packet is the request, with the clock of its time.
Asked ==
    /\ ntPc = "start" => ntBuf.orits = Ntp!Zero /\ ntBuf.recvts = Ntp!Zero
    /\ ntPc \in {"select", "recv"} =>
          /\ ntBuf = RequestPacket
          /\ ntSent.out + Ahead >= 0 /\ ntSent.out >= 0 /\ ntSent.out <= ntNow
          /\ ntNet \in {"served", "answer"} => ntSent.out <= ntSent.there /\ ntSent.there <= ntNow
          /\ ntNet = "answer" => ntSent.there <= ntSent.back /\ ntSent.back <= ntNow
    /\ ntPc = "recv" => ntNet \in {"answer", "refused"}

\* Behind it: what the offset was computed from.
Answered ==
    /\ ntPc \in {"adjust", "set"} =>
          /\ ntOutcome \in {"answered", "refused"}
          /\ ntSent.out + Ahead >= 0 /\ ntSent.out >= 0
          /\ ntSent.out <= ntSent.here /\ ntSent.here <= ntNow
          /\ ntOutcome = "answered" =>
                /\ ntBuf = AnswerPacket
                /\ ntSent.out <= ntSent.there /\ ntSent.there <= ntSent.back
                /\ ntSent.back <= ntSent.here
          /\ ntOutcome = "refused" => ntBuf = RequestPacket
          /\ ntOffset = Ntp!get_offset(ntBuf, ntSent.here + Ahead)
    /\ ntPc = "set" => /\ ntTv.read \in Int /\ ntTv.set \in Int
                       /\ ntTv.set \in Ntp!Adjusted(ntTv.read, ntOffset)

NtpInv == NtpTyped /\ Asked /\ Answered

\* A time stamp has its fields' types, and what is read from one is a number.
LEMMA StampTypes ==
  /\ \A t \in Int : Ntp!Stamp(t) \in StampSet
  /\ Ntp!Zero \in StampSet
  /\ \A s \in StampSet : Ntp!FromStamp(s) \in Int
  <1>1. Second \in Int /\ Second > 0 /\ Era \in Int /\ Era > 0 /\ Jan1970 \in Int
    BY NtpAssumption
  <1>2. ASSUME NEW t \in Int PROVE Ntp!Stamp(t) \in StampSet
    <2>1. PICK s, f \in Int : s = t \div Second /\ f = t % Second /\ 0 <= f /\ f < Second
      BY <1>1, DivisionLeaves
    <2>2. PICK r \in Int : r = (s + Jan1970) % Era /\ 0 <= r /\ r < Era
      <3>1. s + Jan1970 \in Int
        BY <1>1
      <3> QED BY <1>1, <3>1, DivisionLeaves
    <2>3. Ntp!Stamp(t) = [sec |-> r, frac |-> f]
      BY <2>1, <2>2 DEF Ntp!Stamp, Ntp!Seconds
    <2> QED BY <1>1, <2>1, <2>2, <2>3 DEF StampSet
  <1>3. Ntp!Zero \in StampSet
    BY <1>1 DEF Ntp!Zero, StampSet
  <1>4. ASSUME NEW s \in StampSet PROVE Ntp!FromStamp(s) \in Int
    <2>1. s.sec - Jan1970 \in Int /\ s.frac \in Int
      BY <1>1 DEF StampSet
    <2>2. (s.sec - Jan1970) % Era \in Int
      BY <1>1, <2>1, DivisionLeaves
    <2> QED BY <1>1, <2>1, <2>2 DEF Ntp!FromStamp
  <1> QED BY <1>2, <1>3, <1>4

\* Nothing is sent before the program starts, and the clock shows a time since 1970.
LEMMA NtpInit == ToolsInit => NtpInv
  <1> SUFFICES ASSUME Ntp!Init PROVE NtpInv
    BY DEF ToolsInit
  <1>1. ntNow \in Nat /\ ntClock \in Nat /\ MaxTicks \in Nat
    BY NtpAssumption DEF Ntp!Init
  <1>2. ntBuf = [orits |-> Ntp!Zero, recvts |-> Ntp!Zero, transts |-> Ntp!Zero]
        /\ ntPc = "start" /\ ntNet = "none" /\ ntOutcome = "none" /\ ntTicks = 0 /\ ntOffset = 0
    BY DEF Ntp!Init
  <1>3. ntBuf \in [orits : StampSet, recvts : StampSet, transts : StampSet]
    BY <1>2, StampTypes
  <1>4. ntSent \in [out : Int, there : Int, back : Int, here : Int]
    BY <1>1 DEF Ntp!Init
  <1>5. \A f \in DOMAIN ntBuf : ntBuf[f].sec \in 0 .. Era - 1 /\ ntBuf[f].frac \in 0 .. Second - 1
    BY <1>3 DEF StampSet
  <1>6. Ntp!TypeOK
    BY <1>1, <1>2, <1>5 DEF Ntp!TypeOK
  <1>7. NtpTyped
    BY <1>1, <1>2, <1>3, <1>4, <1>6 DEF NtpTyped
  <1>8. Asked /\ Answered
    BY <1>2 DEF Asked, Answered
  <1> QED BY <1>7, <1>8 DEF NtpInv

\* The offset of any packet is a number.
LEMMA OffsetIsNumber ==
  ASSUME NEW p \in [orits : StampSet, recvts : StampSet, transts : StampSet], NEW t \in Int
  PROVE  Ntp!get_offset(p, t) \in Int
  <1>1. Ntp!FromStamp(p.orits) \in Int /\ Ntp!FromStamp(p.recvts) \in Int
        /\ Ntp!FromStamp(p.transts) \in Int
    BY StampTypes
  <1> QED BY <1>1 DEF Ntp!get_offset

\* The time and the network leave the packet in the program alone.
LEMMA WorldKeeps ==
  ASSUME NtpInv, \/ Ntp!Tick \/ Ntp!ServerReceives \/ Ntp!ServerAnswers \/ Ntp!Refuse \/ Ntp!Lose
  PROVE  NtpInv'
  <1>1. /\ ntNow \in Nat /\ ntClock \in Int /\ ntTicks \in 0 .. MaxTicks /\ MaxTicks \in Nat
        /\ ntSent \in [out : Int, there : Int, back : Int, here : Int]
    BY NtpAssumption DEF NtpInv, NtpTyped, Ntp!TypeOK
  <1>2. /\ ntBuf' = ntBuf /\ ntPc' = ntPc /\ ntOffset' = ntOffset /\ ntTv' = ntTv
        /\ ntOutcome' = ntOutcome
    BY DEF Ntp!Tick, Ntp!ServerReceives, Ntp!ServerAnswers, Ntp!Refuse, Ntp!Lose
  <1>3. /\ ntNow' \in Nat /\ ntClock' \in Int /\ ntTicks' \in 0 .. MaxTicks
        /\ ntNow <= ntNow' /\ ntClock <= ntClock' /\ Ahead' = Ahead /\ Ahead \in Int
    <2>1. \/ ntNow' = ntNow /\ ntClock' = ntClock /\ ntTicks' = ntTicks
          \/ /\ ntNow' = ntNow + 1 /\ ntClock' = ntClock + 1 /\ ntTicks' = ntTicks + 1
             /\ ntTicks < MaxTicks
      BY DEF Ntp!Tick, Ntp!ServerReceives, Ntp!ServerAnswers, Ntp!Refuse, Ntp!Lose
    <2> QED BY <1>1, <2>1 DEF Ahead
  <1>4. /\ ntSent' \in [out : Int, there : Int, back : Int, here : Int]
        /\ ntSent'.out = ntSent.out /\ ntSent'.here = ntSent.here
        /\ ntPc # "select" => ntSent' = ntSent /\ ntNet' = ntNet
        /\ ntNet' \in {"none", "request", "served", "answer", "refused"}
    BY <1>1 DEF Ntp!Tick, Ntp!ServerReceives, Ntp!ServerAnswers, Ntp!Refuse, Ntp!Lose, NtpInv,
                NtpTyped, Ntp!TypeOK
  <1>5. Ntp!TypeOK'
    BY <1>2, <1>3, <1>4 DEF NtpInv, NtpTyped, Ntp!TypeOK
  <1>6. NtpTyped'
    BY <1>1, <1>2, <1>3, <1>4, <1>5 DEF NtpInv, NtpTyped
  <1>7. RequestPacket' = RequestPacket
    BY <1>3, <1>4 DEF RequestPacket
  <1>8. Answered'
    <2>1. ASSUME ntPc \in {"adjust", "set"} PROVE Answered'
      <3>1. ntSent' = ntSent /\ AnswerPacket' = AnswerPacket
        BY <1>3, <1>4, <2>1 DEF AnswerPacket
      <3>2. ntSent.here <= ntNow'
        BY <1>1, <1>3, <2>1 DEF NtpInv, Answered
      <3>3. Ntp!get_offset(ntBuf, ntSent.here + Ahead)'
              = Ntp!get_offset(ntBuf, ntSent.here + Ahead)
        BY <1>2, <1>3, <3>1 DEF Ntp!get_offset
      <3>4. ntPc = "set" => (ntTv.set \in Ntp!Adjusted(ntTv.read, ntOffset))'
        BY <1>2 DEF NtpInv, Answered
      <3> QED BY <1>2, <1>3, <1>7, <2>1, <3>1, <3>2, <3>3, <3>4 DEF NtpInv, Answered
    <2> QED BY <1>2, <2>1 DEF Answered
  <1>9. Asked'
    <2>1. ASSUME ntPc \in {"select", "recv"}
          PROVE  /\ ntNet' \in {"served", "answer"} =>
                       ntSent'.out <= ntSent'.there /\ ntSent'.there <= ntNow'
                 /\ ntNet' = "answer" => ntSent'.there <= ntSent'.back /\ ntSent'.back <= ntNow'
      <3>1. /\ ntSent.out <= ntNow
            /\ ntNet \in {"served", "answer"} =>
                  ntSent.out <= ntSent.there /\ ntSent.there <= ntNow
            /\ ntNet = "answer" => ntSent.there <= ntSent.back /\ ntSent.back <= ntNow
        BY <2>1 DEF NtpInv, Asked
      <3>2. CASE Ntp!Tick
        BY <1>1, <1>3, <3>1, <3>2 DEF Ntp!Tick
      <3>3. CASE Ntp!ServerReceives
        BY <1>1, <3>1, <3>3 DEF Ntp!ServerReceives
      <3>4. CASE Ntp!ServerAnswers
        BY <1>1, <3>1, <3>4 DEF Ntp!ServerAnswers
      <3>5. CASE Ntp!Refuse \/ Ntp!Lose
        BY <3>5 DEF Ntp!Refuse, Ntp!Lose
      <3> QED BY <3>2, <3>3, <3>4, <3>5
    <2>2. ASSUME ntPc \in {"select", "recv"} PROVE ntSent.out <= ntNow'
      BY <1>1, <1>3, <2>2 DEF NtpInv, Asked
    <2> QED BY <1>2, <1>3, <1>4, <1>7, <2>1, <2>2 DEF NtpInv, Asked
  <1> QED BY <1>6, <1>8, <1>9 DEF NtpInv

\* The steps of the program, from the request to settimeofday.
LEMMA ClientKeeps ==
  ASSUME NtpInv, \/ Ntp!Request \/ Ntp!Selected \/ Ntp!SelectTimesOut
                 \/ Ntp!Receive \/ Ntp!Adjust \/ Ntp!SetClock
  PROVE  NtpInv'
  <1>1. /\ ntNow \in Nat /\ ntClock \in Int /\ ntTicks \in 0 .. MaxTicks
        /\ ntSent \in [out : Int, there : Int, back : Int, here : Int]
        /\ ntBuf \in [orits : StampSet, recvts : StampSet, transts : StampSet]
        /\ ntPc # "done" => ntClock >= 0
        /\ ntOffset \in Int
    BY DEF NtpInv, NtpTyped, Ntp!TypeOK
  <1>2. ntNow' = ntNow /\ ntTicks' = ntTicks
    BY DEF Ntp!Request, Ntp!Selected, Ntp!SelectTimesOut, Ntp!Receive, Ntp!Adjust, Ntp!SetClock
  <1>3. Ahead \in Int /\ ntNow + Ahead = ntClock
    BY <1>1 DEF Ahead
  <1>4. \A p \in [orits : StampSet, recvts : StampSet, transts : StampSet] :
           \A f \in DOMAIN p : p[f].sec \in 0 .. Era - 1 /\ p[f].frac \in 0 .. Second - 1
    BY DEF StampSet
  <1>5. CASE Ntp!Request
    <2>1. /\ ntPc = "start" /\ ntPc' = "select" /\ ntNet' = "request"
          /\ ntClock' = ntClock /\ ntOffset' = ntOffset /\ ntTv' = ntTv /\ ntOutcome' = ntOutcome
          /\ ntBuf' = [ntBuf EXCEPT !.transts = Ntp!Stamp(ntClock)]
          /\ ntSent' = [ntSent EXCEPT !.out = ntNow]
      BY <1>5 DEF Ntp!Request
    <2>2. ntSent' \in [out : Int, there : Int, back : Int, here : Int] /\ ntSent'.out = ntNow
      BY <1>1, <2>1
    <2>3. ntBuf' \in [orits : StampSet, recvts : StampSet, transts : StampSet]
      BY <1>1, <2>1, StampTypes
    <2>4. Ntp!TypeOK'
      BY <1>2, <1>4, <2>1, <2>3 DEF NtpInv, NtpTyped, Ntp!TypeOK
    <2>5. NtpTyped'
      BY <1>1, <2>1, <2>2, <2>3, <2>4 DEF NtpInv, NtpTyped
    <2>6. Ahead' = Ahead
      BY <1>2, <2>1 DEF Ahead
    <2>7. ntBuf' = RequestPacket'
      <3>1. ntBuf'.orits = Ntp!Zero /\ ntBuf'.recvts = Ntp!Zero
            /\ ntBuf'.transts = Ntp!Stamp(ntClock)
        BY <1>1, <2>1 DEF NtpInv, Asked
      <3>2. RequestPacket' = [orits |-> Ntp!Zero, recvts |-> Ntp!Zero,
                              transts |-> Ntp!Stamp(ntClock)]
        BY <1>3, <2>2, <2>6 DEF RequestPacket
      <3> QED BY <2>3, <3>1, <3>2
    <2>8. Asked'
      BY <1>1, <1>2, <1>3, <2>1, <2>2, <2>6, <2>7 DEF Asked
    <2>9. Answered'
      BY <2>1 DEF Answered
    <2> QED BY <2>5, <2>8, <2>9 DEF NtpInv
  <1>6. CASE Ntp!Selected
    <2>1. /\ ntPc = "select" /\ ntPc' = "recv" /\ ntNet \in {"answer", "refused"}
          /\ ntClock' = ntClock /\ ntBuf' = ntBuf /\ ntNet' = ntNet /\ ntSent' = ntSent
          /\ ntOffset' = ntOffset /\ ntTv' = ntTv /\ ntOutcome' = ntOutcome
      BY <1>6 DEF Ntp!Selected
    <2>2. NtpTyped'
      BY <1>2, <2>1 DEF NtpInv, NtpTyped, Ntp!TypeOK
    <2>3. Ahead' = Ahead /\ RequestPacket' = RequestPacket
      BY <1>2, <2>1 DEF Ahead, RequestPacket
    <2>4. Asked' /\ Answered'
      BY <1>2, <2>1, <2>3 DEF NtpInv, Asked, Answered
    <2> QED BY <2>2, <2>4 DEF NtpInv
  <1>7. CASE Ntp!SelectTimesOut
    <2>1. /\ ntPc' = "done" /\ ntOutcome' = "timeout"
          /\ ntClock' = ntClock /\ ntBuf' = ntBuf /\ ntNet' = ntNet /\ ntSent' = ntSent
          /\ ntOffset' = ntOffset
      BY <1>7 DEF Ntp!SelectTimesOut
    <2>2. NtpTyped'
      BY <1>2, <2>1 DEF NtpInv, NtpTyped, Ntp!TypeOK
    <2>3. Asked' /\ Answered'
      BY <2>1 DEF Asked, Answered
    <2> QED BY <2>2, <2>3 DEF NtpInv
  <1>8. CASE Ntp!Receive
    <2>1. /\ ntPc = "recv" /\ ntPc' = "adjust" /\ ntNet' = "none" /\ ntClock' = ntClock
          /\ ntBuf' = Ntp!Received /\ ntOffset' = Ntp!get_offset(Ntp!Received, ntClock)
          /\ ntSent' = [ntSent EXCEPT !.here = ntNow]
          /\ ntOutcome' = IF ntNet = "answer" THEN "answered" ELSE "refused"
      BY <1>8 DEF Ntp!Receive
    <2>2. /\ ntSent' \in [out : Int, there : Int, back : Int, here : Int]
          /\ ntSent'.out = ntSent.out /\ ntSent'.there = ntSent.there
          /\ ntSent'.back = ntSent.back /\ ntSent'.here = ntNow
      BY <1>1, <2>1
    <2>3. Ahead' = Ahead
      BY <1>2, <2>1 DEF Ahead
    <2>4. RequestPacket' = RequestPacket /\ AnswerPacket' = AnswerPacket
      BY <2>2, <2>3 DEF RequestPacket, AnswerPacket
    <2>5. ntBuf = RequestPacket
      BY <2>1 DEF NtpInv, Asked
    <2>6. ntBuf' = IF ntNet = "answer" THEN AnswerPacket ELSE RequestPacket
      BY <2>1, <2>5 DEF Ntp!Received, AnswerPacket, RequestPacket
    <2>7. ntBuf' \in [orits : StampSet, recvts : StampSet, transts : StampSet]
      <3>1. ntSent.out + Ahead \in Int /\ ntSent.there \in Int /\ ntSent.back \in Int
        BY <1>1, <1>3
      <3>2. AnswerPacket \in [orits : StampSet, recvts : StampSet, transts : StampSet]
        BY <3>1, StampTypes DEF AnswerPacket
      <3> QED BY <1>1, <2>5, <2>6, <3>2
    <2>8. ntOffset' = Ntp!get_offset(ntBuf', ntClock) /\ ntOffset' \in Int
      BY <1>1, <2>1, <2>7, OffsetIsNumber
    <2>9. Ntp!TypeOK'
      BY <1>2, <1>4, <2>1, <2>7, <2>8 DEF NtpInv, NtpTyped, Ntp!TypeOK
    <2>10. NtpTyped'
      BY <1>1, <2>1, <2>2, <2>7, <2>9 DEF NtpTyped
    <2>11. ntSent'.here + Ahead' = ntClock
      BY <1>3, <2>2, <2>3
    <2>12. ntOffset' = Ntp!get_offset(ntBuf', ntSent'.here + Ahead')
      BY <2>8, <2>11
    <2>13. (ntOffset = Ntp!get_offset(ntBuf, ntSent.here + Ahead))'
      BY <2>12 DEF Ntp!get_offset, Ntp!FromStamp
    <2>14. Answered'
      BY <1>1, <1>2, <2>1, <2>2, <2>3, <2>4, <2>6, <2>13 DEF NtpInv, Asked, Answered
    <2>15. Asked'
      BY <2>1 DEF Asked
    <2> QED BY <2>10, <2>14, <2>15 DEF NtpInv
  <1>9. CASE Ntp!Adjust
    <2>1. /\ ntPc = "adjust" /\ ntPc' = "set" /\ ntClock' = ntClock
          /\ ntBuf' = ntBuf /\ ntNet' = ntNet /\ ntSent' = ntSent
          /\ ntOffset' = ntOffset /\ ntOutcome' = ntOutcome
      BY <1>9 DEF Ntp!Adjust
    <2>a. PICK time \in Ntp!Adjusted(ntClock, ntOffset) : ntTv' = [read |-> ntClock, set |-> time]
      BY <1>9 DEF Ntp!Adjust
    <2>2. NtpTyped'
      BY <1>2, <2>1 DEF NtpInv, NtpTyped, Ntp!TypeOK
    <2>3. Ahead' = Ahead /\ RequestPacket' = RequestPacket /\ AnswerPacket' = AnswerPacket
      BY <1>2, <2>1 DEF Ahead, RequestPacket, AnswerPacket
    <2>4. Ntp!get_offset(ntBuf, ntSent.here + Ahead)'
              = Ntp!get_offset(ntBuf, ntSent.here + Ahead)
      BY <2>1, <2>3 DEF Ntp!get_offset
    <2>5. (/\ ntTv.read \in Int /\ ntTv.set \in Int
           /\ ntTv.set \in Ntp!Adjusted(ntTv.read, ntOffset))'
      BY <1>1, <2>1, <2>a, AdjustedIsNumber
    <2>6. Asked' /\ Answered'
      BY <1>2, <2>1, <2>3, <2>4, <2>5 DEF NtpInv, Asked, Answered
    <2> QED BY <2>2, <2>6 DEF NtpInv
  <1>10. CASE Ntp!SetClock
    <2>1. /\ ntPc = "set" /\ ntPc' = "done" /\ ntClock' \in {ntTv.set, ntClock}
          /\ ntBuf' = ntBuf /\ ntNet' = ntNet /\ ntSent' = ntSent
          /\ ntOffset' = ntOffset /\ ntOutcome' = ntOutcome
      BY <1>10 DEF Ntp!SetClock
    <2>2. ntTv.set \in Int
      BY <2>1 DEF NtpInv, Answered
    <2>3. NtpTyped'
      BY <1>1, <1>2, <2>1, <2>2 DEF NtpInv, NtpTyped, Ntp!TypeOK
    <2>4. Asked' /\ Answered'
      BY <2>1 DEF Asked, Answered
    <2> QED BY <2>3, <2>4 DEF NtpInv
  <1> QED BY <1>5, <1>6, <1>7, <1>8, <1>9, <1>10

\* A step of the program, of the world around it or of another part keeps the invariant.
LEMMA NtpNext == NtpInv /\ [ToolsNext]_toolVars => NtpInv'
  <1> SUFFICES ASSUME NtpInv, [ToolsNext]_toolVars PROVE NtpInv'
    OBVIOUS
  <1>1. CASE Ntp!Next
    BY <1>1, WorldKeeps, ClientKeeps DEF Ntp!Next
  <1>2. CASE UNCHANGED nt
    <2>1. /\ ntNow' = ntNow /\ ntTicks' = ntTicks /\ ntClock' = ntClock /\ ntPc' = ntPc
          /\ ntBuf' = ntBuf /\ ntNet' = ntNet /\ ntSent' = ntSent /\ ntOffset' = ntOffset
          /\ ntTv' = ntTv /\ ntOutcome' = ntOutcome
      BY <1>2 DEF nt
    <2>2. NtpTyped'
      BY <2>1 DEF NtpInv, NtpTyped, Ntp!TypeOK
    <2>3. Ahead' = Ahead /\ RequestPacket' = RequestPacket /\ AnswerPacket' = AnswerPacket
      BY <2>1 DEF Ahead, RequestPacket, AnswerPacket
    <2>4. /\ Ntp!get_offset(ntBuf, ntSent.here + Ahead)'
              = Ntp!get_offset(ntBuf, ntSent.here + Ahead)
          /\ Ntp!Adjusted(ntTv.read, ntOffset)' = Ntp!Adjusted(ntTv.read, ntOffset)
      BY <2>1, <2>3 DEF Ntp!get_offset
    <2>5. Asked' /\ Answered'
      BY <2>1, <2>3, <2>4 DEF NtpInv, Asked, Answered
    <2> QED BY <2>2, <2>5 DEF NtpInv
  <1> QED BY <1>1, <1>2 DEF ToolsNext, toolVars

\* What the time stamps of the exchange say, in this era.
LEMMA StampsSay ==
  ASSUME NtpInv, ntPc \in {"adjust", "set"}, Ntp!InEra
  PROVE  /\ Ntp!FromStamp(Ntp!Stamp(ntSent.out + Ahead)) = ntSent.out + Ahead
         /\ ntOutcome = "answered" =>
               /\ Ntp!FromStamp(Ntp!Stamp(ntSent.there)) = ntSent.there
               /\ Ntp!FromStamp(Ntp!Stamp(ntSent.back)) = ntSent.back
  <1>1. /\ ntNow \in Nat /\ ntClock \in Int
        /\ ntSent \in [out : Int, there : Int, back : Int, here : Int]
    BY DEF NtpInv, NtpTyped, Ntp!TypeOK
  <1>2. PICK y \in Int : y = Era * Second
    BY NtpAssumption
  <1>3. ntSent.here < y /\ ntClock < y
    BY <1>2 DEF Ntp!InEra
  <1>4. ntSent.out + Ahead \in Nat /\ ntSent.out + Ahead < y
    BY <1>1, <1>3 DEF NtpInv, Answered, Ahead
  <1>5. ASSUME ntOutcome = "answered"
        PROVE  /\ ntSent.there \in Nat /\ ntSent.there < y
               /\ ntSent.back \in Nat /\ ntSent.back < y
    BY <1>1, <1>3, <1>5 DEF NtpInv, Answered
  <1> QED BY <1>2, <1>4, <1>5, StampKeepsTime

\* The offset of a real answer is the error of the clock, and half of the asymmetry.
LEMMA OffsetRight == NtpInv => Ntp!OffsetIsRight
  <1> SUFFICES ASSUME NtpInv PROVE Ntp!OffsetIsRight
    OBVIOUS
  <1>1. /\ ntNow \in Nat /\ ntClock \in Int /\ ntOffset \in Int
        /\ ntSent \in [out : Int, there : Int, back : Int, here : Int]
        /\ Ahead \in Int /\ Ahead = ntClock - ntNow
    BY DEF NtpInv, NtpTyped, Ntp!TypeOK, Ahead
  <1>2. Second \in Int /\ Second > 0 /\ 2 * Second \in Int /\ 2 * Second > 0
    BY NtpAssumption
  <1>3. PICK o, th, ba, he \in Int : /\ o = ntSent.out /\ th = ntSent.there
                                     /\ ba = ntSent.back /\ he = ntSent.here
    BY <1>1
  <1>4. ASSUME ntPc \in {"adjust", "set"}, ntOutcome = "answered", Ntp!InEra
        PROVE  /\ Ntp!FromStamp(ntBuf.orits) = o + Ahead
               /\ Ntp!FromStamp(ntBuf.recvts) = th /\ Ntp!FromStamp(ntBuf.transts) = ba
    <2>1. ntBuf = AnswerPacket
      BY <1>4 DEF NtpInv, Answered
    <2>2. /\ ntBuf.orits = Ntp!Stamp(ntSent.out + Ahead) /\ ntBuf.recvts = Ntp!Stamp(ntSent.there)
          /\ ntBuf.transts = Ntp!Stamp(ntSent.back)
      BY <2>1 DEF AnswerPacket
    <2> QED BY <1>3, <1>4, <2>2, StampsSay
  <1>5. ASSUME ntPc = "set", ntOutcome = "answered", Ntp!InEra, Ntp!NearEnough
        PROVE  2 * Ntp!Abs((ntTv.read - ntClock) + ntNow - ntTv.set)
                 < 2 * Second + Ntp!Abs(Ntp!Asymmetry)
    <2>1. ntOffset = (th - (o + Ahead)) + (ba - (he + Ahead))
      BY <1>3, <1>4, <1>5 DEF NtpInv, Answered, Ntp!get_offset
    <2>2. PICK q \in Int : /\ q = Ntp!Truncate(ntOffset, 2 * Second)
                           /\ -(2 * Second) < ntOffset - 2 * Second * q
                           /\ ntOffset - 2 * Second * q < 2 * Second
      BY <1>1, <1>2, TruncateLeaves
    <2>3. PICK z \in Int : z = Second * q
      BY <1>2
    <2>4. 2 * Second * q = 2 * z
      BY <1>2, <2>3
    <2>7. PICK a \in Int : a = Ntp!Asymmetry /\ a = (th - o) - (he - ba)
      BY <1>3 DEF Ntp!Asymmetry
    <2>8. ntOffset = a - 2 * Ahead
      BY <1>1, <2>1, <2>7
    <2>a. q \in Ntp!IntRange
      <3>1. PICK y \in Int : y = Era * Second
        BY NtpAssumption
      <3>2. 2 * Ntp!Abs(Ahead) + Ntp!Abs(a) < y
        BY <1>1, <1>5, <2>7, <3>1 DEF Ntp!NearEnough
      <3>3. -y < ntOffset /\ ntOffset < y
        BY <1>1, <2>7, <2>8, <3>1, <3>2 DEF Ntp!Abs
      <3> QED BY <1>1, <2>2, <3>1, <3>3, HalfFits
    <2>5. ntTv.read \in Int /\ ntTv.set = ntTv.read + z
      BY <1>5, <2>2, <2>3, <2>a DEF NtpInv, Answered, Ntp!Adjusted
    <2>6. (ntTv.read - ntClock) + ntNow - ntTv.set = -(Ahead + z)
      BY <1>1, <2>5
    <2>9. -(2 * Second) < a - 2 * Ahead - 2 * z /\ a - 2 * Ahead - 2 * z < 2 * Second
      BY <2>2, <2>4, <2>8
    <2> QED BY <1>1, <1>2, <2>6, <2>7, <2>9 DEF Ntp!Abs
  <1>6. ASSUME ntPc = "adjust", ntOutcome = "answered", Ntp!InEra, ntSent.here = ntNow
        PROVE  Ntp!get_rrt(ntBuf, ntClock)
                 = (ntSent.there - ntSent.out) + (ntSent.here - ntSent.back)
    <2>1. Ntp!get_rrt(ntBuf, ntClock) = (ntClock - (o + Ahead)) - (ba - th)
      BY <1>4, <1>6 DEF Ntp!get_rrt
    <2> QED BY <1>1, <1>3, <1>6, <2>1
  <1> QED BY <1>5, <1>6 DEF Ntp!OffsetIsRight

\* A refused request leaves the request in the buffer: the offset is minus half of the
\* time that went by, whatever the server's clock says.
LEMMA RefusedOffset == NtpInv => Ntp!UnansweredKeepsClock
  <1> SUFFICES ASSUME NtpInv, ntPc = "set", ntOutcome # "answered", Ntp!InEra
               PROVE  /\ ntOutcome = "refused"
                      /\ ntTv.set = ntTv.read
                           - Second * ((ntSent.here - ntSent.out) \div (2 * Second))
    BY DEF Ntp!UnansweredKeepsClock
  <1>1. /\ ntNow \in Nat /\ ntClock \in Int /\ ntOffset \in Int
        /\ ntSent \in [out : Int, there : Int, back : Int, here : Int]
        /\ Ahead \in Int
    BY DEF NtpInv, NtpTyped, Ntp!TypeOK, Ahead
  <1>2. Second \in Int /\ Second > 0 /\ 2 * Second \in Int /\ 2 * Second > 0
    BY NtpAssumption
  <1>3. ntOutcome = "refused" /\ ntBuf = RequestPacket
    BY DEF NtpInv, Answered
  <1>4. PICK o, he \in Int : o = ntSent.out /\ he = ntSent.here /\ o <= he
    BY <1>1 DEF NtpInv, Answered
  <1>5. PICK e \in Int : e = Ntp!FromStamp(Ntp!Zero)
    BY StampTypes
  <1>6. /\ Ntp!FromStamp(ntBuf.orits) = e /\ Ntp!FromStamp(ntBuf.recvts) = e
        /\ Ntp!FromStamp(ntBuf.transts) = o + Ahead
    <2>1. ntBuf.orits = Ntp!Zero /\ ntBuf.recvts = Ntp!Zero
          /\ ntBuf.transts = Ntp!Stamp(ntSent.out + Ahead)
      BY <1>3 DEF RequestPacket
    <2> QED BY <1>4, <1>5, <2>1, StampsSay
  <1>7. ntOffset = (e - e) + ((o + Ahead) - (he + Ahead))
    BY <1>4, <1>6 DEF NtpInv, Answered, Ntp!get_offset
  <1>8. ntOffset = o - he /\ -ntOffset = he - o
    BY <1>1, <1>7
  <1>9. PICK q \in Int : q = (he - o) \div (2 * Second)
    BY <1>2, DivisionLeaves
  <1>10. Ntp!Truncate(ntOffset, 2 * Second) = -q
    <2>1. CASE o = he
      <3>1. ntOffset = 0 /\ he - o = 0
        BY <1>8, <2>1
      <3>2. 0 \div (2 * Second) = 0
        <4>1. PICK p, r \in Int : /\ p = 0 \div (2 * Second)
                                  /\ 0 = (2 * Second) * p + r /\ 0 <= r /\ r < 2 * Second
          BY <1>2, DivisionLeaves
        <4>2. PICK u \in Int : u = 2 * Second /\ u > 0
          BY <1>2
        <4>3. ~(p >= 1)
          <5>1. SUFFICES ASSUME 1 <= p PROVE FALSE
            OBVIOUS
          <5>2. u * 1 <= u * p
            BY <4>2, <5>1, ProductGrows
          <5>3. PICK w \in Int : w = u * p
            OBVIOUS
          <5> QED BY <4>1, <4>2, <5>2, <5>3
        <4>4. ~(p <= -1)
          <5>1. SUFFICES ASSUME p <= -1 PROVE FALSE
            OBVIOUS
          <5>2. u * p <= u * (-1)
            BY <4>2, <5>1, ProductGrows
          <5>3. PICK w \in Int : w = u * p
            OBVIOUS
          <5> QED BY <4>1, <4>2, <5>2, <5>3
        <4> QED BY <4>1, <4>3, <4>4
      <3> QED BY <1>9, <3>1, <3>2 DEF Ntp!Truncate
    <2>2. CASE o < he
      <3>1. ~(ntOffset >= 0)
        BY <1>8, <2>2
      <3> QED BY <1>8, <1>9, <3>1 DEF Ntp!Truncate
    <2> QED BY <1>4, <2>1, <2>2
  <1>a. -q \in Ntp!IntRange
    <2>1. PICK y \in Int : y = Era * Second
      BY NtpAssumption
    <2>2. he < y /\ 0 <= o
      BY <1>4, <2>1 DEF Ntp!InEra, NtpInv, Answered
    <2>3. -y < ntOffset /\ ntOffset < y
      BY <1>4, <1>8, <2>1, <2>2
    <2> QED BY <1>1, <1>10, <2>1, <2>3, HalfFits
  <1>11. ntTv.read \in Int /\ ntTv.set = ntTv.read + Second * (-q)
    BY <1>10, <1>a DEF NtpInv, Answered, Ntp!Adjusted
  <1> QED BY <1>2, <1>3, <1>4, <1>9, <1>11

\* For every delay of the packets and every width of the fields: after an answer the
\* clock is set right up to less than a second and half of the asymmetry of the ways, as
\* long as its error fits into an int, and without one it goes back by half of the time
\* waited at most (main of ntp.c, with get_offset and settimeofday).
THEOREM ClockIsSetRight == ToolsSpec => []ClockSetRight
  <1>1. ToolsInit => NtpInv
    BY NtpInit
  <1>2. NtpInv /\ [ToolsNext]_toolVars => NtpInv'
    BY NtpNext
  <1>3. NtpInv => ClockSetRight
    BY OffsetRight, RefusedOffset DEF NtpInv, NtpTyped, ClockSetRight
  <1> QED BY <1>1, <1>2, <1>3, PTL DEF ToolsSpec
-------------------------------------------------------------------------------
(* DevList: the walk along a list.                                         *)

Refs == ListNodes \cup {NULL}
Memory == [ListNodes -> {FREE} \cup [data : DeviceSet, next : Refs]]

\* f gives the k nodes of a list that begins at from, along the next fields of mem.
Strung(f, k, from, mem) ==
    /\ f \in [1 .. k -> ListNodes]
    /\ from = IF k = 0 THEN NULL ELSE f[1]
    /\ \A i \in 1 .. k : mem[f[i]] # FREE
    /\ \A i \in 1 .. k : mem[f[i]].next = IF i = k THEN NULL ELSE f[i + 1]
    /\ \A i, j \in 1 .. k : f[i] = f[j] => i = j

\* The recursive equation of Walk, the function it defines, and what Walk makes of it.
Stepped(g, from, mem) ==
    g = [k \in 0 .. Dev!Cardinality(ListNodes) |->
            IF k = 0 THEN from
            ELSE IF g[k - 1] = NULL \/ mem[g[k - 1]] = FREE THEN NULL
                 ELSE mem[g[k - 1]].next]
Steps(from, mem) == CHOOSE g : Stepped(g, from, mem)
Met(g) == {k \in 0 .. Dev!Cardinality(ListNodes) - 1 : g[k] # NULL}
RowFrom(from, mem) ==
    [i \in 1 .. Dev!Cardinality(Met(Steps(from, mem))) |-> Steps(from, mem)[i - 1]]

\* The cardinality of DevList is that of FiniteSets.
LEMMA SameCardinality == \A S : Dev!Cardinality(S) = Cardinality(S)
  BY DEF Dev!Cardinality, Cardinality

\* The row of a list in a memory is what the list's functions walk along.
LEMMA RowIsWalk ==
  /\ \A l \in ListSet : Dev!NodesOf(l) = RowFrom(dlHead[l], dlNode)
  /\ \A l \in ListSet : Dev!NodesOf(l)' = RowFrom(dlHead'[l], dlNode')
  BY DEF Dev!NodesOf, Dev!Walk, RowFrom, Steps, Met, Stepped

\* A function that satisfies the equation is the one it defines.
LEMMA StepsUnique ==
  ASSUME NEW from, NEW mem, NEW w, Stepped(w, from, mem)
  PROVE  Steps(from, mem) = w
  <1> DEFINE v == CHOOSE g : Stepped(g, from, mem)
  <1>0. PICK c \in Nat : c = Dev!Cardinality(ListNodes)
    BY SameCardinality, ListAssumption, FS_CardinalityType
  <1>1. Stepped(v, from, mem)
    BY Zenon
  <1> HIDE DEF v
  <1>2. \A k \in 0 .. c : v[k] = w[k]
    <2>1. StepwiseEqual(v, w, 0, c)
      BY <1>0, <1>1 DEF StepwiseEqual, Stepped
    <2>2. 0 \in Nat /\ c \in Int
      OBVIOUS
    <2> QED BY <2>1, <2>2, EqualAlong
  <1>3. v = [k \in 0 .. c |-> v[k]] /\ w = [k \in 0 .. c |-> w[k]]
    BY <1>0, <1>1 DEF Stepped
  <1>4. v = w
    BY <1>2, <1>3
  <1> QED BY <1>4 DEF v, Steps

\* A row has no more nodes than there are.
LEMMA RowFits ==
  ASSUME NEW k \in Nat, NEW f, NEW from, NEW mem, Strung(f, k, from, mem)
  PROVE  k <= Cardinality(ListNodes)
  <1>1. f \in Injection(1 .. k, ListNodes)
    BY DEF Strung, Injection, IsInjective
  <1>2. Cardinality(1 .. k) <= Cardinality(ListNodes)
    BY <1>1, ListAssumption, FS_Injection
  <1>3. Cardinality(1 .. k) = k
    BY FS_Interval
  <1> QED BY <1>2, <1>3

\* The walk along the nodes of f finds exactly them.
LEMMA RowStrung ==
  ASSUME NEW k \in Nat, NEW f, NEW from, NEW mem, Strung(f, k, from, mem)
  PROVE  RowFrom(from, mem) = f
  <1>0. PICK c \in Nat : c = Dev!Cardinality(ListNodes)
    BY SameCardinality, ListAssumption, FS_CardinalityType
  <1>1. k <= c
    BY <1>0, SameCardinality, RowFits
  <1> DEFINE w == [j \in 0 .. c |-> IF j < k THEN f[j + 1] ELSE NULL]
  <1>2. \A i \in 1 .. k : f[i] # NULL
    BY ListAssumption DEF Strung
  <1>3. ASSUME NEW j \in 0 .. c
        PROVE  w[j] = IF j = 0 THEN from
                      ELSE IF w[j - 1] = NULL \/ mem[w[j - 1]] = FREE THEN NULL
                           ELSE mem[w[j - 1]].next
    <2>1. CASE j = 0
      <3>1. from = IF k = 0 THEN NULL ELSE f[1]
        BY DEF Strung
      <3> QED BY <2>1, <3>1
    <2>2. CASE j # 0 /\ j <= k
      <3>1. j \in 1 .. k /\ j - 1 \in 0 .. c /\ j - 1 < k /\ (j - 1) + 1 = j
        BY <1>1, <2>2
      <3>2. w[j - 1] = f[j]
        BY <3>1
      <3>3. mem[f[j]] # FREE /\ mem[f[j]].next = IF j = k THEN NULL ELSE f[j + 1]
        BY <3>1 DEF Strung
      <3>4. w[j] = IF j = k THEN NULL ELSE f[j + 1]
        BY <2>2
      <3> HIDE DEF w
      <3> QED BY <1>2, <2>2, <3>1, <3>2, <3>3, <3>4
    <2>3. CASE j > k
      <3>1. j - 1 \in 0 .. c /\ ~(j - 1 < k) /\ ~(j < k) /\ j # 0
        BY <2>3
      <3>2. w[j - 1] = NULL /\ w[j] = NULL
        BY <3>1
      <3> QED BY <3>1, <3>2
    <2> QED BY <2>1, <2>2, <2>3
  <1>4. Stepped(w, from, mem)
    <2>1. w = [j \in 0 .. c |-> w[j]]
      OBVIOUS
    <2> HIDE DEF w
    <2> QED BY <1>0, <1>3, <2>1 DEF Stepped
  <1>5. Steps(from, mem) = w
    <2> HIDE DEF w
    <2> QED BY <1>4, StepsUnique
  <1>6. Met(w) = 0 .. k - 1
    BY <1>0, <1>1, <1>2 DEF Met
  <1>7. Dev!Cardinality(Met(w)) = k
    <2> HIDE DEF w
    <2>1. Cardinality(0 .. k - 1) = k
      BY FS_Interval
    <2> QED BY <1>6, <2>1, SameCardinality
  <1>8. \A i \in 1 .. k : w[i - 1] = f[i]
    <2> SUFFICES ASSUME NEW i \in 1 .. k PROVE w[i - 1] = f[i]
      OBVIOUS
    <2>1. i - 1 \in 0 .. c /\ i - 1 < k /\ (i - 1) + 1 = i
      BY <1>1
    <2> QED BY <2>1
  <1> HIDE DEF w
  <1>9. RowFrom(from, mem) = [i \in 1 .. k |-> w[i - 1]]
    BY <1>5, <1>7 DEF RowFrom
  <1>10. f = [i \in 1 .. k |-> f[i]]
    BY DEF Strung
  <1> QED BY <1>8, <1>9, <1>10
-------------------------------------------------------------------------------
(* DevList: the lists in memory.                                           *)

\* The nodes of a row hold the devices of t.
Filled(f, t, mem) == \A i \in 1 .. Len(t) : mem[f[i]].data = t[i]

\* n is in the row of list l.
InRow(c, tb, l, n) == \E i \in 1 .. Len(tb[l]) : c[l][i] = n

\* c gives the row of every list that is in use: the rows hold what the tables say,
\* no node is in two of them, and every allocated node is in one.
Kept(c, hd, nd, tb, gv) ==
    /\ DOMAIN c = ListSet
    /\ \A l \in ListSet \ gv : Strung(c[l], Len(tb[l]), hd[l], nd) /\ Filled(c[l], tb[l], nd)
    /\ \A l, m \in ListSet \ gv : \A n \in ListNodes :
          InRow(c, tb, l, n) /\ InRow(c, tb, m, n) => l = m
    /\ \A n \in ListNodes : nd[n] # FREE => \E l \in ListSet \ gv : InRow(c, tb, l, n)

\* The rows are what the functions of list.c walk along.
LEMMA KeptIsWalk ==
  ASSUME NEW c, NEW hd, NEW nd, NEW tb \in [ListSet -> Seq(DeviceSet)], NEW gv,
         Kept(c, hd, nd, tb, gv), NEW l \in ListSet \ gv
  PROVE  RowFrom(hd[l], nd) = c[l]
  <1>1. Len(tb[l]) \in Nat
    BY LenProperties
  <1>2. Strung(c[l], Len(tb[l]), hd[l], nd)
    BY DEF Kept
  <1> QED BY <1>1, <1>2, RowStrung

\* The row of list l, which was c[l], becomes f: its nodes are of the old row or were
\* free, what falls out of the row is freed, and other nodes stay as they were.
Rerowed(c, l, f, nd, nd2, tb, t) ==
    /\ \A n \in ListNodes :
          ~InRow(c, tb, l, n) /\ (\A i \in 1 .. Len(t) : f[i] # n) => nd2[n] = nd[n]
    /\ \A i \in 1 .. Len(t) : InRow(c, tb, l, f[i]) \/ nd[f[i]] = FREE
    /\ \A n \in ListNodes :
          InRow(c, tb, l, n) => nd2[n] = FREE \/ \E i \in 1 .. Len(t) : f[i] = n

\* A call that changes one list leaves the other ones alone.
LEMMA RowReplaced ==
  ASSUME NEW c, NEW hd \in [ListSet -> Refs], NEW nd, NEW nd2,
         NEW tb \in [ListSet -> Seq(DeviceSet)],
         NEW gv, Kept(c, hd, nd, tb, gv), NEW l \in ListSet \ gv,
         NEW f, NEW h \in Refs, NEW t \in Seq(DeviceSet),
         Strung(f, Len(t), h, nd2), Filled(f, t, nd2), Rerowed(c, l, f, nd, nd2, tb, t)
  PROVE  Kept([c EXCEPT ![l] = f], [hd EXCEPT ![l] = h], nd2, [tb EXCEPT ![l] = t], gv)
  <1> DEFINE c2 == [c EXCEPT ![l] = f]
             hd2 == [hd EXCEPT ![l] = h]
             tb2 == [tb EXCEPT ![l] = t]
  <1>0. DOMAIN c = ListSet /\ l \in ListSet
    BY DEF Kept
  <1>1. c2[l] = f /\ hd2[l] = h /\ tb2[l] = t
    BY <1>0
  <1>2. \A m \in ListSet : m # l => c2[m] = c[m] /\ hd2[m] = hd[m] /\ tb2[m] = tb[m]
    BY <1>0
  <1>3. DOMAIN c2 = ListSet
    BY <1>0
  <1> HIDE DEF c2, hd2, tb2
  <1>4. \A n \in ListNodes : InRow(c2, tb2, l, n) <=> \E i \in 1 .. Len(t) : f[i] = n
    BY <1>1 DEF InRow
  <1>5. \A m \in ListSet, n \in ListNodes : m # l => (InRow(c2, tb2, m, n) <=> InRow(c, tb, m, n))
    BY <1>2 DEF InRow
  <1>6. \A i \in 1 .. Len(t) : f[i] \in ListNodes /\ nd2[f[i]] # FREE
    BY DEF Strung
  <1>7. ASSUME NEW m \in ListSet \ gv, m # l, NEW n \in ListNodes, InRow(c, tb, m, n)
        PROVE  /\ nd2[n] = nd[n] /\ nd[n] # FREE
               /\ \A i \in 1 .. Len(t) : f[i] # n
    <2>1. ~InRow(c, tb, l, n)
      BY <1>7 DEF Kept
    <2>2. nd[n] # FREE
      BY <1>7 DEF Kept, Strung, InRow
    <2>3. \A i \in 1 .. Len(t) : f[i] # n
      BY <2>1, <2>2 DEF Rerowed
    <2> QED BY <2>1, <2>2, <2>3 DEF Rerowed
  <1>8. ASSUME NEW m \in ListSet \ gv
        PROVE  Strung(c2[m], Len(tb2[m]), hd2[m], nd2) /\ Filled(c2[m], tb2[m], nd2)
    <2>1. CASE m = l
      BY <1>1, <2>1
    <2>2. CASE m # l
      <3>1. Strung(c[m], Len(tb[m]), hd[m], nd) /\ Filled(c[m], tb[m], nd)
        BY DEF Kept
      <3>2. \A i \in 1 .. Len(tb[m]) : c[m][i] \in ListNodes /\ InRow(c, tb, m, c[m][i])
        BY <3>1 DEF Strung, InRow
      <3>3. \A i \in 1 .. Len(tb[m]) : nd2[c[m][i]] = nd[c[m][i]]
        BY <1>7, <2>2, <3>2
      <3>4. Strung(c[m], Len(tb[m]), hd[m], nd2)
        BY <3>1, <3>3 DEF Strung
      <3>5. Filled(c[m], tb[m], nd2)
        BY <3>1, <3>3 DEF Filled
      <3> QED BY <1>2, <2>2, <3>4, <3>5
    <2> QED BY <2>1, <2>2
  <1>9. ASSUME NEW m \in ListSet \ gv, NEW o \in ListSet \ gv, NEW n \in ListNodes,
               InRow(c2, tb2, m, n), InRow(c2, tb2, o, n)
        PROVE  m = o
    <2>1. m # l /\ o # l => m = o
      BY <1>5, <1>9 DEF Kept
    <2>2. ~(m = l /\ o # l)
      BY <1>4, <1>5, <1>7, <1>9
    <2>3. ~(o = l /\ m # l)
      BY <1>4, <1>5, <1>7, <1>9
    <2> QED BY <2>1, <2>2, <2>3
  <1>10. ASSUME NEW n \in ListNodes, nd2[n] # FREE
         PROVE  \E m \in ListSet \ gv : InRow(c2, tb2, m, n)
    <2>1. CASE \E i \in 1 .. Len(t) : f[i] = n
      BY <1>4, <2>1
    <2>2. CASE ~\E i \in 1 .. Len(t) : f[i] = n
      <3>1. ~InRow(c, tb, l, n)
        BY <1>10, <2>2 DEF Rerowed
      <3>2. nd[n] # FREE
        BY <1>10, <2>2, <3>1 DEF Rerowed
      <3>3. PICK m \in ListSet \ gv : InRow(c, tb, m, n)
        BY <3>2 DEF Kept
      <3> QED BY <1>5, <3>1, <3>3
    <2> QED BY <2>1, <2>2
  <1> QED BY <1>3, <1>8, <1>9, <1>10 DEF Kept, c2, hd2, tb2
-------------------------------------------------------------------------------
(* DevList: the static places of list_iter and list_cycle.                 *)

PlaceType == [iter : Refs, flag : BOOLEAN, cycle : Refs, cycled : ListSet \cup {NULL}]
RoundType == [list : ListSet \cup {NULL}, due : SUBSET ListNodes, came : SUBSET ListNodes,
              astray : BOOLEAN, moved : BOOLEAN]

\* y is x or comes behind it in a row.
Behind(f, k, x, y) == \E p, q \in 1 .. k : p <= q /\ f[p] = x /\ f[q] = y

\* A round belongs to a list that is in use.  While its place was not removed, the place
\* is in the list, and, as long as the order stays, what is due and did not come is ahead
\* of it.  The place of list_cycle is in the list it was last called for.
AtPlace(c, tb, gv, pl, rd) ==
    /\ ~pl.flag => rd = Dev!NoRound
    /\ pl.flag => rd.list \in ListSet \ gv
    /\ pl.flag /\ ~rd.astray => pl.iter = NULL \/ InRow(c, tb, rd.list, pl.iter)
    /\ pl.flag /\ ~rd.astray /\ ~rd.moved =>
          \A n \in rd.due \ rd.came : Behind(c[rd.list], Len(tb[rd.list]), pl.iter, n)
    /\ pl.cycled # NULL =>
          pl.cycled \notin gv /\ (pl.cycle = NULL \/ InRow(c, tb, pl.cycled, pl.cycle))

\* The rows of the other lists are the same.
OthersSame(c, tb, c2, tb2, l) == \A m \in ListSet \ {l} : c2[m] = c[m] /\ tb2[m] = tb[m]

\* The rows of the lists in use hold nodes.
OfNodes(c, tb, gv) == \A m \in ListSet \ gv : \A i \in 1 .. Len(tb[m]) : c[m][i] \in ListNodes

\* Nodes that are added, at the end or with new data, do not disturb a round.
LEMMA PlaceStays ==
  ASSUME NEW c, NEW tb, NEW gv, NEW pl \in PlaceType, NEW rd \in RoundType,
         AtPlace(c, tb, gv, pl, rd), NEW l \in ListSet, NEW c2, NEW tb2,
         OthersSame(c, tb, c2, tb2, l),
         \A x, y \in ListNodes :
            Behind(c[l], Len(tb[l]), x, y) => Behind(c2[l], Len(tb2[l]), x, y),
         \A x \in ListNodes : InRow(c, tb, l, x) => InRow(c2, tb2, l, x),
         OfNodes(c, tb, gv)
  PROVE  AtPlace(c2, tb2, gv, pl, rd)
  <1>1. \A m \in ListSet, x \in ListNodes : InRow(c, tb, m, x) => InRow(c2, tb2, m, x)
    BY DEF OthersSame, InRow
  <1>2. \A m \in ListSet : \A x, y \in ListNodes :
           Behind(c[m], Len(tb[m]), x, y) => Behind(c2[m], Len(tb2[m]), x, y)
    BY DEF OthersSame, Behind
  <1>3. \A m \in ListSet \ gv : \A x, y :
           Behind(c[m], Len(tb[m]), x, y) => x \in ListNodes /\ y \in ListNodes
    BY DEF Behind, OfNodes
  <1>4. \A m \in ListSet \ gv : \A x : InRow(c, tb, m, x) => x \in ListNodes
    BY DEF InRow, OfNodes
  <1>5. ASSUME pl.flag, ~rd.astray
        PROVE  pl.iter = NULL \/ InRow(c2, tb2, rd.list, pl.iter)
    BY <1>1, <1>4, <1>5 DEF AtPlace
  <1>6. ASSUME pl.flag, ~rd.astray, ~rd.moved, NEW n \in rd.due \ rd.came
        PROVE  Behind(c2[rd.list], Len(tb2[rd.list]), pl.iter, n)
    <2>1. rd.list \in ListSet \ gv /\ Behind(c[rd.list], Len(tb[rd.list]), pl.iter, n)
      BY <1>6 DEF AtPlace
    <2> QED BY <1>2, <1>3, <2>1
  <1>7. ASSUME pl.cycled # NULL
        PROVE  pl.cycled \notin gv /\ (pl.cycle = NULL \/ InRow(c2, tb2, pl.cycled, pl.cycle))
    <2>1. pl.cycled \in ListSet \ gv
      BY <1>7 DEF AtPlace, PlaceType
    <2> QED BY <1>1, <1>4, <1>7, <2>1 DEF AtPlace
  <1>8. (~pl.flag => rd = Dev!NoRound) /\ (pl.flag => rd.list \in ListSet \ gv)
    BY DEF AtPlace
  <1> QED BY <1>5, <1>6, <1>7, <1>8 DEF AtPlace

\* RoundWithout and CycleWithout, of a place and a round.
WithoutRound(pl, rd, n) ==
    [rd EXCEPT !.due = @ \ {n}, !.astray = @ \/ (pl.flag /\ pl.iter = n)]
WithoutPlace(pl, n) == [pl EXCEPT !.cycled = IF pl.cycle = n THEN NULL ELSE @]

\* The nodes of S keep their order in the list l.
OrderKept(c, tb, c2, tb2, l, S) ==
    /\ \A x, y \in S : Behind(c[l], Len(tb[l]), x, y) => Behind(c2[l], Len(tb2[l]), x, y)
    /\ \A x \in S : InRow(c, tb, l, x) => InRow(c2, tb2, l, x)

\* A node that is removed is no longer due; at the place of a round it leads it astray.
LEMMA PlaceWithout ==
  ASSUME NEW c, NEW tb, NEW gv, NEW pl \in PlaceType, NEW rd \in RoundType,
         AtPlace(c, tb, gv, pl, rd), NEW l \in ListSet, NEW c2, NEW tb2,
         OthersSame(c, tb, c2, tb2, l), NEW gone \in ListNodes,
         OrderKept(c, tb, c2, tb2, l, ListNodes \ {gone}), OfNodes(c, tb, gv)
  PROVE  /\ WithoutPlace(pl, gone) \in PlaceType /\ WithoutRound(pl, rd, gone) \in RoundType
         /\ AtPlace(c2, tb2, gv, WithoutPlace(pl, gone), WithoutRound(pl, rd, gone))
  <1> DEFINE pl2 == WithoutPlace(pl, gone)
             rd2 == WithoutRound(pl, rd, gone)
  <1>1. /\ pl2 \in PlaceType /\ pl2.iter = pl.iter /\ pl2.flag = pl.flag /\ pl2.cycle = pl.cycle
        /\ pl2.cycled = IF pl.cycle = gone THEN NULL ELSE pl.cycled
    BY DEF PlaceType, WithoutPlace
  <1>2. /\ rd2 \in RoundType /\ rd2.list = rd.list /\ rd2.came = rd.came /\ rd2.moved = rd.moved
        /\ rd2.due = rd.due \ {gone}
        /\ rd2.astray = (rd.astray \/ (pl.flag /\ pl.iter = gone))
    BY DEF RoundType, WithoutRound, PlaceType
  <1>3. ~pl.flag => rd2 = Dev!NoRound
    <2> SUFFICES ASSUME ~pl.flag PROVE rd2 = Dev!NoRound
      OBVIOUS
    <2>1. rd = Dev!NoRound
      BY DEF AtPlace
    <2>2. rd2.list = NULL /\ rd2.due = {} /\ rd2.came = {} /\ rd2.moved = FALSE
          /\ rd2.astray = FALSE
      BY <1>2, <2>1 DEF Dev!NoRound
    <2> QED BY <1>2, <2>2 DEF RoundType, Dev!NoRound
  <1> HIDE DEF pl2, rd2
  <1>4. \A m \in ListSet \ gv, x \in ListNodes \ {gone} : InRow(c, tb, m, x) => InRow(c2, tb2, m, x)
    BY DEF OthersSame, InRow, OrderKept
  <1>5. \A m \in ListSet : \A x, y \in ListNodes \ {gone} :
           Behind(c[m], Len(tb[m]), x, y) => Behind(c2[m], Len(tb2[m]), x, y)
    BY DEF OthersSame, Behind, OrderKept
  <1>6. \A m \in ListSet \ gv : \A x, y :
           Behind(c[m], Len(tb[m]), x, y) => x \in ListNodes /\ y \in ListNodes
    BY DEF Behind, OfNodes
  <1>7. \A m \in ListSet \ gv : \A x : InRow(c, tb, m, x) => x \in ListNodes
    BY DEF InRow, OfNodes
  <1>8. ASSUME pl.flag, ~rd2.astray
        PROVE  pl.iter = NULL \/ InRow(c2, tb2, rd.list, pl.iter)
    BY <1>2, <1>4, <1>7, <1>8 DEF AtPlace
  <1>9. ASSUME pl.flag, ~rd2.astray, ~rd.moved, NEW n \in rd2.due \ rd.came
        PROVE  Behind(c2[rd.list], Len(tb2[rd.list]), pl.iter, n)
    <2>1. n \in rd.due \ rd.came /\ n # gone /\ ~rd.astray /\ pl.iter # gone
      BY <1>2, <1>9
    <2>2. rd.list \in ListSet \ gv /\ Behind(c[rd.list], Len(tb[rd.list]), pl.iter, n)
      BY <1>9, <2>1 DEF AtPlace
    <2> QED BY <1>5, <1>6, <2>1, <2>2
  <1>10. ASSUME pl2.cycled # NULL
         PROVE  pl2.cycled \notin gv /\ (pl.cycle = NULL \/ InRow(c2, tb2, pl2.cycled, pl.cycle))
    <2>1. pl2.cycled = pl.cycled /\ pl.cycle # gone /\ pl.cycled \in ListSet \ gv
      BY <1>1, <1>10 DEF AtPlace, PlaceType
    <2> QED BY <1>4, <1>7, <1>10, <2>1 DEF AtPlace
  <1>11. pl.flag => rd.list \in ListSet \ gv
    BY DEF AtPlace
  <1> QED BY <1>1, <1>2, <1>3, <1>8, <1>9, <1>10, <1>11 DEF AtPlace, pl2, rd2

\* RoundMoved, of a place and a round.
MovedRound(pl, rd) == IF pl.flag THEN [rd EXCEPT !.moved = TRUE] ELSE rd

\* A list whose order changes keeps the places in it.
LEMMA PlaceMoved ==
  ASSUME NEW c, NEW tb, NEW gv, NEW pl \in PlaceType, NEW rd \in RoundType,
         AtPlace(c, tb, gv, pl, rd), NEW l \in ListSet, NEW c2, NEW tb2,
         OthersSame(c, tb, c2, tb2, l),
         \A x : InRow(c, tb, l, x) => InRow(c2, tb2, l, x)
  PROVE  MovedRound(pl, rd) \in RoundType /\ AtPlace(c2, tb2, gv, pl, MovedRound(pl, rd))
  <1> DEFINE rd2 == MovedRound(pl, rd)
  <1>1. /\ rd2 \in RoundType /\ rd2.list = rd.list /\ rd2.astray = rd.astray
        /\ pl.flag => rd2.moved
        /\ ~pl.flag => rd2 = rd
    BY DEF RoundType, MovedRound
  <1> HIDE DEF rd2
  <1>2. \A m \in ListSet : \A x : InRow(c, tb, m, x) => InRow(c2, tb2, m, x)
    BY DEF OthersSame, InRow
  <1>3. pl.cycled # NULL => pl.cycled \in ListSet
    BY DEF PlaceType
  <1> QED BY <1>1, <1>2, <1>3 DEF AtPlace, rd2
-------------------------------------------------------------------------------
(* DevList: the inductive invariant.                                       *)

\* The nodes that are allocated.
Used(nd) == {n \in ListNodes : nd[n] # FREE}

DevTyped ==
    /\ dlHead \in [ListSet -> Refs] /\ dlNode \in Memory
    /\ dlTable \in [ListSet -> Seq(DeviceSet)]
    /\ dlCalls \in 0 .. ListCalls /\ dlLost \in 0 .. dlCalls /\ dlGiven \in SUBSET ListSet
    /\ dlPlace \in PlaceType /\ dlRound \in RoundType
    /\ dlBad \in {Dev!NoFault} \cup [call : {"iter", "cycle"}, list : ListSet]

\* Some rows are those of the lists, and the static places are in them.
InRows == \E c : /\ Kept(c, dlHead, dlNode, dlTable, dlGiven)
                 /\ AtPlace(c, dlTable, dlGiven, dlPlace, dlRound)

\* A record is that of a node or was given up.
Counted == dlRecords = Cardinality(Used(dlNode)) + dlLost

DevInv == DevTyped /\ InRows /\ Counted /\ Dev!FaultsNamed

\* How many nodes are allocated is a number.
LEMMA UsedFinite ==
  ASSUME NEW nd
  PROVE  IsFiniteSet(Used(nd)) /\ Cardinality(Used(nd)) \in Nat
  <1>1. Used(nd) \in SUBSET ListNodes
    BY DEF Used
  <1> QED BY <1>1, ListAssumption, FS_Subset, FS_CardinalityType

\* What the invariant says of a list that is in use.
LEMMA RowFacts ==
  ASSUME DevTyped, NEW c, Kept(c, dlHead, dlNode, dlTable, dlGiven), NEW l \in ListSet \ dlGiven
  PROVE  /\ Dev!NodesOf(l) = c[l] /\ Len(c[l]) = Len(dlTable[l]) /\ Len(dlTable[l]) \in Nat
         /\ c[l] \in [1 .. Len(dlTable[l]) -> ListNodes]
         /\ Strung(c[l], Len(dlTable[l]), dlHead[l], dlNode) /\ Filled(c[l], dlTable[l], dlNode)
         /\ Dev!list_len(l) = Len(dlTable[l])
         /\ dlHead[l] = NULL <=> Len(dlTable[l]) = 0
  <1>1. dlTable \in [ListSet -> Seq(DeviceSet)] /\ Len(dlTable[l]) \in Nat
    BY LenProperties DEF DevTyped
  <1>2. Dev!NodesOf(l) = c[l]
    BY <1>1, KeptIsWalk, RowIsWalk
  <1>3. Strung(c[l], Len(dlTable[l]), dlHead[l], dlNode) /\ Filled(c[l], dlTable[l], dlNode)
    BY DEF Kept
  <1>4. c[l] \in [1 .. Len(dlTable[l]) -> ListNodes]
    BY <1>3 DEF Strung
  <1>5. Len(c[l]) = Len(dlTable[l])
    BY <1>1, <1>4, FunctionIsSeq
  <1>6. Dev!list_len(l) = Len(dlTable[l])
    BY <1>2, <1>5 DEF Dev!list_len
  <1>7. dlHead[l] = NULL <=> Len(dlTable[l]) = 0
    BY <1>1, <1>3, ListAssumption DEF Strung
  <1> QED BY <1>1, <1>2, <1>3, <1>4, <1>5, <1>6, <1>7

\* Every row holds nodes.
LEMMA RowsOfNodes ==
  ASSUME NEW c, NEW hd, NEW nd, NEW tb, NEW gv, Kept(c, hd, nd, tb, gv)
  PROVE  OfNodes(c, tb, gv)
  BY DEF Kept, Strung, OfNodes

\* Before the first call there are no nodes.
LEMMA DevInit == ToolsInit => DevInv
  <1> SUFFICES ASSUME Dev!Init PROVE DevInv
    BY DEF ToolsInit
  <1>1. DevTyped
    <2>1. <<>> \in Seq(DeviceSet)
      OBVIOUS
    <2> QED BY <2>1, ListAssumption
        DEF Dev!Init, DevTyped, Refs, Memory, PlaceType, RoundType, Dev!NoRound
  <1>2. InRows
    <2> DEFINE c == [l \in ListSet |-> [i \in 1 .. 0 |-> NULL]]
    <2>1. /\ \A l \in ListSet : dlTable[l] = <<>> /\ dlHead[l] = NULL
          /\ \A n \in ListNodes : dlNode[n] = FREE
          /\ dlPlace.flag = FALSE /\ dlPlace.cycled = NULL /\ dlRound = Dev!NoRound
      BY DEF Dev!Init
    <2>2. \A l \in ListSet : Len(dlTable[l]) = 0
      BY <2>1
    <2>3. \A l \in ListSet : c[l] \in [1 .. 0 -> ListNodes]
      OBVIOUS
    <2>4. DOMAIN c = ListSet
      OBVIOUS
    <2> HIDE DEF c
    <2>5. Kept(c, dlHead, dlNode, dlTable, dlGiven)
      BY <2>1, <2>2, <2>3, <2>4 DEF Kept, Strung, Filled, InRow
    <2>6. AtPlace(c, dlTable, dlGiven, dlPlace, dlRound)
      BY <2>1 DEF AtPlace
    <2> QED BY <2>5, <2>6 DEF InRows
  <1>3. Counted
    <2>1. Used(dlNode) = {} /\ dlRecords = 0 /\ dlLost = 0
      BY DEF Dev!Init, Used
    <2> QED BY <2>1, FS_EmptySet DEF Counted
  <1>4. Dev!FaultsNamed
    BY DEF Dev!Init, Dev!FaultsNamed, Dev!NoFault
  <1> QED BY <1>1, <1>2, <1>3, <1>4 DEF DevInv
-------------------------------------------------------------------------------
(* DevList: what a call does to one list.                                  *)

\* The list l of the state with the rows c takes the row f and the table t.
OneList(c, l, f, h, t) ==
    /\ l \in ListSet \ dlGiven /\ h \in Refs /\ t \in Seq(DeviceSet)
    /\ dlHead' = [dlHead EXCEPT ![l] = h] /\ dlTable' = [dlTable EXCEPT ![l] = t]
    /\ dlNode' \in Memory /\ dlGiven' = dlGiven
    /\ Strung(f, Len(t), h, dlNode') /\ Filled(f, t, dlNode')
    /\ Rerowed(c, l, f, dlNode, dlNode', dlTable, t)

\* The other lists keep their rows.
LEMMA OneListKept ==
  ASSUME DevTyped, NEW c, Kept(c, dlHead, dlNode, dlTable, dlGiven),
         NEW l, NEW f, NEW h, NEW t, OneList(c, l, f, h, t)
  PROVE  /\ Kept([c EXCEPT ![l] = f], dlHead', dlNode', dlTable', dlGiven')
         /\ OthersSame(c, dlTable, [c EXCEPT ![l] = f], dlTable', l)
         /\ [c EXCEPT ![l] = f][l] = f /\ dlTable'[l] = t
         /\ dlHead' \in [ListSet -> Refs] /\ dlTable' \in [ListSet -> Seq(DeviceSet)]
  <1>1. dlHead \in [ListSet -> Refs] /\ dlTable \in [ListSet -> Seq(DeviceSet)]
    BY DEF DevTyped
  <1>2. l \in ListSet \ dlGiven /\ h \in Refs /\ t \in Seq(DeviceSet)
    BY DEF OneList
  <1>3. Strung(f, Len(t), h, dlNode') /\ Filled(f, t, dlNode')
        /\ Rerowed(c, l, f, dlNode, dlNode', dlTable, t)
    BY DEF OneList
  <1>4. dlHead' = [dlHead EXCEPT ![l] = h] /\ dlTable' = [dlTable EXCEPT ![l] = t]
        /\ dlGiven' = dlGiven
    BY DEF OneList
  <1>5. Kept([c EXCEPT ![l] = f], dlHead', dlNode', dlTable', dlGiven')
    BY <1>1, <1>2, <1>3, <1>4, RowReplaced
  <1>6. DOMAIN c = ListSet
    BY DEF Kept
  <1> QED BY <1>1, <1>2, <1>4, <1>5, <1>6 DEF OthersSame

\* The bookkeeping of a call that reaches no foreign memory.
LEMMA QuietCall ==
  ASSUME DevTyped, dlCalls < ListCalls, dlCalls' = dlCalls + 1, dlBad' = Dev!NoFault,
         dlLost' \in {dlLost, dlLost + 1},
         dlHead' \in [ListSet -> Refs], dlTable' \in [ListSet -> Seq(DeviceSet)],
         dlNode' \in Memory, dlGiven' \in SUBSET ListSet, dlPlace' \in PlaceType,
         dlRound' \in RoundType
  PROVE  DevTyped' /\ Dev!FaultsNamed'
  <1>1. dlCalls' \in 0 .. ListCalls /\ dlLost' \in 0 .. dlCalls'
    BY ListAssumption DEF DevTyped
  <1>2. DevTyped'
    BY <1>1 DEF DevTyped
  <1>3. Dev!FaultsNamed'
    BY DEF Dev!FaultsNamed, Dev!NoFault
  <1> QED BY <1>2, <1>3

\* list_append: the new node comes behind the last one.
LEMMA AppendRow ==
  ASSUME DevTyped, NEW c, Kept(c, dlHead, dlNode, dlTable, dlGiven),
         NEW l \in ListSet, NEW d \in DeviceSet, Dev!list_append(l, d)
  PROVE  \E f, h : /\ OneList(c, l, f, h, Append(dlTable[l], d))
                   /\ \A i \in 1 .. Len(dlTable[l]) : f[i] = c[l][i]
                   /\ \E n \in ListNodes \ Used(dlNode) : Used(dlNode') = Used(dlNode) \cup {n}
  <1>1. l \in ListSet \ dlGiven
    BY DEF Dev!list_append, Dev!Usable
  <1>2. PICK k \in Nat : k = Len(dlTable[l])
    BY <1>1, RowFacts
  <1>3. PICK N \in [1 .. k -> ListNodes] :
             N = c[l] /\ Dev!NodesOf(l) = N /\ Len(N) = k /\ Strung(N, k, dlHead[l], dlNode)
             /\ Filled(N, dlTable[l], dlNode)
    BY <1>1, <1>2, RowFacts
  <1>4. PICK n \in Dev!FreeNodes :
             IF N = <<>>
             THEN dlHead' = [dlHead EXCEPT ![l] = n] /\ dlNode' = Dev!new_node(n, d)
             ELSE /\ dlNode' = [Dev!new_node(n, d) EXCEPT ![N[k]].next = n]
                  /\ dlHead' = dlHead
    BY <1>3 DEF Dev!list_append, Dev!Last
  <1>5. n \in ListNodes /\ dlNode[n] = FREE /\ dlNode \in Memory /\ dlHead \in [ListSet -> Refs]
    BY DEF Dev!FreeNodes, DevTyped
  <1>6. N = <<>> <=> k = 0
    BY <1>3
  <1>7. \A i \in 1 .. k : N[i] # n /\ dlNode[N[i]] # FREE
    BY <1>3, <1>5 DEF Strung
  <1>8. k > 0 => k \in 1 .. k /\ N[k] \in ListNodes /\ N[k] # n
    BY <1>7
  <1>9. \A x \in ListNodes : dlNode[x] # FREE => dlNode[x] \in [data : DeviceSet, next : Refs]
    BY <1>5 DEF Memory
  <1>10. \A x \in ListNodes :
            dlNode'[x] = IF x = n THEN [data |-> d, next |-> NULL]
                         ELSE IF k > 0 /\ x = N[k] THEN [dlNode[x] EXCEPT !.next = n]
                         ELSE dlNode[x]
    <2>1. DOMAIN dlNode = ListNodes
      BY <1>5 DEF Memory
    <2>2. CASE k = 0
      BY <1>4, <1>5, <1>6, <2>1, <2>2 DEF Dev!new_node
    <2>3. CASE k > 0
      BY <1>4, <1>5, <1>6, <1>8, <2>1, <2>3 DEF Dev!new_node
    <2> QED BY <2>2, <2>3
  <1>11. DOMAIN dlNode' = ListNodes /\ dlNode' = [x \in ListNodes |-> dlNode'[x]]
    BY <1>4, <1>5 DEF Memory, Dev!new_node
  <1>12. k > 0 => [dlNode[N[k]] EXCEPT !.next = n] \in [data : DeviceSet, next : Refs]
                  /\ [dlNode[N[k]] EXCEPT !.next = n].next = n
                  /\ [dlNode[N[k]] EXCEPT !.next = n].data = dlNode[N[k]].data
    BY <1>5, <1>7, <1>8, <1>9 DEF Refs
  <1>13. FREE \notin [data : DeviceSet, next : Refs]
    BY ListAssumption DEF Refs
  <1>14. [data |-> d, next |-> NULL] \in [data : DeviceSet, next : Refs]
    BY DEF Refs
  <1>15. dlNode' \in Memory
    <2>1. \A x \in ListNodes : dlNode'[x] \in {FREE} \cup [data : DeviceSet, next : Refs]
      BY <1>5, <1>10, <1>12, <1>14 DEF Memory
    <2> QED BY <1>11, <2>1 DEF Memory
  <1> DEFINE f == [i \in 1 .. k + 1 |-> IF i <= k THEN N[i] ELSE n]
             h == IF k = 0 THEN n ELSE dlHead[l]
             t == Append(dlTable[l], d)
  <1>16. t \in Seq(DeviceSet) /\ Len(t) = k + 1 /\ t[k + 1] = d
         /\ \A i \in 1 .. k : t[i] = dlTable[l][i]
    <2>1. dlTable[l] \in Seq(DeviceSet)
      BY <1>1 DEF DevTyped
    <2> QED BY <1>2, <2>1, AppendProperties
  <1>17. /\ \A i \in 1 .. k : f[i] = N[i]
         /\ f[k + 1] = n /\ f \in [1 .. k + 1 -> ListNodes]
    BY <1>5
  <1>18. dlHead[l] = IF k = 0 THEN NULL ELSE N[1]
    BY <1>3 DEF Strung
  <1>19. h = f[1] /\ h \in Refs /\ dlHead' = [dlHead EXCEPT ![l] = h]
    <2>1. h = f[1]
      BY <1>18
    <2>2. h \in Refs
      BY <1>1, <1>5 DEF Refs
    <2>3. dlHead' = [dlHead EXCEPT ![l] = h]
      BY <1>1, <1>4, <1>5, <1>6
    <2> QED BY <2>1, <2>2, <2>3
  <1> HIDE DEF f, h, t
  <1>20. \A i \in 1 .. k : /\ dlNode'[N[i]] # FREE /\ dlNode'[N[i]].data = dlNode[N[i]].data
                           /\ dlNode'[N[i]].next = IF i = k THEN n ELSE N[i + 1]
    <2> SUFFICES ASSUME NEW i \in 1 .. k
                 PROVE  /\ dlNode'[N[i]] # FREE /\ dlNode'[N[i]].data = dlNode[N[i]].data
                        /\ dlNode'[N[i]].next = IF i = k THEN n ELSE N[i + 1]
      OBVIOUS
    <2>1. CASE i = k
      BY <1>7, <1>8, <1>10, <1>12, <1>13, <2>1
    <2>2. CASE i # k
      <3>1. N[i] # N[k] /\ k > 0
        BY <1>3, <2>2 DEF Strung
      <3>2. dlNode'[N[i]] = dlNode[N[i]]
        BY <1>7, <1>10, <3>1
      <3>3. dlNode[N[i]].next = N[i + 1]
        BY <1>3, <2>2 DEF Strung
      <3> QED BY <1>7, <2>2, <3>2, <3>3
    <2> QED BY <2>1, <2>2
  <1>21. dlNode'[n] = [data |-> d, next |-> NULL] /\ dlNode'[n] # FREE
         /\ dlNode'[n].data = d /\ dlNode'[n].next = NULL
    <2>1. dlNode'[n] = [data |-> d, next |-> NULL]
      BY <1>5, <1>10
    <2>2. dlNode'[n] # FREE
      BY <1>13, <1>14, <2>1
    <2> QED BY <2>1, <2>2
  <1>22. Strung(f, Len(t), h, dlNode')
    <2>1. \A i \in 1 .. k + 1 : dlNode'[f[i]] # FREE
      BY <1>17, <1>20, <1>21
    <2>2. \A i \in 1 .. k + 1 : dlNode'[f[i]].next = IF i = k + 1 THEN NULL ELSE f[i + 1]
      <3> SUFFICES ASSUME NEW i \in 1 .. k + 1
                   PROVE  dlNode'[f[i]].next = IF i = k + 1 THEN NULL ELSE f[i + 1]
        OBVIOUS
      <3>1. CASE i = k + 1
        BY <1>17, <1>21, <3>1
      <3>2. CASE i # k + 1
        <4>1. i \in 1 .. k /\ f[i] = N[i] /\ f[i + 1] = IF i = k THEN n ELSE N[i + 1]
          BY <1>17, <3>2
        <4> QED BY <1>20, <3>2, <4>1
      <3> QED BY <3>1, <3>2
    <2>3. \A i, j \in 1 .. k + 1 : f[i] = f[j] => i = j
      <3>1. \A i, j \in 1 .. k : N[i] = N[j] => i = j
        BY <1>3 DEF Strung
      <3> QED BY <1>7, <1>17, <3>1
    <2> QED BY <1>16, <1>17, <1>19, <2>1, <2>2, <2>3 DEF Strung
  <1>23. Filled(f, t, dlNode')
    <2>1. \A i \in 1 .. k : dlNode[N[i]].data = dlTable[l][i]
      BY <1>2, <1>3 DEF Filled
    <2> QED BY <1>16, <1>17, <1>20, <1>21, <2>1 DEF Filled
  <1>24. Rerowed(c, l, f, dlNode, dlNode', dlTable, t)
    <2>1. \A x \in ListNodes : InRow(c, dlTable, l, x) <=> \E i \in 1 .. k : N[i] = x
      BY <1>2, <1>3 DEF InRow
    <2>2. \A x \in ListNodes :
             ~InRow(c, dlTable, l, x) /\ (\A i \in 1 .. k + 1 : f[i] # x) => dlNode'[x] = dlNode[x]
      <3>1. k + 1 \in 1 .. k + 1
        OBVIOUS
      <3> QED BY <1>8, <1>10, <1>17, <2>1, <3>1
    <2>3. \A i \in 1 .. k + 1 : InRow(c, dlTable, l, f[i]) \/ dlNode[f[i]] = FREE
      BY <1>5, <1>17, <2>1
    <2>4. \A x \in ListNodes : InRow(c, dlTable, l, x) => \E i \in 1 .. k + 1 : f[i] = x
      BY <1>17, <2>1
    <2> QED BY <1>16, <2>2, <2>3, <2>4 DEF Rerowed
  <1>25. dlTable' = [dlTable EXCEPT ![l] = t] /\ dlGiven' = dlGiven
    <2>1. dlTable' = [dlTable EXCEPT ![l] = Append(@, d)] /\ dlGiven' = dlGiven
      BY DEF Dev!list_append
    <2> QED BY <2>1 DEF t
  <1>26. OneList(c, l, f, h, t)
    BY <1>1, <1>15, <1>16, <1>19, <1>22, <1>23, <1>24, <1>25 DEF OneList
  <1>27. n \in ListNodes \ Used(dlNode) /\ Used(dlNode') = Used(dlNode) \cup {n}
    <2>1. ASSUME NEW x \in ListNodes PROVE dlNode'[x] # FREE <=> dlNode[x] # FREE \/ x = n
      <3>1. CASE x = n
        BY <1>21, <3>1
      <3>2. CASE k > 0 /\ x = N[k]
        BY <1>8, <1>7, <1>20, <3>2
      <3>3. CASE x # n /\ ~(k > 0 /\ x = N[k])
        BY <1>10, <3>3
      <3> QED BY <3>1, <3>2, <3>3
    <2> QED BY <1>5, <2>1 DEF Used
  <1> QED BY <1>2, <1>3, <1>17, <1>26, <1>27 DEF t
\* The node at position p of list l is taken out of its row and freed.
TakenOut(c, l, p) ==
    /\ dlNode' = [x \in ListNodes |->
          IF x = c[l][p] THEN FREE
          ELSE IF p > 1 /\ x = c[l][p - 1] THEN [dlNode[x] EXCEPT !.next = dlNode[c[l][p]].next]
          ELSE dlNode[x]]
    /\ dlHead' = [dlHead EXCEPT ![l] = IF p = 1 THEN dlNode[c[l][p]].next ELSE @]
    /\ dlGiven' = dlGiven

\* t is the table without its entry p.
Shortened(t, tb, p) ==
    /\ t \in Seq(DeviceSet) /\ Len(t) = Len(tb) - 1
    /\ \A i \in 1 .. Len(tb) - 1 : t[i] = IF i < p THEN tb[i] ELSE tb[i + 1]

\* A call that takes the node and the entry p out of list l and its table.
Removal(c, l, p, t) ==
    /\ l \in ListSet \ dlGiven /\ p \in 1 .. Len(dlTable[l]) /\ TakenOut(c, l, p)
    /\ Shortened(t, dlTable[l], p) /\ dlTable' = [dlTable EXCEPT ![l] = t]

\* f is the row e of k nodes without its node p.
Skips(f, e, k, p) == \A i \in 1 .. k - 1 : f[i] = IF i < p THEN e[i] ELSE e[i + 1]

\* list_pop and list_pop_tail: what is left of a row.
LEMMA RemoveRow ==
  ASSUME DevTyped, NEW c, Kept(c, dlHead, dlNode, dlTable, dlGiven),
         NEW l, NEW p, NEW t, Removal(c, l, p, t)
  PROVE  \E f, h : /\ OneList(c, l, f, h, t) /\ Skips(f, c[l], Len(dlTable[l]), p)
                   /\ c[l][p] \in Used(dlNode) /\ Used(dlNode') = Used(dlNode) \ {c[l][p]}
  <1>1. /\ l \in ListSet \ dlGiven /\ p \in 1 .. Len(dlTable[l]) /\ TakenOut(c, l, p)
        /\ Shortened(t, dlTable[l], p) /\ dlTable' = [dlTable EXCEPT ![l] = t]
    BY DEF Removal
  <1>2. PICK k \in Nat : k = Len(dlTable[l])
    BY <1>1, RowFacts
  <1>3. PICK N \in [1 .. k -> ListNodes] :
             N = c[l] /\ Strung(N, k, dlHead[l], dlNode) /\ Filled(N, dlTable[l], dlNode)
    BY <1>1, <1>2, RowFacts
  <1>4. p \in 1 .. k /\ k > 0 /\ N[p] \in ListNodes
    BY <1>1, <1>2
  <1>5. PICK n \in ListNodes : n = N[p]
    BY <1>4
  <1>6. /\ \A i \in 1 .. k : dlNode[N[i]] # FREE
        /\ \A i \in 1 .. k : dlNode[N[i]].next = IF i = k THEN NULL ELSE N[i + 1]
        /\ \A i, j \in 1 .. k : N[i] = N[j] => i = j
        /\ dlHead[l] = N[1]
    BY <1>3, <1>4 DEF Strung
  <1>7. PICK after \in Refs : after = dlNode[n].next /\ after = IF p = k THEN NULL ELSE N[p + 1]
    <2>1. p # k => p + 1 \in 1 .. k
      BY <1>4
    <2> QED BY <1>4, <1>5, <1>6, <2>1 DEF Refs
  <1>8. p > 1 => p - 1 \in 1 .. k /\ N[p - 1] \in ListNodes /\ N[p - 1] # n
    BY <1>4, <1>5, <1>6
  <1>9. \A x \in ListNodes : dlNode[x] # FREE => dlNode[x] \in [data : DeviceSet, next : Refs]
    BY DEF DevTyped, Memory
  <1>10. \A x \in ListNodes :
            dlNode'[x] = IF x = n THEN FREE
                         ELSE IF p > 1 /\ x = N[p - 1] THEN [dlNode[x] EXCEPT !.next = after]
                         ELSE dlNode[x]
    BY <1>1, <1>3, <1>5, <1>7 DEF TakenOut
  <1>11. p > 1 => [dlNode[N[p - 1]] EXCEPT !.next = after] \in [data : DeviceSet, next : Refs]
                  /\ [dlNode[N[p - 1]] EXCEPT !.next = after].next = after
                  /\ [dlNode[N[p - 1]] EXCEPT !.next = after].data = dlNode[N[p - 1]].data
    BY <1>6, <1>8, <1>9
  <1>12. FREE \notin [data : DeviceSet, next : Refs]
    BY ListAssumption DEF Refs
  <1>13. dlNode' \in Memory
    <2>1. \A x \in ListNodes : dlNode'[x] \in {FREE} \cup [data : DeviceSet, next : Refs]
      BY <1>10, <1>11 DEF DevTyped, Memory
    <2>2. dlNode' = [x \in ListNodes |-> dlNode'[x]]
      BY <1>1 DEF TakenOut
    <2> QED BY <2>1, <2>2 DEF Memory
  <1> DEFINE f == [i \in 1 .. k - 1 |-> IF i < p THEN N[i] ELSE N[i + 1]]
             h == IF p = 1 THEN after ELSE dlHead[l]
  <1>14. /\ \A i \in 1 .. k - 1 : f[i] = IF i < p THEN N[i] ELSE N[i + 1]
         /\ f \in [1 .. k - 1 -> ListNodes]
    <2>1. \A i \in 1 .. k - 1 : i \in 1 .. k /\ i + 1 \in 1 .. k
      OBVIOUS
    <2> QED BY <2>1
  <1>15. h = IF k - 1 = 0 THEN NULL ELSE f[1]
    <2>1. CASE k = 1
      BY <1>4, <1>7, <2>1
    <2>2. CASE k > 1
      <3>1. f[1] = IF 1 < p THEN N[1] ELSE N[2]
        BY <2>2
      <3> QED BY <1>4, <1>6, <1>7, <2>2, <3>1
    <2> QED BY <1>4, <2>1, <2>2
  <1>16. h \in Refs /\ dlHead' = [dlHead EXCEPT ![l] = h]
    <2>1. dlHead \in [ListSet -> Refs]
      BY DEF DevTyped
    <2> QED BY <1>1, <1>3, <1>5, <1>7, <2>1 DEF TakenOut
  <1> HIDE DEF f, h
  <1>17. ASSUME NEW i \in 1 .. k, i # p
         PROVE  /\ dlNode'[N[i]] # FREE /\ dlNode'[N[i]].data = dlNode[N[i]].data
                /\ dlNode'[N[i]].next = IF i = k THEN NULL
                                        ELSE IF i = p - 1 THEN after ELSE N[i + 1]
    <2>0. N[i] # n /\ N[i] \in ListNodes /\ dlNode[N[i]] # FREE
      BY <1>4, <1>5, <1>6, <1>17
    <2>1. CASE i = p - 1
      <3>1. p > 1 /\ i # k
        BY <1>4, <2>1
      <3>2. dlNode'[N[i]] = [dlNode[N[p - 1]] EXCEPT !.next = after]
        BY <1>10, <2>0, <2>1, <3>1
      <3> QED BY <1>11, <1>12, <2>1, <3>1, <3>2
    <2>2. CASE i # p - 1
      <3>1. ~(p > 1 /\ N[i] = N[p - 1])
        BY <1>6, <1>8, <2>2
      <3>2. dlNode'[N[i]] = dlNode[N[i]]
        BY <1>10, <2>0, <3>1
      <3> QED BY <1>6, <2>0, <2>2, <3>2
    <2> QED BY <2>1, <2>2
  <1>18. ASSUME NEW i \in 1 .. k - 1
         PROVE  /\ dlNode'[f[i]] # FREE
                /\ dlNode'[f[i]].next = IF i = k - 1 THEN NULL ELSE f[i + 1]
                /\ dlNode'[f[i]].data = dlNode[f[i]].data
    <2>0. i < k - 1 => f[i + 1] = IF i + 1 < p THEN N[i + 1] ELSE N[i + 2]
      <3>1. i < k - 1 => i + 1 \in 1 .. k - 1 /\ (i + 1) + 1 = i + 2
        OBVIOUS
      <3> QED BY <1>14, <3>1
    <2>1. CASE i < p
      <3>1. f[i] = N[i] /\ i \in 1 .. k /\ i # p /\ i # k
        BY <1>4, <1>14, <2>1
      <3>2. dlNode'[N[i]].next = IF i = p - 1 THEN after ELSE N[i + 1]
        BY <1>17, <3>1
      <3>3. i = p - 1 => after = IF i = k - 1 THEN NULL ELSE N[i + 2]
        <4>1. i = p - 1 => p + 1 = i + 2 /\ (p = k <=> i = k - 1)
          BY <1>4
        <4> QED BY <1>7, <4>1
      <3>4. dlNode'[N[i]].next = IF i = k - 1 THEN NULL ELSE f[i + 1]
        <4>1. CASE i = p - 1
          BY <1>4, <2>0, <3>2, <3>3, <4>1
        <4>2. CASE i # p - 1
          BY <1>4, <2>0, <2>1, <3>2, <4>2
        <4> QED BY <4>1, <4>2
      <3> QED BY <1>17, <3>1, <3>4
    <2>2. CASE ~(i < p)
      <3>1. f[i] = N[i + 1] /\ i + 1 \in 1 .. k /\ i + 1 # p /\ i + 1 # p - 1
        BY <1>4, <1>14, <2>2
      <3>2. dlNode'[N[i + 1]].next = IF i + 1 = k THEN NULL ELSE N[(i + 1) + 1]
        BY <1>17, <3>1
      <3>3. (i + 1 = k <=> i = k - 1) /\ (i + 1) + 1 = i + 2 /\ ~(i + 1 < p)
        BY <1>4, <2>2
      <3> QED BY <1>17, <2>0, <3>1, <3>2, <3>3
    <2> QED BY <2>1, <2>2
  <1>19. Len(t) = k - 1 /\ t \in Seq(DeviceSet)
         /\ \A i \in 1 .. k - 1 : t[i] = IF i < p THEN dlTable[l][i] ELSE dlTable[l][i + 1]
    BY <1>1, <1>2 DEF Shortened
  <1>20. Strung(f, Len(t), h, dlNode')
    <2>1. \A i, j \in 1 .. k - 1 : f[i] = f[j] => i = j
      <3> SUFFICES ASSUME NEW i \in 1 .. k - 1, NEW j \in 1 .. k - 1, f[i] = f[j] PROVE i = j
        OBVIOUS
      <3>1. i \in 1 .. k /\ i + 1 \in 1 .. k /\ j \in 1 .. k /\ j + 1 \in 1 .. k
        OBVIOUS
      <3> QED BY <1>4, <1>6, <1>14, <3>1
    <2> QED BY <1>14, <1>15, <1>18, <1>19, <2>1 DEF Strung
  <1>21. Filled(f, t, dlNode')
    <2>1. \A i \in 1 .. k : dlNode[N[i]].data = dlTable[l][i]
      BY <1>2, <1>3 DEF Filled
    <2>2. ASSUME NEW i \in 1 .. k - 1 PROVE dlNode'[f[i]].data = t[i]
      <3>1. i \in 1 .. k /\ i + 1 \in 1 .. k
        OBVIOUS
      <3>2. CASE i < p
        BY <1>14, <1>18, <1>19, <2>1, <3>1, <3>2
      <3>3. CASE ~(i < p)
        <4>1. f[i] = N[i + 1] /\ t[i] = dlTable[l][i + 1]
          BY <1>14, <1>19, <3>3
        <4>2. dlNode'[f[i]].data = dlNode[f[i]].data
          BY <1>18
        <4>3. dlNode[N[i + 1]].data = dlTable[l][i + 1]
          BY <2>1, <3>1
        <4> QED BY <4>1, <4>2, <4>3
      <3> QED BY <3>2, <3>3
    <2> QED BY <1>19, <2>2 DEF Filled
  <1>22. ASSUME NEW i \in 1 .. k, i # p PROVE \E j \in 1 .. k - 1 : f[j] = N[i]
    <2>1. CASE i < p
      <3>1. i \in 1 .. k - 1
        BY <1>4, <2>1
      <3> QED BY <1>14, <2>1, <3>1
    <2>2. CASE ~(i < p)
      <3>1. i - 1 \in 1 .. k - 1 /\ ~(i - 1 < p) /\ (i - 1) + 1 = i
        BY <1>4, <1>22, <2>2
      <3> QED BY <1>14, <3>1
    <2> QED BY <2>1, <2>2
  <1>23. \A x \in ListNodes : InRow(c, dlTable, l, x) <=> \E i \in 1 .. k : N[i] = x
    BY <1>2, <1>3 DEF InRow
  <1>24. Rerowed(c, l, f, dlNode, dlNode', dlTable, t)
    <2>1. ASSUME NEW x \in ListNodes, ~InRow(c, dlTable, l, x) PROVE dlNode'[x] = dlNode[x]
      BY <1>4, <1>5, <1>8, <1>10, <1>23, <2>1
    <2>2. ASSUME NEW i \in 1 .. k - 1 PROVE InRow(c, dlTable, l, f[i])
      <3>1. i \in 1 .. k /\ i + 1 \in 1 .. k
        OBVIOUS
      <3> QED BY <1>14, <1>23, <3>1
    <2>3. ASSUME NEW x \in ListNodes, InRow(c, dlTable, l, x)
          PROVE  dlNode'[x] = FREE \/ \E i \in 1 .. k - 1 : f[i] = x
      <3>1. PICK i \in 1 .. k : N[i] = x
        BY <1>23, <2>3
      <3>2. CASE i = p
        BY <1>5, <1>10, <3>1, <3>2
      <3>3. CASE i # p
        BY <1>22, <3>1, <3>3
      <3> QED BY <3>2, <3>3
    <2> QED BY <1>19, <2>1, <2>2, <2>3 DEF Rerowed
  <1>25. OneList(c, l, f, h, t)
    BY <1>1, <1>13, <1>16, <1>19, <1>20, <1>21, <1>24 DEF OneList, TakenOut
  <1>26. n \in Used(dlNode) /\ Used(dlNode') = Used(dlNode) \ {n}
    <2>1. ASSUME NEW x \in ListNodes PROVE dlNode'[x] # FREE <=> dlNode[x] # FREE /\ x # n
      <3>1. CASE x = n
        BY <1>10, <3>1
      <3>2. CASE x # n /\ p > 1 /\ x = N[p - 1]
        BY <1>6, <1>8, <1>10, <1>11, <1>12, <3>2
      <3>3. CASE x # n /\ ~(p > 1 /\ x = N[p - 1])
        BY <1>10, <3>3
      <3> QED BY <3>1, <3>2, <3>3
    <2>2. n \in ListNodes /\ dlNode[n] # FREE
      BY <1>4, <1>5, <1>6
    <2> QED BY <2>1, <2>2 DEF Used
  <1>27. Skips(f, c[l], Len(dlTable[l]), p)
    BY <1>2, <1>3, <1>14 DEF Skips
  <1> QED BY <1>3, <1>5, <1>25, <1>26, <1>27

\* A row that only grows at its end keeps its nodes and their order.
LEMMA GrownRow ==
  ASSUME NEW c, NEW tb, NEW c2, NEW tb2, NEW l, Len(tb[l]) \in Nat, Len(tb2[l]) \in Nat,
         Len(tb[l]) <= Len(tb2[l]), \A i \in 1 .. Len(tb[l]) : c2[l][i] = c[l][i]
  PROVE  /\ \A x, y : Behind(c[l], Len(tb[l]), x, y) => Behind(c2[l], Len(tb2[l]), x, y)
         /\ \A x : InRow(c, tb, l, x) => InRow(c2, tb2, l, x)
  <1>1. \A i \in 1 .. Len(tb[l]) : i \in 1 .. Len(tb2[l])
    OBVIOUS
  <1>2. \A x : InRow(c, tb, l, x) => InRow(c2, tb2, l, x)
    BY <1>1 DEF InRow
  <1>3. \A x, y : Behind(c[l], Len(tb[l]), x, y) => Behind(c2[l], Len(tb2[l]), x, y)
    BY <1>1 DEF Behind
  <1> QED BY <1>2, <1>3

\* list_append keeps the invariant.
LEMMA AppendKeeps ==
  ASSUME DevInv, dlCalls < ListCalls, dlCalls' = dlCalls + 1,
         NEW l \in ListSet, NEW d \in DeviceSet, Dev!list_append(l, d)
  PROVE  DevInv'
  <1>0. DevTyped /\ Counted
    BY DEF DevInv
  <1>1. PICK c : /\ Kept(c, dlHead, dlNode, dlTable, dlGiven)
                 /\ AtPlace(c, dlTable, dlGiven, dlPlace, dlRound)
    BY DEF DevInv, InRows
  <1>2. PICK f, h : /\ OneList(c, l, f, h, Append(dlTable[l], d))
                    /\ \A i \in 1 .. Len(dlTable[l]) : f[i] = c[l][i]
                    /\ \E n \in ListNodes \ Used(dlNode) : Used(dlNode') = Used(dlNode) \cup {n}
    BY <1>0, <1>1, AppendRow
  <1>3. /\ dlPlace' = dlPlace /\ dlRound' = dlRound /\ dlLost' = dlLost /\ dlGiven' = dlGiven
        /\ dlRecords' = dlRecords + 1 /\ dlBad' = Dev!NoFault /\ l \notin dlGiven
    BY DEF Dev!list_append, Dev!Usable
  <1> DEFINE c2 == [c EXCEPT ![l] = f]
             t == Append(dlTable[l], d)
  <1>4. /\ Kept(c2, dlHead', dlNode', dlTable', dlGiven')
        /\ OthersSame(c, dlTable, c2, dlTable', l)
        /\ c2[l] = f /\ dlTable'[l] = t
        /\ dlHead' \in [ListSet -> Refs] /\ dlTable' \in [ListSet -> Seq(DeviceSet)]
    BY <1>0, <1>1, <1>2, OneListKept
  <1>5. Len(dlTable[l]) \in Nat /\ Len(dlTable'[l]) = Len(dlTable[l]) + 1
    BY <1>0, <1>4, LenProperties, AppendProperties DEF DevTyped
  <1> HIDE DEF c2, t
  <1>6. AtPlace(c2, dlTable', dlGiven', dlPlace', dlRound')
    <2>1. Len(dlTable'[l]) \in Nat /\ Len(dlTable[l]) <= Len(dlTable'[l])
      BY <1>5
    <2>2. /\ \A x, y : Behind(c[l], Len(dlTable[l]), x, y) => Behind(c2[l], Len(dlTable'[l]), x, y)
          /\ \A x : InRow(c, dlTable, l, x) => InRow(c2, dlTable', l, x)
      BY <1>2, <1>4, <1>5, <2>1, GrownRow
    <2>3. dlPlace \in PlaceType /\ dlRound \in RoundType
      BY <1>0 DEF DevTyped
    <2>4. OfNodes(c, dlTable, dlGiven)
      BY <1>1, RowsOfNodes
    <2>5. AtPlace(c2, dlTable', dlGiven, dlPlace, dlRound)
      BY <1>1, <1>4, <2>2, <2>3, <2>4, PlaceStays
    <2> QED BY <1>3, <2>5
  <1>7. Counted'
    <2>1. PICK n : n \notin Used(dlNode) /\ Used(dlNode') = Used(dlNode) \cup {n}
      BY <1>2
    <2>2. Cardinality(Used(dlNode')) = Cardinality(Used(dlNode)) + 1
      BY <2>1, UsedFinite, FS_AddElement
    <2>3. Cardinality(Used(dlNode)) \in Nat /\ dlLost \in Nat
      BY <1>0, UsedFinite DEF DevTyped
    <2> QED BY <1>0, <1>3, <2>2, <2>3 DEF Counted
  <1>8. DevTyped' /\ Dev!FaultsNamed'
    <2>1. dlNode' \in Memory /\ dlGiven' \in SUBSET ListSet
          /\ dlPlace' \in PlaceType /\ dlRound' \in RoundType
      BY <1>0, <1>2, <1>3 DEF OneList, DevTyped
    <2> QED BY <1>0, <1>3, <1>4, <2>1, QuietCall
  <1> QED BY <1>4, <1>6, <1>7, <1>8 DEF DevInv, InRows

\* A row without one of its nodes keeps the order of the other ones.
LEMMA ShrunkRow ==
  ASSUME NEW c, NEW tb, NEW c2, NEW tb2, NEW l, NEW k \in Nat, NEW p \in 1 .. k,
         k = Len(tb[l]), Len(tb2[l]) = k - 1, Skips(c2[l], c[l], k, p),
         NEW S, c[l][p] \notin S
  PROVE  OrderKept(c, tb, c2, tb2, l, S)
  <1> DEFINE to(i) == IF i < p THEN i ELSE i - 1
  <1>0. \A i \in 1 .. k - 1 : c2[l][i] = IF i < p THEN c[l][i] ELSE c[l][i + 1]
    BY DEF Skips
  <1>1. ASSUME NEW i \in 1 .. k, i # p
        PROVE  to(i) \in 1 .. k - 1 /\ c2[l][to(i)] = c[l][i]
    <2>1. CASE i < p
      <3>1. i \in 1 .. k - 1 /\ to(i) = i
        BY <2>1
      <3> QED BY <1>0, <2>1, <3>1
    <2>2. CASE ~(i < p)
      <3>1. i - 1 \in 1 .. k - 1 /\ to(i) = i - 1 /\ ~(i - 1 < p) /\ (i - 1) + 1 = i
        BY <1>1, <2>2
      <3> QED BY <1>0, <3>1
    <2> QED BY <2>1, <2>2
  <1>2. \A i, j \in 1 .. k : i <= j /\ i # p /\ j # p => to(i) <= to(j)
    OBVIOUS
  <1> HIDE DEF to
  <1>3. ASSUME NEW x, NEW y, Behind(c[l], k, x, y), x # c[l][p], y # c[l][p]
        PROVE  Behind(c2[l], k - 1, x, y)
    <2>1. PICK i, j \in 1 .. k : i <= j /\ c[l][i] = x /\ c[l][j] = y
      BY <1>3 DEF Behind
    <2>2. i # p /\ j # p
      BY <1>3, <2>1
    <2>3. /\ to(i) \in 1 .. k - 1 /\ to(j) \in 1 .. k - 1 /\ to(i) <= to(j)
          /\ c2[l][to(i)] = x /\ c2[l][to(j)] = y
      BY <1>1, <1>2, <2>1, <2>2
    <2> QED BY <2>3 DEF Behind
  <1>4. ASSUME NEW x, InRow(c, tb, l, x), x # c[l][p] PROVE InRow(c2, tb2, l, x)
    <2>1. PICK i \in 1 .. k : c[l][i] = x
      BY <1>4 DEF InRow
    <2>2. to(i) \in 1 .. k - 1 /\ c2[l][to(i)] = x
      BY <1>1, <1>4, <2>1
    <2> QED BY <2>2 DEF InRow
  <1>5. \A x \in S : x # c[l][p]
    OBVIOUS
  <1> QED BY <1>3, <1>4, <1>5 DEF OrderKept

\* Taking a node out keeps the invariant; its record is freed or given up.
LEMMA RemoveKeeps ==
  ASSUME DevInv, dlCalls < ListCalls, dlCalls' = dlCalls + 1, dlBad' = Dev!NoFault,
         NEW c, Kept(c, dlHead, dlNode, dlTable, dlGiven),
         AtPlace(c, dlTable, dlGiven, dlPlace, dlRound),
         NEW l, NEW p, NEW t, Removal(c, l, p, t),
         dlPlace' = WithoutPlace(dlPlace, c[l][p]),
         dlRound' = WithoutRound(dlPlace, dlRound, c[l][p]),
         \/ dlRecords' = dlRecords - 1 /\ dlLost' = dlLost
         \/ dlRecords' = dlRecords /\ dlLost' = dlLost + 1
  PROVE  DevInv'
  <1>0. DevTyped /\ Counted
    BY DEF DevInv
  <1>1. PICK f, h : /\ OneList(c, l, f, h, t)
                    /\ Skips(f, c[l], Len(dlTable[l]), p)
                    /\ c[l][p] \in Used(dlNode) /\ Used(dlNode') = Used(dlNode) \ {c[l][p]}
    BY <1>0, RemoveRow
  <1>2. PICK k \in Nat : k = Len(dlTable[l]) /\ p \in 1 .. k /\ Len(t) = k - 1
    BY <1>0, RowFacts DEF Removal, Shortened
  <1> DEFINE c2 == [c EXCEPT ![l] = f]
  <1>3. /\ Kept(c2, dlHead', dlNode', dlTable', dlGiven')
        /\ OthersSame(c, dlTable, c2, dlTable', l)
        /\ c2[l] = f /\ dlTable'[l] = t
        /\ dlHead' \in [ListSet -> Refs] /\ dlTable' \in [ListSet -> Seq(DeviceSet)]
    BY <1>0, <1>1, OneListKept
  <1> HIDE DEF c2
  <1>4. dlGiven' = dlGiven /\ dlNode' \in Memory /\ c[l][p] \in ListNodes
    BY <1>1 DEF OneList, Used
  <1>5. OrderKept(c, dlTable, c2, dlTable', l, ListNodes \ {c[l][p]})
    <2>1. Len(dlTable'[l]) = k - 1 /\ Skips(c2[l], c[l], k, p)
      BY <1>1, <1>2, <1>3
    <2>2. c[l][p] \notin ListNodes \ {c[l][p]}
      OBVIOUS
    <2> QED BY <1>2, <2>1, <2>2, ShrunkRow
  <1>6. /\ dlPlace' \in PlaceType /\ dlRound' \in RoundType
        /\ AtPlace(c2, dlTable', dlGiven', dlPlace', dlRound')
    <2>1. dlPlace \in PlaceType /\ dlRound \in RoundType /\ l \in ListSet
      BY <1>0 DEF DevTyped, Removal
    <2>2. OfNodes(c, dlTable, dlGiven)
      BY RowsOfNodes
    <2> QED BY <1>3, <1>4, <1>5, <2>1, <2>2, PlaceWithout
  <1>7. Counted'
    <2>1. Cardinality(Used(dlNode')) = Cardinality(Used(dlNode)) - 1
      BY <1>1, UsedFinite, FS_RemoveElement
    <2>2. Cardinality(Used(dlNode)) \in Nat /\ dlLost \in Nat
      BY <1>0, UsedFinite DEF DevTyped
    <2> QED BY <1>0, <2>1, <2>2 DEF Counted
  <1>8. DevTyped' /\ Dev!FaultsNamed'
    <2>1. dlGiven' \in SUBSET ListSet /\ dlLost' \in {dlLost, dlLost + 1}
      BY <1>0, <1>4 DEF DevTyped
    <2> QED BY <1>0, <1>3, <1>4, <1>6, <2>1, QuietCall
  <1> QED BY <1>3, <1>6, <1>7, <1>8 DEF DevInv, InRows

\* RemoveAt takes one entry out of a table.
LEMMA RemovedShortened ==
  ASSUME NEW s \in Seq(DeviceSet), NEW p \in 1 .. Len(s)
  PROVE  Shortened(Dev!RemoveAt(s, p), s, p)
  <1>1. Dev!RemoveAt(s, p) = Removed(s, p)
    BY DEF Dev!RemoveAt, Removed
  <1>2. PICK n \in Nat : n = Len(s)
    BY LenProperties
  <1>3. PICK r : r = Removed(s, p)
    OBVIOUS
  <1>4. /\ r \in Seq(DeviceSet) /\ Len(r) = n - 1
        /\ \A k \in 1 .. p - 1 : r[k] = s[k]
        /\ \A k \in p .. n - 1 : r[k] = s[k + 1]
    BY <1>2, <1>3, RemovedElements
  <1>5. ASSUME NEW i \in 1 .. n - 1 PROVE r[i] = IF i < p THEN s[i] ELSE s[i + 1]
    <2>1. CASE i < p
      <3>1. i \in 1 .. p - 1
        BY <1>2, <2>1
      <3> QED BY <1>4, <2>1, <3>1
    <2>2. CASE ~(i < p)
      <3>1. i \in p .. n - 1
        BY <1>2, <2>2
      <3> QED BY <1>4, <2>2, <3>1
    <2> QED BY <2>1, <2>2
  <1> QED BY <1>1, <1>2, <1>3, <1>4, <1>5 DEF Shortened

\* Front takes the last entry out of a table.
LEMMA FrontShortened ==
  ASSUME NEW s \in Seq(DeviceSet), NEW n \in Nat, n = Len(s), n > 0
  PROVE  Shortened(Dev!Front(s), s, n)
  <1>1. Dev!Front(s) = SubSeq(s, 1, n - 1)
    BY DEF Dev!Front
  <1>2. PICK r : r = SubSeq(s, 1, n - 1)
    OBVIOUS
  <1>3. r \in [1 .. n - 1 -> DeviceSet] /\ \A i \in 1 .. n - 1 : r[i] = s[i]
    <2>1. n - 1 \in Nat /\ n - 1 <= Len(s)
      OBVIOUS
    <2> QED BY <1>2, <2>1, PrefixElements
  <1>4. r \in Seq(DeviceSet) /\ Len(r) = n - 1
    <2>1. n - 1 \in Nat
      OBVIOUS
    <2> QED BY <1>3, <2>1, FunctionIsSeq
  <1> QED BY <1>1, <1>2, <1>3, <1>4 DEF Shortened

\* list_pop_tail keeps the invariant.
LEMMA PopTailKeeps ==
  ASSUME DevInv, dlCalls < ListCalls, dlCalls' = dlCalls + 1,
         NEW l \in ListSet, Dev!list_pop_tail(l)
  PROVE  DevInv'
  <1>0. DevTyped
    BY DEF DevInv
  <1>1. PICK c : /\ Kept(c, dlHead, dlNode, dlTable, dlGiven)
                 /\ AtPlace(c, dlTable, dlGiven, dlPlace, dlRound)
    BY DEF DevInv, InRows
  <1>2. l \in ListSet \ dlGiven /\ dlHead[l] # NULL
    BY DEF Dev!list_pop_tail, Dev!Usable
  <1>3. PICK k \in Nat : k = Len(dlTable[l])
    BY <1>0, <1>1, <1>2, RowFacts
  <1>4. PICK N \in [1 .. k -> ListNodes] :
             N = c[l] /\ Dev!NodesOf(l) = N /\ Len(N) = k /\ Strung(N, k, dlHead[l], dlNode)
    BY <1>0, <1>1, <1>2, <1>3, RowFacts
  <1>5. k > 0 /\ k \in 1 .. k
    BY <1>2, <1>4 DEF Strung
  <1>6. PICK n \in ListNodes : n = N[k]
    BY <1>4, <1>5
  <1>7. /\ dlNode[n].next = NULL
        /\ k > 1 => k - 1 \in 1 .. k /\ N[k - 1] \in ListNodes /\ N[k - 1] # n
        /\ k > 1 => dlNode[N[k - 1]] # FREE
    BY <1>4, <1>5, <1>6 DEF Strung
  <1>8. DOMAIN dlNode = ListNodes /\ dlHead \in [ListSet -> Refs]
    BY <1>0 DEF DevTyped, Memory
  <1>9. Dev!Last(N) = n
    BY <1>4, <1>6 DEF Dev!Last
  <1>10. /\ dlRecords' = dlRecords - 1 /\ dlLost' = dlLost /\ dlGiven' = dlGiven /\ dlBad' = Dev!NoFault
         /\ dlRound' = WithoutRound(dlPlace, dlRound, n) /\ dlPlace' = WithoutPlace(dlPlace, n)
         /\ dlTable' = [dlTable EXCEPT ![l] = Dev!Front(dlTable[l])]
    BY <1>4, <1>9 DEF Dev!list_pop_tail, Dev!Usable, Dev!RoundWithout, Dev!CycleWithout,
                      WithoutRound, WithoutPlace
  <1>11. IF k = 1
         THEN dlHead' = [dlHead EXCEPT ![l] = NULL] /\ dlNode' = [dlNode EXCEPT ![n] = FREE]
         ELSE /\ dlNode' = [[dlNode EXCEPT ![n] = FREE] EXCEPT ![N[k - 1]].next = NULL]
              /\ dlHead' = dlHead
    BY <1>4, <1>9 DEF Dev!list_pop_tail
  <1>12. TakenOut(c, l, k)
    <2>1. CASE k = 1
      BY <1>4, <1>6, <1>7, <1>8, <1>10, <1>11, <2>1 DEF TakenOut
    <2>2. CASE k > 1
      BY <1>4, <1>6, <1>7, <1>8, <1>10, <1>11, <2>2 DEF TakenOut
    <2> QED BY <1>5, <2>1, <2>2
  <1>13. Shortened(Dev!Front(dlTable[l]), dlTable[l], k)
    <2>1. dlTable[l] \in Seq(DeviceSet)
      BY <1>0 DEF DevTyped
    <2> QED BY <1>3, <1>5, <2>1, FrontShortened
  <1>14. Removal(c, l, k, Dev!Front(dlTable[l]))
    BY <1>2, <1>3, <1>5, <1>10, <1>12, <1>13 DEF Removal
  <1> QED BY <1>1, <1>4, <1>6, <1>10, <1>14, RemoveKeeps

\* list_pop keeps the invariant.
LEMMA PopKeeps ==
  ASSUME DevInv, dlCalls < ListCalls, dlCalls' = dlCalls + 1,
         NEW l \in ListSet, NEW pos, Dev!list_pop(l, pos)
  PROVE  DevInv'
  <1>0. DevTyped
    BY DEF DevInv
  <1>1. PICK c : /\ Kept(c, dlHead, dlNode, dlTable, dlGiven)
                 /\ AtPlace(c, dlTable, dlGiven, dlPlace, dlRound)
    BY DEF DevInv, InRows
  <1>2. l \in ListSet \ dlGiven
    BY DEF Dev!list_pop, Dev!Usable
  <1>3. PICK k \in Nat : k = Len(dlTable[l])
    BY <1>0, <1>1, <1>2, RowFacts
  <1>4. PICK N \in [1 .. k -> ListNodes] :
             N = c[l] /\ Dev!NodesOf(l) = N /\ Len(N) = k /\ Strung(N, k, dlHead[l], dlNode)
    BY <1>0, <1>1, <1>2, <1>3, RowFacts
  <1>5. pos \in 0 .. k - 1
    BY <1>0, <1>1, <1>2, <1>3, RowFacts DEF Dev!list_pop
  <1>6. PICK p \in 1 .. k : p = pos + 1
    BY <1>5
  <1>7. PICK n \in ListNodes : n = N[p]
    OBVIOUS
  <1>8. /\ p > 1 => p - 1 \in 1 .. k /\ N[p - 1] \in ListNodes /\ N[p - 1] # n
        /\ p > 1 => dlNode[N[p - 1]] # FREE
    BY <1>4, <1>7 DEF Strung
  <1>9. DOMAIN dlNode = ListNodes /\ dlHead \in [ListSet -> Refs]
    BY <1>0 DEF DevTyped, Memory
  <1>10. /\ dlGiven' = dlGiven /\ dlBad' = Dev!NoFault
         /\ dlRound' = WithoutRound(dlPlace, dlRound, n) /\ dlPlace' = WithoutPlace(dlPlace, n)
         /\ dlTable' = [dlTable EXCEPT ![l] = Dev!RemoveAt(dlTable[l], p)]
         /\ IF pos = 0 THEN Dev!PopHead(l, n) ELSE Dev!PopInner(l, n, N[pos])
    BY <1>4, <1>6, <1>7 DEF Dev!list_pop, Dev!Usable, Dev!RoundWithout, Dev!CycleWithout,
                            WithoutRound, WithoutPlace
  <1>11. /\ \/ dlRecords' = dlRecords - 1 /\ dlLost' = dlLost
            \/ dlRecords' = dlRecords /\ dlLost' = dlLost + 1
         /\ TakenOut(c, l, p)
    <2>1. CASE pos = 0
      <3>1. p = 1 /\ Dev!PopHead(l, n)
        BY <1>6, <1>10, <2>1
      <3>2. /\ dlHead' = [dlHead EXCEPT ![l] = dlNode[n].next]
            /\ dlNode' = [dlNode EXCEPT ![n] = FREE]
            /\ dlRecords' = dlRecords /\ dlLost' = dlLost + 1
        BY <3>1 DEF Dev!PopHead
      <3>3. dlNode' = [x \in ListNodes |-> IF x = n THEN FREE ELSE dlNode[x]]
        BY <1>9, <3>2
      <3>4. c[l][p] = n /\ ~(p > 1)
        BY <1>4, <1>7, <3>1
      <3>5. dlNode' = [x \in ListNodes |->
                IF x = c[l][p] THEN FREE
                ELSE IF p > 1 /\ x = c[l][p - 1] THEN [dlNode[x] EXCEPT !.next = dlNode[c[l][p]].next]
                ELSE dlNode[x]]
        BY <3>3, <3>4
      <3>6. dlHead' = [dlHead EXCEPT ![l] = IF p = 1 THEN dlNode[c[l][p]].next ELSE @]
        BY <3>1, <3>2, <3>4
      <3> QED BY <1>10, <3>2, <3>5, <3>6 DEF TakenOut
    <2>2. CASE pos # 0
      <3>1. p > 1 /\ pos = p - 1 /\ Dev!PopInner(l, n, N[p - 1])
        BY <1>5, <1>6, <1>10, <2>2
      <3>2. PICK b \in ListNodes : b = N[p - 1] /\ b # n
        BY <1>8, <3>1
      <3>3. /\ dlNode' = [dlNode EXCEPT ![b].next = dlNode[n].next, ![n] = FREE]
            /\ dlHead' = dlHead /\ dlRecords' = dlRecords - 1 /\ dlLost' = dlLost
        BY <3>1, <3>2 DEF Dev!PopInner
      <3>4. dlNode' = [x \in ListNodes |->
                         IF x = n THEN FREE
                         ELSE IF x = b THEN [dlNode[x] EXCEPT !.next = dlNode[n].next]
                         ELSE dlNode[x]]
        BY <1>9, <3>2, <3>3
      <3>5. dlHead' = [dlHead EXCEPT ![l] = dlHead[l]]
        BY <1>9, <3>3
      <3>6. c[l][p] = n /\ c[l][p - 1] = b /\ p > 1 /\ p # 1
        BY <1>4, <1>7, <3>1, <3>2
      <3>7. dlNode' = [x \in ListNodes |->
                IF x = c[l][p] THEN FREE
                ELSE IF p > 1 /\ x = c[l][p - 1] THEN [dlNode[x] EXCEPT !.next = dlNode[c[l][p]].next]
                ELSE dlNode[x]]
        BY <3>4, <3>6
      <3>8. dlHead' = [dlHead EXCEPT ![l] = IF p = 1 THEN dlNode[c[l][p]].next ELSE @]
        BY <3>5, <3>6
      <3> QED BY <1>10, <3>3, <3>7, <3>8 DEF TakenOut
    <2> QED BY <2>1, <2>2
  <1>12. Shortened(Dev!RemoveAt(dlTable[l], p), dlTable[l], p)
    <2>1. dlTable[l] \in Seq(DeviceSet) /\ p \in 1 .. Len(dlTable[l])
      BY <1>0, <1>3 DEF DevTyped
    <2> QED BY <2>1, RemovedShortened
  <1>13. Removal(c, l, p, Dev!RemoveAt(dlTable[l], p))
    BY <1>2, <1>3, <1>10, <1>11, <1>12 DEF Removal
  <1> QED BY <1>1, <1>4, <1>7, <1>10, <1>11, <1>13, RemoveKeeps
-------------------------------------------------------------------------------
(* DevList: calls that relink a list.                                      *)

\* The row of list l becomes f, with the same nodes, and its table t, of the same length.
Relinked(c, l, f, h, t) ==
    /\ l \in ListSet \ dlGiven /\ h \in Refs /\ t \in Seq(DeviceSet)
    /\ Len(t) = Len(dlTable[l])
    /\ dlHead' = [dlHead EXCEPT ![l] = h] /\ dlTable' = [dlTable EXCEPT ![l] = t]
    /\ dlNode' \in Memory /\ dlGiven' = dlGiven
    /\ Strung(f, Len(t), h, dlNode') /\ Filled(f, t, dlNode')
    /\ \A i \in 1 .. Len(t) : \E j \in 1 .. Len(t) : f[i] = c[l][j]
    /\ \A j \in 1 .. Len(t) : \E i \in 1 .. Len(t) : f[i] = c[l][j]
    /\ \A x \in ListNodes : ~InRow(c, dlTable, l, x) => dlNode'[x] = dlNode[x]

\* A call that relinks the nodes of a list keeps the invariant.
LEMMA RelinkKeeps ==
  ASSUME DevInv, dlCalls < ListCalls, dlCalls' = dlCalls + 1, dlBad' = Dev!NoFault,
         NEW c, Kept(c, dlHead, dlNode, dlTable, dlGiven),
         AtPlace(c, dlTable, dlGiven, dlPlace, dlRound),
         NEW l, NEW f, NEW h, NEW t, Relinked(c, l, f, h, t), dlPlace' = dlPlace,
         \/ dlRound' = MovedRound(dlPlace, dlRound)
         \/ dlRound' = dlRound /\ f = c[l],
         \/ dlRecords' = dlRecords /\ dlLost' = dlLost
         \/ dlRecords' = dlRecords + 1 /\ dlLost' = dlLost + 1
  PROVE  DevInv'
  <1>0. DevTyped /\ Counted
    BY DEF DevInv
  <1>1. PICK k \in Nat : k = Len(dlTable[l]) /\ k = Len(t)
    BY <1>0, RowFacts DEF Relinked
  <1>2. /\ \A i \in 1 .. k : \E j \in 1 .. k : f[i] = c[l][j]
        /\ \A j \in 1 .. k : \E i \in 1 .. k : f[i] = c[l][j]
    BY <1>1 DEF Relinked
  <1>3. \A x : InRow(c, dlTable, l, x) <=> \E i \in 1 .. k : f[i] = x
    BY <1>1, <1>2 DEF InRow
  <1>4. OneList(c, l, f, h, t)
    <2>1. Rerowed(c, l, f, dlNode, dlNode', dlTable, t)
      <3>1. \A x \in ListNodes : ~InRow(c, dlTable, l, x) => dlNode'[x] = dlNode[x]
        BY DEF Relinked
      <3>2. \A i \in 1 .. k : InRow(c, dlTable, l, f[i])
        BY <1>3
      <3>3. \A x \in ListNodes : InRow(c, dlTable, l, x) => \E i \in 1 .. k : f[i] = x
        BY <1>3
      <3> QED BY <1>1, <3>1, <3>2, <3>3 DEF Rerowed
    <2> QED BY <2>1 DEF OneList, Relinked
  <1> DEFINE c2 == [c EXCEPT ![l] = f]
  <1>5. /\ Kept(c2, dlHead', dlNode', dlTable', dlGiven')
        /\ OthersSame(c, dlTable, c2, dlTable', l)
        /\ c2[l] = f /\ dlTable'[l] = t
        /\ dlHead' \in [ListSet -> Refs] /\ dlTable' \in [ListSet -> Seq(DeviceSet)]
    BY <1>0, <1>4, OneListKept
  <1>6. l \in ListSet /\ dlGiven' = dlGiven /\ dlNode' \in Memory /\ dlGiven \in SUBSET ListSet
        /\ dlPlace \in PlaceType /\ dlRound \in RoundType
    BY <1>0 DEF Relinked, DevTyped
  <1> HIDE DEF c2
  <1>7. dlRound' \in RoundType /\ AtPlace(c2, dlTable', dlGiven, dlPlace, dlRound')
    <2>1. \A x : InRow(c, dlTable, l, x) => InRow(c2, dlTable', l, x)
      BY <1>1, <1>3, <1>5 DEF InRow
    <2>2. CASE dlRound' = MovedRound(dlPlace, dlRound)
      <3>1. /\ MovedRound(dlPlace, dlRound) \in RoundType
            /\ AtPlace(c2, dlTable', dlGiven, dlPlace, MovedRound(dlPlace, dlRound))
        BY <1>5, <1>6, <2>1, PlaceMoved
      <3> QED BY <2>2, <3>1
    <2>3. CASE dlRound' = dlRound /\ f = c[l]
      <3>1. \A x, y \in ListNodes :
               Behind(c[l], Len(dlTable[l]), x, y) => Behind(c2[l], Len(dlTable'[l]), x, y)
        BY <1>1, <1>5, <2>3
      <3>2. OfNodes(c, dlTable, dlGiven)
        BY RowsOfNodes
      <3>3. AtPlace(c2, dlTable', dlGiven, dlPlace, dlRound)
        BY <1>5, <1>6, <2>1, <3>1, <3>2, PlaceStays
      <3> QED BY <1>6, <2>3, <3>3
    <2> QED BY <2>2, <2>3
  <1>8. Counted'
    <2>1. ASSUME NEW x \in ListNodes PROVE dlNode'[x] # FREE <=> dlNode[x] # FREE
      <3>1. CASE InRow(c, dlTable, l, x)
        <4>1. dlNode'[x] # FREE
          <5>1. PICK i \in 1 .. k : f[i] = x
            BY <1>3, <3>1
          <5>2. Strung(f, k, h, dlNode')
            BY <1>1 DEF Relinked
          <5> QED BY <5>1, <5>2 DEF Strung
        <4>2. l \in ListSet \ dlGiven
          BY DEF Relinked
        <4>3. dlNode[x] # FREE
          BY <3>1, <4>2 DEF Kept, Strung, InRow
        <4> QED BY <4>1, <4>3
      <3>2. CASE ~InRow(c, dlTable, l, x)
        BY <3>2 DEF Relinked
      <3> QED BY <3>1, <3>2
    <2>2. Used(dlNode') = Used(dlNode)
      BY <2>1 DEF Used
    <2>3. Cardinality(Used(dlNode)) \in Nat /\ dlLost \in Nat
      BY <1>0, UsedFinite DEF DevTyped
    <2> QED BY <1>0, <2>2, <2>3 DEF Counted
  <1>9. DevTyped' /\ Dev!FaultsNamed'
    <2>1. dlLost' \in {dlLost, dlLost + 1} /\ dlGiven' \in SUBSET ListSet /\ dlPlace' \in PlaceType
      BY <1>6
    <2> QED BY <1>0, <1>5, <1>6, <1>7, <2>1, QuietCall
  <1>10. InRows'
    BY <1>5, <1>6, <1>7 DEF InRows
  <1> QED BY <1>8, <1>9, <1>10 DEF DevInv

\* list_set keeps the invariant.
LEMMA SetKeeps ==
  ASSUME DevInv, dlCalls < ListCalls, dlCalls' = dlCalls + 1,
         NEW l \in ListSet, NEW pos, NEW d \in DeviceSet, Dev!list_set(l, pos, d)
  PROVE  DevInv'
  <1>0. DevTyped
    BY DEF DevInv
  <1>1. PICK c : /\ Kept(c, dlHead, dlNode, dlTable, dlGiven)
                 /\ AtPlace(c, dlTable, dlGiven, dlPlace, dlRound)
    BY DEF DevInv, InRows
  <1>2. l \in ListSet \ dlGiven
    BY DEF Dev!list_set, Dev!Usable
  <1>3. PICK k \in Nat : k = Len(dlTable[l])
    BY <1>0, <1>1, <1>2, RowFacts
  <1>4. PICK N \in [1 .. k -> ListNodes] :
             /\ N = c[l] /\ Dev!NodesOf(l) = N /\ Strung(N, k, dlHead[l], dlNode)
             /\ Filled(N, dlTable[l], dlNode)
    BY <1>0, <1>1, <1>2, <1>3, RowFacts
  <1>5. pos \in 0 .. k - 1
    BY <1>0, <1>1, <1>2, <1>3, RowFacts DEF Dev!list_set
  <1>6. PICK p \in 1 .. k : p = pos + 1
    BY <1>5
  <1>7. PICK n \in ListNodes : n = N[p]
    OBVIOUS
  <1>8. /\ dlNode' = [dlNode EXCEPT ![n].data = d]
        /\ dlTable' = [dlTable EXCEPT ![l][p] = d]
        /\ dlRecords' = dlRecords + 1 /\ dlLost' = dlLost + 1 /\ dlHead' = dlHead
        /\ dlPlace' = dlPlace /\ dlGiven' = dlGiven /\ dlRound' = dlRound /\ dlBad' = Dev!NoFault
    BY <1>4, <1>6, <1>7 DEF Dev!list_set, Dev!Usable
  <1> DEFINE t == [dlTable[l] EXCEPT ![p] = d]
  <1>9. /\ t \in Seq(DeviceSet) /\ Len(t) = k /\ dlTable' = [dlTable EXCEPT ![l] = t]
        /\ \A i \in 1 .. k : t[i] = IF i = p THEN d ELSE dlTable[l][i]
    <2>1. dlTable[l] \in Seq(DeviceSet) /\ dlTable \in [ListSet -> Seq(DeviceSet)]
      BY <1>0 DEF DevTyped
    <2> QED BY <1>3, <1>8, <2>1
  <1>10. dlHead \in [ListSet -> Refs] /\ dlNode \in Memory /\ DOMAIN dlNode = ListNodes
    BY <1>0 DEF DevTyped, Memory
  <1>11. \A x \in ListNodes : dlNode'[x] = IF x = n THEN [dlNode[x] EXCEPT !.data = d] ELSE dlNode[x]
    BY <1>8, <1>10
  <1>12. dlNode[n] # FREE /\ dlNode[n] \in [data : DeviceSet, next : Refs]
    BY <1>4, <1>7, <1>10 DEF Strung, Memory
  <1>13. /\ dlNode'[n] \in [data : DeviceSet, next : Refs] /\ dlNode'[n] # FREE
         /\ dlNode'[n].data = d /\ dlNode'[n].next = dlNode[n].next
    <2>1. dlNode'[n] = [dlNode[n] EXCEPT !.data = d]
      BY <1>11
    <2>2. dlNode'[n] \in [data : DeviceSet, next : Refs]
      BY <1>12, <2>1
    <2> QED BY <1>12, <2>1, <2>2, ListAssumption DEF Refs
  <1>14. dlNode' \in Memory
    <2>1. \A x \in ListNodes : dlNode'[x] \in {FREE} \cup [data : DeviceSet, next : Refs]
      BY <1>10, <1>11, <1>13 DEF Memory
    <2>2. dlNode' = [x \in ListNodes |-> dlNode'[x]]
      BY <1>8, <1>10
    <2> QED BY <2>1, <2>2 DEF Memory
  <1>15. \A i \in 1 .. k : /\ dlNode'[N[i]] # FREE /\ dlNode'[N[i]].next = dlNode[N[i]].next
                           /\ i # p => dlNode'[N[i]] = dlNode[N[i]]
    BY <1>4, <1>7, <1>11, <1>13 DEF Strung
  <1>16. Strung(N, Len(t), dlHead[l], dlNode')
    BY <1>4, <1>9, <1>15 DEF Strung
  <1>17. Filled(N, t, dlNode')
    <2>1. \A i \in 1 .. k : dlNode[N[i]].data = dlTable[l][i]
      BY <1>3, <1>4 DEF Filled
    <2>2. ASSUME NEW i \in 1 .. k PROVE dlNode'[N[i]].data = t[i]
      <3>1. CASE i = p
        BY <1>7, <1>9, <1>13, <3>1
      <3>2. CASE i # p
        BY <1>9, <1>15, <2>1, <3>2
      <3> QED BY <3>1, <3>2
    <2> QED BY <1>9, <2>2 DEF Filled
  <1> HIDE DEF t
  <1>18. \A x \in ListNodes : ~InRow(c, dlTable, l, x) => dlNode'[x] = dlNode[x]
    BY <1>3, <1>4, <1>7, <1>11 DEF InRow
  <1>19. dlHead[l] \in Refs /\ dlHead' = [dlHead EXCEPT ![l] = dlHead[l]]
    BY <1>8, <1>10
  <1>20. Relinked(c, l, N, dlHead[l], t)
    BY <1>2, <1>3, <1>4, <1>8, <1>9, <1>14, <1>16, <1>17, <1>18, <1>19 DEF Relinked
  <1> QED BY <1>1, <1>4, <1>8, <1>20, RelinkKeeps

\* g is a rearrangement of the positions of a list.
Rearranges(g, k) ==
    /\ g \in [1 .. k -> 1 .. k]
    /\ \A i, j \in 1 .. k : g[i] = g[j] => i = j
    /\ \A j \in 1 .. k : \E i \in 1 .. k : g[i] = j

\* The list l is linked and its table filled in the order g; nx are the new next fields.
Reordered(c, l, k, g, h, t, nx) ==
    /\ l \in ListSet \ dlGiven /\ k = Len(dlTable[l]) /\ Rearranges(g, k)
    /\ t \in Seq(DeviceSet) /\ Len(t) = k /\ \A i \in 1 .. k : t[i] = dlTable[l][g[i]]
    /\ h = IF k = 0 THEN NULL ELSE c[l][g[1]]
    /\ \A i \in 1 .. k : nx[c[l][g[i]]] = IF i = k THEN NULL ELSE c[l][g[i + 1]]
    /\ dlNode' = [x \in ListNodes |-> IF InRow(c, dlTable, l, x)
                                      THEN [dlNode[x] EXCEPT !.next = nx[x]] ELSE dlNode[x]]
    /\ dlHead' = [dlHead EXCEPT ![l] = h] /\ dlTable' = [dlTable EXCEPT ![l] = t]
    /\ dlGiven' = dlGiven

\* A list in another order is a list of the same nodes.
LEMMA ReorderedRow ==
  ASSUME DevTyped, NEW c, Kept(c, dlHead, dlNode, dlTable, dlGiven),
         NEW l, NEW k, NEW g, NEW h, NEW t, NEW nx, Reordered(c, l, k, g, h, t, nx)
  PROVE  Relinked(c, l, [i \in 1 .. k |-> c[l][g[i]]], h, t)
  <1>1. /\ l \in ListSet \ dlGiven /\ k = Len(dlTable[l]) /\ k \in Nat
        /\ dlHead' = [dlHead EXCEPT ![l] = h] /\ dlTable' = [dlTable EXCEPT ![l] = t]
        /\ dlGiven' = dlGiven
    BY RowFacts DEF Reordered
  <1>2. PICK N \in [1 .. k -> ListNodes] :
             N = c[l] /\ Strung(N, k, dlHead[l], dlNode) /\ Filled(N, dlTable[l], dlNode)
    BY <1>1, RowFacts
  <1>3. /\ g \in [1 .. k -> 1 .. k]
        /\ \A i, j \in 1 .. k : g[i] = g[j] => i = j
        /\ \A j \in 1 .. k : \E i \in 1 .. k : g[i] = j
    BY DEF Reordered, Rearranges
  <1>4. /\ t \in Seq(DeviceSet) /\ Len(t) = k
        /\ \A i \in 1 .. k : t[i] = dlTable[l][g[i]]
        /\ h = IF k = 0 THEN NULL ELSE N[g[1]]
        /\ \A i \in 1 .. k : nx[N[g[i]]] = IF i = k THEN NULL ELSE N[g[i + 1]]
    BY <1>2 DEF Reordered
  <1> DEFINE f == [i \in 1 .. k |-> c[l][g[i]]]
  <1>5. f \in [1 .. k -> ListNodes] /\ \A i \in 1 .. k : f[i] = N[g[i]]
    BY <1>2, <1>3
  <1> HIDE DEF f
  <1>6. \A x \in ListNodes : InRow(c, dlTable, l, x) <=> \E i \in 1 .. k : N[i] = x
    BY <1>1, <1>2 DEF InRow
  <1>7. /\ \A i, j \in 1 .. k : N[i] = N[j] => i = j
        /\ \A i \in 1 .. k : dlNode[N[i]] # FREE
    BY <1>2 DEF Strung
  <1>8. \A i \in 1 .. k : nx[f[i]] = IF i = k THEN NULL ELSE f[i + 1]
    <2> SUFFICES ASSUME NEW i \in 1 .. k PROVE nx[f[i]] = IF i = k THEN NULL ELSE f[i + 1]
      OBVIOUS
    <2>1. i # k => i + 1 \in 1 .. k
      BY <1>1
    <2> QED BY <1>4, <1>5, <2>1
  <1>9. \A j \in 1 .. k : \E i \in 1 .. k : f[i] = N[j]
    BY <1>3, <1>5
  <1>10. \A i \in 1 .. k : \E j \in 1 .. k : f[i] = N[j]
    BY <1>3, <1>5
  <1>11. \A x \in ListNodes : InRow(c, dlTable, l, x) => nx[x] \in Refs
    <2>1. \A i \in 1 .. k : nx[f[i]] \in Refs
      <3> SUFFICES ASSUME NEW i \in 1 .. k PROVE nx[f[i]] \in Refs
        OBVIOUS
      <3>1. i # k => i + 1 \in 1 .. k
        BY <1>1
      <3> QED BY <1>5, <1>8, <3>1 DEF Refs
    <2> QED BY <1>6, <1>9, <2>1
  <1>12. \A x \in ListNodes :
            dlNode'[x] = IF InRow(c, dlTable, l, x)
                         THEN [dlNode[x] EXCEPT !.next = nx[x]] ELSE dlNode[x]
    BY DEF Reordered
  <1>13. \A x \in ListNodes : InRow(c, dlTable, l, x) =>
            /\ dlNode'[x] \in [data : DeviceSet, next : Refs] /\ dlNode'[x] # FREE
            /\ dlNode'[x].next = nx[x] /\ dlNode'[x].data = dlNode[x].data
    <2> SUFFICES ASSUME NEW x \in ListNodes, InRow(c, dlTable, l, x)
                 PROVE  /\ dlNode'[x] \in [data : DeviceSet, next : Refs] /\ dlNode'[x] # FREE
                        /\ dlNode'[x].next = nx[x] /\ dlNode'[x].data = dlNode[x].data
      OBVIOUS
    <2>1. dlNode[x] \in [data : DeviceSet, next : Refs]
      BY <1>6, <1>7 DEF DevTyped, Memory
    <2>2. dlNode'[x] = [dlNode[x] EXCEPT !.next = nx[x]]
      BY <1>12
    <2>3. dlNode'[x] \in [data : DeviceSet, next : Refs]
      BY <1>11, <2>1, <2>2
    <2> QED BY <2>1, <2>2, <2>3, ListAssumption DEF Refs
  <1>14. dlNode' \in Memory
    <2>1. \A x \in ListNodes : dlNode'[x] \in {FREE} \cup [data : DeviceSet, next : Refs]
      BY <1>12, <1>13 DEF DevTyped, Memory
    <2>2. dlNode' = [x \in ListNodes |-> dlNode'[x]]
      BY DEF Reordered
    <2> QED BY <2>1, <2>2 DEF Memory
  <1>15. \A i \in 1 .. k : f[i] \in ListNodes /\ InRow(c, dlTable, l, f[i])
    BY <1>5, <1>6, <1>10
  <1>16. Strung(f, Len(t), h, dlNode')
    <2>1. h = IF k = 0 THEN NULL ELSE f[1]
      BY <1>1, <1>4, <1>5
    <2>2. \A i, j \in 1 .. k : f[i] = f[j] => i = j
      <3> SUFFICES ASSUME NEW i \in 1 .. k, NEW j \in 1 .. k, f[i] = f[j] PROVE i = j
        OBVIOUS
      <3>1. g[i] \in 1 .. k /\ g[j] \in 1 .. k
        BY <1>3
      <3>2. N[g[i]] = N[g[j]]
        BY <1>5
      <3>3. g[i] = g[j]
        BY <1>7, <3>1, <3>2
      <3> QED BY <1>3, <3>3
    <2> QED BY <1>4, <1>5, <1>8, <1>13, <1>15, <2>1, <2>2 DEF Strung
  <1>17. Filled(f, t, dlNode')
    <2>1. ASSUME NEW i \in 1 .. k PROVE dlNode'[f[i]].data = t[i]
      <3>1. dlNode'[f[i]].data = dlNode[N[g[i]]].data
        BY <1>5, <1>13, <1>15
      <3>2. g[i] \in 1 .. k
        BY <1>3
      <3>3. dlNode[N[g[i]]].data = dlTable[l][g[i]]
        BY <1>1, <1>2, <3>2 DEF Filled
      <3> QED BY <1>4, <3>1, <3>3
    <2> QED BY <1>4, <2>1 DEF Filled
  <1>18. h \in Refs
    <2>1. k # 0 => 1 \in 1 .. k
      BY <1>1
    <2>2. k # 0 => N[g[1]] \in ListNodes
      BY <1>2, <1>3, <2>1
    <2> QED BY <1>4, <2>2 DEF Refs
  <1>19. Relinked(c, l, f, h, t)
    <2>1. /\ \A i \in 1 .. k : \E j \in 1 .. k : f[i] = c[l][j]
          /\ \A j \in 1 .. k : \E i \in 1 .. k : f[i] = c[l][j]
      BY <1>2, <1>9, <1>10
    <2>2. \A x \in ListNodes : ~InRow(c, dlTable, l, x) => dlNode'[x] = dlNode[x]
      BY <1>12
    <2> QED BY <1>1, <1>4, <1>14, <1>16, <1>17, <1>18, <2>1, <2>2 DEF Relinked
  <1> QED BY <1>19 DEF f

\* A call that gives a list another order keeps the invariant.
LEMMA ReorderKeeps ==
  ASSUME DevInv, dlCalls < ListCalls, dlCalls' = dlCalls + 1, dlBad' = Dev!NoFault,
         NEW c, Kept(c, dlHead, dlNode, dlTable, dlGiven),
         AtPlace(c, dlTable, dlGiven, dlPlace, dlRound),
         NEW l, NEW k, NEW g, NEW h, NEW t, NEW nx, Reordered(c, l, k, g, h, t, nx),
         dlPlace' = dlPlace, dlRound' = MovedRound(dlPlace, dlRound),
         dlRecords' = dlRecords, dlLost' = dlLost
  PROVE  DevInv'
  <1>1. Relinked(c, l, [i \in 1 .. k |-> c[l][g[i]]], h, t)
    BY ReorderedRow DEF DevInv
  <1> QED BY <1>1, RelinkKeeps

\* list_reverse keeps the invariant.
LEMMA ReverseKeeps ==
  ASSUME DevInv, dlCalls < ListCalls, dlCalls' = dlCalls + 1,
         NEW l \in ListSet, Dev!list_reverse(l)
  PROVE  DevInv'
  <1>0. DevTyped
    BY DEF DevInv
  <1>1. PICK c : /\ Kept(c, dlHead, dlNode, dlTable, dlGiven)
                 /\ AtPlace(c, dlTable, dlGiven, dlPlace, dlRound)
    BY DEF DevInv, InRows
  <1>2. l \in ListSet \ dlGiven
    BY DEF Dev!list_reverse, Dev!Usable
  <1>3. PICK k \in Nat : k = Len(dlTable[l])
    BY <1>0, <1>1, <1>2, RowFacts
  <1>4. PICK N \in [1 .. k -> ListNodes] :
             N = c[l] /\ Dev!NodesOf(l) = N /\ Len(N) = k /\ Strung(N, k, dlHead[l], dlNode)
    BY <1>0, <1>1, <1>2, <1>3, RowFacts
  <1>5. \A i, j \in 1 .. k : N[i] = N[j] => i = j
    BY <1>4 DEF Strung
  <1> DEFINE at(x) == CHOOSE i \in DOMAIN N : N[i] = x
             nx == [x \in ListNodes |-> IF at(x) = 1 THEN NULL ELSE N[at(x) - 1]]
             g == [i \in 1 .. k |-> k + 1 - i]
             h == IF k = 0 THEN NULL ELSE N[k]
             t == Dev!Reverse(dlTable[l])
  <1>6. \A i \in 1 .. k : at(N[i]) = i
    <2> SUFFICES ASSUME NEW i \in 1 .. k PROVE at(N[i]) = i
      OBVIOUS
    <2>1. DOMAIN N = 1 .. k
      OBVIOUS
    <2>2. at(N[i]) \in DOMAIN N /\ N[at(N[i])] = N[i]
      BY <2>1, Zenon
    <2> HIDE DEF at
    <2> QED BY <1>5, <2>1, <2>2
  <1>7. \A i \in 1 .. k : nx[N[i]] = IF i = 1 THEN NULL ELSE N[i - 1]
    <2> HIDE DEF at
    <2> QED BY <1>6
  <1>8. /\ dlHead' = [dlHead EXCEPT ![l] = IF N = <<>> THEN NULL ELSE Dev!Last(N)]
        /\ dlNode' = [x \in ListNodes |-> IF x \notin Dev!ToSet(N) THEN dlNode[x]
                        ELSE [dlNode[x] EXCEPT !.next = IF at(x) = 1 THEN NULL ELSE N[at(x) - 1]]]
        /\ dlTable' = [dlTable EXCEPT ![l] = t]
        /\ dlRound' = MovedRound(dlPlace, dlRound) /\ dlRecords' = dlRecords
        /\ dlPlace' = dlPlace /\ dlLost' = dlLost /\ dlGiven' = dlGiven /\ dlBad' = Dev!NoFault
    BY <1>4 DEF Dev!list_reverse, Dev!Usable, Dev!RoundMoved, MovedRound
  <1>9. \A x \in ListNodes : InRow(c, dlTable, l, x) <=> x \in Dev!ToSet(N)
    BY <1>3, <1>4 DEF InRow, Dev!ToSet
  <1>10. dlNode' = [x \in ListNodes |-> IF InRow(c, dlTable, l, x)
                                        THEN [dlNode[x] EXCEPT !.next = nx[x]] ELSE dlNode[x]]
    <2> HIDE DEF at
    <2> QED BY <1>8, <1>9
  <1>11. dlHead' = [dlHead EXCEPT ![l] = h]
    <2>1. N = <<>> <=> k = 0
      BY <1>4
    <2>2. Dev!Last(N) = N[k]
      BY <1>4 DEF Dev!Last
    <2> QED BY <1>8, <2>1, <2>2
  <1>12. /\ t \in Seq(DeviceSet) /\ Len(t) = k
         /\ \A i \in 1 .. k : t[i] = dlTable[l][g[i]]
    <2>1. dlTable[l] \in Seq(DeviceSet)
      BY <1>0 DEF DevTyped
    <2>2. t = [i \in 1 .. k |-> dlTable[l][(k - i) + 1]]
      BY <1>3 DEF Dev!Reverse
    <2>3. \A i \in 1 .. k : (k - i) + 1 \in 1 .. k /\ g[i] = (k - i) + 1
      OBVIOUS
    <2>4. t \in [1 .. k -> DeviceSet]
      BY <1>3, <2>1, <2>2, <2>3
    <2> HIDE DEF t, g
    <2> QED BY <2>2, <2>3, <2>4, FunctionIsSeq
  <1>13. Rearranges(g, k)
    <2>1. \A j \in 1 .. k : k + 1 - j \in 1 .. k /\ g[k + 1 - j] = j
      OBVIOUS
    <2> QED BY <2>1 DEF Rearranges
  <1>14. \A i \in 1 .. k : nx[N[g[i]]] = IF i = k THEN NULL ELSE N[g[i + 1]]
    <2> HIDE DEF nx
    <2> SUFFICES ASSUME NEW i \in 1 .. k PROVE nx[N[g[i]]] = IF i = k THEN NULL ELSE N[g[i + 1]]
      OBVIOUS
    <2>1. g[i] = k + 1 - i /\ g[i] \in 1 .. k /\ (g[i] = 1 <=> i = k)
      OBVIOUS
    <2>2. i # k => g[i + 1] = g[i] - 1
      OBVIOUS
    <2> QED BY <1>7, <2>1, <2>2
  <1>15. h = IF k = 0 THEN NULL ELSE N[g[1]]
    BY <1>3
  <1> HIDE DEF nx, g, h, t, at
  <1>16. Reordered(c, l, k, g, h, t, nx)
    BY <1>2, <1>3, <1>4, <1>8, <1>10, <1>11, <1>12, <1>13, <1>14, <1>15 DEF Reordered
  <1> QED BY <1>1, <1>8, <1>16, ReorderKeeps

\* The memory in which the nodes in front of positions p and q of the row f point to the
\* other one of the two.
Fronted(f, p, q, mem) ==
    [x \in ListNodes |->
        IF p > 1 /\ x = f[p - 1] THEN [mem[x] EXCEPT !.next = f[q]]
        ELSE IF q > 1 /\ x = f[q - 1] THEN [mem[x] EXCEPT !.next = f[p]]
        ELSE mem[x]]

\* What list_swap assigns, without its three cases.
LEMMA SwapAssigns ==
  ASSUME DevTyped, NEW c, Kept(c, dlHead, dlNode, dlTable, dlGiven),
         NEW l \in ListSet, NEW i, NEW j, Dev!list_swap(l, i, j)
  PROVE  /\ l \notin dlGiven /\ i + 1 \in 1 .. Len(dlTable[l]) /\ j + 1 \in 1 .. Len(dlTable[l])
         /\ i \in Nat /\ j \in Nat /\ i # j
         /\ dlNode' = Dev!Crossed(Fronted(c[l], i + 1, j + 1, dlNode), c[l][i + 1], c[l][j + 1])
         /\ dlHead' = [dlHead EXCEPT ![l] = IF i = 0 THEN c[l][j + 1]
                                            ELSE IF j = 0 THEN c[l][i + 1] ELSE @]
  <1>1. l \in ListSet \ dlGiven
    BY DEF Dev!list_swap, Dev!Usable
  <1>2. PICK k \in Nat : k = Len(dlTable[l])
    BY <1>1, RowFacts
  <1>3. PICK N \in [1 .. k -> ListNodes] :
             N = c[l] /\ Dev!NodesOf(l) = N /\ Strung(N, k, dlHead[l], dlNode)
    BY <1>1, <1>2, RowFacts
  <1>4. i \in 0 .. k - 1 /\ j \in 0 .. k - 1 /\ i # j
    BY <1>1, <1>2, RowFacts DEF Dev!list_swap
  <1>5. \A u, v \in 1 .. k : N[u] = N[v] => u = v
    BY <1>3 DEF Strung
  <1>6. DOMAIN dlNode = ListNodes /\ dlHead \in [ListSet -> Refs]
    BY DEF DevTyped, Memory
  <1> DEFINE a == N[i + 1]
             b == N[j + 1]
             F == Fronted(N, i + 1, j + 1, dlNode)
             H == [dlHead EXCEPT ![l] = IF i = 0 THEN b ELSE IF j = 0 THEN a ELSE @]
  <1>7. F = [x \in ListNodes |-> IF i > 0 /\ x = N[i] THEN [dlNode[x] EXCEPT !.next = b]
                                 ELSE IF j > 0 /\ x = N[j] THEN [dlNode[x] EXCEPT !.next = a]
                                 ELSE dlNode[x]]
    <2>1. (i + 1 > 1 <=> i > 0) /\ (j + 1 > 1 <=> j > 0) /\ (i + 1) - 1 = i /\ (j + 1) - 1 = j
      BY <1>4
    <2> QED BY <2>1 DEF Fronted
  <1>8. \/ i = 0 /\ dlHead' = [dlHead EXCEPT ![l] = b]
           /\ dlNode' = Dev!Crossed([dlNode EXCEPT ![N[j]].next = a], a, b)
        \/ j = 0 /\ dlHead' = [dlHead EXCEPT ![l] = a]
           /\ dlNode' = Dev!Crossed([dlNode EXCEPT ![N[i]].next = b], a, b)
        \/ i > 0 /\ j > 0 /\ dlHead' = dlHead
           /\ dlNode' = Dev!Crossed([dlNode EXCEPT ![N[i]].next = b, ![N[j]].next = a], a, b)
    BY <1>3 DEF Dev!list_swap
  <1> HIDE DEF a, b, F
  <1>9. dlNode' = Dev!Crossed(F, a, b) /\ dlHead' = H
    <2>1. CASE i = 0 /\ dlHead' = [dlHead EXCEPT ![l] = b]
               /\ dlNode' = Dev!Crossed([dlNode EXCEPT ![N[j]].next = a], a, b)
      <3>1. ~(i > 0) /\ j > 0 /\ j \in 1 .. k /\ N[j] \in ListNodes
        BY <1>4, <2>1
      <3>2. F = [dlNode EXCEPT ![N[j]].next = a]
        BY <1>6, <1>7, <3>1
      <3> QED BY <2>1, <3>2
    <2>2. CASE j = 0 /\ dlHead' = [dlHead EXCEPT ![l] = a]
               /\ dlNode' = Dev!Crossed([dlNode EXCEPT ![N[i]].next = b], a, b)
      <3>1. ~(j > 0) /\ i > 0 /\ i # 0 /\ i \in 1 .. k /\ N[i] \in ListNodes
        BY <1>4, <2>2
      <3>2. F = [dlNode EXCEPT ![N[i]].next = b]
        BY <1>6, <1>7, <3>1
      <3> QED BY <2>2, <3>1, <3>2
    <2>3. CASE i > 0 /\ j > 0 /\ dlHead' = dlHead
               /\ dlNode' = Dev!Crossed([dlNode EXCEPT ![N[i]].next = b, ![N[j]].next = a], a, b)
      <3>1. i \in 1 .. k /\ j \in 1 .. k /\ N[i] \in ListNodes /\ N[j] \in ListNodes
            /\ i # 0 /\ j # 0
        BY <1>4, <2>3
      <3>2. N[i] # N[j]
        BY <1>4, <1>5, <3>1
      <3>3. F = [dlNode EXCEPT ![N[i]].next = b, ![N[j]].next = a]
        BY <1>6, <1>7, <2>3, <3>1, <3>2
      <3> QED BY <1>6, <2>3, <3>1, <3>3
    <2> QED BY <1>8, <2>1, <2>2, <2>3
  <1>10. i + 1 \in 1 .. k /\ j + 1 \in 1 .. k /\ i \in Nat /\ j \in Nat
    BY <1>4
  <1> QED BY <1>1, <1>2, <1>3, <1>4, <1>9, <1>10 DEF a, b, F

\* list_swap keeps the invariant.
LEMMA SwapKeeps ==
  ASSUME DevInv, dlCalls < ListCalls, dlCalls' = dlCalls + 1,
         NEW l \in ListSet, NEW i, NEW j, Dev!list_swap(l, i, j)
  PROVE  DevInv'
  <1>0. DevTyped
    BY DEF DevInv
  <1>1. PICK c : /\ Kept(c, dlHead, dlNode, dlTable, dlGiven)
                 /\ AtPlace(c, dlTable, dlGiven, dlPlace, dlRound)
    BY DEF DevInv, InRows
  <1>2. /\ l \notin dlGiven /\ i + 1 \in 1 .. Len(dlTable[l]) /\ j + 1 \in 1 .. Len(dlTable[l])
        /\ i \in Nat /\ j \in Nat /\ i # j
        /\ dlNode' = Dev!Crossed(Fronted(c[l], i + 1, j + 1, dlNode), c[l][i + 1], c[l][j + 1])
        /\ dlHead' = [dlHead EXCEPT ![l] = IF i = 0 THEN c[l][j + 1]
                                           ELSE IF j = 0 THEN c[l][i + 1] ELSE @]
    BY <1>0, <1>1, SwapAssigns
  <1>3. PICK k \in Nat : k = Len(dlTable[l])
    BY <1>0, <1>1, <1>2, RowFacts
  <1>4. PICK N \in [1 .. k -> ListNodes] : N = c[l] /\ Strung(N, k, dlHead[l], dlNode)
    BY <1>0, <1>1, <1>2, <1>3, RowFacts
  <1>5. PICK p, q \in 1 .. k : p = i + 1 /\ q = j + 1 /\ p # q
    BY <1>2, <1>3
  <1>6. PICK a, b \in ListNodes : a = N[p] /\ b = N[q] /\ a # b
    <2>1. N[p] # N[q]
      BY <1>4, <1>5 DEF Strung
    <2> QED BY <2>1
  <1>7. /\ \A u, v \in 1 .. k : N[u] = N[v] => u = v
        /\ \A u \in 1 .. k : dlNode[N[u]] # FREE
        /\ \A u \in 1 .. k : dlNode[N[u]].next = IF u = k THEN NULL ELSE N[u + 1]
        /\ dlHead[l] = N[1]
    BY <1>4, <1>5 DEF Strung
  <1>8. \A u \in 1 .. k : dlNode[N[u]] \in [data : DeviceSet, next : Refs]
    BY <1>0, <1>7 DEF DevTyped, Memory
  <1>9. PICK m : m = Fronted(N, p, q, dlNode) /\ dlNode' = Dev!Crossed(m, a, b)
    BY <1>2, <1>4, <1>5, <1>6
  <1>10. \A x \in ListNodes : m[x] = IF p > 1 /\ x = N[p - 1] THEN [dlNode[x] EXCEPT !.next = b]
                                     ELSE IF q > 1 /\ x = N[q - 1] THEN [dlNode[x] EXCEPT !.next = a]
                                     ELSE dlNode[x]
    BY <1>6, <1>9 DEF Fronted
  <1>11. DOMAIN m = ListNodes
    BY <1>9 DEF Fronted
  <1>12. \A x \in ListNodes : dlNode'[x] = IF x = a THEN [m[a] EXCEPT !.next = m[b].next]
                                           ELSE IF x = b THEN [m[b] EXCEPT !.next = m[a].next]
                                           ELSE m[x]
    BY <1>6, <1>9, <1>11 DEF Dev!Crossed
  <1>13. dlNode' = [x \in ListNodes |-> dlNode'[x]]
    BY <1>9, <1>11 DEF Dev!Crossed
  <1>14. ASSUME NEW u \in 1 .. k
         PROVE  /\ m[N[u]] \in [data : DeviceSet, next : Refs] /\ m[N[u]].data = dlNode[N[u]].data
                /\ m[N[u]].next = IF u = p - 1 THEN b ELSE IF u = q - 1 THEN a
                                  ELSE IF u = k THEN NULL ELSE N[u + 1]
    <2>0. a \in Refs /\ b \in Refs
      BY DEF Refs
    <2>1. CASE u = p - 1
      <3>1. p > 1 /\ N[u] = N[p - 1]
        BY <2>1
      <3>2. m[N[u]] = [dlNode[N[u]] EXCEPT !.next = b]
        BY <1>10, <3>1
      <3> QED BY <1>8, <2>0, <2>1, <3>2
    <2>2. CASE u # p - 1 /\ u = q - 1
      <3>1. q > 1 /\ N[u] = N[q - 1] /\ ~(p > 1 /\ N[u] = N[p - 1])
        <4>1. p > 1 => p - 1 \in 1 .. k
          OBVIOUS
        <4> QED BY <1>7, <2>2, <4>1
      <3>2. m[N[u]] = [dlNode[N[u]] EXCEPT !.next = a]
        BY <1>10, <3>1
      <3> QED BY <1>8, <2>0, <2>2, <3>2
    <2>3. CASE u # p - 1 /\ u # q - 1
      <3>1. ~(p > 1 /\ N[u] = N[p - 1]) /\ ~(q > 1 /\ N[u] = N[q - 1])
        <4>1. (p > 1 => p - 1 \in 1 .. k) /\ (q > 1 => q - 1 \in 1 .. k)
          OBVIOUS
        <4> QED BY <1>7, <2>3, <4>1
      <3>2. m[N[u]] = dlNode[N[u]]
        BY <1>10, <3>1
      <3> QED BY <1>7, <1>8, <2>3, <3>2
    <2> QED BY <2>1, <2>2, <2>3
  <1> DEFINE nx == [x \in ListNodes |-> dlNode'[x].next]
             g == [u \in 1 .. k |-> IF u = p THEN q ELSE IF u = q THEN p ELSE u]
             h == IF p = 1 THEN b ELSE IF q = 1 THEN a ELSE dlHead[l]
             t == [dlTable[l] EXCEPT ![p] = dlTable[l][q], ![q] = dlTable[l][p]]
  <1>15. ASSUME NEW u \in 1 .. k
         PROVE  /\ dlNode'[N[u]] = [dlNode[N[u]] EXCEPT !.next = nx[N[u]]]
                /\ nx[N[u]] = IF u = p THEN m[b].next ELSE IF u = q THEN m[a].next ELSE m[N[u]].next
    <2>0. nx[N[u]] = dlNode'[N[u]].next
      OBVIOUS
    <2> HIDE DEF nx
    <2>1. m[N[u]] \in [data : DeviceSet, next : Refs] /\ m[N[u]].data = dlNode[N[u]].data
      BY <1>14
    <2>2. m[a] \in [data : DeviceSet, next : Refs] /\ m[b] \in [data : DeviceSet, next : Refs]
      BY <1>6, <1>14
    <2>3. dlNode'[N[u]] = IF u = p THEN [m[N[u]] EXCEPT !.next = m[b].next]
                          ELSE IF u = q THEN [m[N[u]] EXCEPT !.next = m[a].next]
                          ELSE m[N[u]]
      <3>1. (N[u] = a <=> u = p) /\ (N[u] = b <=> u = q)
        BY <1>6, <1>7
      <3> QED BY <1>6, <1>12, <3>1
    <2>4. dlNode'[N[u]].next = IF u = p THEN m[b].next ELSE IF u = q THEN m[a].next ELSE m[N[u]].next
      BY <2>1, <2>3
    <2>5. dlNode'[N[u]] \in [data : DeviceSet, next : Refs] /\ dlNode'[N[u]].data = dlNode[N[u]].data
      BY <2>1, <2>2, <2>3
    <2>6. dlNode[N[u]] \in [data : DeviceSet, next : Refs]
      BY <1>8
    <2> QED BY <2>0, <2>4, <2>5, <2>6
  <1>16. \A x \in ListNodes : InRow(c, dlTable, l, x) <=> \E u \in 1 .. k : N[u] = x
    BY <1>3, <1>4 DEF InRow
  <1>17. \A x \in ListNodes :
            dlNode'[x] = IF InRow(c, dlTable, l, x)
                         THEN [dlNode[x] EXCEPT !.next = nx[x]] ELSE dlNode[x]
    <2> HIDE DEF nx
    <2> SUFFICES ASSUME NEW x \in ListNodes
                 PROVE  dlNode'[x] = IF InRow(c, dlTable, l, x)
                                     THEN [dlNode[x] EXCEPT !.next = nx[x]] ELSE dlNode[x]
      OBVIOUS
    <2>1. CASE InRow(c, dlTable, l, x)
      BY <1>15, <1>16, <2>1
    <2>2. CASE ~InRow(c, dlTable, l, x)
      <3>1. x # a /\ x # b
        BY <1>6, <1>16, <2>2
      <3>2. ~(p > 1 /\ x = N[p - 1]) /\ ~(q > 1 /\ x = N[q - 1])
        <4>1. (p > 1 => p - 1 \in 1 .. k) /\ (q > 1 => q - 1 \in 1 .. k)
          OBVIOUS
        <4> QED BY <1>16, <2>2, <4>1
      <3> QED BY <1>10, <1>12, <2>2, <3>1, <3>2
    <2> QED BY <2>1, <2>2
  <1> HIDE DEF nx
  <1>18. Rearranges(g, k)
    <2>1. g \in [1 .. k -> 1 .. k] /\ \A u \in 1 .. k : g[g[u]] = u
      BY <1>5
    <2> HIDE DEF g
    <2> QED BY <2>1 DEF Rearranges
  <1>19. ASSUME NEW u \in 1 .. k PROVE nx[N[g[u]]] = IF u = k THEN NULL ELSE N[g[u + 1]]
    <2>0. /\ m[a].next = IF p = q - 1 THEN a ELSE IF p = k THEN NULL ELSE N[p + 1]
          /\ m[b].next = IF q = p - 1 THEN b ELSE IF q = k THEN NULL ELSE N[q + 1]
      BY <1>5, <1>6, <1>14
    <2>1. u # k => u + 1 \in 1 .. k
      OBVIOUS
    <2>2. u # k => g[u + 1] = IF u = p - 1 THEN q ELSE IF u = q - 1 THEN p ELSE u + 1
      BY <2>1
    <2>3. CASE u = p
      <3>1. g[u] = q /\ nx[N[q]] = m[a].next
        BY <1>5, <1>15, <2>3
      <3>2. u # p - 1 /\ (u = q - 1 => u # k)
        BY <1>5, <2>3
      <3> QED BY <1>6, <2>0, <2>2, <2>3, <3>1, <3>2
    <2>4. CASE u = q
      <3>1. g[u] = p /\ nx[N[p]] = m[b].next
        BY <1>5, <1>15, <2>4
      <3>2. u # q - 1 /\ (u = p - 1 => u # k)
        BY <1>5, <2>4
      <3> QED BY <1>6, <2>0, <2>2, <2>4, <3>1, <3>2
    <2>5. CASE u # p /\ u # q
      <3>1. g[u] = u /\ nx[N[u]] = m[N[u]].next
        BY <1>15, <2>5
      <3>2. (u = p - 1 => u # k) /\ (u = q - 1 => u # k)
        BY <1>5
      <3>3. m[N[u]].next = IF u = p - 1 THEN b ELSE IF u = q - 1 THEN a
                           ELSE IF u = k THEN NULL ELSE N[u + 1]
        BY <1>14
      <3> QED BY <1>6, <2>2, <3>1, <3>2, <3>3
    <2> QED BY <2>3, <2>4, <2>5
  <1>20. h = IF k = 0 THEN NULL ELSE N[g[1]]
    <2>1. 1 \in 1 .. k /\ k # 0
      BY <1>5
    <2>2. g[1] = IF p = 1 THEN q ELSE IF q = 1 THEN p ELSE 1
      BY <2>1
    <2> QED BY <1>5, <1>6, <1>7, <2>1, <2>2
  <1>21. dlHead' = [dlHead EXCEPT ![l] = h]
    <2>1. (i = 0 <=> p = 1) /\ (j = 0 <=> q = 1)
      BY <1>2, <1>5
    <2> QED BY <1>2, <1>4, <1>5, <1>6, <2>1
  <1>22. /\ dlRound' = MovedRound(dlPlace, dlRound) /\ dlRecords' = dlRecords
         /\ dlPlace' = dlPlace /\ dlLost' = dlLost /\ dlGiven' = dlGiven /\ dlBad' = Dev!NoFault
         /\ dlTable' = [dlTable EXCEPT ![l][p] = dlTable[l][q], ![l][q] = dlTable[l][p]]
    BY <1>5 DEF Dev!list_swap, Dev!Usable, Dev!RoundMoved, MovedRound
  <1>23. /\ t \in Seq(DeviceSet) /\ Len(t) = k /\ dlTable' = [dlTable EXCEPT ![l] = t]
         /\ \A u \in 1 .. k : t[u] = dlTable[l][g[u]]
    <2>1. dlTable[l] \in Seq(DeviceSet) /\ dlTable \in [ListSet -> Seq(DeviceSet)]
      BY <1>0 DEF DevTyped
    <2>2. dlTable[l] \in [1 .. k -> DeviceSet]
      BY <1>3, <2>1
    <2>3. t \in [1 .. k -> DeviceSet] /\ \A u \in 1 .. k : t[u] = dlTable[l][g[u]]
      BY <1>5, <2>2
    <2>4. dlTable' = [dlTable EXCEPT ![l] = t]
      BY <1>22, <2>1
    <2> HIDE DEF t, g
    <2> QED BY <2>3, <2>4, FunctionIsSeq
  <1> HIDE DEF g, h, t
  <1>24. Reordered(c, l, k, g, h, t, nx)
    <2>1. dlNode' = [x \in ListNodes |-> IF InRow(c, dlTable, l, x)
                                         THEN [dlNode[x] EXCEPT !.next = nx[x]] ELSE dlNode[x]]
      BY <1>13, <1>17
    <2> QED BY <1>2, <1>3, <1>4, <1>18, <1>19, <1>20, <1>21, <1>22, <1>23, <2>1 DEF Reordered
  <1> QED BY <1>1, <1>22, <1>24, ReorderKeeps
-------------------------------------------------------------------------------
(* DevList: list_from_array, list_init, list_cycle and list_iter.          *)

\* The array that list_from_array reads: one entry at least, and its nodes.
LEMMA MadeOfArray ==
  ASSUME NEW ds \in Dev!Arrays, NEW len \in 0 .. 2
  PROVE  LET made == SubSeq(ds, 1, Dev!Max({1, len}))
         IN made \in Seq(DeviceSet) /\ Len(made) \in Nat \ {0}
  <1>1. Dev!Max({1, len}) \in 1 .. 2
    <2> DEFINE S == {1, len}
    <2>1. \E x \in S : \A y \in S : x >= y
      <3>1. CASE len = 0
        BY <3>1
      <3>2. CASE len >= 1
        BY <3>2
      <3> QED BY <3>1, <3>2
    <2>2. Dev!Max(S) \in S /\ \A y \in S : Dev!Max(S) >= y
      <3> HIDE DEF S
      <3> QED BY <2>1 DEF Dev!Max
    <2> QED BY <2>2
  <1>2. PICK n \in 1 .. 2 : n = Dev!Max({1, len})
    BY <1>1
  <1>3. ds \in Seq(DeviceSet) /\ Len(ds) = 2
    <2>1. PICK x, y \in DeviceSet : ds = <<x, y>>
      BY DEF Dev!Arrays
    <2> QED BY <2>1
  <1>4. n \in Nat /\ n <= Len(ds) /\ n # 0
    BY <1>3
  <1>5. SubSeq(ds, 1, n) \in [1 .. n -> DeviceSet]
    BY <1>3, <1>4, PrefixElements
  <1>6. SubSeq(ds, 1, n) \in Seq(DeviceSet) /\ Len(SubSeq(ds, 1, n)) = n
    BY <1>4, <1>5, FunctionIsSeq
  <1> QED BY <1>2, <1>4, <1>6

\* An injection has as many values as arguments.
LEMMA ValuesCounted ==
  ASSUME NEW n \in Nat, NEW R, NEW f \in [1 .. n -> R], \A i, j \in 1 .. n : f[i] = f[j] => i = j
  PROVE  LET S == {f[i] : i \in 1 .. n}
         IN S \in SUBSET R /\ IsFiniteSet(S) /\ Cardinality(S) = n
  <1> DEFINE S == {f[i] : i \in 1 .. n}
  <1>1. f \in Bijection(1 .. n, S)
    BY DEF Bijection, Injection, Surjection, IsInjective
  <1>2. ExistsBijection(1 .. n, S)
    BY <1>1 DEF ExistsBijection
  <1>3. IsFiniteSet(1 .. n) /\ Cardinality(1 .. n) = n
    BY FS_Interval
  <1>4. IsFiniteSet(S) /\ Cardinality(S) = n
    <2> HIDE DEF S
    <2> QED BY <1>2, <1>3, FS_Bijection
  <1> QED BY <1>4

\* list_from_array makes the n nodes ns of the entries made.
FromArray(l, n, made, ns) ==
    /\ l \in ListSet \ dlGiven /\ dlHead[l] = NULL
    /\ n \in Nat \ {0} /\ made \in Seq(DeviceSet) /\ Len(made) = n
    /\ ns \in [1 .. n -> ListNodes] /\ \A i \in 1 .. n : dlNode[ns[i]] = FREE
    /\ \A i, j \in 1 .. n : ns[i] = ns[j] => i = j
    /\ dlHead' = [dlHead EXCEPT ![l] = ns[1]] /\ dlNode' = Dev!Chain(ns, made)
    /\ dlTable' = [dlTable EXCEPT ![l] = made] /\ dlGiven' = dlGiven

\* list_from_array: an empty list becomes the row of the new nodes.
LEMMA ArrayRow ==
  ASSUME DevTyped, NEW c, Kept(c, dlHead, dlNode, dlTable, dlGiven),
         NEW l, NEW n, NEW made, NEW ns, FromArray(l, n, made, ns)
  PROVE  /\ OneList(c, l, ns, ns[1], made) /\ Len(dlTable[l]) = 0
         /\ Used(dlNode') = Used(dlNode) \cup {ns[i] : i \in 1 .. n}
  <1>0. /\ l \in ListSet \ dlGiven /\ dlHead[l] = NULL
        /\ n \in Nat \ {0} /\ made \in Seq(DeviceSet) /\ Len(made) = n
        /\ ns \in [1 .. n -> ListNodes] /\ \A i \in 1 .. n : dlNode[ns[i]] = FREE
        /\ \A i, j \in 1 .. n : ns[i] = ns[j] => i = j
        /\ dlHead' = [dlHead EXCEPT ![l] = ns[1]] /\ dlNode' = Dev!Chain(ns, made)
        /\ dlTable' = [dlTable EXCEPT ![l] = made] /\ dlGiven' = dlGiven
    BY DEF FromArray
  <1> USE <1>0
  <1>1. Len(dlTable[l]) = 0
    BY RowFacts
  <1>2. DOMAIN ns = 1 .. n /\ Len(ns) = n
    BY FunctionIsSeq
  <1> DEFINE at(x) == CHOOSE i \in DOMAIN ns : ns[i] = x
  <1>3. \A i \in 1 .. n : at(ns[i]) = i
    <2> SUFFICES ASSUME NEW i \in 1 .. n PROVE at(ns[i]) = i
      OBVIOUS
    <2>1. at(ns[i]) \in DOMAIN ns /\ ns[at(ns[i])] = ns[i]
      BY <1>2, Zenon
    <2> HIDE DEF at
    <2> QED BY <1>2, <2>1
  <1>4. dlNode' = [x \in ListNodes |->
                     IF x \notin Dev!ToSet(ns) THEN dlNode[x]
                     ELSE [data |-> made[at(x)], next |-> IF at(x) = Len(ns) THEN NULL ELSE ns[at(x) + 1]]]
    BY DEF Dev!Chain
  <1> HIDE DEF at
  <1>5. \A x : x \in Dev!ToSet(ns) <=> \E i \in 1 .. n : ns[i] = x
    BY <1>2 DEF Dev!ToSet
  <1>6. \A i \in 1 .. n :
           dlNode'[ns[i]] = [data |-> made[i], next |-> IF i = n THEN NULL ELSE ns[i + 1]]
    BY <1>2, <1>3, <1>4, <1>5
  <1>7. \A x \in ListNodes : (\A i \in 1 .. n : ns[i] # x) => dlNode'[x] = dlNode[x]
    BY <1>4, <1>5
  <1>8. \A i \in 1 .. n : dlNode'[ns[i]] \in [data : DeviceSet, next : Refs] /\ dlNode'[ns[i]] # FREE
    <2> SUFFICES ASSUME NEW i \in 1 .. n
                 PROVE  dlNode'[ns[i]] \in [data : DeviceSet, next : Refs] /\ dlNode'[ns[i]] # FREE
      OBVIOUS
    <2>1. made[i] \in DeviceSet
      OBVIOUS
    <2>2. PICK r \in Refs : r = IF i = n THEN NULL ELSE ns[i + 1]
      <3>1. i # n => i + 1 \in 1 .. n
        OBVIOUS
      <3> QED BY <3>1 DEF Refs
    <2>3. dlNode'[ns[i]] \in [data : DeviceSet, next : Refs]
      <3>1. dlNode'[ns[i]] = [data |-> made[i], next |-> r]
        BY <1>6, <2>2
      <3> QED BY <2>1, <3>1
    <2> QED BY <2>3, ListAssumption DEF Refs
  <1>9. dlNode' \in Memory
    <2>1. \A x \in ListNodes : dlNode'[x] \in {FREE} \cup [data : DeviceSet, next : Refs]
      BY <1>7, <1>8 DEF DevTyped, Memory
    <2>2. dlNode' = [x \in ListNodes |-> dlNode'[x]]
      BY <1>4
    <2> QED BY <2>1, <2>2 DEF Memory
  <1>10. Strung(ns, Len(made), ns[1], dlNode')
    <2>1. \A i \in 1 .. n : dlNode'[ns[i]].next = IF i = n THEN NULL ELSE ns[i + 1]
      <3> SUFFICES ASSUME NEW i \in 1 .. n
                   PROVE  dlNode'[ns[i]].next = IF i = n THEN NULL ELSE ns[i + 1]
        OBVIOUS
      <3>1. PICK r : r = IF i = n THEN NULL ELSE ns[i + 1]
        OBVIOUS
      <3>2. dlNode'[ns[i]] = [data |-> made[i], next |-> r]
        BY <1>6, <3>1
      <3>3. dlNode'[ns[i]].next = r
        BY <3>2
      <3> QED BY <3>1, <3>3
    <2> QED BY <1>8, <2>1 DEF Strung
  <1>11. Filled(ns, made, dlNode')
    <2>1. \A i \in 1 .. n : dlNode'[ns[i]].data = made[i]
      <3> SUFFICES ASSUME NEW i \in 1 .. n PROVE dlNode'[ns[i]].data = made[i]
        OBVIOUS
      <3>1. PICK r : dlNode'[ns[i]] = [data |-> made[i], next |-> r]
        BY <1>6
      <3> QED BY <3>1
    <2> QED BY <2>1 DEF Filled
  <1>12. Rerowed(c, l, ns, dlNode, dlNode', dlTable, made)
    <2>1. \A x : ~InRow(c, dlTable, l, x)
      BY <1>1 DEF InRow
    <2> QED BY <1>7, <2>1 DEF Rerowed
  <1>13. ns[1] \in Refs
    BY DEF Refs
  <1>14. OneList(c, l, ns, ns[1], made)
    BY <1>9, <1>10, <1>11, <1>12, <1>13 DEF OneList
  <1>15. Used(dlNode') = Used(dlNode) \cup {ns[i] : i \in 1 .. n}
    BY <1>7, <1>8 DEF Used
  <1> QED BY <1>1, <1>14, <1>15

\* list_from_array keeps the invariant.
LEMMA ArrayKeeps ==
  ASSUME DevInv, dlCalls < ListCalls, dlCalls' = dlCalls + 1,
         NEW l \in ListSet, NEW ds \in Dev!Arrays, NEW len \in 0 .. 2,
         Dev!list_from_array(l, ds, len)
  PROVE  DevInv'
  <1>0. DevTyped /\ Counted
    BY DEF DevInv
  <1>1. PICK c : /\ Kept(c, dlHead, dlNode, dlTable, dlGiven)
                 /\ AtPlace(c, dlTable, dlGiven, dlPlace, dlRound)
    BY DEF DevInv, InRows
  <1>2. PICK made \in Seq(DeviceSet) : made = SubSeq(ds, 1, Dev!Max({1, len})) /\ Len(made) \in Nat \ {0}
    BY MadeOfArray
  <1>3. /\ l \in ListSet \ dlGiven /\ dlHead[l] = NULL
        /\ \E ns \in Dev!Injection(DOMAIN made, Dev!FreeNodes) :
              dlHead' = [dlHead EXCEPT ![l] = ns[1]] /\ dlNode' = Dev!Chain(ns, made)
        /\ dlRecords' = dlRecords + Len(made) /\ dlTable' = [dlTable EXCEPT ![l] = made]
        /\ dlPlace' = dlPlace /\ dlLost' = dlLost /\ dlGiven' = dlGiven /\ dlRound' = dlRound
        /\ dlBad' = Dev!NoFault
    BY <1>2 DEF Dev!list_from_array, Dev!Usable
  <1>4. PICK n \in Nat \ {0} : n = Len(made)
    BY <1>2
  <1>5. DOMAIN made = 1 .. n
    BY <1>4
  <1>6. PICK ns \in [1 .. n -> ListNodes] :
             /\ \A i \in 1 .. n : dlNode[ns[i]] = FREE
             /\ \A i, j \in 1 .. n : ns[i] = ns[j] => i = j
             /\ dlHead' = [dlHead EXCEPT ![l] = ns[1]] /\ dlNode' = Dev!Chain(ns, made)
    BY <1>3, <1>5 DEF Dev!Injection, Dev!IsInjective, Dev!FreeNodes
  <1> DEFINE S == {ns[i] : i \in 1 .. n}
  <1>7. /\ OneList(c, l, ns, ns[1], made) /\ Len(dlTable[l]) = 0
        /\ Used(dlNode') = Used(dlNode) \cup S
    <2>1. FromArray(l, n, made, ns)
      BY <1>3, <1>4, <1>6 DEF FromArray
    <2> QED BY <1>0, <1>1, <2>1, ArrayRow
  <1> DEFINE c2 == [c EXCEPT ![l] = ns]
  <1>8. /\ Kept(c2, dlHead', dlNode', dlTable', dlGiven')
        /\ OthersSame(c, dlTable, c2, dlTable', l)
        /\ c2[l] = ns /\ dlTable'[l] = made
        /\ dlHead' \in [ListSet -> Refs] /\ dlTable' \in [ListSet -> Seq(DeviceSet)]
    BY <1>0, <1>1, <1>7, OneListKept
  <1>9. dlNode' \in Memory /\ dlGiven' \in SUBSET ListSet
        /\ dlPlace \in PlaceType /\ dlRound \in RoundType
    BY <1>0, <1>3, <1>7 DEF OneList, DevTyped
  <1>10. Counted'
    <2>1. IsFiniteSet(S) /\ Cardinality(S) = n
      BY <1>6, ValuesCounted
    <2>2. Used(dlNode) \cap S = {}
      BY <1>6 DEF Used
    <2> HIDE DEF S
    <2>3. IsFiniteSet(Used(dlNode)) /\ Cardinality(Used(dlNode)) \in Nat
      BY UsedFinite
    <2>4. Cardinality(Used(dlNode')) = Cardinality(Used(dlNode)) + n
      <3>1. Cardinality(Used(dlNode) \cup S)
               = Cardinality(Used(dlNode)) + Cardinality(S) - Cardinality(Used(dlNode) \cap S)
        BY <2>1, <2>3, FS_Union
      <3>2. Cardinality(Used(dlNode) \cap S) = 0
        BY <2>2, FS_EmptySet
      <3> QED BY <1>7, <2>1, <2>3, <3>1, <3>2
    <2>5. dlLost \in Nat
      BY <1>0 DEF DevTyped
    <2> QED BY <1>0, <1>3, <1>4, <2>3, <2>4, <2>5 DEF Counted
  <1> HIDE DEF c2, S
  <1>11. AtPlace(c2, dlTable', dlGiven, dlPlace, dlRound)
    <2>1. \A x, y : ~Behind(c[l], Len(dlTable[l]), x, y) /\ ~InRow(c, dlTable, l, x)
      BY <1>7 DEF Behind, InRow
    <2>2. OfNodes(c, dlTable, dlGiven)
      BY <1>1, RowsOfNodes
    <2> QED BY <1>1, <1>8, <1>9, <2>1, <2>2, PlaceStays
  <1>12. DevTyped' /\ Dev!FaultsNamed'
    BY <1>0, <1>3, <1>8, <1>9, QuietCall
  <1>13. InRows'
    BY <1>3, <1>8, <1>11 DEF InRows
  <1> QED BY <1>10, <1>12, <1>13 DEF DevInv

\* list_init keeps the invariant.
LEMMA InitKeeps ==
  ASSUME DevInv, dlCalls < ListCalls, dlCalls' = dlCalls + 1,
         NEW l \in ListSet, Dev!list_init(l)
  PROVE  DevInv'
  <1>0. DevTyped /\ Counted
    BY DEF DevInv
  <1>1. PICK c : /\ Kept(c, dlHead, dlNode, dlTable, dlGiven)
                 /\ AtPlace(c, dlTable, dlGiven, dlPlace, dlRound)
    BY DEF DevInv, InRows
  <1>2. /\ l \in dlGiven \/ dlHead[l] = NULL
        /\ dlHead' = [dlHead EXCEPT ![l] = NULL] /\ dlTable' = [dlTable EXCEPT ![l] = <<>>]
        /\ dlGiven' = dlGiven \ {l} /\ dlNode' = dlNode /\ dlRecords' = dlRecords
        /\ dlPlace' = dlPlace /\ dlLost' = dlLost /\ dlRound' = dlRound /\ dlBad' = Dev!NoFault
    BY DEF Dev!list_init
  <1>3. l \notin dlGiven => Len(dlTable[l]) = 0
    BY <1>0, <1>1, <1>2, RowFacts
  <1>4. dlHead \in [ListSet -> Refs] /\ dlTable \in [ListSet -> Seq(DeviceSet)]
    BY <1>0 DEF DevTyped
  <1>5. DOMAIN c = ListSet
    BY <1>1 DEF Kept
  <1> DEFINE c2 == [c EXCEPT ![l] = [i \in 1 .. 0 |-> NULL]]
  <1>6. /\ DOMAIN c2 = ListSet /\ c2[l] \in [1 .. 0 -> ListNodes]
        /\ dlHead'[l] = NULL /\ dlTable'[l] = <<>>
        /\ \A m \in ListSet : m # l => c2[m] = c[m] /\ dlHead'[m] = dlHead[m] /\ dlTable'[m] = dlTable[m]
    BY <1>2, <1>4, <1>5
  <1> HIDE DEF c2
  <1>7. Len(dlTable'[l]) = 0
    BY <1>6
  <1>8. /\ \A x : ~InRow(c2, dlTable', l, x)
        /\ \A m \in ListSet : \A x : m # l => (InRow(c2, dlTable', m, x) <=> InRow(c, dlTable, m, x))
        /\ \A x : l \notin dlGiven => ~InRow(c, dlTable, l, x)
    BY <1>3, <1>6, <1>7 DEF InRow
  <1>9. Kept(c2, dlHead', dlNode', dlTable', dlGiven')
    <2>1. ASSUME NEW m \in ListSet \ dlGiven'
          PROVE  Strung(c2[m], Len(dlTable'[m]), dlHead'[m], dlNode') /\ Filled(c2[m], dlTable'[m], dlNode')
      <3>1. CASE m = l
        BY <1>6, <1>7, <3>1 DEF Strung, Filled
      <3>2. CASE m # l
        <4>1. m \in ListSet \ dlGiven
          BY <1>2, <3>2
        <4> QED BY <1>1, <1>2, <1>6, <3>2, <4>1 DEF Kept
      <3> QED BY <3>1, <3>2
    <2>2. ASSUME NEW m \in ListSet \ dlGiven', NEW o \in ListSet \ dlGiven', NEW x \in ListNodes,
                 InRow(c2, dlTable', m, x), InRow(c2, dlTable', o, x)
          PROVE  m = o
      <3>1. m # l /\ o # l
        BY <1>8, <2>2
      <3>2. m \in ListSet \ dlGiven /\ o \in ListSet \ dlGiven
        BY <1>2, <3>1
      <3> QED BY <1>1, <1>8, <2>2, <3>1, <3>2 DEF Kept
    <2>3. ASSUME NEW x \in ListNodes, dlNode'[x] # FREE
          PROVE  \E m \in ListSet \ dlGiven' : InRow(c2, dlTable', m, x)
      <3>1. PICK m \in ListSet \ dlGiven : InRow(c, dlTable, m, x)
        BY <1>1, <1>2, <2>3 DEF Kept
      <3>2. m # l /\ m \in ListSet \ dlGiven'
        BY <1>2, <1>8, <3>1
      <3> QED BY <1>8, <3>1, <3>2
    <2> QED BY <1>6, <2>1, <2>2, <2>3 DEF Kept
  <1>10. AtPlace(c2, dlTable', dlGiven', dlPlace', dlRound')
    <2>1. \A m \in ListSet \ dlGiven : \A x : InRow(c, dlTable, m, x) => InRow(c2, dlTable', m, x)
      BY <1>8
    <2>2. \A m \in ListSet \ dlGiven : \A x, y :
             Behind(c[m], Len(dlTable[m]), x, y) => Behind(c2[m], Len(dlTable'[m]), x, y)
      BY <1>3, <1>6 DEF Behind
    <2>3. dlPlace.cycled # NULL => dlPlace.cycled \in ListSet
      BY <1>0 DEF DevTyped, PlaceType
    <2>4. AtPlace(c2, dlTable', dlGiven \ {l}, dlPlace, dlRound)
      BY <1>1, <2>1, <2>2, <2>3 DEF AtPlace
    <2> QED BY <1>2, <2>4
  <1>11. Counted'
    BY <1>0, <1>2 DEF Counted
  <1>12. DevTyped' /\ Dev!FaultsNamed'
    <2>1. dlHead' \in [ListSet -> Refs] /\ dlTable' \in [ListSet -> Seq(DeviceSet)]
      BY <1>2, <1>4 DEF Refs
    <2>2. dlNode' \in Memory /\ dlGiven' \in SUBSET ListSet /\ dlPlace' \in PlaceType
          /\ dlRound' \in RoundType
      BY <1>0, <1>2 DEF DevTyped
    <2> QED BY <1>0, <1>2, <2>1, <2>2, QuietCall
  <1> QED BY <1>9, <1>10, <1>11, <1>12 DEF DevInv, InRows

\* The bookkeeping of list_iter and list_cycle, which leave the memory alone.
LEMMA LookKeeps ==
  ASSUME DevInv, dlCalls < ListCalls, dlCalls' = dlCalls + 1,
         UNCHANGED <<dlHead, dlNode, dlRecords, dlTable, dlLost, dlGiven>>,
         dlPlace' \in PlaceType, dlRound' \in RoundType,
         dlBad' \in {Dev!NoFault} \cup [call : {"iter", "cycle"}, list : ListSet],
         NEW c, Kept(c, dlHead, dlNode, dlTable, dlGiven),
         AtPlace(c, dlTable, dlGiven, dlPlace', dlRound'), Dev!FaultsNamed'
  PROVE  DevInv'
  <1>0. DevTyped /\ Counted
    BY DEF DevInv
  <1>1. DevTyped'
    <2>1. dlCalls' \in 0 .. ListCalls /\ dlLost' \in 0 .. dlCalls'
      BY <1>0, ListAssumption DEF DevTyped
    <2> QED BY <1>0, <2>1 DEF DevTyped
  <1>2. InRows' /\ Counted'
    BY <1>0 DEF InRows, Counted
  <1> QED BY <1>1, <1>2 DEF DevInv

\* A node of a row is followed by one of the same row, or by none.
LEMMA NextInRow ==
  ASSUME NEW k \in Nat, NEW f, NEW from, NEW mem, Strung(f, k, from, mem),
         NEW u \in 1 .. k
  PROVE  /\ mem[f[u]].next = NULL \/ \E v \in 1 .. k : f[v] = mem[f[u]].next
         /\ \A y : Behind(f, k, f[u], y) /\ y # f[u] => Behind(f, k, mem[f[u]].next, y)
  <1>1. mem[f[u]].next = IF u = k THEN NULL ELSE f[u + 1]
    BY DEF Strung
  <1>2. u # k => u + 1 \in 1 .. k
    OBVIOUS
  <1>3. ASSUME NEW y, Behind(f, k, f[u], y), y # f[u] PROVE Behind(f, k, mem[f[u]].next, y)
    <2>1. PICK v, w \in 1 .. k : v <= w /\ f[v] = f[u] /\ f[w] = y
      BY <1>3 DEF Behind
    <2>2. v = u
      BY <2>1 DEF Strung
    <2>3. w # u
      BY <1>3, <2>1
    <2>4. u # k /\ u + 1 <= w
      BY <2>1, <2>2, <2>3
    <2> QED BY <1>1, <1>2, <2>1, <2>4 DEF Behind
  <1> QED BY <1>1, <1>2, <1>3

\* list_cycle keeps the invariant.
LEMMA CycleKeeps ==
  ASSUME DevInv, dlCalls < ListCalls, dlCalls' = dlCalls + 1,
         NEW l \in ListSet, Dev!list_cycle(l)
  PROVE  DevInv'
  <1>0. DevTyped
    BY DEF DevInv
  <1>1. PICK c : /\ Kept(c, dlHead, dlNode, dlTable, dlGiven)
                 /\ AtPlace(c, dlTable, dlGiven, dlPlace, dlRound)
    BY DEF DevInv, InRows
  <1>2. l \in ListSet \ dlGiven /\ dlBad = Dev!NoFault
        /\ UNCHANGED <<dlHead, dlNode, dlRecords, dlTable, dlLost, dlGiven>> /\ dlRound' = dlRound
    BY DEF Dev!list_cycle, Dev!Usable
  <1>3. PICK k \in Nat : k = Len(dlTable[l])
    BY <1>0, <1>1, <1>2, RowFacts
  <1>4. PICK N \in [1 .. k -> ListNodes] :
             N = c[l] /\ Dev!NodesOf(l) = N /\ Len(N) = k /\ Strung(N, k, dlHead[l], dlNode)
    BY <1>0, <1>1, <1>2, <1>3, RowFacts
  <1>5. \A x : InRow(c, dlTable, l, x) <=> \E i \in 1 .. k : N[i] = x
    BY <1>3, <1>4 DEF InRow
  <1>6. PICK p : p = Dev!CyclePlace(l)
    OBVIOUS
  <1>7. Dev!OffTheList(l, p) <=> p = NULL \/ ~InRow(c, dlTable, l, p)
    BY <1>4, <1>5 DEF Dev!OffTheList, Dev!ToSet
  <1>8. dlPlace \in PlaceType /\ dlRound \in RoundType
    BY <1>0 DEF DevTyped
  <1>9. CASE Dev!OffTheList(l, p)
    <2>1. dlBad' = [call |-> "cycle", list |-> l] /\ dlPlace' = dlPlace
      BY <1>6, <1>9 DEF Dev!list_cycle
    <2>2. dlPlace.cycled # l \/ (dlPlace.cycle = NULL /\ dlHead[l] = NULL)
      <3> SUFFICES ASSUME dlPlace.cycled = l PROVE dlPlace.cycle = NULL /\ dlHead[l] = NULL
        OBVIOUS
      <3>1. l # NULL
        BY ListAssumption
      <3>2. dlPlace.cycle = NULL \/ InRow(c, dlTable, l, dlPlace.cycle)
        BY <1>1, <3>1 DEF AtPlace
      <3>3. dlPlace.cycle = NULL
        BY <1>6, <1>7, <1>9, <3>2 DEF Dev!CyclePlace
      <3>4. p = dlHead[l]
        BY <1>6, <3>3 DEF Dev!CyclePlace
      <3>5. dlHead[l] = NULL \/ InRow(c, dlTable, l, dlHead[l])
        BY <1>4, <1>5 DEF Strung
      <3> QED BY <1>7, <1>9, <3>3, <3>4, <3>5
    <2>3. Dev!FaultsNamed'
      BY <1>2, <2>1, <2>2 DEF Dev!FaultsNamed
    <2>4. dlBad' \in {Dev!NoFault} \cup [call : {"iter", "cycle"}, list : ListSet]
      BY <2>1
    <2>5. AtPlace(c, dlTable, dlGiven, dlPlace', dlRound')
      BY <1>1, <1>2, <2>1
    <2>6. dlPlace' \in PlaceType /\ dlRound' \in RoundType
      BY <1>2, <1>8, <2>1
    <2> QED BY <1>1, <1>2, <2>3, <2>4, <2>5, <2>6, LookKeeps
  <1>10. CASE ~Dev!OffTheList(l, p)
    <2>1. dlPlace' = [dlPlace EXCEPT !.cycle = dlNode[p].next, !.cycled = l] /\ dlBad' = dlBad
      BY <1>6, <1>10 DEF Dev!list_cycle
    <2>2. PICK u \in 1 .. k : N[u] = p
      BY <1>5, <1>7, <1>10
    <2>3. dlNode[p].next = NULL \/ InRow(c, dlTable, l, dlNode[p].next)
      BY <1>4, <1>5, <2>2, NextInRow
    <2>4. dlNode[p].next \in Refs
      BY <1>5, <2>3 DEF Refs
    <2>5. /\ dlPlace' \in PlaceType /\ dlPlace'.cycle = dlNode[p].next /\ dlPlace'.cycled = l
          /\ dlPlace'.iter = dlPlace.iter /\ dlPlace'.flag = dlPlace.flag
      BY <1>8, <2>1, <2>4 DEF PlaceType
    <2>6. AtPlace(c, dlTable, dlGiven, dlPlace', dlRound')
      BY <1>1, <1>2, <2>3, <2>5 DEF AtPlace
    <2>7. Dev!FaultsNamed'
      BY <1>2, <2>1 DEF Dev!FaultsNamed, Dev!NoFault
    <2> QED BY <1>1, <1>2, <1>8, <2>1, <2>5, <2>6, <2>7, LookKeeps
  <1> QED BY <1>9, <1>10

\* The round that a call of list_iter begins or goes on with.
RoundOf(l) ==
    IF dlPlace.flag THEN dlRound
    ELSE [Dev!NoRound EXCEPT !.list = l, !.due = Dev!ToSet(Dev!NodesOf(l))]

\* What is still to come in a round is ahead of its place.
StillDue(c, l, r, p) ==
    /\ r \in RoundType /\ r.list \in ListSet \ dlGiven
    /\ ~r.astray => InRow(c, dlTable, r.list, p)
    /\ ~r.astray /\ ~r.moved =>
          \A y \in r.due \ r.came : Behind(c[r.list], Len(dlTable[r.list]), p, y)

\* A round that is not at its end has its place in its list.
LEMMA RoundAhead ==
  ASSUME DevTyped, NEW c, Kept(c, dlHead, dlNode, dlTable, dlGiven),
         AtPlace(c, dlTable, dlGiven, dlPlace, dlRound), NEW l \in ListSet \ dlGiven,
         Dev!IterPlace(l) # NULL
  PROVE  StillDue(c, l, RoundOf(l), Dev!IterPlace(l))
  <1>0. PICK p, r : p = Dev!IterPlace(l) /\ r = RoundOf(l)
    OBVIOUS
  <1>1. PICK k \in Nat : k = Len(dlTable[l])
    BY RowFacts
  <1>2. PICK N \in [1 .. k -> ListNodes] :
             N = c[l] /\ Dev!NodesOf(l) = N /\ Strung(N, k, dlHead[l], dlNode)
    BY <1>1, RowFacts
  <1>3. CASE dlPlace.flag
    <2>1. r = dlRound /\ p = dlPlace.iter
      BY <1>0, <1>3 DEF Dev!IterPlace, RoundOf
    <2> QED BY <1>0, <1>3, <2>1 DEF AtPlace, DevTyped, StillDue
  <1>4. CASE ~dlPlace.flag
    <2>1. /\ r = [Dev!NoRound EXCEPT !.list = l, !.due = Dev!ToSet(Dev!NodesOf(l))]
          /\ p = dlHead[l]
      BY <1>0, <1>4 DEF Dev!IterPlace, RoundOf
    <2>2. /\ r.list = l /\ r.due = Dev!ToSet(N) /\ r.came = {} /\ r.astray = FALSE /\ r.moved = FALSE
          /\ r = [list |-> l, due |-> Dev!ToSet(N), came |-> {}, astray |-> FALSE, moved |-> FALSE]
      BY <1>2, <2>1 DEF Dev!NoRound
    <2>3. \A y \in Dev!ToSet(N) : \E v \in 1 .. k : N[v] = y
      BY <1>2 DEF Dev!ToSet
    <2>4. Dev!ToSet(N) \in SUBSET ListNodes
      BY <2>3
    <2>5. k > 0 /\ p = N[1] /\ 1 \in 1 .. k
      BY <1>0, <1>2, <2>1 DEF Strung
    <2>6. \A y \in r.due : Behind(c[l], Len(dlTable[l]), p, y)
      BY <1>1, <1>2, <2>2, <2>3, <2>5 DEF Behind
    <2>7. InRow(c, dlTable, l, p)
      BY <1>1, <1>2, <2>5 DEF InRow
    <2>8. r \in RoundType
      BY <2>2, <2>4 DEF RoundType
    <2> QED BY <1>0, <2>2, <2>6, <2>7, <2>8 DEF StillDue
  <1> QED BY <1>3, <1>4

\* list_iter keeps the invariant.
LEMMA IterKeeps ==
  ASSUME DevInv, dlCalls < ListCalls, dlCalls' = dlCalls + 1,
         NEW l \in ListSet, Dev!list_iter(l)
  PROVE  DevInv'
  <1>0. DevTyped
    BY DEF DevInv
  <1>1. PICK c : /\ Kept(c, dlHead, dlNode, dlTable, dlGiven)
                 /\ AtPlace(c, dlTable, dlGiven, dlPlace, dlRound)
    BY DEF DevInv, InRows
  <1>2. l \in ListSet \ dlGiven /\ dlBad = Dev!NoFault
        /\ UNCHANGED <<dlHead, dlNode, dlRecords, dlTable, dlLost, dlGiven>>
    BY DEF Dev!list_iter, Dev!Usable
  <1>3. PICK k \in Nat : k = Len(dlTable[l])
    BY <1>0, <1>1, <1>2, RowFacts
  <1>4. PICK N \in [1 .. k -> ListNodes] :
             N = c[l] /\ Dev!NodesOf(l) = N /\ Len(N) = k /\ Strung(N, k, dlHead[l], dlNode)
    BY <1>0, <1>1, <1>2, <1>3, RowFacts
  <1>5. \A x : InRow(c, dlTable, l, x) <=> \E i \in 1 .. k : N[i] = x
    BY <1>3, <1>4 DEF InRow
  <1>6. PICK p : p = Dev!IterPlace(l)
    OBVIOUS
  <1>7. Dev!OffTheList(l, p) <=> p = NULL \/ ~InRow(c, dlTable, l, p)
    BY <1>4, <1>5 DEF Dev!OffTheList, Dev!ToSet
  <1>8. dlPlace \in PlaceType /\ dlRound \in RoundType
    BY <1>0 DEF DevTyped
  <1>9. PICK r : r = RoundOf(l)
    OBVIOUS
  <1>10. CASE p = NULL
    <2>1. /\ dlPlace' = [dlPlace EXCEPT !.flag = FALSE, !.iter = NULL]
          /\ dlRound' = Dev!NoRound /\ dlBad' = dlBad
      BY <1>6, <1>10 DEF Dev!list_iter
    <2>2. /\ dlPlace' \in PlaceType /\ ~dlPlace'.flag
          /\ dlPlace'.cycle = dlPlace.cycle /\ dlPlace'.cycled = dlPlace.cycled
      BY <1>8, <2>1 DEF PlaceType, Refs
    <2>3. dlRound' \in RoundType
      BY <2>1 DEF RoundType, Dev!NoRound
    <2>4. AtPlace(c, dlTable, dlGiven, dlPlace', dlRound')
      BY <1>1, <2>1, <2>2 DEF AtPlace
    <2>5. Dev!FaultsNamed'
      BY <1>2, <2>1 DEF Dev!FaultsNamed, Dev!NoFault
    <2> QED BY <1>1, <1>2, <2>1, <2>2, <2>3, <2>4, <2>5, LookKeeps
  <1>11. CASE p # NULL
    <2>1. /\ r \in RoundType /\ r.list \in ListSet \ dlGiven
          /\ ~r.astray => InRow(c, dlTable, r.list, p)
          /\ ~r.astray /\ ~r.moved =>
                \A y \in r.due \ r.came : Behind(c[r.list], Len(dlTable[r.list]), p, y)
      <3>1. Dev!IterPlace(l) # NULL
        BY <1>6, <1>11
      <3>2. StillDue(c, l, RoundOf(l), Dev!IterPlace(l))
        BY <1>0, <1>1, <1>2, <3>1, RoundAhead
      <3> QED BY <1>6, <1>9, <3>2 DEF StillDue
    <2>2. CASE Dev!OffTheList(l, p)
      <3>1. dlBad' = [call |-> "iter", list |-> l] /\ dlRound' = r /\ dlPlace' = dlPlace
        BY <1>6, <1>9, <1>11, <2>2 DEF Dev!list_iter, RoundOf
      <3>2. dlPlace.flag
        <4> SUFFICES ASSUME ~dlPlace.flag PROVE FALSE
          OBVIOUS
        <4>1. p = dlHead[l]
          BY <1>6 DEF Dev!IterPlace
        <4>2. InRow(c, dlTable, l, dlHead[l])
          BY <1>4, <1>5, <1>11, <4>1 DEF Strung
        <4> QED BY <1>7, <1>11, <2>2, <4>1, <4>2
      <3>3. r = dlRound /\ (r.astray \/ r.list # l)
        BY <1>7, <1>9, <1>11, <2>1, <2>2, <3>2 DEF RoundOf
      <3>4. Dev!FaultsNamed'
        BY <3>1, <3>3 DEF Dev!FaultsNamed
      <3>5. dlBad' \in {Dev!NoFault} \cup [call : {"iter", "cycle"}, list : ListSet]
        BY <3>1
      <3>6. /\ AtPlace(c, dlTable, dlGiven, dlPlace', dlRound')
            /\ dlPlace' \in PlaceType /\ dlRound' \in RoundType
        BY <1>1, <1>8, <3>1, <3>3
      <3> QED BY <1>1, <1>2, <3>4, <3>5, <3>6, LookKeeps
    <2>3. CASE ~Dev!OffTheList(l, p)
      <3>1. /\ dlPlace' = [dlPlace EXCEPT !.flag = TRUE, !.iter = dlNode[p].next]
            /\ dlRound' = [r EXCEPT !.came = @ \cup {p}, !.moved = @ \/ r.list # l]
            /\ dlBad' = dlBad
        BY <1>6, <1>9, <1>11, <2>3 DEF Dev!list_iter, RoundOf
      <3>2. PICK u \in 1 .. k : N[u] = p
        BY <1>5, <1>7, <2>3
      <3>3. p \in ListNodes
        BY <3>2
      <3>4. /\ dlNode[p].next = NULL \/ InRow(c, dlTable, l, dlNode[p].next)
            /\ \A y : Behind(N, k, p, y) /\ y # p => Behind(N, k, dlNode[p].next, y)
        <4>1. /\ dlNode[N[u]].next = NULL \/ \E v \in 1 .. k : N[v] = dlNode[N[u]].next
              /\ \A y : Behind(N, k, N[u], y) /\ y # N[u] => Behind(N, k, dlNode[N[u]].next, y)
          <5>1. Strung(N, k, dlHead[l], dlNode)
            BY <1>4
          <5> QED BY <5>1, NextInRow
        <4> QED BY <1>5, <3>2, <4>1
      <3>5. dlNode[p].next \in Refs
        BY <1>5, <3>4 DEF Refs
      <3>6. /\ dlPlace' \in PlaceType /\ dlPlace'.flag /\ dlPlace'.iter = dlNode[p].next
            /\ dlPlace'.cycle = dlPlace.cycle /\ dlPlace'.cycled = dlPlace.cycled
        BY <1>8, <3>1, <3>5 DEF PlaceType
      <3>7. /\ dlRound' \in RoundType /\ dlRound'.list = r.list /\ dlRound'.astray = r.astray
            /\ dlRound'.due = r.due /\ dlRound'.came = r.came \cup {p}
            /\ dlRound'.moved = (r.moved \/ r.list # l)
        BY <2>1, <3>1, <3>3 DEF RoundType
      <3>8. ~r.astray => r.list = l
        BY <1>1, <1>2, <1>7, <2>1, <2>3, <3>3 DEF Kept
      <3>9. ASSUME ~r.astray, ~dlRound'.moved, NEW y \in dlRound'.due \ dlRound'.came
            PROVE  Behind(c[r.list], Len(dlTable[r.list]), dlNode[p].next, y)
        <4>1. y \in r.due \ r.came /\ y # p /\ ~r.moved /\ r.list = l
          BY <3>7, <3>8, <3>9
        <4>2. Behind(N, k, p, y)
          BY <1>3, <1>4, <2>1, <3>9, <4>1
        <4> QED BY <1>3, <1>4, <3>4, <4>1, <4>2
      <3>10. AtPlace(c, dlTable, dlGiven, dlPlace', dlRound')
        <4>1. dlPlace'.cycled # NULL => dlPlace'.cycled \notin dlGiven
                 /\ (dlPlace'.cycle = NULL \/ InRow(c, dlTable, dlPlace'.cycled, dlPlace'.cycle))
          BY <1>1, <3>6 DEF AtPlace
        <4>2. ~dlRound'.astray => dlPlace'.iter = NULL \/ InRow(c, dlTable, dlRound'.list, dlPlace'.iter)
          BY <3>4, <3>6, <3>7, <3>8
        <4>3. ~dlRound'.astray /\ ~dlRound'.moved =>
                 \A y \in dlRound'.due \ dlRound'.came :
                    Behind(c[dlRound'.list], Len(dlTable[dlRound'.list]), dlPlace'.iter, y)
          BY <3>6, <3>7, <3>9
        <4> QED BY <2>1, <3>6, <3>7, <4>1, <4>2, <4>3 DEF AtPlace
      <3>11. Dev!FaultsNamed'
        BY <1>2, <3>1 DEF Dev!FaultsNamed, Dev!NoFault
      <3> QED BY <1>1, <1>2, <3>1, <3>6, <3>7, <3>10, <3>11, LookKeeps
    <2> QED BY <2>2, <2>3
  <1> QED BY <1>10, <1>11
-------------------------------------------------------------------------------
(* DevList: list_extend, and every step.                                   *)

\* The row f of m nodes followed by the row g of n nodes.
JoinedRow(f, m, g, n) == [i \in 1 .. m + n |-> IF i <= m THEN f[i] ELSE g[i - m]]

\* The lists a and b have m and n nodes.
Lengths(a, m, b, n) == m = Len(dlTable[a]) /\ n = Len(dlTable[b])

\* list_extend makes one row of two.
LEMMA ExtendRow ==
  ASSUME DevTyped, NEW c, Kept(c, dlHead, dlNode, dlTable, dlGiven),
         NEW a \in ListSet, NEW b \in ListSet, Dev!list_extend(a, b),
         NEW m \in Nat, NEW n \in Nat, Lengths(a, m, b, n)
  PROVE  LET f == JoinedRow(c[a], m, c[b], n)
         IN /\ Strung(f, m + n, dlHead'[a], dlNode')
            /\ Filled(f, dlTable[a] \o dlTable[b], dlNode')
            /\ dlNode' \in Memory /\ dlHead' \in [ListSet -> Refs]
            /\ \A x \in ListNodes : dlNode'[x] = FREE <=> dlNode[x] = FREE
            /\ \A x \in ListNodes : ~InRow(c, dlTable, a, x) => dlNode'[x] = dlNode[x]
            /\ \A l \in ListSet : l # a => dlHead'[l] = dlHead[l]
  <1>1. a \in ListSet \ dlGiven /\ b \in ListSet \ dlGiven /\ a # b
    BY DEF Dev!list_extend, Dev!Usable
  <1>2. PICK A \in [1 .. m -> ListNodes] :
             /\ A = c[a] /\ Dev!NodesOf(a) = A /\ Len(A) = m
             /\ Strung(A, m, dlHead[a], dlNode) /\ Filled(A, dlTable[a], dlNode)
    BY <1>1, RowFacts DEF Lengths
  <1>3. PICK B \in [1 .. n -> ListNodes] :
             B = c[b] /\ Strung(B, n, dlHead[b], dlNode) /\ Filled(B, dlTable[b], dlNode)
    BY <1>1, RowFacts DEF Lengths
  <1>4. PICK hb \in Refs : hb = dlHead[b] /\ hb = IF n = 0 THEN NULL ELSE B[1]
    BY <1>3 DEF Strung, DevTyped
  <1>5. IF dlHead[a] = NULL THEN dlHead' = [dlHead EXCEPT ![a] = hb] /\ dlNode' = dlNode
        ELSE dlNode' = [dlNode EXCEPT ![A[m]].next = hb] /\ dlHead' = dlHead
    BY <1>2, <1>4 DEF Dev!list_extend, Dev!Last
  <1>6. dlHead[a] = NULL <=> m = 0
    BY <1>1, RowFacts DEF Lengths
  <1>7. dlNode \in Memory /\ dlHead \in [ListSet -> Refs] /\ DOMAIN dlNode = ListNodes
    BY DEF DevTyped, Memory
  <1>8. /\ \A i \in 1 .. m : dlNode[A[i]] # FREE /\ dlNode[A[i]] \in [data : DeviceSet, next : Refs]
        /\ \A i \in 1 .. m : dlNode[A[i]].next = IF i = m THEN NULL ELSE A[i + 1]
        /\ \A i, j \in 1 .. m : A[i] = A[j] => i = j
        /\ dlHead[a] = IF m = 0 THEN NULL ELSE A[1]
    BY <1>2, <1>7 DEF Strung, Memory
  <1>9. /\ \A i \in 1 .. n : dlNode[B[i]] # FREE
        /\ \A i \in 1 .. n : dlNode[B[i]].next = IF i = n THEN NULL ELSE B[i + 1]
        /\ \A i, j \in 1 .. n : B[i] = B[j] => i = j
    BY <1>3 DEF Strung
  <1>10. \A i \in 1 .. m, j \in 1 .. n : A[i] # B[j]
    <2> SUFFICES ASSUME NEW i \in 1 .. m, NEW j \in 1 .. n, A[i] = B[j] PROVE FALSE
      OBVIOUS
    <2>1. InRow(c, dlTable, a, A[i]) /\ InRow(c, dlTable, b, A[i]) /\ A[i] \in ListNodes
      BY <1>2, <1>3 DEF InRow, Lengths
    <2> QED BY <1>1, <2>1 DEF Kept
  <1>11. \A x \in ListNodes :
            dlNode'[x] = IF m > 0 /\ x = A[m] THEN [dlNode[x] EXCEPT !.next = hb] ELSE dlNode[x]
    <2>1. CASE m = 0
      BY <1>5, <1>6, <2>1
    <2>2. CASE m > 0
      <3>1. A[m] \in ListNodes
        BY <2>2
      <3> QED BY <1>5, <1>6, <1>7, <2>2, <3>1
    <2> QED BY <2>1, <2>2
  <1>12. m > 0 => LET e == [dlNode[A[m]] EXCEPT !.next = hb]
                  IN e \in [data : DeviceSet, next : Refs] /\ e # FREE
                     /\ e.next = hb /\ e.data = dlNode[A[m]].data
    <2> SUFFICES ASSUME m > 0, NEW e, e = [dlNode[A[m]] EXCEPT !.next = hb]
                 PROVE  e \in [data : DeviceSet, next : Refs] /\ e # FREE
                        /\ e.next = hb /\ e.data = dlNode[A[m]].data
      OBVIOUS
    <2>1. dlNode[A[m]] \in [data : DeviceSet, next : Refs]
      BY <1>8
    <2>2. e \in [data : DeviceSet, next : Refs]
      BY <2>1
    <2> QED BY <2>1, <2>2, ListAssumption DEF Refs
  <1>13. dlNode' \in Memory
    <2>1. \A x \in ListNodes : dlNode'[x] \in {FREE} \cup [data : DeviceSet, next : Refs]
      BY <1>7, <1>11, <1>12 DEF Memory
    <2>2. dlNode' = [x \in ListNodes |-> dlNode'[x]]
      <3>1. CASE dlNode' = dlNode
        BY <1>7, <3>1 DEF Memory
      <3>2. CASE dlNode' = [dlNode EXCEPT ![A[m]].next = hb]
        BY <1>7, <3>2
      <3> QED BY <1>5, <3>1, <3>2
    <2> QED BY <2>1, <2>2 DEF Memory
  <1>14. ASSUME NEW i \in 1 .. m
         PROVE  /\ dlNode'[A[i]] # FREE /\ dlNode'[A[i]].data = dlNode[A[i]].data
                /\ dlNode'[A[i]].next = IF i = m THEN hb ELSE A[i + 1]
    <2>1. CASE i = m
      BY <1>11, <1>12, <2>1
    <2>2. CASE i # m
      <3>1. A[i] # A[m]
        BY <1>8, <2>2
      <3>2. dlNode'[A[i]] = dlNode[A[i]]
        BY <1>11, <3>1
      <3> QED BY <1>8, <2>2, <3>2
    <2> QED BY <2>1, <2>2
  <1>15. \A i \in 1 .. n : dlNode'[B[i]] = dlNode[B[i]]
    <2> SUFFICES ASSUME NEW i \in 1 .. n PROVE dlNode'[B[i]] = dlNode[B[i]]
      OBVIOUS
    <2>1. m > 0 => B[i] # A[m]
      BY <1>10
    <2> QED BY <1>11, <2>1
  <1> DEFINE f == JoinedRow(c[a], m, c[b], n)
  <1>16. /\ f \in [1 .. m + n -> ListNodes]
         /\ \A i \in 1 .. m : f[i] = A[i]
         /\ \A i \in 1 .. n : f[m + i] = B[i]
    <2>1. \A i \in 1 .. m + n : i <= m => i \in 1 .. m
      OBVIOUS
    <2>2. \A i \in 1 .. m + n : ~(i <= m) => i - m \in 1 .. n
      OBVIOUS
    <2>3. \A i \in 1 .. m + n : (IF i <= m THEN A[i] ELSE B[i - m]) \in ListNodes
      BY <2>1, <2>2
    <2>4. \A i \in 1 .. n : m + i \in 1 .. m + n /\ ~(m + i <= m) /\ (m + i) - m = i
      OBVIOUS
    <2> QED BY <1>2, <1>3, <2>3, <2>4 DEF JoinedRow
  <1> HIDE DEF f
  <1>17. \A i \in 1 .. m + n : i \in 1 .. m \/ (i - m \in 1 .. n /\ i = m + (i - m))
    OBVIOUS
  <1>18. ASSUME NEW i \in 1 .. m + n
         PROVE  dlNode'[f[i]] # FREE /\ dlNode'[f[i]].next = IF i = m + n THEN NULL ELSE f[i + 1]
    <2>1. CASE i \in 1 .. m /\ i # m
      <3>1. i + 1 \in 1 .. m /\ i # m + n
        BY <2>1
      <3> QED BY <1>14, <1>16, <2>1, <3>1
    <2>2. CASE i = m
      <3>1. f[i] = A[m] /\ m \in 1 .. m
        BY <1>16, <2>2
      <3>2. dlNode'[A[m]] # FREE /\ dlNode'[A[m]].next = hb
        BY <1>14, <3>1
      <3>3. n # 0 => f[m + 1] = B[1]
        BY <1>16
      <3>4. i = m + n <=> n = 0
        BY <2>2
      <3> QED BY <1>4, <2>2, <3>1, <3>2, <3>3, <3>4
    <2>3. CASE i \notin 1 .. m
      <3>1. PICK j \in 1 .. n : i = m + j
        BY <1>17, <2>3
      <3>2. f[i] = B[j] /\ dlNode'[f[i]] = dlNode[B[j]]
        BY <1>15, <1>16, <3>1
      <3>3. (i = m + n <=> j = n) /\ (j # n => j + 1 \in 1 .. n /\ i + 1 = m + (j + 1))
        BY <3>1
      <3>4. j # n => f[i + 1] = B[j + 1]
        BY <1>16, <3>3
      <3> QED BY <1>9, <3>2, <3>3, <3>4
    <2> QED BY <2>1, <2>2, <2>3
  <1>19. ASSUME NEW i \in 1 .. m + n, NEW j \in 1 .. m + n, f[i] = f[j] PROVE i = j
    <2>1. CASE i \in 1 .. m /\ j \in 1 .. m
      BY <1>8, <1>16, <1>19, <2>1
    <2>2. CASE i \in 1 .. m /\ j \notin 1 .. m
      <3>1. PICK v \in 1 .. n : j = m + v
        BY <1>17, <2>2
      <3> QED BY <1>10, <1>16, <1>19, <2>2, <3>1
    <2>3. CASE i \notin 1 .. m /\ j \in 1 .. m
      <3>1. PICK u \in 1 .. n : i = m + u
        BY <1>17, <2>3
      <3> QED BY <1>10, <1>16, <1>19, <2>3, <3>1
    <2>4. CASE i \notin 1 .. m /\ j \notin 1 .. m
      <3>1. PICK u, v \in 1 .. n : i = m + u /\ j = m + v
        BY <1>17, <2>4
      <3>2. B[u] = B[v]
        BY <1>16, <1>19, <3>1
      <3> QED BY <1>9, <3>1, <3>2
    <2> QED BY <2>1, <2>2, <2>3, <2>4
  <1>20. dlHead'[a] = IF m + n = 0 THEN NULL ELSE f[1]
    <2>1. CASE m = 0
      <3>1. dlHead'[a] = hb
        BY <1>5, <1>6, <1>7, <2>1
      <3>2. n # 0 => f[1] = B[1]
        <4>1. n # 0 => 1 \in 1 .. n /\ m + 1 = 1
          BY <2>1
        <4> QED BY <1>16, <4>1
      <3> QED BY <1>4, <2>1, <3>1, <3>2
    <2>2. CASE m # 0
      <3>1. dlHead'[a] = A[1] /\ m + n # 0 /\ 1 \in 1 .. m
        BY <1>5, <1>6, <1>8, <2>2
      <3> QED BY <1>16, <3>1
    <2> QED BY <2>1, <2>2
  <1>21. Strung(f, m + n, dlHead'[a], dlNode')
    BY <1>16, <1>18, <1>19, <1>20 DEF Strung
  <1>22. Filled(f, dlTable[a] \o dlTable[b], dlNode')
    <2> DEFINE t == dlTable[a] \o dlTable[b]
    <2>1. /\ Len(t) = m + n
          /\ \A i \in 1 .. m : t[i] = dlTable[a][i]
          /\ \A i \in m + 1 .. m + n : t[i] = dlTable[b][i - m]
      <3>1. PICK v, w \in Seq(DeviceSet) : v = dlTable[a] /\ w = dlTable[b]
        BY DEF DevTyped
      <3>2. Len(v) = m /\ Len(w) = n /\ t = v \o w
        BY <3>1 DEF Lengths
      <3>3. /\ Len(v \o w) = Len(v) + Len(w)
            /\ \A i \in 1 .. Len(v) : (v \o w)[i] = v[i]
            /\ \A i \in Len(v) + 1 .. Len(v) + Len(w) : (v \o w)[i] = w[i - Len(v)]
        BY JoinElements
      <3> HIDE DEF t
      <3> QED BY <3>1, <3>2, <3>3
    <2> HIDE DEF t
    <2>2. ASSUME NEW i \in 1 .. m + n PROVE dlNode'[f[i]].data = t[i]
      <3>1. CASE i \in 1 .. m
        <4>1. dlNode[A[i]].data = dlTable[a][i]
          BY <1>2, <3>1 DEF Filled, Lengths
        <4> QED BY <1>14, <1>16, <2>1, <3>1, <4>1
      <3>2. CASE i \notin 1 .. m
        <4>1. PICK j \in 1 .. n : i = m + j /\ j = i - m
          BY <1>17, <3>2
        <4>2. t[i] = dlTable[b][j]
          BY <2>1, <3>2, <4>1
        <4>3. dlNode[B[j]].data = dlTable[b][j]
          BY <1>3 DEF Filled, Lengths
        <4> QED BY <1>15, <1>16, <4>1, <4>2, <4>3
      <3> QED BY <3>1, <3>2
    <2> QED BY <2>1, <2>2 DEF Filled, t
  <1>23. \A x \in ListNodes : dlNode'[x] = FREE <=> dlNode[x] = FREE
    <2> SUFFICES ASSUME NEW x \in ListNodes PROVE dlNode'[x] = FREE <=> dlNode[x] = FREE
      OBVIOUS
    <2>1. CASE m > 0 /\ x = A[m]
      BY <1>8, <1>14, <2>1
    <2>2. CASE ~(m > 0 /\ x = A[m])
      BY <1>11, <2>2
    <2> QED BY <2>1, <2>2
  <1>24. \A x \in ListNodes : ~InRow(c, dlTable, a, x) => dlNode'[x] = dlNode[x]
    <2> SUFFICES ASSUME NEW x \in ListNodes, ~InRow(c, dlTable, a, x) PROVE dlNode'[x] = dlNode[x]
      OBVIOUS
    <2>1. ~(m > 0 /\ x = A[m])
      BY <1>2 DEF InRow, Lengths
    <2> QED BY <1>11, <2>1
  <1>25. dlHead' \in [ListSet -> Refs] /\ \A l \in ListSet : l # a => dlHead'[l] = dlHead[l]
    BY <1>5, <1>7
  <1> QED BY <1>13, <1>21, <1>22, <1>23, <1>24, <1>25 DEF f

\* list_extend keeps the invariant.
LEMMA ExtendKeeps ==
  ASSUME DevInv, dlCalls < ListCalls, dlCalls' = dlCalls + 1,
         NEW a \in ListSet, NEW b \in ListSet, Dev!list_extend(a, b)
  PROVE  DevInv'
  <1>0. DevTyped /\ Counted
    BY DEF DevInv
  <1>1. PICK c : /\ Kept(c, dlHead, dlNode, dlTable, dlGiven)
                 /\ AtPlace(c, dlTable, dlGiven, dlPlace, dlRound)
    BY DEF DevInv, InRows
  <1>2. a \in ListSet \ dlGiven /\ b \in ListSet \ dlGiven /\ a # b
    BY DEF Dev!list_extend, Dev!Usable
  <1>3. PICK m, n \in Nat : Lengths(a, m, b, n)
    BY <1>0, <1>1, <1>2, RowFacts DEF Lengths
  <1> DEFINE f == JoinedRow(c[a], m, c[b], n)
             t == dlTable[a] \o dlTable[b]
             c2 == [c EXCEPT ![a] = f]
  <1>4. /\ Strung(f, m + n, dlHead'[a], dlNode') /\ Filled(f, t, dlNode')
        /\ dlNode' \in Memory /\ dlHead' \in [ListSet -> Refs]
        /\ \A x \in ListNodes : dlNode'[x] = FREE <=> dlNode[x] = FREE
        /\ \A x \in ListNodes : ~InRow(c, dlTable, a, x) => dlNode'[x] = dlNode[x]
        /\ \A l \in ListSet : l # a => dlHead'[l] = dlHead[l]
    BY <1>0, <1>1, <1>3, ExtendRow
  <1>5. \A x : (\E i \in 1 .. m + n : f[i] = x) <=>
                  InRow(c, dlTable, a, x) \/ InRow(c, dlTable, b, x)
    <2>1. /\ \A i \in 1 .. m + n : f[i] = IF i <= m THEN c[a][i] ELSE c[b][i - m]
          /\ \A i \in 1 .. m + n : i <= m => i \in 1 .. m
          /\ \A i \in 1 .. m + n : ~(i <= m) => i - m \in 1 .. n
          /\ \A i \in 1 .. m : i \in 1 .. m + n /\ i <= m
          /\ \A i \in 1 .. n : m + i \in 1 .. m + n /\ ~(m + i <= m) /\ (m + i) - m = i
      BY DEF JoinedRow
    <2> HIDE DEF f
    <2>2. ASSUME NEW i \in 1 .. m + n
          PROVE  (\E j \in 1 .. m : c[a][j] = f[i]) \/ (\E j \in 1 .. n : c[b][j] = f[i])
      BY <2>1
    <2>3. \A i \in 1 .. m : \E j \in 1 .. m + n : f[j] = c[a][i]
      BY <2>1
    <2>4. \A i \in 1 .. n : \E j \in 1 .. m + n : f[j] = c[b][i]
      BY <2>1
    <2>5. \A x : /\ InRow(c, dlTable, a, x) <=> \E j \in 1 .. m : c[a][j] = x
                 /\ InRow(c, dlTable, b, x) <=> \E j \in 1 .. n : c[b][j] = x
      BY <1>3 DEF InRow, Lengths
    <2>6. ASSUME NEW x, \E i \in 1 .. m + n : f[i] = x
          PROVE  InRow(c, dlTable, a, x) \/ InRow(c, dlTable, b, x)
      BY <2>2, <2>5, <2>6
    <2>7. ASSUME NEW x, InRow(c, dlTable, a, x) \/ InRow(c, dlTable, b, x)
          PROVE  \E i \in 1 .. m + n : f[i] = x
      BY <2>3, <2>4, <2>5, <2>7
    <2> QED BY <2>6, <2>7
  <1>6. t \in Seq(DeviceSet) /\ Len(t) = m + n
    <2>1. PICK v, w \in Seq(DeviceSet) : v = dlTable[a] /\ w = dlTable[b]
      BY <1>0 DEF DevTyped
    <2>2. v \o w \in Seq(DeviceSet) /\ Len(v \o w) = Len(v) + Len(w)
      BY JoinElements
    <2> QED BY <1>3, <2>1, <2>2 DEF Lengths
  <1>7. /\ dlTable' = [dlTable EXCEPT ![a] = t] /\ dlGiven' = dlGiven \cup {b}
        /\ dlRound' = [MovedRound(dlPlace, dlRound) EXCEPT !.list = IF @ = b THEN a ELSE @]
        /\ dlPlace' = [dlPlace EXCEPT !.cycled = IF @ = b THEN a ELSE @]
        /\ dlRecords' = dlRecords /\ dlLost' = dlLost /\ dlBad' = Dev!NoFault
    BY DEF Dev!list_extend, Dev!Usable, Dev!RoundMoved, MovedRound
  <1>8. dlTable \in [ListSet -> Seq(DeviceSet)] /\ DOMAIN c = ListSet
        /\ dlPlace \in PlaceType /\ dlRound \in RoundType /\ dlGiven \in SUBSET ListSet
    BY <1>0, <1>1 DEF DevTyped, Kept
  <1> HIDE DEF f, t
  <1>9. /\ DOMAIN c2 = ListSet /\ c2[a] = f /\ dlTable'[a] = t
        /\ dlTable' \in [ListSet -> Seq(DeviceSet)]
        /\ \A l \in ListSet : l # a => c2[l] = c[l] /\ dlTable'[l] = dlTable[l]
    BY <1>6, <1>7, <1>8
  <1> HIDE DEF c2
  <1>10. /\ \A x : InRow(c2, dlTable', a, x) <=> InRow(c, dlTable, a, x) \/ InRow(c, dlTable, b, x)
         /\ \A l \in ListSet : \A x : l # a => (InRow(c2, dlTable', l, x) <=> InRow(c, dlTable, l, x))
    BY <1>5, <1>6, <1>9 DEF InRow
  <1>11. \A l \in ListSet : l \notin dlGiven' <=> l \notin dlGiven /\ l # b
    BY <1>7
  <1>12. \A k, l \in ListSet \ dlGiven : \A x \in ListNodes :
            InRow(c, dlTable, k, x) /\ InRow(c, dlTable, l, x) => k = l
    BY <1>1 DEF Kept
  <1>13. Kept(c2, dlHead', dlNode', dlTable', dlGiven')
    <2>1. ASSUME NEW l \in ListSet \ dlGiven'
          PROVE  Strung(c2[l], Len(dlTable'[l]), dlHead'[l], dlNode') /\ Filled(c2[l], dlTable'[l], dlNode')
      <3>1. CASE l = a
        BY <1>4, <1>6, <1>9, <3>1
      <3>2. CASE l # a
        <4>1. l \in ListSet \ dlGiven
          BY <1>11
        <4>2. Strung(c[l], Len(dlTable[l]), dlHead[l], dlNode) /\ Filled(c[l], dlTable[l], dlNode)
          BY <1>1, <4>1 DEF Kept
        <4>3. \A i \in 1 .. Len(dlTable[l]) : c[l][i] \in ListNodes /\ InRow(c, dlTable, l, c[l][i])
          BY <4>2 DEF Strung, InRow
        <4>4. \A i \in 1 .. Len(dlTable[l]) : dlNode'[c[l][i]] = dlNode[c[l][i]]
          BY <1>2, <1>4, <1>12, <3>2, <4>1, <4>3
        <4>5. Strung(c[l], Len(dlTable[l]), dlHead[l], dlNode')
          BY <4>2, <4>4 DEF Strung
        <4>6. Filled(c[l], dlTable[l], dlNode')
          BY <4>2, <4>4 DEF Filled
        <4> QED BY <1>4, <1>9, <3>2, <4>5, <4>6
      <3> QED BY <3>1, <3>2
    <2>2. ASSUME NEW k \in ListSet \ dlGiven', NEW l \in ListSet \ dlGiven', NEW x \in ListNodes,
                 InRow(c2, dlTable', k, x), InRow(c2, dlTable', l, x)
          PROVE  k = l
      <3>1. k \notin dlGiven /\ k # b /\ l \notin dlGiven /\ l # b
        BY <1>11
      <3>2. \E k0 \in {k, b} : InRow(c, dlTable, k0, x) /\ (k # a => k0 = k)
        BY <1>10, <2>2
      <3>3. \E l0 \in {l, b} : InRow(c, dlTable, l0, x) /\ (l # a => l0 = l)
        BY <1>10, <2>2
      <3> QED BY <1>2, <1>12, <3>1, <3>2, <3>3
    <2>3. ASSUME NEW x \in ListNodes, dlNode'[x] # FREE
          PROVE  \E l \in ListSet \ dlGiven' : InRow(c2, dlTable', l, x)
      <3>1. dlNode[x] # FREE
        BY <1>4, <2>3
      <3>2. PICK l \in ListSet \ dlGiven : InRow(c, dlTable, l, x)
        BY <1>1, <3>1 DEF Kept
      <3>3. CASE l = b
        BY <1>2, <1>10, <1>11, <3>2, <3>3
      <3>4. CASE l # b
        BY <1>10, <1>11, <3>2, <3>4
      <3> QED BY <3>3, <3>4
    <2> QED BY <1>9, <2>1, <2>2, <2>3 DEF Kept
  <1>14. /\ dlPlace' \in PlaceType /\ dlPlace'.iter = dlPlace.iter /\ dlPlace'.flag = dlPlace.flag
         /\ dlPlace'.cycle = dlPlace.cycle
         /\ dlPlace'.cycled = IF dlPlace.cycled = b THEN a ELSE dlPlace.cycled
    BY <1>7, <1>8 DEF PlaceType
  <1>15. /\ dlRound' \in RoundType /\ dlRound'.astray = dlRound.astray
         /\ dlRound'.list = IF dlRound.list = b THEN a ELSE dlRound.list
         /\ dlPlace.flag => dlRound'.moved
    BY <1>7, <1>8 DEF RoundType, MovedRound
  <1>16. AtPlace(c2, dlTable', dlGiven', dlPlace', dlRound')
    <2>1. ~dlPlace.flag => dlRound' = Dev!NoRound
      <3> SUFFICES ASSUME ~dlPlace.flag PROVE dlRound' = Dev!NoRound
        OBVIOUS
      <3>1. dlRound = Dev!NoRound
        BY <1>1 DEF AtPlace
      <3>2. dlRound.list # b
        BY <3>1, ListAssumption DEF Dev!NoRound
      <3>3. dlRound' = [dlRound EXCEPT !.list = dlRound.list]
        BY <1>7, <3>2 DEF MovedRound
      <3> QED BY <3>1, <3>3 DEF Dev!NoRound
    <2>2. dlPlace.flag => dlRound'.list \in ListSet \ dlGiven'
      BY <1>1, <1>2, <1>11, <1>15 DEF AtPlace
    <2>3. dlPlace.flag /\ ~dlRound'.astray =>
             dlPlace.iter = NULL \/ InRow(c2, dlTable', dlRound'.list, dlPlace.iter)
      BY <1>1, <1>10, <1>15 DEF AtPlace
    <2>4. dlPlace'.cycled # NULL =>
             /\ dlPlace'.cycled \notin dlGiven'
             /\ dlPlace.cycle = NULL \/ InRow(c2, dlTable', dlPlace'.cycled, dlPlace.cycle)
      <3> SUFFICES ASSUME dlPlace'.cycled # NULL
                   PROVE  /\ dlPlace'.cycled \notin dlGiven'
                          /\ dlPlace.cycle = NULL \/ InRow(c2, dlTable', dlPlace'.cycled, dlPlace.cycle)
        OBVIOUS
      <3>1. dlPlace.cycled # NULL /\ dlPlace.cycled \in ListSet
        BY <1>8, <1>14, ListAssumption DEF PlaceType
      <3>2. dlPlace.cycled \notin dlGiven
            /\ (dlPlace.cycle = NULL \/ InRow(c, dlTable, dlPlace.cycled, dlPlace.cycle))
        BY <1>1, <3>1 DEF AtPlace
      <3> QED BY <1>2, <1>10, <1>11, <1>14, <3>1, <3>2
    <2> QED BY <1>14, <1>15, <2>1, <2>2, <2>3, <2>4 DEF AtPlace
  <1>17. Counted'
    <2>1. Used(dlNode') = Used(dlNode)
      BY <1>4 DEF Used
    <2> QED BY <1>0, <1>7, <2>1 DEF Counted
  <1>18. DevTyped' /\ Dev!FaultsNamed'
    <2>1. dlGiven' \in SUBSET ListSet
      BY <1>7, <1>8
    <2> QED BY <1>0, <1>4, <1>7, <1>9, <1>14, <1>15, <2>1, QuietCall
  <1> QED BY <1>13, <1>16, <1>17, <1>18 DEF DevInv, InRows

\* Every step keeps the invariant of the lists.
LEMMA DevNext == DevInv /\ [ToolsNext]_toolVars => DevInv'
  <1> SUFFICES ASSUME DevInv, [ToolsNext]_toolVars PROVE DevInv'
    OBVIOUS
  <1>1. CASE UNCHANGED dl
    BY <1>1 DEF dl, DevInv, DevTyped, InRows, Counted, Dev!FaultsNamed
  <1>2. CASE Dev!Next
    <2>0. dlCalls < ListCalls /\ dlCalls' = dlCalls + 1
      BY <1>2 DEF Dev!Next
    <2>1. PICK l \in ListSet :
             \/ Dev!list_init(l) \/ Dev!list_pop_tail(l) \/ Dev!list_reverse(l)
             \/ Dev!list_iter(l) \/ Dev!list_cycle(l)
             \/ \E d \in DeviceSet : Dev!list_append(l, d) \/ Dev!PopDevice(l, d)
             \/ \E pos \in 0 .. Dev!Cardinality(ListNodes) - 1 :
                   Dev!list_pop(l, pos) \/ \E d \in DeviceSet : Dev!list_set(l, pos, d)
             \/ \E i, j \in 0 .. Dev!Cardinality(ListNodes) - 1 : Dev!list_swap(l, i, j)
             \/ \E m \in ListSet : Dev!list_extend(l, m)
             \/ \E ds \in Dev!Arrays, len \in 0 .. 2 : Dev!list_from_array(l, ds, len)
      BY <1>2 DEF Dev!Next
    <2>2. CASE Dev!list_init(l)
      BY <2>0, <2>2, InitKeeps
    <2>3. CASE Dev!list_pop_tail(l)
      BY <2>0, <2>3, PopTailKeeps
    <2>4. CASE Dev!list_reverse(l)
      BY <2>0, <2>4, ReverseKeeps
    <2>5. CASE Dev!list_iter(l)
      BY <2>0, <2>5, IterKeeps
    <2>6. CASE Dev!list_cycle(l)
      BY <2>0, <2>6, CycleKeeps
    <2>7. ASSUME NEW d \in DeviceSet, Dev!list_append(l, d) PROVE DevInv'
      BY <2>0, <2>7, AppendKeeps
    <2>8. ASSUME NEW d \in DeviceSet, Dev!PopDevice(l, d) PROVE DevInv'
      BY <2>0, <2>8, PopKeeps DEF Dev!PopDevice
    <2>9. ASSUME NEW pos, Dev!list_pop(l, pos) PROVE DevInv'
      BY <2>0, <2>9, PopKeeps
    <2>10. ASSUME NEW pos, NEW d \in DeviceSet, Dev!list_set(l, pos, d) PROVE DevInv'
      BY <2>0, <2>10, SetKeeps
    <2>11. ASSUME NEW i, NEW j, Dev!list_swap(l, i, j) PROVE DevInv'
      BY <2>0, <2>11, SwapKeeps
    <2>12. ASSUME NEW m \in ListSet, Dev!list_extend(l, m) PROVE DevInv'
      BY <2>0, <2>12, ExtendKeeps
    <2>13. ASSUME NEW ds \in Dev!Arrays, NEW len \in 0 .. 2, Dev!list_from_array(l, ds, len)
           PROVE  DevInv'
      BY <2>0, <2>13, ArrayKeeps
    <2> QED BY <2>1, <2>2, <2>3, <2>4, <2>5, <2>6, <2>7, <2>8, <2>9, <2>10, <2>11, <2>12, <2>13
  <1> QED BY <1>1, <1>2 DEF ToolsNext, toolVars
-------------------------------------------------------------------------------
(* DevList: what the invariant says.                                       *)

\* The rows of the lists in use are the nodes that are allocated.
LEMMA HeldIsUsed == DevInv => Dev!Held = Used(dlNode) /\ ListNodes \ Dev!FreeNodes = Used(dlNode)
  <1> SUFFICES ASSUME DevInv PROVE Dev!Held = Used(dlNode) /\ ListNodes \ Dev!FreeNodes = Used(dlNode)
    OBVIOUS
  <1>0. DevTyped
    BY DEF DevInv
  <1>1. PICK c : Kept(c, dlHead, dlNode, dlTable, dlGiven)
    BY DEF DevInv, InRows
  <1>2. ASSUME NEW l \in ListSet \ dlGiven
        PROVE  \A x : x \in Dev!ToSet(Dev!NodesOf(l)) <=> x \in ListNodes /\ InRow(c, dlTable, l, x)
    <2>1. Dev!NodesOf(l) = c[l] /\ c[l] \in [1 .. Len(dlTable[l]) -> ListNodes]
      BY <1>0, <1>1, RowFacts
    <2> QED BY <2>1 DEF Dev!ToSet, InRow
  <1>3. \A x : x \in Dev!Held <=>
                 \E l \in ListSet \ dlGiven : x \in ListNodes /\ InRow(c, dlTable, l, x)
    BY <1>2 DEF Dev!Held
  <1>4. ASSUME NEW l \in ListSet \ dlGiven, NEW x, InRow(c, dlTable, l, x) PROVE dlNode[x] # FREE
    BY <1>1, <1>4 DEF Kept, Strung, InRow
  <1>5. Dev!Held = Used(dlNode)
    BY <1>1, <1>3, <1>4 DEF Kept, Used
  <1>6. ListNodes \ Dev!FreeNodes = Used(dlNode)
    BY DEF Dev!FreeNodes, Used
  <1> QED BY <1>5, <1>6

\* The look-ups find what the table says.
LEMMA RowLooksUp ==
  ASSUME DevTyped, NEW c, Kept(c, dlHead, dlNode, dlTable, dlGiven), NEW l \in ListSet \ dlGiven
  PROVE  /\ \A x \in Dev!ToSet(Dev!NodesOf(l)) : dlNode[x] # FREE
         /\ [i \in DOMAIN Dev!NodesOf(l) |-> dlNode[Dev!NodesOf(l)[i]].data] = dlTable[l]
         /\ \A d \in DeviceSet : Dev!list_index_by_devID(l, d)
                                   = Dev!FirstPos({i \in DOMAIN dlTable[l] : dlTable[l][i] = d})
         /\ \A i \in DOMAIN dlTable[l] : Dev!list_index(l, Dev!list_get(l, i - 1)) = i - 1
  <1>1. PICK k \in Nat : k = Len(dlTable[l]) /\ Dev!list_len(l) = k
    BY RowFacts
  <1>2. PICK N \in [1 .. k -> ListNodes] :
             /\ N = c[l] /\ Dev!NodesOf(l) = N
             /\ Strung(N, k, dlHead[l], dlNode) /\ Filled(N, dlTable[l], dlNode)
    BY <1>1, RowFacts
  <1>3. /\ \A i \in 1 .. k : dlNode[N[i]] # FREE /\ dlNode[N[i]].data = dlTable[l][i]
        /\ \A i, j \in 1 .. k : N[i] = N[j] => i = j
    BY <1>1, <1>2 DEF Strung, Filled
  <1>4. DOMAIN N = 1 .. k /\ DOMAIN dlTable[l] = 1 .. k
        /\ dlTable[l] = [i \in 1 .. k |-> dlTable[l][i]]
    <2>1. dlTable[l] \in Seq(DeviceSet)
      BY DEF DevTyped
    <2> QED BY <1>1, <2>1
  <1>5. \A x \in Dev!ToSet(N) : dlNode[x] # FREE
    BY <1>3, <1>4 DEF Dev!ToSet
  <1>6. [i \in DOMAIN N |-> dlNode[N[i]].data] = dlTable[l]
    BY <1>3, <1>4
  <1>7. ASSUME NEW d \in DeviceSet
        PROVE  Dev!list_index_by_devID(l, d)
                 = Dev!FirstPos({i \in DOMAIN dlTable[l] : dlTable[l][i] = d})
    <2>1. {i \in DOMAIN N : dlNode[N[i]].data = d} = {i \in DOMAIN dlTable[l] : dlTable[l][i] = d}
      BY <1>3, <1>4
    <2> QED BY <1>2, <2>1 DEF Dev!list_index_by_devID
  <1>8. ASSUME NEW i \in 1 .. k PROVE Dev!list_index(l, Dev!list_get(l, i - 1)) = i - 1
    <2>1. Dev!list_get(l, i - 1) = N[i]
      <3>1. i - 1 \in 0 .. k - 1 /\ (i - 1) + 1 = i
        OBVIOUS
      <3> QED BY <1>1, <1>2, <3>1 DEF Dev!list_get
    <2>2. {j \in DOMAIN N : N[j] = N[i]} = {i}
      BY <1>3, <1>4
    <2>3. Dev!list_index(l, N[i]) = Dev!FirstPos({i})
      BY <1>2, <2>2 DEF Dev!list_index
    <2>4. Dev!Min({i}) = i
      BY DEF Dev!Min
    <2>5. Dev!FirstPos({i}) = i - 1
      BY <2>4 DEF Dev!FirstPos
    <2> QED BY <2>1, <2>3, <2>5
  <1> QED BY <1>2, <1>4, <1>5, <1>6, <1>7, <1>8

\* The invariant gives what ListIsTable asks.
LEMMA ListsAsTables == DevInv => Dev!TypeOK /\ Dev!ListIsTable /\ Dev!LeaksExact /\ Dev!FaultsNamed
  <1> SUFFICES ASSUME DevInv
               PROVE  Dev!TypeOK /\ Dev!ListIsTable /\ Dev!LeaksExact /\ Dev!FaultsNamed
    OBVIOUS
  <1>0. DevTyped /\ Counted /\ Dev!FaultsNamed
    BY DEF DevInv
  <1>1. PICK c : Kept(c, dlHead, dlNode, dlTable, dlGiven)
    BY DEF DevInv, InRows
  <1>2. Dev!TypeOK
    <2>1. dlRecords \in Nat /\ dlLost \in 0 .. dlCalls /\ dlCalls <= ListCalls
      <3>1. Cardinality(Used(dlNode)) \in Nat
        BY UsedFinite
      <3>2. dlCalls \in 0 .. ListCalls /\ dlLost \in 0 .. dlCalls
        BY <1>0 DEF DevTyped
      <3> QED BY <1>0, <3>1, <3>2, ListAssumption DEF Counted
    <2>2. dlBad.call \in {"", "iter", "cycle"}
      <3>1. CASE dlBad = Dev!NoFault
        BY <3>1 DEF Dev!NoFault
      <3>2. CASE dlBad \in [call : {"iter", "cycle"}, list : ListSet]
        BY <3>2
      <3> QED BY <1>0, <3>1, <3>2 DEF DevTyped
    <2>3. /\ dlHead \in [ListSet -> ListNodes \cup {NULL}] /\ dlGiven \subseteq ListSet
          /\ dlNode \in [ListNodes -> {FREE} \cup [data : DeviceSet, next : ListNodes \cup {NULL}]]
      BY <1>0 DEF DevTyped, Refs, Memory
    <2> QED BY <2>1, <2>2, <2>3 DEF Dev!TypeOK
  <1>3. Dev!ListIsTable
    <2>1. ASSUME NEW l \in ListSet \ dlGiven, NEW m \in ListSet \ dlGiven, l # m
          PROVE  Dev!ToSet(Dev!NodesOf(l)) \cap Dev!ToSet(Dev!NodesOf(m)) = {}
      <3>1. Dev!NodesOf(l) = c[l] /\ c[l] \in [1 .. Len(dlTable[l]) -> ListNodes]
        BY <1>0, <1>1, RowFacts
      <3>2. Dev!NodesOf(m) = c[m] /\ c[m] \in [1 .. Len(dlTable[m]) -> ListNodes]
        BY <1>0, <1>1, RowFacts
      <3>3. \A x : x \in Dev!ToSet(c[l]) => x \in ListNodes /\ InRow(c, dlTable, l, x)
        BY <3>1 DEF Dev!ToSet, InRow
      <3>4. \A x : x \in Dev!ToSet(c[m]) => x \in ListNodes /\ InRow(c, dlTable, m, x)
        BY <3>2 DEF Dev!ToSet, InRow
      <3> QED BY <1>1, <2>1, <3>1, <3>2, <3>3, <3>4 DEF Kept
    <2>2. ASSUME NEW l \in ListSet \ dlGiven
          PROVE  /\ \A x \in Dev!ToSet(Dev!NodesOf(l)) : dlNode[x] # FREE
                 /\ [i \in DOMAIN Dev!NodesOf(l) |-> dlNode[Dev!NodesOf(l)[i]].data] = dlTable[l]
                 /\ \A d \in DeviceSet :
                       Dev!list_index_by_devID(l, d)
                         = Dev!FirstPos({i \in DOMAIN dlTable[l] : dlTable[l][i] = d})
                 /\ \A i \in DOMAIN dlTable[l] : Dev!list_index(l, Dev!list_get(l, i - 1)) = i - 1
      BY <1>0, <1>1, RowLooksUp
    <2> QED BY <2>1, <2>2 DEF Dev!ListIsTable
  <1>4. Dev!LeaksExact
    BY <1>0, HeldIsUsed, SameCardinality DEF Dev!LeaksExact, Counted
  <1> QED BY <1>0, <1>2, <1>3, <1>4

(* Whatever sequence of calls is made, on any number of lists, devices and *)
(* nodes: every list holds what its calls should have left in it, in nodes *)
(* of its own, the look-ups of list.c find it there, records are lost by   *)
(* list_pop of the head and by list_set only, and foreign memory is        *)
(* reached from a stale static place only.                                 *)
THEOREM ListsAreTables == ToolsSpec => []ListIsTable
  <1>1. ToolsSpec => []DevInv
    BY DevInit, DevNext, PTL DEF ToolsSpec
  <1>2. DevInv => ListIsTable
    BY ListsAsTables DEF ListIsTable
  <1> QED BY <1>1, <1>2, PTL

\* What RoundComplete says of a step.
RoundStep ==
    dlRound.list # NULL /\ dlRound' = Dev!NoRound /\ ~dlRound.astray /\ ~dlRound.moved
        => dlRound.due \subseteq dlRound.came

\* A round that ends has come to the end of its list.
LEMMA RoundEnds == DevInv /\ [ToolsNext]_toolVars => [RoundStep]_dl
  <1> SUFFICES ASSUME DevInv, [ToolsNext]_toolVars, dl' # dl,
                      dlRound.list # NULL, dlRound' = Dev!NoRound, ~dlRound.astray, ~dlRound.moved
               PROVE  dlRound.due \subseteq dlRound.came
    BY DEF RoundStep
  <1>0. DevTyped /\ dlRound \in RoundType /\ dlPlace \in PlaceType
    BY DEF DevInv, DevTyped
  <1>1. PICK c : /\ Kept(c, dlHead, dlNode, dlTable, dlGiven)
                 /\ AtPlace(c, dlTable, dlGiven, dlPlace, dlRound)
    BY DEF DevInv, InRows
  <1>2. dlPlace.flag
    BY <1>1 DEF AtPlace, Dev!NoRound
  <1>3. dlRound'.list = NULL
    BY DEF Dev!NoRound
  <1>4. PICK l \in ListSet :
           \/ Dev!list_init(l) \/ Dev!list_pop_tail(l) \/ Dev!list_reverse(l)
           \/ Dev!list_iter(l) \/ Dev!list_cycle(l)
           \/ \E d \in DeviceSet : Dev!list_append(l, d) \/ Dev!PopDevice(l, d)
           \/ \E pos \in 0 .. Dev!Cardinality(ListNodes) - 1 :
                 Dev!list_pop(l, pos) \/ \E d \in DeviceSet : Dev!list_set(l, pos, d)
           \/ \E i, j \in 0 .. Dev!Cardinality(ListNodes) - 1 : Dev!list_swap(l, i, j)
           \/ \E m \in ListSet : Dev!list_extend(l, m)
           \/ \E ds \in Dev!Arrays, len \in 0 .. 2 : Dev!list_from_array(l, ds, len)
    BY DEF ToolsNext, toolVars, dl, Dev!Next
  <1>5. ~(dlRound' = dlRound)
    BY <1>3
  <1>6. \A x : ~(dlRound' = Dev!RoundWithout(l, x))
    BY <1>0, <1>3 DEF Dev!RoundWithout, RoundType
  <1>7. ~(dlRound' = Dev!RoundMoved)
    BY <1>0, <1>3 DEF Dev!RoundMoved, RoundType
  <1>8. \A m \in ListSet : ~(dlRound' = [Dev!RoundMoved EXCEPT !.list = IF @ = m THEN l ELSE @])
    BY <1>0, <1>3, ListAssumption DEF Dev!RoundMoved, RoundType
  <1>9. Dev!list_iter(l)
    BY <1>4, <1>5, <1>6, <1>7, <1>8
       DEF Dev!list_init, Dev!list_pop_tail, Dev!list_reverse, Dev!list_cycle, Dev!list_append,
           Dev!PopDevice, Dev!list_pop, Dev!list_set, Dev!list_swap, Dev!list_extend,
           Dev!list_from_array
  <1>10. dlPlace.iter = NULL
    <2>1. Dev!IterPlace(l) = dlPlace.iter
      BY <1>2 DEF Dev!IterPlace
    <2>2. CASE dlPlace.iter # NULL
      <3>1. \/ dlRound' = dlRound
            \/ dlRound' = [dlRound EXCEPT !.came = @ \cup {dlPlace.iter},
                                          !.moved = @ \/ dlRound.list # l]
        BY <1>2, <1>9, <2>1, <2>2 DEF Dev!list_iter
      <3> QED BY <1>0, <1>3, <3>1 DEF RoundType
    <2> QED BY <2>2
  <1>11. ASSUME NEW n \in dlRound.due \ dlRound.came PROVE FALSE
    <2>1. /\ dlRound.list \in ListSet \ dlGiven
          /\ Behind(c[dlRound.list], Len(dlTable[dlRound.list]), NULL, n)
      BY <1>1, <1>2, <1>10 DEF AtPlace
    <2>2. OfNodes(c, dlTable, dlGiven)
      BY <1>1, RowsOfNodes
    <2> QED BY <2>1, <2>2, ListAssumption DEF Behind, OfNodes
  <1> QED BY <1>11

(* Whatever calls come in between: a round of list_iter that ends without  *)
(* its place having been removed, and without another order or list, has   *)
(* shown every node that was in the list from its start to its end.        *)
THEOREM RoundsAreComplete == ToolsSpec => RoundComplete
  <1>1. ToolsSpec => []DevInv
    BY DevInit, DevNext, PTL DEF ToolsSpec
  <1>2. DevInv /\ [ToolsNext]_toolVars
        => [dlRound.list # NULL /\ dlRound' = Dev!NoRound /\ ~dlRound.astray /\ ~dlRound.moved
              => dlRound.due \subseteq dlRound.came]_dl
    BY RoundEnds DEF RoundStep
  <1> QED BY <1>1, <1>2, PTL DEF ToolsSpec, RoundComplete
===============================================================================
