--------------------------- MODULE ContainersProofs ---------------------------
(***************************************************************************)
(* Theorems about MsgQueue, for every size of the queue, every number of   *)
(* threads and every set of addresses malloc can choose from; and, at the  *)
(* end, what RingBufferProofs and DictionaryProofs prove, as the           *)
(* properties of MCContainers.                                             *)
(***************************************************************************)
EXTENDS MCContainers, ProofLemmas, FiniteSetTheorems

-------------------------------------------------------------------------------
(* The inductive invariant.                                                *)

\* f lists the allocated nodes from front to backrear along the next fields.
Follows(f) ==
    /\ \A i \in 1 .. count : f[i] \in alive
    /\ \A x \in alive : count > 0 => \E i \in 1 .. count : f[i] = x
    /\ count > 0 => f[1] = front /\ f[count] = backrear
    /\ \A i \in 1 .. count - 1 : f[i + 1] = next[f[i]]
    /\ \A i, j \in 1 .. count : f[i] = f[j] => i = j

\* Every node of the list holds a string.
Filled(f) == \A i \in 1 .. count : data[f[i]] \in Items

\* An empty queue has q->node and no front, as QUEUE_INIT left it, or nothing.
EmptyQueue == count = 0 => alive = {} \/ (alive = {node} /\ front = NULL)

QueueInv ==
    /\ TypeOK
    /\ EmptyQueue
    /\ \E f \in [1 .. count -> Addrs] : Follows(f) /\ Filled(f)

-------------------------------------------------------------------------------
(* The recursive function Chain.                                           *)

\* The recursive definition that Chain is an instance of.
Walk(c, fr, nx) ==
    CHOOSE g : g = [i \in 1 .. c |-> IF i = 1 THEN fr ELSE nx[g[i - 1]]]

\* The function that starts at fr and follows nx for c places is the one that
\* the recursive definition of it gives.
LEMMA WalkUnique ==
    ASSUME NEW c \in Nat, NEW fr, NEW nx, NEW A, NEW f \in [1 .. c -> A],
           c > 0 => f[1] = fr,
           \A i \in 1 .. c - 1 : f[i + 1] = nx[f[i]]
    PROVE  Walk(c, fr, nx) = f
  <1> DEFINE Eq(g) == g = [i \in 1 .. c |-> IF i = 1 THEN fr ELSE nx[g[i - 1]]]
             w == CHOOSE g : Eq(g)
  <1>1. Eq(f)
    <2>1. \A i \in 1 .. c : f[i] = IF i = 1 THEN fr ELSE nx[f[i - 1]]
      <3> SUFFICES ASSUME NEW i \in 1 .. c
                   PROVE  f[i] = IF i = 1 THEN fr ELSE nx[f[i - 1]]
        OBVIOUS
      <3>1. CASE i = 1
        BY <3>1
      <3>2. CASE i # 1
        <4>1. i - 1 \in 1 .. c - 1 /\ (i - 1) + 1 = i
          BY <3>2
        <4> QED BY <3>2, <4>1
      <3> QED BY <3>1, <3>2
    <2> QED BY <2>1
  <1>2. Eq(w)
    BY <1>1
  <1> HIDE DEF w
  <1>3. \A i \in 1 .. c : w[i] = f[i]
    <2>1. \A i \in 1 .. c : w[i] = IF i = 1 THEN fr ELSE nx[w[i - 1]]
      BY <1>2
    <2>2. \A i \in 1 .. c : f[i] = IF i = 1 THEN fr ELSE nx[f[i - 1]]
      BY <1>1
    <2> HIDE DEF Eq
    <2>3. StepwiseEqual(w, f, 1, c)
      BY ONLY c \in Nat, <2>1, <2>2 DEF StepwiseEqual
    <2> QED BY ONLY c \in Nat, <2>3, EqualAlong
  <1>4. w = [i \in 1 .. c |-> w[i]]
    BY <1>2
  <1>5. w = f
    BY <1>3, <1>4
  <1> QED BY <1>5 DEF w, Walk

-------------------------------------------------------------------------------
(* The invariant holds.                                                    *)

\* QUEUE_INIT establishes the invariant.
LEMMA QueueInit == Init => QueueInv
  <1> SUFFICES ASSUME Init PROVE QueueInv
    OBVIOUS
  <1>1. TypeOK
    <2>1. next \in [Addrs -> Addrs \cup Garbage]
      BY DEF Init, Garbage
    <2>2. front \in Addrs \cup Garbage /\ backrear \in Addrs \cup {NULL}
      BY DEF Init, Garbage
    <2>3. count \in 0 .. Size /\ data \in [Addrs -> Items \cup {NULL}] /\ alive \subseteq Addrs
      BY AddrsAssumption, SizeAssumption DEF Init
    <2>4. /\ ppc \in [Producers -> {"idle", "signal"}]
          /\ cpc \in [Consumers -> {"idle", "wait", "woken"}]
          /\ fault \in BOOLEAN
      BY DEF Init
    <2> QED BY <2>1, <2>2, <2>3, <2>4 DEF TypeOK
  <1>2. EmptyQueue
    BY DEF Init, EmptyQueue
  <1>3. \E f \in [1 .. count -> Addrs] : Follows(f) /\ Filled(f)
    <2> DEFINE f == [i \in 1 .. count |-> node]
    <2>1. f \in [1 .. count -> Addrs]
      BY AddrsAssumption
    <2>2. count = 0
      BY DEF Init
    <2>3. Follows(f) /\ Filled(f)
      BY <2>2 DEF Follows, Filled
    <2> QED BY <2>1, <2>3
  <1> QED BY <1>1, <1>2, <1>3 DEF QueueInv

\* A push into a queue without a front finds it empty and q->node unused.
LEMMA PushFirstInv ==
    ASSUME QueueInv, NEW p \in Producers, NEW item \in Items, PushFirst(p, item)
    PROVE  QueueInv' /\ count = 0
  <1>1. PICK f \in [1 .. count -> Addrs] : Follows(f) /\ Filled(f)
    BY DEF QueueInv
  <1>2. count = 0
    <2>1. count > 0 => f[1] = front /\ 1 \in 1 .. count
      BY <1>1 DEF Follows, QueueInv, TypeOK
    <2> QED BY <2>1, AddrsAssumption DEF PushFirst, QueueInv, TypeOK
  <1>3. count' = 1 /\ alive' = {node} /\ front' = node /\ backrear' = node
        /\ data' = [data EXCEPT ![node] = item] /\ next' = next
    BY <1>2 DEF PushFirst, QueueInv, EmptyQueue
  <1>4. TypeOK'
    BY <1>3, AddrsAssumption, SizeAssumption
       DEF QueueInv, TypeOK, PushFirst, Pushed, AfterPush
  <1>5. EmptyQueue'
    BY <1>3 DEF EmptyQueue
  <1>6. \E g \in [1 .. count' -> Addrs] : Follows(g)' /\ Filled(g)'
    <2> DEFINE g == [i \in 1 .. 1 |-> node]
    <2>1. g \in [1 .. count' -> Addrs]
      BY <1>3, AddrsAssumption
    <2>2. data'[node] = item
      BY <1>3, AddrsAssumption DEF QueueInv, TypeOK
    <2>3. \A i \in 1 .. count' : i = 1 /\ g[i] = node
      BY <1>3
    <2>4. g[1] = node
      OBVIOUS
    <2> HIDE DEF g
    <2>5. Follows(g)'
      BY <1>3, <2>3, <2>4 DEF Follows
    <2>6. Filled(g)'
      BY <2>2, <2>3 DEF Filled
    <2> QED BY <2>1, <2>5, <2>6
  <1> QED BY <1>2, <1>4, <1>5, <1>6 DEF QueueInv

\* What Link does to the nodes, when live is a part of what is allocated.
LEMMA LinkEffect ==
    ASSUME TypeOK, NEW item \in Items, NEW live \in SUBSET alive, backrear \in live,
           Link(live, item)
    PROVE  \E a \in Addrs \ live :
              /\ alive' = live \cup {a} /\ backrear' = a
              /\ next' \in [Addrs -> Addrs \cup Garbage]
              /\ data' \in [Addrs -> Items \cup {NULL}]
              /\ next'[backrear] = a
              /\ \A x \in Addrs \ {a, backrear} : next'[x] = next[x]
              /\ data'[a] = item
              /\ \A x \in Addrs \ {a} : data'[x] = data[x]
  <1>1. PICK a \in Addrs \ live, g \in Garbage :
          /\ alive' = live \cup {a}
          /\ next' = [next EXCEPT ![backrear] = a, ![a] = g]
          /\ data' = [data EXCEPT ![a] = item]
          /\ backrear' = a
    BY DEF Link
  <1>2. a # backrear /\ backrear \in Addrs
    BY DEF TypeOK
  <1> QED BY <1>1, <1>2 DEF TypeOK

\* A push behind the last node lengthens the list by one.
LEMMA PushMoreInv ==
    ASSUME QueueInv, NEW p \in Producers, NEW item \in Items, PushMore(p, item)
    PROVE  /\ QueueInv'
           /\ \A f \in [1 .. count -> Addrs] : Follows(f) /\ Filled(f) =>
                 \E g \in [1 .. count' -> Addrs] :
                    /\ Follows(g)' /\ Filled(g)'
                    /\ \A i \in 1 .. count : g[i] = f[i] /\ data'[g[i]] = data[f[i]]
                    /\ data'[g[count']] = item
           /\ count > 0
  <1>1. count > 0
    BY DEF PushMore, QueueInv, EmptyQueue, TypeOK
  <1>2. PICK a \in Addrs \ alive :
              /\ alive' = alive \cup {a} /\ backrear' = a
              /\ next' \in [Addrs -> Addrs \cup Garbage]
              /\ data' \in [Addrs -> Items \cup {NULL}]
              /\ next'[backrear] = a
              /\ \A x \in Addrs \ {a, backrear} : next'[x] = next[x]
              /\ data'[a] = item
              /\ \A x \in Addrs \ {a} : data'[x] = data[x]
    BY LinkEffect DEF PushMore, QueueInv
  <1>3. count' = count + 1 /\ front' = front /\ count < Size /\ count \in Nat
    BY DEF PushMore, QueueInv, TypeOK
  <1>4. TypeOK'
    BY <1>2, <1>3, SizeAssumption DEF QueueInv, TypeOK, PushMore, Pushed, AfterPush
  <1>5. EmptyQueue'
    BY <1>1, <1>3 DEF EmptyQueue
  <1>6. ASSUME NEW f \in [1 .. count -> Addrs], Follows(f), Filled(f)
        PROVE  \E g \in [1 .. count' -> Addrs] :
                    /\ Follows(g)' /\ Filled(g)'
                    /\ \A i \in 1 .. count : g[i] = f[i] /\ data'[g[i]] = data[f[i]]
                    /\ data'[g[count']] = item
    <2>1. PICK g \in [1 .. count' -> Addrs] :
               g = [i \in 1 .. count + 1 |-> IF i = count + 1 THEN a ELSE f[i]]
      <3>1. \A i \in 1 .. count + 1 : (IF i = count + 1 THEN a ELSE f[i]) \in Addrs
        <4>1. \A i \in 1 .. count + 1 : i # count + 1 => i \in 1 .. count
          BY <1>3
        <4> QED BY <4>1
      <3>2. [i \in 1 .. count + 1 |-> IF i = count + 1 THEN a ELSE f[i]]
               \in [1 .. count + 1 -> Addrs]
        BY <3>1
      <3> QED BY <3>2, <1>3, Zenon
    <2>2. g[count + 1] = a /\ \A i \in 1 .. count : g[i] = f[i] /\ g[i] \in alive /\ g[i] # a
      BY <1>3, <1>6, <2>1 DEF Follows
    <2>3. \A i \in 1 .. count + 1 : i \in 1 .. count \/ i = count + 1
      BY <1>3
    <2>4. Follows(g)'
      <3>1. \A i \in 1 .. count' : g[i] \in alive'
        BY <1>2, <1>3, <2>2, <2>3
      <3>2. \A x \in alive' : \E i \in 1 .. count' : g[i] = x
        <4> SUFFICES ASSUME NEW x \in alive' PROVE \E i \in 1 .. count' : g[i] = x
          OBVIOUS
        <4>1. CASE x = a
          BY <4>1, <2>2, <1>3
        <4>2. CASE x \in alive
          <5>1. PICK i \in 1 .. count : f[i] = x
            BY <4>2, <1>1, <1>6 DEF Follows
          <5> QED BY <5>1, <2>2, <1>3
        <4> QED BY <4>1, <4>2, <1>2
      <3>3. g[1] = front' /\ g[count'] = backrear'
        BY <1>1, <1>2, <1>3, <1>6, <2>2 DEF Follows
      <3>4. \A i \in 1 .. count' - 1 : g[i + 1] = next'[g[i]]
        <4> SUFFICES ASSUME NEW i \in 1 .. count PROVE g[i + 1] = next'[g[i]]
          BY <1>3
        <4>1. CASE i = count
          BY <4>1, <1>1, <1>2, <1>6, <2>2 DEF Follows
        <4>2. CASE i # count
          <5>1. i \in 1 .. count - 1 /\ i + 1 \in 1 .. count /\ count \in 1 .. count
            BY <4>2, <1>1, <1>3
          <5>2. f[i] # backrear
            BY <5>1, <4>2, <1>1, <1>6 DEF Follows
          <5>3. next'[f[i]] = next[f[i]]
            BY <5>2, <2>2, <1>2
          <5> QED BY <5>1, <5>3, <1>6, <2>2 DEF Follows
        <4> QED BY <4>1, <4>2
      <3>5. \A i, j \in 1 .. count' : g[i] = g[j] => i = j
        BY <1>3, <1>6, <2>2, <2>3 DEF Follows
      <3> QED BY <3>1, <3>2, <3>3, <3>4, <3>5 DEF Follows
    <2>5. \A i \in 1 .. count : data'[g[i]] = data[f[i]]
      BY <1>2, <2>2
    <2>6. Filled(g)'
      BY <1>2, <1>3, <1>6, <2>2, <2>3, <2>5 DEF Filled
    <2> QED BY <1>2, <1>3, <2>1, <2>2, <2>4, <2>5, <2>6
  <1> QED BY <1>1, <1>4, <1>5, <1>6 DEF QueueInv

\* A push into a full queue drops the node at the front and adds one at the end;
\* malloc may return the address that was just freed.
LEMMA PushFullInv ==
    ASSUME QueueInv, NEW p \in Producers, NEW item \in Items, PushFull(p, item)
    PROVE  /\ QueueInv'
           /\ \A f \in [1 .. count -> Addrs] : Follows(f) /\ Filled(f) =>
                 \E g \in [1 .. count' -> Addrs] :
                    /\ Follows(g)' /\ Filled(g)'
                    /\ \A i \in 1 .. count - 1 : data'[g[i]] = data[f[i + 1]]
                    /\ data'[g[count']] = item
           /\ count = Size /\ count > 1
  <1>1. count = Size /\ count' = count /\ count \in Nat /\ count > 0
    BY SizeAssumption DEF PushFull, CountFull, QueueInv, TypeOK
  <1>2. count > 1
    <2>1. PICK f \in [1 .. count -> Addrs] : Follows(f)
      BY DEF QueueInv
    <2>2. front = f[1] /\ backrear = f[count] /\ front # backrear
      BY <1>1, <2>1 DEF PushFull, Follows
    <2> QED BY <1>1, <2>2
  <1>3. PICK a \in Addrs \ (alive \ {front}) :
              /\ alive' = (alive \ {front}) \cup {a} /\ backrear' = a
              /\ next' \in [Addrs -> Addrs \cup Garbage]
              /\ data' \in [Addrs -> Items \cup {NULL}]
              /\ next'[backrear] = a
              /\ \A x \in Addrs \ {a, backrear} : next'[x] = next[x]
              /\ data'[a] = item
              /\ \A x \in Addrs \ {a} : data'[x] = data[x]
    <2>1. alive \ {front} \in SUBSET alive /\ backrear \in alive \ {front}
      BY DEF PushFull
    <2> QED BY <2>1, LinkEffect DEF PushFull, QueueInv
  <1>4. front' = next[front] /\ front \in Addrs
    BY DEF PushFull, AfterFront, QueueInv, TypeOK
  <1>5. TypeOK'
    BY <1>1, <1>3, <1>4 DEF QueueInv, TypeOK, PushFull, Pushed, AfterPush
  <1>6. EmptyQueue'
    BY <1>1 DEF EmptyQueue
  <1>7. ASSUME NEW f \in [1 .. count -> Addrs], Follows(f), Filled(f)
        PROVE  \E g \in [1 .. count' -> Addrs] :
                    /\ Follows(g)' /\ Filled(g)'
                    /\ \A i \in 1 .. count - 1 : data'[g[i]] = data[f[i + 1]]
                    /\ data'[g[count']] = item
    <2>1. PICK g \in [1 .. count' -> Addrs] :
               g = [i \in 1 .. count |-> IF i = count THEN a ELSE f[i + 1]]
      <3>1. \A i \in 1 .. count : (IF i = count THEN a ELSE f[i + 1]) \in Addrs
        <4>1. \A i \in 1 .. count : i # count => i + 1 \in 1 .. count
          BY <1>1
        <4> QED BY <4>1
      <3>2. [i \in 1 .. count |-> IF i = count THEN a ELSE f[i + 1]] \in [1 .. count -> Addrs]
        BY <3>1
      <3> QED BY <3>2, <1>1, Zenon
    <2>2. g[count] = a /\ \A i \in 1 .. count - 1 : g[i] = f[i + 1] /\ i + 1 \in 1 .. count
      BY <1>1, <2>1
    <2>3. \A i \in 1 .. count : i \in 1 .. count - 1 \/ i = count
      BY <1>1
    <2>4. f[1] = front /\ f[count] = backrear /\ 1 \in 1 .. count /\ count \in 1 .. count
      BY <1>1, <1>7 DEF Follows
    <2>5. \A i \in 1 .. count - 1 : g[i] \in alive \ {front} /\ g[i] # a
      <3> SUFFICES ASSUME NEW i \in 1 .. count - 1 PROVE g[i] \in alive \ {front}
        BY <1>3
      <3>1. i + 1 # 1 /\ i + 1 \in 1 .. count
        BY <1>1
      <3>2. f[i + 1] # f[1] /\ f[i + 1] \in alive
        BY <3>1, <2>4, <1>7 DEF Follows
      <3> QED BY <3>2, <2>2, <2>4
    <2>6. Follows(g)'
      <3>1. \A i \in 1 .. count' : g[i] \in alive'
        BY <1>1, <1>3, <2>2, <2>3, <2>5
      <3>2. \A x \in alive' : \E i \in 1 .. count' : g[i] = x
        <4> SUFFICES ASSUME NEW x \in alive' PROVE \E i \in 1 .. count' : g[i] = x
          OBVIOUS
        <4>1. CASE x = a
          BY <4>1, <2>2, <2>4, <1>1
        <4>2. CASE x \in alive \ {front}
          <5>1. PICK i \in 1 .. count : f[i] = x
            BY <4>2, <1>1, <1>7 DEF Follows
          <5>2. i # 1
            BY <5>1, <4>2, <2>4
          <5>3. i - 1 \in 1 .. count - 1 /\ (i - 1) + 1 = i /\ i - 1 \in 1 .. count
            BY <5>2, <1>1
          <5> QED BY <5>1, <5>3, <2>2, <1>1
        <4> QED BY <4>1, <4>2, <1>3
      <3>3. g[1] = front' /\ g[count'] = backrear'
        <4>1. 1 \in 1 .. count - 1
          BY <1>1, <1>2
        <4>2. f[1 + 1] = next[f[1]]
          BY <4>1, <1>7 DEF Follows
        <4>3. g[1] = f[1 + 1]
          BY <4>1, <2>2
        <4> QED BY <4>2, <4>3, <1>1, <1>3, <1>4, <2>2, <2>4
      <3>4. \A i \in 1 .. count' - 1 : g[i + 1] = next'[g[i]]
        <4> SUFFICES ASSUME NEW i \in 1 .. count - 1 PROVE g[i + 1] = next'[g[i]]
          BY <1>1
        <4>0. g[i] = f[i + 1] /\ i + 1 \in 1 .. count
          BY <2>2
        <4>1. CASE i + 1 = count
          BY <4>0, <4>1, <1>3, <2>2, <2>4
        <4>2. CASE i + 1 # count
          <5>1. i + 1 \in 1 .. count - 1
            BY <4>2, <1>1
          <5>2. f[i + 1] # backrear
            BY <4>0, <4>2, <2>4, <1>7 DEF Follows
          <5>3. next'[f[i + 1]] = next[f[i + 1]]
            BY <5>2, <4>0, <2>5, <1>3
          <5>4. f[(i + 1) + 1] = next[f[i + 1]]
            BY <5>1, <1>7 DEF Follows
          <5>5. g[i + 1] = f[(i + 1) + 1]
            BY <5>1, <2>2
          <5> QED BY <4>0, <5>3, <5>4, <5>5
        <4> QED BY <4>1, <4>2
      <3>5. \A i, j \in 1 .. count' : g[i] = g[j] => i = j
        <4> SUFFICES ASSUME NEW i \in 1 .. count, NEW j \in 1 .. count, g[i] = g[j]
                     PROVE  i = j
          BY <1>1
        <4>1. CASE i \in 1 .. count - 1 /\ j \in 1 .. count - 1
          <5>1. i + 1 = j + 1
            BY <4>1, <2>2, <1>7 DEF Follows
          <5> QED BY <5>1
        <4>2. CASE i = count \/ j = count
          BY <4>2, <2>2, <2>3, <2>5
        <4> QED BY <4>1, <4>2, <2>3
      <3> QED BY <3>1, <3>2, <3>3, <3>4, <3>5 DEF Follows
    <2>7. \A i \in 1 .. count - 1 : data'[g[i]] = data[f[i + 1]]
      BY <1>3, <2>2, <2>5
    <2>8. Filled(g)'
      BY <1>1, <1>3, <1>7, <2>2, <2>3, <2>7 DEF Filled
    <2> QED BY <1>1, <1>3, <2>1, <2>2, <2>6, <2>7, <2>8
  <1> QED BY <1>1, <1>2, <1>5, <1>6, <1>7 DEF QueueInv

\* QUEUE_POP takes the first node off the list; the last one leaves nothing behind.
LEMMA PopFrontInv ==
    ASSUME QueueInv, NEW c \in Consumers, PopFront(c)
    PROVE  /\ QueueInv'
           /\ \A f \in [1 .. count -> Addrs] : Follows(f) /\ Filled(f) =>
                 \E g \in [1 .. count' -> Addrs] :
                    /\ Follows(g)' /\ Filled(g)'
                    /\ \A i \in 1 .. count' : g[i] = f[i + 1]
  <1>1. count' = count - 1 /\ count \in Nat /\ count > 0 /\ alive' = alive \ {front}
        /\ front' = next[front] /\ front \in Addrs
        /\ UNCHANGED <<backrear, next, data>>
    BY DEF PopFront, AfterFront, QueueInv, TypeOK
  <1>2. TypeOK'
    <2>1. count' \in 0 .. Size
      BY <1>1, SizeAssumption DEF QueueInv, TypeOK
    <2>2. front' \in Addrs \cup Garbage /\ alive' \subseteq Addrs
      BY <1>1 DEF QueueInv, TypeOK
    <2>3. /\ ppc' \in [Producers -> {"idle", "signal"}]
          /\ cpc' \in [Consumers -> {"idle", "wait", "woken"}]
          /\ fault' \in BOOLEAN
      BY DEF QueueInv, TypeOK, PopFront
    <2> QED BY <1>1, <2>1, <2>2, <2>3 DEF QueueInv, TypeOK
  <1>3. EmptyQueue'
    <2> SUFFICES ASSUME count = 1 PROVE alive' = {}
      BY <1>1 DEF EmptyQueue
    <2>1. PICK f \in [1 .. count -> Addrs] : Follows(f)
      BY DEF QueueInv
    <2>2. \A x \in alive : x = front
      BY <2>1, <1>1 DEF Follows
    <2> QED BY <2>2, <1>1
  <1>4. ASSUME NEW f \in [1 .. count -> Addrs], Follows(f), Filled(f)
        PROVE  \E g \in [1 .. count' -> Addrs] :
                    /\ Follows(g)' /\ Filled(g)'
                    /\ \A i \in 1 .. count' : g[i] = f[i + 1]
    <2>1. PICK g \in [1 .. count' -> Addrs] : g = [i \in 1 .. count' |-> f[i + 1]]
      <3>1. \A i \in 1 .. count' : i + 1 \in 1 .. count
        BY <1>1
      <3>2. [i \in 1 .. count' |-> f[i + 1]] \in [1 .. count' -> Addrs]
        BY <3>1
      <3> QED BY <3>2, Zenon
    <2>2. \A i \in 1 .. count' : g[i] = f[i + 1] /\ i + 1 \in 1 .. count
      BY <1>1, <2>1
    <2>3. f[1] = front /\ f[count] = backrear /\ 1 \in 1 .. count /\ count \in 1 .. count
      BY <1>1, <1>4 DEF Follows
    <2>4. \A i \in 1 .. count' : g[i] \in alive'
      <3> SUFFICES ASSUME NEW i \in 1 .. count' PROVE g[i] \in alive \ {front}
        BY <1>1
      <3>1. i + 1 # 1 /\ i + 1 \in 1 .. count
        BY <1>1
      <3>2. f[i + 1] # f[1] /\ f[i + 1] \in alive
        BY <3>1, <2>3, <1>4 DEF Follows
      <3> QED BY <3>2, <2>2, <2>3
    <2>5. \A x \in alive' : \E i \in 1 .. count' : g[i] = x
      <3> SUFFICES ASSUME NEW x \in alive \ {front} PROVE \E i \in 1 .. count' : g[i] = x
        BY <1>1
      <3>1. PICK i \in 1 .. count : f[i] = x
        BY <1>1, <1>4 DEF Follows
      <3>2. i # 1
        BY <3>1, <2>3
      <3>3. i - 1 \in 1 .. count' /\ (i - 1) + 1 = i
        BY <3>2, <1>1
      <3> QED BY <3>1, <3>3, <2>2
    <2>6. count' > 0 => g[1] = front' /\ g[count'] = backrear'
      <3> SUFFICES ASSUME count' > 0 PROVE g[1] = front' /\ g[count'] = backrear'
        OBVIOUS
      <3>1. 1 \in 1 .. count - 1 /\ 1 \in 1 .. count' /\ count' \in 1 .. count' /\ count' + 1 = count
        BY <1>1
      <3>2. f[1 + 1] = next[f[1]]
        BY <3>1, <1>4 DEF Follows
      <3>3. g[1] = f[1 + 1] /\ g[count'] = f[count]
        BY <3>1, <2>2
      <3> QED BY <3>2, <3>3, <2>3, <1>1
    <2>7. \A i \in 1 .. count' - 1 : g[i + 1] = next'[g[i]]
      <3> SUFFICES ASSUME NEW i \in 1 .. count' - 1 PROVE g[i + 1] = next[g[i]]
        BY <1>1
      <3>1. i \in 1 .. count' /\ i + 1 \in 1 .. count' /\ i + 1 \in 1 .. count - 1
        BY <1>1
      <3>2. f[(i + 1) + 1] = next[f[i + 1]]
        BY <3>1, <1>4 DEF Follows
      <3> QED BY <3>1, <3>2, <2>2
    <2>8. \A i, j \in 1 .. count' : g[i] = g[j] => i = j
      <3> SUFFICES ASSUME NEW i \in 1 .. count', NEW j \in 1 .. count', g[i] = g[j]
                   PROVE  i = j
        OBVIOUS
      <3>1. i + 1 = j + 1
        BY <2>2, <1>4 DEF Follows
      <3> QED BY <3>1, <1>1
    <2>9. Follows(g)'
      BY <2>4, <2>5, <2>6, <2>7, <2>8 DEF Follows
    <2>10. Filled(g)'
      BY <2>2, <1>1, <1>4 DEF Filled
    <2> QED BY <2>1, <2>2, <2>9, <2>10
  <1>5. QueueInv'
    BY <1>2, <1>3, <1>4 DEF QueueInv
  <1> QED BY <1>4, <1>5

\* A step that leaves the queue alone keeps the invariant when its types are right.
LEMMA SameQueue ==
    ASSUME QueueInv, UNCHANGED queue, TypeOK'
    PROVE  QueueInv'
  <1>1. PICK f \in [1 .. count -> Addrs] : Follows(f) /\ Filled(f)
    BY DEF QueueInv
  <1>2. UNCHANGED <<front, backrear, count, next, data, alive>>
    BY DEF queue
  <1>3. f \in [1 .. count' -> Addrs] /\ Follows(f)' /\ Filled(f)'
    BY <1>1, <1>2 DEF Follows, Filled
  <1>4. EmptyQueue'
    BY <1>2 DEF QueueInv, EmptyQueue
  <1> QED BY <1>3, <1>4 DEF QueueInv

\* Every step keeps the invariant.
LEMMA QueueNext == QueueInv /\ [Next]_vars => QueueInv'
  <1> SUFFICES ASSUME QueueInv, [Next]_vars PROVE QueueInv'
    OBVIOUS
  <1>1. ASSUME NEW p \in Producers, PushSignal(p) PROVE QueueInv'
    <2>1. ppc' \in [Producers -> {"idle", "signal"}]
      BY <1>1 DEF PushSignal, QueueInv, TypeOK
    <2>2. cpc' \in [Consumers -> {"idle", "wait", "woken"}]
      BY <1>1 DEF PushSignal, QueueInv, TypeOK, Waiting
    <2>3. UNCHANGED queue /\ fault' = fault
      BY <1>1 DEF PushSignal
    <2>4. TypeOK'
      BY <2>1, <2>2, <2>3 DEF queue, QueueInv, TypeOK
    <2> QED BY <2>3, <2>4, SameQueue
  <1>2. ASSUME NEW p \in Producers, NEW item \in Items, QUEUE_PUSH(p, item) PROVE QueueInv'
    <2>1. CASE PushFirst(p, item)
      BY <2>1, PushFirstInv
    <2>2. CASE PushMore(p, item)
      BY <2>2, PushMoreInv
    <2>3. CASE PushFull(p, item)
      BY <2>3, PushFullInv
    <2>4. CASE PushUndefined
      <3>1. TypeOK'
        BY <2>4 DEF PushUndefined, Undefined, queue, QueueInv, TypeOK
      <3> QED BY <2>4, <3>1, SameQueue DEF PushUndefined, Undefined
    <2> QED BY <1>2, <2>1, <2>2, <2>3, <2>4 DEF QUEUE_PUSH
  <1>3. ASSUME NEW c \in Consumers, QUEUE_POP(c) PROVE QueueInv'
    <2>1. CASE PopWait(c)
      <3>1. TypeOK'
        BY <2>1 DEF PopWait, queue, QueueInv, TypeOK
      <3> QED BY <2>1, <3>1, SameQueue DEF PopWait
    <2>2. CASE PopFront(c)
      BY <2>2, PopFrontInv
    <2> QED BY <1>3, <2>1, <2>2 DEF QUEUE_POP
  <1>4. ASSUME NEW c \in Consumers, SpuriousWakeup(c) PROVE QueueInv'
    <2>1. TypeOK'
      BY <1>4 DEF SpuriousWakeup, queue, QueueInv, TypeOK
    <2> QED BY <1>4, <2>1, SameQueue DEF SpuriousWakeup
  <1>5. CASE UNCHANGED vars
    <2>1. TypeOK'
      BY <1>5 DEF vars, queue, QueueInv, TypeOK
    <2> QED BY <1>5, <2>1, SameQueue DEF vars
  <1> QED BY <1>1, <1>2, <1>3, <1>4, <1>5 DEF Next

\* The inductive invariant holds in every state.
LEMMA QueueInvariant == Spec => []QueueInv
  BY QueueInit, QueueNext, PTL DEF Spec

-------------------------------------------------------------------------------
(* ChainSound.                                                             *)

\* In a state with the invariant, Chain is the list of the nodes.
LEMMA ChainFollows ==
    ASSUME count \in Nat, NEW f \in [1 .. count -> Addrs], Follows(f)
    PROVE  Chain = f
  <1>0. /\ count > 0 => f[1] = front
        /\ \A i \in 1 .. count - 1 : f[i + 1] = next[f[i]]
    BY DEF Follows
  <1>1. Walk(count, front, next) = f
    BY <1>0, WalkUnique
  <1> QED BY <1>1 DEF Chain, Walk

\* QUEUE_PUSH and QUEUE_POP keep a list that can be followed from front to
\* backrear, as long as count says, through allocated nodes, each visited once.
THEOREM ChainIsSound == Spec => []ChainSound
  <1>1. QueueInv => ChainSound
    <2> SUFFICES ASSUME QueueInv PROVE ChainSound
      OBVIOUS
    <2>1. count \in Nat
      BY DEF QueueInv, TypeOK
    <2>2. PICK f \in [1 .. count -> Addrs] : Follows(f)
      BY DEF QueueInv
    <2>3. Chain = f
      BY <2>1, <2>2, ChainFollows
    <2> QED BY <2>1, <2>2, <2>3 DEF ChainSound, Follows, QueueInv
  <1> QED BY <1>1, QueueInvariant, PTL

-------------------------------------------------------------------------------
(* NoStrandedConsumer.                                                     *)

Signals == {p \in Producers : ppc[p] = "signal"}
Woken == {c \in Consumers : cpc[c] = "woken"}

\* Sets of threads are finite.
LEMMA ThreadSets ==
    /\ \A S \in SUBSET Producers : IsFiniteSet(S) /\ Cardinality(S) \in Nat
    /\ \A S \in SUBSET Consumers : IsFiniteSet(S) /\ Cardinality(S) \in Nat
  BY ThreadsAssumption, FS_Subset, FS_CardinalityType

\* A step that moves no thread, or wakes one, keeps enough wakeups under way.
LEMMA StrandedNext == TypeOK /\ NoStrandedConsumer /\ [Next]_vars => NoStrandedConsumer'
  <1> SUFFICES ASSUME TypeOK, NoStrandedConsumer, [Next]_vars, Waiting' # {}
               PROVE  count' <= Cardinality(Signals') + Cardinality(Woken')
    BY DEF NoStrandedConsumer, Signals, Woken
  <1> DEFINE s == Cardinality(Signals)
             w == Cardinality(Woken)
  <1>s. s \in Nat /\ w \in Nat /\ count \in Nat
        /\ Signals \in SUBSET Producers /\ Woken \in SUBSET Consumers
    BY ThreadSets DEF Signals, Woken, TypeOK
  <1>p. Cardinality(Signals') \in Nat /\ Cardinality(Woken') \in Nat
    <2>1. Signals' \in SUBSET Producers /\ Woken' \in SUBSET Consumers
      BY DEF Signals, Woken
    <2> QED BY <2>1, ThreadSets
  <1>i. Waiting # {} => count <= s + w
    BY DEF NoStrandedConsumer, Signals, Woken
  <1>1. ASSUME NEW p \in Producers, PushSignal(p)
        PROVE  count' <= Cardinality(Signals') + Cardinality(Woken')
    <2>1. Signals' = Signals \ {p} /\ p \in Signals
      BY <1>1 DEF PushSignal, Signals, TypeOK
    <2>2. Cardinality(Signals') = s - 1
      BY <2>1, <1>s, ThreadSets, FS_RemoveElement
    <2>3. PICK c \in Waiting : cpc' = [cpc EXCEPT ![c] = "woken"]
      BY <1>1 DEF PushSignal, Waiting
    <2>4. Woken' = Woken \cup {c} /\ c \notin Woken
      BY <2>3 DEF Woken, Waiting, TypeOK
    <2>5. Cardinality(Woken') = w + 1
      BY <2>4, <1>s, ThreadSets, FS_AddElement
    <2>6. count' = count /\ count <= s + w
      BY <1>1, <1>i, <2>3 DEF PushSignal, queue
    <2> QED BY <2>2, <2>5, <2>6, <1>s
  <1>2. ASSUME NEW p \in Producers, NEW item \in Items, QUEUE_PUSH(p, item)
        PROVE  count' <= Cardinality(Signals') + Cardinality(Woken')
    <2>1. cpc' = cpc
      BY <1>2 DEF QUEUE_PUSH, PushFirst, PushMore, PushFull, Pushed, PushUndefined, Undefined
    <2>2. Woken' = Woken /\ Waiting' = Waiting
      BY <2>1 DEF Woken, Waiting
    <2>3. count <= s + w
      BY <1>i, <2>2
    <2>4. CASE PushUndefined
      BY <2>2, <2>3, <2>4 DEF PushUndefined, Undefined, queue, Signals
    <2>5. CASE ~PushUndefined
      <3>1. ppc[p] = "idle" /\ ppc' = [ppc EXCEPT ![p] = "signal"]
        BY <1>2, <2>5 DEF QUEUE_PUSH, PushFirst, PushMore, PushFull, Pushed, AfterPush
      <3>2. count' = count + 1 \/ count' = count
        BY <1>2, <2>5 DEF QUEUE_PUSH, PushFirst, PushMore, PushFull, CountFull
      <3>3. Signals' = Signals \cup {p} /\ p \notin Signals
        BY <3>1 DEF Signals, TypeOK
      <3>4. Cardinality(Signals') = s + 1
        BY <3>3, <1>s, ThreadSets, FS_AddElement
      <3> QED BY <2>2, <2>3, <3>2, <3>4, <1>s
    <2> QED BY <2>4, <2>5
  <1>3. ASSUME NEW c \in Consumers, PopWait(c)
        PROVE  count' <= Cardinality(Signals') + Cardinality(Woken')
    BY <1>3, <1>p DEF PopWait, queue
  <1>4. ASSUME NEW c \in Consumers, PopFront(c), cpc[c] \in {"idle", "woken"}
        PROVE  count' <= Cardinality(Signals') + Cardinality(Woken')
    <2>1. cpc' = [cpc EXCEPT ![c] = "idle"] /\ count' = count - 1 /\ ppc' = ppc
      BY <1>4 DEF PopFront
    <2>2. Signals' = Signals /\ Waiting' = Waiting /\ Woken' = Woken \ {c}
      BY <2>1, <1>4 DEF Signals, Waiting, Woken, TypeOK
    <2>3. Cardinality(Woken') >= w - 1
      <3>1. CASE c \in Woken
        BY <3>1, <2>2, <1>s, ThreadSets, FS_RemoveElement
      <3>2. CASE c \notin Woken
        <4>1. Woken' = Woken
          BY <3>2, <2>2
        <4> QED BY <4>1, <1>s
      <3> QED BY <3>1, <3>2
    <2> QED BY <2>1, <2>2, <2>3, <1>i, <1>s, <1>p
  <1>5. ASSUME NEW c \in Consumers, SpuriousWakeup(c)
        PROVE  count' <= Cardinality(Signals') + Cardinality(Woken')
    <2>1. c \in Waiting /\ count' = count /\ Signals' = Signals
      BY <1>5 DEF SpuriousWakeup, Waiting, queue, Signals
    <2>2. Woken' = Woken \cup {c} /\ c \notin Woken
      BY <1>5 DEF SpuriousWakeup, Woken, TypeOK
    <2>3. Cardinality(Woken') = w + 1
      BY <2>2, <1>s, ThreadSets, FS_AddElement
    <2> QED BY <2>1, <2>3, <1>i, <1>s
  <1>6. CASE UNCHANGED vars
    BY <1>6, <1>i DEF vars, queue, Signals, Woken, Waiting
  <1> QED BY <1>1, <1>2, <1>3, <1>4, <1>5, <1>6 DEF Next, QUEUE_POP

\* Whatever the number of producers and consumers and with spurious wakeups, a
\* consumer that sleeps in QUEUE_POP is covered by a wakeup for every string.
THEOREM ConsumersServed == Spec => []NoStrandedConsumer
  <1>1. Init => NoStrandedConsumer
    BY DEF Init, NoStrandedConsumer, Waiting
  <1>2. QueueInv => TypeOK
    BY DEF QueueInv
  <1> QED BY <1>1, <1>2, QueueInvariant, StrandedNext, PTL DEF Spec

-------------------------------------------------------------------------------
(* The refinement of ByteFifo.                                             *)

\* ChainFollows in the state after a step.
LEMMA ChainFollowsNext ==
    ASSUME count' \in Nat, NEW f \in [1 .. count' -> Addrs], Follows(f)'
    PROVE  Chain' = f
  <1>0. /\ count' > 0 => f[1] = front'
        /\ \A i \in 1 .. count' - 1 : f[i + 1] = next'[f[i]]
    BY DEF Follows
  <1>1. Walk(count', front', next') = f
    BY <1>0, WalkUnique
  <1> QED BY <1>1 DEF Chain, Walk

\* One string is a block of the abstract queue, and cutting it to what fits in a
\* queue with room leaves it whole.
LEMMA OneString ==
    ASSUME NEW item \in Items
    PROVE  /\ <<item>> \in Fifo!Blocks
           /\ <<item>> \in [1 .. 1 -> Items] /\ <<item>>[1] = item /\ Len(<<item>>) = 1
           /\ SubSeq(<<item>>, 1, 1) = <<item>>
  <1>1. <<item>> \in [1 .. 1 -> Items] /\ <<item>>[1] = item /\ Len(<<item>>) = 1
    OBVIOUS
  <1>2. 1 \in 1 .. 1
    OBVIOUS
  <1>3. <<item>> \in Fifo!Blocks
    BY <1>1, <1>2 DEF Fifo!Blocks
  <1>4. <<item>> \in Seq(Items)
    BY <1>1, FunctionIsSeq
  <1>5. SubSeq(<<item>>, 1, 1) = <<item>>
    BY <1>1, <1>4, SubSeqFull
  <1> QED BY <1>1, <1>3, <1>5

\* A push into a queue with room appends its string.
LEMMA PushMaps ==
    ASSUME count \in Nat, NEW item \in Items,
           NEW f \in [1 .. count -> Addrs], Follows(f), Filled(f),
           NEW g \in [1 .. count' -> Addrs], Follows(g)', Filled(g)',
           count' = count + 1, count < Size, out' = out,
           \A i \in 1 .. count : data'[g[i]] = data[f[i]],
           data'[g[count']] = item
    PROVE  Fifo!Put(<<item>>)
  <1>1. Chain = f /\ Chain' = g
    BY ChainFollows, ChainFollowsNext
  <1> DEFINE C == [i \in 1 .. count |-> data[f[i]]]
             D == [i \in 1 .. count' |-> data'[g[i]]]
  <1>2. C \in [1 .. count -> Items] /\ D \in [1 .. count + 1 -> Items]
    BY DEF Filled
  <1>3. /\ \A i \in 1 .. count : D[i] = C[i]
        /\ \A i \in 1 .. 1 : D[count + i] = <<item>>[i]
    OBVIOUS
  <1> HIDE DEF C, D
  <1>4. D = C \o <<item>>
    <2>1. D[count + 1] = item
      BY <1>3, OneString
    <2> QED BY <1>2, <1>3, <2>1, AppendByElements
  <1>5. Len(C) = count
    BY <1>2, FunctionIsSeq
  <1>6. Fifo!Least(Len(<<item>>), Size - Len(C)) = 1
    BY <1>5, OneString, SizeAssumption DEF Fifo!Least
  <1>7. D = C \o SubSeq(<<item>>, 1, Fifo!Least(Len(<<item>>), Size - Len(C)))
    BY <1>4, <1>6, OneString
  <1> QED BY <1>1, <1>7 DEF Fifo!Put, C, D

\* The step of a push into a full queue, read along the chain: the list f becomes
\* the list g, which holds the strings of f without the first, and then item.
Shifted(f, g, item) ==
    /\ f \in [1 .. count -> Addrs] /\ Follows(f) /\ Filled(f)
    /\ g \in [1 .. count' -> Addrs] /\ Follows(g)' /\ Filled(g)'
    /\ count' = count /\ count = Size /\ count > 1 /\ out' = out
    /\ \A i \in 1 .. count - 1 : data'[g[i]] = data[f[i + 1]]
    /\ data'[g[count']] = item

\* A push into a full queue drops the oldest string and appends its own.
LEMMA PushFullMaps ==
    ASSUME count \in Nat, NEW item \in Items, NEW f, NEW g, Shifted(f, g, item)
    PROVE  Fifo!PutForce(<<item>>)
  <1>0. /\ f \in [1 .. count -> Addrs] /\ Follows(f) /\ Filled(f)
        /\ g \in [1 .. count' -> Addrs] /\ Follows(g)' /\ Filled(g)'
        /\ count' = count /\ count = Size /\ count > 1 /\ out' = out
        /\ \A i \in 1 .. count - 1 : data'[g[i]] = data[f[i + 1]]
        /\ data'[g[count']] = item
    BY DEF Shifted
  <1> USE <1>0
  <1>1. Chain = f /\ Chain' = g
    BY ChainFollows, ChainFollowsNext
  <1> DEFINE C == [i \in 1 .. count |-> data[f[i]]]
             D == [i \in 1 .. count' |-> data'[g[i]]]
             all == C \o <<item>>
  <1>2. C \in [1 .. count -> Items] /\ D \in [1 .. count -> Items]
    BY DEF Filled
  <1>3. /\ \A i \in 1 .. count - 1 : D[i] = C[i + 1]
        /\ D[count] = item
    OBVIOUS
  <1> HIDE DEF C, D
  <1>4. C \in Seq(Items) /\ Len(C) = count /\ <<item>> \in Seq(Items)
    BY <1>2, OneString, FunctionIsSeq
  <1>5. /\ all \in Seq(Items) /\ Len(all) = count + 1
        /\ \A i \in 1 .. count + 1 : all[i] = IF i <= count THEN C[i] ELSE item
    BY <1>4, ConcatProperties
  <1>6. all \in [1 .. count + 1 -> Items]
    BY <1>5, LenProperties
  <1> HIDE DEF all
  <1>7. \A i \in 1 .. (count + 1) - 1 : D[i] = all[1 + i]
    <2> SUFFICES ASSUME NEW i \in 1 .. count PROVE D[i] = all[1 + i]
      OBVIOUS
    <2>1. CASE i = count
      BY <2>1, <1>3, <1>5
    <2>2. CASE i # count
      BY <2>2, <1>3, <1>5
    <2> QED BY <2>1, <2>2
  <1>8. D = SubSeq(all, 2, count + 1)
    <2>1. D \in [1 .. (count + 1) - 1 -> Items]
      BY <1>2
    <2>2. count + 1 \in Nat /\ 1 \in 0 .. count + 1 /\ count + 1 \in 1 .. count + 1
      OBVIOUS
    <2>3. D = SubSeq(all, 1 + 1, count + 1)
      BY <1>6, <1>7, <2>1, <2>2, SuffixByElements
    <2> QED BY <2>3
  <1>9. Fifo!Least(Len(<<item>>), Size) = 1 /\ Fifo!Least(Len(all), Size) = count
    BY <1>5, OneString, SizeAssumption DEF Fifo!Least
  <1>10. Fifo!Last(all, Fifo!Least(Len(all), Size)) = D
    BY <1>5, <1>8, <1>9 DEF Fifo!Last
  <1>11. all = C \o SubSeq(<<item>>, 1, Fifo!Least(Len(<<item>>), Size))
    BY <1>9, OneString DEF all
  <1> QED BY <1>1, <1>10, <1>11 DEF Fifo!PutForce, C, D

\* QUEUE_POP returns the oldest string.
LEMMA PopMaps ==
    ASSUME count \in Nat, count > 0,
           NEW f \in [1 .. count -> Addrs], Follows(f), Filled(f),
           NEW g \in [1 .. count' -> Addrs], Follows(g)', Filled(g)',
           count' = count - 1, data' = data, out' = <<data[front]>>,
           \A i \in 1 .. count' : g[i] = f[i + 1]
    PROVE  Fifo!Get(1)
  <1>1. Chain = f /\ Chain' = g
    BY ChainFollows, ChainFollowsNext
  <1> DEFINE C == [i \in 1 .. count |-> data[f[i]]]
             D == [i \in 1 .. count' |-> data'[g[i]]]
  <1>2. C \in [1 .. count -> Items] /\ D \in [1 .. count - 1 -> Items]
    BY DEF Filled
  <1>3. \A i \in 1 .. count - 1 : D[i] = C[1 + i]
    OBVIOUS
  <1>4. C[1] = data[front] /\ data[front] \in Items
    BY DEF Follows, Filled
  <1> HIDE DEF C, D
  <1>5. Len(C) = count
    BY <1>2, FunctionIsSeq
  <1>6. D = SubSeq(C, 1 + 1, count)
    <2>1. 1 \in 0 .. count /\ count \in 1 .. count
      OBVIOUS
    <2> QED BY <1>2, <1>3, <2>1, SuffixByElements
  <1>7. <<data[front]>> = SubSeq(C, 1, 1)
    <2>1. 0 \in 0 .. count /\ 1 \in 0 .. count /\ 1 - 0 = 1
      OBVIOUS
    <2>2. <<data[front]>> \in [1 .. 1 - 0 -> Items]
      BY <1>4, OneString
    <2>3. \A i \in 1 .. 1 - 0 : <<data[front]>>[i] = C[0 + i]
      BY <1>4, OneString
    <2>4. <<data[front]>> = SubSeq(C, 0 + 1, 1)
      BY <1>2, <2>1, <2>2, <2>3, SuffixByElements
    <2> QED BY <2>4
  <1>8. Fifo!Least(1, Len(C)) = 1
    BY <1>5 DEF Fifo!Least
  <1> QED BY <1>1, <1>5, <1>6, <1>7, <1>8 DEF Fifo!Get, C, D

\* Every step of the queue is a step of the abstract one or leaves it as it is.
LEMMA StepMaps ==
    ASSUME QueueInv, [Next]_vars
    PROVE  [Fifo!Next]_(Fifo!vars)
  <1>0. count \in Nat
    BY DEF QueueInv, TypeOK
  <1>f. PICK f \in [1 .. count -> Addrs] : Follows(f) /\ Filled(f)
    BY DEF QueueInv
  <1>u. ASSUME UNCHANGED <<queue, out>> PROVE UNCHANGED Fifo!vars
    <2>1. Chain' = Chain
      BY <1>u DEF Chain, queue
    <2> QED BY <1>u, <2>1 DEF Fifo!vars, queue
  <1>1. ASSUME NEW p \in Producers, NEW item \in Items, QUEUE_PUSH(p, item)
        PROVE  [Fifo!Next]_(Fifo!vars)
    <2>0. <<item>> \in Fifo!Blocks
      BY OneString
    <2>1. CASE PushFirst(p, item)
      <3>1. QueueInv' /\ count = 0
        BY <2>1, PushFirstInv
      <3>2. PICK g \in [1 .. count' -> Addrs] : Follows(g)' /\ Filled(g)'
        BY <3>1 DEF QueueInv
      <3>3. count' = 1 /\ count' = count + 1 /\ out' = out /\ count < Size
        BY <2>1, <3>1, SizeAssumption DEF PushFirst, Pushed
      <3>4. data'[g[count']] = item
        <4>1. g[1] = node
          BY <2>1, <3>2, <3>3 DEF Follows, PushFirst
        <4>2. data'[node] = item
          BY <2>1, AddrsAssumption DEF PushFirst, QueueInv, TypeOK
        <4> QED BY <4>1, <4>2, <3>3
      <3>5. \A i \in 1 .. count : data'[g[i]] = data[f[i]]
        BY <3>1
      <3>6. Fifo!Put(<<item>>)
        BY <1>0, <1>f, <3>2, <3>3, <3>4, <3>5, PushMaps
      <3> QED BY <2>0, <3>6 DEF Fifo!Next
    <2>2. CASE PushMore(p, item)
      <3>1. PICK g \in [1 .. count' -> Addrs] :
                 /\ Follows(g)' /\ Filled(g)'
                 /\ \A i \in 1 .. count : g[i] = f[i] /\ data'[g[i]] = data[f[i]]
                 /\ data'[g[count']] = item
        BY <1>f, <2>2, PushMoreInv
      <3>2. count' = count + 1 /\ count < Size /\ out' = out
        BY <2>2 DEF PushMore, Pushed
      <3>3. Fifo!Put(<<item>>)
        BY <1>0, <1>f, <3>1, <3>2, PushMaps
      <3> QED BY <2>0, <3>3 DEF Fifo!Next
    <2>3. CASE PushFull(p, item)
      <3>1. PICK g \in [1 .. count' -> Addrs] :
                 /\ Follows(g)' /\ Filled(g)'
                 /\ \A i \in 1 .. count - 1 : data'[g[i]] = data[f[i + 1]]
                 /\ data'[g[count']] = item
        BY <1>f, <2>3, PushFullInv
      <3>2. count' = count /\ count = Size /\ count > 1 /\ out' = out
        BY <2>3, PushFullInv DEF PushFull, CountFull, Pushed
      <3>3. Shifted(f, g, item)
        BY <1>f, <3>1, <3>2 DEF Shifted
      <3>4. Fifo!PutForce(<<item>>)
        BY <1>0, <3>3, PushFullMaps
      <3> QED BY <2>0, <3>4 DEF Fifo!Next
    <2>4. CASE PushUndefined
      BY <2>4, <1>u DEF PushUndefined, Undefined
    <2> QED BY <1>1, <2>1, <2>2, <2>3, <2>4 DEF QUEUE_PUSH
  <1>2. ASSUME NEW c \in Consumers, PopFront(c)
        PROVE  [Fifo!Next]_(Fifo!vars)
    <2>1. PICK g \in [1 .. count' -> Addrs] :
               Follows(g)' /\ Filled(g)' /\ \A i \in 1 .. count' : g[i] = f[i + 1]
      BY <1>f, <1>2, PopFrontInv
    <2>2. count > 0 /\ count' = count - 1 /\ data' = data /\ out' = <<data[front]>>
      BY <1>2 DEF PopFront
    <2>3. Fifo!Get(1)
      BY <1>0, <1>f, <2>1, <2>2, PopMaps
    <2> QED BY <2>3 DEF Fifo!Next
  <1>3. ASSUME NEW c \in Consumers, PopWait(c) \/ SpuriousWakeup(c)
        PROVE  [Fifo!Next]_(Fifo!vars)
    BY <1>3, <1>u DEF PopWait, SpuriousWakeup
  <1>4. ASSUME NEW p \in Producers, PushSignal(p)
        PROVE  [Fifo!Next]_(Fifo!vars)
    BY <1>4, <1>u DEF PushSignal
  <1>5. CASE UNCHANGED vars
    BY <1>5, <1>u DEF vars
  <1> QED BY <1>1, <1>2, <1>3, <1>4, <1>5 DEF Next, QUEUE_POP

\* The linked list with its count implements a bounded queue of strings, for every
\* size and every interleaving of the threads: strings come out in the order they
\* went in, and a full queue loses its oldest string to a push.
THEOREM ImplementsQueue == Spec => ImplementsFifo
  <1>1. Init => Fifo!Init
    <2> SUFFICES ASSUME Init PROVE Fifo!Init
      OBVIOUS
    <2>1. count = 0 /\ out = <<>>
      BY DEF Init
    <2>2. [i \in 1 .. count |-> data[Chain[i]]] \in [1 .. 0 -> Items]
      BY <2>1
    <2>3. [i \in 1 .. count |-> data[Chain[i]]] = <<>>
      BY <2>2, FunctionIsSeq, EmptySeq
    <2> QED BY <2>1, <2>3 DEF Fifo!Init
  <1>2. QueueInv /\ [Next]_vars => [Fifo!Next]_(Fifo!vars)
    BY StepMaps
  <1> QED BY <1>1, <1>2, QueueInvariant, PTL DEF Spec, ImplementsFifo, Fifo!Spec

-------------------------------------------------------------------------------
(* The ring buffer among the containers.                                     *)

\* The theorems about RingBuffer, and RingBuffer itself once more.
R == INSTANCE RingBufferProofs WITH
    read_mirror <- rgReadMirror, read_index <- rgReadIndex, write_mirror <- rgWriteMirror,
    write_index <- rgWriteIndex, buffer_ptr <- rgPool, out <- rgOut, overtaken <- rgOvertaken

\* A call of the one is a call of the other.
LEMMA SameRing ==
  /\ Ring!Init => R!Init
  /\ Ring!Next => R!Next
  /\ R!MirrorsAgree => Ring!MirrorsAgree
  <1>1. Ring!Init => R!Init
    BY DEF Ring!Init, R!Init, Ring!Cells, R!Cells, Ring!buffer_size, R!buffer_size
  <1>2. Ring!Next => R!Next
    BY DEF Ring!Next, R!Next, Ring!Blocks, R!Blocks, Ring!Cells, R!Cells, Ring!buffer_size,
           R!buffer_size, Ring!ring_buffer_put, R!ring_buffer_put, Ring!ring_buffer_put_force,
           R!ring_buffer_put_force, Ring!ring_buffer_get, R!ring_buffer_get,
           Ring!ring_buffer_putchar, R!ring_buffer_putchar, Ring!ring_buffer_putchar_force,
           R!ring_buffer_putchar_force, Ring!ring_buffer_getchar, R!ring_buffer_getchar,
           Ring!ring_buffer_status, R!ring_buffer_status, Ring!ring_buffer_data_len,
           R!ring_buffer_data_len, Ring!ring_buffer_space_len, R!ring_buffer_space_len,
           Ring!Flip, R!Flip, Ring!Shorter, R!Shorter, Ring!Stored, R!Stored, Ring!Copied,
           R!Copied, Ring!FitsBelowEnd, R!FitsBelowEnd, Ring!AdvanceWrite, R!AdvanceWrite,
           Ring!AdvanceRead, R!AdvanceRead, Ring!FollowWriter, R!FollowWriter, Ring!Overtakes,
           R!Overtakes, Ring!BumpWrite, R!BumpWrite
  <1>3. R!MirrorsAgree => Ring!MirrorsAgree
    BY DEF Ring!MirrorsAgree, R!MirrorsAgree, Ring!TypeOK, R!TypeOK, Ring!InOrder, R!InOrder,
           Ring!Cells, R!Cells, Ring!buffer_size, R!buffer_size
  <1> QED BY <1>1, <1>2, <1>3

\* Both read the same bytes, from a pool of the same size.
LEMMA SameBytes ==
  /\ Ring!buffer_size = R!buffer_size
  /\ Ring!Contents = R!Contents
  /\ Ring!Contents' = R!Contents'
  <1>1. Ring!buffer_size = R!buffer_size
    BY DEF Ring!buffer_size, R!buffer_size
  <1>2. Ring!Contents = R!Contents /\ Ring!Contents' = R!Contents'
    BY DEF Ring!Contents, R!Contents, Ring!Copied, R!Copied, Ring!ring_buffer_data_len,
           R!ring_buffer_data_len, Ring!ring_buffer_status, R!ring_buffer_status,
           Ring!buffer_size, R!buffer_size
  <1> QED BY <1>1, <1>2

\* A run of the containers is one of the ring buffer, which only its own steps change.
LEMMA RunOfRing == ContainersSpec => R!Spec
  <1>1. ContainersInit => R!Init
    BY SameRing DEF ContainersInit
  <1>2. [ContainersNext]_<<container, vars, rg, dc>> => [R!Next]_(R!vars)
    BY SameRing DEF ContainersNext, rg, dc, R!vars
  <1> QED BY <1>1, <1>2, PTL DEF ContainersSpec, R!Spec

\* Whatever blocks and bytes are put and taken, both indices of ringbuffer.c stay
\* inside the pool, and until a forced block runs past the reader the mirror bits
\* count the laps of reader and writer.
THEOREM MirrorsStayRight == ContainersSpec => []MirrorsAgree
  <1>1. R!Spec => []R!MirrorsAgree
    BY R!MirrorsCountLaps, PoolAssumption, ByteAssumption, BlockAssumption
  <1>2. R!MirrorsAgree => MirrorsAgree
    BY SameRing DEF MirrorsAgree
  <1> QED BY <1>1, <1>2, RunOfRing, PTL

\* Until a forced block runs past the reader every call of ringbuffer.c does what
\* it does to a bounded FIFO of bytes.
THEOREM RingIsByteFifo == ContainersSpec => ImplementsByteFifo
  <1>1. R!Spec => R!ImplementsByteFifo
    BY R!RingImplementsFifo, PoolAssumption, ByteAssumption, BlockAssumption
  <1>2. R!Fifo!Init => Ring!Fifo!Init
    BY SameBytes DEF R!Fifo!Init, Ring!Fifo!Init
  <1>3. [rgOvertaken' \/ R!Fifo!Next]_(R!Fifo!vars) =>
           [container = "ring" => rgOvertaken' \/ Ring!Fifo!Next]_(Ring!Fifo!vars)
    BY SameBytes
    DEF R!Fifo!vars, Ring!Fifo!vars,
        R!Fifo!Next, Ring!Fifo!Next, R!Fifo!Put, Ring!Fifo!Put, R!Fifo!PutForce,
        Ring!Fifo!PutForce, R!Fifo!Get, Ring!Fifo!Get, R!Fifo!Blocks, Ring!Fifo!Blocks,
        R!Fifo!Least, Ring!Fifo!Least, R!Fifo!Last, Ring!Fifo!Last
  <1> QED BY <1>1, <1>2, <1>3, RunOfRing, PTL DEF ImplementsByteFifo, R!ImplementsByteFifo

-------------------------------------------------------------------------------
(* The dictionary among the containers.                                      *)

\* The theorems about Dictionary, and Dictionary itself once more.
D == INSTANCE DictionaryProofs WITH
    n <- dcN, size <- dcSize, key <- dcKey, val <- dcVal, hash <- dcHash, uncopied <- dcUncopied

\* The set of used slots has one cardinality.
LEMMA SameCardinality == ASSUME NEW S PROVE D!Cardinality(S) = Dict!Cardinality(S)
  BY DEF D!Cardinality, Dict!Cardinality

\* A call of the one is a call of the other.
LEMMA SameDict ==
  /\ Dict!Init => D!Init
  /\ Dict!Next => D!Next
  <1>1. Dict!Init => D!Init
    BY DEF Dict!Init, D!Init, Dict!Slots, D!Slots
  <1>2. Dict!Next => D!Next
    BY DEF Dict!Next, D!Next, Dict!dictionary_set, D!dictionary_set, Dict!dictionary_unset,
           D!dictionary_unset, Dict!dictionary_get, D!dictionary_get, Dict!vars, D!vars,
           Dict!Slots, D!Slots, Dict!xstrdup, D!xstrdup, Dict!Matches, D!Matches, Dict!First,
           D!First, Dict!Found, D!Found, Dict!Replace, D!Replace, Dict!Grown, D!Grown,
           Dict!FirstEmpty, D!FirstEmpty, Dict!CountUp, D!CountUp, Dict!Store, D!Store,
           Dict!Add, D!Add, Dict!AddGrown, D!AddGrown, Dict!AddFailed, D!AddFailed
  <1> QED BY <1>1, <1>2

\* dictionary_get answers the same.
LEMMA SameAnswers ==
  ASSUME NEW k \in Keys
  PROVE  /\ Dict!dictionary_get(k) = D!dictionary_get(k)
         /\ Dict!dictionary_get(k)' = D!dictionary_get(k)'
  BY DEF Dict!dictionary_get, D!dictionary_get, Dict!Found, D!Found, Dict!First, D!First,
         Dict!Matches, D!Matches, Dict!Slots, D!Slots

\* A run of the containers is one of the dictionary, which only its own steps change.
LEMMA RunOfDict == ContainersSpec => D!Spec
  <1>1. ContainersInit => D!Init
    BY SameDict DEF ContainersInit
  <1>2. [ContainersNext]_<<container, vars, rg, dc>> => [D!Next]_(D!vars)
    BY SameDict DEF ContainersNext, rg, dc, D!vars
  <1> QED BY <1>1, <1>2, PTL DEF ContainersSpec, D!Spec

\* What DictionaryProofs shows to hold in every state.
LEMMA DictHolds == ContainersSpec => [](D!DictInv /\ D!InsertTerminates)
  <1>1. D!Spec => []D!DictInv
    BY D!DictInvariant, KeysAssumption, ValsAssumption, HashAssumption, TableAssumption
  <1>2. D!Spec => []D!InsertTerminates
    BY D!InsertEnds, KeysAssumption, ValsAssumption, HashAssumption, TableAssumption
  <1> QED BY <1>1, <1>2, RunOfDict, PTL

\* d->n is the number of keys stored and of keys that could not be copied,
\* whatever was set, removed and grown.
THEOREM CountStaysExact == ContainersSpec => []CountExact
  <1>1. D!DictInv => CountExact
    <2>1. D!TypeOK => Dict!TypeOK
      BY DEF D!TypeOK, Dict!TypeOK, D!Slots, Dict!Slots
    <2>2. D!CountExact => Dict!CountExact
      BY SameCardinality
      DEF D!CountExact, Dict!CountExact, D!Used, Dict!Used, D!Slots, Dict!Slots
    <2> QED BY <2>1, <2>2 DEF CountExact, D!DictInv
  <1> QED BY <1>1, DictHolds, PTL

\* The search of dictionary_set for an empty slot ends, even when n counts keys
\* that are not there.
THEOREM InsertAlwaysEnds == ContainersSpec => []InsertTerminates
  <1>1. D!InsertTerminates => InsertTerminates
    BY DEF InsertTerminates, Dict!InsertTerminates, D!InsertTerminates, Dict!Slots, D!Slots
  <1> QED BY <1>1, DictHolds, PTL

\* dictionary_set never stores a key a second time.
THEOREM KeysStayUnique == ContainersSpec => []KeysUnique
  <1>1. D!DictInv => KeysUnique
    BY DEF KeysUnique, Dict!KeysUnique, D!KeysUnique, Dict!Slots, D!Slots, D!DictInv
  <1> QED BY <1>1, DictHolds, PTL

\* Setting or removing a key in dictionary.c never changes the answer for another
\* key, for every hash function and also when memory runs out.
THEOREM DictIsKeyMap == ContainersSpec => ImplementsKeyMap
  <1>1. D!Spec => D!ImplementsKeyMap
    BY D!ImplementsMap, KeysAssumption, ValsAssumption, HashAssumption, TableAssumption
  <1> DEFINE answers == [k \in Keys |-> Dict!dictionary_get(k)]
             known == [k \in Keys |-> D!dictionary_get(k)]
  <1>2. answers = known /\ answers' = known'
    BY SameAnswers
  <1>3. D!Contents!Init => Dict!Contents!Init
    BY <1>2 DEF D!Contents!Init, Dict!Contents!Init
  <1>4. [D!Contents!Next]_known => [container = "dictionary" => Dict!Contents!Next]_answers
    BY <1>2 DEF D!Contents!Next, Dict!Contents!Next, D!Contents!Set, Dict!Contents!Set,
               D!Contents!Unset, Dict!Contents!Unset
  <1> HIDE DEF answers, known
  <1> QED
    BY <1>1, <1>3, <1>4, RunOfDict, PTL
    DEF answers, known, ImplementsKeyMap, D!ImplementsKeyMap, D!Contents!Spec
===============================================================================
