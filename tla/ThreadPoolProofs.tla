--------------------------- MODULE ThreadPoolProofs ---------------------------
(***************************************************************************)
(* Theorems about ThreadPool, for every number of workers, every queue     *)
(* size and every set of producers and tasks.                              *)
(***************************************************************************)
EXTENDS ThreadPool, FiniteSetTheorems, TLAPS

-------------------------------------------------------------------------------
(* Arithmetic of the circular queue and of the thread counts.                *)

\* The slot i places after s: the index wraps once at the end of the array.
LEMMA SlotAfter ==
    ASSUME NEW s \in Slots, NEW i \in 0..MaxTaskQueueSize
    PROVE  /\ (s + i) % MaxTaskQueueSize \in Slots
           /\ (s + i) % MaxTaskQueueSize =
                 IF s + i >= MaxTaskQueueSize THEN s + i - MaxTaskQueueSize ELSE s + i
  BY QueueAssumption, Z3 DEF Slots

\* NextSlot stays inside the array and wraps at its end.
LEMMA NextSlotValue ==
    ASSUME NEW s \in Slots
    PROVE  /\ NextSlot(s) \in Slots
           /\ NextSlot(s) = IF s + 1 = MaxTaskQueueSize THEN 0 ELSE s + 1
  BY QueueAssumption, Z3 DEF Slots, NextSlot

\* A set of workers is finite and no larger than max_thread_num.
LEMMA WorkerSets ==
    ASSUME NEW S \in SUBSET Workers
    PROVE  /\ IsFiniteSet(S)
           /\ Cardinality(S) \in Nat
           /\ Cardinality(S) <= MaxThreadNum
           /\ MaxThreadNum \in Nat
           /\ Cardinality(S) = MaxThreadNum => S = Workers
  BY WorkersAssumption, FS_Subset, FS_CardinalityType DEF MaxThreadNum

\* max_thread_num is a natural number.
LEMMA MaxIsNat == MaxThreadNum \in Nat
  BY WorkersAssumption, FS_CardinalityType DEF MaxThreadNum

\* A worker that joins a set of workers makes it larger by one.
LEMMA WorkerAdded ==
    ASSUME NEW S \in SUBSET Workers, NEW w \in Workers, w \notin S
    PROVE  Cardinality(S \cup {w}) = Cardinality(S) + 1
  BY WorkerSets, FS_AddElement

\* A worker that leaves a set of workers makes it smaller by one.
LEMMA WorkerRemoved ==
    ASSUME NEW S \in SUBSET Workers, NEW w \in S
    PROVE  Cardinality(S \ {w}) = Cardinality(S) - 1
  BY WorkerSets, FS_RemoveElement

-------------------------------------------------------------------------------
(* Type correctness.                                                         *)

\* The states threadpoll_create leaves before its first pthread_create satisfy
\* the inductive invariant.
LEMMA TypeInit == Init => TypeInv
  <1> SUFFICES ASSUME Init PROVE TypeInv
    OBVIOUS
  <1>1. Counted = {} /\ Busy = {}
    BY DEF Init, Counted, Busy
  <1>2. MaxThreadNum \in Nat
    BY WorkerSets
  <1>3. TypeOK /\ ArgsPresent
    BY <1>2, QueueAssumption DEF Init, TypeOK, ArgsPresent, Slots
  <1>4. LiveCovers /\ BusyExact
    BY <1>1, FS_EmptySet DEF Init, LiveCovers, BusyExact
  <1> QED BY <1>3, <1>4 DEF TypeInv

\* Waking workers neither makes one busy or idle nor makes one leave.
LEMMA WakeKeepsCounts ==
    ASSUME TypeOK, NEW S \in SUBSET Waiting(wpc), wpc' = Wake(wpc, S)
    PROVE  /\ wpc' \in [Workers -> {"none", "ready", "wait", "woken", "got",
                                    "running", "exiting"}]
           /\ Counted' = Counted
           /\ Busy' = Busy
  <1>1. DOMAIN wpc = Workers
    BY DEF TypeOK
  <1>2. wpc' = [w \in Workers |-> IF w \in S THEN "woken" ELSE wpc[w]]
    BY <1>1 DEF Wake
  <1>3. wpc' \in [Workers -> {"none", "ready", "wait", "woken", "got", "running",
                              "exiting"}]
    BY <1>2 DEF TypeOK
  <1>4. \A w \in S : wpc[w] = "wait"
    BY DEF Waiting
  <1>5. \A w \in Workers : wpc'[w] = IF w \in S THEN "woken" ELSE wpc[w]
    BY <1>2
  <1>6. Counted' = Counted
    BY <1>4, <1>5 DEF Counted
  <1>7. Busy' = Busy
    BY <1>4, <1>5 DEF Busy
  <1> QED BY <1>3, <1>6, <1>7

\* A step that moves one worker between two places that are counted alike.
LEMMA MoveKeepsCounts ==
    ASSUME TypeOK, NEW w \in Workers,
           NEW pc \in {"ready", "wait", "woken", "got", "running", "exiting", "none"},
           wpc' = [wpc EXCEPT ![w] = pc]
    PROVE  /\ wpc' \in [Workers -> {"none", "ready", "wait", "woken", "got",
                                    "running", "exiting"}]
           /\ w \in Counted /\ pc \notin {"none", "exiting"} => Counted' = Counted
           /\ w \notin Counted /\ pc \in {"none", "exiting"} => Counted' = Counted
           /\ pc \in {"none", "exiting"} => Counted' = Counted \ {w}
           /\ w \in Busy /\ pc \in {"got", "running"} => Busy' = Busy
           /\ w \notin Busy /\ pc \notin {"got", "running"} => Busy' = Busy
           /\ pc \in {"got", "running"} => Busy' = Busy \cup {w}
           /\ pc \notin {"got", "running"} => Busy' = Busy \ {w}
  <1>1. \A x \in Workers : wpc'[x] = IF x = w THEN pc ELSE wpc[x]
    BY DEF TypeOK
  <1>2. wpc' \in [Workers -> {"none", "ready", "wait", "woken", "got", "running",
                              "exiting"}]
    BY DEF TypeOK
  <1>3. /\ w \in Counted /\ pc \notin {"none", "exiting"} => Counted' = Counted
        /\ w \notin Counted /\ pc \in {"none", "exiting"} => Counted' = Counted
        /\ pc \in {"none", "exiting"} => Counted' = Counted \ {w}
    BY <1>1 DEF Counted
  <1>4. /\ w \in Busy /\ pc \in {"got", "running"} => Busy' = Busy
        /\ w \notin Busy /\ pc \notin {"got", "running"} => Busy' = Busy
        /\ pc \in {"got", "running"} => Busy' = Busy \cup {w}
        /\ pc \notin {"got", "running"} => Busy' = Busy \ {w}
    BY <1>1 DEF Busy
  <1> QED BY <1>2, <1>3, <1>4

\* Waking producers leaves every one of them inside threadpoll_add_task.
LEMMA WakeKeepsProducers ==
    ASSUME TypeInv, NEW S \in SUBSET Waiting(ppc), ppc' = Wake(ppc, S), arg' = arg
    PROVE  /\ ppc' \in [Producers -> {"idle", "wait", "woken"}]
           /\ ArgsPresent'
  <1>1. DOMAIN ppc = Producers
    BY DEF TypeInv, TypeOK
  <1>2. ppc' = [p \in Producers |-> IF p \in S THEN "woken" ELSE ppc[p]]
    BY <1>1 DEF Wake
  <1>3. \A p \in S : ppc[p] = "wait"
    BY DEF Waiting
  <1>4. \A p \in Producers : ppc'[p] = IF p \in S THEN "woken" ELSE ppc[p]
    BY <1>2
  <1>5. ArgsPresent'
    BY <1>3, <1>4 DEF TypeInv, ArgsPresent
  <1> QED BY <1>2, <1>5 DEF TypeInv, TypeOK

\* A worker at the test of its waiting loop is counted and not busy.
LEMMA LoopTest ==
    ASSUME TypeInv, NEW w \in Workers, AtLoopTest(w)
    PROVE  /\ wpc[w] \in {"ready", "woken"}
           /\ wait_exit_thread_num' \in 0..MaxThreadNum
           /\ w \in Counted /\ w \notin Busy
  <1>1. MaxThreadNum \in Nat
    BY WorkerSets
  <1>2. wait_exit_thread_num' \in 0..MaxThreadNum
    BY <1>1 DEF TypeInv, TypeOK, AtLoopTest
  <1>3. wpc[w] \in {"ready", "woken"}
    BY DEF AtLoopTest
  <1> QED BY <1>2, <1>3 DEF Counted, Busy

\* A counted worker that leaves keeps the counts right.
LEMMA LeaveCounts ==
    ASSUME TypeInv, NEW w \in Workers, w \in Counted, w \notin Busy, Leave(w)
    PROVE  /\ live_thread_num' \in 0..MaxThreadNum
           /\ busy_thread_num' \in 0..MaxThreadNum
           /\ wpc' \in [Workers -> {"none", "ready", "wait", "woken", "got",
                                    "running", "exiting"}]
           /\ mpc' \in {"none", "top", "timedwait", "recheck", "stopping",
                        "waitEmpty", "wokenEmpty", "wokenEarly", "exited", "exitedEarly"}
           /\ Counted' = Counted \ {w}
           /\ Cardinality(Counted') = Cardinality(Counted) - 1
           /\ LiveCovers' /\ BusyExact'
  <1>1. Counted' = Counted \ {w} /\ Busy' = Busy
        /\ wpc' \in [Workers -> {"none", "ready", "wait", "woken", "got",
                                 "running", "exiting"}]
    BY MoveKeepsCounts DEF TypeInv, Leave
  <1>2. Cardinality(Counted \ {w}) = Cardinality(Counted) - 1
    BY WorkerRemoved DEF Counted
  <1>3. Cardinality(Counted \ {w}) \in Nat
    BY WorkerSets DEF Counted
  <1>4. Cardinality(Counted) \in Nat /\ MaxThreadNum \in Nat
    BY WorkerSets DEF Counted
  <1>5. live_thread_num' \in 0..MaxThreadNum /\ LiveCovers'
    BY <1>1, <1>2, <1>3, <1>4 DEF TypeInv, TypeOK, Leave, LiveCovers, Left
  <1>6. BusyExact'
    BY <1>1 DEF TypeInv, BusyExact, Leave
  <1> QED BY <1>1, <1>2, <1>5, <1>6 DEF TypeInv, TypeOK, Leave

\* A step that changes no worker's place and no count keeps the counts right.
LEMMA SameCounts ==
    ASSUME TypeInv, Counted' = Counted, Busy' = Busy, UNCHANGED counters
    PROVE  LiveCovers' /\ BusyExact'
  BY DEF TypeInv, LiveCovers, BusyExact, counters

\* Every step of a worker preserves the inductive invariant.
LEMMA TypeWorker ==
    ASSUME TypeInv, NEW w \in Workers, WorkerNext(w) \/ WorkerSpurious(w)
    PROVE  TypeInv'
  <1>1. CASE WorkerWait(w)
    <2>1. w \in Counted /\ w \notin Busy /\ wait_exit_thread_num' \in 0..MaxThreadNum
      BY <1>1, LoopTest DEF WorkerWait
    <2>2. /\ wpc' \in [Workers -> {"none", "ready", "wait", "woken", "got",
                                   "running", "exiting"}]
          /\ Counted' = Counted /\ Busy' = Busy
      BY <1>1, <2>1, MoveKeepsCounts DEF TypeInv, WorkerWait
    <2>3. LiveCovers' /\ BusyExact'
      BY <1>1, <2>2, SameCounts DEF WorkerWait
    <2>4. TypeOK' /\ ArgsPresent'
      BY <1>1, <2>1, <2>2 DEF TypeInv, TypeOK, ArgsPresent, WorkerWait, counters, queue,
         producers, taking, Slots
    <2> QED BY <2>3, <2>4 DEF TypeInv
  <1>2. CASE WorkerShrink(w)
    <2>1. w \in Counted /\ w \notin Busy
      BY <1>2 DEF WorkerShrink, Counted, Busy
    <2>2. wait_exit_thread_num' \in 0..MaxThreadNum
      BY <1>2, MaxIsNat DEF WorkerShrink, MustExit, TypeInv, TypeOK
    <2>3. LiveCovers' /\ BusyExact'
      BY <1>2, <2>1, LeaveCounts DEF WorkerShrink
    <2>4. TypeOK' /\ ArgsPresent'
      BY <1>2, <2>1, <2>2, LeaveCounts DEF TypeInv, TypeOK, ArgsPresent, WorkerShrink,
         queue, producers, taking, Slots
    <2> QED BY <2>3, <2>4 DEF TypeInv
  <1>3. CASE WorkerDisabled(w)
    <2>1. w \in Counted /\ w \notin Busy /\ wait_exit_thread_num' \in 0..MaxThreadNum
      BY <1>3, LoopTest DEF WorkerDisabled
    <2>2. LiveCovers' /\ BusyExact'
      BY <1>3, <2>1, LeaveCounts DEF WorkerDisabled
    <2>3. TypeOK' /\ ArgsPresent'
      BY <1>3, <2>1, LeaveCounts DEF TypeInv, TypeOK, ArgsPresent, WorkerDisabled,
         queue, producers, taking, Slots
    <2> QED BY <2>2, <2>3 DEF TypeInv
  <1>4. CASE WorkerTake(w)
    <2>1. w \in Counted /\ w \notin Busy /\ wait_exit_thread_num' \in 0..MaxThreadNum
      BY <1>4, LoopTest DEF WorkerTake
    <2>2. /\ wpc' \in [Workers -> {"none", "ready", "wait", "woken", "got",
                                   "running", "exiting"}]
          /\ Counted' = Counted /\ Busy' = Busy \cup {w}
      BY <1>4, <2>1, MoveKeepsCounts DEF TypeInv, WorkerTake
    <2>3. Cardinality(Busy') = Cardinality(Busy) + 1
      BY <2>1, <2>2, WorkerAdded DEF Busy
    <2>4. Cardinality(Busy') \in 0..MaxThreadNum
      <3>1. Busy' \in SUBSET Workers
        BY DEF Busy
      <3> QED BY <3>1, WorkerSets
    <2>5. LiveCovers' /\ BusyExact' /\ busy_thread_num' \in 0..MaxThreadNum
      BY <1>4, <2>2, <2>3, <2>4 DEF TypeInv, LiveCovers, BusyExact, WorkerTake
    <2>6. ppc' \in [Producers -> {"idle", "wait", "woken"}] /\ ArgsPresent'
      BY <1>4, WakeKeepsProducers DEF WorkerTake, NotFullSignalled, Signalled
    <2>7. /\ task_queue_front' \in Slots
          /\ task_queue_size' \in 0..MaxTaskQueueSize
          /\ ntaken' \in Nat
      BY <1>4, NextSlotValue, QueueAssumption DEF TypeInv, TypeOK, WorkerTake
    <2>8. slot' \in [Workers -> Slots] /\ given' \in [Workers -> Tasks \cup {NoTask}]
      BY <1>4, <2>7 DEF TypeInv, TypeOK, WorkerTake
    <2>9. TypeOK'
      BY <1>4, <2>1, <2>2, <2>5, <2>6, <2>7, <2>8 DEF TypeInv, TypeOK, WorkerTake, Slots
    <2> QED BY <2>5, <2>6, <2>9 DEF TypeInv
  <1>5. CASE WorkerRun(w)
    <2>1. w \in Counted /\ w \in Busy
      BY <1>5 DEF WorkerRun, Counted, Busy
    <2>2. /\ wpc' \in [Workers -> {"none", "ready", "wait", "woken", "got",
                                   "running", "exiting"}]
          /\ Counted' = Counted /\ Busy' = Busy
      BY <1>5, <2>1, MoveKeepsCounts DEF TypeInv, WorkerRun
    <2>3. LiveCovers' /\ BusyExact'
      BY <1>5, <2>2, SameCounts DEF WorkerRun
    <2>4. TypeOK' /\ ArgsPresent'
      BY <1>5, <2>2 DEF TypeInv, TypeOK, ArgsPresent, WorkerRun, counters, queue,
         producers, taking, Slots
    <2> QED BY <2>3, <2>4 DEF TypeInv
  <1>6. CASE WorkerDone(w)
    <2>1. w \in Counted /\ w \in Busy
      BY <1>6 DEF WorkerDone, Counted, Busy
    <2>2. /\ wpc' \in [Workers -> {"none", "ready", "wait", "woken", "got",
                                   "running", "exiting"}]
          /\ Counted' = Counted /\ Busy' = Busy \ {w}
      BY <1>6, <2>1, MoveKeepsCounts DEF TypeInv, WorkerDone, TaskReturned
    <2>3. Cardinality(Busy') = Cardinality(Busy) - 1
      BY <2>1, <2>2, WorkerRemoved DEF Busy
    <2>4. Cardinality(Busy') \in 0..MaxThreadNum
      <3>1. Busy' \in SUBSET Workers
        BY DEF Busy
      <3> QED BY <3>1, WorkerSets
    <2>5. LiveCovers' /\ BusyExact' /\ busy_thread_num' \in 0..MaxThreadNum
      BY <1>6, <2>2, <2>3, <2>4 DEF TypeInv, LiveCovers, BusyExact, WorkerDone, Finished
    <2>6. slot' \in [Workers -> Slots]
      BY <1>6, QueueAssumption DEF TypeInv, TypeOK, WorkerDone, TaskReturned, Slots
    <2>7. TypeOK' /\ ArgsPresent'
      BY <1>6, <2>2, <2>5, <2>6 DEF TypeInv, TypeOK, ArgsPresent, WorkerDone,
         TaskReturned, queue, producers, Slots
    <2> QED BY <2>5, <2>7 DEF TypeInv
  <1>7. CASE WorkerGone(w)
    <2>1. w \notin Counted /\ w \notin Busy
      BY <1>7 DEF WorkerGone, Counted, Busy
    <2>2. /\ wpc' \in [Workers -> {"none", "ready", "wait", "woken", "got",
                                   "running", "exiting"}]
          /\ Counted' = Counted /\ Busy' = Busy
      BY <1>7, <2>1, MoveKeepsCounts DEF TypeInv, WorkerGone
    <2>3. LiveCovers' /\ BusyExact'
      BY <1>7, <2>2, SameCounts DEF WorkerGone
    <2>4. TypeOK' /\ ArgsPresent'
      BY <1>7, <2>2 DEF TypeInv, TypeOK, ArgsPresent, WorkerGone, counters, queue,
         producers, taking, Slots
    <2> QED BY <2>3, <2>4 DEF TypeInv
  <1>8. CASE WorkerSpurious(w)
    <2>1. {w} \in SUBSET Waiting(wpc)
      BY <1>8 DEF WorkerSpurious, Spurious, Waiting, TypeInv, TypeOK
    <2>2. /\ wpc' \in [Workers -> {"none", "ready", "wait", "woken", "got",
                                   "running", "exiting"}]
          /\ Counted' = Counted /\ Busy' = Busy
      BY <1>8, <2>1, WakeKeepsCounts DEF TypeInv, WorkerSpurious
    <2>3. LiveCovers' /\ BusyExact'
      BY <1>8, <2>2, SameCounts DEF WorkerSpurious
    <2>4. TypeOK' /\ ArgsPresent'
      BY <1>8, <2>2 DEF TypeInv, TypeOK, ArgsPresent, WorkerSpurious, counters, queue,
         producers, taking, Slots
    <2> QED BY <2>3, <2>4 DEF TypeInv
  <1> QED BY <1>1, <1>2, <1>3, <1>4, <1>5, <1>6, <1>7, <1>8 DEF WorkerNext

\* The workers ManagerGrow starts in dead entries join the counted ones.
LEMMA GrowCounts ==
    ASSUME TypeInv, NEW S \in Restarted, NEW F \in SUBSET S,
           live_thread_num < MaxThreadNum,
           wpc' = [w \in Workers |-> IF w \in S \ F THEN "ready" ELSE wpc[w]]
    PROVE  /\ wpc' \in [Workers -> {"none", "ready", "wait", "woken", "got",
                                    "running", "exiting"}]
           /\ Busy' = Busy
           /\ Counted' = Counted \cup (S \ F)
           /\ Cardinality(Counted') = Cardinality(Counted) + Cardinality(S \ F)
           /\ Cardinality(S \ F) \in Nat
           /\ Cardinality(S) \in Nat
           /\ Cardinality(S \ F) <= Cardinality(S)
           /\ Cardinality(S) <= MaxThreadNum - live_thread_num
  <1>1. S \in SUBSET Workers /\ S \in SUBSET Dead
    BY DEF Restarted, Dead
  <1>2. \A w \in S : wpc[w] = "none"
    BY <1>1 DEF Dead
  <1>3. Busy' = Busy
    BY <1>2 DEF Busy
  <1>4. Counted' = Counted \cup (S \ F)
    BY <1>1, <1>2 DEF Counted
  <1>5. Counted \cap (S \ F) = {}
    BY <1>2 DEF Counted
  <1>6. IsFiniteSet(Counted) /\ IsFiniteSet(S \ F) /\ IsFiniteSet(S)
    BY <1>1, WorkerSets DEF Counted
  <1>7. Cardinality(Counted) \in Nat /\ Cardinality(S \ F) \in Nat /\ Cardinality(S) \in Nat
    BY <1>6, FS_CardinalityType
  <1>8. Cardinality(S \ F) <= Cardinality(S)
    BY <1>6, FS_Subset
  <1>9. Cardinality(Counted') = Cardinality(Counted) + Cardinality(S \ F)
    <2>1. Cardinality(Counted \cup (S \ F)) =
            Cardinality(Counted) + Cardinality(S \ F) - Cardinality({})
      BY <1>5, <1>6, FS_Union
    <2> QED BY <1>4, <1>7, <2>1, FS_EmptySet
  <1>10. Cardinality(S) <= MaxThreadNum - live_thread_num
    <2>1. Cardinality(Dead) \in Nat
      BY WorkerSets DEF Dead
    <2>2. task_queue_size \in Nat /\ live_thread_num \in Nat
      BY MaxIsNat, QueueAssumption DEF TypeInv, TypeOK
    <2> QED BY <2>1, <2>2, MaxIsNat DEF Restarted
  <1> QED BY <1>3, <1>4, <1>7, <1>8, <1>9, <1>10 DEF TypeInv, TypeOK

\* Every step of the manager preserves the inductive invariant.
LEMMA TypeManager ==
    ASSUME TypeInv, ManagerNext \/ ManagerSpurious
    PROVE  TypeInv'
  <1> USE DEF ManagerStep
  <1>1. CASE ManagerGrow
    <2>1. PICK S \in Restarted : \E F \in SUBSET S :
             /\ wpc' = [w \in Workers |-> IF w \in S \ F THEN "ready" ELSE wpc[w]]
             /\ live_thread_num' = live_thread_num + Cardinality(S)
      BY <1>1 DEF ManagerGrow
    <2>2. PICK F \in SUBSET S :
             /\ wpc' = [w \in Workers |-> IF w \in S \ F THEN "ready" ELSE wpc[w]]
             /\ live_thread_num' = live_thread_num + Cardinality(S)
      BY <2>1
    <2>3. live_thread_num < MaxThreadNum
      BY <1>1 DEF ManagerGrow, TooBusy
    <2>4. Cardinality(Counted) \in Nat
      BY WorkerSets DEF Counted
    <2>5. LiveCovers' /\ BusyExact' /\ live_thread_num' \in 0..MaxThreadNum
      <3>1. /\ Cardinality(Counted') = Cardinality(Counted) + Cardinality(S \ F)
            /\ Cardinality(S \ F) \in Nat /\ Cardinality(S) \in Nat
            /\ Cardinality(S \ F) <= Cardinality(S)
            /\ Cardinality(S) <= MaxThreadNum - live_thread_num
            /\ Busy' = Busy
        BY <2>2, <2>3, GrowCounts
      <3>2. live_thread_num \in 0..MaxThreadNum /\ Cardinality(Counted) <= live_thread_num
        BY DEF TypeInv, TypeOK, LiveCovers
      <3>3. busy_thread_num' = busy_thread_num
        BY <1>1 DEF ManagerGrow
      <3> QED BY <2>2, <2>4, <3>1, <3>2, <3>3, MaxIsNat DEF TypeInv, LiveCovers, BusyExact
    <2>6. wpc' \in [Workers -> {"none", "ready", "wait", "woken", "got",
                               "running", "exiting"}]
      BY <2>2, <2>3, GrowCounts
    <2>7. TypeOK' /\ ArgsPresent'
      BY <1>1, <2>5, <2>6 DEF TypeInv, TypeOK, ArgsPresent, ManagerGrow, queue,
         producers, taking, Slots
    <2> QED BY <2>5, <2>7 DEF TypeInv
  <1>2. CASE ManagerShrink
    <2>1. /\ wpc' \in [Workers -> {"none", "ready", "wait", "woken", "got",
                                   "running", "exiting"}]
          /\ Counted' = Counted /\ Busy' = Busy
      BY <1>2, WakeKeepsCounts DEF TypeInv, ManagerShrink, Signalled
    <2>2. LiveCovers' /\ BusyExact'
      BY <1>2, <2>1, SameCounts DEF ManagerShrink, counters
    <2>3. wait_exit_thread_num' \in 0..MaxThreadNum
      BY <1>2, MaxIsNat, QueueAssumption DEF TypeInv, TypeOK, ManagerShrink, TooIdle
    <2>4. TypeOK' /\ ArgsPresent'
      BY <1>2, <2>1, <2>3 DEF TypeInv, TypeOK, ArgsPresent, ManagerShrink, queue,
         producers, taking, Slots
    <2> QED BY <2>2, <2>4 DEF TypeInv
  <1>3. CASE UNCHANGED <<live_thread_num, wait_exit_thread_num, wpc>> /\ ManagerStep
             /\ mpc' \in {"top", "timedwait", "recheck", "stopping", "waitEmpty",
                          "wokenEmpty", "wokenEarly", "exited", "exitedEarly"}
    <2>1. Counted' = Counted /\ Busy' = Busy
      BY <1>3 DEF Counted, Busy
    <2>2. LiveCovers' /\ BusyExact'
      BY <1>3, <2>1, SameCounts DEF counters
    <2>3. TypeOK' /\ ArgsPresent'
      BY <1>3 DEF TypeInv, TypeOK, ArgsPresent, queue, producers, taking, Slots
    <2> QED BY <2>2, <2>3 DEF TypeInv
  <1> QED BY <1>1, <1>2, <1>3 DEF ManagerNext, ManagerKeep, ManagerTimeout, ManagerBreak,
         ManagerAgain, ManagerStop, ManagerExit, ManagerSpurious

\* Every step of a producer preserves the inductive invariant.
LEMMA TypeProducer ==
    ASSUME TypeInv, NEW p \in Producers,
           \/ \E t \in Tasks : AddTask(p, t)
           \/ AddTaskWoken(p)
           \/ ProducerSpurious(p)
    PROVE  TypeInv'
  <1>1. ASSUME NEW t \in Tasks, ProducerStep, todo' \in SUBSET Tasks,
               Full(p, t) \/ Refuse(p)
        PROVE  TypeInv'
    <2>1. Counted' = Counted /\ Busy' = Busy
      BY <1>1 DEF Full, Refuse, Counted, Busy
    <2>2. LiveCovers' /\ BusyExact'
      BY <1>1, <2>1, SameCounts DEF ProducerStep
    <2>3. TypeOK' /\ ArgsPresent'
      BY <1>1 DEF TypeInv, TypeOK, ArgsPresent, ProducerStep, Full, Refuse, counters,
         taking, Slots
    <2> QED BY <2>2, <2>3 DEF TypeInv
  <1>2. ASSUME NEW t \in Tasks, ProducerStep, todo' \in SUBSET Tasks, Accept(p, t)
        PROVE  TypeInv'
    <2>1. /\ wpc' \in [Workers -> {"none", "ready", "wait", "woken", "got",
                                   "running", "exiting"}]
          /\ Counted' = Counted /\ Busy' = Busy
      BY <1>2, WakeKeepsCounts DEF TypeInv, Accept, NotEmptySignalled, Signalled
    <2>2. LiveCovers' /\ BusyExact'
      BY <1>2, <2>1, SameCounts DEF ProducerStep
    <2>3. /\ task_queue_rear' \in Slots
          /\ task_queue_size' \in 0..MaxTaskQueueSize
          /\ task_queue' \in [Slots -> Tasks \cup {NoTask}]
      BY <1>2, NextSlotValue, QueueAssumption DEF TypeInv, TypeOK, Accept, QueueFull
    <2>4. accepted' \in Seq(Tasks)
      BY <1>2 DEF TypeInv, TypeOK, Accept
    <2>5. TypeOK' /\ ArgsPresent'
      BY <1>2, <2>1, <2>3, <2>4 DEF TypeInv, TypeOK, ArgsPresent, ProducerStep, Accept,
         counters, taking, Slots
    <2> QED BY <2>2, <2>5 DEF TypeInv
  <1>3. CASE \E t \in Tasks : AddTask(p, t)
    BY <1>1, <1>2, <1>3 DEF AddTask, TypeInv, TypeOK
  <1>4. CASE AddTaskWoken(p)
    <2>1. arg[p] \in Tasks
      BY <1>4 DEF AddTaskWoken, TypeInv, ArgsPresent
    <2> QED BY <1>1, <1>2, <1>4, <2>1 DEF AddTaskWoken, TypeInv, TypeOK
  <1>5. CASE ProducerSpurious(p)
    <2>1. {p} \in SUBSET Waiting(ppc)
      BY <1>5 DEF ProducerSpurious, Spurious, Waiting, TypeInv, TypeOK
    <2>2. ppc' \in [Producers -> {"idle", "wait", "woken"}] /\ ArgsPresent'
      BY <1>5, <2>1, WakeKeepsProducers DEF ProducerSpurious
    <2>3. Counted' = Counted /\ Busy' = Busy
      BY <1>5 DEF ProducerSpurious, Counted, Busy
    <2>4. LiveCovers' /\ BusyExact'
      BY <1>5, <2>3, SameCounts DEF ProducerSpurious, ProducerStep
    <2>5. TypeOK'
      BY <1>5, <2>2 DEF TypeInv, TypeOK, ProducerSpurious, ProducerStep, counters, taking,
         Slots
    <2> QED BY <2>2, <2>4, <2>5 DEF TypeInv
  <1> QED BY <1>3, <1>4, <1>5

\* Every step of the owner preserves the inductive invariant.
LEMMA TypeOwner ==
    ASSUME TypeInv,
           \/ CreateWorker \/ CreateManager \/ CreateError \/ Destroy \/ DestroyFree
    PROVE  TypeInv'
  <1> USE DEF OwnerStep
  <1>1. CASE CreateWorker
    <2>1. PICK w \in Dead : wpc' = [wpc EXCEPT ![w] = "ready"]
      BY <1>1 DEF CreateWorker
    <2>2. w \in Workers /\ wpc[w] = "none"
      BY DEF Dead
    <2>3. /\ wpc' \in [Workers -> {"none", "ready", "wait", "woken", "got",
                                   "running", "exiting"}]
          /\ Counted' = Counted \cup {w} /\ w \notin Counted
          /\ Busy' = Busy
      BY <2>1, <2>2 DEF TypeInv, TypeOK, Counted, Busy
    <2>4. Cardinality(Counted') = Cardinality(Counted) + 1
      BY <2>2, <2>3, WorkerAdded DEF Counted
    <2>5. Cardinality(Counted) \in Nat
      BY WorkerSets DEF Counted
    <2>6. LiveCovers' /\ BusyExact' /\ live_thread_num' \in 0..MaxThreadNum
      BY <1>1, <2>3, <2>4, <2>5, MinAssumption, MaxIsNat
         DEF TypeInv, TypeOK, LiveCovers, BusyExact, CreateWorker
    <2>7. TypeOK' /\ ArgsPresent'
      BY <1>1, <2>3, <2>6 DEF TypeInv, TypeOK, ArgsPresent, CreateWorker, queue, taking,
         Slots
    <2> QED BY <2>6, <2>7 DEF TypeInv
  <1>2. CASE CreateManager \/ DestroyFree
    <2>1. Counted' = Counted /\ Busy' = Busy
      BY <1>2 DEF CreateManager, DestroyFree, Counted, Busy
    <2>2. LiveCovers' /\ BusyExact'
      BY <1>2, <2>1, SameCounts DEF CreateManager, DestroyFree, counters
    <2>3. TypeOK' /\ ArgsPresent'
      BY <1>2 DEF TypeInv, TypeOK, ArgsPresent, CreateManager, DestroyFree, queue,
         taking, Slots
    <2> QED BY <2>2, <2>3 DEF TypeInv
  <1>3. CASE CreateError \/ Destroy
    <2>1. Disable
      BY <1>3 DEF CreateError, Destroy
    <2>2. /\ wpc' \in [Workers -> {"none", "ready", "wait", "woken", "got",
                                   "running", "exiting"}]
          /\ Counted' = Counted /\ Busy' = Busy
      BY <2>1, WakeKeepsCounts DEF TypeInv, Disable
    <2>3. ppc' \in [Producers -> {"idle", "wait", "woken"}] /\ ArgsPresent'
      BY <2>1, WakeKeepsProducers DEF Disable
    <2>4. LiveCovers' /\ BusyExact'
      BY <2>1, <2>2, SameCounts DEF Disable, counters
    <2>5. TypeOK'
      BY <2>1, <2>2, <2>3 DEF TypeInv, TypeOK, Disable, queue, taking, Slots
    <2> QED BY <2>3, <2>4, <2>5 DEF TypeInv
  <1> QED BY <1>1, <1>2, <1>3

\* The inductive step: every step of the pool preserves TypeInv.
LEMMA TypeNext == TypeInv /\ [Next]_vars => TypeInv'
  <1> SUFFICES ASSUME TypeInv, [Next]_vars PROVE TypeInv'
    OBVIOUS
  <1>1. CASE UNCHANGED vars
    <2>1. Counted' = Counted /\ Busy' = Busy
      BY <1>1 DEF vars, Counted, Busy
    <2>2. LiveCovers' /\ BusyExact'
      BY <1>1, <2>1, SameCounts DEF vars
    <2>3. TypeOK' /\ ArgsPresent'
      BY <1>1 DEF TypeInv, TypeOK, ArgsPresent, vars, counters, queue, producers, taking,
         Slots
    <2> QED BY <2>2, <2>3 DEF TypeInv
  <1>2. CASE \E w \in Workers : WorkerNext(w) \/ WorkerSpurious(w)
    BY <1>2, TypeWorker
  <1>3. CASE ManagerNext \/ ManagerSpurious
    BY <1>3, TypeManager
  <1>4. CASE \/ \E p \in Producers, t \in Tasks : AddTask(p, t)
             \/ \E p \in Producers : AddTaskWoken(p) \/ ProducerSpurious(p)
    BY <1>4, TypeProducer
  <1>5. CASE CreateWorker \/ CreateManager \/ CreateError \/ Destroy \/ DestroyFree
    BY <1>5, TypeOwner
  <1> QED BY <1>1, <1>2, <1>3, <1>4, <1>5 DEF Next, Terminated

\* Every field of the pool keeps its type: in particular the counters never
\* leave 0..max_thread_num and the queue's indices never leave its array,
\* whichever pthread_create fails and whichever wakeup is spurious.
THEOREM TypeCorrect == Spec => []TypeOK
  <1>1. TypeInv => TypeOK
    BY DEF TypeInv
  <1> QED BY <1>1, TypeInit, TypeNext, PTL DEF Spec

\* The inductive invariant itself holds in every state.
THEOREM TypeInvariant == Spec => []TypeInv
  BY TypeInit, TypeNext, PTL DEF Spec

-------------------------------------------------------------------------------
(* The circular queue.  QueueFifo is inductive by itself, given the types:   *)
(* only taking a task and accepting one change what it speaks of.            *)

\* Counting from the next slot is counting one further.
LEMMA SlotShift ==
    ASSUME NEW s \in Slots, NEW i \in 0..MaxTaskQueueSize - 1
    PROVE  (NextSlot(s) + i) % MaxTaskQueueSize = (s + (i + 1)) % MaxTaskQueueSize
  <1>1. i + 1 \in 0..MaxTaskQueueSize /\ i \in 0..MaxTaskQueueSize
    BY QueueAssumption
  <1>2. (s + (i + 1)) % MaxTaskQueueSize =
          IF s + (i + 1) >= MaxTaskQueueSize THEN s + (i + 1) - MaxTaskQueueSize
                                             ELSE s + (i + 1)
    BY <1>1, SlotAfter
  <1>3. (NextSlot(s) + i) % MaxTaskQueueSize =
          IF NextSlot(s) + i >= MaxTaskQueueSize THEN NextSlot(s) + i - MaxTaskQueueSize
                                                 ELSE NextSlot(s) + i
    BY <1>1, SlotAfter, NextSlotValue
  <1> QED BY <1>2, <1>3, NextSlotValue, QueueAssumption DEF Slots

\* Slots at different distances below the capacity are different.
LEMMA SlotsDiffer ==
    ASSUME NEW s \in Slots, NEW i \in 1..MaxTaskQueueSize, NEW j \in 1..MaxTaskQueueSize,
           i # j
    PROVE  (s + i) % MaxTaskQueueSize # (s + j) % MaxTaskQueueSize
  <1>1. i \in 0..MaxTaskQueueSize /\ j \in 0..MaxTaskQueueSize
    BY QueueAssumption
  <1>2. (s + i) % MaxTaskQueueSize =
          IF s + i >= MaxTaskQueueSize THEN s + i - MaxTaskQueueSize ELSE s + i
    BY <1>1, SlotAfter
  <1>3. (s + j) % MaxTaskQueueSize =
          IF s + j >= MaxTaskQueueSize THEN s + j - MaxTaskQueueSize ELSE s + j
    BY <1>1, SlotAfter
  <1> QED BY <1>2, <1>3, QueueAssumption DEF Slots

\* Taking the oldest task leaves the others, in order.
LEMMA FifoTake ==
    ASSUME TypeOK, QueueFifo, task_queue_size # 0,
           task_queue_front' = NextSlot(task_queue_front),
           task_queue_size' = task_queue_size - 1,
           ntaken' = ntaken + 1,
           UNCHANGED <<task_queue_rear, task_queue, accepted>>
    PROVE  QueueFifo'
  <1>1. task_queue_front \in Slots /\ task_queue_size \in 1..MaxTaskQueueSize
    BY DEF TypeOK
  <1>2. Len(accepted') = ntaken' + task_queue_size'
    <2>1. Len(accepted) = ntaken + task_queue_size /\ ntaken \in Nat
      BY DEF QueueFifo, TypeOK
    <2> QED BY <1>1, <2>1, QueueAssumption
  <1>3. task_queue_rear' = (task_queue_front' + task_queue_size') % MaxTaskQueueSize
    <2>1. task_queue_size - 1 \in 0..MaxTaskQueueSize - 1
      BY <1>1, QueueAssumption
    <2>2. task_queue_size - 1 + 1 = task_queue_size
      BY <1>1, QueueAssumption
    <2> QED BY <1>1, <2>1, <2>2, SlotShift DEF QueueFifo
  <1>4. ASSUME NEW i \in 1..task_queue_size'
        PROVE  task_queue'[(task_queue_front' + i) % MaxTaskQueueSize] = accepted'[ntaken' + i]
    <2>1. i \in 0..MaxTaskQueueSize - 1 /\ i + 1 \in 1..task_queue_size
      BY <1>1, <1>4, QueueAssumption
    <2>2. (task_queue_front' + i) % MaxTaskQueueSize
            = (task_queue_front + (i + 1)) % MaxTaskQueueSize
      BY <1>1, <2>1, SlotShift
    <2>3. ntaken' + i = ntaken + (i + 1)
      BY <2>1 DEF TypeOK
    <2> QED BY <2>1, <2>2, <2>3 DEF QueueFifo
  <1> QED BY <1>2, <1>3, <1>4 DEF QueueFifo

\* Accepting a task appends it and overwrites no queued one.
LEMMA FifoAccept ==
    ASSUME TypeOK, QueueFifo, NEW t \in Tasks, task_queue_size # MaxTaskQueueSize,
           task_queue_rear' = NextSlot(task_queue_rear),
           task_queue' = [task_queue EXCEPT ![task_queue_rear'] = t],
           task_queue_size' = task_queue_size + 1,
           accepted' = Append(accepted, t),
           UNCHANGED <<task_queue_front, ntaken>>
    PROVE  QueueFifo'
  <1>1. /\ task_queue_front \in Slots
        /\ task_queue_size \in 0..MaxTaskQueueSize - 1
        /\ task_queue_size + 1 \in 1..MaxTaskQueueSize
    BY QueueAssumption DEF TypeOK
  <1>2. Len(accepted') = ntaken' + task_queue_size'
    BY <1>1, QueueAssumption DEF QueueFifo, TypeOK
  <1>3. task_queue_rear' = (task_queue_front' + task_queue_size') % MaxTaskQueueSize
    <2>1. task_queue_rear = IF task_queue_front + task_queue_size >= MaxTaskQueueSize
                            THEN task_queue_front + task_queue_size - MaxTaskQueueSize
                            ELSE task_queue_front + task_queue_size
      BY <1>1, SlotAfter DEF QueueFifo, TypeOK
    <2>2. task_queue_size + 1 \in 0..MaxTaskQueueSize
      BY <1>1, QueueAssumption
    <2>3. (task_queue_front + (task_queue_size + 1)) % MaxTaskQueueSize =
            IF task_queue_front + (task_queue_size + 1) >= MaxTaskQueueSize
            THEN task_queue_front + (task_queue_size + 1) - MaxTaskQueueSize
            ELSE task_queue_front + (task_queue_size + 1)
      BY <1>1, <2>2, SlotAfter
    <2>4. task_queue_rear \in Slots
      BY DEF TypeOK
    <2> QED BY <1>1, <2>1, <2>3, <2>4, NextSlotValue, QueueAssumption DEF Slots
  <1>4. ASSUME NEW i \in 1..task_queue_size'
        PROVE  task_queue'[(task_queue_front' + i) % MaxTaskQueueSize] = accepted'[ntaken' + i]
    <2>1. task_queue_rear' \in Slots /\ DOMAIN task_queue = Slots
      BY NextSlotValue DEF TypeOK
    <2>2. i \in 1..MaxTaskQueueSize /\ i \in 0..MaxTaskQueueSize
      BY <1>1, <1>4, QueueAssumption
    <2>3. (task_queue_front + i) % MaxTaskQueueSize \in Slots
      BY <1>1, <2>2, SlotAfter
    <2>4. CASE i = task_queue_size + 1
      <3>1. ntaken + i = Len(accepted) + 1
        BY <1>1, <2>4 DEF QueueFifo, TypeOK
      <3>2. accepted'[ntaken' + i] = t
        BY <3>1 DEF TypeOK
      <3> QED BY <1>3, <2>1, <2>4, <3>2
    <2>5. CASE i # task_queue_size + 1
      <3>1. i \in 1..task_queue_size
        BY <1>1, <1>4, <2>5
      <3>2. (task_queue_front + i) % MaxTaskQueueSize # task_queue_rear'
        BY <1>1, <1>3, <2>2, <2>5, SlotsDiffer
      <3>3. task_queue'[(task_queue_front' + i) % MaxTaskQueueSize]
              = task_queue[(task_queue_front + i) % MaxTaskQueueSize]
        BY <2>1, <2>3, <3>2
      <3>4. ntaken + i \in 1..Len(accepted)
        BY <1>1, <3>1 DEF QueueFifo, TypeOK
      <3>5. accepted'[ntaken' + i] = accepted[ntaken + i]
        BY <3>4 DEF TypeOK
      <3> QED BY <3>1, <3>3, <3>5 DEF QueueFifo
    <2> QED BY <2>4, <2>5
  <1> QED BY <1>2, <1>3, <1>4 DEF QueueFifo

\* The circular queue is a first-in first-out queue of the accepted tasks that
\* no worker took yet, for every capacity, however the threads interleave.
THEOREM QueueIsFifo == Spec => []QueueFifo
  <1>1. Init => QueueFifo
    <2> SUFFICES ASSUME Init PROVE QueueFifo
      OBVIOUS
    <2>1. (0 + 0) % MaxTaskQueueSize = 0
      BY QueueAssumption, SlotAfter DEF Slots
    <2> QED BY <2>1 DEF Init, QueueFifo
  <1>2. TypeInv /\ QueueFifo /\ [Next]_vars => QueueFifo'
    <2> SUFFICES ASSUME TypeInv, QueueFifo, [Next]_vars PROVE QueueFifo'
      OBVIOUS
    <2>1. TypeOK
      BY DEF TypeInv
    <2>2. CASE \E w \in Workers : WorkerTake(w)
      BY <2>1, <2>2, FifoTake DEF WorkerTake
    <2>3. CASE \E p \in Producers, t \in Tasks : AddTask(p, t) /\ Accept(p, t)
      BY <2>1, <2>3, FifoAccept DEF AddTask, Accept, ProducerStep, taking, QueueFull
    <2>4. CASE \E p \in Producers : AddTaskWoken(p) /\ Accept(p, arg[p])
      <3>1. PICK p \in Producers : AddTaskWoken(p) /\ Accept(p, arg[p])
        BY <2>4
      <3>2. arg[p] \in Tasks
        BY <3>1 DEF AddTaskWoken, TypeInv, ArgsPresent
      <3> QED BY <2>1, <3>1, <3>2, FifoAccept DEF AddTaskWoken, Accept, ProducerStep, taking, QueueFull
    <2>5. CASE UNCHANGED <<queue, accepted, ntaken>>
      BY <2>5 DEF QueueFifo, queue
    <2>6. \/ UNCHANGED <<queue, accepted, ntaken>>
          \/ \E w \in Workers : WorkerTake(w)
          \/ \E p \in Producers, t \in Tasks : AddTask(p, t) /\ Accept(p, t)
          \/ \E p \in Producers : AddTaskWoken(p) /\ Accept(p, arg[p])
      <3>1. CASE UNCHANGED vars \/ Terminated
        BY <3>1 DEF Terminated, vars, queue, producers, taking
      <3>2. CASE \E w \in Workers : WorkerNext(w) \/ WorkerSpurious(w)
        BY <3>2 DEF WorkerNext, WorkerSpurious, WorkerWait, WorkerShrink, WorkerDisabled,
           WorkerRun, WorkerDone, WorkerGone, TaskReturned, queue, producers, taking
      <3>3. CASE ManagerNext \/ ManagerSpurious
        BY <3>3 DEF ManagerNext, ManagerSpurious, ManagerGrow, ManagerShrink, ManagerKeep,
           ManagerTimeout, ManagerBreak, ManagerAgain, ManagerStop, ManagerExit,
           ManagerStep, queue, producers, taking
      <3>4. CASE \E p \in Producers, t \in Tasks : AddTask(p, t)
        BY <3>4 DEF AddTask, Full, Refuse, ProducerStep, queue, taking
      <3>5. CASE \E p \in Producers : AddTaskWoken(p) \/ ProducerSpurious(p)
        BY <3>5 DEF AddTaskWoken, ProducerSpurious, Full, Refuse, ProducerStep, queue,
           taking
      <3>6. CASE CreateWorker \/ CreateManager \/ CreateError \/ Destroy \/ DestroyFree
        BY <3>6 DEF CreateWorker, CreateManager, CreateError, Destroy, DestroyFree,
           Disable, OwnerStep, queue, taking
      <3> QED BY <3>1, <3>2, <3>3, <3>4, <3>5, <3>6 DEF Next
    <2> QED BY <2>2, <2>3, <2>4, <2>5, <2>6
  <1> QED BY <1>1, <1>2, TypeInvariant, PTL DEF Spec

-------------------------------------------------------------------------------
(* The number of workers, and the order of a shutdown.                       *)

\* What one step does to the workers counted by live_thread_num.
LEMMA CountedStep ==
    ASSUME TypeInv, [Next]_vars
    PROVE  \/ Counted' = Counted /\ live_thread_num' = live_thread_num
           \/ \E w \in Counted :
                /\ Leave(w) /\ UNCHANGED opc
                /\ Counted' = Counted \ {w}
                /\ Cardinality(Counted') = Cardinality(Counted) - 1
                /\ ~Enabled \/ live_thread_num > MinThreadNum
           \/ CreateWorker /\ Cardinality(Counted') = Cardinality(Counted) + 1
           \/ /\ ManagerGrow
              /\ live_thread_num' >= live_thread_num
              /\ ~CreateFails => Cardinality(Counted') - Cardinality(Counted)
                                    = live_thread_num' - live_thread_num
  <1>1. TypeOK
    BY DEF TypeInv
  <1>2. ASSUME NEW w \in Workers, WorkerNext(w) \/ WorkerSpurious(w)
        PROVE  \/ Counted' = Counted /\ live_thread_num' = live_thread_num
               \/ /\ w \in Counted /\ Leave(w) /\ UNCHANGED opc
                  /\ Counted' = Counted \ {w}
                  /\ Cardinality(Counted') = Cardinality(Counted) - 1
                  /\ ~Enabled \/ live_thread_num > MinThreadNum
    <2>1. CASE WorkerShrink(w)
      <3>1. w \in Counted /\ w \notin Busy
        BY <2>1 DEF WorkerShrink, Counted, Busy
      <3> QED BY <2>1, <3>1, LeaveCounts DEF WorkerShrink, MustExit
    <2>2. CASE WorkerDisabled(w)
      <3>1. w \in Counted /\ w \notin Busy
        BY <2>2, LoopTest DEF WorkerDisabled
      <3> QED BY <2>2, <3>1, LeaveCounts DEF WorkerDisabled
    <2>3. CASE WorkerWait(w)
      <3>1. w \in Counted
        BY <2>3, LoopTest DEF WorkerWait
      <3> QED BY <1>1, <2>3, <3>1, MoveKeepsCounts DEF WorkerWait, counters
    <2>4. CASE WorkerTake(w)
      <3>1. w \in Counted
        BY <2>4, LoopTest DEF WorkerTake
      <3> QED BY <1>1, <2>4, <3>1, MoveKeepsCounts DEF WorkerTake
    <2>5. CASE WorkerRun(w)
      <3>1. w \in Counted
        BY <2>5 DEF WorkerRun, Counted
      <3> QED BY <1>1, <2>5, <3>1, MoveKeepsCounts DEF WorkerRun, counters
    <2>6. CASE WorkerDone(w)
      <3>1. w \in Counted
        BY <2>6 DEF WorkerDone, Counted
      <3> QED BY <1>1, <2>6, <3>1, MoveKeepsCounts DEF WorkerDone, TaskReturned
    <2>7. CASE WorkerGone(w)
      <3>1. w \notin Counted
        BY <2>7 DEF WorkerGone, Counted
      <3> QED BY <1>1, <2>7, <3>1, MoveKeepsCounts DEF WorkerGone, counters
    <2>8. CASE WorkerSpurious(w)
      <3>1. {w} \in SUBSET Waiting(wpc)
        BY <1>1, <2>8 DEF WorkerSpurious, Spurious, Waiting, TypeOK
      <3> QED BY <1>1, <2>8, <3>1, WakeKeepsCounts DEF WorkerSpurious, counters
    <2> QED BY <1>2, <2>1, <2>2, <2>3, <2>4, <2>5, <2>6, <2>7, <2>8 DEF WorkerNext
  <1>3. CASE ManagerGrow
    <2>0. PICK S \in Restarted : \E F \in SUBSET S :
             /\ CreateFails \/ F = {}
             /\ wpc' = [w \in Workers |-> IF w \in S \ F THEN "ready" ELSE wpc[w]]
             /\ live_thread_num' = live_thread_num + Cardinality(S)
      BY <1>3 DEF ManagerGrow
    <2>1. PICK F \in SUBSET S :
             /\ CreateFails \/ F = {}
             /\ wpc' = [w \in Workers |-> IF w \in S \ F THEN "ready" ELSE wpc[w]]
             /\ live_thread_num' = live_thread_num + Cardinality(S)
      BY <2>0
    <2>2. live_thread_num < MaxThreadNum
      BY <1>3 DEF ManagerGrow, TooBusy
    <2>3. /\ Cardinality(Counted') = Cardinality(Counted) + Cardinality(S \ F)
          /\ Cardinality(S) \in Nat
      BY <2>1, <2>2, GrowCounts
    <2>4. Cardinality(Counted) \in Nat /\ live_thread_num \in Nat
      BY <1>1, WorkerSets, MaxIsNat DEF Counted, TypeOK
    <2>5. ~CreateFails => S \ F = S
      BY <2>1
    <2>6. live_thread_num' >= live_thread_num
      BY <2>1, <2>3, <2>4
    <2>7. ~CreateFails => Cardinality(Counted') - Cardinality(Counted)
                            = live_thread_num' - live_thread_num
      <3>1. SUFFICES ASSUME ~CreateFails
                     PROVE  Cardinality(Counted') - Cardinality(Counted)
                              = live_thread_num' - live_thread_num
        OBVIOUS
      <3>2. Cardinality(Counted') = Cardinality(Counted) + Cardinality(S)
        BY <2>3, <2>5, <3>1
      <3> QED BY <2>1, <2>3, <2>4, <3>2
    <2> QED BY <1>3, <2>6, <2>7
  <1>4. CASE ManagerShrink
    BY <1>1, <1>4, WakeKeepsCounts DEF ManagerShrink, Signalled
  <1>5. CASE \E p \in Producers, t \in Tasks : Accept(p, t) /\ ProducerStep
    BY <1>1, <1>5, WakeKeepsCounts DEF Accept, NotEmptySignalled, Signalled, ProducerStep, counters
  <1>6. CASE \E p \in Producers : Accept(p, arg[p]) /\ ProducerStep
    BY <1>1, <1>6, WakeKeepsCounts DEF Accept, NotEmptySignalled, Signalled, ProducerStep, counters
  <1>7. CASE CreateError \/ Destroy
    BY <1>1, <1>7, WakeKeepsCounts DEF CreateError, Destroy, Disable
  <1>8. CASE CreateWorker
    <2>1. PICK w \in Dead : wpc' = [wpc EXCEPT ![w] = "ready"]
      BY <1>8 DEF CreateWorker
    <2>2. w \in Workers /\ Counted' = Counted \cup {w} /\ w \notin Counted
      BY <1>1, <2>1 DEF Dead, TypeOK, Counted
    <2> QED BY <1>8, <2>2, WorkerAdded DEF Counted
  <1>9. CASE UNCHANGED <<wpc, live_thread_num>>
    BY <1>9 DEF Counted
  <1>10. \/ \E w \in Workers : WorkerNext(w) \/ WorkerSpurious(w)
         \/ ManagerGrow \/ ManagerShrink
         \/ \E p \in Producers, t \in Tasks : Accept(p, t) /\ ProducerStep
         \/ \E p \in Producers : Accept(p, arg[p]) /\ ProducerStep
         \/ CreateError \/ Destroy \/ CreateWorker
         \/ UNCHANGED <<wpc, live_thread_num>>
    <2>1. CASE ManagerNext \/ ManagerSpurious
      BY <2>1 DEF ManagerNext, ManagerSpurious, ManagerKeep, ManagerTimeout, ManagerBreak,
         ManagerAgain, ManagerStop, ManagerExit
    <2>2. CASE \E p \in Producers, t \in Tasks : AddTask(p, t)
      BY <2>2 DEF AddTask, Full, Refuse, ProducerStep, counters
    <2>3. CASE \E p \in Producers : AddTaskWoken(p) \/ ProducerSpurious(p)
      BY <2>3 DEF AddTaskWoken, ProducerSpurious, Full, Refuse, ProducerStep, counters
    <2>4. CASE CreateManager \/ DestroyFree \/ Terminated \/ UNCHANGED vars
      BY <2>4 DEF CreateManager, DestroyFree, Terminated, vars, counters
    <2> QED BY <2>1, <2>2, <2>3, <2>4 DEF Next
  <1> QED BY <1>2, <1>3, <1>4, <1>5, <1>6, <1>7, <1>8, <1>9, <1>10

\* threadpoll_destroy is the only code that disables the pool.
LEMMA EnabledNext ==
    ASSUME EnabledUntilDestroy, [Next]_vars
    PROVE  EnabledUntilDestroy'
  <1> USE DEF EnabledUntilDestroy, Enabled
  <1>1. CASE UNCHANGED vars \/ Terminated
    BY <1>1 DEF vars, Terminated
  <1>2. CASE \E w \in Workers : WorkerNext(w) \/ WorkerSpurious(w)
    BY <1>2 DEF WorkerNext, WorkerSpurious, WorkerWait, WorkerShrink, WorkerDisabled,
       WorkerTake, WorkerRun, WorkerDone, WorkerGone
  <1>3. CASE ManagerNext \/ ManagerSpurious
    BY <1>3 DEF ManagerNext, ManagerSpurious, ManagerGrow, ManagerShrink, ManagerKeep,
       ManagerTimeout, ManagerBreak, ManagerAgain, ManagerStop, ManagerExit, ManagerStep
  <1>4. CASE \/ \E p \in Producers, t \in Tasks : AddTask(p, t)
             \/ \E p \in Producers : AddTaskWoken(p) \/ ProducerSpurious(p)
    BY <1>4 DEF AddTask, AddTaskWoken, ProducerSpurious, ProducerStep
  <1>5. CASE CreateWorker \/ CreateManager \/ DestroyFree
    BY <1>5 DEF CreateWorker, CreateManager, DestroyFree
  <1>6. CASE CreateError \/ Destroy
    BY <1>6 DEF CreateError, Destroy, Disable
  <1> QED BY <1>1, <1>2, <1>3, <1>4, <1>5, <1>6 DEF Next

\* Shrinking keeps min_thread_num workers as long as the pool is not destroyed:
\* a wait_exit_thread_num that is out of date cannot take a worker too many.
THEOREM MinimumKept == Spec => []MinKeptAlive
  <1>1. Init => MinKeptAlive /\ EnabledUntilDestroy
    BY DEF Init, MinKeptAlive, EnabledUntilDestroy, Enabled
  <1>2. TypeInv /\ EnabledUntilDestroy /\ MinKeptAlive /\ [Next]_vars
          => (MinKeptAlive /\ EnabledUntilDestroy)'
    <2> SUFFICES ASSUME TypeInv, EnabledUntilDestroy, MinKeptAlive, [Next]_vars
                 PROVE  MinKeptAlive'
      BY EnabledNext
    <2>1. TypeInv'
      BY TypeNext
    <2>2. live_thread_num \in Nat /\ live_thread_num' \in Nat /\ MinThreadNum \in Nat
      BY <2>1, MaxIsNat, MinAssumption DEF TypeInv, TypeOK
    <2>3. opc' = "up" => opc = "up" \/ CreateManager
      BY DEF Next, vars, Terminated, WorkerNext, WorkerSpurious, WorkerWait, WorkerShrink,
         WorkerDisabled, WorkerTake, WorkerRun, WorkerDone, WorkerGone, ManagerNext,
         ManagerSpurious, ManagerGrow, ManagerShrink, ManagerKeep, ManagerTimeout,
         ManagerBreak, ManagerAgain, ManagerStop, ManagerExit, ManagerStep, AddTask,
         AddTaskWoken, ProducerSpurious, ProducerStep, CreateWorker, CreateError,
         Destroy, Disable, DestroyFree
    <2>4. CASE CreateManager
      BY <2>2, <2>4 DEF CreateManager, MinKeptAlive
    <2>5. CASE opc' = "up" /\ opc = "up"
      <3>1. Enabled /\ live_thread_num >= MinThreadNum
        BY <2>5 DEF EnabledUntilDestroy, MinKeptAlive
      <3>2. CASE \E w \in Counted : Leave(w) /\ live_thread_num > MinThreadNum
        BY <2>2, <3>2 DEF Leave, MinKeptAlive, Left
      <3>3. CASE live_thread_num' >= live_thread_num
        BY <2>2, <3>1, <3>3 DEF MinKeptAlive
      <3>4. CASE live_thread_num' = live_thread_num
        BY <3>1, <3>4 DEF MinKeptAlive
      <3>5. ~CreateWorker
        BY <2>5 DEF CreateWorker
      <3> QED BY <3>1, <3>2, <3>3, <3>4, <3>5, CountedStep
    <2> QED BY <2>3, <2>4, <2>5 DEF MinKeptAlive
  <1> QED BY <1>1, <1>2, TypeInvariant, PTL DEF Spec

\* As long as pthread_create succeeds live_thread_num is exact.
LEMMA LiveNext ==
    ASSUME TypeInv, LiveExact, [Next]_vars, ~CreateFails
    PROVE  LiveExact'
  <1>1. Cardinality(Counted) \in Nat /\ live_thread_num \in Nat
    BY WorkerSets, MaxIsNat DEF Counted, TypeInv, TypeOK
  <1>2. Cardinality(Counted') \in Nat
    <2>1. Counted' \in SUBSET Workers
      BY DEF Counted
    <2> QED BY <2>1, WorkerSets
  <1>3. CASE Counted' = Counted /\ live_thread_num' = live_thread_num
    BY <1>3 DEF LiveExact
  <1>4. CASE \E w \in Counted : /\ Leave(w)
                                /\ Cardinality(Counted') = Cardinality(Counted) - 1
    BY <1>1, <1>4 DEF Leave, LiveExact, Left
  <1>5. CASE CreateWorker /\ Cardinality(Counted') = Cardinality(Counted) + 1
    BY <1>1, <1>5 DEF CreateWorker, LiveExact
  <1>6. CASE ManagerGrow /\ Cardinality(Counted') - Cardinality(Counted)
                                    = live_thread_num' - live_thread_num
    <2>1. live_thread_num' \in Int
      <3>1. TypeInv'
        BY TypeNext
      <3> QED BY <3>1, MaxIsNat DEF TypeInv, TypeOK
    <2> QED BY <1>1, <1>2, <1>6, <2>1 DEF LiveExact
  <1> QED BY <1>3, <1>4, <1>5, <1>6, CountedStep

\* live_thread_num is the number of workers alive, provided that no call of
\* pthread_create fails.
THEOREM LiveCountExact == ~CreateFails => (Spec => []LiveExact)
  <1> SUFFICES ASSUME ~CreateFails PROVE Spec => []LiveExact
    OBVIOUS
  <1>1. Init => LiveExact
    <2> SUFFICES ASSUME Init PROVE LiveExact
      OBVIOUS
    <2>1. Counted = {}
      BY DEF Init, Counted
    <2> QED BY <2>1, FS_EmptySet DEF Init, LiveExact
  <1>2. TypeInv /\ LiveExact /\ [Next]_vars => LiveExact'
    BY LiveNext
  <1> QED BY <1>1, <1>2, TypeInvariant, PTL DEF Spec

\* Every step keeps the order of a shutdown.
LEMMA ShutdownNext ==
    ASSUME TypeInv, EnabledUntilDestroy, ShutdownOrder, [Next]_vars
    PROVE  ShutdownOrder'
  <1>1. /\ Cardinality(Counted) \in Nat /\ IsFiniteSet(Counted)
        /\ Cardinality(Counted) <= live_thread_num /\ live_thread_num \in Nat
    BY WorkerSets, MaxIsNat DEF Counted, TypeInv, TypeOK, LiveCovers
  <1>2. CASE \E w \in Counted : /\ Leave(w) /\ UNCHANGED <<opc, poll_state>>
                                /\ Counted' = Counted \ {w}
                                /\ Cardinality(Counted') = Cardinality(Counted) - 1
    <2>1. PICK w \in Counted : /\ Leave(w) /\ UNCHANGED <<opc, poll_state>>
                               /\ Counted' = Counted \ {w}
                               /\ Cardinality(Counted') = Cardinality(Counted) - 1
      BY <1>2
    <2>2. IsFiniteSet(Counted')
      BY <1>1, <2>1, FS_RemoveElement
    <2>3. ASSUME live_thread_num - 1 <= 0 PROVE Counted' = {}
      <3>1. Cardinality(Counted') \in Nat
        BY <2>2, FS_CardinalityType
      <3>2. Cardinality(Counted') = 0
        BY <1>1, <2>1, <2>3, <3>1
      <3> QED BY <2>2, <3>2, FS_EmptySet
    <2>4. mpc \notin {"wokenEmpty", "exited"}
      BY <2>1 DEF ShutdownOrder
    <2>5. mpc' = mpc \/ (mpc = "waitEmpty" /\ mpc' = "wokenEmpty" /\ live_thread_num - 1 <= 0)
      BY <2>1 DEF Leave, Left, LastGone
    <2> QED BY <2>1, <2>3, <2>4, <2>5 DEF ShutdownOrder, Enabled, Freed
  <1>3. CASE Counted' = Counted /\ UNCHANGED <<mpc, opc, poll_state>>
    BY <1>3 DEF ShutdownOrder, Enabled, Freed
  <1>4. CASE ManagerGrow
    BY <1>4 DEF ManagerGrow, ManagerStep, ShutdownOrder, Enabled, Freed
  <1>5. CASE Counted' = Counted /\ ManagerNext
    <2>1. CASE ManagerStop
      <3>1. live_thread_num <= 0 => Cardinality(Counted) = 0
        BY <1>1
      <3>2. live_thread_num <= 0 => Counted = {}
        BY <1>1, <3>1, FS_EmptySet
      <3> QED BY <1>5, <2>1, <3>2 DEF ManagerStop, ManagerStep, ShutdownOrder, Enabled, Freed,
              TypeInv, TypeOK
    <2> QED BY <1>4, <1>5, <2>1 DEF ManagerNext, ManagerShrink, ManagerKeep, ManagerTimeout,
            ManagerBreak, ManagerAgain, ManagerExit, ManagerStep, ShutdownOrder, Enabled,
            Freed
  <1>6. CASE CreateWorker
    BY <1>6 DEF CreateWorker, ShutdownOrder, Enabled, Freed
  <1>7. CASE Counted' = Counted /\ CreateManager
    BY <1>7 DEF CreateManager, ShutdownOrder, EnabledUntilDestroy, Enabled, Freed
  <1>8. CASE Counted' = Counted /\ (Destroy \/ CreateError)
    BY <1>8 DEF Destroy, CreateError, Disable, ShutdownOrder, EnabledUntilDestroy, Enabled,
       Freed
  <1>9. CASE Counted' = Counted /\ DestroyFree
    BY <1>9 DEF DestroyFree, ShutdownOrder, EnabledUntilDestroy, Enabled, Freed
  <1>s. CASE Counted' = Counted /\ ManagerSpurious
    BY <1>s DEF ManagerSpurious, ManagerStep, ShutdownOrder, Enabled, Freed
  <1>10. \/ UNCHANGED <<mpc, opc, poll_state>> \/ ManagerNext \/ ManagerSpurious
         \/ CreateWorker \/ CreateManager \/ Destroy \/ CreateError \/ DestroyFree
         \/ \E w \in Workers : WorkerShrink(w) \/ WorkerDisabled(w)
    BY DEF Next, vars, Terminated, WorkerNext, WorkerSpurious, WorkerWait, WorkerTake,
       WorkerRun, WorkerDone, WorkerGone, AddTask, AddTaskWoken, ProducerSpurious,
       ProducerStep
  <1>11. poll_state' = poll_state \/ Destroy \/ CreateError
    BY <1>10 DEF WorkerShrink, WorkerDisabled, ManagerNext, ManagerGrow, ManagerShrink,
       ManagerKeep, ManagerTimeout, ManagerBreak, ManagerAgain, ManagerStop, ManagerExit,
       ManagerSpurious, ManagerStep, CreateWorker, CreateManager, DestroyFree
  <1>12. ASSUME NEW w \in Workers, WorkerShrink(w) \/ WorkerDisabled(w)
         PROVE  Counted' # Counted
    <2>1. wpc[w] \in {"ready", "woken"}
      BY <1>12, LoopTest DEF WorkerShrink, WorkerDisabled
    <2>2. wpc'[w] = "exiting"
      BY <1>12 DEF WorkerShrink, WorkerDisabled, Leave, TypeInv, TypeOK
    <2> QED BY <2>1, <2>2 DEF Counted
  <1>13. Destroy \/ CreateError => Counted' = Counted
    BY WakeKeepsCounts DEF Destroy, CreateError, Disable, TypeInv
  <1> QED BY <1>2, <1>3, <1>4, <1>5, <1>6, <1>7, <1>8, <1>9, <1>s, <1>10, <1>11, <1>12,
          <1>13, CountedStep

\* threadpoll_destroy frees the pool only after every worker has left it, with
\* failing calls of pthread_create and spurious wakeups, except when the
\* manager's only wait ended without a signal or no manager was started.
THEOREM FreedAfterWorkers == Spec => []NoWorkerOnFreedPool
  <1>1. Init => EnabledUntilDestroy /\ ShutdownOrder
    BY DEF Init, EnabledUntilDestroy, ShutdownOrder, Enabled, Freed
  <1>2. TypeInv /\ EnabledUntilDestroy /\ ShutdownOrder /\ [Next]_vars
          => (EnabledUntilDestroy /\ ShutdownOrder)'
    BY EnabledNext, ShutdownNext
  <1>3. ShutdownOrder => NoWorkerOnFreedPool
    BY DEF ShutdownOrder, NoWorkerOnFreedPool
  <1> QED BY <1>1, <1>2, <1>3, TypeInvariant, PTL DEF Spec

-------------------------------------------------------------------------------
(* No lost wakeups.                                                          *)

\* One call of pthread_cond_signal wakes one of the threads waiting, if any is.
LEMMA SignalWakesOne ==
    ASSUME NEW pc, IsFiniteSet(Waiting(pc)), NEW S \in Signalled(pc, 1)
    PROVE  /\ S \in SUBSET Waiting(pc)
           /\ Waiting(pc) # {} => Cardinality(S) = 1 /\ S # {}
  <1>1. S \in SUBSET Waiting(pc)
    BY DEF Signalled
  <1>2. Cardinality(Waiting(pc)) \in Nat
    BY FS_CardinalityType
  <1>3. Waiting(pc) # {} => Cardinality(Waiting(pc)) # 0
    BY FS_EmptySet
  <1>4. Waiting(pc) # {} => Cardinality(S) = 1
    BY <1>2, <1>3 DEF Signalled
  <1>5. Cardinality(S) = 1 => S # {}
    BY FS_EmptySet
  <1> QED BY <1>1, <1>4, <1>5

\* Every step of a pool of fixed size keeps a worker awake for queued tasks.
LEMMA StrandedTaskNext ==
    ASSUME TypeInv, LiveExact, MinKeptAlive, EnabledUntilDestroy, QuietUntilUp,
           NoStrandedTask, [Next]_vars,
           MinThreadNum = MaxThreadNum, MinThreadNum > 0
    PROVE  NoStrandedTask' /\ QuietUntilUp'
  <1> DEFINE Awake == {"ready", "woken", "got", "running"}
  <1>1. /\ DOMAIN wpc = Workers
        /\ Waiting(wpc) \in SUBSET Workers /\ IsFiniteSet(Waiting(wpc))
    BY WorkerSets DEF TypeInv, TypeOK, Waiting
  <1>2. live_thread_num \in 0..MaxThreadNum /\ MaxThreadNum \in Nat
    BY MaxIsNat DEF TypeInv, TypeOK
  <1>3. opc = "up" => Counted = Workers /\ live_thread_num = MaxThreadNum
    <2>1. opc = "up" => Cardinality(Counted) = MaxThreadNum
      BY <1>2 DEF LiveExact, MinKeptAlive
    <2>2. Counted \in SUBSET Workers
      BY DEF Counted
    <2> QED BY <1>2, <2>1, <2>2, WorkerSets DEF LiveExact
  <1>4. \E w \in Workers : TRUE
    <2>1. Workers # {}
      BY <1>2, FS_EmptySet DEF MaxThreadNum
    <2> QED BY <2>1
  <1>5. ASSUME NEW p \in Producers, NEW t, Accept(p, t), ProducerStep, opc \in {"up", "joining"}
        PROVE  NoStrandedTask' /\ QuietUntilUp'
    <2>1. PICK S \in Signalled(wpc, 1) : wpc' = Wake(wpc, S)
      BY <1>5 DEF Accept, NotEmptySignalled
    <2>2. opc' = opc
      BY <1>5 DEF ProducerStep
    <2>3. wpc' = [w \in Workers |-> IF w \in S THEN "woken" ELSE wpc[w]]
      BY <1>1, <2>1 DEF Wake
    <2>4. CASE Waiting(wpc) = {}
      <3>1. opc = "up" => \A w \in Workers : wpc[w] \in Awake
        BY <1>1, <1>3, <2>4 DEF Counted, Waiting, TypeInv, TypeOK
      <3>2. \A w \in Workers : wpc'[w] = IF w \in S THEN "woken" ELSE wpc[w]
        BY <2>3
      <3> QED BY <1>4, <1>5, <2>2, <3>1, <3>2 DEF NoStrandedTask, QuietUntilUp
    <2>5. CASE Waiting(wpc) # {}
      <3>1. PICK w \in S : w \in Workers
        BY <1>1, <2>5, SignalWakesOne
      <3>2. wpc'[w] = "woken"
        BY <2>3, <3>1
      <3> QED BY <1>5, <2>2, <3>1, <3>2 DEF NoStrandedTask, QuietUntilUp
    <2> QED BY <2>4, <2>5
  <1>6. CASE \E p \in Producers, t \in Tasks : AddTask(p, t) /\ Accept(p, t)
    BY <1>5, <1>6 DEF AddTask
  <1>7. CASE \E p \in Producers : AddTaskWoken(p) /\ Accept(p, arg[p])
    <2>1. opc \in {"up", "joining"}
      BY <1>7 DEF AddTaskWoken, Freed, TypeInv, TypeOK, QuietUntilUp
    <2> QED BY <1>5, <1>7, <2>1 DEF AddTaskWoken
  <1>8. CASE \E w \in Workers : WorkerTake(w)
    <2>1. PICK w \in Workers : WorkerTake(w)
      BY <1>8
    <2>2. wpc'[w] = "got" /\ opc' = opc /\ task_queue_size # 0
      BY <1>1, <2>1 DEF WorkerTake
    <2> QED BY <2>2 DEF NoStrandedTask, QuietUntilUp
  <1>9. CASE \E w \in Workers : WorkerWait(w)
    <2>1. task_queue_size' = 0 /\ opc' = opc /\ ppc' = ppc
      BY <1>9 DEF WorkerWait, queue, producers
    <2> QED BY <2>1 DEF NoStrandedTask, QuietUntilUp
  <1>10. CASE \E w \in Workers : WorkerDisabled(w) \/ WorkerShrink(w)
    <2>1. ~Enabled \/ live_thread_num > MinThreadNum
      BY <1>10 DEF WorkerDisabled, WorkerShrink, MustExit
    <2>2. opc \notin {"up"} /\ opc' = opc /\ UNCHANGED <<task_queue_size, ppc>>
      BY <1>2, <1>3, <1>10, <2>1 DEF EnabledUntilDestroy, WorkerDisabled, WorkerShrink, queue,
         producers
    <2> QED BY <2>2 DEF NoStrandedTask, QuietUntilUp
  <1>11. CASE CreateManager
    BY <1>11 DEF CreateManager, OwnerStep, queue, NoStrandedTask, QuietUntilUp
  <1>12. ASSUME task_queue_size' = task_queue_size,
                opc' = opc \/ opc' \in {"joining", "done"},
                opc' = "create" => UNCHANGED ppc,
                \A w \in Workers : wpc[w] \in Awake => wpc'[w] \in Awake
         PROVE  NoStrandedTask' /\ QuietUntilUp'
    BY <1>12 DEF NoStrandedTask, QuietUntilUp
  <1>13. CASE \E w \in Workers : WorkerRun(w) \/ WorkerDone(w) \/ WorkerGone(w)
                                  \/ WorkerSpurious(w)
    <2>1. PICK w \in Workers : WorkerRun(w) \/ WorkerDone(w) \/ WorkerGone(w)
                                  \/ WorkerSpurious(w)
      BY <1>13
    <2>2. UNCHANGED <<task_queue_size, opc, ppc>>
      BY <2>1 DEF WorkerRun, WorkerDone, WorkerGone, WorkerSpurious, queue, producers
    <2>3. \/ wpc' = [wpc EXCEPT ![w] = "running"]
          \/ wpc' = [wpc EXCEPT ![w] = "ready"]
          \/ wpc[w] = "exiting" /\ wpc' = [wpc EXCEPT ![w] = "none"]
          \/ wpc' = [x \in Workers |-> IF x \in {w} THEN "woken" ELSE wpc[x]]
      BY <1>1, <2>1 DEF WorkerRun, WorkerDone, WorkerGone, WorkerSpurious, TaskReturned, Wake
    <2>4. \A x \in Workers : wpc[x] \in Awake => wpc'[x] \in Awake
      BY <1>1, <2>3
    <2> QED BY <1>12, <2>2, <2>4
  <1>14. CASE ManagerNext \/ ManagerSpurious
    <2>1. UNCHANGED <<task_queue_size, opc, ppc>>
      BY <1>14 DEF ManagerNext, ManagerSpurious, ManagerGrow, ManagerShrink, ManagerKeep,
         ManagerTimeout, ManagerBreak, ManagerAgain, ManagerStop, ManagerExit, ManagerStep,
         queue, producers
    <2>2. \/ wpc' = wpc
          \/ \E S : wpc' = [w \in Workers |-> IF w \in S THEN "ready" ELSE wpc[w]]
          \/ \E S : wpc' = [w \in Workers |-> IF w \in S THEN "woken" ELSE wpc[w]]
      BY <1>1, <1>14 DEF ManagerNext, ManagerSpurious, ManagerGrow, ManagerShrink, ManagerKeep,
         ManagerTimeout, ManagerBreak, ManagerAgain, ManagerStop, ManagerExit, Wake
    <2>3. \A x \in Workers : wpc[x] \in Awake => wpc'[x] \in Awake
      BY <2>2
    <2> QED BY <1>12, <2>1, <2>3
  <1>15. CASE \E p \in Producers :
                 \/ ProducerSpurious(p)
                 \/ (AddTaskWoken(p) /\ ~Accept(p, arg[p]))
                 \/ (\E t \in Tasks : AddTask(p, t) /\ ~Accept(p, t))
    <2>1. UNCHANGED <<task_queue_size, opc, wpc>> /\ opc # "create"
      BY <1>15 DEF ProducerSpurious, Spurious, AddTaskWoken, AddTask, Full, Refuse,
         ProducerStep, QuietUntilUp
    <2> QED BY <1>12, <2>1
  <1>16. CASE CreateWorker \/ CreateError \/ Destroy \/ DestroyFree
    <2>1. /\ task_queue_size' = task_queue_size
          /\ (opc' = opc /\ UNCHANGED ppc) \/ opc' \in {"joining", "done"}
      BY <1>16 DEF CreateWorker, CreateError, Destroy, Disable, DestroyFree, OwnerStep, queue
    <2>2. \/ wpc' = wpc
          \/ \E w \in Workers : wpc' = [wpc EXCEPT ![w] = "ready"]
          \/ \E S : wpc' = [w \in Workers |-> IF w \in S THEN "woken" ELSE wpc[w]]
      BY <1>1, <1>16 DEF CreateWorker, CreateError, Destroy, Disable, DestroyFree, Dead, Wake
    <2>3. \A x \in Workers : wpc[x] \in Awake => wpc'[x] \in Awake
      BY <1>1, <2>2
    <2> QED BY <1>12, <2>1, <2>3
  <1>17. CASE UNCHANGED vars \/ Terminated
    BY <1>12, <1>17 DEF vars, Terminated, queue, producers
  <1>18. CASE \E w \in Workers : WorkerNext(w) \/ WorkerSpurious(w)
    BY <1>8, <1>9, <1>10, <1>13, <1>18 DEF WorkerNext
  <1>19. CASE \E p \in Producers, t \in Tasks : AddTask(p, t)
    <2>1. PICK p \in Producers, t \in Tasks : AddTask(p, t)
      BY <1>19
    <2>2. CASE Accept(p, t)
      BY <1>6, <2>1, <2>2
    <2>3. CASE ~Accept(p, t)
      BY <1>15, <2>1, <2>3
    <2> QED BY <2>2, <2>3
  <1>20. CASE \E p \in Producers : AddTaskWoken(p) \/ ProducerSpurious(p)
    <2>1. PICK p \in Producers : AddTaskWoken(p) \/ ProducerSpurious(p)
      BY <1>20
    <2>2. CASE AddTaskWoken(p) /\ Accept(p, arg[p])
      BY <1>7, <2>2
    <2>3. CASE ProducerSpurious(p) \/ (AddTaskWoken(p) /\ ~Accept(p, arg[p]))
      BY <1>15, <2>3
    <2> QED BY <2>1, <2>2, <2>3
  <1> QED BY <1>11, <1>14, <1>16, <1>17, <1>18, <1>19, <1>20 DEF Next

\* In a pool of fixed size a queued task always has a worker awake to take it;
\* a pool that shrinks has no such guarantee.
THEOREM FixedPoolServes ==
    ~CreateFails /\ MinThreadNum = MaxThreadNum /\ MinThreadNum > 0
        => (Spec => []NoStrandedTask)
  <1> SUFFICES ASSUME ~CreateFails, MinThreadNum = MaxThreadNum, MinThreadNum > 0
               PROVE  Spec => []NoStrandedTask
    OBVIOUS
  <1>1. Init => NoStrandedTask /\ QuietUntilUp /\ EnabledUntilDestroy
    BY DEF Init, NoStrandedTask, QuietUntilUp, EnabledUntilDestroy, Enabled
  <1>2. /\ TypeInv /\ LiveExact /\ MinKeptAlive /\ EnabledUntilDestroy
        /\ NoStrandedTask /\ QuietUntilUp /\ [Next]_vars
        => (NoStrandedTask /\ QuietUntilUp /\ EnabledUntilDestroy)'
    BY StrandedTaskNext, EnabledNext
  <1> QED BY <1>1, <1>2, TypeInvariant, LiveCountExact, MinimumKept, PTL DEF Spec

\* Every step keeps a producer awake for every free slot.
LEMMA StrandedProducerNext ==
    ASSUME TypeInv, NoneBlockedWhenDisabled, NoStrandedProducer, [Next]_vars
    PROVE  NoStrandedProducer' /\ NoneBlockedWhenDisabled'
  <1>1. /\ DOMAIN ppc = Producers
        /\ Waiting(ppc) \in SUBSET Producers
        /\ Waiting(ppc) = {p \in Producers : ppc[p] = "wait"}
        /\ Woken \in SUBSET Producers
    BY DEF TypeInv, TypeOK, Waiting, Woken
  <1>2. /\ IsFiniteSet(Waiting(ppc)) /\ IsFiniteSet(Woken)
        /\ Cardinality(Woken) \in Nat
    BY <1>1, ProducersAssumption, FS_Subset, FS_CardinalityType
  <1>3. task_queue_size \in 0..MaxTaskQueueSize /\ MaxTaskQueueSize \in Nat
    BY QueueAssumption DEF TypeInv, TypeOK
  <1>4. CASE UNCHANGED <<ppc, poll_state, task_queue_size>>
    BY <1>4 DEF NoStrandedProducer, NoneBlockedWhenDisabled, Waiting, Woken, Enabled
  <1>5. CASE \E w \in Workers : WorkerTake(w)
    <2>1. PICK S \in Signalled(ppc, 1) : ppc' = Wake(ppc, S)
      BY <1>5 DEF WorkerTake, NotFullSignalled
    <2>2. task_queue_size' = task_queue_size - 1 /\ poll_state' = poll_state
      BY <1>5 DEF WorkerTake
    <2>3. /\ S \in SUBSET Waiting(ppc)
          /\ Waiting(ppc) # {} => Cardinality(S) = 1
      BY <1>2, SignalWakesOne
    <2>4. ppc' = [p \in Producers |-> IF p \in S THEN "woken" ELSE ppc[p]]
      BY <1>1, <2>1 DEF Wake
    <2>5. Waiting(ppc') = Waiting(ppc) \ S
      BY <1>1, <2>4 DEF Waiting
    <2>6. Woken' = Woken \cup S /\ Woken \cap S = {}
      BY <1>1, <2>3, <2>4 DEF Woken
    <2>7. CASE Waiting(ppc) = {}
      BY <2>2, <2>5, <2>7 DEF NoStrandedProducer, NoneBlockedWhenDisabled
    <2>8. CASE Waiting(ppc) # {}
      <3>1. IsFiniteSet(S)
        BY <1>2, <2>3, FS_Subset
      <3>2. Cardinality(Woken \cup S) = Cardinality(Woken) + Cardinality(S) - Cardinality({})
        BY <1>2, <2>6, <3>1, FS_Union
      <3>3. Cardinality(Woken') = Cardinality(Woken) + 1
        BY <1>2, <2>3, <2>6, <2>8, <3>2, FS_EmptySet
      <3>4. Enabled' = Enabled /\ Enabled
        BY <1>5, <2>2 DEF WorkerTake, Enabled
      <3> QED BY <1>2, <1>3, <2>2, <2>8, <3>3, <3>4
              DEF NoStrandedProducer, NoneBlockedWhenDisabled
    <2> QED BY <2>7, <2>8
  <1>6. ASSUME NEW p \in Producers, NEW t, Full(p, t), ProducerStep
        PROVE  NoStrandedProducer' /\ NoneBlockedWhenDisabled'
    <2>1. task_queue_size' = MaxTaskQueueSize /\ Enabled /\ poll_state' = poll_state
      BY <1>6 DEF Full, ProducerStep, QueueFull
    <2>2. Woken' \in SUBSET Producers
      BY DEF Woken
    <2>3. Cardinality(Woken') \in Nat
      BY <2>2, ProducersAssumption, FS_Subset, FS_CardinalityType
    <2> QED BY <1>3, <2>1, <2>3 DEF NoStrandedProducer, NoneBlockedWhenDisabled, Enabled
  <1>7. ASSUME NEW p \in Producers, Refuse(p), ProducerStep
        PROVE  NoStrandedProducer' /\ NoneBlockedWhenDisabled'
    <2>1. ~Enabled /\ ppc' = [ppc EXCEPT ![p] = "idle"]
      BY <1>7 DEF Refuse
    <2>2. Waiting(ppc) = {}
      BY <2>1 DEF NoneBlockedWhenDisabled
    <2>3. Waiting(ppc') = {}
      BY <1>1, <2>1, <2>2 DEF Waiting
    <2> QED BY <2>3 DEF NoStrandedProducer, NoneBlockedWhenDisabled
  <1>8. ASSUME NEW p \in Producers, NEW t, Accept(p, t), ProducerStep, ppc[p] # "wait"
        PROVE  NoStrandedProducer' /\ NoneBlockedWhenDisabled'
    <2>1. /\ Enabled /\ poll_state' = poll_state
          /\ task_queue_size' = task_queue_size + 1
          /\ ppc' = [ppc EXCEPT ![p] = "idle"]
      BY <1>8 DEF Accept, ProducerStep
    <2>2. Waiting(ppc') = Waiting(ppc) /\ Woken' = Woken \ {p}
      BY <1>1, <1>8, <2>1 DEF Waiting, Woken
    <2>3. Cardinality(Woken') >= Cardinality(Woken) - 1 /\ Cardinality(Woken') \in Nat
      <3>1. Cardinality(Woken \ {p}) = IF p \in Woken THEN Cardinality(Woken) - 1
                                                     ELSE Cardinality(Woken)
        BY <1>2, FS_RemoveElement
      <3>2. IsFiniteSet(Woken \ {p})
        BY <1>2, FS_RemoveElement
      <3> QED BY <1>2, <2>2, <3>1, <3>2, FS_CardinalityType
    <2> QED BY <1>2, <1>3, <2>1, <2>2, <2>3
            DEF NoStrandedProducer, NoneBlockedWhenDisabled, Enabled
  <1>9. CASE \E p \in Producers, t \in Tasks : AddTask(p, t)
    BY <1>6, <1>7, <1>8, <1>9 DEF AddTask
  <1>10. CASE \E p \in Producers : AddTaskWoken(p)
    BY <1>6, <1>7, <1>8, <1>10 DEF AddTaskWoken
  <1>11. CASE \E p \in Producers : ProducerSpurious(p)
    <2>1. PICK p \in Producers : ProducerSpurious(p)
      BY <1>11
    <2>2. /\ ppc[p] = "wait" /\ UNCHANGED <<poll_state, task_queue_size>>
          /\ ppc' = [q \in Producers |-> IF q \in {p} THEN "woken" ELSE ppc[q]]
      BY <1>1, <2>1 DEF ProducerSpurious, Spurious, ProducerStep, Wake
    <2>3. Waiting(ppc') = Waiting(ppc) \ {p} /\ Woken' = Woken \cup {p} /\ p \notin Woken
      BY <1>1, <2>2 DEF Waiting, Woken
    <2>4. Cardinality(Woken') = Cardinality(Woken) + 1
      BY <1>2, <2>3, FS_AddElement
    <2> QED BY <1>2, <1>3, <2>2, <2>3, <2>4
            DEF NoStrandedProducer, NoneBlockedWhenDisabled, Enabled
  <1>12. CASE CreateError \/ Destroy
    <2>1. ppc' = [p \in Producers |-> IF p \in Waiting(ppc) THEN "woken" ELSE ppc[p]]
      BY <1>1, <1>12 DEF CreateError, Destroy, Disable, Wake
    <2>2. Waiting(ppc') = {}
      BY <1>1, <2>1 DEF Waiting
    <2> QED BY <2>2 DEF NoStrandedProducer, NoneBlockedWhenDisabled
  <1>13. \/ UNCHANGED <<ppc, poll_state, task_queue_size>>
         \/ \E w \in Workers : WorkerTake(w)
         \/ \E p \in Producers, t \in Tasks : AddTask(p, t)
         \/ \E p \in Producers : AddTaskWoken(p) \/ ProducerSpurious(p)
         \/ CreateError \/ Destroy
    <2>1. CASE \E w \in Workers : WorkerNext(w) \/ WorkerSpurious(w)
      BY <2>1 DEF WorkerNext, WorkerSpurious, WorkerWait, WorkerShrink, WorkerDisabled,
         WorkerRun, WorkerDone, WorkerGone, queue, producers
    <2>2. CASE ManagerNext \/ ManagerSpurious
      BY <2>2 DEF ManagerNext, ManagerSpurious, ManagerGrow, ManagerShrink, ManagerKeep,
         ManagerTimeout, ManagerBreak, ManagerAgain, ManagerStop, ManagerExit, ManagerStep,
         queue, producers
    <2>3. CASE CreateWorker \/ CreateManager \/ DestroyFree
      BY <2>3 DEF CreateWorker, CreateManager, DestroyFree, OwnerStep, queue
    <2>4. CASE UNCHANGED vars \/ Terminated
      BY <2>4 DEF vars, Terminated, queue, producers
    <2> QED BY <2>1, <2>2, <2>3, <2>4 DEF Next
  <1> QED BY <1>4, <1>5, <1>9, <1>10, <1>11, <1>12, <1>13

\* No signal of task_queue_not_full is lost: whenever producers are blocked,
\* at least as many others are awake as the queue has free slots.
THEOREM ProducersServed == Spec => []NoStrandedProducer
  <1>1. Init => NoStrandedProducer /\ NoneBlockedWhenDisabled
    <2> SUFFICES ASSUME Init PROVE NoStrandedProducer /\ NoneBlockedWhenDisabled
      OBVIOUS
    <2>1. Waiting(ppc) = {}
      BY DEF Init, Waiting
    <2> QED BY <2>1 DEF NoStrandedProducer, NoneBlockedWhenDisabled
  <1>2. TypeInv /\ NoneBlockedWhenDisabled /\ NoStrandedProducer /\ [Next]_vars
          => (NoStrandedProducer /\ NoneBlockedWhenDisabled)'
    BY StrandedProducerNext
  <1> QED BY <1>1, <1>2, TypeInvariant, PTL DEF Spec
===============================================================================
