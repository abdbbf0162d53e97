---------------------------- MODULE ProgramsProofs ----------------------------
(***************************************************************************)
(* Proofs about the demo programs of MCPrograms, for every capacity, bound *)
(* and set of clients.  Each part gives the inductive invariant of one     *)
(* program; a step of another program leaves it alone.                     *)
(***************************************************************************)
EXTENDS MCPrograms, ProofLemmas, FiniteSetTheorems

-------------------------------------------------------------------------------
(* SemDemo.                                                                *)

\* pthread_func_2 posts only while it has rounds left, and nothing is posted or
\* printed before main has initialised the semaphore.
SemInv ==
    /\ Sem!TypeOK /\ Sem!LinesAccounted
    /\ sePoster = "print" => seIndex2 < SemRounds
    /\ seProcess = "starting" => /\ seValue = 0 /\ seWaiter = "waiting" /\ seIndex1 = 0
                                 /\ sePoster = "post" /\ seIndex2 = 0

\* Nothing is posted, printed or interrupted at first.
LEMMA SemInit == Init => SemInv
  <1> SUFFICES ASSUME Init PROVE SemInv
    OBVIOUS
  <1>1. seTerm \in BOOLEAN /\ seIgnored \subseteq {"SIGINT", "SIGTERM"}
    BY Zenon DEF Init, Sem!Init
  <1> QED BY <1>1, SemAssumption
          DEF Init, Sem!Init, SemInv, Sem!TypeOK, Sem!LinesAccounted, Sem!Lines, Sem!Posts

\* Every step of the semaphore demo keeps the two counts in step.
LEMMA SemNext == SemInv /\ [Next]_vars => SemInv'
  <1> SUFFICES ASSUME SemInv, [Next]_vars PROVE SemInv'
    OBVIOUS
  <1> USE SemAssumption DEF SemInv, Sem!TypeOK, Sem!LinesAccounted, Sem!Lines, Sem!Posts
  <1>1. CASE Sem!main
    BY <1>1 DEF Sem!main
  <1>2. CASE Sem!sem_node_wait
    BY <1>2 DEF Sem!sem_node_wait
  <1>3. CASE Sem!PrintIndex1
    BY <1>3 DEF Sem!PrintIndex1
  <1>4. CASE Sem!SIGINT
    BY <1>4 DEF Sem!SIGINT, Sem!Installed
  <1>5. CASE Sem!sem_node_post
    BY <1>5 DEF Sem!sem_node_post
  <1>6. CASE Sem!PrintIndex2
    BY <1>6 DEF Sem!PrintIndex2
  <1>7. CASE Sem!Kill
    BY <1>7 DEF Sem!Kill
  <1>8. CASE Sem!sig_term_handle
    BY <1>8 DEF Sem!sig_term_handle, Sem!Installed
  <1>9. CASE UNCHANGED se
    BY <1>9 DEF se
  <1> QED BY <1>1, <1>2, <1>3, <1>4, <1>5, <1>6, <1>7, <1>8, <1>9
          DEF Next, Sem!Next, Sem!pthread_func_1, Sem!pthread_func_2, vars

\* However many rounds pthread_func_2 makes and signals are sent, the lines that
\* pthread_func_1 prints keep step with the posts: a SIGINT adds at most one.
THEOREM LinesAreAccounted == Spec => []LinesAccounted
  <1>1. SemInv => LinesAccounted
    BY DEF SemInv, LinesAccounted
  <1> QED BY <1>1, SemInit, SemNext, PTL DEF Spec

-------------------------------------------------------------------------------
(* MutexDemo.                                                              *)

MutexBounds == <<MutexBound1, MutexBound2>>

\* A value that a thread is about to store counts at most the increments done so
\* far; a thread past its first increment never loads zero.
LoadedInv ==
    \A t \in {1, 2} :
        /\ i[t] <= MutexBounds[t]
        /\ pc[t] = "store" => /\ i[t] < MutexBounds[t]
                              /\ loaded[t] <= i[1] + i[2]
                              /\ i[t] >= 1 => loaded[t] >= 1
        /\ pc[t] = "exited" => i[t] = MutexBounds[t]

\* The count is at most the increments done, and at least one once a thread has
\* stored; it is at least two once both have stored twice, because the last
\* store was then made by a thread past its first increment.
CountInv ==
    /\ gnum <= i[1] + i[2]
    /\ i[1] >= 1 \/ i[2] >= 1 => gnum >= 1
    /\ i[1] >= 2 /\ i[2] >= 2 => gnum >= 2

MutexInv == Mutex!TypeOK /\ LoadedInv /\ CountInv

\* The two threads and their loop bounds.
LEMMA MutexThreads ==
    /\ Mutex!Threads = {1, 2}
    /\ MutexBounds[1] = MutexBound1 /\ MutexBounds[2] = MutexBound2
    /\ MutexBounds[1] \in Nat /\ MutexBounds[2] \in Nat
    /\ MutexBounds[1] >= 2 /\ MutexBounds[2] >= 2
  BY MutexAssumption DEF Mutex!Threads, MutexBounds

\* The threads start at zero.
LEMMA MutexInit == Init => MutexInv
  BY MutexThreads
     DEF Init, Mutex!Init, MutexInv, Mutex!TypeOK, LoadedInv, CountInv

\* Every load, store and exit keeps the invariant.
LEMMA MutexNext == MutexInv /\ [Next]_vars => MutexInv'
  <1> SUFFICES ASSUME MutexInv, [Next]_vars PROVE MutexInv'
    OBVIOUS
  <1> USE MutexThreads DEF MutexInv, Mutex!TypeOK, LoadedInv, CountInv
  <1>1. ASSUME NEW t \in Mutex!Threads, Mutex!Load(t) PROVE MutexInv'
    BY <1>1 DEF Mutex!Load, Mutex!MoreRounds, MutexBounds
  <1>2. ASSUME NEW t \in Mutex!Threads, Mutex!Store(t) PROVE MutexInv'
    BY <1>2 DEF Mutex!Store
  <1>3. ASSUME NEW t \in Mutex!Threads, Mutex!pthread_exit(t) PROVE MutexInv'
    BY <1>3 DEF Mutex!pthread_exit, Mutex!MoreRounds, MutexBounds
  <1>4. CASE UNCHANGED gn
    BY <1>4 DEF gn
  <1> QED BY <1>1, <1>2, <1>3, <1>4 DEF Next, Mutex!Next, Mutex!pthread_func, vars

\* For any two loops of at least two rounds, the unlocked counter ends between 2
\* and the sum of the rounds: updates are lost, but never all except one.
THEOREM CountsAreBounded == Spec => []FinalCount
  <1>1. MutexInv => FinalCount
    BY MutexThreads
       DEF MutexInv, Mutex!TypeOK, LoadedInv, CountInv, FinalCount, Mutex!FinalCount, MutexBounds
  <1> QED BY <1>1, MutexInit, MutexNext, PTL DEF Spec
-------------------------------------------------------------------------------
(* PosixQueue.                                                             *)

\* A message has one place: one cell of the queue or one thread's buffer.
OnePlace ==
    /\ \A a, b \in DOMAIN pqQueue : pqQueue[a].id = pqQueue[b].id => a = b
    /\ \A a \in DOMAIN pqQueue :
          pqQueue[a].id # 0 /\ \A t \in Posix!Threads : pqQueue[a].id # pqBuf[t]
    /\ \A t, u \in Posix!Threads : pqBuf[t] = pqBuf[u] => t = u \/ pqBuf[t] = 0

\* What main is about to send has a number that was not accepted before.
FreshInput ==
    /\ pqInput.id \in 0 .. PosixInputs
    /\ pqMain = "send" => /\ pqInput \in Posix!Inputs
                          /\ pqInput.id # 0 /\ pqInput.id \notin pqAccepted
    /\ \A id \in pqAccepted : id # 0 /\ (id <= pqInput.id \/ id = PosixInputs + 1)
    /\ pqPrinted \subseteq pqAccepted

PosixInv == Posix!TypeOK /\ Posix!UnseenAccounted /\ OnePlace /\ FreshInput

\* UnseenAccounted number by number.
Queued(id) == \E k \in DOMAIN pqQueue : pqQueue[k].id = id
Held(id) == id # 0 /\ \E t \in Posix!Threads : pqBuf[t] = id
AccountById ==
    \A id : id \in pqAccepted /\ id \notin pqPrinted <=> Queued(id) \/ Held(id)

\* The two ways of saying it agree.
LEMMA AccountIsById == Posix!UnseenAccounted <=> AccountById
  <1>1. \A id : id \in {pqQueue[k].id : k \in DOMAIN pqQueue} <=> Queued(id)
    BY DEF Queued
  <1>2. \A id : id \in {pqBuf[t] : t \in Posix!Threads} \ {0} <=> Held(id)
    BY DEF Held
  <1> QED BY <1>1, <1>2 DEF Posix!UnseenAccounted, AccountById

\* And so they do after a step.
LEMMA AccountIsByIdNext == AccountById' => Posix!UnseenAccounted'
  BY AccountIsById, PTL

\* What Inputs are made of.
LEMMA InputFields ==
    ASSUME NEW q \in Posix!Inputs
    PROVE  q.id \in Posix!Ids /\ q.prio \in PosixPriorities /\ q.kind \in Posix!Kinds
  BY DEF Posix!Inputs

\* An empty queue, or one message that an earlier process left.
LEMMA PosixInit == Init => PosixInv
  <1> SUFFICES ASSUME Init PROVE PosixInv
    OBVIOUS
  <1>0. /\ pqMain = "input" /\ pqInput = Posix!NoInput
        /\ pqBuf = [t \in Posix!Threads |-> 0] /\ pqPrinted = {}
        /\ pqAccepted = {pqQueue[k].id : k \in DOMAIN pqQueue}
        /\ pqQueue \in {<<>>} \cup {<<Posix!Leftover(prio)>> : prio \in PosixPriorities}
    BY DEF Init, Posix!Init
  <1>1. /\ pqInput.id = 0 /\ pqInput.kind = "text" /\ 0 \in Posix!Ids
        /\ PosixInputs + 1 \in Posix!Ids
    BY <1>0, PosixAssumption DEF Posix!NoInput, Posix!Ids
  <1>2. /\ pqBuf \in [Posix!Threads -> Posix!Ids]
        /\ \A t \in Posix!Threads : pqBuf[t] = 0
    BY <1>0, <1>1
  <1>3. /\ pqQueue \in Seq(Posix!Inputs) /\ Len(pqQueue) <= 1
        /\ DOMAIN pqQueue \subseteq {1}
        /\ \A k \in DOMAIN pqQueue : pqQueue[k].id = PosixInputs + 1
    <2>1. CASE pqQueue = <<>>
      BY <2>1
    <2>2. ASSUME NEW prio \in PosixPriorities, pqQueue = <<Posix!Leftover(prio)>>
          PROVE  /\ pqQueue \in Seq(Posix!Inputs) /\ Len(pqQueue) <= 1
                 /\ DOMAIN pqQueue \subseteq {1}
                 /\ \A k \in DOMAIN pqQueue : pqQueue[k].id = PosixInputs + 1
      <3>1. /\ Posix!Leftover(prio) \in Posix!Inputs
            /\ Posix!Leftover(prio).id = PosixInputs + 1
        BY <1>1 DEF Posix!Leftover, Posix!Inputs, Posix!Kinds
      <3> HIDE DEF Posix!Leftover
      <3> QED BY <2>2, <3>1
    <2> QED BY <1>0, <2>1, <2>2
  <1>4. \A id \in pqAccepted : id = PosixInputs + 1
    BY <1>0, <1>3
  <1>5. Posix!TypeOK
    BY <1>0, <1>1, <1>2, <1>3, <1>4, PosixAssumption DEF Posix!TypeOK, Posix!Kinds
  <1>6. Posix!UnseenAccounted
    BY <1>0, <1>2 DEF Posix!UnseenAccounted
  <1>7. OnePlace
    BY <1>2, <1>3, PosixAssumption DEF OnePlace
  <1>8. FreshInput
    BY <1>0, <1>1, <1>4, PosixAssumption DEF FreshInput
  <1> QED BY <1>5, <1>6, <1>7, <1>8 DEF PosixInv

\* The place of a new message lies inside the queue or right behind it.
LEMMA PlaceInQueue ==
    ASSUME pqQueue \in Seq(Posix!Inputs), NEW q
    PROVE  Posix!Place(q) \in 1 .. Len(pqQueue) + 1
  <1> DEFINE T == {k \in DOMAIN pqQueue : pqQueue[k].prio >= q.prio}
  <1>1. DOMAIN pqQueue = 1 .. Len(pqQueue) /\ Len(pqQueue) \in Nat
    BY LenProperties
  <1>2. IsFiniteSet(1 .. Len(pqQueue)) /\ Cardinality(1 .. Len(pqQueue)) = Len(pqQueue)
    <2>1. 1 \in Int /\ Len(pqQueue) \in Int
      BY <1>1
    <2>2. /\ IsFiniteSet(1 .. Len(pqQueue))
          /\ Cardinality(1 .. Len(pqQueue)) = IF 1 > Len(pqQueue) THEN 0 ELSE Len(pqQueue) - 1 + 1
      BY <2>1, FS_Interval
    <2> QED BY <1>1, <2>2
  <1>3. T \in SUBSET (1 .. Len(pqQueue))
    BY <1>1
  <1>4. Cardinality(T) <= Len(pqQueue) /\ Cardinality(T) \in Nat
    BY <1>2, <1>3, FS_Subset, FS_CardinalityType
  <1>5. Posix!Place(q) = Cardinality(T) + 1
    <2>1. Posix!Cardinality(T) = Cardinality(T)
      BY DEF Posix!Cardinality, Cardinality
    <2> QED BY <2>1 DEF Posix!Place
  <1> HIDE DEF T
  <1> QED BY <1>1, <1>4, <1>5

\* mq_send of a message with a fresh number.
LEMMA SendKeeps ==
    ASSUME PosixInv, Posix!Send PROVE PosixInv'
  <1> USE DEF PosixInv
  <1>0. /\ pqQueue \in Seq(Posix!Inputs) /\ Len(pqQueue) <= PosixMax
        /\ pqMain = "send" /\ pqInput \in Posix!Inputs
        /\ pqInput.id # 0 /\ pqInput.id \notin pqAccepted
        /\ pqInput' = pqInput /\ pqBuf' = pqBuf /\ pqPrinted' = pqPrinted
        /\ pqMain' \in {"input", "close"}
    BY DEF Posix!Send, Posix!TypeOK, FreshInput, Posix!AfterSend
  <1>1. CASE Posix!Refused
    <2>1. pqQueue' = pqQueue /\ pqAccepted' = pqAccepted
      BY <1>1 DEF Posix!Send
    <2>2. Posix!UnseenAccounted'
      BY <1>0, <2>1 DEF Posix!UnseenAccounted
    <2>3. OnePlace'
      BY <1>0, <2>1 DEF OnePlace
    <2> QED BY <1>0, <2>1, <2>2, <2>3 DEF Posix!TypeOK, FreshInput
  <1>2. CASE ~Posix!Refused
    <2>1. PICK p : p = Posix!Place(pqInput)
      OBVIOUS
    <2>2. /\ p \in 1 .. Len(pqQueue) + 1 /\ Len(pqQueue) < PosixMax
          /\ pqQueue' = Inserted(pqQueue, p, pqInput)
          /\ pqAccepted' = pqAccepted \cup {pqInput.id}
      BY <1>0, <1>2, <2>1, PlaceInQueue DEF Posix!Send, Posix!InsertAt, Inserted
    <2>3. OneLonger(Posix!Inputs, pqQueue', pqQueue, p) /\ pqQueue'[p] = pqInput
      BY <1>0, <2>2, InsertedIsLonger
    <2>4. DOMAIN pqQueue = 1 .. Len(pqQueue) /\ Len(pqQueue) \in Nat
      BY <1>0, LenProperties
    <2>5. /\ pqQueue' \in Seq(Posix!Inputs) /\ Len(pqQueue') = Len(pqQueue) + 1
          /\ p \in DOMAIN pqQueue'
          /\ \A k \in DOMAIN pqQueue : Above(k, p) \in DOMAIN pqQueue' /\ Above(k, p) # p
                                       /\ pqQueue'[Above(k, p)] = pqQueue[k]
          /\ \A k \in DOMAIN pqQueue' : k # p =>
                Below(k, p) \in DOMAIN pqQueue /\ pqQueue[Below(k, p)] = pqQueue'[k]
      BY <2>3 DEF OneLonger
    <2>6. DOMAIN pqQueue' = 1 .. Len(pqQueue) + 1
      BY <2>4, <2>5, LenProperties
    <2>7. \A j, k \in DOMAIN pqQueue' : j # p /\ k # p /\ Below(j, p) = Below(k, p) => j = k
      BY <2>2, <2>4, <2>6 DEF Below
    <2>8. \A id : Queued(id)' <=> Queued(id) \/ id = pqInput.id
      <3>1. ASSUME NEW k \in DOMAIN pqQueue
            PROVE  \E m \in DOMAIN pqQueue' : pqQueue'[m].id = pqQueue[k].id
        BY <2>5
      <3>2. ASSUME NEW k \in DOMAIN pqQueue'
            PROVE  k = p \/ \E m \in DOMAIN pqQueue : pqQueue[m].id = pqQueue'[k].id
        BY <2>5
      <3> SUFFICES ASSUME NEW id PROVE Queued(id)' <=> Queued(id) \/ id = pqInput.id
        OBVIOUS
      <3>3. Queued(id)' <=> \E k \in DOMAIN pqQueue' : pqQueue'[k].id = id
        BY DEF Queued
      <3>4. Queued(id) <=> \E k \in DOMAIN pqQueue : pqQueue[k].id = id
        BY DEF Queued
      <3>5. Queued(id) => Queued(id)'
        BY <3>1, <3>3, <3>4
      <3>6. id = pqInput.id => Queued(id)'
        BY <2>3, <2>5, <3>3
      <3>7. ASSUME Queued(id)' PROVE Queued(id) \/ id = pqInput.id
        <4>1. PICK k \in DOMAIN pqQueue' : pqQueue'[k].id = id
          BY <3>3, <3>7
        <4> QED BY <4>1, <2>3, <3>2, <3>4
      <3> QED BY <3>5, <3>6, <3>7
    <2>9. \A id : Held(id)' <=> Held(id)
      BY <1>0 DEF Held
    <2>10. AccountById
      BY AccountIsById
    <2>11. AccountById'
      BY <1>0, <2>2, <2>8, <2>9, <2>10 DEF AccountById, FreshInput
    <2>12. Posix!UnseenAccounted'
      BY <2>11, AccountIsByIdNext
    <2>13. ~Queued(pqInput.id) /\ ~Held(pqInput.id)
      BY <1>0, <2>10 DEF AccountById
    <2>14. OnePlace'
      <3>1. \A k \in DOMAIN pqQueue' : k # p => pqQueue'[k].id # pqInput.id
        BY <2>5, <2>13 DEF Queued
      <3>2. ASSUME NEW k \in DOMAIN pqQueue', NEW m \in DOMAIN pqQueue',
                   pqQueue'[k].id = pqQueue'[m].id
            PROVE  k = m
        <4>1. CASE k = p \/ m = p
          BY <2>3, <3>1, <3>2, <4>1
        <4>2. CASE k # p /\ m # p
          BY <2>5, <2>7, <3>2, <4>2 DEF OnePlace
        <4> QED BY <4>1, <4>2
      <3>3. ASSUME NEW k \in DOMAIN pqQueue'
            PROVE  pqQueue'[k].id # 0 /\ \A t \in Posix!Threads : pqQueue'[k].id # pqBuf'[t]
        <4>1. CASE k = p
          BY <1>0, <2>3, <2>13, <4>1 DEF Held
        <4>2. CASE k # p
          BY <1>0, <2>5, <4>2 DEF OnePlace
        <4> QED BY <4>1, <4>2
      <3>4. \A t, u \in Posix!Threads : pqBuf'[t] = pqBuf'[u] => t = u \/ pqBuf'[t] = 0
        BY <1>0 DEF OnePlace
      <3> QED BY <3>2, <3>3, <3>4 DEF OnePlace
    <2>15. Posix!TypeOK'
      <3>1. pqInput.id \in Posix!Ids
        BY <1>0, InputFields
      <3>2. Len(pqQueue') <= PosixMax
        BY <2>2, <2>4, <2>5, PosixAssumption
      <3> QED BY <1>0, <2>2, <2>5, <3>1, <3>2 DEF Posix!TypeOK
    <2>16. FreshInput'
      BY <1>0, <2>2, PosixAssumption DEF FreshInput
    <2> QED BY <2>12, <2>14, <2>15, <2>16
  <1> QED BY <1>1, <1>2

\* mq_receive moves a message from the queue to a free buffer.
LEMMA ReceiveKeeps ==
    ASSUME PosixInv, NEW t \in Posix!Threads, Posix!mq_receive(t) PROVE PosixInv'
  <1> USE DEF PosixInv
  <1>0. /\ pqQueue \in Seq(Posix!Inputs) /\ pqQueue # <<>> /\ pqBuf[t] = 0
        /\ pqBuf \in [Posix!Threads -> Posix!Ids]
        /\ pqBuf' = [pqBuf EXCEPT ![t] = Head(pqQueue).id] /\ pqQueue' = Tail(pqQueue)
        /\ pqMain' = pqMain /\ pqInput' = pqInput
        /\ pqPrinted' = pqPrinted /\ pqAccepted' = pqAccepted
    BY DEF Posix!mq_receive, Posix!MayReceive, Posix!BufAfter, Posix!TypeOK
  <1>1. OneLonger(Posix!Inputs, pqQueue, pqQueue', 1) /\ Head(pqQueue) = pqQueue[1]
    BY <1>0, TailIsShorter
  <1>2. /\ pqQueue' \in Seq(Posix!Inputs) /\ Len(pqQueue) = Len(pqQueue') + 1
        /\ 1 \in DOMAIN pqQueue
        /\ \A k \in DOMAIN pqQueue' : Above(k, 1) \in DOMAIN pqQueue /\ Above(k, 1) # 1
                                      /\ pqQueue[Above(k, 1)] = pqQueue'[k]
        /\ \A k \in DOMAIN pqQueue : k # 1 =>
              Below(k, 1) \in DOMAIN pqQueue' /\ pqQueue'[Below(k, 1)] = pqQueue[k]
    BY <1>1 DEF OneLonger
  <1>3. DOMAIN pqQueue' = 1 .. Len(pqQueue') /\ Len(pqQueue') \in Nat /\ Len(pqQueue) \in Nat
    BY <1>0, <1>2, LenProperties
  <1>4. \A k, m \in DOMAIN pqQueue' : Above(k, 1) = Above(m, 1) => k = m
    BY <1>3 DEF Above
  <1>5. PICK h : h = pqQueue[1].id
    OBVIOUS
  <1>6. h \in Posix!Ids /\ h # 0 /\ \A u \in Posix!Threads : pqBuf[u] # h
    <2>1. pqQueue[1] \in Posix!Inputs
      BY <1>0, <1>2, LenProperties, ElementOfSeq
    <2> QED BY <1>2, <1>5, <2>1, InputFields DEF OnePlace
  <1>7. \A u \in Posix!Threads : pqBuf'[u] = IF u = t THEN h ELSE pqBuf[u]
    BY <1>0, <1>1, <1>5
  <1>8. \A k \in DOMAIN pqQueue' : pqQueue'[k].id # h
    BY <1>2, <1>5 DEF OnePlace
  <1>9. \A id : Queued(id) <=> Queued(id)' \/ id = h
    <2>1. ASSUME NEW k \in DOMAIN pqQueue'
          PROVE  \E m \in DOMAIN pqQueue : pqQueue[m].id = pqQueue'[k].id
      BY <1>2
    <2>2. ASSUME NEW k \in DOMAIN pqQueue
          PROVE  k = 1 \/ \E m \in DOMAIN pqQueue' : pqQueue'[m].id = pqQueue[k].id
      BY <1>2
    <2> SUFFICES ASSUME NEW id PROVE Queued(id) <=> Queued(id)' \/ id = h
      OBVIOUS
    <2>3. Queued(id)' <=> \E k \in DOMAIN pqQueue' : pqQueue'[k].id = id
      BY DEF Queued
    <2>4. Queued(id) <=> \E k \in DOMAIN pqQueue : pqQueue[k].id = id
      BY DEF Queued
    <2>5. Queued(id)' => Queued(id)
      BY <2>1, <2>3, <2>4
    <2>6. id = h => Queued(id)
      BY <1>2, <1>5, <2>4
    <2>7. ASSUME Queued(id) PROVE Queued(id)' \/ id = h
      <3>1. PICK k \in DOMAIN pqQueue : pqQueue[k].id = id
        BY <2>4, <2>7
      <3> QED BY <3>1, <1>5, <2>2, <2>3
    <2> QED BY <2>5, <2>6, <2>7
  <1>10. \A id : Held(id)' <=> Held(id) \/ id = h
    BY <1>0, <1>6, <1>7 DEF Held
  <1>11. AccountById'
    BY <1>0, <1>9, <1>10, AccountIsById DEF AccountById
  <1>12. Posix!UnseenAccounted'
    BY <1>11, AccountIsByIdNext
  <1>13. OnePlace'
    <2>1. \A k, m \in DOMAIN pqQueue' : pqQueue'[k].id = pqQueue'[m].id => k = m
      BY <1>2, <1>4 DEF OnePlace
    <2>2. \A k \in DOMAIN pqQueue' :
             pqQueue'[k].id # 0 /\ \A u \in Posix!Threads : pqQueue'[k].id # pqBuf'[u]
      BY <1>2, <1>7, <1>8 DEF OnePlace
    <2>3. \A u, v \in Posix!Threads : pqBuf'[u] = pqBuf'[v] => u = v \/ pqBuf'[u] = 0
      BY <1>6, <1>7 DEF OnePlace
    <2> QED BY <2>1, <2>2, <2>3 DEF OnePlace
  <1>14. Posix!TypeOK'
    <2>1. pqBuf' \in [Posix!Threads -> Posix!Ids]
      BY <1>0, <1>1, <1>5, <1>6
    <2>2. Len(pqQueue') <= PosixMax
      BY <1>2, <1>3, PosixAssumption DEF Posix!TypeOK
    <2> QED BY <1>0, <1>2, <2>1, <2>2 DEF Posix!TypeOK
  <1>15. FreshInput'
    BY <1>0 DEF FreshInput
  <1> QED BY <1>12, <1>13, <1>14, <1>15

\* A printed message leaves the buffer that held it, and was nowhere else.
LEMMA PrintKeeps ==
    ASSUME PosixInv, NEW t \in Posix!Threads, Posix!PrintReceived(t) PROVE PosixInv'
  <1> USE DEF PosixInv
  <1>0. /\ pqBuf[t] # 0 /\ pqBuf \in [Posix!Threads -> Posix!Ids]
        /\ pqBuf' = [pqBuf EXCEPT ![t] = 0] /\ pqPrinted' = pqPrinted \cup {pqBuf[t]}
        /\ pqMain' = pqMain /\ pqInput' = pqInput
        /\ pqQueue' = pqQueue /\ pqAccepted' = pqAccepted
    BY DEF Posix!PrintReceived, Posix!BufAfter, Posix!TypeOK
  <1>1. \A u \in Posix!Threads : pqBuf'[u] = IF u = t THEN 0 ELSE pqBuf[u]
    BY <1>0
  <1>2. PICK h : h = pqBuf[t]
    OBVIOUS
  <1>3. ~Queued(h) /\ Held(h)
    BY <1>0, <1>2 DEF Queued, Held, OnePlace
  <1>4. \A id : Held(id)' <=> Held(id) /\ id # h
    BY <1>0, <1>1, <1>2 DEF Held, OnePlace
  <1>5. \A id : Queued(id)' <=> Queued(id)
    BY <1>0 DEF Queued
  <1>6. AccountById
    BY AccountIsById
  <1>7. AccountById'
    BY <1>0, <1>2, <1>3, <1>4, <1>5, <1>6 DEF AccountById
  <1>8. Posix!UnseenAccounted'
    BY <1>7, AccountIsByIdNext
  <1>9. OnePlace'
    BY <1>0, <1>1 DEF OnePlace
  <1>10. h \in pqAccepted /\ h \in Posix!Ids
    BY <1>0, <1>2, <1>3, <1>6 DEF AccountById
  <1>11. Posix!TypeOK'
    <2>1. pqBuf' \in [Posix!Threads -> Posix!Ids]
      BY <1>0, PosixAssumption DEF Posix!Ids
    <2> QED BY <1>0, <1>2, <1>10, <2>1 DEF Posix!TypeOK
  <1>12. FreshInput'
    BY <1>0, <1>2, <1>10 DEF FreshInput
  <1> QED BY <1>8, <1>9, <1>11, <1>12

\* Every step of the POSIX queue demo keeps the invariant.
LEMMA PosixNext == PosixInv /\ [Next]_vars => PosixInv'
  <1> SUFFICES ASSUME PosixInv, [Next]_vars PROVE PosixInv'
    OBVIOUS
  <1>1. ASSUME NEW prio \in PosixPriorities, NEW kind \in Posix!Kinds, Posix!Type(prio, kind)
        PROVE  PosixInv'
    <2> USE DEF PosixInv
    <2>1. /\ pqMain = "input" /\ pqMain' = "send" /\ pqInput.id \in Nat
          /\ pqInput.id < PosixInputs
          /\ pqInput' = [id |-> pqInput.id + 1, prio |-> prio, kind |-> kind]
          /\ pqQueue' = pqQueue /\ pqBuf' = pqBuf
          /\ pqPrinted' = pqPrinted /\ pqAccepted' = pqAccepted
      BY <1>1, PosixAssumption DEF Posix!Type, FreshInput
    <2>2. /\ pqInput'.id = pqInput.id + 1 /\ pqInput' \in Posix!Inputs
          /\ pqInput'.kind \in Posix!Kinds /\ pqInput'.id \in Posix!Ids
      BY <2>1, PosixAssumption DEF Posix!Inputs, Posix!Ids
    <2>3. FreshInput'
      <3>1. \A id \in pqAccepted : id \in Nat /\ id # 0
                                   /\ (id <= pqInput.id \/ id = PosixInputs + 1)
        BY PosixAssumption DEF FreshInput, Posix!TypeOK, Posix!Ids
      <3>2. pqInput.id + 1 \notin pqAccepted
        BY <2>1, <3>1, PosixAssumption
      <3>3. \A id \in pqAccepted' : id # 0 /\ (id <= pqInput'.id \/ id = PosixInputs + 1)
        BY <2>1, <2>2, <3>1
      <3>4. pqInput'.id \in 0 .. PosixInputs /\ pqInput'.id # 0
        BY <2>1, <2>2, PosixAssumption
      <3>5. pqInput'.id \notin pqAccepted'
        BY <2>1, <2>2, <3>2
      <3> QED BY <2>1, <2>2, <3>3, <3>4, <3>5 DEF FreshInput
    <2>4. Posix!TypeOK'
      BY <2>1, <2>2 DEF Posix!TypeOK
    <2>5. OnePlace' /\ Posix!UnseenAccounted'
      BY <2>1 DEF OnePlace, Posix!UnseenAccounted
    <2> QED BY <2>3, <2>4, <2>5
  <1>2. CASE Posix!Send
    BY <1>2, SendKeeps
  <1>3. CASE Posix!mq_close \/ Posix!mq_unlink
    BY <1>3 DEF Posix!mq_close, Posix!mq_unlink, PosixInv, Posix!TypeOK, OnePlace,
                FreshInput, Posix!UnseenAccounted
  <1>4. ASSUME NEW t \in Posix!Threads, Posix!mq_receive(t) \/ Posix!PrintReceived(t)
        PROVE  PosixInv'
    BY <1>4, ReceiveKeeps, PrintKeeps
  <1>5. CASE UNCHANGED pq
    BY <1>5 DEF pq, PosixInv, Posix!TypeOK, OnePlace, FreshInput, Posix!UnseenAccounted
  <1> QED BY <1>1, <1>2, <1>3, <1>4, <1>5 DEF Next, Posix!Next, vars

-------------------------------------------------------------------------------
(* SysvQueue.                                                              *)

\* thr_fun1 holds an answer except while it receives, an answer has type 2, and
\* only answers have a type other than the one asked for.
AnswersTyped ==
    /\ sqThr1 = "receive" => sqAnswer = Sysv!NoMessage
    /\ sqThr1 # "receive" => sqAnswer.type = 2 /\ sqAnswer.asked = 1
    /\ \A k \in DOMAIN sqQueue :
          sqQueue[k].type = sqQueue[k].asked \/ (sqQueue[k].type = 2 /\ sqQueue[k].asked = 1)

\* No message carries a number that was not sent yet.
SentSoFar ==
    /\ \A k \in DOMAIN sqQueue : sqQueue[k].id <= Sysv!Sent
    /\ \A k \in DOMAIN sqPrinted : sqPrinted[k].id <= Sysv!Sent
    /\ sqAnswer.id <= Sysv!Sent
    /\ sqMain = "send" => sqMsg.id >= 1 /\ sqMsg.type = sqMsg.asked

\* Messages asked with one type keep their order on the way from the queue over
\* thr_fun1 and the queue again to the printed ones.  Ahead(a, b): if a and b
\* are on the queue and were asked with one type, b behind a, and have one type
\* now, or a is an answer and b is not, then a was sent before b.
Ahead(a, b) == a.asked = b.asked => a.id < b.id
QueueOrder ==
    \A k, m \in DOMAIN sqQueue :
        \/ k < m /\ sqQueue[k].type = sqQueue[m].type
        \/ sqQueue[k].type = 2 /\ sqQueue[m].type # 2
        => Ahead(sqQueue[k], sqQueue[m])
PrintedBefore ==
    \A k \in DOMAIN sqPrinted, m \in DOMAIN sqQueue : Ahead(sqPrinted[k], sqQueue[m])
AnswerBetween ==
    sqThr1 = "send" =>
        /\ \A k \in DOMAIN sqPrinted : Ahead(sqPrinted[k], sqAnswer)
        /\ \A k \in DOMAIN sqQueue :
              IF sqQueue[k].type = 2 THEN Ahead(sqQueue[k], sqAnswer)
                                     ELSE Ahead(sqAnswer, sqQueue[k])

\* Before thr_fun3 took its message nothing is missing, and it exits only once
\* the queue is gone.
Missing ==
    /\ sqExists /\ Sysv!Running /\ sqThr3 = "receive" =>
          \A id \in 1 .. Sysv!Sent : Sysv!Present(id)
    /\ sqThr3 = "exited" => ~sqExists

SysvInv ==
    /\ Sysv!TypeOK /\ Sysv!PrintedInOrder /\ Sysv!NothingLostBeforeRemoval
    /\ AnswersTyped /\ SentSoFar /\ QueueOrder /\ PrintedBefore /\ AnswerBetween /\ Missing

\* What Messages are made of.
LEMMA MessageFields ==
    ASSUME NEW q \in Sysv!Messages
    PROVE  /\ q.type \in Sysv!AllTypes /\ q.asked \in Sysv!AllTypes
           /\ q.id \in Nat /\ q.id <= SysvSends
           /\ [q EXCEPT !.type = 2] \in Sysv!Messages
           /\ [q EXCEPT !.type = 2].type = 2 /\ [q EXCEPT !.type = 2].asked = q.asked
           /\ [q EXCEPT !.type = 2].id = q.id
  BY SysvAssumption DEF Sysv!Messages, Sysv!AllTypes

\* The messages on the queue and the printed ones are messages.
LEMMA SysvTypes1 ==
    ASSUME Sysv!TypeOK
    PROVE  /\ \A k \in DOMAIN sqQueue : sqQueue[k] \in Sysv!Messages /\ sqQueue[k].id \in Nat
           /\ \A k \in DOMAIN sqPrinted : sqPrinted[k] \in Sysv!Messages
                                          /\ sqPrinted[k].id \in Nat
           /\ sqMsg.id \in Nat /\ sqAnswer.id \in Nat /\ Sysv!Sent \in Int
           /\ DOMAIN sqQueue \subseteq Nat /\ DOMAIN sqPrinted \subseteq Nat
           /\ DOMAIN sqQueue = 1 .. Len(sqQueue) /\ Len(sqQueue) \in Nat
  <1>1. /\ sqQueue \in Seq(Sysv!Messages) /\ sqPrinted \in Seq(Sysv!Messages)
        /\ sqMsg \in Sysv!Messages /\ sqAnswer \in Sysv!Messages
    BY DEF Sysv!TypeOK
  <1>2. /\ DOMAIN sqQueue = 1 .. Len(sqQueue) /\ Len(sqQueue) \in Nat
        /\ DOMAIN sqPrinted = 1 .. Len(sqPrinted) /\ Len(sqPrinted) \in Nat
    BY <1>1, LenProperties
  <1>3. /\ \A k \in DOMAIN sqQueue : sqQueue[k] \in Sysv!Messages
        /\ \A k \in DOMAIN sqPrinted : sqPrinted[k] \in Sysv!Messages
    BY <1>1, <1>2, ElementOfSeq
  <1>4. sqMsg.id \in Nat /\ sqAnswer.id \in Nat
    BY <1>1, MessageFields
  <1>5. Sysv!Sent \in Int
    BY <1>4 DEF Sysv!Sent
  <1>6. /\ \A k \in DOMAIN sqQueue : sqQueue[k].id \in Nat
        /\ \A k \in DOMAIN sqPrinted : sqPrinted[k].id \in Nat
    BY <1>3, MessageFields
  <1>7. DOMAIN sqQueue \subseteq Nat /\ DOMAIN sqPrinted \subseteq Nat
    BY <1>2
  <1> QED BY <1>2, <1>3, <1>4, <1>5, <1>6, <1>7

\* msgrcv finds the oldest message of its type.
LEMMA FirstOfType ==
    ASSUME Sysv!TypeOK, NEW type, Sysv!Waiting(type)
    PROVE  /\ Sysv!FirstOf(type) \in DOMAIN sqQueue
           /\ sqQueue[Sysv!FirstOf(type)].type = type
           /\ \A k \in DOMAIN sqQueue :
                 sqQueue[k].type = type /\ k # Sysv!FirstOf(type) => Sysv!FirstOf(type) < k
  <1> DEFINE T == {k \in DOMAIN sqQueue : sqQueue[k].type = type}
  <1>1. T \in SUBSET Nat /\ T # {}
    BY SysvTypes1 DEF Sysv!Waiting
  <1>2. PICK n \in T : \A k \in T : n <= k
    BY <1>1, LeastNatural
  <1>3. DOMAIN sqQueue = 1 .. Len(sqQueue) /\ Len(sqQueue) \in Nat
    BY SysvTypes1
  <1>4. n \in DOMAIN sqQueue /\ sqQueue[n].type = type
        /\ \A k \in 1 .. n - 1 : sqQueue[k].type # type
    <2>1. ASSUME NEW k \in 1 .. n - 1 PROVE sqQueue[k].type # type
      <3>1. k \in DOMAIN sqQueue /\ ~(n <= k)
        BY <1>3
      <3> QED BY <1>2, <3>1
    <2> QED BY <2>1
  <1>5. PICK f : f = Sysv!FirstOf(type)
    OBVIOUS
  <1>6. f \in DOMAIN sqQueue /\ sqQueue[f].type = type
        /\ \A k \in 1 .. f - 1 : sqQueue[k].type # type
    BY <1>4, <1>5, Zenon DEF Sysv!FirstOf
  <1>7. ASSUME NEW k \in DOMAIN sqQueue, sqQueue[k].type = type, k # f PROVE f < k
    <2>1. k \notin 1 .. f - 1
      BY <1>6, <1>7
    <2> QED BY <1>3, <1>6, <1>7, <2>1
  <1> QED BY <1>5, <1>6, <1>7

\* Taking a message off the queue leaves the others in order.
LEMMA SysvRemove ==
    ASSUME SysvInv, NEW p \in DOMAIN sqQueue, sqQueue' = Sysv!RemoveAt(sqQueue, p)
    PROVE  /\ sqQueue' \in Seq(Sysv!Messages) /\ Len(sqQueue') <= SysvCapacity
           /\ \A k \in DOMAIN sqQueue' :
                 \E m \in DOMAIN sqQueue : m # p /\ sqQueue'[k] = sqQueue[m]
           /\ \A m \in DOMAIN sqQueue :
                 m # p => \E k \in DOMAIN sqQueue' : sqQueue'[k] = sqQueue[m]
           /\ QueueOrder'
  <1>0. /\ sqQueue \in Seq(Sysv!Messages) /\ Len(sqQueue) <= SysvCapacity
        /\ DOMAIN sqQueue = 1 .. Len(sqQueue) /\ Len(sqQueue) \in Nat
    BY SysvTypes1 DEF SysvInv, Sysv!TypeOK
  <1>1. OneLonger(Sysv!Messages, sqQueue, sqQueue', p)
    BY <1>0, RemovedIsShorter DEF Sysv!RemoveAt, Removed
  <1>2. /\ sqQueue' \in Seq(Sysv!Messages) /\ Len(sqQueue) = Len(sqQueue') + 1
        /\ \A k \in DOMAIN sqQueue' : Above(k, p) \in DOMAIN sqQueue /\ Above(k, p) # p
                                      /\ sqQueue[Above(k, p)] = sqQueue'[k]
        /\ \A k \in DOMAIN sqQueue : k # p =>
              Below(k, p) \in DOMAIN sqQueue' /\ sqQueue'[Below(k, p)] = sqQueue[k]
    BY <1>1 DEF OneLonger
  <1>3. Len(sqQueue') \in Nat /\ DOMAIN sqQueue' = 1 .. Len(sqQueue')
    BY <1>2, LenProperties
  <1>4. \A k, m \in DOMAIN sqQueue' : k < m => Above(k, p) < Above(m, p)
    BY <1>0, <1>3 DEF Above
  <1>5. QueueOrder'
    <2>1. ASSUME NEW k \in DOMAIN sqQueue', NEW m \in DOMAIN sqQueue',
                 \/ k < m /\ sqQueue'[k].type = sqQueue'[m].type
                 \/ sqQueue'[k].type = 2 /\ sqQueue'[m].type # 2
          PROVE  Ahead(sqQueue'[k], sqQueue'[m])
      <3>1. /\ Above(k, p) \in DOMAIN sqQueue /\ sqQueue[Above(k, p)] = sqQueue'[k]
            /\ Above(m, p) \in DOMAIN sqQueue /\ sqQueue[Above(m, p)] = sqQueue'[m]
            /\ k < m => Above(k, p) < Above(m, p)
        BY <1>2, <1>4
      <3>2. \A a, b \in DOMAIN sqQueue :
               \/ a < b /\ sqQueue[a].type = sqQueue[b].type
               \/ sqQueue[a].type = 2 /\ sqQueue[b].type # 2
               => Ahead(sqQueue[a], sqQueue[b])
        BY DEF SysvInv, QueueOrder
      <3> QED BY <2>1, <3>1, <3>2
    <2> QED BY <2>1 DEF QueueOrder, Ahead
  <1>6. /\ \A k \in DOMAIN sqQueue' :
              \E m \in DOMAIN sqQueue : m # p /\ sqQueue'[k] = sqQueue[m]
        /\ \A m \in DOMAIN sqQueue :
              m # p => \E k \in DOMAIN sqQueue' : sqQueue'[k] = sqQueue[m]
    BY <1>2
  <1>7. Len(sqQueue') <= SysvCapacity
    BY <1>0, <1>2, <1>3, SysvAssumption
  <1> QED BY <1>2, <1>5, <1>6, <1>7

\* Putting a message behind the ones it was sent after keeps them in order.
LEMMA SysvAppend ==
    ASSUME SysvInv, NEW e \in Sysv!Messages, Sysv!msgsnd(e),
           \A k \in DOMAIN sqQueue :
              IF sqQueue[k].type = e.type \/ sqQueue[k].type = 2
              THEN Ahead(sqQueue[k], e) ELSE e.type = 2 => Ahead(e, sqQueue[k])
    PROVE  /\ sqQueue' \in Seq(Sysv!Messages) /\ Len(sqQueue') <= SysvCapacity
           /\ \A k \in DOMAIN sqQueue' :
                 sqQueue'[k] = e \/ \E m \in DOMAIN sqQueue : sqQueue'[k] = sqQueue[m]
           /\ \A m \in DOMAIN sqQueue : \E k \in DOMAIN sqQueue' : sqQueue'[k] = sqQueue[m]
           /\ \E k \in DOMAIN sqQueue' : sqQueue'[k] = e
           /\ QueueOrder'
  <1>0. /\ sqQueue \in Seq(Sysv!Messages) /\ ~(Len(sqQueue) >= SysvCapacity)
        /\ DOMAIN sqQueue = 1 .. Len(sqQueue) /\ Len(sqQueue) \in Nat
        /\ sqQueue' = Append(sqQueue, e)
    BY SysvTypes1 DEF SysvInv, Sysv!TypeOK, Sysv!msgsnd, Sysv!Full
  <1>p. PICK p : p = Len(sqQueue) + 1
    OBVIOUS
  <1>1. OneLonger(Sysv!Messages, sqQueue', sqQueue, p) /\ sqQueue'[p] = e
    BY <1>0, <1>p, AppendedIsLonger
  <1>2. /\ sqQueue' \in Seq(Sysv!Messages) /\ Len(sqQueue') = Len(sqQueue) + 1
        /\ p \in DOMAIN sqQueue'
        /\ \A k \in DOMAIN sqQueue : Above(k, p) \in DOMAIN sqQueue'
                                     /\ sqQueue'[Above(k, p)] = sqQueue[k]
        /\ \A k \in DOMAIN sqQueue' : k # p =>
              Below(k, p) \in DOMAIN sqQueue /\ sqQueue[Below(k, p)] = sqQueue'[k]
    BY <1>1 DEF OneLonger
  <1>3. DOMAIN sqQueue' = 1 .. Len(sqQueue) + 1
    BY <1>0, <1>2, LenProperties
  <1>4. /\ \A k, m \in DOMAIN sqQueue' : k < m /\ m # p => Below(k, p) < Below(m, p) /\ k # p
        /\ \A k \in DOMAIN sqQueue' : ~(p < k)
    BY <1>0, <1>p, <1>3 DEF Below
  <1>5. QueueOrder'
    <2>1. ASSUME NEW k \in DOMAIN sqQueue', NEW m \in DOMAIN sqQueue',
                 \/ k < m /\ sqQueue'[k].type = sqQueue'[m].type
                 \/ sqQueue'[k].type = 2 /\ sqQueue'[m].type # 2
          PROVE  Ahead(sqQueue'[k], sqQueue'[m])
      <3>1. CASE k # p /\ m # p
        BY <1>2, <1>4, <2>1, <3>1 DEF SysvInv, QueueOrder
      <3>2. CASE k # p /\ m = p
        BY <1>1, <1>2, <2>1, <3>2
      <3>3. CASE k = p /\ m # p
        BY <1>1, <1>2, <1>4, <2>1, <3>3
      <3>4. CASE k = p /\ m = p
        BY <1>4, <2>1, <3>4
      <3> QED BY <3>1, <3>2, <3>3, <3>4
    <2> QED BY <2>1 DEF QueueOrder, Ahead
  <1>6. Len(sqQueue') <= SysvCapacity
    BY <1>0, <1>2, SysvAssumption
  <1> QED BY <1>1, <1>2, <1>5, <1>6

\* A step that took e, the oldest message of its type, off the queue.
Taken(e) ==
    /\ e \in Sysv!Messages
    /\ sqQueue' \in Seq(Sysv!Messages) /\ Len(sqQueue') <= SysvCapacity /\ QueueOrder'
    /\ \E m \in DOMAIN sqQueue : sqQueue[m] = e
    /\ \A k \in DOMAIN sqQueue' : \E m \in DOMAIN sqQueue : sqQueue[m] = sqQueue'[k]
    /\ \A m \in DOMAIN sqQueue :
          sqQueue[m] = e \/ \E k \in DOMAIN sqQueue' : sqQueue'[k] = sqQueue[m]
    /\ \A k \in DOMAIN sqQueue' :
          /\ sqQueue'[k].type = e.type \/ e.type = 2 => Ahead(e, sqQueue'[k])
          /\ e.type # 2 /\ sqQueue'[k].type = 2 => Ahead(sqQueue'[k], e)

\* What msgrcv takes comes before the messages of its type that stay.
LEMMA SysvTake ==
    ASSUME SysvInv, NEW type, Sysv!Waiting(type),
           sqQueue' = Sysv!RemoveAt(sqQueue, Sysv!FirstOf(type))
    PROVE  Taken(sqQueue[Sysv!FirstOf(type)]) /\ sqQueue[Sysv!FirstOf(type)].type = type
  <1>t. Sysv!TypeOK
    BY DEF SysvInv
  <1>0. /\ Sysv!FirstOf(type) \in DOMAIN sqQueue
        /\ sqQueue[Sysv!FirstOf(type)].type = type
        /\ \A k \in DOMAIN sqQueue :
              sqQueue[k].type = type /\ k # Sysv!FirstOf(type) => Sysv!FirstOf(type) < k
    BY <1>t, FirstOfType
  <1>1. PICK p : /\ p = Sysv!FirstOf(type) /\ p \in DOMAIN sqQueue /\ sqQueue[p].type = type
                 /\ \A k \in DOMAIN sqQueue : sqQueue[k].type = type /\ k # p => p < k
    BY <1>0, Zenon
  <1>2. /\ sqQueue' \in Seq(Sysv!Messages) /\ Len(sqQueue') <= SysvCapacity
        /\ \A k \in DOMAIN sqQueue' :
              \E m \in DOMAIN sqQueue : m # p /\ sqQueue'[k] = sqQueue[m]
        /\ \A m \in DOMAIN sqQueue :
              m # p => \E k \in DOMAIN sqQueue' : sqQueue'[k] = sqQueue[m]
        /\ QueueOrder'
    BY <1>1, SysvRemove
  <1>3. PICK e : e = sqQueue[p]
    OBVIOUS
  <1>4. e \in Sysv!Messages /\ e.type = type
    BY <1>t, <1>1, <1>3, SysvTypes1
  <1>5. ASSUME NEW k \in DOMAIN sqQueue'
        PROVE  /\ sqQueue'[k].type = e.type \/ e.type = 2 => Ahead(e, sqQueue'[k])
               /\ e.type # 2 /\ sqQueue'[k].type = 2 => Ahead(sqQueue'[k], e)
    <2>1. PICK m \in DOMAIN sqQueue : m # p /\ sqQueue'[k] = sqQueue[m]
      BY <1>2
    <2>2. /\ p < m /\ sqQueue[p].type = sqQueue[m].type => Ahead(sqQueue[p], sqQueue[m])
          /\ sqQueue[p].type = 2 /\ sqQueue[m].type # 2 => Ahead(sqQueue[p], sqQueue[m])
          /\ sqQueue[m].type = 2 /\ sqQueue[p].type # 2 => Ahead(sqQueue[m], sqQueue[p])
      BY <1>1 DEF SysvInv, QueueOrder
    <2>3. sqQueue[m].type = sqQueue[p].type => p < m
      BY <1>1, <2>1
    <2> QED BY <1>3, <2>1, <2>2, <2>3
  <1>6. Taken(e)
    <2>1. \A m \in DOMAIN sqQueue :
             sqQueue[m] = e \/ \E k \in DOMAIN sqQueue' : sqQueue'[k] = sqQueue[m]
      BY <1>2, <1>3
    <2>2. \A k \in DOMAIN sqQueue' : \E m \in DOMAIN sqQueue : sqQueue[m] = sqQueue'[k]
      BY <1>2
    <2>3. \E m \in DOMAIN sqQueue : sqQueue[m] = e
      BY <1>1, <1>3
    <2> QED BY <1>2, <1>4, <1>5, <2>1, <2>2, <2>3 DEF Taken
  <1>7. sqQueue[Sysv!FirstOf(type)] = e
    BY <1>1, <1>3, Zenon
  <1> QED BY <1>4, <1>6, <1>7

\* Nothing is lost by a step after which every message that was somewhere still is.
LEMMA NoneDisappears ==
    ASSUME SysvInv, sqExists' = sqExists, sqThr3' = sqThr3, Sysv!Sent' = Sysv!Sent,
           Sysv!Running,
           \A id \in 1 .. Sysv!Sent : Sysv!Present(id) => Sysv!Present(id)'
    PROVE  Sysv!NothingLostBeforeRemoval' /\ Missing'
  BY DEF SysvInv, Sysv!NothingLostBeforeRemoval, Missing

\* The messages are queued, held or printed: thr_fun1 takes one.
LEMMA AnswerKeeps ==
    ASSUME SysvInv, Sysv!thr_fun1_receive
    PROVE  SysvInv'
  <1>t. Sysv!TypeOK
    BY DEF SysvInv
  <1>0. /\ sqThr1' \in {"send", "astray"} /\ sqThr1 = "receive" /\ Sysv!Waiting(1)
        /\ sqMain # "returned" /\ sqThr2' = sqThr2
        /\ sqQueue' = Sysv!RemoveAt(sqQueue, Sysv!FirstOf(1))
        /\ sqAnswer' = [sqQueue[Sysv!FirstOf(1)] EXCEPT !.type = 2]
        /\ sqExists' = sqExists /\ sqMain' = sqMain /\ sqMsg' = sqMsg /\ sqThr3' = sqThr3
        /\ sqPrinted' = sqPrinted
    BY DEF Sysv!thr_fun1_receive, Sysv!msgrcv, Sysv!AnswerType, Sysv!AfterReceive, Sysv!Running
  <1>1. PICK e : e = sqQueue[Sysv!FirstOf(1)] /\ Taken(e) /\ e.type = 1
    BY <1>0, SysvTake, Zenon
  <1>2. /\ e \in Sysv!Messages /\ sqAnswer' \in Sysv!Messages
        /\ sqAnswer'.type = 2 /\ sqAnswer'.asked = e.asked /\ sqAnswer'.id = e.id
    <2>1. e \in Sysv!Messages
      BY <1>1 DEF Taken
    <2>2. sqAnswer' = [e EXCEPT !.type = 2]
      BY <1>0, <1>1, Zenon
    <2> QED BY <2>1, <2>2, MessageFields
  <1>3. PICK w \in DOMAIN sqQueue : sqQueue[w] = e
    BY <1>1 DEF Taken
  <1>4. e.asked = 1
    BY <1>1, <1>3 DEF SysvInv, AnswersTyped
  <1>5. \A k \in DOMAIN sqQueue' : sqQueue'[k].type = sqQueue'[k].asked
                                   \/ (sqQueue'[k].type = 2 /\ sqQueue'[k].asked = 1)
    BY <1>1 DEF SysvInv, AnswersTyped, Taken
  <1>6. Sysv!Sent' = Sysv!Sent
    BY <1>0 DEF Sysv!Sent
  <1>7. SentSoFar'
    <2>1. /\ \A k \in DOMAIN sqQueue' : sqQueue'[k].id <= Sysv!Sent
          /\ sqAnswer'.id <= Sysv!Sent
      BY <1>1, <1>2, <1>3 DEF SysvInv, SentSoFar, Taken
    <2> QED BY <1>0, <1>6, <2>1 DEF SysvInv, SentSoFar
  <1>8. PrintedBefore'
    BY <1>0, <1>1 DEF SysvInv, PrintedBefore, Taken, Ahead
  <1>9. AnswerBetween'
    <2>1. ASSUME NEW k \in DOMAIN sqPrinted PROVE Ahead(sqPrinted[k], sqAnswer')
      <3>1. Ahead(sqPrinted[k], e)
        BY <1>3 DEF SysvInv, PrintedBefore
      <3> QED BY <1>2, <3>1 DEF Ahead
    <2>2. ASSUME NEW k \in DOMAIN sqQueue'
          PROVE  IF sqQueue'[k].type = 2 THEN Ahead(sqQueue'[k], sqAnswer')
                                         ELSE Ahead(sqAnswer', sqQueue'[k])
      <3>1. /\ sqQueue'[k].type = 1 => Ahead(e, sqQueue'[k])
            /\ sqQueue'[k].type = 2 => Ahead(sqQueue'[k], e)
        BY <1>1 DEF Taken
      <3>2. sqQueue'[k].type # 2 /\ sqQueue'[k].asked = 1 => sqQueue'[k].type = 1
        BY <1>5
      <3> QED BY <1>2, <1>4, <3>1, <3>2 DEF Ahead
    <2> QED BY <1>0, <2>1, <2>2 DEF AnswerBetween, Ahead
  <1>10. Sysv!NothingLostBeforeRemoval' /\ Missing'
    <2>1. ASSUME NEW id \in 1 .. Sysv!Sent, Sysv!Present(id) PROVE Sysv!Present(id)'
      <3>0. sqAnswer.id = 0 /\ id # 0
        BY <1>0, <1>t, SysvTypes1 DEF SysvInv, AnswersTyped, Sysv!NoMessage, Sysv!Message
      <3>1. CASE \E k \in DOMAIN sqQueue : sqQueue[k].id = id
        BY <1>1, <1>2, <3>1 DEF Taken, Sysv!Present
      <3>2. CASE \E k \in DOMAIN sqPrinted : sqPrinted[k].id = id
        BY <1>0, <3>2 DEF Sysv!Present
      <3> QED BY <2>1, <3>0, <3>1, <3>2 DEF Sysv!Present
    <2> QED BY <1>0, <1>6, <2>1, NoneDisappears DEF Sysv!Running
  <1>11. Sysv!TypeOK'
    BY <1>0, <1>1, <1>2, <1>t DEF Taken, Sysv!TypeOK
  <1>12. Sysv!PrintedInOrder'
    BY <1>0 DEF SysvInv, Sysv!PrintedInOrder
  <1>13. AnswersTyped'
    BY <1>0, <1>2, <1>4, <1>5 DEF AnswersTyped
  <1>14. QueueOrder'
    BY <1>1 DEF Taken
  <1> QED BY <1>7, <1>8, <1>9, <1>10, <1>11, <1>12, <1>13, <1>14 DEF SysvInv

\* thr_fun1 sends its answer, or finds the queue gone.
LEMMA AnsweredKeeps ==
    ASSUME SysvInv, Sysv!thr_fun1_send
    PROVE  SysvInv'
  <1>t. Sysv!TypeOK
    BY DEF SysvInv
  <1>0. /\ sqThr1 = "send" /\ sqThr1' = "receive" /\ sqAnswer' = Sysv!NoMessage
        /\ sqMain # "returned" /\ sqThr2' = sqThr2
        /\ sqExists' = sqExists /\ sqMain' = sqMain /\ sqMsg' = sqMsg /\ sqThr3' = sqThr3
        /\ sqPrinted' = sqPrinted
        /\ IF Sysv!Rejected(sqAnswer) THEN sqQueue' = sqQueue ELSE Sysv!msgsnd(sqAnswer)
    BY DEF Sysv!thr_fun1_send, Sysv!SendAnswer, Sysv!Running
  <1>1. /\ sqAnswer \in Sysv!Messages /\ sqAnswer.type = 2 /\ sqAnswer.asked = 1
        /\ sqAnswer.id \in Nat
    BY <1>0, <1>t, SysvTypes1 DEF SysvInv, AnswersTyped, Sysv!TypeOK
  <1>2. Sysv!NoMessage \in Sysv!Messages /\ Sysv!NoMessage.id = 0
    BY SysvAssumption DEF Sysv!NoMessage, Sysv!Message, Sysv!Messages, Sysv!AllTypes
  <1>3. Sysv!Sent' = Sysv!Sent /\ Sysv!Sent \in Int
    BY <1>0, <1>t, SysvTypes1 DEF Sysv!Sent
  <1>4. Sysv!PrintedInOrder' /\ AnswerBetween'
    BY <1>0 DEF SysvInv, Sysv!PrintedInOrder, AnswerBetween
  <1>5. sqAnswer'.id <= Sysv!Sent
    BY <1>0, <1>1, <1>2, <1>3 DEF SysvInv, SentSoFar
  <1>6. CASE Sysv!Rejected(sqAnswer)
    <2>1. ~sqExists /\ sqQueue' = sqQueue
      BY <1>0, <1>1, <1>6 DEF Sysv!Rejected
    <2>2. Sysv!TypeOK'
      BY <1>0, <1>2, <1>t, <2>1 DEF Sysv!TypeOK
    <2>3. Sysv!NothingLostBeforeRemoval' /\ Missing'
      BY <1>0, <2>1 DEF Sysv!NothingLostBeforeRemoval, Missing
    <2>4. AnswersTyped' /\ PrintedBefore' /\ QueueOrder'
      BY <1>0, <2>1 DEF SysvInv, AnswersTyped, PrintedBefore, QueueOrder
    <2>5. SentSoFar'
      BY <1>0, <1>3, <1>5, <2>1 DEF SysvInv, SentSoFar
    <2> QED BY <1>4, <2>2, <2>3, <2>4, <2>5 DEF SysvInv
  <1>7. CASE Sysv!msgsnd(sqAnswer)
    <2>1. \A k \in DOMAIN sqQueue :
             IF sqQueue[k].type = 2 THEN Ahead(sqQueue[k], sqAnswer)
                                    ELSE Ahead(sqAnswer, sqQueue[k])
      BY <1>0 DEF SysvInv, AnswerBetween
    <2>2. /\ sqQueue' \in Seq(Sysv!Messages) /\ Len(sqQueue') <= SysvCapacity
          /\ \A k \in DOMAIN sqQueue' :
                sqQueue'[k] = sqAnswer \/ \E m \in DOMAIN sqQueue : sqQueue'[k] = sqQueue[m]
          /\ \A m \in DOMAIN sqQueue : \E k \in DOMAIN sqQueue' : sqQueue'[k] = sqQueue[m]
          /\ \E k \in DOMAIN sqQueue' : sqQueue'[k] = sqAnswer
          /\ QueueOrder'
      BY <1>1, <1>7, <2>1, SysvAppend
    <2>3. Sysv!TypeOK'
      BY <1>0, <1>2, <1>t, <2>2 DEF Sysv!TypeOK
    <2>4. AnswersTyped'
      BY <1>0, <1>1, <2>2 DEF SysvInv, AnswersTyped
    <2>5. PrintedBefore'
      <3>1. SUFFICES ASSUME NEW k \in DOMAIN sqPrinted, NEW m \in DOMAIN sqQueue'
                     PROVE  Ahead(sqPrinted[k], sqQueue'[m])
        BY <1>0 DEF PrintedBefore, Ahead
      <3>2. Ahead(sqPrinted[k], sqAnswer)
        BY <1>0, <3>1 DEF SysvInv, AnswerBetween
      <3>3. \A n \in DOMAIN sqQueue : Ahead(sqPrinted[k], sqQueue[n])
        BY <3>1 DEF SysvInv, PrintedBefore
      <3>4. sqQueue'[m] = sqAnswer \/ \E n \in DOMAIN sqQueue : sqQueue'[m] = sqQueue[n]
        BY <2>2, <3>1
      <3> QED BY ONLY <3>2, <3>3, <3>4
    <2>6. SentSoFar'
      <3>1. \A k \in DOMAIN sqQueue' : sqQueue'[k].id <= Sysv!Sent
        BY <2>2 DEF SysvInv, SentSoFar
      <3> QED BY <1>0, <1>3, <1>5, <3>1 DEF SysvInv, SentSoFar
    <2>7. Sysv!NothingLostBeforeRemoval' /\ Missing'
      <3>1. ASSUME NEW id \in 1 .. Sysv!Sent, Sysv!Present(id) PROVE Sysv!Present(id)'
        BY <1>0, <2>2, <3>1 DEF Sysv!Present
      <3> QED BY <1>0, <1>3, <3>1, NoneDisappears DEF Sysv!Running
    <2> QED BY <1>4, <2>2, <2>3, <2>4, <2>5, <2>6, <2>7 DEF SysvInv
  <1> QED BY <1>0, <1>6, <1>7

\* thr_fun2 prints a message of type 2.
LEMMA PrintingKeeps ==
    ASSUME SysvInv, Sysv!thr_fun2
    PROVE  SysvInv'
  <1>t. Sysv!TypeOK
    BY DEF SysvInv
  <1>0. /\ Sysv!Waiting(2) /\ sqMain # "returned" /\ sqThr2' \in {"receive", "astray"}
        /\ sqQueue' = Sysv!RemoveAt(sqQueue, Sysv!FirstOf(2))
        /\ sqPrinted' = Append(sqPrinted, sqQueue[Sysv!FirstOf(2)])
        /\ sqExists' = sqExists /\ sqMain' = sqMain /\ sqMsg' = sqMsg /\ sqThr1' = sqThr1
        /\ sqAnswer' = sqAnswer /\ sqThr3' = sqThr3
    BY Zenon DEF Sysv!thr_fun2, Sysv!PrintedBy2, Sysv!AfterReceive, Sysv!Running
  <1>1. PICK e : e = sqQueue[Sysv!FirstOf(2)] /\ Taken(e) /\ e.type = 2
    BY <1>0, SysvTake, Zenon
  <1>2. e \in Sysv!Messages /\ sqPrinted \in Seq(Sysv!Messages) /\ sqPrinted' = Append(sqPrinted, e)
    <2>1. sqPrinted' = Append(sqPrinted, e)
      BY <1>0, <1>1, Zenon
    <2> QED BY <1>1, <1>t, <2>1 DEF Taken, Sysv!TypeOK
  <1>3. PICK n : n = Len(sqPrinted)
    OBVIOUS
  <1>4. /\ sqPrinted' \in Seq(Sysv!Messages) /\ n \in Nat
        /\ DOMAIN sqPrinted = 1 .. n /\ DOMAIN sqPrinted' = 1 .. n + 1
        /\ sqPrinted'[n + 1] = e
        /\ \A k \in DOMAIN sqPrinted : k \in DOMAIN sqPrinted' /\ sqPrinted'[k] = sqPrinted[k]
    BY <1>2, <1>3, AppendProperties, LenProperties
  <1>5. \A k \in DOMAIN sqPrinted' : IF k = n + 1 THEN sqPrinted'[k] = e
                                     ELSE k \in DOMAIN sqPrinted /\ sqPrinted'[k] = sqPrinted[k]
    BY <1>4
  <1>6. PICK w \in DOMAIN sqQueue : sqQueue[w] = e
    BY <1>1 DEF Taken
  <1>7. Sysv!Sent' = Sysv!Sent
    BY <1>0 DEF Sysv!Sent
  <1>8. Sysv!TypeOK'
    BY <1>0, <1>1, <1>4, <1>t DEF Taken, Sysv!TypeOK
  <1>9. AnswersTyped'
    BY <1>0, <1>1 DEF SysvInv, AnswersTyped, Taken
  <1>10. SentSoFar'
    <2>1. /\ \A k \in DOMAIN sqQueue' : sqQueue'[k].id <= Sysv!Sent
          /\ e.id <= Sysv!Sent
      BY <1>1, <1>6 DEF SysvInv, SentSoFar, Taken
    <2>2. \A k \in DOMAIN sqPrinted' : sqPrinted'[k].id <= Sysv!Sent
      BY <1>5, <2>1 DEF SysvInv, SentSoFar
    <2> QED BY <1>0, <1>7, <2>1, <2>2 DEF SysvInv, SentSoFar
  <1>11. QueueOrder'
    BY <1>1 DEF Taken
  <1>12. PrintedBefore'
    <2>1. ASSUME NEW k \in DOMAIN sqPrinted', NEW m \in DOMAIN sqQueue'
          PROVE  Ahead(sqPrinted'[k], sqQueue'[m])
      <3>1. CASE k = n + 1
        BY <1>1, <1>5, <3>1 DEF Taken
      <3>2. CASE k # n + 1
        BY <1>1, <1>5, <3>2 DEF Taken, SysvInv, PrintedBefore
      <3> QED BY <3>1, <3>2
    <2> QED BY <2>1 DEF PrintedBefore, Ahead
  <1>13. AnswerBetween'
    <2>1. SUFFICES ASSUME sqThr1 = "send" PROVE AnswerBetween'
      BY <1>0 DEF AnswerBetween
    <2>2. \A k \in DOMAIN sqPrinted' : Ahead(sqPrinted'[k], sqAnswer)
      BY <1>1, <1>5, <1>6, <2>1 DEF SysvInv, AnswerBetween
    <2>3. \A k \in DOMAIN sqQueue' :
             IF sqQueue'[k].type = 2 THEN Ahead(sqQueue'[k], sqAnswer)
                                     ELSE Ahead(sqAnswer, sqQueue'[k])
      BY <1>1, <2>1 DEF SysvInv, AnswerBetween, Taken
    <2> QED BY <1>0, <2>2, <2>3 DEF AnswerBetween, Ahead
  <1>14. Sysv!PrintedInOrder'
    <2>1. \A k \in DOMAIN sqPrinted : Ahead(sqPrinted[k], e)
      BY <1>6 DEF SysvInv, PrintedBefore
    <2>2. ASSUME NEW k \in DOMAIN sqPrinted', NEW m \in DOMAIN sqPrinted', k < m
          PROVE  Ahead(sqPrinted'[k], sqPrinted'[m])
      <3>1. k # n + 1
        BY <1>4, <2>2
      <3>2. CASE m = n + 1
        BY <1>5, <2>1, <3>1, <3>2
      <3>3. CASE m # n + 1
        BY <1>5, <2>2, <3>1, <3>3 DEF SysvInv, Sysv!PrintedInOrder, Ahead
      <3> QED BY <3>2, <3>3
    <2> QED BY <2>2 DEF Sysv!PrintedInOrder, Ahead
  <1>15. Sysv!NothingLostBeforeRemoval' /\ Missing'
    <2>1. ASSUME NEW id \in 1 .. Sysv!Sent, Sysv!Present(id) PROVE Sysv!Present(id)'
      <3>1. CASE \E k \in DOMAIN sqQueue : sqQueue[k].id = id
        <4>1. PICK k \in DOMAIN sqQueue : sqQueue[k].id = id
          BY <3>1
        <4>2. CASE sqQueue[k] = e
          <5>1. n + 1 \in DOMAIN sqPrinted'
            BY <1>4
          <5> QED BY <1>4, <4>1, <4>2, <5>1 DEF Sysv!Present
        <4>3. CASE sqQueue[k] # e
          BY <1>1, <4>1, <4>3 DEF Taken, Sysv!Present
        <4> QED BY <4>2, <4>3
      <3>2. CASE \E k \in DOMAIN sqPrinted : sqPrinted[k].id = id
        BY <1>4, <3>2 DEF Sysv!Present
      <3> QED BY <1>0, <2>1, <3>1, <3>2 DEF Sysv!Present
    <2> QED BY <1>0, <1>7, <2>1, NoneDisappears DEF Sysv!Running
  <1> QED BY <1>8, <1>9, <1>10, <1>11, <1>12, <1>13, <1>14, <1>15 DEF SysvInv

\* thr_fun3 takes the message of type 3, the only one that is ever missing.
LEMMA RequestKeeps ==
    ASSUME SysvInv, Sysv!thr_fun3_receive
    PROVE  SysvInv'
  <1>t. Sysv!TypeOK
    BY DEF SysvInv
  <1>0. /\ sqThr3 = "receive" /\ sqThr3' \in {"remove", "astray"} /\ Sysv!Waiting(3)
        /\ sqMain # "returned" /\ sqThr2' = sqThr2
        /\ sqQueue' = Sysv!RemoveAt(sqQueue, Sysv!FirstOf(3))
        /\ sqExists' = sqExists /\ sqMain' = sqMain /\ sqMsg' = sqMsg /\ sqThr1' = sqThr1
        /\ sqAnswer' = sqAnswer /\ sqPrinted' = sqPrinted
    BY DEF Sysv!thr_fun3_receive, Sysv!msgrcv, Sysv!AfterReceive, Sysv!Running
  <1>1. PICK e : e = sqQueue[Sysv!FirstOf(3)] /\ Taken(e) /\ e.type = 3
    BY <1>0, SysvTake, Zenon
  <1>2. Sysv!Sent' = Sysv!Sent /\ Sysv!Sent \in Int
    BY <1>0, <1>t, SysvTypes1 DEF Sysv!Sent
  <1>3. Sysv!TypeOK'
    BY <1>0, <1>1, <1>t DEF Taken, Sysv!TypeOK
  <1>4. AnswersTyped' /\ PrintedBefore' /\ AnswerBetween'
    <2>1. \A k \in DOMAIN sqQueue' : \E m \in DOMAIN sqQueue : sqQueue[m] = sqQueue'[k]
      BY <1>1 DEF Taken
    <2>2. AnswersTyped'
      BY <1>0, <2>1 DEF SysvInv, AnswersTyped
    <2>3. PrintedBefore'
      BY <1>0, <2>1 DEF SysvInv, PrintedBefore, Ahead
    <2>4. AnswerBetween'
      BY <1>0, <2>1 DEF SysvInv, AnswerBetween, Ahead
    <2> QED BY <2>2, <2>3, <2>4
  <1>5. SentSoFar'
    <2>1. \A k \in DOMAIN sqQueue' : sqQueue'[k].id <= Sysv!Sent
      BY <1>1 DEF SysvInv, SentSoFar, Taken
    <2> QED BY <1>0, <1>2, <2>1 DEF SysvInv, SentSoFar
  <1>6. QueueOrder'
    BY <1>1 DEF Taken
  <1>7. Sysv!PrintedInOrder'
    BY <1>0 DEF SysvInv, Sysv!PrintedInOrder
  <1>8. Missing'
    BY <1>0 DEF Missing
  <1>9. Sysv!NothingLostBeforeRemoval'
    <2>1. SUFFICES ASSUME sqExists PROVE Sysv!NothingLostBeforeRemoval'
      BY <1>0 DEF Sysv!NothingLostBeforeRemoval
    <2>2. e.id \in 0 .. Sysv!Sent
      <3>1. PICK w \in DOMAIN sqQueue : sqQueue[w] = e
        BY <1>1 DEF Taken
      <3> QED BY <1>t, <1>2, <3>1, SysvTypes1 DEF SysvInv, SentSoFar
    <2>3. ASSUME NEW id \in 1 .. Sysv!Sent, id # e.id PROVE Sysv!Present(id)'
      <3>1. Sysv!Present(id)
        BY <1>0, <2>1 DEF SysvInv, Missing, Sysv!Running
      <3>2. CASE \E k \in DOMAIN sqQueue : sqQueue[k].id = id
        BY <1>1, <2>3, <3>2 DEF Taken, Sysv!Present
      <3> QED BY <1>0, <3>1, <3>2 DEF Sysv!Present
    <2>4. \E d \in 0 .. Sysv!Sent : \A k \in 1 .. Sysv!Sent \ {d} : Sysv!Present(k)'
      BY <2>2, <2>3
    <2> QED BY <1>0, <1>2, <2>4 DEF Sysv!NothingLostBeforeRemoval
  <1> QED BY <1>3, <1>4, <1>5, <1>6, <1>7, <1>8, <1>9 DEF SysvInv

\* thr_fun3 removes the queue.
LEMMA RemovalKeeps ==
    ASSUME SysvInv, Sysv!thr_fun3_remove
    PROVE  SysvInv'
  <1>t. Sysv!TypeOK
    BY DEF SysvInv
  <1>0. /\ sqExists' = FALSE /\ sqQueue' = <<>> /\ sqThr3' = "exited" /\ sqThr2' = sqThr2
        /\ sqMain' = sqMain /\ sqMsg' = sqMsg /\ sqThr1' = sqThr1
        /\ sqAnswer' = sqAnswer /\ sqPrinted' = sqPrinted
    BY DEF Sysv!thr_fun3_remove, Sysv!AfterRemoval
  <1>1. /\ sqQueue' \in Seq(Sysv!Messages) /\ Len(sqQueue') = 0
        /\ DOMAIN sqQueue' = {}
    BY <1>0
  <1>2. Sysv!Sent' = Sysv!Sent
    BY <1>0 DEF Sysv!Sent
  <1>3. Sysv!TypeOK'
    <2>1. Len(sqQueue') <= SysvCapacity
      BY <1>1, SysvAssumption
    <2>2. sqExists' \in BOOLEAN
      BY <1>0
    <2> QED BY <1>0, <1>1, <1>t, <2>1, <2>2 DEF Sysv!TypeOK
  <1>4. AnswersTyped' /\ QueueOrder' /\ PrintedBefore' /\ AnswerBetween' /\ Missing'
    BY <1>0, <1>1 DEF SysvInv, AnswersTyped, QueueOrder, PrintedBefore, AnswerBetween, Missing
  <1>5. SentSoFar'
    BY <1>0, <1>1, <1>2 DEF SysvInv, SentSoFar
  <1>6. Sysv!PrintedInOrder' /\ Sysv!NothingLostBeforeRemoval'
    BY <1>0 DEF SysvInv, Sysv!PrintedInOrder, Sysv!NothingLostBeforeRemoval
  <1> QED BY <1>3, <1>4, <1>5, <1>6 DEF SysvInv

\* The user types a message: it counts as sent only once msgsnd took it.
LEMMA InputKeeps ==
    ASSUME SysvInv, NEW type \in SysvTypes, Sysv!InputMessage(type)
    PROVE  SysvInv'
  <1>t. Sysv!TypeOK
    BY DEF SysvInv
  <1>0. /\ sqMain = "input" /\ sqMain' = "send" /\ sqMsg.id < SysvSends
        /\ sqMsg' = Sysv!Message(type, type, sqMsg.id + 1) /\ sqThr2' = sqThr2
        /\ sqQueue' = sqQueue /\ sqExists' = sqExists /\ sqThr1' = sqThr1
        /\ sqAnswer' = sqAnswer /\ sqThr3' = sqThr3 /\ sqPrinted' = sqPrinted
    BY DEF Sysv!InputMessage
  <1>1. sqMsg.id \in Nat
    BY <1>t, SysvTypes1
  <1>2. /\ sqMsg' \in Sysv!Messages /\ sqMsg'.id = sqMsg.id + 1 /\ sqMsg'.type = sqMsg'.asked
    BY <1>0, <1>1, SysvAssumption DEF Sysv!Message, Sysv!Messages, Sysv!AllTypes
  <1>3. Sysv!Sent' = Sysv!Sent
    BY <1>0, <1>1, <1>2 DEF Sysv!Sent
  <1>4. Sysv!TypeOK'
    BY <1>0, <1>2, <1>t DEF Sysv!TypeOK
  <1>5. AnswersTyped' /\ QueueOrder' /\ PrintedBefore' /\ AnswerBetween' /\ Sysv!PrintedInOrder'
    BY <1>0 DEF SysvInv, AnswersTyped, QueueOrder, PrintedBefore, AnswerBetween, Sysv!PrintedInOrder
  <1>6. SentSoFar'
    BY <1>0, <1>1, <1>2, <1>3 DEF SysvInv, SentSoFar
  <1>7. Sysv!NothingLostBeforeRemoval' /\ Missing'
    <2>1. \A id \in 1 .. Sysv!Sent : Sysv!Present(id) => Sysv!Present(id)'
      BY <1>0 DEF Sysv!Present
    <2> QED BY <1>0, <1>3, <2>1, NoneDisappears DEF Sysv!Running
  <1> QED BY <1>4, <1>5, <1>6, <1>7 DEF SysvInv

\* main's send: the message that is taken has the next number.
LEMMA SendingKeeps ==
    ASSUME SysvInv, Sysv!SendMessage
    PROVE  SysvInv'
  <1>t. Sysv!TypeOK
    BY DEF SysvInv
  <1>0. /\ sqMain = "send" /\ sqMsg' = sqMsg /\ sqThr2' = sqThr2
        /\ sqExists' = sqExists /\ sqThr1' = sqThr1
        /\ sqAnswer' = sqAnswer /\ sqThr3' = sqThr3 /\ sqPrinted' = sqPrinted
        /\ IF Sysv!Rejected(sqMsg) THEN sqMain' = "join" /\ sqQueue' = sqQueue
                                   ELSE sqMain' = "input" /\ Sysv!msgsnd(sqMsg)
    BY DEF Sysv!SendMessage
  <1>1. /\ sqMsg \in Sysv!Messages /\ sqMsg.id \in Nat /\ sqMsg.id >= 1 /\ sqMsg.type = sqMsg.asked
        /\ Sysv!Sent = sqMsg.id - 1
    <2>1. sqMsg \in Sysv!Messages /\ sqMsg.id \in Nat
      BY <1>t, SysvTypes1 DEF Sysv!TypeOK
    <2> QED BY <1>0, <2>1 DEF SysvInv, SentSoFar, Sysv!Sent
  <1>2. CASE sqMain' = "join" /\ sqQueue' = sqQueue
    <2>1. Sysv!Sent' = Sysv!Sent
      BY <1>0, <1>2 DEF Sysv!Sent
    <2>2. Sysv!TypeOK' /\ AnswersTyped' /\ SentSoFar'
      BY <1>0, <1>2, <2>1, <1>t DEF Sysv!TypeOK, SysvInv, AnswersTyped, SentSoFar
    <2>3. QueueOrder' /\ PrintedBefore' /\ AnswerBetween' /\ Sysv!PrintedInOrder'
      BY <1>0, <1>2 DEF SysvInv, QueueOrder, PrintedBefore, AnswerBetween, Sysv!PrintedInOrder
    <2>4. Sysv!NothingLostBeforeRemoval' /\ Missing'
      <3>1. \A id \in 1 .. Sysv!Sent : Sysv!Present(id) => Sysv!Present(id)'
        BY <1>0, <1>2 DEF Sysv!Present
      <3> QED BY <1>0, <2>1, <3>1, NoneDisappears DEF Sysv!Running
    <2> QED BY <2>2, <2>3, <2>4 DEF SysvInv
  <1>3. CASE sqMain' = "input" /\ Sysv!msgsnd(sqMsg)
    <2>1. Sysv!Sent' = sqMsg.id /\ Sysv!Sent' = Sysv!Sent + 1
      BY <1>0, <1>1, <1>3 DEF Sysv!Sent
    <2>2. /\ \A k \in DOMAIN sqQueue : sqQueue[k].id \in Nat /\ sqQueue[k].id < sqMsg.id
          /\ \A k \in DOMAIN sqPrinted : sqPrinted[k].id \in Nat /\ sqPrinted[k].id < sqMsg.id
          /\ sqAnswer.id \in Nat /\ sqAnswer.id < sqMsg.id
      <3>1. /\ \A k \in DOMAIN sqQueue : sqQueue[k].id \in Nat
            /\ \A k \in DOMAIN sqPrinted : sqPrinted[k].id \in Nat
            /\ sqAnswer.id \in Nat
        BY <1>t, SysvTypes1
      <3>2. /\ \A k \in DOMAIN sqQueue : sqQueue[k].id <= sqMsg.id - 1
            /\ \A k \in DOMAIN sqPrinted : sqPrinted[k].id <= sqMsg.id - 1
            /\ sqAnswer.id <= sqMsg.id - 1
        BY <1>1 DEF SysvInv, SentSoFar
      <3> QED BY <1>1, <3>1, <3>2
    <2>3. \A k \in DOMAIN sqQueue : sqQueue[k].type = sqQueue[k].asked
                                    \/ (sqQueue[k].type = 2 /\ sqQueue[k].asked = 1)
      BY DEF SysvInv, AnswersTyped
    <2>4. /\ sqQueue' \in Seq(Sysv!Messages) /\ Len(sqQueue') <= SysvCapacity
          /\ \A k \in DOMAIN sqQueue' :
                sqQueue'[k] = sqMsg \/ \E m \in DOMAIN sqQueue : sqQueue'[k] = sqQueue[m]
          /\ \A m \in DOMAIN sqQueue : \E k \in DOMAIN sqQueue' : sqQueue'[k] = sqQueue[m]
          /\ \E k \in DOMAIN sqQueue' : sqQueue'[k] = sqMsg
          /\ QueueOrder'
      <3>1. \A k \in DOMAIN sqQueue :
               IF sqQueue[k].type = sqMsg.type \/ sqQueue[k].type = 2
               THEN Ahead(sqQueue[k], sqMsg) ELSE sqMsg.type = 2 => Ahead(sqMsg, sqQueue[k])
        BY <1>1, <2>2, <2>3 DEF Ahead
      <3> QED BY <1>1, <1>3, <3>1, SysvAppend
    <2>5. Sysv!TypeOK'
      BY <1>0, <1>3, <1>t, <2>4 DEF Sysv!TypeOK
    <2>6. AnswersTyped'
      BY <1>0, <1>1, <2>4 DEF SysvInv, AnswersTyped
    <2>7. SentSoFar'
      <3>1. \A k \in DOMAIN sqQueue' : sqQueue'[k].id <= sqMsg.id
        BY <1>1, <2>2, <2>4
      <3>2. (\A k \in DOMAIN sqPrinted : sqPrinted[k].id <= sqMsg.id) /\ sqAnswer.id <= sqMsg.id
        BY <1>1, <2>2
      <3> QED BY <1>0, <1>3, <2>1, <3>1, <3>2 DEF SentSoFar
    <2>8. PrintedBefore'
      BY <1>0, <2>2, <2>4 DEF SysvInv, PrintedBefore, Ahead
    <2>9. AnswerBetween'
      <3>1. SUFFICES ASSUME sqThr1 = "send" PROVE AnswerBetween'
        BY <1>0 DEF AnswerBetween
      <3>2. sqAnswer.asked = 1
        BY <3>1 DEF SysvInv, AnswersTyped
      <3>3. IF sqMsg.type = 2 THEN Ahead(sqMsg, sqAnswer) ELSE Ahead(sqAnswer, sqMsg)
        BY <1>1, <2>2, <3>2 DEF Ahead
      <3>4. \A k \in DOMAIN sqQueue' :
               IF sqQueue'[k].type = 2 THEN Ahead(sqQueue'[k], sqAnswer)
                                       ELSE Ahead(sqAnswer, sqQueue'[k])
        BY <2>4, <3>1, <3>3 DEF SysvInv, AnswerBetween
      <3> QED BY <1>0, <3>1, <3>4 DEF SysvInv, AnswerBetween, Ahead
    <2>10. Sysv!PrintedInOrder'
      BY <1>0 DEF SysvInv, Sysv!PrintedInOrder
    <2>11. Sysv!NothingLostBeforeRemoval' /\ Missing'
      <3>0. PICK n \in Nat : n = Sysv!Sent /\ Sysv!Sent' = n + 1
        <4>1. Sysv!Sent \in Nat
          BY <1>1
        <4> QED BY <2>1, <4>1
      <3>1. \A id : Sysv!Present(id) => Sysv!Present(id)'
        BY <1>0, <2>4 DEF Sysv!Present
      <3>2. Sysv!Present(n + 1)'
        <4>1. sqMsg.id = n + 1
          BY <1>1, <3>0
        <4> QED BY <2>4, <4>1 DEF Sysv!Present
      <3>3. n \in Nat
        BY <3>0
      <3>4. ASSUME NEW k \in 1 .. n + 1 PROVE k = n + 1 \/ k \in 1 .. n
        BY <3>3, <3>4
      <3>r. sqMain # "returned" /\ sqMain' # "returned"
        BY <1>0, <1>3
      <3>5. sqExists /\ sqThr3 = "receive"
            => \A id \in 1 .. n + 1 : Sysv!Present(id)'
        <4>1. sqExists /\ sqThr3 = "receive" => \A id \in 1 .. n : Sysv!Present(id)
          BY <3>0, <3>r DEF SysvInv, Missing, Sysv!Running
        <4> QED BY <3>1, <3>2, <3>4, <4>1
      <3>6. Missing'
        BY <1>0, <3>0, <3>5 DEF SysvInv, Missing
      <3>7. ASSUME NEW d \in 0 .. n, \A k \in 1 .. n \ {d} : Sysv!Present(k)
            PROVE  \E c \in 0 .. n + 1 :
                      \A k \in 1 .. n + 1 \ {c} : Sysv!Present(k)'
        <4>1. \A k \in 1 .. n + 1 \ {d} : Sysv!Present(k)'
          BY <3>1, <3>2, <3>4, <3>7
        <4>2. d \in 0 .. n + 1
          BY <3>3
        <4> QED BY <4>1, <4>2
      <3>8. (\A id \in 1 .. n : Sysv!Present(id))
            => \A id \in 1 .. n + 1 : Sysv!Present(id)'
        BY <3>1, <3>2, <3>4
      <3>9. Sysv!NothingLostBeforeRemoval'
        <4>1. sqExists => \/ \A id \in 1 .. n : Sysv!Present(id)
                          \/ sqThr3 \in {"remove", "astray"} /\ \E d \in 0 .. n :
                                \A k \in 1 .. n \ {d} : Sysv!Present(k)
          BY <3>0, <3>r DEF SysvInv, Sysv!NothingLostBeforeRemoval, Sysv!Running
        <4>2. sqExists => \/ \A id \in 1 .. n + 1 : Sysv!Present(id)'
                          \/ sqThr3 \in {"remove", "astray"} /\ \E c \in 0 .. n + 1 :
                                \A k \in 1 .. n + 1 \ {c} : Sysv!Present(k)'
          BY <3>7, <3>8, <4>1
        <4> QED BY <1>0, <3>0, <4>2 DEF Sysv!NothingLostBeforeRemoval
      <3> QED BY <3>6, <3>9
    <2> QED BY <2>4, <2>5, <2>6, <2>7, <2>8, <2>9, <2>10, <2>11 DEF SysvInv
  <1> QED BY <1>0, <1>2, <1>3

\* main returns, or thr_fun3 ends the process.
LEMMA ReturnKeeps ==
    ASSUME SysvInv, Sysv!JoinThread3 \/ Sysv!thr_fun3_exit
    PROVE  SysvInv'
  <1>t. Sysv!TypeOK
    BY DEF SysvInv
  <1>0. /\ sqMain # "returned" /\ sqMain' = "returned" /\ sqThr2' = sqThr2
        /\ sqQueue' = sqQueue /\ sqExists' = sqExists /\ sqMsg' = sqMsg /\ sqThr1' = sqThr1
        /\ sqAnswer' = sqAnswer /\ sqThr3' = sqThr3 /\ sqPrinted' = sqPrinted
    BY DEF Sysv!JoinThread3, Sysv!thr_fun3_exit, Sysv!Running
  <1>1. sqMsg.id \in Nat /\ Sysv!Sent \in {sqMsg.id, sqMsg.id - 1} /\ Sysv!Sent' = sqMsg.id
    BY <1>0, <1>t, SysvTypes1 DEF Sysv!Sent
  <1>3. SentSoFar'
    <2>1. /\ \A k \in DOMAIN sqQueue : sqQueue[k].id <= sqMsg.id
          /\ \A k \in DOMAIN sqPrinted : sqPrinted[k].id <= sqMsg.id
          /\ sqAnswer.id <= sqMsg.id
      <3>1. /\ \A k \in DOMAIN sqQueue : sqQueue[k].id \in Nat
            /\ \A k \in DOMAIN sqPrinted : sqPrinted[k].id \in Nat
            /\ sqAnswer.id \in Nat
        BY <1>t, SysvTypes1
      <3> QED BY <1>1, <3>1 DEF SysvInv, SentSoFar
    <2> QED BY <1>0, <1>1, <2>1 DEF SentSoFar
  <1>4. Sysv!TypeOK' /\ AnswersTyped'
    BY <1>0, <1>t DEF Sysv!TypeOK, SysvInv, AnswersTyped
  <1>5. QueueOrder' /\ PrintedBefore' /\ AnswerBetween' /\ Sysv!PrintedInOrder'
    BY <1>0 DEF SysvInv, QueueOrder, PrintedBefore, AnswerBetween, Sysv!PrintedInOrder
  <1>6. Sysv!NothingLostBeforeRemoval' /\ Missing'
    BY <1>0 DEF SysvInv, Sysv!NothingLostBeforeRemoval, Missing, Sysv!Running
  <1> QED BY <1>3, <1>4, <1>5, <1>6 DEF SysvInv

\* The queue is empty or holds one message of an earlier process.
LEMMA SysvInit ==
    ASSUME Sysv!Init
    PROVE  SysvInv
  <1>0. /\ sqExists = TRUE /\ sqMain = "input" /\ sqMsg = Sysv!NoMessage /\ sqThr1 = "receive"
        /\ sqAnswer = Sysv!NoMessage /\ sqThr2 = "receive" /\ sqThr3 = "receive"
        /\ sqPrinted = <<>>
    BY DEF Sysv!Init
  <1>1. Sysv!NoMessage \in Sysv!Messages /\ Sysv!NoMessage.id = 0
    BY SysvAssumption DEF Sysv!NoMessage, Sysv!Message, Sysv!Messages, Sysv!AllTypes
  <1>2. /\ sqQueue \in Seq(Sysv!Messages) /\ Len(sqQueue) <= SysvCapacity
        /\ \A k \in DOMAIN sqQueue : sqQueue[k].id = 0 /\ sqQueue[k].type = sqQueue[k].asked
        /\ \A k, m \in DOMAIN sqQueue : k = m
    <2>1. CASE sqQueue = <<>>
      BY <2>1, SysvAssumption
    <2>2. CASE sqQueue # <<>>
      <3>1. PICK t \in SysvTypes : sqQueue = <<Sysv!Message(t, t, 0)>>
        BY <2>2 DEF Sysv!Init, Sysv!Leftovers
      <3>2. PICK e : e = Sysv!Message(t, t, 0)
        OBVIOUS
      <3>3. e \in Sysv!Messages /\ e.id = 0 /\ e.type = e.asked
        BY <3>2, SysvAssumption DEF Sysv!Message, Sysv!Messages, Sysv!AllTypes
      <3>4. sqQueue = <<e>> /\ DOMAIN sqQueue = {1} /\ sqQueue[1] = e /\ Len(sqQueue) = 1
            /\ sqQueue \in Seq(Sysv!Messages)
        BY <3>1, <3>2, <3>3
      <3> QED BY <3>3, <3>4, SysvAssumption
    <2> QED BY <2>1, <2>2
  <1>3. sqPrinted \in Seq(Sysv!Messages) /\ DOMAIN sqPrinted = {}
    BY <1>0
  <1>4. Sysv!Sent = 0
    <2>1. sqMsg.id = 0 /\ sqMain \notin {"send", "join"}
      BY <1>0, <1>1
    <2>2. Sysv!Sent = sqMsg.id - 0
      BY <2>1, Zenon DEF Sysv!Sent
    <2> QED BY <2>1, <2>2
  <1>5. Sysv!TypeOK
    BY <1>0, <1>1, <1>2, <1>3 DEF Sysv!TypeOK
  <1>6. QueueOrder
    BY <1>2 DEF QueueOrder
  <1>7. AnswersTyped /\ PrintedBefore /\ AnswerBetween /\ Sysv!PrintedInOrder
    BY <1>0, <1>2, <1>3 DEF AnswersTyped, PrintedBefore, AnswerBetween, Sysv!PrintedInOrder
  <1>8. SentSoFar
    BY <1>0, <1>1, <1>2, <1>3, <1>4 DEF SentSoFar
  <1>9. Missing /\ Sysv!NothingLostBeforeRemoval
    <2>1. 1 .. 0 = {}
      OBVIOUS
    <2> QED BY <1>0, <1>4, <2>1 DEF Missing, Sysv!NothingLostBeforeRemoval
  <1> QED BY <1>5, <1>6, <1>7, <1>8, <1>9 DEF SysvInv

\* SysvInv is inductive: the steps of main and of the three threads.
LEMMA SysvNext ==
    ASSUME SysvInv, [Next]_vars
    PROVE  SysvInv'
  <1>1. CASE Sysv!Next
    BY <1>1, AnswerKeeps, AnsweredKeeps, PrintingKeeps, RequestKeeps, RemovalKeeps, InputKeeps,
       SendingKeeps, ReturnKeeps DEF Sysv!Next
  <1>2. CASE UNCHANGED sq
    <2>1. /\ sqQueue' = sqQueue /\ sqExists' = sqExists /\ sqMain' = sqMain /\ sqMsg' = sqMsg
          /\ sqThr1' = sqThr1 /\ sqAnswer' = sqAnswer /\ sqThr2' = sqThr2 /\ sqThr3' = sqThr3
          /\ sqPrinted' = sqPrinted
      BY <1>2 DEF sq
    <2>2. Sysv!TypeOK' /\ AnswersTyped' /\ QueueOrder' /\ PrintedBefore' /\ AnswerBetween'
          /\ Sysv!PrintedInOrder'
      BY <2>1 DEF SysvInv, Sysv!TypeOK, AnswersTyped, QueueOrder, PrintedBefore, AnswerBetween,
                  Sysv!PrintedInOrder
    <2>3. SentSoFar' /\ Missing' /\ Sysv!NothingLostBeforeRemoval'
      BY <2>1 DEF SysvInv, SentSoFar, Missing, Sysv!NothingLostBeforeRemoval, Sysv!Sent,
                  Sysv!Present, Sysv!Running
    <2> QED BY <2>2, <2>3 DEF SysvInv
  <1> QED BY <1>1, <1>2 DEF Next, vars

\* Of two messages typed with one type the first is printed first, although one
\* may go over thr_fun1; no message that msgsnd or mq_send took disappears, even
\* if a receive overwrites the qid of its thread
\* (mqueue_system.c: thr_fun1, thr_fun2, thr_fun3 and main; mqueue_ipc.c: the
\* reader threads that close the queue's descriptor under each other).
THEOREM MessagesAreAccounted == Spec => []MessagesAccounted
  <1>1. Init => SysvInv /\ PosixInv
    BY SysvInit, PosixInit DEF Init
  <1>2. SysvInv /\ PosixInv /\ [Next]_vars => SysvInv' /\ PosixInv'
    BY SysvNext, PosixNext
  <1>3. SysvInv /\ PosixInv => MessagesAccounted
    BY DEF SysvInv, PosixInv, MessagesAccounted
  <1> QED BY <1>1, <1>2, <1>3, PTL DEF Spec

-------------------------------------------------------------------------------
(* Chat.                                                                   *)

\* A client in the listen queue waits there once, with nothing under way; it was
\* killed at most.
Waits(c) ==
    /\ c # chNewfd /\ ~chToClient[c] /\ ~chToServer[c] /\ c \notin chAccepted
    /\ \/ chClient[c] = "recv" /\ chConn[c] = "up"
       \/ chClient[c] = "crashed" /\ chConn[c] = "clientClosed"
Backlogged ==
    /\ \A a, b \in DOMAIN chBacklog : chBacklog[a] = chBacklog[b] => a = b
    /\ \A a \in DOMAIN chBacklog : Waits(chBacklog[a])
    /\ chServer \in Talk!Gone => chBacklog = <<>>

\* The client being served, by the state of its connection.
IsServed(c) ==
    /\ chConn[c] \in {"up", "clientClosed", "clientReset", "reset"}
    /\ chConn[c] = "up" => chClient[c] \in {"recv", "type"} /\ Talk!Turns(c) = 1
    /\ chConn[c] # "up" => ~chToClient[c]
    /\ chConn[c] = "clientClosed" =>
          /\ chClient[c] \in {"exited", "crashed"}
          /\ chServer \in {"type", "close"} => ~chToServer[c]
          /\ chClient[c] = "exited" => chServer # "type" /\ ~chToServer[c]
    /\ chConn[c] = "clientReset" =>
          chClient[c] = "crashed" /\ ~chToServer[c] /\ chServer \in {"recv", "close"}
    /\ chConn[c] = "reset" => chClient[c] = "crashed" /\ ~chToServer[c]
Served ==
    /\ chServer \in {"accept", "ask", "exited"} => chNewfd = none
    /\ chServer \in {"type", "recv", "close", "killed"} => chNewfd # none
    /\ chServer = "killed" => chConn[chNewfd] = "reset"
    /\ \A c \in ChatClients : c = chNewfd =>
          IF chServer = "crashed" THEN chConn[c] # "up" ELSE IsServed(c)

\* A client that did not start, and one on a connection that was reset.
LeftInReset(c) ==
    chServer \in Talk!Gone /\ (c \in chAccepted => chServer = "crashed" /\ chNewfd = c)
OffOrReset(c) ==
    /\ chClient[c] = "off" => /\ c # chNewfd /\ ~chToClient[c] /\ ~chToServer[c]
                              /\ c \notin chAccepted
                              /\ \A a \in DOMAIN chBacklog : chBacklog[a] # c
    /\ chClient[c] \in {"recv", "type"} /\ chConn[c] = "reset" => LeftInReset(c)
    /\ chClient[c] = "killed" => chConn[c] = "reset" /\ LeftInReset(c)
Clientele == \A c \in ChatClients : OffOrReset(c)

ChatInv == Talk!TypeOK /\ Backlogged /\ Served /\ Clientele
\* Nobody has connected.
LEMMA ChatInit ==
    ASSUME Talk!Init
    PROVE  ChatInv
  <1> USE ChatAssumption DEF Talk!Init, Talk!Gone
  <1>1. Talk!TypeOK
    BY DEF Talk!TypeOK
  <1>2. Backlogged
    BY DEF Backlogged
  <1>3. Served
    BY DEF Served
  <1>4. Clientele
    BY DEF Clientele, OffOrReset, LeftInReset
  <1> QED BY <1>1, <1>2, <1>3, <1>4 DEF ChatInv

\* Every client that waits in the listen queue is a client.
LEMMA Waiters ==
    ASSUME Talk!TypeOK
    PROVE  /\ DOMAIN chBacklog = 1 .. Len(chBacklog) /\ Len(chBacklog) \in Nat
           /\ \A a \in DOMAIN chBacklog : chBacklog[a] \in ChatClients
  <1>1. chBacklog \in Seq(ChatClients)
    BY DEF Talk!TypeOK
  <1>2. DOMAIN chBacklog = 1 .. Len(chBacklog) /\ Len(chBacklog) \in Nat
    BY <1>1, LenProperties
  <1> QED BY <1>1, <1>2, ElementOfSeq

\* A client joins the listen queue.
LEMMA ConnectKeeps ==
    ASSUME ChatInv, NEW c \in ChatClients, Talk!connect(c)
    PROVE  ChatInv'
  <1>t. Talk!TypeOK /\ Backlogged /\ Served /\ Clientele
    BY DEF ChatInv
  <1>0. /\ chClient[c] = "off" /\ chServer \notin Talk!Gone
        /\ chClient' = [chClient EXCEPT ![c] = "recv"]
        /\ chConn' = [chConn EXCEPT ![c] = "up"]
        /\ chBacklog' = Append(chBacklog, c)
        /\ chServer' = chServer /\ chNewfd' = chNewfd /\ chToClient' = chToClient
        /\ chToServer' = chToServer /\ chAccepted' = chAccepted
    BY DEF Talk!connect, Talk!Set
  <1>1. PICK n : n = Len(chBacklog)
    OBVIOUS
  <1>2. /\ chBacklog' \in Seq(ChatClients) /\ n \in Nat
        /\ DOMAIN chBacklog = 1 .. n /\ DOMAIN chBacklog' = 1 .. n + 1
        /\ chBacklog'[n + 1] = c
        /\ \A a \in DOMAIN chBacklog : chBacklog'[a] = chBacklog[a]
    <2>1. chBacklog \in Seq(ChatClients)
      BY <1>t DEF Talk!TypeOK
    <2> QED BY <1>0, <1>1, <2>1, AppendProperties, LenProperties
  <1>3. \A a \in DOMAIN chBacklog' :
           IF a = n + 1 THEN chBacklog'[a] = c
           ELSE a \in DOMAIN chBacklog /\ chBacklog'[a] = chBacklog[a]
    BY <1>2
  <1>4. /\ c # chNewfd /\ ~chToClient[c] /\ ~chToServer[c] /\ c \notin chAccepted
        /\ \A a \in DOMAIN chBacklog : chBacklog[a] # c
    BY <1>0, <1>t DEF Clientele, OffOrReset, LeftInReset
  <1>5. /\ chClient'[c] = "recv" /\ chConn'[c] = "up"
        /\ \A d \in ChatClients : d # c => chClient'[d] = chClient[d] /\ chConn'[d] = chConn[d]
    BY <1>0, <1>t DEF Talk!TypeOK
  <1>6. Talk!TypeOK'
    BY <1>0, <1>2, <1>t DEF Talk!TypeOK
  <1>7. Backlogged'
    <2>1. \A a, b \in DOMAIN chBacklog' : chBacklog'[a] = chBacklog'[b] => a = b
      BY <1>3, <1>4, <1>t DEF Backlogged
    <2>2. ASSUME NEW a \in DOMAIN chBacklog' PROVE Waits(chBacklog[a])'
      <3>1. CASE a = n + 1
        BY <1>0, <1>3, <1>4, <1>5, <3>1 DEF Waits
      <3>2. CASE a # n + 1
        <4>1. a \in DOMAIN chBacklog /\ chBacklog'[a] = chBacklog[a] /\ chBacklog[a] # c
              /\ chBacklog[a] \in ChatClients
          BY <1>3, <1>4, <1>t, <3>2, Waiters
        <4> QED BY <1>0, <1>5, <1>t, <4>1 DEF Backlogged, Waits
      <3> QED BY <3>1, <3>2
    <2> QED BY <1>0, <2>1, <2>2 DEF Backlogged
  <1>8. Served'
    <2>1. ASSUME NEW d \in ChatClients, d = chNewfd PROVE IsServed(d)'
      <3>1. d # c /\ IsServed(d)
        BY <1>0, <1>4, <1>t, <2>1 DEF Served, Talk!Gone
      <3> QED BY <1>0, <1>5, <3>1 DEF IsServed, Talk!Turns
    <2>2. chServer # "killed" /\ chServer # "crashed"
      BY <1>0 DEF Talk!Gone
    <2> QED BY <1>0, <1>t, <2>1, <2>2 DEF Served
  <1>9. Clientele'
    <2>1. ASSUME NEW d \in ChatClients PROVE OffOrReset(d)'
      <3>1. CASE d = c
        BY <1>5, <3>1 DEF OffOrReset, LeftInReset
      <3>2. CASE d # c
        <4>1. \A a \in DOMAIN chBacklog' :
                 chBacklog'[a] = c \/ \E b \in DOMAIN chBacklog : chBacklog'[a] = chBacklog[b]
          BY <1>3
        <4> QED BY <1>0, <1>5, <1>t, <3>2, <4>1 DEF Clientele, OffOrReset, LeftInReset
      <3> QED BY <3>1, <3>2
    <2> QED BY <2>1 DEF Clientele
  <1> QED BY <1>6, <1>7, <1>8, <1>9 DEF ChatInv

\* A step of one client that leaves the server and the listen queue alone.
StepOf(c) ==
    /\ chServer' = chServer /\ chNewfd' = chNewfd /\ chBacklog' = chBacklog
    /\ chAccepted' = chAccepted
    /\ \A d \in ChatClients : d # c =>
          /\ chClient'[d] = chClient[d] /\ chConn'[d] = chConn[d]
          /\ chToClient'[d] = chToClient[d] /\ chToServer'[d] = chToServer[d]
    /\ chServer = "killed" /\ c = chNewfd => chConn'[c] = chConn[c]
    /\ chConn[c] # "up" => chConn'[c] # "up"

\* Such a step disturbs only what is said of that client.
LEMMA ClientStep ==
    ASSUME ChatInv, NEW c \in ChatClients, StepOf(c), Talk!TypeOK',
           Waits(c) => Waits(c)',
           c = chNewfd /\ IsServed(c) => IsServed(c)',
           OffOrReset(c)'
    PROVE  ChatInv'
  <1>t. Talk!TypeOK /\ Backlogged /\ Served /\ Clientele
    BY DEF ChatInv
  <1>0. chServer' = chServer /\ chNewfd' = chNewfd /\ chBacklog' = chBacklog
        /\ chAccepted' = chAccepted
    BY DEF StepOf
  <1>1. ASSUME NEW d \in ChatClients, d # c
        PROVE  (Waits(d) => Waits(d)') /\ (IsServed(d) => IsServed(d)')
               /\ (OffOrReset(d) => OffOrReset(d)')
    BY <1>1 DEF StepOf, Waits, IsServed, OffOrReset, LeftInReset, Talk!Turns
  <1>2. Backlogged'
    <2>1. ASSUME NEW a \in DOMAIN chBacklog PROVE Waits(chBacklog[a])'
      <3>1. PICK d \in ChatClients : d = chBacklog[a] /\ Waits(d)
        BY <1>t, Waiters DEF Backlogged
      <3>2. Waits(d)'
        BY <1>1, <3>1
      <3> QED BY <1>0, <3>1, <3>2 DEF Waits
    <2> QED BY <1>0, <1>t, <2>1 DEF Backlogged
  <1>3. Served'
    <2>1. ASSUME NEW d \in ChatClients, d = chNewfd
          PROVE  IF chServer = "crashed" THEN chConn'[d] # "up" ELSE IsServed(d)'
      BY <1>1, <1>t, <2>1 DEF Served, StepOf
    <2>2. chServer = "killed" => chConn'[chNewfd] = "reset"
      <3>1. SUFFICES ASSUME chServer = "killed" PROVE chConn'[chNewfd] = "reset"
        OBVIOUS
      <3>2. chNewfd \in ChatClients /\ chConn[chNewfd] = "reset"
        BY <1>t, <3>1 DEF Served, Talk!TypeOK
      <3> QED BY <3>1, <3>2 DEF StepOf
    <2> QED BY <1>0, <1>t, <2>1, <2>2 DEF Served
  <1>4. Clientele'
    BY <1>1, <1>t DEF Clientele
  <1> QED BY <1>2, <1>3, <1>4 DEF ChatInv
\* A message, an error or the end of the connection reaches a client.
LEMMA ClientRecvKeeps ==
    ASSUME ChatInv, NEW c \in ChatClients, Talk!ClientRecv(c)
    PROVE  ChatInv'
  <1>t. Talk!TypeOK /\ Backlogged /\ Served /\ Clientele
    BY DEF ChatInv
  <1>0. /\ chClient[c] = "recv" /\ chServer' = chServer /\ chNewfd' = chNewfd
        /\ chAccepted' = chAccepted
        /\ chBacklog' = chBacklog /\ chToServer' = chToServer
        /\ \/ /\ chToClient[c] /\ chToClient' = [chToClient EXCEPT ![c] = FALSE]
              /\ chClient' = [chClient EXCEPT ![c] = "type"] /\ chConn' = chConn
           \/ /\ ~chToClient[c] /\ chConn[c] = "reset" /\ chToClient' = chToClient
              /\ chClient' = [chClient EXCEPT ![c] = "type"] /\ chConn' = chConn
           \/ /\ ~chToClient[c] /\ chConn[c] = "serverClosed" /\ chToClient' = chToClient
              /\ chClient' = [chClient EXCEPT ![c] = "exited"]
              /\ chConn' = [chConn EXCEPT ![c] = "none"]
    BY DEF Talk!ClientRecv, Talk!Set, Talk!ClientAfterError
  <1>1. Talk!TypeOK'
    BY <1>0, <1>t DEF Talk!TypeOK, Talk!Gone
  <1>2. \/ /\ chToClient[c] /\ ~chToClient'[c] /\ chClient'[c] = "type" /\ chConn'[c] = chConn[c]
        \/ /\ ~chToClient[c] /\ chConn[c] = "reset" /\ ~chToClient'[c]
           /\ chClient'[c] = "type" /\ chConn'[c] = chConn[c]
        \/ /\ ~chToClient[c] /\ chConn[c] = "serverClosed" /\ ~chToClient'[c]
           /\ chClient'[c] = "exited" /\ chConn'[c] = "none"
    BY <1>0, <1>t DEF Talk!TypeOK
  <1>3. IsServed(c) => chConn[c] = "up"
    BY <1>0 DEF IsServed
  <1>4. StepOf(c)
    <2>1. \A d \in ChatClients : d # c =>
             /\ chClient'[d] = chClient[d] /\ chConn'[d] = chConn[d]
             /\ chToClient'[d] = chToClient[d] /\ chToServer'[d] = chToServer[d]
      BY <1>0, <1>t DEF Talk!TypeOK
    <2>2. chServer = "killed" /\ c = chNewfd => chConn'[c] = chConn[c]
      BY <1>2, <1>3, <1>t DEF Served
    <2>3. chConn[c] # "up" => chConn'[c] # "up"
      BY <1>2
    <2> QED BY <1>0, <2>1, <2>2, <2>3 DEF StepOf
  <1>5. Waits(c) => Waits(c)'
    BY <1>0, <1>2 DEF Waits
  <1>6. c = chNewfd /\ IsServed(c) => IsServed(c)'
    <2>1. SUFFICES ASSUME IsServed(c) PROVE IsServed(c)'
      OBVIOUS
    <2>2. chConn[c] = "up" /\ chConn'[c] = "up" /\ Talk!Turns(c) = 1
      BY <1>2, <1>3, <2>1 DEF IsServed
    <2>3. chToClient[c] /\ ~chToClient'[c] /\ chClient'[c] = "type"
      BY <1>2, <2>2
    <2>4. Talk!Turns(c)' = 1
      BY <1>0, <2>2, <2>3 DEF Talk!Turns
    <2> QED BY <2>2, <2>3, <2>4 DEF IsServed
  <1>7. OffOrReset(c)'
    BY <1>0, <1>2, <1>t DEF Clientele, OffOrReset, LeftInReset
  <1> QED BY <1>1, <1>4, <1>5, <1>6, <1>7, ClientStep

\* A client sends, or dies of SIGPIPE on a connection that was reset.
LEMMA ClientSendKeeps ==
    ASSUME ChatInv, NEW c \in ChatClients, Talk!ClientSend(c)
    PROVE  ChatInv'
  <1>t. Talk!TypeOK /\ Backlogged /\ Served /\ Clientele
    BY DEF ChatInv
  <1>0. /\ chClient[c] = "type" /\ chServer' = chServer /\ chNewfd' = chNewfd
        /\ chAccepted' = chAccepted
        /\ chBacklog' = chBacklog /\ chToClient' = chToClient /\ chConn' = chConn
        /\ \/ /\ chConn[c] \in {"up", "serverClosed"}
              /\ chToServer' = [chToServer EXCEPT ![c] = TRUE]
              /\ chClient' = [chClient EXCEPT ![c] = "recv"]
           \/ /\ chConn[c] = "reset"
              /\ chClient' = [chClient EXCEPT ![c] = "killed"] /\ chToServer' = chToServer
    BY DEF Talk!ClientSend, Talk!Set, Talk!ClientAfterSend
  <1>1. Talk!TypeOK'
    BY <1>0, <1>t DEF Talk!TypeOK, Talk!Gone
  <1>2. \/ chConn[c] \in {"up", "serverClosed"} /\ chToServer'[c] /\ chClient'[c] = "recv"
        \/ chConn[c] = "reset" /\ chClient'[c] = "killed"
    BY <1>0, <1>t DEF Talk!TypeOK
  <1>4. StepOf(c)
    BY <1>0, <1>t DEF Talk!TypeOK, StepOf
  <1>5. Waits(c) => Waits(c)'
    BY <1>0 DEF Waits
  <1>6. c = chNewfd /\ IsServed(c) => IsServed(c)'
    <2>1. SUFFICES ASSUME IsServed(c) PROVE IsServed(c)'
      OBVIOUS
    <2>2. chConn[c] = "up" /\ chConn'[c] = "up" /\ Talk!Turns(c) = 1
      BY <1>0, <2>1 DEF IsServed
    <2>3. chToServer'[c] /\ chClient'[c] = "recv"
      BY <1>2, <2>2
    <2>4. Talk!Turns(c)' = 1
      BY <1>0, <2>2, <2>3 DEF Talk!Turns
    <2> QED BY <2>2, <2>3, <2>4 DEF IsServed
  <1>7. OffOrReset(c)'
    BY <1>0, <1>2, <1>t DEF Clientele, OffOrReset, LeftInReset
  <1> QED BY <1>1, <1>4, <1>5, <1>6, <1>7, ClientStep

\* A client leaves with "quit": it is its turn, so the server receives.
LEMMA ClientQuitKeeps ==
    ASSUME ChatInv, NEW c \in ChatClients, Talk!ClientQuit(c)
    PROVE  ChatInv'
  <1>t. Talk!TypeOK /\ Backlogged /\ Served /\ Clientele
    BY DEF ChatInv
  <1>0. /\ chClient[c] = "type" /\ chServer' = chServer /\ chNewfd' = chNewfd
        /\ chAccepted' = chAccepted
        /\ chBacklog' = chBacklog /\ chToClient' = chToClient /\ chToServer' = chToServer
        /\ chClient' = [chClient EXCEPT ![c] = "exited"]
        /\ chConn' = [chConn EXCEPT ![c] = IF chConn[c] = "up" THEN "clientClosed" ELSE "none"]
    BY DEF Talk!ClientQuit, Talk!Set, Talk!ClosedByClient
  <1>1. Talk!TypeOK'
    BY <1>0, <1>t DEF Talk!TypeOK, Talk!Gone
  <1>2. /\ chClient'[c] = "exited"
        /\ chConn'[c] = IF chConn[c] = "up" THEN "clientClosed" ELSE "none"
    BY <1>0, <1>t DEF Talk!TypeOK
  <1>3. IsServed(c) => chConn[c] = "up"
    BY <1>0 DEF IsServed
  <1>4. StepOf(c)
    <2>1. \A d \in ChatClients : d # c =>
             /\ chClient'[d] = chClient[d] /\ chConn'[d] = chConn[d]
             /\ chToClient'[d] = chToClient[d] /\ chToServer'[d] = chToServer[d]
      BY <1>0, <1>t DEF Talk!TypeOK
    <2>2. ~(chServer = "killed" /\ c = chNewfd)
      BY <1>3, <1>t DEF Served
    <2>3. chConn[c] # "up" => chConn'[c] # "up"
      BY <1>2
    <2> QED BY <1>0, <2>1, <2>2, <2>3 DEF StepOf
  <1>5. Waits(c) => Waits(c)'
    BY <1>0 DEF Waits
  <1>6. c = chNewfd /\ IsServed(c) => IsServed(c)'
    <2>1. SUFFICES ASSUME IsServed(c) PROVE IsServed(c)'
      OBVIOUS
    <2>2. chConn[c] = "up" /\ chConn'[c] = "clientClosed" /\ Talk!Turns(c) = 1
      BY <1>2, <1>3, <2>1 DEF IsServed
    <2>3. ~chToClient[c] /\ ~chToServer[c] /\ chServer \notin {"type", "close"}
      BY <1>0, <2>2 DEF Talk!Turns
    <2> QED BY <1>0, <1>2, <2>2, <2>3 DEF IsServed
  <1>7. OffOrReset(c)'
    BY <1>2 DEF OffOrReset, LeftInReset
  <1> QED BY <1>1, <1>4, <1>5, <1>6, <1>7, ClientStep

\* A client is killed, in the listen queue or in the middle of a chat.
LEMMA CrashKeeps ==
    ASSUME ChatInv, NEW c \in ChatClients, Talk!Crash(c)
    PROVE  ChatInv'
  <1>t. Talk!TypeOK /\ Backlogged /\ Served /\ Clientele
    BY DEF ChatInv
  <1>0. /\ chClient[c] \in {"recv", "type"} /\ chServer' = chServer /\ chNewfd' = chNewfd
        /\ chAccepted' = chAccepted
        /\ chBacklog' = chBacklog /\ chToServer' = chToServer
        /\ chClient' = [chClient EXCEPT ![c] = "crashed"]
        /\ chToClient' = [chToClient EXCEPT ![c] = FALSE]
        /\ chConn' = [chConn EXCEPT ![c] = IF chToClient[c] /\ chConn[c] = "up" THEN "reset"
                                           ELSE IF chConn[c] = "up" THEN "clientClosed"
                                           ELSE "none"]
    BY DEF Talk!Crash, Talk!Set, Talk!ClosedByClient
  <1>1. Talk!TypeOK'
    BY <1>0, <1>t DEF Talk!TypeOK, Talk!Gone
  <1>2. /\ chClient'[c] = "crashed" /\ ~chToClient'[c]
        /\ chConn'[c] = IF chToClient[c] /\ chConn[c] = "up" THEN "reset"
                        ELSE IF chConn[c] = "up" THEN "clientClosed" ELSE "none"
    BY <1>0, <1>t DEF Talk!TypeOK
  <1>3. IsServed(c) => chConn[c] = "up"
    BY <1>0 DEF IsServed
  <1>4. StepOf(c)
    <2>1. \A d \in ChatClients : d # c =>
             /\ chClient'[d] = chClient[d] /\ chConn'[d] = chConn[d]
             /\ chToClient'[d] = chToClient[d] /\ chToServer'[d] = chToServer[d]
      BY <1>0, <1>t DEF Talk!TypeOK
    <2>2. ~(chServer = "killed" /\ c = chNewfd)
      BY <1>3, <1>t DEF Served
    <2>3. chConn[c] # "up" => chConn'[c] # "up"
      BY <1>2
    <2> QED BY <1>0, <2>1, <2>2, <2>3 DEF StepOf
  <1>5. Waits(c) => Waits(c)'
    BY <1>0, <1>2 DEF Waits
  <1>6. c = chNewfd /\ IsServed(c) => IsServed(c)'
    <2>1. SUFFICES ASSUME IsServed(c) PROVE IsServed(c)'
      OBVIOUS
    <2>2. chConn[c] = "up" /\ chConn'[c] \in {"reset", "clientClosed"} /\ Talk!Turns(c) = 1
      BY <1>2, <1>3, <2>1 DEF IsServed
    <2>3. /\ chToClient[c] => ~chToServer[c]
          /\ chServer \in {"type", "close"} => ~chToServer[c]
      BY <2>2 DEF Talk!Turns
    <2> QED BY <1>0, <1>2, <2>2, <2>3 DEF IsServed
  <1>7. OffOrReset(c)'
    BY <1>2 DEF OffOrReset, LeftInReset
  <1> QED BY <1>1, <1>4, <1>5, <1>6, <1>7, ClientStep
\* The server takes the oldest client of the listen queue.
LEMMA AcceptKeeps ==
    ASSUME ChatInv, Talk!accept
    PROVE  ChatInv'
  <1>t. Talk!TypeOK /\ Backlogged /\ Served /\ Clientele
    BY DEF ChatInv
  <1>0. /\ chServer = "accept" /\ chServer' = "type" /\ chBacklog # <<>>
        /\ chNewfd' = Head(chBacklog) /\ chBacklog' = Tail(chBacklog)
        /\ chClient' = chClient /\ chConn' = chConn /\ chToClient' = chToClient
        /\ chToServer' = chToServer /\ chAccepted' = chAccepted \cup {Head(chBacklog)}
    BY DEF Talk!accept
  <1>1. chBacklog \in Seq(ChatClients)
    BY <1>t DEF Talk!TypeOK
  <1>2. /\ DOMAIN chBacklog = 1 .. Len(chBacklog) /\ Len(chBacklog) \in Nat
        /\ \A a \in DOMAIN chBacklog : chBacklog[a] \in ChatClients
    BY <1>t, Waiters
  <1>3. /\ chBacklog' \in Seq(ChatClients) /\ 1 \in DOMAIN chBacklog /\ chNewfd' = chBacklog[1]
        /\ DOMAIN chBacklog' = 1 .. Len(chBacklog) - 1
        /\ \A a \in DOMAIN chBacklog' : chBacklog'[a] = chBacklog[a + 1]
    <2>1. Len(chBacklog) # 0
      BY <1>0, <1>1, EmptySeq
    <2> QED BY <1>0, <1>1, <1>2, <2>1, HeadTailProperties, LenProperties
  <1>4. \A a \in DOMAIN chBacklog' : a + 1 \in DOMAIN chBacklog /\ a + 1 # 1
    BY <1>2, <1>3
  <1>5. PICK c \in ChatClients : /\ c = chBacklog[1] /\ chNewfd' = c
                                /\ chAccepted' = chAccepted \cup {c}
    BY <1>0, <1>2, <1>3
  <1>6. Waits(c)
    BY <1>3, <1>5, <1>t DEF Backlogged
  <1>7. \A a \in DOMAIN chBacklog' : chBacklog'[a] # c
    BY <1>3, <1>4, <1>5, <1>t DEF Backlogged
  <1>8. Talk!TypeOK'
    BY <1>0, <1>3, <1>5, <1>t DEF Talk!TypeOK
  <1>9. Backlogged'
    <2>1. \A a, b \in DOMAIN chBacklog' : chBacklog'[a] = chBacklog'[b] => a = b
      <3>1. ASSUME NEW a \in DOMAIN chBacklog', NEW b \in DOMAIN chBacklog',
                   chBacklog'[a] = chBacklog'[b]
            PROVE  a = b
        <4>1. a + 1 = b + 1
          BY <1>3, <1>4, <1>t, <3>1 DEF Backlogged
        <4> QED BY <1>2, <1>3, <4>1
      <3> QED BY <3>1
    <2>2. ASSUME NEW a \in DOMAIN chBacklog' PROVE Waits(chBacklog[a])'
      <3>1. Waits(chBacklog[a + 1]) /\ chBacklog'[a] = chBacklog[a + 1] /\ chBacklog'[a] # c
        BY <1>3, <1>4, <1>7, <1>t DEF Backlogged
      <3> QED BY <1>0, <1>5, <3>1 DEF Waits
    <2> QED BY <1>0, <2>1, <2>2 DEF Backlogged, Talk!Gone
  <1>10. Served'
    <2>1. IsServed(c)'
      BY <1>0, <1>6 DEF Waits, IsServed, Talk!Turns
    <2> QED BY <1>0, <1>5, <2>1, ChatAssumption DEF Served
  <1>11. Clientele'
    <2>1. ASSUME NEW d \in ChatClients PROVE OffOrReset(d)'
      <3>1. OffOrReset(d) /\ chClient[c] # "off" /\ chServer \notin Talk!Gone
        BY <1>0, <1>6, <1>t DEF Clientele, Waits, Talk!Gone
      <3>2. chClient[d] = "off" => \A a \in DOMAIN chBacklog' : chBacklog'[a] # d
        BY <1>3, <1>4, <3>1 DEF OffOrReset, LeftInReset
      <3> QED BY <1>0, <1>5, <3>1, <3>2 DEF OffOrReset, LeftInReset
    <2> QED BY <2>1 DEF Clientele
  <1> QED BY <1>8, <1>9, <1>10, <1>11 DEF ChatInv

\* A step of the server that concerns the client it serves and nobody else.
ServesOn(c) ==
    /\ c = chNewfd /\ chNewfd' = chNewfd /\ chBacklog' = chBacklog /\ chClient' = chClient
    /\ chAccepted' = chAccepted
    /\ {chServer, chServer'} \subseteq {"type", "recv", "close"}
    /\ \A d \in ChatClients : d # c =>
          /\ chConn'[d] = chConn[d]
          /\ chToClient'[d] = chToClient[d] /\ chToServer'[d] = chToServer[d]

\* Such a step disturbs only what is said of that client.
LEMMA ServerStep ==
    ASSUME ChatInv, NEW c \in ChatClients, ServesOn(c), Talk!TypeOK', IsServed(c)'
    PROVE  ChatInv'
  <1>t. Talk!TypeOK /\ Backlogged /\ Served /\ Clientele
    BY DEF ChatInv
  <1>0. /\ c = chNewfd /\ chNewfd' = c /\ chBacklog' = chBacklog /\ chClient' = chClient
        /\ chAccepted' = chAccepted
        /\ chServer \in {"type", "recv", "close"} /\ chServer' \in {"type", "recv", "close"}
        /\ chServer \notin Talk!Gone /\ chServer' \notin Talk!Gone
    BY DEF ServesOn, Talk!Gone
  <1>1. ASSUME NEW d \in ChatClients, d # c
        PROVE  /\ chConn'[d] = chConn[d]
               /\ chToClient'[d] = chToClient[d] /\ chToServer'[d] = chToServer[d]
    BY <1>1 DEF ServesOn
  <1>2. Backlogged'
    <2>1. ASSUME NEW a \in DOMAIN chBacklog PROVE Waits(chBacklog[a])'
      <3>1. PICK d \in ChatClients : d = chBacklog[a] /\ Waits(d)
        BY <1>t, Waiters DEF Backlogged
      <3>2. Waits(d)'
        BY <1>0, <1>1, <3>1 DEF Waits
      <3> QED BY <1>0, <3>1, <3>2 DEF Waits
    <2> QED BY <1>0, <1>t, <2>1 DEF Backlogged
  <1>3. Served'
    <2>1. c # none
      BY ChatAssumption
    <2> QED BY <1>0, <2>1 DEF Served
  <1>4. ASSUME NEW d \in ChatClients PROVE OffOrReset(d)'
    <2>1. OffOrReset(d)
      BY <1>t DEF Clientele
    <2>2. CASE d = c
      BY <1>0, <2>1, <2>2 DEF OffOrReset, LeftInReset, IsServed
    <2>3. CASE d # c
      BY <1>0, <1>1, <2>1, <2>3 DEF OffOrReset, LeftInReset
    <2> QED BY <2>2, <2>3
  <1>5. Clientele'
    BY <1>4 DEF Clientele
  <1> QED BY <1>2, <1>3, <1>5 DEF ChatInv

\* What is known of the client when the server is in the middle of a chat.
LEMMA InChat ==
    ASSUME ChatInv, chServer \in {"type", "recv", "close"}
    PROVE  chNewfd \in ChatClients /\ IsServed(chNewfd)
  BY DEF ChatInv, Talk!TypeOK, Served

\* The server receives, or its prompt is left with "quit".
LEMMA ServerRecvKeeps ==
    ASSUME ChatInv, Talk!ServerRecv \/ Talk!ServerQuit
    PROVE  ChatInv'
  <1>t. Talk!TypeOK
    BY DEF ChatInv
  <1>1. CASE Talk!ServerRecv
    <2>0. /\ chServer = "recv" /\ chNewfd' = chNewfd /\ chBacklog' = chBacklog
          /\ chAccepted' = chAccepted
          /\ chClient' = chClient /\ chConn' = chConn /\ chToClient' = chToClient
          /\ \/ /\ chToServer[chNewfd] /\ chToServer' = [chToServer EXCEPT ![chNewfd] = FALSE]
                /\ chServer' = "type"
             \/ /\ ~chToServer[chNewfd] /\ chConn[chNewfd] = "reset"
                /\ chServer' = "type" /\ chToServer' = chToServer
             \/ /\ ~chToServer[chNewfd] /\ chConn[chNewfd] \in {"clientClosed", "clientReset"}
                /\ chServer' = "close" /\ chToServer' = chToServer
      BY <1>1 DEF Talk!ServerRecv, Talk!Set, Talk!ServerAfterError, Talk!ServerAfterStop
    <2>1. PICK c \in ChatClients : c = chNewfd /\ IsServed(c)
      BY <2>0, InChat
    <2>2. \/ chToServer[c] /\ ~chToServer'[c] /\ chServer' = "type"
          \/ /\ ~chToServer[c] /\ ~chToServer'[c]
             /\ \/ chConn[c] = "reset" /\ chServer' = "type"
                \/ chConn[c] \in {"clientClosed", "clientReset"} /\ chServer' = "close"
      BY <1>t, <2>0, <2>1 DEF Talk!TypeOK
    <2>3. IsServed(c)'
      <3>1. CASE chConn[c] = "up"
        <4>1. Talk!Turns(c) = 1 /\ chToServer[c] /\ ~chToServer'[c] /\ chServer' = "type"
          BY <2>1, <2>2, <3>1 DEF IsServed
        <4>2. Talk!Turns(c)' = 1
          BY <2>0, <4>1 DEF Talk!Turns
        <4> QED BY <2>0, <2>1, <3>1, <4>2 DEF IsServed
      <3>2. CASE chConn[c] # "up"
        BY <2>0, <2>1, <2>2, <3>2 DEF IsServed
      <3> QED BY <3>1, <3>2
    <2>4. Talk!TypeOK'
      BY <1>t, <2>0 DEF Talk!TypeOK
    <2>5. ServesOn(c)
      BY <1>t, <2>0, <2>1 DEF ServesOn, Talk!TypeOK
    <2> QED BY <2>3, <2>4, <2>5, ServerStep
  <1>2. CASE Talk!ServerQuit
    <2>0. /\ chServer = "type" /\ chServer' = "close" /\ chNewfd' = chNewfd
          /\ chAccepted' = chAccepted
          /\ chBacklog' = chBacklog /\ chToServer' = chToServer
          /\ chClient' = chClient /\ chConn' = chConn /\ chToClient' = chToClient
      BY <1>2 DEF Talk!ServerQuit
    <2>1. PICK c \in ChatClients : c = chNewfd /\ IsServed(c)
      BY <2>0, InChat
    <2>3. IsServed(c)'
      <3>1. Talk!Turns(c)' = Talk!Turns(c)
        BY <2>0 DEF Talk!Turns
      <3> QED BY <2>0, <2>1, <3>1 DEF IsServed
    <2>4. Talk!TypeOK'
      BY <1>t, <2>0 DEF Talk!TypeOK
    <2>5. ServesOn(c)
      BY <2>0, <2>1 DEF ServesOn
    <2> QED BY <2>3, <2>4, <2>5, ServerStep
  <1> QED BY <1>1, <1>2
\* The server ends: the connections in the listen queue are reset.
Ends ==
    /\ chServer \notin Talk!Gone /\ chServer' \in {"exited", "killed"}
    /\ chServer' = "exited" <=> chNewfd = none
    /\ Talk!ListenerClosed /\ chNewfd' = chNewfd /\ chClient' = chClient
    /\ chToClient' = chToClient /\ chToServer' = chToServer /\ chAccepted' = chAccepted

\* Clients are left on reset connections only by a server that has ended, and a
\* server that was killed has its own connection reset by the killed client.
LEMMA EndKeeps ==
    ASSUME ChatInv, Ends,
           \A c \in ChatClients : c = chNewfd => chConn[c] = "reset"
    PROVE  ChatInv'
  <1>t. Talk!TypeOK /\ Backlogged /\ Served /\ Clientele
    BY DEF ChatInv
  <1>0. /\ chServer \notin Talk!Gone /\ chServer' \in {"exited", "killed"}
        /\ chServer' = "exited" <=> chNewfd = none
        /\ chNewfd' = chNewfd /\ chClient' = chClient /\ chBacklog' = <<>>
        /\ chToClient' = chToClient /\ chToServer' = chToServer /\ chAccepted' = chAccepted
        /\ chConn' = [c \in ChatClients |-> IF \E a \in DOMAIN chBacklog : chBacklog[a] = c
                                            THEN "reset" ELSE chConn[c]]
    BY DEF Ends, Talk!ListenerClosed
  <1>1. \A c \in ChatClients : chConn'[c] \in {"reset", chConn[c]}
    BY <1>0
  <1>2. Talk!TypeOK'
    <2>1. chConn' \in [ChatClients -> {"none", "up", "reset", "clientClosed", "clientReset",
                                        "serverClosed"}]
      BY <1>0, <1>t DEF Talk!TypeOK
    <2> QED BY <1>0, <1>t, <2>1 DEF Talk!TypeOK
  <1>3. Backlogged'
    BY <1>0 DEF Backlogged
  <1>4. Served'
    <2>1. ASSUME NEW c \in ChatClients, c = chNewfd PROVE chConn'[c] = "reset" /\ IsServed(c)'
      <3>1. chConn[c] = "reset" /\ chConn'[c] = "reset" /\ IsServed(c)
        BY <1>0, <1>1, <1>t, <2>1 DEF Served, Talk!Gone
      <3> QED BY <1>0, <3>1 DEF IsServed
    <2>2. chServer' = "killed" => chNewfd \in ChatClients
      BY <1>0, <1>t DEF Talk!TypeOK
    <2>3. /\ chServer' \in {"accept", "ask", "exited"} => chNewfd = none
          /\ chServer' \in {"type", "recv", "close", "killed"} => chNewfd # none
      BY <1>0
    <2> QED BY <1>0, <2>1, <2>2, <2>3 DEF Served
  <1>5. ASSUME NEW d \in ChatClients PROVE OffOrReset(d)'
    <2>1. OffOrReset(d) /\ chServer' \in Talk!Gone
      BY <1>0, <1>t DEF Clientele, Talk!Gone
    <2>2. chConn'[d] # chConn[d] => d \notin chAccepted
      BY <1>0, <1>t DEF Backlogged, Waits
    <2> QED BY <1>0, <1>1, <2>1, <2>2 DEF OffOrReset, LeftInReset
  <1>6. Clientele'
    BY <1>5 DEF Clientele
  <1> QED BY <1>2, <1>3, <1>4, <1>6 DEF ChatInv

\* The server sends: to a client that listens, to one that has closed, or on a
\* connection that was reset.
LEMMA ServerSendKeeps ==
    ASSUME ChatInv, Talk!ServerSend
    PROVE  ChatInv'
  <1>t. Talk!TypeOK
    BY DEF ChatInv
  <1>0. /\ chServer = "type" /\ chNewfd' = chNewfd /\ chClient' = chClient
        /\ chToServer' = chToServer /\ chAccepted' = chAccepted
    BY DEF Talk!ServerSend
  <1>1. PICK c \in ChatClients : c = chNewfd /\ IsServed(c)
    BY <1>0, InChat
  <1>2. CASE /\ chConn[chNewfd] = "up" /\ chToClient' = [chToClient EXCEPT ![chNewfd] = TRUE]
             /\ chServer' = "recv" /\ chConn' = chConn /\ chBacklog' = chBacklog
    <2>1. chToClient'[c]
      BY <1>1, <1>2, <1>t DEF Talk!TypeOK
    <2>2. Talk!Turns(c) = 1 /\ Talk!Turns(c)' = 1
      BY <1>0, <1>1, <1>2, <2>1 DEF Talk!Turns, IsServed
    <2>3. IsServed(c)'
      BY <1>0, <1>1, <1>2, <2>1, <2>2 DEF IsServed
    <2>4. Talk!TypeOK'
      BY <1>0, <1>2, <1>t DEF Talk!TypeOK
    <2>5. ServesOn(c)
      BY <1>0, <1>1, <1>2, <1>t DEF ServesOn, Talk!TypeOK
    <2> QED BY <2>3, <2>4, <2>5, ServerStep
  <1>3. CASE /\ chConn[chNewfd] = "clientClosed"
             /\ chConn' = [chConn EXCEPT ![chNewfd] = "clientReset"]
             /\ chServer' = "recv" /\ chToClient' = chToClient /\ chBacklog' = chBacklog
    <2>1. chConn'[c] = "clientReset"
      BY <1>1, <1>3, <1>t DEF Talk!TypeOK
    <2>2. chClient[c] = "crashed" /\ ~chToServer[c] /\ ~chToClient[c]
      BY <1>0, <1>1, <1>3 DEF IsServed
    <2>3. IsServed(c)'
      BY <1>0, <1>3, <2>1, <2>2 DEF IsServed
    <2>4. Talk!TypeOK'
      BY <1>0, <1>3, <1>t DEF Talk!TypeOK
    <2>5. ServesOn(c)
      BY <1>0, <1>1, <1>3, <1>t DEF ServesOn, Talk!TypeOK
    <2> QED BY <2>3, <2>4, <2>5, ServerStep
  <1>4. CASE /\ chConn[chNewfd] \in {"reset", "clientReset"}
             /\ chServer' = "killed" /\ Talk!ListenerClosed /\ chToClient' = chToClient
    <2>1. chConn[c] = "reset" /\ c # none
      BY <1>0, <1>1, <1>4, ChatAssumption DEF IsServed
    <2>2. Ends
      BY <1>0, <1>1, <1>4, <2>1 DEF Ends, Talk!Gone
    <2> QED BY <1>1, <2>1, <2>2, EndKeeps
  <1> QED BY <1>2, <1>3, <1>4 DEF Talk!ServerSend, Talk!Set

\* The server closes the connection.
LEMMA CloseKeeps ==
    ASSUME ChatInv, Talk!CloseNewfd
    PROVE  ChatInv'
  <1>t. Talk!TypeOK /\ Backlogged /\ Served /\ Clientele
    BY DEF ChatInv
  <1>0. /\ chServer = "close" /\ chServer' = "ask" /\ chNewfd' = none
        /\ chConn' = [chConn EXCEPT ![chNewfd] = IF chConn[chNewfd] = "up" THEN "serverClosed"
                                                 ELSE "none"]
        /\ chBacklog' = chBacklog /\ chClient' = chClient /\ chToClient' = chToClient
        /\ chToServer' = chToServer /\ chAccepted' = chAccepted
    BY DEF Talk!CloseNewfd, Talk!ClosedByServer, Talk!Set
  <1>1. PICK c \in ChatClients : c = chNewfd /\ IsServed(c)
    BY <1>0, InChat
  <1>2. /\ chConn'[c] \in {"serverClosed", "none"}
        /\ \A d \in ChatClients : d # c => chConn'[d] = chConn[d]
    BY <1>0, <1>1, <1>t DEF Talk!TypeOK
  <1>3. Talk!TypeOK'
    BY <1>0, <1>t DEF Talk!TypeOK
  <1>4. Backlogged'
    <2>1. ASSUME NEW a \in DOMAIN chBacklog PROVE Waits(chBacklog[a])'
      <3>1. PICK d \in ChatClients : d = chBacklog[a] /\ Waits(d)
        BY <1>t, Waiters DEF Backlogged
      <3>2. d # c /\ d # none
        BY <1>1, <3>1, ChatAssumption DEF Waits
      <3> QED BY <1>0, <1>2, <3>1, <3>2 DEF Waits
    <2> QED BY <1>0, <1>t, <2>1 DEF Backlogged, Talk!Gone
  <1>5. Served'
    BY <1>0, ChatAssumption DEF Served
  <1>6. ASSUME NEW d \in ChatClients PROVE OffOrReset(d)'
    <2>1. OffOrReset(d) /\ chServer \notin Talk!Gone /\ d # none
      BY <1>0, <1>t, ChatAssumption DEF Clientele, Talk!Gone
    <2> QED BY <1>0, <1>2, <2>1 DEF OffOrReset, LeftInReset
  <1>7. Clientele'
    BY <1>6 DEF Clientele
  <1> QED BY <1>3, <1>4, <1>5, <1>7 DEF ChatInv

\* "exit?" is answered.
LEMMA AnswerYesNoKeeps ==
    ASSUME ChatInv, NEW yes \in BOOLEAN, Talk!Answer(yes)
    PROVE  ChatInv'
  <1>t. Talk!TypeOK /\ Backlogged /\ Served /\ Clientele
    BY DEF ChatInv
  <1>0. /\ chServer = "ask" /\ chNewfd' = chNewfd /\ chClient' = chClient
        /\ chToClient' = chToClient /\ chToServer' = chToServer /\ chAccepted' = chAccepted
    BY DEF Talk!Answer
  <1>1. chNewfd = none
    BY <1>0, <1>t DEF Served
  <1>2. CASE chServer' = "exited" /\ Talk!ListenerClosed
    <2>1. Ends
      BY <1>0, <1>1, <1>2 DEF Ends, Talk!Gone
    <2> QED BY <1>1, <2>1, EndKeeps, ChatAssumption
  <1>3. CASE chServer' = "accept" /\ chConn' = chConn /\ chBacklog' = chBacklog
    <2>1. Talk!TypeOK'
      BY <1>0, <1>3, <1>t DEF Talk!TypeOK
    <2>2. Backlogged'
      BY <1>0, <1>3, <1>t DEF Backlogged, Waits, Talk!Gone
    <2>3. Served'
      BY <1>0, <1>1, <1>3, ChatAssumption DEF Served
    <2>4. Clientele'
      BY <1>0, <1>3, <1>t DEF Clientele, OffOrReset, LeftInReset, Talk!Gone
    <2> QED BY <2>1, <2>2, <2>3, <2>4 DEF ChatInv
  <1> QED BY <1>2, <1>3 DEF Talk!Answer

\* The server is killed: the client it serves is left on a closed or a reset
\* connection, those in the listen queue on reset ones.
LEMMA ServerCrashKeeps ==
    ASSUME ChatInv, Talk!ServerCrash
    PROVE  ChatInv'
  <1>t. Talk!TypeOK /\ Backlogged /\ Served /\ Clientele
    BY DEF ChatInv
  <1>0. /\ chServer \notin Talk!Gone /\ chServer' = "crashed" /\ chBacklog' = <<>>
        /\ chNewfd' = chNewfd /\ chClient' = chClient /\ chToClient' = chToClient
        /\ chAccepted' = chAccepted
        /\ chToServer' = [c \in ChatClients |-> c # chNewfd /\ chToServer[c]]
    BY DEF Talk!ServerCrash
  <1>1. chConn' = [c \in ChatClients |->
                     IF \E a \in DOMAIN chBacklog : chBacklog[a] = c THEN "reset"
                     ELSE IF c # chNewfd THEN chConn[c]
                     ELSE IF chToServer[c] /\ chConn[c] = "up" THEN "reset"
                     ELSE Talk!ClosedByServer[c]]
    BY DEF Talk!ServerCrash
  <1>2. ASSUME NEW c \in ChatClients, c = chNewfd
        PROVE  Talk!ClosedByServer[c] \in {"serverClosed", "none"}
    BY <1>2, <1>t DEF Talk!ClosedByServer, Talk!Set, Talk!TypeOK
  <1>3. ASSUME NEW c \in ChatClients
        PROVE  /\ chConn'[c] \in {"none", "up", "reset", "clientClosed", "clientReset",
                                  "serverClosed"}
               /\ c = chNewfd => chConn'[c] # "up"
               /\ chConn'[c] = "reset" => chConn[c] = "reset" \/ c = chNewfd \/ c \notin chAccepted
               /\ chConn'[c] # "reset" => chConn[c] # "reset" \/ c = chNewfd
               /\ chConn[c] = "reset" /\ c # chNewfd => chConn'[c] = "reset"
    <2>1. CASE \E a \in DOMAIN chBacklog : chBacklog[a] = c
      <3>1. chConn'[c] = "reset"
        BY <1>1, <2>1
      <3>2. Waits(c)
        BY <1>t, <2>1 DEF Backlogged
      <3> QED BY <3>1, <3>2 DEF Waits
    <2>2. CASE ~(\E a \in DOMAIN chBacklog : chBacklog[a] = c) /\ c # chNewfd
      <3>1. chConn'[c] = chConn[c]
        BY <1>1, <2>2
      <3>2. chConn[c] \in {"none", "up", "reset", "clientClosed", "clientReset",
                           "serverClosed"}
        BY <1>t DEF Talk!TypeOK
      <3> QED BY <2>2, <3>1, <3>2
    <2>3. CASE ~(\E a \in DOMAIN chBacklog : chBacklog[a] = c) /\ c = chNewfd
      <3>1. chConn'[c] \in {"reset", Talk!ClosedByServer[c]}
        BY <1>1, <2>3
      <3> QED BY <1>2, <2>3, <3>1
    <2> QED BY <2>1, <2>2, <2>3
  <1>4. Talk!TypeOK'
    <2>1. chConn' \in [ChatClients -> {"none", "up", "reset", "clientClosed", "clientReset",
                                        "serverClosed"}]
      BY <1>1, <1>3
    <2>2. chToServer' \in [ChatClients -> BOOLEAN]
      BY <1>0
    <2>3. chBacklog' \in Seq(ChatClients)
      BY <1>0
    <2> QED BY <1>0, <1>t, <2>1, <2>2, <2>3 DEF Talk!TypeOK
  <1>5. Backlogged'
    BY <1>0 DEF Backlogged
  <1>6. Served'
    BY <1>0, <1>3 DEF Served
  <1>7. ASSUME NEW d \in ChatClients PROVE OffOrReset(d)'
    <2>1. OffOrReset(d) /\ chServer' \in Talk!Gone
      BY <1>0, <1>t DEF Clientele, Talk!Gone
    <2>2. chClient[d] # "killed"
      BY <1>0, <2>1 DEF OffOrReset, LeftInReset
    <2>3. chClient[d] = "off" => ~chToServer'[d]
      BY <1>0, <2>1 DEF OffOrReset
    <2>4. chClient[d] \in {"recv", "type"} => chConn[d] # "reset"
      BY <1>0, <2>1 DEF OffOrReset, LeftInReset
    <2> QED BY <1>0, <1>3, <2>1, <2>2, <2>3, <2>4 DEF OffOrReset, LeftInReset
  <1>8. Clientele'
    BY <1>7 DEF Clientele
  <1> QED BY <1>4, <1>5, <1>6, <1>8 DEF ChatInv

\* ChatInv is inductive: the steps of the clients and of the server.
LEMMA ChatNext ==
    ASSUME ChatInv, [Next]_vars
    PROVE  ChatInv'
  <1>1. CASE Talk!Next
    BY <1>1, ConnectKeeps, ClientRecvKeeps, ClientSendKeeps, ClientQuitKeeps, CrashKeeps,
       AcceptKeeps, ServerSendKeeps, ServerRecvKeeps, CloseKeeps, AnswerYesNoKeeps,
       ServerCrashKeeps DEF Talk!Next
  <1>2. CASE UNCHANGED ch
    <2>1. /\ chServer' = chServer /\ chNewfd' = chNewfd /\ chBacklog' = chBacklog
          /\ chClient' = chClient /\ chConn' = chConn /\ chToClient' = chToClient
          /\ chToServer' = chToServer /\ chAccepted' = chAccepted
      BY <1>2 DEF ch
    <2> QED BY <2>1 DEF ChatInv, Talk!TypeOK, Backlogged, Waits, Served, IsServed, Talk!Turns,
                        Clientele, OffOrReset, LeftInReset, Talk!Gone
  <1> QED BY <1>1, <1>2 DEF Next, vars

\* While a chat is up exactly one side may speak; only a client killed from
\* outside brings the server down, and a client dies of SIGPIPE only if it was
\* not accepted or the server was killed while it served it (server.c and
\* client.c, which take -1 from recv for a message).
THEOREM TurnsAndDeathsHold == Spec => []TurnsAndDeaths
  <1>1. Init => ChatInv
    BY ChatInit DEF Init
  <1>2. ChatInv /\ [Next]_vars => ChatInv'
    BY ChatNext
  <1>3. ChatInv => TurnsAndDeaths
    <2> SUFFICES ASSUME ChatInv PROVE TurnsAndDeaths
      OBVIOUS
    <2>1. Talk!TakeTurns
      BY DEF ChatInv, Served, IsServed, Talk!TypeOK, Talk!TakeTurns
    <2>2. Talk!ServerKilledOnlyByCrash
      <3>1. SUFFICES ASSUME chServer = "killed" PROVE chClient[chNewfd] = "crashed"
        BY DEF Talk!ServerKilledOnlyByCrash
      <3>2. chNewfd \in ChatClients /\ chConn[chNewfd] = "reset"
        BY <3>1 DEF ChatInv, Served, Talk!TypeOK
      <3> QED BY <3>1, <3>2 DEF ChatInv, Served, IsServed
    <2>3. Talk!ClientKilledOnlyByReset
      BY DEF ChatInv, Clientele, OffOrReset, LeftInReset, Talk!ClientKilledOnlyByReset
    <2> QED BY <2>1, <2>2, <2>3 DEF ChatInv, TurnsAndDeaths
  <1> QED BY <1>1, <1>2, <1>3, PTL DEF Spec
-------------------------------------------------------------------------------
(* RingDemo.  A side that wraps flips its mirror bit and then sets its     *)
(* index: between the two stores it counts as past the end of the pool,    *)
(* which is what its mirror bit says.                                      *)

\* The indices that belong to the mirror bits, and the blocks got and put by then.
ReadAt == IF rbReader = "wrap" THEN 0 ELSE rbReadIndex
WriteAt == IF rbWriter = "wrap" THEN 0 ELSE rbWriteIndex
Read == Len(rbGot) + (IF rbReader = "wrap" THEN 1 ELSE 0)
Written == Len(rbStored) - (IF rbWriter = "advance" THEN 1 ELSE 0)

\* The cell that is k cells behind the reader.
Cell(k) == IF ReadAt + k < RingBlocks THEN ReadAt + k ELSE ReadAt + k - RingBlocks

\* How many blocks are in the pool, by the counters and by indices and mirror bits.
Counted ==
    /\ Written - Read = IF rbReadMirror = rbWriteMirror THEN WriteAt - ReadAt
                        ELSE RingBlocks + WriteAt - ReadAt
    /\ Written - Read \in 0 .. RingBlocks

\* A side that copies has a block, or room for one; a side that wraps is at the last
\* cell, and a side that the other outran has not noticed.
Claims ==
    /\ rbWriter \in {"copy", "copied", "advance"} => Written - Read < RingBlocks
    /\ rbReader \in {"copy", "copied", "advance"} => Written - Read > 0
    /\ rbWriter = "wrap" => rbWriteIndex = RingBlocks - 1
    /\ rbReader = "wrap" => rbReadIndex = RingBlocks - 1
    /\ rbReader = "wrap" /\ Written - Read = RingBlocks =>
          \/ rbWriter = "idle" /\ rbPause = "put"
          \/ rbWriter = "wrap"
    /\ rbWriter = "wrap" /\ Written - Read = 0 =>
          \/ rbReader = "idle" /\ rbPause = "get"
          \/ rbReader = "wrap"

\* The pool holds the blocks that were not got, the reader the one it is getting.
InPool == \A k \in 0 .. Len(rbStored) - Read - 1 : rbPool[Cell(k)] = rbStored[Read + k + 1]
InHand == rbReader \in {"copied", "advance", "wrap"} => rbData = rbStored[Len(rbGot) + 1]
Printed == \A k \in DOMAIN rbGot : k <= Len(rbStored) /\ rbGot[k] = rbStored[k]

\* Equal indices with different mirror bits were so when the put began.
FullSeen ==
    /\ rbWriter = "index" => (Ring!IsFull => rbFull)
    /\ rbWriter = "mirror" => rbFull \/ rbReadMirror = rbWriteMirror
    /\ rbWriter = "dropped" => rbFull

\* What holds of both threads while no thread was outrun.
Exact == Counted /\ Claims /\ InPool /\ InHand /\ Printed /\ FullSeen

RingDemoInv ==
    /\ Ring!TypeOK /\ (rbWriter # "idle" => rbJ # 0)
    /\ rbPause # "outrun" => Exact
-------------------------------------------------------------------------------
\* The buffer starts empty, with both sides at the first cell.
LEMMA RingInit == Init => RingDemoInv
  <1> SUFFICES ASSUME Ring!Init PROVE RingDemoInv
    BY DEF Init
  <1> USE RingAssumption
  <1>1. Ring!TypeOK /\ rbWriter = "idle" /\ rbReader = "idle" /\ rbPause = "none"
    BY DEF Ring!Init, Ring!TypeOK, Ring!Torn
  <1>2. ReadAt = 0 /\ WriteAt = 0 /\ Read = 0 /\ Written = 0
        /\ rbReadMirror = rbWriteMirror
    BY DEF Ring!Init, ReadAt, WriteAt, Read, Written
  <1>3. Counted /\ Claims
    BY <1>1, <1>2 DEF Counted, Claims
  <1>4. InPool /\ InHand /\ Printed /\ FullSeen
    BY <1>1, <1>2 DEF Ring!Init, InPool, InHand, Printed, FullSeen
  <1> QED BY <1>1, <1>3, <1>4 DEF RingDemoInv, Exact

\* The places and counters are integers, and the places are cells of the pool.
LEMMA RingTypes ==
  ASSUME Ring!TypeOK
  PROVE  /\ RingBlocks \in Nat /\ RingBlocks > 0
         /\ ReadAt \in Int /\ 0 <= ReadAt /\ ReadAt < RingBlocks
         /\ WriteAt \in Int /\ 0 <= WriteAt /\ WriteAt < RingBlocks
         /\ Len(rbStored) \in Nat /\ Len(rbGot) \in Nat /\ Read \in Nat /\ Written \in Int
  <1>1. RingBlocks \in Nat /\ RingBlocks > 0
    BY RingAssumption
  <1>2. rbReadIndex \in 0 .. RingBlocks - 1 /\ rbWriteIndex \in 0 .. RingBlocks - 1
    BY DEF Ring!TypeOK
  <1>3. Len(rbStored) \in Nat /\ Len(rbGot) \in Nat
    <2>1. rbStored \in Seq(1 .. RingPuts) /\ rbGot \in Seq(0 .. RingPuts)
      BY DEF Ring!TypeOK
    <2> QED BY <2>1
  <1>4. /\ ReadAt \in Int /\ 0 <= ReadAt /\ ReadAt < RingBlocks
        /\ WriteAt \in Int /\ 0 <= WriteAt /\ WriteAt < RingBlocks
    BY <1>1, <1>2 DEF ReadAt, WriteAt
  <1> QED BY <1>1, <1>3, <1>4 DEF Read, Written

\* Cells fewer than a pool apart are different cells, and the next block goes to
\* the cell behind the ones that hold blocks.
LEMMA RingCells ==
  ASSUME Ring!TypeOK
  PROVE  /\ \A k \in Int : 0 <= k /\ k < RingBlocks => Cell(k) \in 0 .. RingBlocks - 1
         /\ \A k, m \in Int : 0 <= k /\ k < m /\ m < RingBlocks => Cell(k) # Cell(m)
         /\ Cell(0) = ReadAt
         /\ Counted /\ Written - Read < RingBlocks => Cell(Written - Read) = WriteAt
  <1>1. /\ RingBlocks \in Nat /\ RingBlocks > 0
        /\ ReadAt \in Int /\ 0 <= ReadAt /\ ReadAt < RingBlocks
        /\ WriteAt \in Int /\ 0 <= WriteAt /\ WriteAt < RingBlocks
        /\ Read \in Nat /\ Written \in Int
    BY RingTypes
  <1>2. ASSUME Counted, Written - Read < RingBlocks PROVE Cell(Written - Read) = WriteAt
    BY <1>1, <1>2 DEF Counted, Cell
  <1> QED BY <1>1, <1>2 DEF Cell

\* A writer that was outrun stays so; one that begins again while the reader is
\* between its stores is; and its return in that time is remembered.
LEMMA WriterPauses ==
  ASSUME NEW from, NEW to, Ring!Writer(from, to), rbPause' # "outrun"
  PROVE  /\ rbPause # "outrun"
         /\ from = "idle" /\ to # "idle" => rbPause # "put"
         /\ to = "idle" /\ rbReader = "wrap" => rbPause' = "put"
  BY DEF Ring!Writer, Ring!Outrun

\* The same of the reader.
LEMMA ReaderPauses ==
  ASSUME NEW from, NEW to, Ring!Reader(from, to), rbPause' # "outrun"
  PROVE  /\ rbPause # "outrun"
         /\ from = "idle" /\ to # "idle" => rbPause # "get"
         /\ to = "idle" /\ rbWriter = "wrap" => rbPause' = "get"
  BY DEF Ring!Reader, Ring!Outrun
\* What the steps of the two threads assign keeps its type; a put has made a block.
LEMMA RingTyped ==
  ASSUME Ring!TypeOK, rbWriter # "idle" => rbJ # 0, Ring!Next
  PROVE  Ring!TypeOK' /\ (rbWriter # "idle" => rbJ # 0)'
  <1> USE RingAssumption
  <1>1. /\ rbReadMirror \in {0, 1} /\ rbWriteMirror \in {0, 1}
        /\ rbReadIndex \in 0 .. RingBlocks - 1 /\ rbWriteIndex \in 0 .. RingBlocks - 1
        /\ rbPool \in [0 .. RingBlocks - 1 -> 0 .. RingPuts] /\ rbPut \in BOOLEAN
        /\ rbJ \in 0 .. RingPuts /\ rbData \in 0 .. RingPuts
        /\ rbPause \in {"none", "put", "get", "outrun"}
        /\ rbStored \in Seq(1 .. RingPuts) /\ rbGot \in Seq(0 .. RingPuts)
    BY DEF Ring!TypeOK
  <1>2. ASSUME NEW from, NEW to, Ring!Writer(from, to)
        PROVE  rbPause' \in {"none", "put", "get", "outrun"}
    BY <1>1, <1>2 DEF Ring!Writer, Ring!Outrun
  <1>3. ASSUME NEW from, NEW to, Ring!Reader(from, to)
        PROVE  rbPause' \in {"none", "put", "get", "outrun"}
    BY <1>1, <1>3 DEF Ring!Reader, Ring!Outrun
  <1>4. ASSUME NEW on \in BOOLEAN, Ring!SetPut(on)
        PROVE  Ring!TypeOK' /\ (rbWriter # "idle" => rbJ # 0)'
    BY <1>4 DEF Ring!SetPut, Ring!ring, Ring!TypeOK
  <1>5. CASE Ring!MakeBlock
    <2>1. Ring!Writer("idle", "index") /\ rbWriter' = "index" /\ rbJ' = rbJ + 1 /\ rbJ < RingPuts
      BY <1>5 DEF Ring!MakeBlock, Ring!Writer
    <2>2. rbPause' \in {"none", "put", "get", "outrun"}
      BY <1>2, <2>1
    <2>3. rbJ' \in 0 .. RingPuts /\ rbJ' # 0
      BY <1>1, <2>1
    <2> QED BY <1>5, <2>1, <2>2, <2>3 DEF Ring!MakeBlock, Ring!ring, Ring!TypeOK
  <1>6. CASE Ring!PutLoadIndex
    <2>1. rbPause' \in {"none", "put", "get", "outrun"}
      BY <1>2, <1>6 DEF Ring!PutLoadIndex
    <2> QED BY <1>6, <2>1 DEF Ring!PutLoadIndex, Ring!Writer, Ring!ring, Ring!TypeOK
  <1>7. CASE Ring!PutLoadMirror
    <2>1. rbPause' \in {"none", "put", "get", "outrun"}
      BY <1>2, <1>7 DEF Ring!PutLoadMirror
    <2> QED BY <1>7, <2>1 DEF Ring!PutLoadMirror, Ring!Writer, Ring!ring, Ring!TypeOK
  <1>8. CASE Ring!PutCopy
    <2>1. rbPause' \in {"none", "put", "get", "outrun"}
      BY <1>2, <1>8 DEF Ring!PutCopy
    <2>2. rbPool' \in [0 .. RingBlocks - 1 -> 0 .. RingPuts]
      BY <1>1, <1>8 DEF Ring!PutCopy, Ring!Torn
    <2> QED BY <1>8, <2>1, <2>2 DEF Ring!PutCopy, Ring!Writer, Ring!TypeOK
  <1>9. CASE Ring!PutCopied
    <2>1. rbPause' \in {"none", "put", "get", "outrun"}
      BY <1>2, <1>9 DEF Ring!PutCopied
    <2>2. rbPool' \in [0 .. RingBlocks - 1 -> 0 .. RingPuts]
      BY <1>1, <1>9 DEF Ring!PutCopied
    <2>3. rbJ \in 1 .. RingPuts
      BY <1>1, <1>9 DEF Ring!PutCopied, Ring!Writer
    <2>4. rbStored' \in Seq(1 .. RingPuts)
      BY <1>1, <1>9, <2>3 DEF Ring!PutCopied
    <2> QED BY <1>9, <2>1, <2>2, <2>4 DEF Ring!PutCopied, Ring!Writer, Ring!TypeOK
  <1>10. CASE Ring!PutAdvance
    <2>1. rbPause' \in {"none", "put", "get", "outrun"}
      BY <1>2, <1>10 DEF Ring!PutAdvance
    <2>2. rbWriteMirror' \in {0, 1} /\ rbWriteIndex' \in 0 .. RingBlocks - 1
      BY <1>1, <1>10 DEF Ring!PutAdvance, Ring!Last
    <2>3. rbWriter' \in {"idle", "wrap"} /\ rbJ' # 0
      BY <1>10 DEF Ring!PutAdvance, Ring!Writer
    <2> QED BY <1>10, <2>1, <2>2, <2>3 DEF Ring!PutAdvance, Ring!TypeOK
  <1>11. CASE Ring!PutWrap
    <2>1. rbPause' \in {"none", "put", "get", "outrun"}
      BY <1>2, <1>11 DEF Ring!PutWrap
    <2>2. rbWriteIndex' \in 0 .. RingBlocks - 1
      BY <1>11 DEF Ring!PutWrap
    <2> QED BY <1>11, <2>1, <2>2 DEF Ring!PutWrap, Ring!Writer, Ring!TypeOK
  <1>12. CASE Ring!PutDropped
    <2>1. rbPause' \in {"none", "put", "get", "outrun"}
      BY <1>2, <1>12 DEF Ring!PutDropped
    <2> QED BY <1>12, <2>1 DEF Ring!PutDropped, Ring!Writer, Ring!ring, Ring!TypeOK
  <1>13. CASE Ring!GetLoadIndex
    <2>1. rbPause' \in {"none", "put", "get", "outrun"}
      BY <1>3, <1>13 DEF Ring!GetLoadIndex
    <2> QED BY <1>13, <2>1 DEF Ring!GetLoadIndex, Ring!Reader, Ring!ring, Ring!TypeOK
  <1>14. CASE Ring!GetLoadMirror
    <2>1. rbPause' \in {"none", "put", "get", "outrun"}
      BY <1>3, <1>14 DEF Ring!GetLoadMirror
    <2> QED BY <1>14, <2>1 DEF Ring!GetLoadMirror, Ring!Reader, Ring!ring, Ring!TypeOK
  <1>15. CASE Ring!GetCopy
    <2>1. rbPause' \in {"none", "put", "get", "outrun"}
      BY <1>3, <1>15 DEF Ring!GetCopy
    <2>2. rbData' \in 0 .. RingPuts
      BY <1>1, <1>15 DEF Ring!GetCopy
    <2> QED BY <1>15, <2>1, <2>2 DEF Ring!GetCopy, Ring!Reader, Ring!ring, Ring!TypeOK
  <1>16. CASE Ring!GetCopied
    <2>1. rbPause' \in {"none", "put", "get", "outrun"}
      BY <1>3, <1>16 DEF Ring!GetCopied
    <2>2. rbData' \in 0 .. RingPuts
      BY <1>1, <1>16 DEF Ring!GetCopied, Ring!Torn
    <2> QED BY <1>16, <2>1, <2>2 DEF Ring!GetCopied, Ring!Reader, Ring!ring, Ring!TypeOK
  <1>17. CASE Ring!GetAdvance
    <2>1. rbPause' \in {"none", "put", "get", "outrun"}
      BY <1>3, <1>17 DEF Ring!GetAdvance
    <2>2. rbReadMirror' \in {0, 1} /\ rbReadIndex' \in 0 .. RingBlocks - 1
      BY <1>1, <1>17 DEF Ring!GetAdvance, Ring!Last
    <2>3. rbGot' \in Seq(0 .. RingPuts)
      <3>1. rbGot' = rbGot \/ rbGot' = Append(rbGot, rbData)
        BY <1>17 DEF Ring!GetAdvance
      <3>2. Append(rbGot, rbData) \in Seq(0 .. RingPuts)
        BY <1>1
      <3> QED BY <1>1, <3>1, <3>2
    <2>4. rbReader' \in {"idle", "wrap"}
      BY <1>17 DEF Ring!GetAdvance, Ring!Reader
    <2> QED BY <1>17, <2>1, <2>2, <2>3, <2>4 DEF Ring!GetAdvance, Ring!TypeOK
  <1>18. CASE Ring!GetWrap
    <2>1. rbPause' \in {"none", "put", "get", "outrun"}
      BY <1>3, <1>18 DEF Ring!GetWrap
    <2>2. rbReadIndex' \in 0 .. RingBlocks - 1 /\ rbGot' \in Seq(0 .. RingPuts)
      BY <1>1, <1>18 DEF Ring!GetWrap
    <2> QED BY <1>18, <2>1, <2>2 DEF Ring!GetWrap, Ring!Reader, Ring!TypeOK
  <1> QED
    BY <1>4, <1>5, <1>6, <1>7, <1>8, <1>9, <1>10, <1>11, <1>12, <1>13, <1>14, <1>15, <1>16,
       <1>17, <1>18 DEF Ring!Next
\* A step that moves no block and no place keeps the count and what the pool holds.
LEMMA RingSteady ==
  ASSUME Counted, InPool, Printed,
         rbReadMirror' = rbReadMirror, rbWriteMirror' = rbWriteMirror, rbPool' = rbPool,
         rbStored' = rbStored, rbGot' = rbGot,
         ReadAt' = ReadAt, WriteAt' = WriteAt, Read' = Read, Written' = Written
  PROVE  Counted' /\ InPool' /\ Printed'
  <1>1. Counted' /\ Printed'
    BY DEF Counted, Printed
  <1>2. \A k : Cell(k)' = Cell(k)
    BY DEF Cell
  <1>3. ASSUME NEW k \in 0 .. Len(rbStored) - Read - 1
        PROVE  rbPool'[Cell(k)'] = rbStored'[Read' + k + 1]
    BY <1>2, <1>3 DEF InPool
  <1>4. InPool'
    BY <1>3 DEF InPool
  <1> QED BY <1>1, <1>4

\* The steps of pthread_func_1 that only load, or make or drop a block.
LEMMA WriterLooks ==
  ASSUME Ring!TypeOK, Exact, rbPause # "outrun", rbPause' # "outrun",
         Ring!MakeBlock \/ Ring!PutLoadIndex \/ Ring!PutLoadMirror \/ Ring!PutDropped
  PROVE  Exact'
  <1>1. /\ RingBlocks \in Nat /\ RingBlocks > 0
        /\ ReadAt \in Int /\ 0 <= ReadAt /\ ReadAt < RingBlocks
        /\ WriteAt \in Int /\ 0 <= WriteAt /\ WriteAt < RingBlocks
        /\ Read \in Nat /\ Written \in Int
    BY RingTypes
  <1>2. /\ rbReadMirror' = rbReadMirror /\ rbWriteMirror' = rbWriteMirror /\ rbPool' = rbPool
        /\ rbReadIndex' = rbReadIndex /\ rbWriteIndex' = rbWriteIndex
        /\ rbStored' = rbStored /\ rbGot' = rbGot /\ rbReader' = rbReader /\ rbData' = rbData
        /\ rbWriter \notin {"advance", "wrap"} /\ rbWriter' \notin {"advance", "wrap"}
    BY DEF Ring!MakeBlock, Ring!PutLoadIndex, Ring!PutLoadMirror, Ring!PutDropped, Ring!ring,
           Ring!Writer
  <1>3. ReadAt' = ReadAt /\ WriteAt' = WriteAt /\ Read' = Read /\ Written' = Written
    BY <1>2 DEF ReadAt, WriteAt, Read, Written
  <1>4. Counted' /\ InPool' /\ Printed'
    BY <1>2, <1>3, RingSteady DEF Exact
  <1>5. InHand'
    BY <1>2 DEF InHand, Exact
  <1>6. ASSUME rbWriter' \notin {"copy", "copied"},
               rbReader = "wrap" /\ Written - Read = RingBlocks => rbWriter' = "idle" /\ rbPause' = "put"
        PROVE  Claims'
    BY <1>2, <1>3, <1>6 DEF Claims, Exact
  <1>7. CASE Ring!MakeBlock
    <2>1. Ring!Writer("idle", "index") /\ rbWriter = "idle" /\ rbWriter' = "index"
          /\ rbFull' = Ring!IsFull
      BY <1>7 DEF Ring!MakeBlock, Ring!Writer
    <2>2. rbPause # "put"
      BY <2>1, WriterPauses
    <2>3. Claims'
      BY <1>6, <2>1, <2>2 DEF Claims, Exact
    <2>4. FullSeen'
      BY <1>2, <2>1 DEF FullSeen, Ring!IsFull
    <2> QED BY <1>4, <1>5, <2>3, <2>4 DEF Exact
  <1>8. CASE Ring!PutLoadIndex
    <2>1. /\ rbWriter = "index" /\ rbFull' = rbFull
          /\ rbWriter' = IF rbReadIndex = rbWriteIndex THEN "mirror" ELSE "copy"
      BY <1>8 DEF Ring!PutLoadIndex, Ring!Writer
    <2>2. ~(rbReader = "wrap" /\ Written - Read = RingBlocks)
      BY <2>1 DEF Claims, Exact
    <2>3. CASE rbReadIndex = rbWriteIndex
      <3>1. Claims'
        BY <1>6, <2>1, <2>2, <2>3
      <3>2. FullSeen'
        BY <1>2, <2>1, <2>3 DEF FullSeen, Ring!IsFull, Exact
      <3> QED BY <1>4, <1>5, <3>1, <3>2 DEF Exact
    <2>4. CASE rbReadIndex # rbWriteIndex
      <3>1. WriteAt = rbWriteIndex
        BY <2>1 DEF WriteAt
      <3>2. Written - Read # RingBlocks
        <4>1. SUFFICES ASSUME Written - Read = RingBlocks PROVE FALSE
          OBVIOUS
        <4>2. rbReader # "wrap"
          BY <2>2, <4>1
        <4>3. ReadAt # WriteAt
          BY <2>4, <3>1, <4>2 DEF ReadAt
        <4> QED BY <1>1, <4>1, <4>3 DEF Counted, Exact
      <3>3. Written - Read < RingBlocks
        BY <1>1, <3>2 DEF Counted, Exact
      <3>4. Claims'
        BY <1>2, <1>3, <2>1, <2>4, <2>2, <3>3 DEF Claims, Exact
      <3>5. FullSeen'
        BY <2>1, <2>4 DEF FullSeen
      <3> QED BY <1>4, <1>5, <3>4, <3>5 DEF Exact
    <2> QED BY <2>3, <2>4
  <1>9. CASE Ring!PutLoadMirror
    <2>1. /\ rbWriter = "mirror" /\ rbFull' = rbFull
          /\ rbWriter' = IF rbReadMirror # rbWriteMirror THEN "dropped" ELSE "copy"
      BY <1>9 DEF Ring!PutLoadMirror, Ring!Writer, Ring!PutSeesFull
    <2>2. ~(rbReader = "wrap" /\ Written - Read = RingBlocks)
      BY <2>1 DEF Claims, Exact
    <2>3. FullSeen'
      BY <2>1 DEF FullSeen, Exact
    <2>4. CASE rbReadMirror # rbWriteMirror
      <3>1. Claims'
        BY <1>6, <2>1, <2>2, <2>4
      <3> QED BY <1>4, <1>5, <2>3, <3>1 DEF Exact
    <2>5. CASE rbReadMirror = rbWriteMirror
      <3>1. Written - Read < RingBlocks
        BY <1>1, <2>5 DEF Counted, Exact
      <3>2. Claims'
        BY <1>2, <1>3, <2>1, <2>5, <2>2, <3>1 DEF Claims, Exact
      <3> QED BY <1>4, <1>5, <2>3, <3>2 DEF Exact
    <2> QED BY <2>4, <2>5
  <1>10. CASE Ring!PutDropped
    <2>1. Ring!Writer("dropped", "idle") /\ rbWriter = "dropped" /\ rbWriter' = "idle"
      BY <1>10 DEF Ring!PutDropped, Ring!Writer
    <2>2. ~(rbReader = "wrap" /\ Written - Read = RingBlocks)
      BY <2>1 DEF Claims, Exact
    <2>3. Claims' /\ FullSeen'
      BY <1>6, <2>1, <2>2 DEF FullSeen
    <2> QED BY <1>4, <1>5, <2>3 DEF Exact
  <1> QED BY <1>7, <1>8, <1>9, <1>10
\* The steps of pthread_func_1 that copy a block and store the mirror bit and the index.
LEMMA WriterMoves ==
  ASSUME Ring!TypeOK, Exact, rbPause # "outrun", rbPause' # "outrun",
         Ring!PutCopy \/ Ring!PutCopied \/ Ring!PutAdvance \/ Ring!PutWrap
  PROVE  Exact'
  <1>1. /\ RingBlocks \in Nat /\ RingBlocks > 0
        /\ ReadAt \in Int /\ 0 <= ReadAt /\ ReadAt < RingBlocks
        /\ WriteAt \in Int /\ 0 <= WriteAt /\ WriteAt < RingBlocks
        /\ Read \in Nat /\ Written \in Int /\ Len(rbStored) \in Nat /\ Len(rbGot) \in Nat
    BY RingTypes
  <1>2. /\ rbReadMirror' = rbReadMirror /\ rbReadIndex' = rbReadIndex /\ rbGot' = rbGot
        /\ rbReader' = rbReader /\ rbData' = rbData
    BY DEF Ring!PutCopy, Ring!PutCopied, Ring!PutAdvance, Ring!PutWrap
  <1>3. ReadAt' = ReadAt /\ Read' = Read
    BY <1>2 DEF ReadAt, Read
  <1>4. \A k : Cell(k)' = Cell(k)
    BY <1>3 DEF Cell
  <1>5. rbPool \in [0 .. RingBlocks - 1 -> 0 .. RingPuts] /\ rbStored \in Seq(1 .. RingPuts)
        /\ rbGot \in Seq(0 .. RingPuts)
    BY DEF Ring!TypeOK
  <1>6. 0 <= Written - Read
    BY <1>1 DEF Counted, Exact
  <1>7. ASSUME rbWriter \in {"copy", "copied"}
        PROVE  /\ WriteAt = rbWriteIndex /\ Written = Len(rbStored)
               /\ Written - Read < RingBlocks /\ WriteAt = Cell(Written - Read)
               /\ \A k \in Int : 0 <= k /\ k < Written - Read => Cell(k) # rbWriteIndex
    <2>1. WriteAt = rbWriteIndex /\ Written = Len(rbStored) /\ Written - Read < RingBlocks
      BY <1>1, <1>7 DEF WriteAt, Written, Claims, Exact
    <2>2. WriteAt = Cell(Written - Read)
      BY <2>1, RingCells DEF Exact
    <2>3. Written - Read \in Int
      BY <1>1
    <2> QED BY <2>1, <2>2, <2>3, RingCells
  <1>8. CASE Ring!PutCopy
    <2>1. /\ rbWriter = "copy" /\ rbWriter' = "copied" /\ rbStored' = rbStored
          /\ rbWriteMirror' = rbWriteMirror /\ rbWriteIndex' = rbWriteIndex
          /\ rbPool' = [rbPool EXCEPT ![rbWriteIndex] = Ring!Torn]
      BY <1>8 DEF Ring!PutCopy, Ring!Writer
    <2>2. WriteAt' = WriteAt /\ Written' = Written
      BY <2>1 DEF WriteAt, Written
    <2>3. Counted' /\ Printed' /\ InHand' /\ FullSeen'
      BY <1>2, <1>3, <2>1, <2>2 DEF Counted, Printed, InHand, FullSeen, Exact
    <2>4. Claims'
      BY <1>2, <1>3, <2>1, <2>2 DEF Claims, Exact
    <2>5. ASSUME NEW k \in 0 .. Len(rbStored) - Read - 1
          PROVE  rbPool'[Cell(k)] = rbStored[Read + k + 1]
      <3>1. k \in Int /\ 0 <= k /\ k < Written - Read /\ k < RingBlocks
        BY <1>1, <1>7, <2>1, <2>5
      <3>2. Cell(k) # rbWriteIndex /\ Cell(k) \in 0 .. RingBlocks - 1
        BY <1>7, <2>1, <3>1, RingCells
      <3>3. rbPool'[Cell(k)] = rbPool[Cell(k)]
        BY <1>5, <2>1, <3>2
      <3> QED BY <2>5, <3>3 DEF InPool, Exact
    <2>6. InPool'
      BY <1>3, <1>4, <2>1, <2>5 DEF InPool
    <2> QED BY <2>3, <2>4, <2>6 DEF Exact
  <1>9. CASE Ring!PutCopied
    <2>1. /\ rbWriter = "copied" /\ rbWriter' = "advance" /\ rbStored' = Append(rbStored, rbJ)
          /\ rbWriteMirror' = rbWriteMirror /\ rbWriteIndex' = rbWriteIndex
          /\ rbPool' = [rbPool EXCEPT ![rbWriteIndex] = rbJ]
      BY <1>9 DEF Ring!PutCopied, Ring!Writer
    <2>2. /\ Len(rbStored') = Len(rbStored) + 1 /\ rbStored'[Len(rbStored) + 1] = rbJ
          /\ \A k \in 1 .. Len(rbStored) : rbStored'[k] = rbStored[k]
      BY <1>5, <2>1
    <2>3. WriteAt' = WriteAt /\ Written' = Written
      BY <1>1, <2>1, <2>2 DEF WriteAt, Written
    <2>4. Counted' /\ FullSeen'
      BY <1>2, <1>3, <2>1, <2>3 DEF Counted, FullSeen, Exact
    <2>5. Claims'
      BY <1>2, <1>3, <2>1, <2>3 DEF Claims, Exact
    <2>6. ASSUME NEW k \in 0 .. Len(rbStored) - Read
          PROVE  rbPool'[Cell(k)] = rbStored'[Read + k + 1]
      <3>1. CASE k = Len(rbStored) - Read
        <4>1. Cell(k) = rbWriteIndex /\ Read + k + 1 = Len(rbStored) + 1
          BY <1>1, <1>7, <2>1, <3>1
        <4>2. rbWriteIndex \in 0 .. RingBlocks - 1
          BY DEF Ring!TypeOK
        <4> QED BY <1>5, <2>1, <2>2, <4>1, <4>2
      <3>2. CASE k # Len(rbStored) - Read
        <4>1. /\ k \in 0 .. Len(rbStored) - Read - 1 /\ Read + k + 1 \in 1 .. Len(rbStored)
              /\ k \in Int /\ 0 <= k /\ k < Written - Read /\ k < RingBlocks
          BY <1>1, <1>7, <2>1, <2>6, <3>2
        <4>2. Cell(k) # rbWriteIndex /\ Cell(k) \in 0 .. RingBlocks - 1
          BY <1>7, <2>1, <4>1, RingCells
        <4>3. rbPool'[Cell(k)] = rbPool[Cell(k)]
          BY <1>5, <2>1, <4>2
        <4>4. rbPool[Cell(k)] = rbStored[Read + k + 1]
          BY <4>1 DEF InPool, Exact
        <4> QED BY <2>2, <4>1, <4>3, <4>4
      <3> QED BY <3>1, <3>2
    <2>7. InPool'
      <3>1. Len(rbStored') - Read' - 1 = Len(rbStored) - Read
        BY <1>1, <1>3, <2>2
      <3> QED BY <1>3, <1>4, <2>6, <3>1 DEF InPool
    <2>8. InHand'
      <3>1. SUFFICES ASSUME rbReader \in {"copied", "advance", "wrap"}
                     PROVE  rbData = rbStored'[Len(rbGot) + 1]
        BY <1>2 DEF InHand
      <3>2. Len(rbGot) + 1 \in 1 .. Len(rbStored)
        <4>1. CASE rbReader = "wrap"
          BY <1>1, <1>6, <1>7, <2>1, <4>1 DEF Read
        <4>2. CASE rbReader \in {"copied", "advance"}
          BY <1>1, <1>7, <2>1, <4>2 DEF Read, Claims, Exact
        <4> QED BY <3>1, <4>1, <4>2
      <3> QED BY <2>2, <3>1, <3>2 DEF InHand, Exact
    <2>9. Printed'
      <3>1. ASSUME NEW k \in DOMAIN rbGot PROVE k <= Len(rbStored') /\ rbGot[k] = rbStored'[k]
        <4>1. k \in 1 .. Len(rbStored) /\ rbGot[k] = rbStored[k]
          BY <1>1, <1>5, <3>1 DEF Printed, Exact
        <4> QED BY <1>1, <2>2, <4>1
      <3> QED BY <1>2, <3>1 DEF Printed
    <2> QED BY <2>4, <2>5, <2>7, <2>8, <2>9 DEF Exact
  <1>10. CASE Ring!PutAdvance
    <2>1. /\ rbWriter = "advance" /\ rbStored' = rbStored /\ rbPool' = rbPool
          /\ WriteAt = rbWriteIndex /\ Written = Len(rbStored) - 1
          /\ rbWriter' \in {"idle", "wrap"}
      BY <1>10 DEF Ring!PutAdvance, Ring!Writer, WriteAt, Written
    <2>2. Written' = Written + 1
      BY <1>1, <2>1 DEF Written
    <2>3. Written - Read < RingBlocks
      BY <2>1 DEF Claims, Exact
    <2>4. /\ rbWriter' = "wrap" => rbWriteIndex' = RingBlocks - 1
          /\ rbWriter' = "idle" /\ rbReader = "wrap" => rbPause' = "put"
      BY <1>10, WriterPauses DEF Ring!PutAdvance, Ring!Last, Ring!Writer
    <2>5. Counted'
      <3>1. CASE rbWriteIndex = RingBlocks - 1
        <4>1. WriteAt' = 0 /\ rbWriteMirror' = 1 - rbWriteMirror
          BY <1>10, <3>1 DEF Ring!PutAdvance, Ring!Last, Ring!Writer, WriteAt
        <4>2. rbReadMirror = rbWriteMirror
          BY <1>1, <2>1, <2>3, <3>1 DEF Counted, Exact
        <4>3. rbReadMirror' # rbWriteMirror'
          BY <1>2, <4>1, <4>2 DEF Ring!TypeOK
        <4> QED BY <1>1, <1>3, <2>1, <2>2, <2>3, <3>1, <4>1, <4>2, <4>3 DEF Counted, Exact
      <3>2. CASE rbWriteIndex # RingBlocks - 1
        <4>1. WriteAt' = WriteAt + 1 /\ rbWriteMirror' = rbWriteMirror
          BY <1>10, <2>1, <3>2 DEF Ring!PutAdvance, Ring!Last, Ring!Writer, WriteAt
        <4> QED BY <1>1, <1>2, <1>3, <2>1, <2>2, <2>3, <4>1 DEF Counted, Exact
      <3> QED BY <3>1, <3>2
    <2>6. Claims'
      BY <1>1, <1>2, <1>3, <1>6, <2>1, <2>2, <2>3, <2>4 DEF Claims, Exact
    <2>7. InHand' /\ Printed' /\ FullSeen'
      BY <1>2, <2>1 DEF InHand, Printed, FullSeen, Exact
    <2>8. InPool'
      BY <1>3, <1>4, <2>1 DEF InPool, Exact
    <2> QED BY <2>5, <2>6, <2>7, <2>8 DEF Exact
  <1>11. CASE Ring!PutWrap
    <2>1. /\ rbWriter = "wrap" /\ rbWriter' = "idle" /\ rbWriteIndex' = 0
          /\ rbReader = "wrap" => rbPause' = "put"
      BY <1>11, WriterPauses DEF Ring!PutWrap, Ring!Writer
    <2>2. rbWriteMirror' = rbWriteMirror /\ rbStored' = rbStored /\ rbPool' = rbPool
      BY <1>11 DEF Ring!PutWrap
    <2>3. WriteAt' = WriteAt /\ Written' = Written
      BY <2>1, <2>2 DEF WriteAt, Written
    <2>4. Counted' /\ InPool' /\ Printed'
      BY <1>2, <1>3, <2>2, <2>3, RingSteady DEF Exact
    <2>5. Claims'
      BY <1>2, <1>3, <2>1, <2>3 DEF Claims, Exact
    <2>6. InHand' /\ FullSeen'
      BY <1>2, <2>1, <2>2 DEF InHand, FullSeen, Exact
    <2> QED BY <2>4, <2>5, <2>6 DEF Exact
  <1> QED BY <1>8, <1>9, <1>10, <1>11
\* The steps of pthread_func_2 that load or copy.
LEMMA ReaderLooks ==
  ASSUME Ring!TypeOK, Exact, rbPause # "outrun", rbPause' # "outrun",
         Ring!GetLoadIndex \/ Ring!GetLoadMirror \/ Ring!GetCopy \/ Ring!GetCopied
  PROVE  Exact'
  <1>1. /\ RingBlocks \in Nat /\ RingBlocks > 0
        /\ ReadAt \in Int /\ 0 <= ReadAt /\ ReadAt < RingBlocks
        /\ WriteAt \in Int /\ 0 <= WriteAt /\ WriteAt < RingBlocks
        /\ Read \in Nat /\ Written \in Int /\ Len(rbStored) \in Nat /\ Len(rbGot) \in Nat
    BY RingTypes
  <1>2. /\ rbReadMirror' = rbReadMirror /\ rbWriteMirror' = rbWriteMirror /\ rbPool' = rbPool
        /\ rbReadIndex' = rbReadIndex /\ rbWriteIndex' = rbWriteIndex
        /\ rbStored' = rbStored /\ rbGot' = rbGot /\ rbWriter' = rbWriter /\ rbFull' = rbFull
        /\ rbReader # "wrap" /\ rbReader' # "wrap"
    BY DEF Ring!GetLoadIndex, Ring!GetLoadMirror, Ring!GetCopy, Ring!GetCopied, Ring!ring,
           Ring!Reader
  <1>3. ReadAt' = ReadAt /\ WriteAt' = WriteAt /\ Read' = Read /\ Written' = Written
        /\ ReadAt = rbReadIndex /\ Read = Len(rbGot)
    BY <1>1, <1>2 DEF ReadAt, WriteAt, Read, Written
  <1>4. Counted' /\ InPool' /\ Printed'
    BY <1>2, <1>3, RingSteady DEF Exact
  <1>5. FullSeen'
    BY <1>2 DEF FullSeen, Ring!IsFull, Exact
  <1>6. ASSUME rbReader' \in {"copy", "copied", "advance"} => Written - Read > 0,
               rbWriter = "wrap" /\ Written - Read = 0 => rbReader' = "idle" /\ rbPause' = "get"
        PROVE  Claims'
    BY <1>2, <1>3, <1>6 DEF Claims, Exact
  <1>7. CASE Ring!GetLoadIndex
    <2>1. /\ rbReader = "idle"
          /\ rbReader' = IF rbReadIndex = rbWriteIndex THEN "mirror" ELSE "copy"
      BY <1>7 DEF Ring!GetLoadIndex, Ring!Reader
    <2>2. rbPause # "get"
      BY <1>7, <2>1, ReaderPauses DEF Ring!GetLoadIndex
    <2>3. ~(rbWriter = "wrap" /\ Written - Read = 0)
      BY <2>1, <2>2 DEF Claims, Exact
    <2>4. ASSUME rbReadIndex # rbWriteIndex PROVE Written - Read > 0
      <3>1. SUFFICES ASSUME Written - Read = 0 PROVE FALSE
        BY <1>1 DEF Counted, Exact
      <3>2. WriteAt = rbWriteIndex
        BY <2>3, <3>1 DEF WriteAt
      <3> QED BY <1>1, <1>3, <2>4, <3>1, <3>2 DEF Counted, Exact
    <2>5. Claims'
      BY <1>6, <2>1, <2>3, <2>4
    <2>6. InHand'
      BY <2>1 DEF InHand
    <2> QED BY <1>4, <1>5, <2>5, <2>6 DEF Exact
  <1>8. CASE Ring!GetLoadMirror
    <2>1. /\ rbReader = "mirror"
          /\ rbReader' = IF rbReadMirror = rbWriteMirror THEN "idle" ELSE "copy"
      BY <1>8 DEF Ring!GetLoadMirror, Ring!Reader, Ring!GetSeesEmpty
    <2>2. ~(rbWriter = "wrap" /\ Written - Read = 0)
      BY <2>1 DEF Claims, Exact
    <2>3. ASSUME rbReadMirror # rbWriteMirror PROVE Written - Read > 0
      BY <1>1, <2>3 DEF Counted, Exact
    <2>4. Claims'
      BY <1>6, <2>1, <2>2, <2>3
    <2>5. InHand'
      BY <2>1 DEF InHand
    <2> QED BY <1>4, <1>5, <2>4, <2>5 DEF Exact
  <1>9. ASSUME rbReader \in {"copy", "copied"}
        PROVE  Written - Read > 0 /\ rbPool[rbReadIndex] = rbStored[Len(rbGot) + 1]
    <2>1. Written - Read > 0
      BY <1>9 DEF Claims, Exact
    <2>2. Written <= Len(rbStored)
      BY <1>1 DEF Written
    <2>3. 0 \in 0 .. Len(rbStored) - Read - 1
      BY <1>1, <2>1, <2>2
    <2>4. rbPool[Cell(0)] = rbStored[Read + 0 + 1]
      BY <2>3 DEF InPool, Exact
    <2>5. Cell(0) = rbReadIndex /\ Read + 0 + 1 = Len(rbGot) + 1
      BY <1>1, <1>3, RingCells
    <2> QED BY <2>1, <2>4, <2>5
  <1>10. CASE Ring!GetCopy
    <2>1. rbReader = "copy" /\ rbReader' = "copied" /\ rbData' = rbPool[rbReadIndex]
      BY <1>10 DEF Ring!GetCopy, Ring!Reader
    <2>2. Claims'
      BY <1>1, <1>6, <1>9, <2>1
    <2>3. InHand'
      BY <1>2, <1>9, <2>1 DEF InHand
    <2> QED BY <1>4, <1>5, <2>2, <2>3 DEF Exact
  <1>11. CASE Ring!GetCopied
    <2>1. /\ rbReader = "copied" /\ rbReader' = "advance"
          /\ rbData' = IF rbPool[rbReadIndex] = rbData THEN rbData ELSE Ring!Torn
      BY <1>11 DEF Ring!GetCopied, Ring!Reader
    <2>2. rbData' = rbStored[Len(rbGot) + 1]
      BY <1>9, <2>1 DEF InHand, Exact
    <2>3. Claims'
      BY <1>1, <1>6, <1>9, <2>1
    <2>4. InHand'
      BY <1>2, <2>2 DEF InHand
    <2> QED BY <1>4, <1>5, <2>3, <2>4 DEF Exact
  <1> QED BY <1>7, <1>8, <1>10, <1>11

\* The steps of pthread_func_2 that store the mirror bit and the index.
LEMMA ReaderMoves ==
  ASSUME Ring!TypeOK, Exact, rbPause # "outrun", rbPause' # "outrun",
         Ring!GetAdvance \/ Ring!GetWrap
  PROVE  Exact'
  <1>1. /\ RingBlocks \in Nat /\ RingBlocks > 0
        /\ ReadAt \in Int /\ 0 <= ReadAt /\ ReadAt < RingBlocks
        /\ WriteAt \in Int /\ 0 <= WriteAt /\ WriteAt < RingBlocks
        /\ Read \in Nat /\ Written \in Int /\ Len(rbStored) \in Nat /\ Len(rbGot) \in Nat
    BY RingTypes
  <1>2. /\ rbWriteMirror' = rbWriteMirror /\ rbWriteIndex' = rbWriteIndex /\ rbPool' = rbPool
        /\ rbStored' = rbStored /\ rbWriter' = rbWriter /\ rbFull' = rbFull /\ rbData' = rbData
    BY DEF Ring!GetAdvance, Ring!GetWrap
  <1>3. WriteAt' = WriteAt /\ Written' = Written /\ Written <= Len(rbStored)
        /\ Len(rbStored) <= Written + 1
    BY <1>1, <1>2 DEF WriteAt, Written
  <1>4. rbGot \in Seq(0 .. RingPuts) /\ rbStored \in Seq(1 .. RingPuts)
    BY DEF Ring!TypeOK
  <1>5. /\ Len(Append(rbGot, rbData)) = Len(rbGot) + 1
        /\ Append(rbGot, rbData)[Len(rbGot) + 1] = rbData
        /\ DOMAIN Append(rbGot, rbData) = 1 .. Len(rbGot) + 1
        /\ \A k \in 1 .. Len(rbGot) : Append(rbGot, rbData)[k] = rbGot[k]
    BY <1>4
  <1>6. ASSUME rbReader \in {"advance", "wrap"}, Len(rbGot) + 1 <= Len(rbStored),
               rbGot' = Append(rbGot, rbData)
        PROVE  Printed'
    <2>1. ASSUME NEW k \in 1 .. Len(rbGot) + 1
          PROVE  k <= Len(rbStored) /\ rbGot'[k] = rbStored[k]
      <3>1. CASE k = Len(rbGot) + 1
        BY <1>5, <1>6, <3>1 DEF InHand, Exact
      <3>2. CASE k # Len(rbGot) + 1
        <4>1. k \in 1 .. Len(rbGot)
          BY <1>1, <3>2
        <4>2. k \in DOMAIN rbGot
          BY <1>4, <4>1
        <4> QED BY <1>5, <1>6, <4>1, <4>2 DEF Printed, Exact
      <3> QED BY <3>1, <3>2
    <2> QED BY <1>2, <1>5, <1>6, <2>1 DEF Printed
  <1>7. CASE Ring!GetAdvance
    <2>1. rbReader = "advance" /\ ReadAt = rbReadIndex /\ Read = Len(rbGot)
          /\ rbReader' \in {"idle", "wrap"}
      BY <1>1, <1>7 DEF Ring!GetAdvance, Ring!Reader, ReadAt, Read
    <2>2. Written - Read > 0 /\ Written - Read <= RingBlocks
      BY <1>1, <2>1 DEF Claims, Counted, Exact
    <2>3. Len(rbGot) + 1 <= Len(rbStored)
      BY <1>1, <1>3, <2>1, <2>2
    <2>4. /\ rbReader' = "wrap" => rbReadIndex' = RingBlocks - 1
          /\ rbReader' = "idle" /\ rbWriter = "wrap" => rbPause' = "get"
      BY <1>7, ReaderPauses DEF Ring!GetAdvance, Ring!Last, Ring!Reader
    <2>5. CASE rbReadIndex = RingBlocks - 1
      <3>1. /\ rbReader' = "wrap" /\ rbReadMirror' = 1 - rbReadMirror
            /\ rbReadIndex' = rbReadIndex /\ rbGot' = rbGot
        BY <1>7, <2>5 DEF Ring!GetAdvance, Ring!Last, Ring!Reader
      <3>2. ReadAt' = 0 /\ Read' = Read + 1
        BY <1>1, <2>1, <3>1 DEF ReadAt, Read
      <3>3. rbReadMirror # rbWriteMirror
        BY <1>1, <2>1, <2>2, <2>5 DEF Counted, Exact
      <3>4. rbReadMirror' = rbWriteMirror'
        BY <1>2, <3>1, <3>3 DEF Ring!TypeOK
      <3>5. Counted'
        BY <1>1, <1>3, <2>1, <2>2, <2>5, <3>2, <3>3, <3>4 DEF Counted, Exact
      <3>6. Claims'
        BY <1>1, <1>2, <1>3, <2>2, <2>4, <3>1, <3>2 DEF Claims, Exact
      <3>7. InHand' /\ Printed'
        BY <1>2, <2>1, <3>1 DEF InHand, Printed, Exact
      <3>8. FullSeen'
        BY <1>2, <3>4 DEF FullSeen, Ring!IsFull, Exact
      <3>9. InPool'
        <4>1. ASSUME NEW k \in 0 .. Len(rbStored) - Read' - 1
              PROVE  rbPool[Cell(k)'] = rbStored[Read' + k + 1]
          <5>1. k + 1 \in 0 .. Len(rbStored) - Read - 1 /\ Read + (k + 1) + 1 = Read' + k + 1
                /\ k < RingBlocks /\ k \in Int /\ 0 <= k
            BY <1>1, <1>3, <2>2, <3>2, <4>1
          <5>2. Cell(k)' = Cell(k + 1)
            BY <1>1, <2>1, <2>5, <3>2, <5>1 DEF Cell
          <5>3. rbPool[Cell(k + 1)] = rbStored[Read + (k + 1) + 1]
            BY <5>1 DEF InPool, Exact
          <5> QED BY <5>1, <5>2, <5>3
        <4> QED BY <1>2, <4>1 DEF InPool
      <3> QED BY <3>5, <3>6, <3>7, <3>8, <3>9 DEF Exact
    <2>6. CASE rbReadIndex # RingBlocks - 1
      <3>1. /\ rbReader' = "idle" /\ rbReadMirror' = rbReadMirror
            /\ rbReadIndex' = rbReadIndex + 1 /\ rbGot' = Append(rbGot, rbData)
        BY <1>7, <2>6 DEF Ring!GetAdvance, Ring!Last, Ring!Reader
      <3>2. ReadAt' = ReadAt + 1 /\ Read' = Read + 1
        BY <1>1, <1>5, <2>1, <3>1 DEF ReadAt, Read
      <3>3. Counted'
        BY <1>1, <1>2, <1>3, <2>1, <2>2, <3>1, <3>2 DEF Counted, Exact
      <3>4. Claims'
        BY <1>1, <1>2, <1>3, <2>2, <2>4, <3>1, <3>2 DEF Claims, Exact
      <3>5. Printed' /\ InHand'
        BY <1>6, <2>1, <2>3, <3>1 DEF InHand
      <3>6. FullSeen'
        <4>1. ASSUME rbWriter = "index" PROVE ~Ring!IsFull'
          <5>1. WriteAt = rbWriteIndex
            BY <4>1 DEF WriteAt
          <5>2. Written - Read' < RingBlocks
            BY <1>1, <2>2, <3>2
          <5> QED BY <1>1, <1>2, <1>3, <2>1, <3>1, <3>2, <3>3, <5>1, <5>2
                  DEF Counted, Ring!IsFull
        <4> QED BY <1>2, <3>1, <4>1 DEF FullSeen, Exact
      <3>7. InPool'
        <4>1. ASSUME NEW k \in 0 .. Len(rbStored) - Read' - 1
              PROVE  rbPool[Cell(k)'] = rbStored[Read' + k + 1]
          <5>1. k + 1 \in 0 .. Len(rbStored) - Read - 1 /\ Read + (k + 1) + 1 = Read' + k + 1
                /\ k < RingBlocks /\ k \in Int /\ 0 <= k
            BY <1>1, <1>3, <2>2, <3>2, <4>1
          <5>2. Cell(k)' = Cell(k + 1)
            BY <1>1, <3>2, <5>1 DEF Cell
          <5>3. rbPool[Cell(k + 1)] = rbStored[Read + (k + 1) + 1]
            BY <5>1 DEF InPool, Exact
          <5> QED BY <5>1, <5>2, <5>3
        <4> QED BY <1>2, <4>1 DEF InPool
      <3> QED BY <3>3, <3>4, <3>5, <3>6, <3>7 DEF Exact
    <2> QED BY <2>5, <2>6
  <1>8. CASE Ring!GetWrap
    <2>1. /\ rbReader = "wrap" /\ rbReader' = "idle" /\ rbReadIndex' = 0
          /\ rbReadMirror' = rbReadMirror /\ rbGot' = Append(rbGot, rbData)
          /\ rbWriter = "wrap" => rbPause' = "get"
      BY <1>8, ReaderPauses DEF Ring!GetWrap, Ring!Reader
    <2>2. ReadAt' = ReadAt /\ Read' = Read /\ Read = Len(rbGot) + 1
      BY <1>1, <1>5, <2>1 DEF ReadAt, Read
    <2>3. Len(rbGot) + 1 <= Len(rbStored)
      BY <1>1, <1>3, <2>2 DEF Counted, Exact
    <2>4. Printed' /\ InHand'
      BY <1>6, <2>1, <2>3 DEF InHand
    <2>5. Counted'
      BY <1>2, <1>3, <2>1, <2>2 DEF Counted, Exact
    <2>6. Claims'
      BY <1>2, <1>3, <2>1, <2>2 DEF Claims, Exact
    <2>7. \A k : Cell(k)' = Cell(k)
      BY <2>2 DEF Cell
    <2>8. InPool'
      BY <1>2, <2>2, <2>7 DEF InPool, Exact
    <2>9. FullSeen'
      <3>1. ASSUME rbWriter = "index" PROVE ~Ring!IsFull'
        <4>1. WriteAt = rbWriteIndex /\ ReadAt = 0
          BY <2>1, <3>1 DEF WriteAt, ReadAt
        <4>2. Written - Read # RingBlocks
          BY <2>1, <3>1 DEF Claims, Exact
        <4> QED BY <1>1, <1>2, <2>1, <4>1, <4>2 DEF Counted, Ring!IsFull, Exact
      <3> QED BY <1>2, <2>1, <3>1 DEF FullSeen, Exact
    <2> QED BY <2>4, <2>5, <2>6, <2>8, <2>9 DEF Exact
  <1> QED BY <1>7, <1>8
\* A step of the demo, or of another program, keeps the invariant of the buffer.
LEMMA RingNext == RingDemoInv /\ [Next]_vars => RingDemoInv'
  <1> SUFFICES ASSUME RingDemoInv, [Next]_vars PROVE RingDemoInv'
    OBVIOUS
  <1>1. CASE Ring!Next
    <2>1. Ring!TypeOK' /\ (rbWriter # "idle" => rbJ # 0)'
      BY <1>1, RingTyped DEF RingDemoInv
    <2>2. SUFFICES ASSUME rbPause' # "outrun" PROVE Exact'
      BY <2>1 DEF RingDemoInv
    <2>3. ASSUME rbPause # "outrun" PROVE Ring!TypeOK /\ Exact
      BY <2>3 DEF RingDemoInv
    <2>4. ASSUME NEW on \in BOOLEAN, Ring!SetPut(on) PROVE Exact'
      <3>1. /\ rbReadMirror' = rbReadMirror /\ rbWriteMirror' = rbWriteMirror
            /\ rbReadIndex' = rbReadIndex /\ rbWriteIndex' = rbWriteIndex
            /\ rbPool' = rbPool /\ rbStored' = rbStored /\ rbGot' = rbGot
            /\ rbWriter' = rbWriter /\ rbReader' = rbReader /\ rbData' = rbData
            /\ rbFull' = rbFull /\ rbPause' = rbPause
        BY <2>4 DEF Ring!SetPut, Ring!ring
      <3>2. ReadAt' = ReadAt /\ WriteAt' = WriteAt /\ Read' = Read /\ Written' = Written
        BY <3>1 DEF ReadAt, WriteAt, Read, Written
      <3>3. Exact
        BY <2>2, <2>3, <3>1
      <3>4. Counted' /\ InPool' /\ Printed'
        BY <3>1, <3>2, <3>3, RingSteady DEF Exact
      <3>5. Claims' /\ InHand' /\ FullSeen'
        BY <3>1, <3>2, <3>3 DEF Exact, Claims, InHand, FullSeen, Ring!IsFull
      <3> QED BY <3>4, <3>5 DEF Exact
    <2>5. CASE Ring!MakeBlock \/ Ring!PutLoadIndex \/ Ring!PutLoadMirror \/ Ring!PutDropped
      <3>1. rbPause # "outrun"
        BY <2>2, <2>5, WriterPauses
           DEF Ring!MakeBlock, Ring!PutLoadIndex, Ring!PutLoadMirror, Ring!PutDropped
      <3> QED BY <2>2, <2>3, <2>5, <3>1, WriterLooks
    <2>6. CASE Ring!PutCopy \/ Ring!PutCopied \/ Ring!PutAdvance \/ Ring!PutWrap
      <3>1. rbPause # "outrun"
        BY <2>2, <2>6, WriterPauses
           DEF Ring!PutCopy, Ring!PutCopied, Ring!PutAdvance, Ring!PutWrap
      <3> QED BY <2>2, <2>3, <2>6, <3>1, WriterMoves
    <2>7. CASE Ring!GetLoadIndex \/ Ring!GetLoadMirror \/ Ring!GetCopy \/ Ring!GetCopied
      <3>1. rbPause # "outrun"
        BY <2>2, <2>7, ReaderPauses
           DEF Ring!GetLoadIndex, Ring!GetLoadMirror, Ring!GetCopy, Ring!GetCopied
      <3> QED BY <2>2, <2>3, <2>7, <3>1, ReaderLooks
    <2>8. CASE Ring!GetAdvance \/ Ring!GetWrap
      <3>1. rbPause # "outrun"
        BY <2>2, <2>8, ReaderPauses DEF Ring!GetAdvance, Ring!GetWrap
      <3> QED BY <2>2, <2>3, <2>8, <3>1, ReaderMoves
    <2> QED BY <1>1, <2>4, <2>5, <2>6, <2>7, <2>8 DEF Ring!Next
  <1>2. CASE UNCHANGED rb
    <2>1. /\ rbReadMirror' = rbReadMirror /\ rbWriteMirror' = rbWriteMirror
          /\ rbReadIndex' = rbReadIndex /\ rbWriteIndex' = rbWriteIndex
          /\ rbPool' = rbPool /\ rbStored' = rbStored /\ rbGot' = rbGot
          /\ rbWriter' = rbWriter /\ rbReader' = rbReader /\ rbData' = rbData
          /\ rbFull' = rbFull /\ rbPause' = rbPause /\ rbPut' = rbPut /\ rbJ' = rbJ
      BY <1>2 DEF rb
    <2>2. Ring!TypeOK' /\ (rbWriter # "idle" => rbJ # 0)'
      BY <2>1 DEF RingDemoInv, Ring!TypeOK
    <2>3. ASSUME Exact PROVE Exact'
      <3>1. ReadAt' = ReadAt /\ WriteAt' = WriteAt /\ Read' = Read /\ Written' = Written
        BY <2>1 DEF ReadAt, WriteAt, Read, Written
      <3>2. Counted' /\ InPool' /\ Printed'
        BY <2>1, <2>3, <3>1, RingSteady DEF Exact
      <3>3. Claims' /\ InHand' /\ FullSeen'
        BY <2>1, <2>3, <3>1 DEF Exact, Claims, InHand, FullSeen, Ring!IsFull
      <3> QED BY <3>2, <3>3 DEF Exact
    <2> QED BY <2>1, <2>2, <2>3 DEF RingDemoInv
  <1> QED BY <1>1, <1>2 DEF Next, vars

\* For a pool of any number of blocks: without a lock, and with mirror bits and
\* indices that are seen half updated, pthread_func_2 prints the blocks that were put,
\* whole and in order, and ring_buffer_put drops one only if the buffer was full,
\* unless a thread was outrun between its two stores.
THEOREM BlocksArriveInOrder == Spec => []BlocksInOrder
  <1>1. Init => RingDemoInv
    BY RingInit
  <1>2. RingDemoInv /\ [Next]_vars => RingDemoInv'
    BY RingNext
  <1>3. RingDemoInv => BlocksInOrder
    BY DEF RingDemoInv, Exact, Printed, FullSeen, BlocksInOrder, Ring!BlocksInOrder,
           Ring!DropsOnlyWhenFull
  <1> QED BY <1>1, <1>2, <1>3, PTL DEF Spec
===============================================================================
