------------------------------ MODULE ThreadPool ------------------------------
(***************************************************************************)
(* The thread pool of 20180731threadpoll-test/threadpoll.c: producers put  *)
(* tasks in a circular queue, detached workers run them, a manager thread  *)
(* grows and shrinks the set of workers, and threadpoll_destroy tears the  *)
(* pool down.  Every field is accessed under poll_lock, so a critical      *)
(* section is one step; pthread_cond_wait ends a step and the code after   *)
(* it is another one.  The one access outside the lock, the worker that    *)
(* reads the queue slot it took, is a step of its own (WorkerRun).         *)
(***************************************************************************)
EXTENDS Integers, Sequences, FiniteSets

CONSTANTS
    Workers,            \* entries of work_tids, i.e. max_thread_num threads
    MinThreadNum,       \* min_thread_num
    MaxTaskQueueSize,   \* max_task_queue_size
    Producers,          \* threads that call threadpoll_add_task
    Tasks,              \* tasks handed to the pool, each of them once
    NoTask,             \* the content of a slot never written
    CreateFails,        \* may pthread_create report an error?
    SpuriousWakeups     \* may pthread_cond_wait return without a signal?

MaxThreadNum == Cardinality(Workers)

ASSUME WorkersAssumption == IsFiniteSet(Workers)
ASSUME MinAssumption == MinThreadNum \in 0..MaxThreadNum
ASSUME QueueAssumption == MaxTaskQueueSize \in Nat \ {0}
ASSUME ProducersAssumption == IsFiniteSet(Producers)
ASSUME TaskAssumption == NoTask \notin Tasks
ASSUME FlagAssumption == CreateFails \in BOOLEAN /\ SpuriousWakeups \in BOOLEAN

VARIABLES
    poll_state, live_thread_num, busy_thread_num, wait_exit_thread_num,
    task_queue_size, task_queue_front, task_queue_rear, task_queue,
    wpc,        \* where each worker is; "none" when its work_tids entry is dead
    slot,       \* the worker's pointer "task", as an index of task_queue
    job,        \* the task a worker runs
    mpc,        \* where the manager is, and whether a signal ended its last wait
    opc,        \* where the thread that creates and destroys the pool is
    ppc,        \* where each producer is
    arg,        \* the task a producer blocked in threadpoll_add_task brings
    todo,       \* history: tasks not yet passed to threadpoll_add_task
    accepted,   \* history: the tasks put in the queue, in order
    ntaken,     \* history: how many of them workers took out
    given       \* history: the task a worker took out

counters == <<live_thread_num, busy_thread_num>>
queue == <<task_queue_size, task_queue_front, task_queue_rear, task_queue>>
producers == <<ppc, arg, todo, accepted>>
taking == <<slot, ntaken, given>>
vars == <<poll_state, counters, wait_exit_thread_num, queue, wpc, job, mpc, opc,
          producers, taking>>

Slots == 0 .. MaxTaskQueueSize - 1
Enabled == poll_state = 1
Freed == opc = "done"

Init ==
    /\ poll_state = 1
    /\ live_thread_num = 0 /\ busy_thread_num = 0 /\ wait_exit_thread_num = 0
    /\ task_queue_size = 0 /\ task_queue_front = 0 /\ task_queue_rear = 0
    /\ task_queue = [s \in Slots |-> NoTask]
    /\ wpc = [w \in Workers |-> "none"]
    /\ slot = [w \in Workers |-> 0]
    /\ job = [w \in Workers |-> NoTask]
    /\ given = [w \in Workers |-> NoTask]
    /\ mpc = "none"
    /\ opc = "create"
    /\ ppc = [p \in Producers |-> "idle"]
    /\ arg = [p \in Producers |-> NoTask]
    /\ todo = Tasks
    /\ accepted = <<>>
    /\ ntaken = 0

-------------------------------------------------------------------------------
(* Condition variables.  A thread blocked in pthread_cond_wait is at "wait";  *)
(* a signal moves it to "woken", where it competes for the lock again.        *)

Waiting(pc) == {x \in DOMAIN pc : pc[x] = "wait"}

\* The sets of waiters that k calls of pthread_cond_signal can wake.
Signalled(pc, k) ==
    {S \in SUBSET Waiting(pc) :
        Cardinality(S) = IF k < Cardinality(Waiting(pc)) THEN k
                                                         ELSE Cardinality(Waiting(pc))}

Wake(pc, S) == [x \in DOMAIN pc |-> IF x \in S THEN "woken" ELSE pc[x]]

Spurious(pc, x) ==
    /\ SpuriousWakeups /\ ~Freed
    /\ pc[x] = "wait"

-------------------------------------------------------------------------------
(* worker_thread                                                           *)

\* Fault: the index sticks at the end of the array.
NextSlotStuck(s) == IF s + 1 = MaxTaskQueueSize THEN s ELSE s + 1

NextSlot(s) == (s + 1) % MaxTaskQueueSize

\* Faults: a worker that leaves or finishes is not counted down.
LeftUncounted == live_thread_num
FinishedUncounted == busy_thread_num

Left == live_thread_num - 1
Finished == busy_thread_num - 1

\* Faults: every leaving worker signals alive_thread_empty, or none does.
LastGoneAlways == TRUE
LastGoneNever == FALSE

LastGone == Left <= 0

\* The thread takes itself off the count and signals alive_thread_empty.
Leave(w) ==
    /\ live_thread_num' = Left
    /\ UNCHANGED busy_thread_num
    /\ wpc' = [wpc EXCEPT ![w] = "exiting"]
    /\ mpc' = IF LastGone /\ mpc = "waitEmpty" THEN "wokenEmpty" ELSE mpc

\* Fault: a worker asked to exit does so even when min_thread_num are left.
MustExitBelowMin == wait_exit_thread_num > 0

\* A worker that wakes while exits are wanted leaves unless too few are left.
MustExit == wait_exit_thread_num > 0 /\ live_thread_num > MinThreadNum

\* The worker holds the lock and is at the test of the waiting loop: it came
\* from the top of the outer loop, or woke up and was not asked to exit.
AtLoopTest(w) ==
    /\ ~Freed
    /\ \/ wpc[w] = "ready" /\ UNCHANGED wait_exit_thread_num
       \/ /\ wpc[w] = "woken" /\ ~MustExit
          /\ wait_exit_thread_num' =
                IF wait_exit_thread_num > 0 THEN wait_exit_thread_num - 1 ELSE 0

WorkerWait(w) ==
    /\ AtLoopTest(w)
    /\ Enabled /\ task_queue_size = 0
    /\ wpc' = [wpc EXCEPT ![w] = "wait"]
    /\ UNCHANGED <<poll_state, counters, queue, job, mpc, opc, producers, taking>>

WorkerShrink(w) ==
    /\ ~Freed
    /\ wpc[w] = "woken" /\ MustExit
    /\ wait_exit_thread_num' = wait_exit_thread_num - 1
    /\ Leave(w)
    /\ UNCHANGED <<poll_state, queue, job, opc, producers, taking>>

WorkerDisabled(w) ==
    /\ AtLoopTest(w)
    /\ ~Enabled
    /\ Leave(w)
    /\ UNCHANGED <<poll_state, queue, job, opc, producers, taking>>

\* Fault: the producers that wait for a free slot are not told.
NotFullForgotten == {{}}

\* One producer is told of the free slot.
NotFullSignalled == Signalled(ppc, 1)

WorkerTake(w) ==
    /\ AtLoopTest(w)
    /\ Enabled /\ task_queue_size # 0
    /\ task_queue_front' = NextSlot(task_queue_front)
    /\ task_queue_size' = task_queue_size - 1
    /\ busy_thread_num' = busy_thread_num + 1
    /\ \E S \in NotFullSignalled : ppc' = Wake(ppc, S)
    /\ wpc' = [wpc EXCEPT ![w] = "got"]
    /\ slot' = [slot EXCEPT ![w] = task_queue_front']
    /\ given' = [given EXCEPT ![w] = task_queue[task_queue_front']]
    /\ ntaken' = ntaken + 1
    /\ UNCHANGED <<poll_state, live_thread_num, task_queue_rear, task_queue, job,
                   mpc, opc, arg, todo, accepted>>

\* task->task_name(task->task_param), after poll_lock was released.
WorkerRun(w) ==
    /\ ~Freed
    /\ wpc[w] = "got"
    /\ job' = [job EXCEPT ![w] = task_queue[slot[w]]]
    /\ wpc' = [wpc EXCEPT ![w] = "running"]
    /\ UNCHANGED <<poll_state, counters, wait_exit_thread_num, queue, mpc, opc,
                   producers, taking>>

\* The worker goes back to the top of its loop, where "task" becomes NULL.
TaskReturned(w) ==
    /\ wpc' = [wpc EXCEPT ![w] = "ready"]
    /\ slot' = [slot EXCEPT ![w] = 0]
    /\ job' = [job EXCEPT ![w] = NoTask]
    /\ given' = [given EXCEPT ![w] = NoTask]

WorkerDone(w) ==
    /\ ~Freed
    /\ wpc[w] = "running"
    /\ busy_thread_num' = Finished
    /\ TaskReturned(w)
    /\ UNCHANGED <<poll_state, live_thread_num, wait_exit_thread_num, queue, mpc,
                   opc, producers, ntaken>>

\* pthread_exit after the unlock: from here on pthread_kill finds no thread.
WorkerGone(w) ==
    /\ wpc[w] = "exiting"
    /\ wpc' = [wpc EXCEPT ![w] = "none"]
    /\ UNCHANGED <<poll_state, counters, wait_exit_thread_num, queue, job, mpc, opc,
                   producers, taking>>

WorkerSpurious(w) ==
    /\ Spurious(wpc, w)
    /\ wpc' = Wake(wpc, {w})
    /\ UNCHANGED <<poll_state, counters, wait_exit_thread_num, queue, job, mpc, opc,
                   producers, taking>>

WorkerNext(w) ==
    \/ WorkerWait(w) \/ WorkerShrink(w) \/ WorkerDisabled(w) \/ WorkerTake(w)
    \/ WorkerRun(w) \/ WorkerDone(w) \/ WorkerGone(w)

-------------------------------------------------------------------------------
(* manager_thread.  After ManagerGrow the condition of ManagerShrink is      *)
(* false (it adds no more workers than there are tasks), so one pass of the  *)
(* loop takes exactly one of ManagerGrow, ManagerShrink and ManagerKeep.     *)

ManagerStep == UNCHANGED <<poll_state, busy_thread_num, queue, job, opc, producers,
                           taking>>

TooBusy ==
    /\ busy_thread_num = live_thread_num
    /\ task_queue_size > 0
    /\ live_thread_num < MaxThreadNum

TooIdle ==
    /\ busy_thread_num < live_thread_num
    /\ live_thread_num - busy_thread_num > task_queue_size
    /\ live_thread_num > MinThreadNum

\* threadpoll_alive: pthread_kill(tid, 0) on the entries of work_tids.
Dead == {w \in Workers : wpc[w] = "none"}

\* The sets of dead entries the loop over work_tids starts workers in: it ends
\* with the entries, at max_thread_num workers or with one per queued task.
Restarted ==
    LET room == MaxThreadNum - live_thread_num
        want == IF room < task_queue_size THEN room ELSE task_queue_size
    IN {S \in SUBSET Dead :
            Cardinality(S) = IF want < Cardinality(Dead) THEN want
                                                         ELSE Cardinality(Dead)}

\* The result of pthread_create is not looked at: F are the calls that failed.
ManagerGrow ==
    /\ mpc = "top" /\ Enabled /\ TooBusy
    /\ \E S \in Restarted : \E F \in SUBSET S :
          /\ CreateFails \/ F = {}
          /\ wpc' = [w \in Workers |-> IF w \in S \ F THEN "ready" ELSE wpc[w]]
          /\ live_thread_num' = live_thread_num + Cardinality(S)
    /\ mpc' = "timedwait"
    /\ UNCHANGED wait_exit_thread_num /\ ManagerStep

ManagerShrink ==
    /\ mpc = "top" /\ Enabled /\ TooIdle
    /\ wait_exit_thread_num' = live_thread_num - busy_thread_num - task_queue_size
    /\ \E S \in Signalled(wpc, wait_exit_thread_num') : wpc' = Wake(wpc, S)
    /\ mpc' = "timedwait"
    /\ UNCHANGED live_thread_num /\ ManagerStep

ManagerKeep ==
    /\ mpc = "top" /\ Enabled /\ ~TooBusy /\ ~TooIdle
    /\ mpc' = "timedwait"
    /\ UNCHANGED <<live_thread_num, wait_exit_thread_num, wpc>> /\ ManagerStep

\* pthread_cond_timedwait returns: one second passed, or a spurious wakeup.
ManagerTimeout ==
    /\ mpc = "timedwait"
    /\ mpc' = "recheck"
    /\ UNCHANGED <<live_thread_num, wait_exit_thread_num, wpc>> /\ ManagerStep

\* The two tests of poll_state in the loop.
ManagerBreak ==
    /\ mpc \in {"top", "recheck"} /\ ~Enabled
    /\ mpc' = "stopping"
    /\ UNCHANGED <<live_thread_num, wait_exit_thread_num, wpc>> /\ ManagerStep

ManagerAgain ==
    /\ mpc = "recheck" /\ Enabled
    /\ mpc' = "top"
    /\ UNCHANGED <<live_thread_num, wait_exit_thread_num, wpc>> /\ ManagerStep

\* Waits for the last worker once; the condition is not tested again.
ManagerStop ==
    /\ mpc = "stopping"
    /\ mpc' = IF live_thread_num > 0 THEN "waitEmpty" ELSE "exited"
    /\ UNCHANGED <<live_thread_num, wait_exit_thread_num, wpc>> /\ ManagerStep

ManagerExit ==
    /\ mpc \in {"wokenEmpty", "wokenEarly"}
    /\ mpc' = IF mpc = "wokenEmpty" THEN "exited" ELSE "exitedEarly"
    /\ UNCHANGED <<live_thread_num, wait_exit_thread_num, wpc>> /\ ManagerStep

\* The wait is under an if: without a signal it ends just the same.
ManagerSpurious ==
    /\ SpuriousWakeups
    /\ mpc = "waitEmpty"
    /\ mpc' = "wokenEarly"
    /\ UNCHANGED <<live_thread_num, wait_exit_thread_num, wpc>> /\ ManagerStep

ManagerNext ==
    \/ ManagerGrow \/ ManagerShrink \/ ManagerKeep \/ ManagerTimeout
    \/ ManagerBreak \/ ManagerAgain \/ ManagerStop \/ ManagerExit

-------------------------------------------------------------------------------
(* threadpoll_add_task                                                     *)

ProducerStep == UNCHANGED <<poll_state, counters, wait_exit_thread_num,
                            task_queue_front, job, mpc, opc, taking>>

\* Fault: one task too many is let in.
QueueFullLate == task_queue_size > MaxTaskQueueSize

QueueFull == task_queue_size = MaxTaskQueueSize

\* The queue is full: block on task_queue_not_full.
Full(p, t) ==
    /\ Enabled /\ QueueFull
    /\ ppc' = [ppc EXCEPT ![p] = "wait"]
    /\ arg' = [arg EXCEPT ![p] = t]
    /\ UNCHANGED <<task_queue_size, task_queue_rear, task_queue, accepted, wpc>>

\* The pool is disabled: return -1.
Refuse(p) ==
    /\ ~Enabled
    /\ ppc' = [ppc EXCEPT ![p] = "idle"]
    /\ arg' = [arg EXCEPT ![p] = NoTask]
    /\ UNCHANGED <<task_queue_size, task_queue_rear, task_queue, accepted, wpc>>

\* Fault: the workers that wait for a task are not told.
NotEmptyForgotten == {{}}

\* One worker is told of the new task.
NotEmptySignalled == Signalled(wpc, 1)

Accept(p, t) ==
    /\ Enabled /\ ~QueueFull
    /\ task_queue_rear' = NextSlot(task_queue_rear)
    /\ task_queue' = [task_queue EXCEPT ![task_queue_rear'] = t]
    /\ task_queue_size' = task_queue_size + 1
    /\ \E S \in NotEmptySignalled : wpc' = Wake(wpc, S)
    /\ ppc' = [ppc EXCEPT ![p] = "idle"]
    /\ arg' = [arg EXCEPT ![p] = NoTask]
    /\ accepted' = Append(accepted, t)

\* A producer may call while the pool is being destroyed, not once it is gone.
AddTask(p, t) ==
    /\ opc \in {"up", "joining"}
    /\ ppc[p] = "idle" /\ t \in todo
    /\ todo' = todo \ {t}
    /\ Full(p, t) \/ Refuse(p) \/ Accept(p, t)
    /\ ProducerStep

AddTaskWoken(p) ==
    /\ ~Freed
    /\ ppc[p] = "woken"
    /\ Full(p, arg[p]) \/ Refuse(p) \/ Accept(p, arg[p])
    /\ UNCHANGED todo /\ ProducerStep

ProducerSpurious(p) ==
    /\ Spurious(ppc, p)
    /\ ppc' = Wake(ppc, {p})
    /\ UNCHANGED <<task_queue_size, task_queue_rear, task_queue, wpc, arg, todo,
                   accepted>>
    /\ ProducerStep

-------------------------------------------------------------------------------
(* threadpoll_create and threadpoll_destroy, called by the pool's owner.     *)
(* While the pool is created live_thread_num is the loop's index: no other   *)
(* thread changes it before the manager runs.                                *)

OwnerStep == UNCHANGED <<busy_thread_num, wait_exit_thread_num, queue, job, arg, todo,
                         accepted, taking>>

CreateWorker ==
    /\ opc = "create" /\ live_thread_num < MinThreadNum
    /\ \E w \in Dead : wpc' = [wpc EXCEPT ![w] = "ready"]
    /\ live_thread_num' = live_thread_num + 1
    /\ UNCHANGED <<poll_state, mpc, opc, ppc>> /\ OwnerStep

CreateManager ==
    /\ opc = "create" /\ live_thread_num = MinThreadNum
    /\ mpc' = "top"
    /\ opc' = "up"
    /\ UNCHANGED <<poll_state, live_thread_num, wpc, ppc>> /\ OwnerStep

\* The critical section of threadpoll_destroy.
Disable ==
    /\ poll_state' = 0
    /\ wpc' = Wake(wpc, Waiting(wpc))                       \* task_queue_not_empty
    /\ ppc' = Wake(ppc, Waiting(ppc))                       \* task_queue_not_full
    /\ mpc' = IF mpc = "timedwait" THEN "recheck" ELSE mpc  \* poll_not_enable
    /\ opc' = "joining"
    /\ UNCHANGED live_thread_num /\ OwnerStep

\* A failed pthread_create makes threadpoll_create call threadpoll_destroy.
CreateError == CreateFails /\ opc = "create" /\ Disable

Destroy == opc = "up" /\ Disable

\* pthread_join, then threadpoll_free.  adjust_tid is unset when the manager was
\* never started; joining it is undefined, the outcome modelled is its return.
DestroyFree ==
    /\ opc = "joining" /\ mpc \in {"exited", "exitedEarly", "none"}
    /\ opc' = "done"
    /\ UNCHANGED <<poll_state, live_thread_num, wpc, mpc, ppc>> /\ OwnerStep

\* The pool is gone and no thread has anything left to do.
Terminated ==
    /\ Freed
    /\ \A w \in Workers : wpc[w] # "exiting"
    /\ UNCHANGED vars

-------------------------------------------------------------------------------

Next ==
    \/ \E w \in Workers : WorkerNext(w) \/ WorkerSpurious(w)
    \/ ManagerNext \/ ManagerSpurious
    \/ \E p \in Producers, t \in Tasks : AddTask(p, t)
    \/ \E p \in Producers : AddTaskWoken(p) \/ ProducerSpurious(p)
    \/ CreateWorker \/ CreateManager \/ CreateError
    \/ Destroy \/ DestroyFree
    \/ Terminated

Spec == Init /\ [][Next]_vars

\* Every thread that can run is scheduled and gets the lock, and tasks return.
\* Nobody has to call threadpoll_add_task or threadpoll_destroy.
FairSpec ==
    /\ Spec
    /\ \A w \in Workers : WF_vars(WorkerNext(w))
    /\ WF_vars(ManagerNext)
    /\ \A p \in Producers : WF_vars(AddTaskWoken(p))
    /\ WF_vars(CreateWorker \/ CreateManager \/ DestroyFree)

-------------------------------------------------------------------------------
(* Properties                                                                *)

Counted == {w \in Workers : wpc[w] \notin {"none", "exiting"}}
Busy == {w \in Workers : wpc[w] \in {"got", "running"}}

\* Every field has its type: the counters stay within max_thread_num and the
\* size and the indices of the queue within max_task_queue_size.
TypeOK ==
    /\ poll_state \in {0, 1}
    /\ live_thread_num \in 0..MaxThreadNum
    /\ busy_thread_num \in 0..MaxThreadNum
    /\ wait_exit_thread_num \in 0..MaxThreadNum
    /\ task_queue_size \in 0..MaxTaskQueueSize
    /\ task_queue_front \in Slots /\ task_queue_rear \in Slots
    /\ task_queue \in [Slots -> Tasks \cup {NoTask}]
    /\ wpc \in [Workers -> {"none", "ready", "wait", "woken", "got", "running", "exiting"}]
    /\ slot \in [Workers -> Slots]
    /\ job \in [Workers -> Tasks \cup {NoTask}]
    /\ given \in [Workers -> Tasks \cup {NoTask}]
    /\ mpc \in {"none", "top", "timedwait", "recheck", "stopping", "waitEmpty",
                "wokenEmpty", "wokenEarly", "exited", "exitedEarly"}
    /\ opc \in {"create", "up", "joining", "done"}
    /\ ppc \in [Producers -> {"idle", "wait", "woken"}]
    /\ arg \in [Producers -> Tasks \cup {NoTask}]
    /\ todo \in SUBSET Tasks
    /\ accepted \in Seq(Tasks)
    /\ ntaken \in Nat

\* The circular queue holds, in the order of acceptance, exactly the tasks that
\* threadpoll_add_task accepted and no worker took out yet; none is lost,
\* duplicated or reordered in it, whatever front, rear and wrapping do.
QueueFifo ==
    /\ Len(accepted) = ntaken + task_queue_size
    /\ task_queue_rear = (task_queue_front + task_queue_size) % MaxTaskQueueSize
    /\ \A i \in 1..task_queue_size :
          task_queue[(task_queue_front + i) % MaxTaskQueueSize] = accepted[ntaken + i]

\* live_thread_num ("存活的线程数") is the number of workers that have not left.
LiveExact == live_thread_num = Cardinality(Counted)

\* busy_thread_num ("正在工作的线程数") is the number of workers between taking a
\* task and coming back for the next one.
BusyExact == busy_thread_num = Cardinality(Busy)

\* While the pool is enabled shrinking never leaves fewer than min_thread_num
\* workers, even with a wait_exit_thread_num that is out of date.
MinKeptAlive == opc = "up" => live_thread_num >= MinThreadNum

\* When the manager has ended no worker that will touch the pool is left, and
\* so none when threadpoll_destroy, which joined it, frees the pool.  The two
\* exceptions are the ways the code has to free it too early: the manager's
\* only wait ended without a signal, or the manager was never started.
NoWorkerOnFreedPool ==
    mpc = "exited" \/ Freed =>
        Counted = {} \/ mpc \in {"exitedEarly", "none"}

Woken == {p \in Producers : ppc[p] = "woken"}

\* A producer blocked on task_queue_not_full is never forgotten: there are at
\* least as many producers woken as there are free slots.
NoStrandedProducer ==
    Waiting(ppc) # {} =>
        MaxTaskQueueSize - task_queue_size
            <= Cardinality(Woken)

\* While tasks are queued some worker is awake to take them: no signal of
\* task_queue_not_empty is lost.
NoStrandedTask ==
    opc = "up" /\ task_queue_size > 0 =>
        \E w \in Workers : wpc[w] \in {"ready", "woken", "got", "running"}

\* A producer inside threadpoll_add_task brings a task.
ArgsPresent == \A p \in Producers : ppc[p] # "idle" => arg[p] \in Tasks

\* live_thread_num never undercounts: a failed pthread_create is counted too.
LiveCovers == Cardinality(Counted) <= live_thread_num

\* The inductive invariant behind TypeOK.
TypeInv == TypeOK /\ ArgsPresent /\ LiveCovers /\ BusyExact

\* Nobody waits for a free slot in a disabled pool.
NoneBlockedWhenDisabled == ~Enabled => Waiting(ppc) = {}

\* Nobody uses the pool before threadpoll_create returns it.
QuietUntilUp ==
    opc = "create" => task_queue_size = 0 /\ \A p \in Producers : ppc[p] = "idle"

\* The pool is enabled until threadpoll_destroy runs.
EnabledUntilDestroy == Enabled <=> opc \in {"create", "up"}

\* The order of a shutdown: the manager is started once the pool is up, stops
\* only in a disabled pool and, told by the last worker, ends after it; the
\* pool is freed after the manager, if there is one.
ShutdownOrder ==
    /\ opc = "create" => mpc = "none"
    /\ mpc \in {"stopping", "waitEmpty", "wokenEmpty", "wokenEarly", "exited",
                "exitedEarly"} => ~Enabled
    /\ Freed => mpc \in {"exited", "exitedEarly", "none"}
    /\ mpc \in {"wokenEmpty", "exited"} => Counted = {}
    /\ mpc = "none" => opc # "up"

\* A worker runs the task it took out of the queue ("执行刚才取出的任务").
RunsTheTaskTaken ==
    \A w \in Workers : wpc[w] = "running" => job[w] = given[w]

\* A producer that threadpoll_destroy wakes up returns before the pool is freed.
NoProducerOnFreedPool == Freed => \A p \in Producers : ppc[p] = "idle"

\* wait_exit_thread_num is 0 whenever a worker gets a task.
NoExitPendingAtTake ==
    [][\A w \in Workers : wpc'[w] = "got" /\ wpc[w] # "got"
            => wait_exit_thread_num' = 0]_vars

\* Every task accepted is eventually taken by a worker, unless the pool is
\* destroyed first.
AcceptedTasksAreTaken ==
    \A n \in 1..Cardinality(Tasks) :
        Len(accepted) >= n ~> (ntaken >= n \/ ~Enabled)

\* threadpoll_destroy returns.
DestroyReturns == opc = "joining" ~> Freed

\* A producer blocked on a full queue returns, unless the pool is freed first.
BlockedProducersReturn ==
    \A p \in Producers : ppc[p] = "wait" ~> (ppc[p] = "idle" \/ Freed)
===============================================================================
