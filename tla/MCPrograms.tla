----------------------------- MODULE MCPrograms -----------------------------
(***************************************************************************)
(* The demo programs with several threads or processes, each explored on   *)
(* its own: a behaviour is one of one program.                             *)
(***************************************************************************)
EXTENDS Integers, Sequences, FiniteSets

CONSTANTS
    SysvTypes, SysvCapacity, SysvSends,
    PosixMax, PosixPriorities, PosixInputs,
    RingBlocks, RingPuts,
    MutexBound1, MutexBound2,
    SemRounds, SemSignals,
    ChatClients, ChatListnum, ChatCrashes, none

\* The user types numbers, and a queue has room for a message.
ASSUME SysvAssumption ==
    /\ SysvTypes \subseteq Int /\ SysvCapacity \in Nat \ {0} /\ SysvSends \in Nat
ASSUME PosixAssumption ==
    /\ PosixMax \in Nat \ {0} /\ PosixPriorities \subseteq Nat /\ PosixInputs \in Nat
ASSUME RingAssumption == RingBlocks \in Nat \ {0} /\ RingPuts \in Nat
\* Both loops of the mutex demo go round at least twice (3 and 6 times).
ASSUME MutexAssumption ==
    MutexBound1 \in Nat \ {0, 1} /\ MutexBound2 \in Nat \ {0, 1}
ASSUME SemAssumption == SemRounds \in Nat /\ SemSignals \in Nat
ASSUME ChatAssumption ==
    IsFiniteSet(ChatClients) /\ none \notin ChatClients /\ ChatListnum \in Nat

VARIABLES prog,
          sqQueue, sqExists, sqMain, sqMsg, sqThr1, sqAnswer, sqThr2, sqThr3, sqPrinted,
          pqQueue, pqMain, pqInput, pqBuf, pqPrinted, pqAccepted,
          rbReadMirror, rbReadIndex, rbWriteMirror, rbWriteIndex, rbPool, rbPut,
          rbWriter, rbReader, rbJ, rbData, rbStored, rbGot, rbFull, rbPause,
          gnum, i, pc, loaded,
          seValue, seIgnored, seWaiter, seIndex1, sePoster, seIndex2, seSent, seTerm, seProcess,
          chServer, chNewfd, chBacklog, chClient, chConn, chToClient, chToServer, chAccepted

Sysv == INSTANCE SysvQueue WITH
    InputTypes <- SysvTypes, Capacity <- SysvCapacity, MaxSends <- SysvSends,
    queue <- sqQueue, exists <- sqExists, main <- sqMain, msg <- sqMsg, thr1 <- sqThr1,
    answer <- sqAnswer, thr2 <- sqThr2, thr3 <- sqThr3, printed <- sqPrinted
Posix == INSTANCE PosixQueue WITH
    mq_maxmsg <- PosixMax, Priorities <- PosixPriorities, MaxInputs <- PosixInputs,
    queue <- pqQueue, main <- pqMain, input <- pqInput, buf <- pqBuf, printed <- pqPrinted,
    accepted <- pqAccepted
Ring == INSTANCE RingDemo WITH
    Blocks <- RingBlocks, MaxPuts <- RingPuts,
    read_mirror <- rbReadMirror, read_index <- rbReadIndex, write_mirror <- rbWriteMirror,
    write_index <- rbWriteIndex, pool <- rbPool, thread_buffer_put <- rbPut,
    writer <- rbWriter, reader <- rbReader, j <- rbJ, data <- rbData, stored <- rbStored,
    got <- rbGot, seenFull <- rbFull, pause <- rbPause
Mutex == INSTANCE MutexDemo WITH LoopBounds <- <<MutexBound1, MutexBound2>>
Sem == INSTANCE SemDemo WITH
    MaxRounds <- SemRounds, MaxSignals <- SemSignals,
    value <- seValue, ignored <- seIgnored, waiter <- seWaiter, index1 <- seIndex1,
    poster <- sePoster, index2 <- seIndex2, sent <- seSent, term <- seTerm, process <- seProcess
Talk == INSTANCE Chat WITH
    Clients <- ChatClients, NoClient <- none, listnum <- ChatListnum, MaxCrashes <- ChatCrashes,
    server <- chServer, newfd <- chNewfd, backlog <- chBacklog, client <- chClient,
    conn <- chConn, toClient <- chToClient, toServer <- chToServer, accepted <- chAccepted

sq == <<sqQueue, sqExists, sqMain, sqMsg, sqThr1, sqAnswer, sqThr2, sqThr3, sqPrinted>>
pq == <<pqQueue, pqMain, pqInput, pqBuf, pqPrinted, pqAccepted>>
rb == <<rbReadMirror, rbReadIndex, rbWriteMirror, rbWriteIndex, rbPool, rbPut,
        rbWriter, rbReader, rbJ, rbData, rbStored, rbGot, rbFull, rbPause>>
gn == <<gnum, i, pc, loaded>>
se == <<seValue, seIgnored, seWaiter, seIndex1, sePoster, seIndex2, seSent, seTerm, seProcess>>
ch == <<chServer, chNewfd, chBacklog, chClient, chConn, chToClient, chToServer, chAccepted>>
vars == <<prog, sq, pq, rb, gn, se, ch>>

Init ==
    /\ prog \in {"sysv", "posix", "ring", "mutex", "sem", "chat"}
    /\ Sysv!Init /\ Posix!Init /\ Ring!Init /\ Mutex!Init /\ Sem!Init /\ Talk!Init
    /\ prog # "sysv" => sqQueue = <<>>
    /\ prog # "posix" => pqQueue = <<>>
    /\ prog # "sem" => seIgnored = {}

Next ==
    /\ UNCHANGED prog
    /\ \/ /\ prog = "sysv" /\ Sysv!Next
          /\ UNCHANGED <<pq, rb, gn, se, ch>>
       \/ /\ prog = "posix" /\ Posix!Next
          /\ UNCHANGED <<sq, rb, gn, se, ch>>
       \/ /\ prog = "ring" /\ Ring!Next
          /\ UNCHANGED <<sq, pq, gn, se, ch>>
       \/ /\ prog = "mutex" /\ Mutex!Next
          /\ UNCHANGED <<sq, pq, rb, se, ch>>
       \/ /\ prog = "sem" /\ Sem!Next
          /\ UNCHANGED <<sq, pq, rb, gn, ch>>
       \/ /\ prog = "chat" /\ Talk!Next
          /\ UNCHANGED <<sq, pq, rb, gn, se>>

\* The scheduler runs every thread that can run; what the user types and the
\* signals sent are not fair.
Fairness ==
    /\ WF_sq(prog = "sysv" /\ Sysv!thr_fun1)
    /\ WF_sq(prog = "sysv" /\ Sysv!thr_fun2)
    /\ WF_sq(prog = "sysv" /\ Sysv!thr_fun3)
    /\ WF_sq(prog = "sysv" /\ Sysv!Main)
    /\ WF_pq(prog = "posix" /\ Posix!Main)
    /\ \A t \in {"thr_fun1", "thr_fun2"} : WF_pq(prog = "posix" /\ Posix!Thread(t))
    /\ WF_se(prog = "sem" /\ Sem!pthread_func_1)
    /\ WF_se(prog = "sem" /\ Sem!pthread_func_2)
    /\ \A c \in ChatClients : WF_ch(prog = "chat" /\ Talk!ClientRecv(c))
    /\ WF_ch(prog = "chat" /\ Talk!ServerRecv)

Spec == Init /\ [][Next]_vars /\ Fairness

-------------------------------------------------------------------------------
(* The properties of the programs are stated in their modules.             *)

(* SysvQueue, PosixQueue: no message that msgsnd or mq_send took           *)
(* disappears while the program runs and the queue exists, whichever       *)
(* thread has it, and messages of one type are printed in the order typed, *)
(* also if a receive overwrites the qid of its thread.                     *)
MessagesAccounted ==
    /\ Sysv!TypeOK /\ Sysv!PrintedInOrder /\ Sysv!NothingLostBeforeRemoval
    /\ Posix!TypeOK /\ Posix!UnseenAccounted

(* RingDemo: without a lock blocks arrive whole and in order, and are      *)
(* dropped only when the buffer was full, unless a thread was outrun.      *)
BlocksInOrder == Ring!TypeOK /\ Ring!BlocksInOrder /\ Ring!DropsOnlyWhenFull

(* MutexDemo: how many increments can be lost.                             *)
FinalCount == Mutex!TypeOK /\ Mutex!FinalCount

(* SemDemo: the lines of the two threads keep step, up to interrupted      *)
(* waits.                                                                  *)
LinesAccounted == Sem!TypeOK /\ Sem!LinesAccounted

(* Chat: one side speaks at a time, and SIGPIPE kills the server only      *)
(* after a client was killed, a client only before it was accepted or      *)
(* after the server was killed in the middle of their chat.                *)
TurnsAndDeaths ==
    /\ Talk!TypeOK /\ Talk!TakeTurns
    /\ Talk!ServerKilledOnlyByCrash /\ Talk!ClientKilledOnlyByReset

\* SysvQueue: a message of type 1 waits on the queue.
Asked(id) == prog = "sysv" /\ sqMain # "returned"
             /\ \E k \in DOMAIN sqQueue : sqQueue[k].id = id /\ sqQueue[k].type = 1
\* SysvQueue: the answer is printed, or nobody can print it any more: the
\* queue was removed, the process ended, or main and thr_fun1 wait in
\* msgsnd for room that nobody makes.
Answered(id) == \/ Sysv!AnswerPrinted(id) \/ ~sqExists
                \/ sqMain = "returned" \/ Sysv!Jammed
\* A message of type 1 is answered and the answer printed, unless a receive
\* overwrote the qid of thr_fun1 or thr_fun2.
AnswerArrives == \A id \in 1..SysvSends : Asked(id) ~> (Answered(id) \/ Sysv!Astray)
\* SysvQueue: once the queue is removed, or a message of type 3 waits in it,
\* main's wait for thr_fun3 does not last.
JoinReturns ==
    (prog = "sysv" /\ sqMain = "join" /\ (sqThr3 # "receive" \/ Sysv!Waiting(3)))
    ~> sqMain = "returned"
\* PosixQueue: a main that waits in mq_send on a full queue goes on.
SendReturns == (prog = "posix" /\ pqMain = "send") ~> pqMain # "send"
\* SemDemo: interrupted waits or not, the waiter takes every post.
PostsTaken == (prog = "sem" /\ seValue > 0) ~> (seValue = 0 \/ seProcess = "exited")
\* Chat: neither side waits for one that has quit or was killed.
GoneIsNoticed ==
    \A c \in ChatClients : (prog = "chat" /\ Talk!WaitsForGone(c)) ~> ~Talk!WaitsForGone(c)

(* Nobody waits for ever for what another thread or process owes it: an    *)
(* answer, a join, room in a queue, a post, the end of a connection; the   *)
(* five cases are the definitions above, with their exceptions.            *)
NobodyWaitsForever == AnswerArrives /\ JoinReturns /\ SendReturns /\ PostsTaken /\ GoneIsNoticed

(* README.md of the repository: the mutex demo "use[s] mutex to protect    *)
(* some shared variables", so that no increment of gnum is lost.           *)
MutexProtects == Mutex!EveryRoundCounted

(* mqueue_system.c:72-74: the qid must be kept so that later messages are  *)
(* received: every message of type 1 is answered and the answer printed.   *)
QidSurvives == \A id \in 1..SysvSends : Asked(id) ~> Answered(id)
=============================================================================
