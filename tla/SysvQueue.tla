------------------------------ MODULE SysvQueue ------------------------------
(***************************************************************************)
(* 20171107/mqueue_system.c: main sends typed messages on a System V       *)
(* queue; thr_fun1 answers type 1 with type 2, thr_fun2 prints type 2, and *)
(* a message of type 3 makes thr_fun3 remove the queue.  The threads poll  *)
(* (IPC_NOWAIT, "continue" on -1), the sends block while the queue is full.*)
(* The calls give sizeof(struct myMsg) as the size of the text, which does *)
(* not count msgType: msgrcv writes past the end of the struct, where the  *)
(* thread keeps its qid, or not, as the compiler laid out the stack.  The  *)
(* comment in thr_fun1 reports it; the restoring line is commented out.    *)
(***************************************************************************)
EXTENDS Integers, Sequences, SequencesExt

CONSTANTS
    InputTypes,   \* the msgType values the user types
    Capacity,     \* messages that fit in msg_qbytes
    MaxSends      \* bound: messages the user types

VARIABLES
    queue,     \* the messages on the queue, oldest first
    exists,    \* has the queue not been removed?
    main,      \* "input", "send", "join" or "returned"
    msg,       \* main's message: msgType, and the serial number that stands for msg2
    thr1,      \* thr_fun1: "receive", "send", or "astray": its qid names no queue
    answer,    \* thr_fun1's message
    thr2,      \* thr_fun2: "receive" or "astray"
    thr3,      \* thr_fun3: "receive", "remove", "astray" or "exited"
    printed    \* the messages thr_fun2 printed, in order

vars == <<queue, exists, main, msg, thr1, answer, thr2, thr3, printed>>

Message(type, asked, id) == [type |-> type, asked |-> asked, id |-> id]
NoMessage == Message(0, 0, 0)
AllTypes == InputTypes \cup {0, 2}
Messages == [type : AllTypes, asked : AllTypes, id : 0..MaxSends]

\* msgget without IPC_EXCL opens a queue that an earlier process left behind.
Leftovers == {<<>>} \cup {<<Message(t, t, 0)>> : t \in {t \in InputTypes : t > 0}}

Init ==
    /\ queue \in Leftovers /\ exists = TRUE
    /\ main = "input" /\ msg = NoMessage
    /\ thr1 = "receive" /\ answer = NoMessage
    /\ thr2 = "receive" /\ thr3 = "receive"
    /\ printed = <<>>

-------------------------------------------------------------------------------
(* The queue.  msgsnd with flag 0 waits while the queue is full; it fails  *)
(* on a type that is not positive and on a queue that is gone.             *)

Running == main # "returned"
Rejected(m) == ~exists \/ m.type <= 0
Full == Len(queue) >= Capacity
msgsnd(m) == ~Full /\ queue' = Append(queue, m)

Waiting(type) == exists /\ \E i \in DOMAIN queue : queue[i].type = type
FirstOf(type) == CHOOSE i \in DOMAIN queue :
                    /\ queue[i].type = type
                    /\ \A k \in 1 .. i - 1 : queue[k].type # type
msgrcv(type) == Waiting(type) /\ queue' = RemoveAt(queue, FirstOf(type))

-------------------------------------------------------------------------------

AnswerType == 2

\* A receive goes well, or overwrites the id that the thread uses next with
\* bytes that name no queue.
AfterReceive(next) == {next, "astray"}

\* With an overwritten qid the send of the answer fails, and every receive.
thr_fun1_receive ==
    /\ Running /\ thr1 = "receive"
    /\ msgrcv(1)
    /\ answer' = [queue[FirstOf(1)] EXCEPT !.type = AnswerType]
    /\ thr1' \in AfterReceive("send")
    /\ UNCHANGED <<exists, main, msg, thr2, thr3, printed>>

\* Fault: the answer is sent with IPC_NOWAIT.
AnswerNoWait ==
    IF Rejected(answer) \/ Full THEN UNCHANGED queue ELSE msgsnd(answer)

\* A queue that is gone is reported and the thread polls on.
SendAnswer == IF Rejected(answer) THEN UNCHANGED queue ELSE msgsnd(answer)

thr_fun1_send ==
    /\ Running /\ thr1 = "send"
    /\ SendAnswer
    /\ thr1' = "receive" /\ answer' = NoMessage
    /\ UNCHANGED <<exists, main, msg, thr2, thr3, printed>>

PrintedBy2(i) == Waiting(2) /\ i = FirstOf(2)

thr_fun2 ==
    /\ Running /\ thr2 = "receive" /\ exists
    /\ \E i \in DOMAIN queue : /\ PrintedBy2(i)
                               /\ queue' = RemoveAt(queue, i)
                               /\ printed' = Append(printed, queue[i])
    /\ thr2' \in AfterReceive("receive")
    /\ UNCHANGED <<exists, main, msg, thr1, answer, thr3>>

thr_fun3_receive ==
    /\ Running /\ thr3 = "receive"
    /\ msgrcv(3)
    /\ thr3' \in AfterReceive("remove")
    /\ UNCHANGED <<exists, main, msg, thr1, answer, thr2, printed>>

\* Fault: the thread polls on after the removal.
AfterRemovalPolls == "receive"

AfterRemoval == "exited"

\* msgctl(qid, IPC_RMID, 0): the messages go with the queue.
thr_fun3_remove ==
    /\ Running /\ thr3 = "remove"
    /\ exists' = FALSE /\ queue' = <<>>
    /\ thr3' = AfterRemoval
    /\ UNCHANGED <<main, msg, thr1, answer, thr2, printed>>

\* qid = qidtmp restores the id, unless qidtmp was what the receive overwrote:
\* then msgctl fails and exit(-1) ends the process.
thr_fun3_exit ==
    /\ Running /\ thr3 = "astray"
    /\ main' = "returned"
    /\ UNCHANGED <<queue, exists, msg, thr1, answer, thr2, thr3, printed>>

\* scanf: the text, msg2 and the type; the send, the statistics and the
\* sleep follow.  After a failed send main waits for thr_fun3 alone.
InputMessage(type) ==
    /\ main = "input" /\ msg.id < MaxSends
    /\ msg' = Message(type, type, msg.id + 1)
    /\ main' = "send"
    /\ UNCHANGED <<queue, exists, thr1, answer, thr2, thr3, printed>>

SendMessage ==
    /\ main = "send"
    /\ IF Rejected(msg) THEN main' = "join" /\ UNCHANGED queue
                        ELSE main' = "input" /\ msgsnd(msg)
    /\ UNCHANGED <<exists, msg, thr1, answer, thr2, thr3, printed>>

\* Returning from main ends every thread.
JoinThread3 ==
    /\ main = "join" /\ thr3 = "exited"
    /\ main' = "returned"
    /\ UNCHANGED <<queue, exists, msg, thr1, answer, thr2, thr3, printed>>

Next ==
    \/ thr_fun1_receive \/ thr_fun1_send \/ thr_fun2
    \/ thr_fun3_receive \/ thr_fun3_remove \/ thr_fun3_exit
    \/ \E type \in InputTypes : InputMessage(type)
    \/ SendMessage \/ JoinThread3

thr_fun1 == thr_fun1_receive \/ thr_fun1_send
thr_fun3 == thr_fun3_receive \/ thr_fun3_remove \/ thr_fun3_exit
Main == SendMessage \/ JoinThread3

-------------------------------------------------------------------------------
(* Types.                                                                  *)
TypeOK ==
    /\ queue \in Seq(Messages) /\ Len(queue) <= Capacity
    /\ exists \in BOOLEAN
    /\ main \in {"input", "send", "join", "returned"}
    /\ thr1 \in {"receive", "send", "astray"} /\ thr2 \in {"receive", "astray"}
    /\ thr3 \in {"receive", "remove", "astray", "exited"}
    /\ msg \in Messages /\ answer \in Messages
    /\ printed \in Seq(Messages)

(* Of two messages that the user sent with the same type, thr_fun2 never   *)
(* prints the later one first, whether it got them directly or as answers  *)
(* of thr_fun1.                                                            *)
PrintedInOrder ==
    \A i, k \in DOMAIN printed :
        i < k /\ printed[i].asked = printed[k].asked => printed[i].id < printed[k].id

\* Where a message the user sent can be.
Sent == msg.id - (IF main \in {"send", "join"} THEN 1 ELSE 0)
Present(id) ==
    \/ \E i \in DOMAIN queue : queue[i].id = id
    \/ \E i \in DOMAIN printed : printed[i].id = id
    \/ answer.id = id

(* While the program runs and the queue exists no message that msgsnd      *)
(* accepted disappears: it is queued, in the hands of thr_fun1 (for ever,  *)
(* if its qid was overwritten) or printed, except the one of type 3 that   *)
(* thr_fun3 took.                                                          *)
NothingLostBeforeRemoval ==
    exists /\ Running =>
        \/ \A id \in 1..Sent : Present(id)
        \/ /\ thr3 \in {"remove", "astray"}
           /\ \E id \in 0..Sent : \A k \in 1..Sent \ {id} : Present(k)

\* No thread will ever take a message again, and the queue is full of them:
\* each is of a type that nobody receives, or whose receiver is itself
\* waiting in msgsnd.
Jammed ==
    /\ Full
    /\ thr1 = "receive" => ~Waiting(1)
    /\ thr2 = "receive" => ~Waiting(2)
    /\ thr3 = "receive" /\ ~Waiting(3)
\* A thread lost its qid to the overrun.
Astray == thr1 = "astray" \/ thr2 = "astray"
AnswerPrinted(id) == \E i \in DOMAIN printed : printed[i].id = id
=============================================================================
