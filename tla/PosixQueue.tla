------------------------------ MODULE PosixQueue ------------------------------
(***************************************************************************)
(* 20171107/mqueue_ipc.c: main sends what the user types, with a priority, *)
(* on a POSIX queue of mq_maxmsg messages; two threads receive and print.  *)
(* "quit" is sent like any other text, then main closes and unlinks the    *)
(* queue and returns, whatever the threads have not printed yet.           *)
(***************************************************************************)
EXTENDS Integers, Sequences, FiniteSets, SequencesExt

CONSTANTS
    mq_maxmsg,    \* capacity of the queue (3 in the code)
    Priorities,   \* priorities the user types that mq_send accepts
    MaxInputs     \* bound: messages the user types

VARIABLES
    queue,      \* highest priority first, oldest first within one
    main,       \* "input", "send", "close", "unlink" or "returned"
    input,      \* what was typed: serial number, priority, kind
    buf,        \* per thread, the message it received and has not printed
    printed,    \* serial numbers printed
    accepted    \* serial numbers mq_send took

vars == <<queue, main, input, buf, printed, accepted>>

Threads == {"thr_fun1", "thr_fun2"}
\* "long" is longer than mq_msgsize, "high" a priority out of range.
Kinds == {"text", "quit", "long", "high"}
Ids == 0 .. MaxInputs + 1      \* 0 for none, the last for one an earlier process left
Inputs == [id : Ids, prio : Priorities, kind : Kinds]
NoInput == [id |-> 0, prio |-> 0, kind |-> "text"]
Running == main # "returned"
IsOpen == main \in {"input", "send", "close"}

\* mq_open without O_EXCL opens a queue that was never unlinked.
Leftover(prio) == [id |-> MaxInputs + 1, prio |-> prio, kind |-> "text"]

Init ==
    /\ queue \in {<<>>} \cup {<<Leftover(prio)>> : prio \in Priorities}
    /\ main = "input" /\ input = NoInput
    /\ buf = [t \in Threads |-> 0]
    /\ printed = {} /\ accepted = {queue[i].id : i \in DOMAIN queue}

\* mq_send's order: behind every message of at least the same priority.
Place(m) == Cardinality({i \in DOMAIN queue : queue[i].prio >= m.prio}) + 1

Type(prio, kind) ==
    /\ main = "input" /\ input.id < MaxInputs
    /\ input' = [id |-> input.id + 1, prio |-> prio, kind |-> kind]
    /\ main' = "send"
    /\ UNCHANGED <<queue, buf, printed, accepted>>

\* "ret==" compares: a message that mq_send refuses is not reported.
Refused == input.kind \in {"long", "high"}

\* do ... while(strcmp(buf, "quit"))
AfterSend == IF input.kind = "quit" THEN "close" ELSE "input"

\* The queue is created blocking: mq_send waits while it is full.
Send ==
    /\ main = "send"
    /\ IF Refused THEN UNCHANGED <<queue, accepted>>
       ELSE /\ Len(queue) < mq_maxmsg
            /\ queue' = InsertAt(queue, Place(input), input)
            /\ accepted' = accepted \cup {input.id}
    /\ main' = AfterSend
    /\ UNCHANGED <<input, buf, printed>>

mq_close ==
    /\ main = "close" /\ main' = "unlink"
    /\ UNCHANGED <<queue, input, buf, printed, accepted>>

mq_unlink ==
    /\ main = "unlink" /\ main' = "returned"
    /\ UNCHANGED <<queue, input, buf, printed, accepted>>

BufAfter(t, id) == [buf EXCEPT ![t] = id]

\* mq_receive waits for a message; on a closed descriptor it fails and the
\* thread tries again.
MayReceive(t) == IsOpen /\ buf[t] = 0

mq_receive(t) ==
    /\ MayReceive(t)
    /\ queue # <<>>
    /\ buf' = BufAfter(t, Head(queue).id)
    /\ queue' = Tail(queue)
    /\ UNCHANGED <<main, input, printed, accepted>>

PrintReceived(t) ==
    /\ Running /\ buf[t] # 0
    /\ printed' = printed \cup {buf[t]}
    /\ buf' = BufAfter(t, 0)
    /\ UNCHANGED <<queue, main, input, accepted>>

Next ==
    \/ \E prio \in Priorities, kind \in Kinds : Type(prio, kind)
    \/ Send \/ mq_close \/ mq_unlink
    \/ \E t \in Threads : mq_receive(t) \/ PrintReceived(t)

Main == Send \/ mq_close \/ mq_unlink
Thread(t) == mq_receive(t) \/ PrintReceived(t)

-------------------------------------------------------------------------------
(* Types.                                                                  *)
TypeOK ==
    /\ queue \in Seq(Inputs) /\ Len(queue) <= mq_maxmsg
    /\ main \in {"input", "send", "close", "unlink", "returned"}
    /\ input.id \in Ids /\ input.kind \in Kinds
    /\ buf \in [Threads -> Ids]
    /\ printed \subseteq Ids /\ accepted \subseteq Ids

(* What the user never sees of the messages that mq_send took is still in  *)
(* the queue or in the buffer of one thread: when main returns at most     *)
(* mq_maxmsg + 2 messages are lost, "quit" among them.                     *)
UnseenAccounted ==
    accepted \ printed = {queue[i].id : i \in DOMAIN queue} \cup ({buf[t] : t \in Threads} \ {0})
=============================================================================
