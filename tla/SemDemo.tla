------------------------------- MODULE SemDemo -------------------------------
(***************************************************************************)
(* 20180727sem-sig-test: main posts a semaphore twice; then pthread_func_2 *)
(* posts it every second and prints a line, and pthread_func_1 waits for   *)
(* it and prints a line whatever sem_node_wait returned.  SIGINT has a     *)
(* handler that returns (no SA_RESTART), SIGTERM one that exits; "kill" on *)
(* stdin sends SIGTERM.  A signal ignored at the start stays ignored.      *)
(***************************************************************************)
EXTENDS Integers

CONSTANTS
    MaxRounds,    \* bound: rounds of pthread_func_2
    MaxSignals    \* bound: SIGINTs sent

VARIABLES
    value,        \* the semaphore
    ignored,      \* signals ignored since before main
    waiter,       \* pthread_func_1: "waiting", "taken" or "interrupted"
    index1,       \* pthread_func_1's index: lines printed
    poster,       \* pthread_func_2: "post", or "print" after the post
    index2,       \* pthread_func_2's index: lines printed
    sent,         \* SIGINTs sent
    term,         \* is SIGTERM pending?
    process       \* "starting", "running" or "exited"

vars == <<value, ignored, waiter, index1, poster, index2, sent, term, process>>

Init ==
    /\ value = 0
    /\ ignored \in SUBSET {"SIGINT", "SIGTERM"}
    /\ waiter = "waiting" /\ index1 = 0
    /\ poster = "post" /\ index2 = 0
    /\ sent = 0 /\ term = FALSE /\ process = "starting"

\* sem_node_init(&sem_node_test, 0, 0) and the two posts before the threads
\* exist; a thread that cannot be created ends the process.
main ==
    /\ process = "starting" /\ process' \in {"running", "exited"}
    /\ value' = 2
    /\ UNCHANGED <<ignored, waiter, index1, poster, index2, sent, term>>

sem_node_wait ==
    /\ process = "running" /\ waiter = "waiting" /\ value > 0
    /\ value' = value - 1 /\ waiter' = "taken"
    /\ UNCHANGED <<ignored, index1, poster, index2, sent, term, process>>

\* The line is printed whatever sem_node_wait returned.
PrintIndex1 ==
    /\ process = "running" /\ waiter \in {"taken", "interrupted"}
    /\ index1' = index1 + 1 /\ waiter' = "waiting"
    /\ UNCHANGED <<value, ignored, poster, index2, sent, term, process>>

sem_node_post ==
    /\ process = "running" /\ poster = "post" /\ index2 < MaxRounds
    /\ value' = value + 1 /\ poster' = "print"
    /\ UNCHANGED <<ignored, waiter, index1, index2, sent, term, process>>

\* After sleep(1), which a signal may cut short.
PrintIndex2 ==
    /\ process = "running" /\ poster = "print"
    /\ index2' = index2 + 1 /\ poster' = "post"
    /\ UNCHANGED <<value, ignored, waiter, index1, sent, term, process>>

\* Fault: the handler is installed without a look at old_action.
InstalledAlways(sig) == TRUE

\* The handler is not installed over SIG_IGN.
Installed(sig) == sig \notin ignored

\* The kernel runs the handler in some thread; a wait it interrupts fails
\* with EINTR and takes nothing from the semaphore.
SIGINT ==
    /\ process = "running" /\ sent < MaxSignals
    /\ sent' = sent + 1
    /\ \/ waiter = "waiting" /\ Installed("SIGINT") /\ waiter' = "interrupted"
       \/ UNCHANGED waiter
    /\ UNCHANGED <<value, ignored, index1, poster, index2, term, process>>

\* main reads "kill": kill(getpid(), SIGTERM).
Kill ==
    /\ process = "running" /\ ~term
    /\ term' = TRUE
    /\ UNCHANGED <<value, ignored, waiter, index1, poster, index2, sent, process>>

sig_term_handle ==
    /\ process = "running" /\ term
    /\ term' = FALSE
    /\ process' = IF Installed("SIGTERM") THEN "exited" ELSE process
    /\ UNCHANGED <<value, ignored, waiter, index1, poster, index2, sent>>

pthread_func_1 == sem_node_wait \/ PrintIndex1
pthread_func_2 == sem_node_post \/ PrintIndex2

Next ==
    \/ main \/ pthread_func_1 \/ pthread_func_2
    \/ SIGINT \/ Kill \/ sig_term_handle

-------------------------------------------------------------------------------
(* Types.                                                                  *)
TypeOK ==
    /\ value \in Nat /\ index1 \in Nat /\ index2 \in 0..MaxRounds
    /\ ignored \subseteq {"SIGINT", "SIGTERM"}
    /\ waiter \in {"waiting", "taken", "interrupted"} /\ poster \in {"post", "print"}
    /\ sent \in 0..MaxSignals
    /\ term \in BOOLEAN /\ process \in {"starting", "running", "exited"}

\* Posts made: main's two, one for each line of pthread_func_2 and the one
\* whose line is not printed yet.
Posts == IF process = "starting" THEN 0
         ELSE 2 + index2 + (IF poster = "print" THEN 1 ELSE 0)
\* Lines of pthread_func_1, with the one it is about to print.
Lines == index1 + (IF waiter = "waiting" THEN 0 ELSE 1)

(* The two printed counts keep step: with what is left in the semaphore,   *)
(* pthread_func_1 prints a line for every post.  It is ahead by at most    *)
(* one line for each SIGINT, none if SIGINT is ignored, and never behind:  *)
(* an interrupted wait costs no post.                                      *)
LinesAccounted ==
    Lines + value - Posts \in 0 .. (IF "SIGINT" \in ignored THEN 0 ELSE sent)
=============================================================================
