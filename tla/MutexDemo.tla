------------------------------ MODULE MutexDemo ------------------------------
(***************************************************************************)
(* 20170822/main.c: two threads increment gnum 3 and 6 times.  The lock    *)
(* and unlock calls are commented out, so gnum++ is a load and a store     *)
(* that interleave.  main never returns.                                   *)
(***************************************************************************)
EXTENDS Integers, Sequences

CONSTANT LoopBounds     \* the bound of each thread's loop: <<3, 6>> in the code

VARIABLES gnum, i, pc, loaded

vars == <<gnum, i, pc, loaded>>

Threads == DOMAIN LoopBounds

Init ==
    /\ gnum = 0
    /\ i = [t \in Threads |-> 0]
    /\ pc = [t \in Threads |-> "loop"]
    /\ loaded = [t \in Threads |-> 0]

\* Fault: the bound is included.
MoreRoundsLate(t) == i[t] <= LoopBounds[t]

MoreRounds(t) == i[t] < LoopBounds[t]

\* After sleep(1): the load of gnum++.
Load(t) ==
    /\ pc[t] = "loop" /\ MoreRounds(t)
    /\ loaded' = [loaded EXCEPT ![t] = gnum]
    /\ pc' = [pc EXCEPT ![t] = "store"]
    /\ UNCHANGED <<gnum, i>>

Store(t) ==
    /\ pc[t] = "store"
    /\ gnum' = loaded[t] + 1
    /\ i' = [i EXCEPT ![t] = @ + 1]
    /\ pc' = [pc EXCEPT ![t] = "loop"]
    /\ UNCHANGED loaded

pthread_exit(t) ==
    /\ pc[t] = "loop" /\ ~MoreRounds(t)
    /\ pc' = [pc EXCEPT ![t] = "exited"]
    /\ UNCHANGED <<gnum, i, loaded>>

pthread_func(t) == Load(t) \/ Store(t) \/ pthread_exit(t)

Next == \E t \in Threads : pthread_func(t)

-------------------------------------------------------------------------------
(* Types.                                                                  *)
TypeOK ==
    /\ gnum \in Nat
    /\ i \in [Threads -> Nat] /\ loaded \in [Threads -> Nat]
    /\ pc \in [Threads -> {"loop", "store", "exited"}]

(* When both threads have finished, gnum is anything from 2 to the sum of  *)
(* the loop bounds: updates are lost, but never all except one, and none   *)
(* is counted twice.                                                       *)
FinalCount ==
    (\A t \in Threads : pc[t] = "exited") => gnum \in 2 .. LoopBounds[1] + LoopBounds[2]

(* What a mutex around gnum++ would give: every increment is counted.      *)
EveryRoundCounted ==
    (\A t \in Threads : pc[t] = "exited") => gnum = LoopBounds[1] + LoopBounds[2]
=============================================================================
