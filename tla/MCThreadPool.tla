---------------------------- MODULE MCThreadPool ----------------------------
(* Small instances of ThreadPool for TLC.                                  *)
EXTENDS ThreadPool, TLC

\* Workers, producers and tasks are interchangeable.
Symmetric == Permutations(Workers) \cup Permutations(Producers)
                \cup Permutations(Tasks)
=============================================================================
