------------------------------- MODULE MCStore -------------------------------
(* Store on small instances: two calls in flight at a time, the lock-free     *)
(* logouts and expiries beside them.                                          *)
EXTENDS Store, TLC

\* Ids, users and processes are interchangeable.
Symmetry == Permutations(Ids) \cup Permutations(Users) \cup Permutations(Procs)
==============================================================================
