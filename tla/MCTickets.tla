------------------------------ MODULE MCTickets ------------------------------
(* Two handlers, two sessions and one Unix user, with a table for one ticket. *)
EXTENDS Tickets, TLC

MCConfigs == {[pam |-> FALSE, listed |-> TRUE, off |-> FALSE],
              [pam |-> TRUE, listed |-> FALSE, off |-> TRUE]}

Symmetry == Permutations(Workers) \cup Permutations(Sids) \cup Permutations(Tickets)
==============================================================================
