---------------------------- MODULE SessionRights ----------------------------
(***************************************************************************)
(* What internal/store promises about a session cookie, with files, locks  *)
(* and partial failures hidden: the Unix user a session id stands for is   *)
(* fixed when the id is first written, and from then on can only be taken  *)
(* away.  In particular a session id that existed before a password login  *)
(* never becomes a logged-in one, and an id that lost its user by logout,  *)
(* unlink, remap or rotation never gets a user again.                      *)
(***************************************************************************)
CONSTANTS
  Ids,        \* session ids, 256 random bits each
  Users,      \* Unix account names
  NoUser,     \* PAMUser == ""
  Unissued    \* the id has not been drawn yet

VARIABLE rights   \* the Unix user each id stands for

\* An id is written for the first time, with a user or without one.
Issue(id, u) ==
  /\ rights[id] = Unissued
  /\ rights' = [rights EXCEPT ![id] = u]

\* Some issued ids lose their user, or their file.
Revoke(S) ==
  /\ \A id \in S : rights[id] # Unissued
  /\ rights' = [id \in Ids |-> IF id \in S THEN NoUser ELSE rights[id]]

Init == rights = [id \in Ids |-> Unissued]

Next ==
  \/ \E id \in Ids, u \in Users \cup {NoUser} : Issue(id, u)
  \/ \E S \in SUBSET Ids : Revoke(S)

Spec == Init /\ [][Next]_rights
==============================================================================
