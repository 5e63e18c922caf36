------------------------------- MODULE MCLogin -------------------------------
(* Login with two browsers, two subjects that both claim the address e1, and *)
(* configurations that differ in provider, PAM and allowlist.                *)
EXTENDS Login, TLC

CONSTANTS s1, s2, e1

MCIdentities == {[subj |-> s1, email |-> e1, verified |-> TRUE],
                 [subj |-> s2, email |-> e1, verified |-> TRUE]}

\* The same subject with an address the provider has not verified.
MCUnverified == {[subj |-> s1, email |-> e1, verified |-> FALSE]}

MCConfigs == {[idp |-> TRUE, pam |-> TRUE, allow |-> {}],
              [idp |-> TRUE, pam |-> FALSE, allow |-> {e1}],
              [idp |-> FALSE, pam |-> TRUE, allow |-> {}]}

\* PAM=yes, later PAM=no.
MCPamOff == {[idp |-> TRUE, pam |-> TRUE, allow |-> {}],
             [idp |-> TRUE, pam |-> FALSE, allow |-> {}]}

Symmetry == Permutations(Browsers) \cup Permutations(Tabs) \cup Permutations(Ids)
              \cup Permutations(Txs) \cup Permutations(Users)
==============================================================================
