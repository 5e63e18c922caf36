------------------------------- MODULE MCConfig -------------------------------
(* Files with the keys that decide, and with errors of each kind; sizes that   *)
(* wrap around above 7.                                                        *)
EXTENDS Config

CONSTANTS d1, d2, e1, e2, c1, c2

MCBuiltin == [LISTEN |-> {"tcp"}, DATA |-> d1, MAX_UPLOAD |-> [n |-> 7, mult |-> 1], PAM |-> "yes"]

File(keys) == [ok |-> TRUE, keys |-> keys]

MCOperators ==
  {File(<< >>),
   File([PAM |-> "no", ALLOWED_EMAILS |-> {e1}]),
   File([PAM |-> "no", ALLOWED_EMAILS |-> {e1, e2}, IDP |-> {}, TLS |-> "no"]),
   File([TLS |-> "no", DATA |-> d2, MAX_UPLOAD |-> [n |-> 5, mult |-> 4]]),
   File([LISTEN |-> {"unix"}, PUBLIC_URL |-> "https", MAX_UPLOAD |-> [n |-> 3, mult |-> 4]]),
   File([TLS_FILES |-> {"cert"}, LISTEN |-> {"tcp", "junk"}]),
   [ok |-> FALSE, keys |-> << >>]}

MCSecrets ==
  {[ok |-> TRUE, grp |-> TRUE, keys |-> << >>],
   [ok |-> TRUE, grp |-> TRUE, keys |-> [CLIENT |-> c1, PAM |-> "no", DATA |-> d2]],
   [ok |-> TRUE, grp |-> TRUE, keys |-> [CLIENT |-> c1, PAM |-> "no", ALLOWED_EMAILS |-> {e2}]],
   [ok |-> FALSE, grp |-> TRUE, keys |-> << >>]}
===============================================================================
