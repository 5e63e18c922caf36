SPECIFICATION Spec
CONSTANTS
  d1 = d1
  d2 = d2
  e1 = e1
  e2 = e2
  c1 = c1
  c2 = c2
  None = None
  Client = c2
  Builtin <- MCBuiltin
  Operators <- MCOperators
  Secrets <- MCSecrets
  Fqdn = TRUE
  MaxInt = 7
  MaxCerts = 2
  StartLimit = 1
  MaxEdits = 2
INVARIANTS TypeOK CertLoaded CliAgrees SizeBound
PROPERTY Settles
CHECK_DEADLOCK FALSE
