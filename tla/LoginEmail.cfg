SPECIFICATION Spec
CONSTANTS
  s1 = s1
  s2 = s2
  e1 = e1
  Browsers = {b1}
  Tabs = {r1}
  NoBrowser = NoBrowser
  Ids = {i1, i2}
  Txs = {t1, t2}
  Subjects = {s1, s2}
  NoSubject = NoSubject
  Users = {u1}
  NoUser = NoUser
  Emails = {e1}
  NoEmail = NoEmail
  Identities <- MCUnverified
  Configs <- MCPamOff
  MaxTx = 1
  NoId = NoId
  NoTx = NoTx
  NoSession = NoSession
SYMMETRY Symmetry
INVARIANT EmailHomeVerified
