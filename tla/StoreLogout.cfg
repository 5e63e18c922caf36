SPECIFICATION Spec
CONSTANTS
  Procs = {p1, p2}
  Ids = {i1, i2, i3}
  Subjects = {s1}
  NoSubject = NoSubject
  Users = {u1, u2}
  NoUser = NoUser
  NoProc = NoProc
  NoId = NoId
  NoSession = NoSession
  Unissued = Unissued
  MaxFailures = 0
SYMMETRY Symmetry
INVARIANT LogoutFinal
