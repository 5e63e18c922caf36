SPECIFICATION Spec
CONSTANTS
  Workers = {w1, w2}
  Sids = {i1, i2}
  Tickets = {t1, t2}
  Users = {u1}
  NoUser = NoUser
  NoSid = NoSid
  NoTicket = NoTicket
  Configs <- MCConfigs
  MaxTickets = 1
  Uses = 2
  MaxProfiles = 2
SYMMETRY Symmetry
INVARIANTS TypeOK TwoGets RevokedUnserved
PROPERTY TicketsKept
