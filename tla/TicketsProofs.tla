---------------------------- MODULE TicketsProofs ----------------------------
(***************************************************************************)
(* The properties of Tickets for any number of handlers, sessions, ticket  *)
(* ids and users and any limits.                                           *)
(*                                                                         *)
(* Inv adds what is in flight: a fetch holds a copy of its ticket that     *)
(* agrees with the table as long as the ticket is there, and the uses left *)
(* in the table, those taken but not sent yet, and those sent add up to no *)
(* more than ovpnTicketUses.                                               *)
(***************************************************************************)
EXTENDS Tickets, FiniteSetTheorems, TLAPS

Fetching(w) == req[w].step \in {"check", "take", "send"}

\* What a handler in flight carries.
ReqOK ==
  \A w \in Workers :
    /\ req[w].step \in {"page", "mint"} => req[w].sid \in Sids
    /\ req[w].step = "mint" => req[w].todo # 0
    /\ Fetching(w) => req[w].sid \in Sids /\ req[w].ticket \in minted

Types == TypeOK /\ ReqOK

\* The table is finite, and only drawn ids are in it.
Table == IsFiniteSet(Live) /\ Live \subseteq minted

\* The copy of the ticket a fetch works with.
Copies ==
  \A w \in Workers : Fetching(w) /\ req[w].ticket \in Live =>
    tickets[req[w].ticket].sid = req[w].sid /\ tickets[req[w].ticket].pam = req[w].pam

\* Handlers that have taken a use of t and not sent the profile yet.
Taken(t) == {w \in Workers : req[w].step = "send" /\ ~req[w].head /\ req[w].ticket = t}

\* Uses left, taken and sent.
Budget ==
  \A t \in Tickets :
    /\ IsFiniteSet(Taken(t))
    /\ sent[t] + Cardinality(Taken(t)) + tickets[t].left <= Uses
    /\ t \notin minted => sent[t] = 0

\* A fetch that came late still finds its session revoked, and is not past the check.
Late ==
  \A w \in Workers : Fetching(w) /\ req[w].late => req[w].step = "check" /\ Revoked(req[w])

Inv == Types /\ Table /\ Copies /\ Budget /\ Late

-----------------------------------------------------------------------------
(* Initial states *)

LEMMA InitInv == Init => Inv
<1> SUFFICES ASSUME Init PROVE Inv
  OBVIOUS
<1> USE TicketsAssumption
<1>1. Live = {} /\ \A t \in Tickets : Taken(t) = {}
  BY DEF Init, Live, Taken, Quiet
<1>2. IsFiniteSet({}) /\ Cardinality({}) = 0
  BY FS_EmptySet
<1>3. TypeOK
  BY <1>1, <1>2 DEF Init, TypeOK, Quiet, Pam, Cubbies
<1>4. ReqOK /\ Copies /\ Late
  BY DEF Init, ReqOK, Copies, Late, Fetching, Quiet
<1>5. Table
  BY <1>1, <1>2 DEF Table
<1>6. Budget
  BY SMTT(30), <1>1, <1>2 DEF Init, Budget, None
<1> QED BY <1>3, <1>4, <1>5, <1>6 DEF Inv, Types

-----------------------------------------------------------------------------
(* Types *)

\* The handler's record and the entries of the table.
Req == [step : {"none", "page", "mint", "check", "take", "send"},
        sid : Sids \cup {NoSid}, pam : Pam, todo : 0..MaxProfiles,
        ticket : Tickets \cup {NoTicket}, head : BOOLEAN, late : BOOLEAN]

Entry == [sid : Sids, pam : Pam, left : 1..Uses]

\* An entry in the table is a ticket with uses left.
LEMMA LiveEntry ==
  ASSUME TypeOK
  PROVE  /\ None \notin Entry
         /\ \A t \in Tickets : t \in Live <=> tickets[t] \in Entry
<1>1. None \notin Entry
  BY TicketsAssumption DEF None, Entry
<1> QED BY <1>1 DEF TypeOK, Live, Entry

LEMMA QuietType == Quiet \in Req
BY TicketsAssumption DEF Quiet, Req, Pam

LEMMA NextProfileType ==
  ASSUME Types, NEW w \in Workers, NextProfile(w), req[w].step = "mint"
  PROVE  /\ req' \in [Workers -> Req]
         /\ req'[w] = Quiet \/ req'[w] = [req[w] EXCEPT !.todo = req[w].todo - 1]
         /\ req'[w] # Quiet => req'[w].todo # 0
         /\ \A v \in Workers \ {w} : req'[v] = req[v]
<1> USE TicketsAssumption
<1>1. req \in [Workers -> Req] /\ req[w].todo \in 1..MaxProfiles
  BY DEF Types, TypeOK, ReqOK, Req
<1>2. [req[w] EXCEPT !.todo = req[w].todo - 1] \in Req
  BY <1>1 DEF Req
<1>3. req'[w] = IF req[w].todo = 1 THEN Quiet ELSE [req[w] EXCEPT !.todo = req[w].todo - 1]
  BY <1>1 DEF NextProfile
<1> QED BY <1>1, <1>2, <1>3, QuietType DEF NextProfile, Req

\* The table changes only by spending, dropping and minting.
LEMMA LiveShrinks ==
  ASSUME TypeOK, IsFiniteSet(Live), tickets' \in [Tickets -> Entry \cup {None}], Live' \subseteq Live
  PROVE  IsFiniteSet(Live') /\ Cardinality(Live)' <= MaxTickets
<1>1. IsFiniteSet(Live') /\ Cardinality(Live') <= Cardinality(Live)
  BY FS_Subset
<1>2. Cardinality(Live) \in Nat /\ Cardinality(Live') \in Nat
  BY <1>1, FS_CardinalityType
<1> QED BY <1>1, <1>2, TicketsAssumption DEF TypeOK

LEMMA TypesStep ==
  ASSUME Types, Table, [Next]_vars
  PROVE  Types' /\ Table'
<1> USE TicketsAssumption DEF Fetching
<1>0. /\ req \in [Workers -> Req] /\ tickets \in [Tickets -> Entry \cup {None}]
      /\ IsFiniteSet(Live) /\ Live \subseteq minted /\ minted \subseteq Tickets
      /\ aged \subseteq minted
  BY DEF Types, TypeOK, Req, Entry, Table
<1>q. /\ Quiet \in Req /\ Quiet.step = "none"
      /\ \A w \in Workers : req[w] \in Req /\ req[w].pam \in Pam
  BY <1>0, QuietType DEF Quiet, Req
\* Steps of the handlers that leave the table alone.
<1>1. ASSUME NEW w \in Workers, req' \in [Workers -> Req],
             req'[w].step \in {"page", "mint"} => req'[w].sid \in Sids,
             req'[w].step = "mint" => req'[w].todo # 0,
             Fetching(w)' => req'[w].sid \in Sids /\ req'[w].ticket \in minted',
             \A v \in Workers \ {w} : req'[v] = req[v], minted \subseteq minted'
      PROVE  ReqOK'
  BY <1>1 DEF Types, ReqOK
<1>2. ASSUME UNCHANGED tickets PROVE Live' = Live
  BY <1>2 DEF Live
<1>3. ASSUME NEW w \in Workers, NEW sid \in Sids, Open(w, sid) PROVE Types' /\ Table'
  <2>1. sessions[sid] \in Pam
    BY <1>3 DEF Types, TypeOK, Open
  <2>2. req'[w] = [Quiet EXCEPT !.step = "page", !.sid = sid, !.pam = sessions[sid]]
    BY <1>0, <1>3 DEF Open
  <2>3. req'[w] \in Req
    BY <1>q, <2>1, <2>2 DEF Req
  <2>4. req' \in [Workers -> Req] /\ \A v \in Workers \ {w} : req'[v] = req[v]
    BY <1>0, <1>3, <2>2, <2>3 DEF Open
  <2>5. req'[w].step = "page" /\ req'[w].sid = sid
    BY <2>2 DEF Quiet
  <2>6. ReqOK'
    BY <1>1, <1>3, <2>4, <2>5 DEF Open
  <2> QED BY <1>2, <1>3, <2>4, <2>6 DEF Types, TypeOK, Table, Open, Req
<1>4. ASSUME NEW w \in Workers, NEW n \in 1..MaxProfiles, Page(w, n) PROVE Types' /\ Table'
  <2>1. req'[w] = Quiet \/ req'[w] = [req[w] EXCEPT !.step = "mint", !.todo = n]
    BY <1>0, <1>4 DEF Page
  <2>2. req'[w] \in Req
    <3>1. n \in 0..MaxProfiles
      OBVIOUS
    <3> QED BY ZenonT(40), <1>q, <2>1, <3>1 DEF Req
  <2>3. req' \in [Workers -> Req] /\ \A v \in Workers \ {w} : req'[v] = req[v]
    BY <1>0, <1>4, <2>2 DEF Page
  <2>4. req'[w].step = "none" \/ (req'[w].step = "mint" /\ req'[w].todo = n /\ req'[w].sid = req[w].sid)
    BY <1>q, <2>1 DEF Req
  <2>5. req[w].sid \in Sids
    BY <1>4 DEF Page, Types, ReqOK
  <2>6. ReqOK'
    BY <1>1, <1>4, <2>3, <2>4, <2>5 DEF Page
  <2> QED BY <1>2, <1>4, <2>3, <2>6 DEF Types, TypeOK, Table, Page, Req
<1>5. ASSUME NEW w \in Workers, req[w].step = "mint", NextProfile(w), minted \subseteq minted'
      PROVE  ReqOK' /\ req' \in [Workers -> Req]
  <2>1. req[w].sid \in Sids
    BY <1>5 DEF Types, ReqOK
  <2>2. /\ req' \in [Workers -> Req]
        /\ \A v \in Workers \ {w} : req'[v] = req[v]
        /\ req'[w] = Quiet \/ req'[w] = [req[w] EXCEPT !.todo = req[w].todo - 1]
        /\ req'[w] # Quiet => req'[w].todo # 0
    BY <1>5, NextProfileType
  <2>3. CASE req'[w] = Quiet
    BY <1>1, <1>5, <1>q, <2>2, <2>3
  <2>4. CASE req'[w] # Quiet
    <3>1. req'[w].step = "mint" /\ req'[w].sid = req[w].sid
      BY <1>5, <1>q, <2>2, <2>4 DEF Req
    <3> QED BY <1>1, <1>5, <2>1, <2>2, <2>4, <3>1
  <2> QED BY <2>2, <2>3, <2>4
<1>6. ASSUME NEW w \in Workers, NEW t \in Tickets, Mint(w, t) PROVE Types' /\ Table'
  <2> DEFINE k == [sid |-> req[w].sid, pam |-> req[w].pam, left |-> Uses]
  <2>1. k \in Entry
    BY <1>6, <1>q DEF Mint, Types, ReqOK, Entry
  <2> HIDE DEF k
  <2>2. tickets' = [Fresh EXCEPT ![t] = k]
    BY <1>6 DEF Mint, Purged, k
  <2>3. Fresh \in [Tickets -> Entry \cup {None}]
    BY <1>0 DEF Fresh
  <2>4. tickets' \in [Tickets -> Entry \cup {None}]
    BY <2>1, <2>2, <2>3
  <2>5. Live' = (Live \ aged) \cup {t}
    <3>1. \A u \in Tickets \ {t} : tickets'[u] = Fresh[u]
      BY <2>2, <2>3
    <3>2. tickets'[t] = k /\ k # None
      BY <2>1, <2>2, <2>3, LiveEntry DEF Types
    <3> QED BY <3>1, <3>2 DEF Live, Fresh
  <2>6. /\ IsFiniteSet(Live \ aged) /\ Cardinality(Live \ aged) \in Nat
        /\ Cardinality(Live \ aged) < MaxTickets
    BY <1>0, <1>6, FS_Subset, FS_CardinalityType DEF Mint, Room
  <2>7. t \notin Live \ aged
    BY <1>0, <1>6 DEF Mint
  <2>8. IsFiniteSet(Live') /\ Cardinality(Live') = Cardinality(Live \ aged) + 1
    BY <2>5, <2>6, <2>7, FS_AddElement
  <2>9. ReqOK' /\ req' \in [Workers -> Req]
    BY <1>5, <1>6 DEF Mint
  <2>10. minted' = minted \cup {t}
    BY <1>6 DEF Mint
  <2>11. Table'
    BY <1>0, <2>5, <2>8, <2>10 DEF Table
  <2>12. Cardinality(Live)' <= MaxTickets
    BY <2>6, <2>8
  <2>13. TypeOK'
    BY <1>0, <1>6, <2>4, <2>9, <2>10, <2>12 DEF TypeOK, Types, Mint, Req, Entry
  <2> QED BY <2>9, <2>11, <2>13 DEF Types
\* Steps that take entries away or spend them.
<1>7. ASSUME tickets' \in [Tickets -> Entry \cup {None}], Live' \subseteq Live,
             req' \in [Workers -> Req], ReqOK',
             UNCHANGED <<cfg, sessions, sentinel, aged, minted, sent>>
      PROVE  Types' /\ Table'
  <2>1. IsFiniteSet(Live') /\ Cardinality(Live)' <= MaxTickets
    BY <1>0, <1>7, LiveShrinks DEF Types
  <2> QED BY <1>0, <1>7, <2>1 DEF Types, TypeOK, Table, Req, Entry
<1>8. ASSUME NEW t \in Tickets, NEW k \in Entry \cup {None}, k # None => t \in Live,
             tickets' = [tickets EXCEPT ![t] = k]
      PROVE  tickets' \in [Tickets -> Entry \cup {None}] /\ Live' \subseteq Live
  BY <1>0, <1>8 DEF Live
<1>9. ASSUME NEW w \in Workers, MintNone(w) PROVE Types' /\ Table'
  <2>1. tickets' = Fresh \/ tickets' = tickets
    BY <1>9 DEF MintNone, Purged
  <2>2. tickets' \in [Tickets -> Entry \cup {None}] /\ Live' \subseteq Live
    BY <1>0, <2>1 DEF Fresh, Live
  <2>3. ReqOK' /\ req' \in [Workers -> Req]
    BY <1>5, <1>9 DEF MintNone
  <2> QED BY <1>7, <1>9, <2>2, <2>3 DEF MintNone
<1>10. ASSUME NEW w \in Workers, NEW t \in Tickets, NEW head \in BOOLEAN, Fetch(w, t, head)
       PROVE  Types' /\ Table'
  <2>1. CASE t \in aged
    <3>1. tickets' \in [Tickets -> Entry \cup {None}] /\ Live' \subseteq Live
      BY <1>8, <1>10, <2>1 DEF Fetch
    <3>2. ReqOK' /\ req' \in [Workers -> Req]
      BY <1>0, <1>10, <2>1 DEF Fetch, Types, ReqOK
    <3> QED BY <1>7, <1>10, <3>1, <3>2 DEF Fetch
  <2>2. CASE t \notin aged
    <3> DEFINE late == Revoked(tickets[t])
    <3>1. tickets[t].sid \in Sids /\ tickets[t].pam \in Pam /\ late \in BOOLEAN
      BY <1>0, <1>10, LiveEntry DEF Types, Fetch, Entry, Revoked
    <3>2. req'[w] = [Quiet EXCEPT !.step = "check", !.ticket = t, !.sid = tickets[t].sid,
                                  !.pam = tickets[t].pam, !.head = head, !.late = late]
      BY <1>0, <1>10, <2>2 DEF Fetch
    <3> HIDE DEF late
    <3>3. /\ req'[w] \in Req /\ req'[w].step = "check"
          /\ req'[w].sid \in Sids /\ req'[w].ticket = t
      BY <1>q, <3>1, <3>2 DEF Req
    <3>4. req' \in [Workers -> Req] /\ \A v \in Workers \ {w} : req'[v] = req[v]
      BY <1>0, <1>10, <2>2, <3>3 DEF Fetch
    <3>5. ReqOK'
      BY <1>0, <1>1, <1>10, <3>3, <3>4 DEF Fetch
    <3> QED BY <1>0, <1>2, <1>7, <1>10, <2>2, <3>4, <3>5 DEF Fetch
  <2> QED BY <2>1, <2>2
<1>11. ASSUME NEW w \in Workers, Check(w) PROVE Types' /\ Table'
  <2>1. req[w].ticket \in minted /\ req[w].ticket \in Tickets /\ req[w].sid \in Sids
    BY <1>0, <1>11 DEF Check, Types, ReqOK
  <2>2. tickets' \in [Tickets -> Entry \cup {None}] /\ Live' \subseteq Live
    BY <1>0, <1>2, <1>8, <1>11, <2>1 DEF Check
  <2>3. \/ req'[w] = Quiet
        \/ req'[w] = [req[w] EXCEPT !.step = "send"]
        \/ req'[w] = [req[w] EXCEPT !.step = "take"]
    BY <1>0, <1>11 DEF Check
  <2>4. /\ req'[w] \in Req
        /\ req'[w].step = "none" \/ (/\ req'[w].step \in {"send", "take"}
                                     /\ req'[w].sid = req[w].sid /\ req'[w].ticket = req[w].ticket)
    BY <1>q, <2>3 DEF Req
  <2>5. req' \in [Workers -> Req] /\ \A v \in Workers \ {w} : req'[v] = req[v]
    BY <1>0, <1>11, <2>4 DEF Check
  <2>6. ReqOK'
    BY <1>1, <1>11, <2>1, <2>4, <2>5 DEF Check
  <2> QED BY <1>7, <1>11, <2>2, <2>5, <2>6 DEF Check
<1>12. ASSUME NEW w \in Workers, Take(w) PROVE Types' /\ Table'
  <2> DEFINE t == req[w].ticket
  <2>1. t \in minted /\ t \in Tickets /\ req[w].sid \in Sids
    BY <1>0, <1>12 DEF Take, Types, ReqOK
  <2>2. t \in Live => Spend(tickets[t]) \in Entry \cup {None}
    BY <1>0, <2>1, LiveEntry DEF Types, Spend, Entry
  <2>3. tickets' \in [Tickets -> Entry \cup {None}] /\ Live' \subseteq Live
    <3> HIDE DEF t
    <3>1. CASE t \in Live \ aged
      BY <1>8, <1>12, <2>1, <2>2, <3>1 DEF Take, t
    <3>2. CASE t \notin Live \ aged
      BY <1>8, <1>12, <2>1, <3>2 DEF Take, t
    <3> QED BY <3>1, <3>2
  <2>4. req'[w] = Quiet \/ req'[w] = [req[w] EXCEPT !.step = "send"]
    BY <1>0, <1>12 DEF Take
  <2>5. /\ req'[w] \in Req
        /\ req'[w].step = "none" \/ (/\ req'[w].step = "send"
                                     /\ req'[w].sid = req[w].sid /\ req'[w].ticket = req[w].ticket)
    BY <1>q, <2>4 DEF Req
  <2>6. req' \in [Workers -> Req] /\ \A v \in Workers \ {w} : req'[v] = req[v]
    BY <1>0, <1>12, <2>5 DEF Take
  <2>7. ReqOK'
    BY <1>1, <1>12, <2>1, <2>5, <2>6 DEF Take
  <2> QED BY <1>7, <1>12, <2>3, <2>6, <2>7 DEF Take
<1>13. ASSUME NEW w \in Workers, NEW ok \in BOOLEAN, Send(w, ok) PROVE Types' /\ Table'
  <2>1. req[w].ticket \in Tickets
    BY <1>0, <1>13 DEF Send, Types, ReqOK
  <2>2. sent' \in [Tickets -> Nat]
    <3>1. sent \in [Tickets -> Nat] /\ \A n \in Nat : n + 1 \in Nat
      BY DEF Types, TypeOK
    <3> QED BY <1>13, <2>1, <3>1 DEF Send
  <2>3. /\ req' \in [Workers -> Req] /\ req'[w] = Quiet
        /\ \A v \in Workers \ {w} : req'[v] = req[v]
    BY <1>0, <1>13, <1>q DEF Send
  <2>4. ReqOK'
    BY <1>1, <1>13, <1>q, <2>3 DEF Send
  <2> QED BY <1>2, <1>13, <2>2, <2>3, <2>4 DEF Types, TypeOK, Table, Send, Req
<1>14. ASSUME UNCHANGED <<tickets, req, minted, sent>>, cfg' \in Configs,
              sessions' \in [Sids -> Pam \cup {"gone"}], sentinel' \subseteq Cubbies,
              aged' \subseteq minted
       PROVE  Types' /\ Table'
  BY <1>2, <1>14 DEF Types, TypeOK, Table, ReqOK
<1>15. ASSUME NEW t \in Tickets, Age(t) PROVE Types' /\ Table'
  BY <1>0, <1>14, <1>15 DEF Age, Types, TypeOK
<1>16. ASSUME NEW sid \in Sids, EndSession(sid) PROVE Types' /\ Table'
  BY <1>0, <1>14, <1>16 DEF EndSession, Types, TypeOK
<1>17. ASSUME NEW u \in Users, Unlink(u) PROVE Types' /\ Table'
  <2>1. sessions' \in [Sids -> Pam \cup {"gone"}]
    BY <1>17 DEF Unlink, Types, TypeOK, Pam
  <2> QED BY <1>0, <1>14, <1>17, <2>1 DEF Unlink, Types, TypeOK
<1>18. ASSUME NEW c \in Cubbies, Toggle(c) PROVE Types' /\ Table'
  BY <1>0, <1>14, <1>18 DEF Toggle, Types, TypeOK
<1>19. ASSUME NEW c \in Configs, Reload(c) PROVE Types' /\ Table'
  BY <1>0, <1>14, <1>19 DEF Reload, Types, TypeOK
<1>20. CASE UNCHANGED vars
  BY <1>0, <1>14, <1>20 DEF vars, Types, TypeOK
<1> QED
  BY <1>3, <1>4, <1>6, <1>9, <1>10, <1>11, <1>12, <1>13, <1>15, <1>16, <1>17, <1>18, <1>19,
     <1>20 DEF Next

-----------------------------------------------------------------------------
(* What is in flight *)

\* Handler v goes on with the ticket it fetched; past the check only if that succeeds.
Goes(v) ==
  /\ Fetching(v)
  /\ req'[v].ticket = req[v].ticket /\ req'[v].sid = req[v].sid
  /\ req'[v].pam = req[v].pam /\ req'[v].late = req[v].late /\ req'[v].head = req[v].head
  /\ req'[v].step = req[v].step \/ (req[v].step = "check" => SessionOK(req[v]))

\* Handler v has just looked its ticket up.
Looked(v) ==
  LET k == tickets'[req'[v].ticket] IN
  /\ req'[v].step = "check"
  /\ req'[v].sid = k.sid /\ req'[v].pam = k.pam
  /\ req'[v].late => Revoked(req[v])'

\* Every fetch in flight goes on or is new, and drawn tickets keep their session.
LEMMA Flights ==
  ASSUME Types, Table, [Next]_vars
  PROVE  /\ \A v \in Workers : Fetching(v)' => Goes(v) \/ Looked(v)
         /\ \A t \in minted : t \in Live' =>
              t \in Live /\ tickets'[t].sid = tickets[t].sid /\ tickets'[t].pam = tickets[t].pam
<1> USE TicketsAssumption DEF Fetching
<1>0. /\ req \in [Workers -> Req] /\ tickets \in [Tickets -> Entry \cup {None}]
      /\ Live \subseteq minted /\ minted \subseteq Tickets
  BY DEF Types, TypeOK, Req, Entry, Table
<1> DEFINE Drawn == \A t \in minted : t \in Live' =>
             t \in Live /\ tickets'[t].sid = tickets[t].sid /\ tickets'[t].pam = tickets[t].pam
           On == \A v \in Workers : Fetching(v)' => Goes(v) \/ Looked(v)
<1>1. ASSUME UNCHANGED tickets PROVE Drawn
  BY <1>1 DEF Live
<1>2. ASSUME NEW t \in Tickets, tickets' = [tickets EXCEPT ![t] = None] PROVE Drawn
  BY <1>0, <1>2 DEF Live
<1>3. ASSUME NEW w \in Workers, \A v \in Workers \ {w} : req'[v] = req[v],
             Fetching(w)' => Goes(w) \/ Looked(w)
      PROVE  On
  BY <1>3 DEF Goes
<1>q. Quiet.step = "none"
  BY DEF Quiet
<1>4. ASSUME NEW w \in Workers, NEW sid \in Sids, Open(w, sid) PROVE On /\ Drawn
  <2>1. req'[w].step = "page" /\ \A v \in Workers \ {w} : req'[v] = req[v]
    BY <1>0, <1>4 DEF Open, Quiet
  <2> QED BY <1>1, <1>3, <1>4, <2>1 DEF Open
<1>5. ASSUME NEW w \in Workers, NEW n \in 1..MaxProfiles, Page(w, n) PROVE On /\ Drawn
  <2>1. req'[w].step \in {"none", "mint"} /\ \A v \in Workers \ {w} : req'[v] = req[v]
    BY <1>0, <1>5, <1>q DEF Page, Req
  <2> QED BY <1>1, <1>3, <1>5, <2>1 DEF Page
<1>6. ASSUME NEW w \in Workers, req[w].step = "mint", NextProfile(w) PROVE On
  <2>1. /\ req'[w] = Quiet \/ req'[w] = [req[w] EXCEPT !.todo = req[w].todo - 1]
        /\ \A v \in Workers \ {w} : req'[v] = req[v]
    BY <1>6, NextProfileType
  <2>2. req'[w].step \in {"none", "mint"}
    BY <1>0, <1>6, <1>q, <2>1 DEF Req
  <2> QED BY <1>3, <2>1, <2>2
<1>7. ASSUME NEW w \in Workers, NEW t \in Tickets, Mint(w, t) PROVE On /\ Drawn
  <2>1. \A u \in minted : tickets'[u] = tickets[u] \/ tickets'[u] = None
    BY <1>0, <1>7 DEF Mint, Purged, Fresh
  <2>2. Drawn
    BY <1>0, <2>1 DEF Live
  <2> QED BY <1>6, <1>7, <2>2 DEF Mint
<1>8. ASSUME NEW w \in Workers, MintNone(w) PROVE On /\ Drawn
  <2>1. \A u \in minted : tickets'[u] = tickets[u] \/ tickets'[u] = None
    BY <1>0, <1>8 DEF MintNone, Purged, Fresh
  <2>2. Drawn
    BY <1>0, <2>1 DEF Live
  <2> QED BY <1>6, <1>8, <2>2 DEF MintNone
<1>9. ASSUME NEW w \in Workers, NEW t \in Tickets, NEW head \in BOOLEAN, Fetch(w, t, head)
      PROVE  On /\ Drawn
  <2>1. CASE t \in aged
    BY <1>2, <1>3, <1>9, <2>1 DEF Fetch
  <2>2. CASE t \notin aged
    <3> DEFINE late == Revoked(tickets[t])
    <3>1. req'[w] = [Quiet EXCEPT !.step = "check", !.ticket = t, !.sid = tickets[t].sid,
                                  !.pam = tickets[t].pam, !.head = head, !.late = late]
      BY <1>0, <1>9, <2>2 DEF Fetch
    <3>2. UNCHANGED <<tickets, sessions>>
      BY <1>9, <2>2 DEF Fetch
    <3> HIDE DEF late
    <3>3. /\ req'[w].step = "check" /\ req'[w].ticket = t /\ req'[w].sid = tickets[t].sid
          /\ req'[w].pam = tickets[t].pam /\ req'[w].late = late
      BY <3>1, QuietType DEF Req
    <3>4. Looked(w)
      BY <3>2, <3>3 DEF Looked, Revoked, late
    <3> QED BY <1>0, <1>1, <1>3, <1>9, <2>2, <3>4 DEF Fetch
  <2> QED BY <2>1, <2>2
<1>10. ASSUME NEW w \in Workers, Check(w) PROVE On /\ Drawn
  <2>1. \A v \in Workers \ {w} : req'[v] = req[v]
    BY <1>0, <1>10 DEF Check
  <2>2. CASE SessionOK(req[w])
    <3>1. /\ tickets' = tickets
          /\ \/ req'[w] = [req[w] EXCEPT !.step = "send"]
             \/ req'[w] = [req[w] EXCEPT !.step = "take"]
      BY <1>0, <1>10, <2>2 DEF Check
    <3>2. Goes(w)
      BY <1>0, <1>10, <2>2, <3>1 DEF Goes, Check, Req
    <3> QED BY <1>1, <1>3, <2>1, <3>1, <3>2
  <2>3. CASE ~SessionOK(req[w])
    <3>1. req[w].ticket \in Tickets
      BY <1>0, <1>10 DEF Check, Types, ReqOK
    <3>2. req'[w] = Quiet /\ tickets' = [tickets EXCEPT ![req[w].ticket] = None]
      BY <1>0, <1>10, <2>3 DEF Check
    <3> QED BY <1>2, <1>3, <1>q, <2>1, <3>1, <3>2
  <2> QED BY <2>2, <2>3
<1>11. ASSUME NEW w \in Workers, Take(w) PROVE On /\ Drawn
  <2> DEFINE t == req[w].ticket
  <2>1. t \in Tickets /\ \A v \in Workers \ {w} : req'[v] = req[v]
    BY <1>0, <1>11 DEF Take, Types, ReqOK
  <2>2. CASE t \in Live \ aged
    <3>1. tickets' = [tickets EXCEPT ![t] = Spend(tickets[t])] /\ req'[w] = [req[w] EXCEPT !.step = "send"]
      BY <1>0, <1>11, <2>1, <2>2 DEF Take
    <3>2. Spend(tickets[t]) = None \/ Spend(tickets[t]) = [tickets[t] EXCEPT !.left = tickets[t].left - 1]
      BY DEF Spend
    <3>3. tickets[t] \in Entry
      BY <2>1, <2>2, LiveEntry DEF Types
    <3>4. Spend(tickets[t]) = None \/
            (Spend(tickets[t]).sid = tickets[t].sid /\ Spend(tickets[t]).pam = tickets[t].pam)
      BY <3>2, <3>3 DEF Entry
    <3>5. Drawn
      BY <1>0, <2>1, <2>2, <3>1, <3>4 DEF Live
    <3>6. Goes(w)
      BY <1>0, <1>11, <3>1 DEF Goes, Take, Req
    <3> QED BY <1>3, <2>1, <3>5, <3>6
  <2>3. CASE t \notin Live \ aged
    <3>1. req'[w] = Quiet /\ tickets' = [tickets EXCEPT ![t] = None]
      BY <1>0, <1>11, <2>3 DEF Take
    <3> QED BY <1>2, <1>3, <1>q, <2>1, <3>1
  <2> QED BY <2>2, <2>3
<1>12. ASSUME NEW w \in Workers, NEW ok \in BOOLEAN, Send(w, ok) PROVE On /\ Drawn
  <2>1. req'[w] = Quiet /\ \A v \in Workers \ {w} : req'[v] = req[v]
    BY <1>0, <1>12 DEF Send
  <2> QED BY <1>1, <1>3, <1>12, <1>q, <2>1 DEF Send
<1>13. ASSUME UNCHANGED <<tickets, req>> PROVE On /\ Drawn
  BY <1>1, <1>13 DEF Goes
<1> HIDE DEF On, Drawn
<1>14. On /\ Drawn
  BY <1>4, <1>5, <1>7, <1>8, <1>9, <1>10, <1>11, <1>12, <1>13
     DEF Next, vars, Age, EndSession, Unlink, Toggle, Reload
<1> QED BY <1>14 DEF On, Drawn

\* A session that has lost its file or its user does not get it back.
LEMMA RevokedStays ==
  ASSUME Types, [Next]_vars, NEW k, k.sid \in Sids, Revoked(k)
  PROVE  Revoked(k)'
<1>1. sessions \in [Sids -> Pam \cup {"gone"}]
  BY DEF Types, TypeOK
<1>2. CASE UNCHANGED sessions
  BY <1>2 DEF Revoked
<1>3. ASSUME NEW sid \in Sids, EndSession(sid) PROVE Revoked(k)'
  BY <1>1, <1>3 DEF EndSession, Revoked
<1>4. ASSUME NEW u \in Users, Unlink(u) PROVE Revoked(k)'
  BY <1>1, <1>4, TicketsAssumption DEF Unlink, Revoked, Pam
<1> QED
  BY <1>2, <1>3, <1>4
     DEF Next, vars, Open, Page, Mint, MintNone, Fetch, Check, Take, Send, Age, Toggle, Reload

LEMMA CopiesStep ==
  ASSUME Types, Table, Copies, [Next]_vars
  PROVE  Copies'
<1> SUFFICES ASSUME NEW w \in Workers, Fetching(w)', req'[w].ticket \in Live'
             PROVE  /\ tickets'[req'[w].ticket].sid = req'[w].sid
                    /\ tickets'[req'[w].ticket].pam = req'[w].pam
  BY DEF Copies
<1>1. CASE Goes(w)
  BY <1>1, Flights DEF Goes, Copies, Types, ReqOK
<1>2. CASE Looked(w)
  BY <1>2 DEF Looked
<1> QED BY <1>1, <1>2, Flights

LEMMA LateStep ==
  ASSUME Types, Table, Late, [Next]_vars
  PROVE  Late'
<1> SUFFICES ASSUME NEW w \in Workers, Fetching(w)', req'[w].late
             PROVE  req'[w].step = "check" /\ Revoked(req[w])'
  BY DEF Late
<1>1. CASE Goes(w)
  <2>1. req[w].step = "check" /\ Revoked(req[w]) /\ req[w].sid \in Sids
    BY <1>1 DEF Goes, Late, Types, ReqOK
  <2>2. ~SessionOK(req[w])
    BY <2>1 DEF SessionOK, Revoked
  <2>3. req'[w].step = "check"
    BY <1>1, <2>1, <2>2 DEF Goes
  <2>4. sessions'[req[w].sid] = "gone" \/ (req[w].pam # NoUser /\ sessions'[req[w].sid] # req[w].pam)
    <3>1. PICK k : k = req[w]
      OBVIOUS
    <3>2. Revoked(k)'
      BY <2>1, <3>1, RevokedStays
    <3> QED BY <3>1, <3>2 DEF Revoked
  <2> QED BY <1>1, <2>3, <2>4 DEF Goes, Revoked
<1>2. CASE Looked(w)
  BY <1>2 DEF Looked, Revoked
<1> QED BY <1>1, <1>2, Flights

-----------------------------------------------------------------------------
(* Uses *)

\* The numbers a budget adds up.
LEMMA Amounts ==
  ASSUME TypeOK, NEW t \in Tickets
  PROVE  /\ sent[t] \in Nat
         /\ tickets[t].left \in 0..Uses
         /\ IsFiniteSet(Taken(t)) => Cardinality(Taken(t)) \in Nat
<1>1. sent[t] \in Nat
  BY DEF TypeOK
<1>2. tickets[t].left \in 0..Uses
  <2>1. tickets[t] \in Entry \/ tickets[t] = None
    BY DEF TypeOK, Entry
  <2> QED BY <2>1, TicketsAssumption DEF Entry, None
<1> QED BY <1>1, <1>2, FS_CardinalityType

\* A step that takes and sends nothing and at most drops entries.
LEMMA BudgetFrame ==
  ASSUME Types, Types', Budget, UNCHANGED sent, minted \subseteq minted',
         \A t \in Tickets : Taken(t)' = Taken(t),
         \A t \in Tickets : tickets'[t] = tickets[t] \/ tickets'[t] = None
  PROVE  Budget'
<1> SUFFICES ASSUME NEW t \in Tickets
             PROVE  /\ IsFiniteSet(Taken(t)')
                    /\ sent'[t] + Cardinality(Taken(t)') + tickets'[t].left <= Uses
                    /\ t \notin minted' => sent'[t] = 0
  BY DEF Budget
<1>1. tickets'[t].left <= tickets[t].left /\ tickets'[t].left \in Nat
  BY Amounts, TicketsAssumption DEF Types, None
<1>2. tickets[t].left \in Nat /\ sent[t] \in Nat /\ Cardinality(Taken(t)) \in Nat
  BY Amounts, TicketsAssumption DEF Types, Budget
<1>3. sent[t] + Cardinality(Taken(t)) + tickets[t].left <= Uses
  BY DEF Budget
<1>4. sent'[t] + Cardinality(Taken(t)') + tickets'[t].left <= Uses
  BY <1>1, <1>2, <1>3, TicketsAssumption
<1> QED BY <1>4 DEF Budget

LEMMA BudgetStep ==
  ASSUME Types, Types', Table, Budget, [Next]_vars
  PROVE  Budget'
<1> USE TicketsAssumption
<1>0. /\ req \in [Workers -> Req] /\ tickets \in [Tickets -> Entry \cup {None}]
      /\ Live \subseteq minted /\ minted \subseteq Tickets /\ sent \in [Tickets -> Nat]
  BY DEF Types, TypeOK, Req, Entry, Table
<1>q. Quiet.step = "none"
  BY DEF Quiet
<1>1. ASSUME NEW w \in Workers, \A v \in Workers \ {w} : req'[v] = req[v],
             req[w].step # "send", req'[w].step = "send" => req'[w].head
      PROVE  \A t \in Tickets : Taken(t)' = Taken(t)
  BY <1>1 DEF Taken
<1>2. ASSUME NEW w \in Workers, NEW sid \in Sids, Open(w, sid) PROVE Budget'
  <2>1. req'[w].step = "page" /\ \A v \in Workers \ {w} : req'[v] = req[v]
    BY <1>0, <1>2 DEF Open, Quiet
  <2> QED BY <1>1, <1>2, <2>1, BudgetFrame DEF Open
<1>3. ASSUME NEW w \in Workers, NEW n \in 1..MaxProfiles, Page(w, n) PROVE Budget'
  <2>1. req'[w].step \in {"none", "mint"} /\ \A v \in Workers \ {w} : req'[v] = req[v]
    BY <1>0, <1>3, <1>q DEF Page, Req
  <2> QED BY <1>1, <1>3, <2>1, BudgetFrame DEF Page
<1>4. ASSUME NEW w \in Workers, req[w].step = "mint", NextProfile(w)
      PROVE  \A t \in Tickets : Taken(t)' = Taken(t)
  <2>1. /\ req'[w] = Quiet \/ req'[w] = [req[w] EXCEPT !.todo = req[w].todo - 1]
        /\ \A v \in Workers \ {w} : req'[v] = req[v]
    BY <1>4, NextProfileType
  <2>2. req'[w].step \in {"none", "mint"}
    BY <1>0, <1>4, <1>q, <2>1 DEF Req
  <2> QED BY <1>1, <1>4, <2>1, <2>2
<1>5. ASSUME NEW w \in Workers, MintNone(w) PROVE Budget'
  <2>1. \A t \in Tickets : tickets'[t] = tickets[t] \/ tickets'[t] = None
    BY <1>0, <1>5 DEF MintNone, Purged, Fresh
  <2> QED BY <1>4, <1>5, <2>1, BudgetFrame DEF MintNone
<1>6. ASSUME NEW w \in Workers, NEW t \in Tickets, Mint(w, t) PROVE Budget'
  <2>1. \A u \in Tickets : Taken(u)' = Taken(u)
    BY <1>4, <1>6 DEF Mint
  <2>2. \A u \in Tickets \ {t} : tickets'[u] = tickets[u] \/ tickets'[u] = None
    BY <1>0, <1>6 DEF Mint, Purged, Fresh
  <2>3. tickets'[t].left = Uses
    BY <1>0, <1>6 DEF Mint, Purged, Fresh
  <2>4. Taken(t) = {} /\ sent[t] = 0
    BY <1>6 DEF Mint, Taken, Budget, Types, ReqOK, Fetching
  <2> SUFFICES ASSUME NEW u \in Tickets
               PROVE  /\ IsFiniteSet(Taken(u)')
                      /\ sent'[u] + Cardinality(Taken(u)') + tickets'[u].left <= Uses
                      /\ u \notin minted' => sent'[u] = 0
    BY DEF Budget
  <2>5. /\ tickets[u].left \in Nat /\ sent[u] \in Nat /\ Cardinality(Taken(u)) \in Nat
        /\ sent[u] + Cardinality(Taken(u)) + tickets[u].left <= Uses
    BY Amounts DEF Types, Budget
  <2>6. sent' = sent /\ minted \subseteq minted' /\ IsFiniteSet(Taken(u)')
    BY <1>6, <2>1 DEF Mint, Budget
  <2>7. CASE u = t
    BY <2>1, <2>3, <2>4, <2>6, <2>7, FS_EmptySet
  <2>8. CASE u # t
    <3>1. tickets'[u].left <= tickets[u].left /\ tickets'[u].left \in Nat
      BY <2>2, <2>5, <2>8 DEF None
    <3>2. sent'[u] + Cardinality(Taken(u)') + tickets'[u].left <= Uses
      BY <2>1, <2>5, <2>6, <3>1
    <3> QED BY <2>6, <3>2 DEF Budget
  <2> QED BY <2>7, <2>8
<1>7. ASSUME NEW w \in Workers, NEW t \in Tickets, NEW head \in BOOLEAN, Fetch(w, t, head)
      PROVE  Budget'
  <2>1. /\ \A v \in Workers \ {w} : req'[v] = req[v]
        /\ \A u \in Tickets : tickets'[u] = tickets[u] \/ tickets'[u] = None
    BY <1>0, <1>7 DEF Fetch
  <2>2. req'[w].step # "send"
    <3>1. CASE t \in aged
      BY <1>7, <3>1 DEF Fetch
    <3>2. CASE t \notin aged
      <4> DEFINE late == Revoked(tickets[t])
      <4>1. req'[w] = [Quiet EXCEPT !.step = "check", !.ticket = t, !.sid = tickets[t].sid,
                                    !.pam = tickets[t].pam, !.head = head, !.late = late]
        BY <1>0, <1>7, <3>2 DEF Fetch
      <4> HIDE DEF late
      <4> QED BY <4>1, QuietType DEF Req
    <3> QED BY <3>1, <3>2
  <2> QED BY <1>1, <1>7, <2>1, <2>2, BudgetFrame DEF Fetch
<1>8. ASSUME NEW w \in Workers, Check(w) PROVE Budget'
  <2>1. /\ \A v \in Workers \ {w} : req'[v] = req[v]
        /\ \A u \in Tickets : tickets'[u] = tickets[u] \/ tickets'[u] = None
    BY <1>0, <1>8 DEF Check
  <2>2. req'[w].step = "send" => req'[w].head
    BY <1>0, <1>8, <1>q DEF Check, Req
  <2> QED BY <1>1, <1>8, <2>1, <2>2, BudgetFrame DEF Check
<1>9. ASSUME NEW w \in Workers, Take(w) PROVE Budget'
  <2>0. PICK t \in Tickets : t = req[w].ticket
    BY <1>0, <1>9 DEF Take, Types, ReqOK, Fetching
  <2>1. \A v \in Workers \ {w} : req'[v] = req[v]
    BY <1>0, <1>9 DEF Take
  <2>2. CASE t \notin Live \ aged
    <3>1. req'[w] = Quiet /\ tickets' = [tickets EXCEPT ![t] = None]
      BY <1>0, <1>9, <2>0, <2>2 DEF Take
    <3>2. \A u \in Tickets : Taken(u)' = Taken(u)
      BY <1>1, <1>9, <1>q, <2>1, <3>1 DEF Take
    <3> QED BY <1>0, <1>9, <2>1, <3>1, <3>2, BudgetFrame DEF Take
  <2>3. CASE t \in Live \ aged
    <3>1. /\ tickets' = [tickets EXCEPT ![t] = Spend(tickets[t])]
          /\ req'[w] = [req[w] EXCEPT !.step = "send"]
          /\ UNCHANGED <<sent, minted>>
      BY <1>0, <1>9, <2>0, <2>3 DEF Take
    <3>2. tickets[t] \in Entry
      BY <2>3, LiveEntry DEF Types
    <3>3. tickets'[t].left = tickets[t].left - 1
      <4>1. tickets'[t] = Spend(tickets[t])
        BY <1>0, <3>1
      <4> QED BY <3>2, <4>1 DEF Spend, Entry, None
    <3>4. req'[w].step = "send" /\ req'[w].head = req[w].head /\ req'[w].ticket = t
      BY <1>0, <2>0, <3>1 DEF Req
    <3>5. w \notin Taken(t) /\ Taken(t)' \subseteq Taken(t) \cup {w}
      BY <1>9, <2>1, <3>4 DEF Taken, Take
    <3>6. \A u \in Tickets \ {t} : Taken(u)' = Taken(u) /\ tickets'[u] = tickets[u]
      <4>1. \A u \in Tickets \ {t} : tickets'[u] = tickets[u]
        BY <1>0, <3>1
      <4>2. \A u \in Tickets \ {t} : Taken(u)' = Taken(u)
        BY <1>9, <2>0, <2>1, <3>4 DEF Taken, Take
      <4> QED BY <4>1, <4>2
    <3>7. /\ IsFiniteSet(Taken(t)) /\ Cardinality(Taken(t)) \in Nat
          /\ tickets[t].left \in Nat /\ sent[t] \in Nat
          /\ sent[t] + Cardinality(Taken(t)) + tickets[t].left <= Uses
      BY <2>1, Amounts DEF Types, Budget
    <3>8. /\ IsFiniteSet(Taken(t) \cup {w})
          /\ Cardinality(Taken(t) \cup {w}) = Cardinality(Taken(t)) + 1
      BY <3>5, <3>7, FS_AddElement
    <3>9. IsFiniteSet(Taken(t)') /\ Cardinality(Taken(t)') <= Cardinality(Taken(t)) + 1
      BY <3>5, <3>8, FS_Subset
    <3>10. Cardinality(Taken(t)') \in Nat
      BY <3>9, FS_CardinalityType
    <3>11. sent'[t] + Cardinality(Taken(t)') + tickets'[t].left <= Uses
      BY <3>1, <3>3, <3>7, <3>9, <3>10
    <3> SUFFICES ASSUME NEW u \in Tickets
                 PROVE  /\ IsFiniteSet(Taken(u)')
                        /\ sent'[u] + Cardinality(Taken(u)') + tickets'[u].left <= Uses
                        /\ u \notin minted' => sent'[u] = 0
      BY DEF Budget
    <3>12. CASE u = t
      BY <3>1, <3>9, <3>11, <3>12 DEF Budget
    <3>13. CASE u # t
      <4>1. UNCHANGED <<sent, minted>> /\ Taken(u)' = Taken(u) /\ tickets'[u] = tickets[u]
        BY <3>1, <3>6, <3>13
      <4> QED BY <4>1 DEF Budget
    <3> QED BY <3>12, <3>13
  <2> QED BY <2>2, <2>3
<1>10. ASSUME NEW w \in Workers, NEW ok \in BOOLEAN, Send(w, ok) PROVE Budget'
  <2>0. PICK t \in Tickets : t = req[w].ticket
    BY <1>0, <1>10 DEF Send, Types, ReqOK, Fetching
  <2>1. /\ t \in minted /\ req'[w] = Quiet /\ UNCHANGED <<tickets, minted>>
        /\ \A v \in Workers \ {w} : req'[v] = req[v]
    BY <1>0, <1>10, <2>0 DEF Send, Types, ReqOK, Fetching
  <2>2. \A u \in Tickets : Taken(u)' = Taken(u) \ {w}
    BY <1>q, <2>1 DEF Taken
  <2>3. \A u \in Tickets : w \in Taken(u) => u = t
    BY <2>0 DEF Taken
  <2>4. /\ \A u \in Tickets \ {t} : sent'[u] = sent[u]
        /\ sent'[t] = sent[t] \/ (sent'[t] = sent[t] + 1 /\ w \in Taken(t))
    BY <1>0, <1>10, <2>0 DEF Send, Taken
  <2> SUFFICES ASSUME NEW u \in Tickets
               PROVE  /\ IsFiniteSet(Taken(u)')
                      /\ sent'[u] + Cardinality(Taken(u)') + tickets'[u].left <= Uses
                      /\ u \notin minted' => sent'[u] = 0
    BY DEF Budget
  <2>5. /\ IsFiniteSet(Taken(u)) /\ Cardinality(Taken(u)) \in Nat
        /\ tickets[u].left \in Nat /\ sent[u] \in Nat
        /\ sent[u] + Cardinality(Taken(u)) + tickets[u].left <= Uses
        /\ u \notin minted => sent[u] = 0
    BY Amounts DEF Types, Budget
  <2>6. /\ IsFiniteSet(Taken(u) \ {w})
        /\ Cardinality(Taken(u) \ {w}) = Cardinality(Taken(u)) - (IF w \in Taken(u) THEN 1 ELSE 0)
    BY SMTT(30), <2>5, FS_RemoveElement
  <2>7. sent'[u] = sent[u] \/ (sent'[u] = sent[u] + 1 /\ w \in Taken(u) /\ u \in minted)
    BY <2>1, <2>4
  <2>8. IsFiniteSet(Taken(u)') /\ Cardinality(Taken(u)') = Cardinality(Taken(u) \ {w})
    BY <2>2, <2>6
  <2>9. sent'[u] + Cardinality(Taken(u)') + tickets'[u].left <= Uses
    BY <2>1, <2>5, <2>6, <2>7, <2>8
  <2> QED BY <2>1, <2>5, <2>7, <2>8, <2>9
<1>11. ASSUME UNCHANGED <<tickets, req, minted, sent>> PROVE Budget'
  BY <1>11 DEF Budget, Taken
<1> QED
  BY <1>2, <1>3, <1>5, <1>6, <1>7, <1>8, <1>9, <1>10, <1>11
     DEF Next, vars, Age, EndSession, Unlink, Toggle, Reload

-----------------------------------------------------------------------------
(* The theorems *)

\* Inv is an invariant: the handlers' records, the table and the uses agree in every
\* reachable state of the ticket handlers (server.go, mintOvpnTicket to Send).
THEOREM TicketsInvariance == Spec => []Inv
<1>1. Inv /\ [Next]_vars => Inv'
  <2> SUFFICES ASSUME Inv, [Next]_vars PROVE Inv'
    OBVIOUS
  <2>1. Types' /\ Table'
    BY TypesStep DEF Inv
  <2>2. Copies' /\ Late'
    BY CopiesStep, LateStep DEF Inv
  <2>3. Budget'
    BY <2>1, BudgetStep DEF Inv
  <2> QED BY <2>1, <2>2, <2>3 DEF Inv
<1> QED BY <1>1, InitInv, PTL DEF Spec

\* Every entry of ovpnTickets has uses left, and the table stays within ovpnMaxTickets.
THEOREM TicketTypes == Spec => []TypeOK
<1>1. Inv => TypeOK
  BY DEF Inv, Types
<1> QED BY <1>1, TicketsInvariance, PTL

\* Concurrent fetches of one ticket send its profile at most ovpnTicketUses times.
THEOREM TwoGetsHold == Spec => []TwoGets
<1>1. Inv => TwoGets
  <2> SUFFICES ASSUME Inv, NEW t \in Tickets PROVE sent[t] <= Uses
    BY DEF TwoGets
  <2>1. /\ sent[t] \in Nat /\ tickets[t].left \in Nat /\ Cardinality(Taken(t)) \in Nat
        /\ sent[t] + Cardinality(Taken(t)) + tickets[t].left <= Uses
    BY Amounts, TicketsAssumption DEF Inv, Types, Budget
  <2> QED BY <2>1, TicketsAssumption
<1> QED BY <1>1, TicketsInvariance, PTL

\* A fetch that comes in after the minting session was revoked is never past
\* ovpnTicketSessionOK, whenever the ticket itself was minted.
THEOREM RevokedGetNothing == Spec => []RevokedUnserved
<1>1. Inv => RevokedUnserved
  BY DEF Inv, Late, RevokedUnserved, Fetching
<1> QED BY <1>1, TicketsInvariance, PTL

\* A ticket leaves the table only when it is spent, expired, or its session is revoked.
THEOREM TicketsKeptHold == Spec => TicketsKept
<1> DEFINE Kept == \A t \in Live : tickets'[t] = None =>
                     t \in aged \/ tickets[t].left = 1 \/ Revoked(tickets[t])
<1>1. ASSUME Inv, [Next]_vars PROVE Kept
  <2> USE TicketsAssumption
  <2> SUFFICES ASSUME NEW t \in Live, tickets'[t] = None, t \notin aged
               PROVE  tickets[t].left = 1 \/ Revoked(tickets[t])
    OBVIOUS
  <2>0. /\ tickets \in [Tickets -> Entry \cup {None}] /\ t \in Tickets /\ tickets[t] # None
        /\ tickets[t] \in Entry /\ t \in minted
    BY <1>1, LiveEntry DEF Inv, Types, TypeOK, Live, Entry, Table
  <2>1. ASSUME UNCHANGED tickets PROVE FALSE
    BY <2>0, <2>1
  <2>2. ASSUME NEW w \in Workers, NEW u \in Tickets, Mint(w, u) PROVE FALSE
    BY <2>0, <2>2 DEF Mint, Purged, Fresh
  <2>3. ASSUME NEW w \in Workers, MintNone(w) PROVE FALSE
    BY <2>0, <2>3 DEF MintNone, Purged, Fresh
  <2>4. ASSUME NEW w \in Workers, NEW u \in Tickets, NEW head \in BOOLEAN, Fetch(w, u, head)
        PROVE  FALSE
    BY <2>0, <2>4 DEF Fetch
  <2>5. ASSUME NEW w \in Workers, Check(w) PROVE Revoked(tickets[t])
    <3>1. ~SessionOK(req[w]) /\ req[w].ticket = t
      BY <2>0, <2>5 DEF Check
    <3>2. tickets[t].sid = req[w].sid /\ tickets[t].pam = req[w].pam
      BY <1>1, <2>5, <3>1 DEF Inv, Copies, Fetching, Check
    <3> QED BY <3>1, <3>2 DEF SessionOK, Revoked
  <2>6. ASSUME NEW w \in Workers, Take(w) PROVE tickets[t].left = 1
    <3>1. req[w].ticket = t /\ tickets'[t] = Spend(tickets[t])
      BY <2>0, <2>6 DEF Take
    <3>2. tickets[t].left <= 1
      <4>1. SUFFICES ASSUME ~(tickets[t].left <= 1) PROVE FALSE
        OBVIOUS
      <4>2. None = [tickets[t] EXCEPT !.left = tickets[t].left - 1]
        BY <3>1, <4>1 DEF Spend
      <4> QED BY <2>0, <4>1, <4>2 DEF Entry, None
    <3> QED BY <2>0, <3>2 DEF Entry
  <2> QED
    BY <1>1, <2>1, <2>2, <2>3, <2>4, <2>5, <2>6
       DEF Next, vars, Open, Page, Send, Age, EndSession, Unlink, Toggle, Reload
<1>2. Inv /\ [Next]_vars => [Kept]_vars
  BY <1>1
<1> QED BY <1>2, TicketsInvariance, PTL DEF Spec, TicketsKept
===============================================================================
