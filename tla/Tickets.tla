------------------------------- MODULE Tickets -------------------------------
(***************************************************************************)
(* internal/web: the OpenVPN import tickets.  A signed-in browser's GET of *)
(* /openvpn-api/profile mints a ticket per profile; OpenVPN Connect, which *)
(* has no cookie, fetches the profile with the ticket alone.               *)
(*                                                                         *)
(* The handlers hold ovpnMu only around the table, so between the session  *)
(* they read and the ticket they mint, and between the ticket they look up *)
(* and the file they send, logouts, unlinks, reloads and other fetches     *)
(* happen.                                                                 *)
(***************************************************************************)
EXTENDS Naturals, FiniteSets

CONSTANTS
  Workers,      \* handlers in flight
  Sids,         \* session ids
  Tickets,      \* ticket ids; randomHex never returns one twice
  Users, NoUser,
  NoSid, NoTicket,
  Configs,      \* configurations a SIGHUP can load
  MaxTickets,   \* ovpnMaxTickets
  Uses,         \* ovpnTicketUses
  MaxProfiles   \* bound on the profiles of a cubby; collectOvpn stops near 32

Pam == Users \cup {NoUser}

\* users/<u>, and the one home/<hash> of the unlinked sessions, here NoUser.
Cubbies == Pam

\* pam: PAM=yes; listed: the allowlist admits the sessions' address; off: OVPN_TOKEN=no.
Config == [pam : BOOLEAN, listed : BOOLEAN, off : BOOLEAN]

ASSUME TicketsAssumption ==
  /\ Configs \subseteq Config
  /\ NoUser \notin Users /\ NoSid \notin Sids /\ NoTicket \notin Tickets
  /\ "gone" \notin Pam
  /\ MaxTickets \in Nat /\ Uses \in Nat \ {0} /\ MaxProfiles \in Nat \ {0}

VARIABLES
  cfg,        \* the configuration
  sessions,   \* the session files: their PAMUser, or "gone"
  sentinel,   \* cubbies with a .bootstash-no-ovpn-token
  tickets,    \* ovpnTickets
  aged,       \* tickets older than ovpnTicketTTL
  req         \* what each handler is doing

\* History.
VARIABLES
  minted,     \* ticket ids drawn
  sent        \* how often the profile was sent for each ticket

vars == <<cfg, sessions, sentinel, tickets, aged, req, minted, sent>>

None == [sid |-> NoSid, pam |-> NoUser, left |-> 0]

\* late: the ticket's session had been revoked when the fetch came in.
Quiet == [step |-> "none", sid |-> NoSid, pam |-> NoUser, todo |-> 0, ticket |-> NoTicket,
          head |-> FALSE, late |-> FALSE]

Live == {t \in Tickets : tickets[t] # None}

Init ==
  /\ cfg \in Configs
  /\ sessions \in [Sids -> Pam]
  /\ sentinel = {}
  /\ tickets = [t \in Tickets |-> None]
  /\ aged = {}
  /\ req = [w \in Workers |-> Quiet]
  /\ minted = {}
  /\ sent = [t \in Tickets |-> 0]

-----------------------------------------------------------------------------
(* Minting *)

\* emailHomeID of an unlinked session.
EmailHome == ~cfg.pam /\ cfg.listed

\* The session may use the cubby of pam now.
HasCubby(pam) == pam # NoUser \/ EmailHome

\* ovpnTokensOff.  Without a cubby to look at it answers no.
TokensOff(pam, known) == cfg.off \/ (known /\ pam \in sentinel)

\* GET /openvpn-api/profile in a browser: the session is read.
Open(w, sid) ==
  /\ req[w].step = "none"
  /\ sessions[sid] # "gone" /\ HasCubby(sessions[sid])
  /\ req' = [req EXCEPT ![w] = [Quiet EXCEPT !.step = "page", !.sid = sid,
                                             !.pam = sessions[sid]]]
  /\ UNCHANGED <<cfg, sessions, sentinel, tickets, aged, minted, sent>>

\* renderOvpnHandoff of n profiles (one when pickOvpn chooses).
Page(w, n) ==
  /\ req[w].step = "page"
  /\ req' = [req EXCEPT ![w] =
       IF TokensOff(req[w].pam, HasCubby(req[w].pam)) THEN Quiet
       ELSE [@ EXCEPT !.step = "mint", !.todo = n]]
  /\ UNCHANGED <<cfg, sessions, sentinel, tickets, aged, minted, sent>>

\* The handler goes on to its next profile, or ends with the page.
NextProfile(w) ==
  LET r == req[w]
  IN  req' = [req EXCEPT ![w] = IF r.todo = 1 THEN Quiet ELSE [r EXCEPT !.todo = r.todo - 1]]

\* What mintOvpnTicket's purge leaves.
Fresh == [t \in Tickets |-> IF t \in aged THEN None ELSE tickets[t]]

Room == Cardinality(Live \ aged) < MaxTickets

\* Mutant: the table is emptied when it is full.
PurgeAll == IF Room THEN Fresh ELSE [t \in Tickets |-> None]

Purged == Fresh

\* tryOvpnImport: a ticket for the session as it was read.
Mint(w, t) ==
  /\ req[w].step = "mint"
  /\ HasCubby(req[w].pam)
  /\ Room
  /\ t \notin minted
  /\ minted' = minted \cup {t}
  /\ tickets' = [Purged EXCEPT ![t] = [sid |-> req[w].sid, pam |-> req[w].pam, left |-> Uses]]
  /\ NextProfile(w)
  /\ UNCHANGED <<cfg, sessions, sentinel, aged, sent>>

\* The table is full, or the email cubby was taken away since: no ticket.
MintNone(w) ==
  /\ req[w].step = "mint"
  /\ \/ HasCubby(req[w].pam) /\ ~Room /\ tickets' = Purged
     \/ ~HasCubby(req[w].pam) /\ UNCHANGED tickets
  /\ NextProfile(w)
  /\ UNCHANGED <<cfg, sessions, sentinel, aged, minted, sent>>

-----------------------------------------------------------------------------
(* Fetching *)

\* Mutant: the session's user is not compared.
SessionExists(k) == sessions[k.sid] # "gone"

\* ovpnTicketSessionOK.  An unlinked session keeps its (issuer, sub) as long as its
\* file exists.
SessionOK(k) ==
  /\ sessions[k.sid] # "gone"
  /\ k.pam # NoUser => sessions[k.sid] = k.pam

\* What became of the session that minted k: logged out, or unlinked.
Revoked(k) == sessions[k.sid] = "gone" \/ (k.pam # NoUser /\ sessions[k.sid] # k.pam)

\* peekOvpnTicket by a GET or a HEAD with a token.
Fetch(w, t, head) ==
  /\ req[w].step = "none"
  /\ t \in Live
  /\ IF t \in aged
       THEN tickets' = [tickets EXCEPT ![t] = None] /\ UNCHANGED req
       ELSE /\ req' = [req EXCEPT ![w] = [Quiet EXCEPT !.step = "check", !.ticket = t,
                         !.sid = tickets[t].sid, !.pam = tickets[t].pam, !.head = head,
                         !.late = Revoked(tickets[t])]]
            /\ UNCHANGED tickets
  /\ UNCHANGED <<cfg, sessions, sentinel, aged, minted, sent>>

\* The session check, with the copy of the ticket; a HEAD does not consume.
Check(w) ==
  /\ req[w].step = "check"
  /\ IF SessionOK(req[w])
       THEN /\ req' = [req EXCEPT ![w].step = IF req[w].head THEN "send" ELSE "take"]
            /\ UNCHANGED tickets
       ELSE /\ req' = [req EXCEPT ![w] = Quiet]
            /\ tickets' = [tickets EXCEPT ![req[w].ticket] = None]
  /\ UNCHANGED <<cfg, sessions, sentinel, aged, minted, sent>>

\* Mutant: the counter is not written back before the last use.
SpendLast(k) == IF k.left <= 1 THEN None ELSE k

\* Mutant: a spent ticket stays in the table.
SpendToZero(k) == [k EXCEPT !.left = @ - 1]

\* t.left--, and the entry goes with its last use.
Spend(k) == IF k.left <= 1 THEN None ELSE [k EXCEPT !.left = @ - 1]

\* takeOvpnTicket: it may have been spent or dropped, or have expired, since the peek.
Take(w) ==
  LET t == req[w].ticket IN
  /\ req[w].step = "take"
  /\ IF t \in Live \ aged
       THEN /\ tickets' = [tickets EXCEPT ![t] = Spend(@)]
            /\ req' = [req EXCEPT ![w].step = "send"]
       ELSE /\ tickets' = [tickets EXCEPT ![t] = None]
            /\ req' = [req EXCEPT ![w] = Quiet]
  /\ UNCHANGED <<cfg, sessions, sentinel, aged, minted, sent>>

\* The tokens-off check and writeOvpnAttachment, which may fail on the file.  The
\* ticket names its email cubby itself, so the configuration is not asked again.
Send(w, ok) ==
  /\ req[w].step = "send"
  /\ sent' = [sent EXCEPT ![req[w].ticket] =
                IF ok /\ ~req[w].head /\ ~TokensOff(req[w].pam, TRUE) THEN @ + 1 ELSE @]
  /\ req' = [req EXCEPT ![w] = Quiet]
  /\ UNCHANGED <<cfg, sessions, sentinel, tickets, aged, minted>>

-----------------------------------------------------------------------------
(* Meanwhile *)

\* Sixty seconds pass.
Age(t) ==
  /\ t \in minted \ aged
  /\ aged' = aged \cup {t}
  /\ UNCHANGED <<cfg, sessions, sentinel, tickets, req, minted, sent>>

\* Logout, expiry, or the rotation of a password login: the file goes.
EndSession(sid) ==
  /\ sessions[sid] # "gone"
  /\ sessions' = [sessions EXCEPT ![sid] = "gone"]
  /\ UNCHANGED <<cfg, sentinel, tickets, aged, req, minted, sent>>

\* bootstash unlink.
Unlink(u) ==
  /\ sessions' = [s \in Sids |-> IF sessions[s] = u THEN NoUser ELSE sessions[s]]
  /\ UNCHANGED <<cfg, sentinel, tickets, aged, req, minted, sent>>

\* The user puts the sentinel file into the cubby, or removes it.
Toggle(c) ==
  /\ sentinel' = IF c \in sentinel THEN sentinel \ {c} ELSE sentinel \cup {c}
  /\ UNCHANGED <<cfg, sessions, tickets, aged, req, minted, sent>>

\* SIGHUP.
Reload(c) ==
  /\ cfg' = c
  /\ UNCHANGED <<sessions, sentinel, tickets, aged, req, minted, sent>>

Next ==
  \/ \E w \in Workers :
       \/ \E sid \in Sids : Open(w, sid)
       \/ \E n \in 1..MaxProfiles : Page(w, n)
       \/ \E t \in Tickets : Mint(w, t) \/ \E head \in BOOLEAN : Fetch(w, t, head)
       \/ MintNone(w) \/ Check(w) \/ Take(w)
       \/ \E ok \in BOOLEAN : Send(w, ok)
  \/ \E t \in Tickets : Age(t)
  \/ \E sid \in Sids : EndSession(sid)
  \/ \E u \in Users : Unlink(u)
  \/ \E c \in Cubbies : Toggle(c)
  \/ \E c \in Configs : Reload(c)

Spec == Init /\ [][Next]_vars

-----------------------------------------------------------------------------
(* Properties *)

\* Every variable keeps its type, a ticket in the table has uses left, and the table
\* stays within ovpnMaxTickets (server.go:481).
TypeOK ==
  /\ cfg \in Configs
  /\ sessions \in [Sids -> Pam \cup {"gone"}]
  /\ sentinel \subseteq Cubbies
  /\ tickets \in [Tickets -> [sid : Sids, pam : Pam, left : 1..Uses] \cup {None}]
  /\ aged \subseteq minted /\ minted \subseteq Tickets
  /\ req \in [Workers -> [step : {"none", "page", "mint", "check", "take", "send"},
                          sid : Sids \cup {NoSid}, pam : Pam, todo : 0..MaxProfiles,
                          ticket : Tickets \cup {NoTicket}, head : BOOLEAN, late : BOOLEAN]]
  /\ sent \in [Tickets -> Nat]
  /\ Cardinality(Live) <= MaxTickets

\* "Two GETs, then 404" (DEVELOPERS.md:195, lookupOvpnTicket): concurrent fetches of
\* one ticket send its profile at most ovpnTicketUses times in all.
TwoGets == \A t \in Tickets : sent[t] <= Uses

\* A fetch that comes in after the minting session was logged out or unlinked gets
\* nothing (serveOpenVPNTicket), even for a ticket minted after the revocation by a
\* handler that had read the session before it.
RevokedUnserved == \A w \in Workers : req[w].step \in {"take", "send"} => ~req[w].late

\* A ticket leaves the table only when it is spent or expired or its own session was
\* revoked: other sessions of the user, full tables and lost races take none away
\* (DEVELOPERS.md:199).
TicketsKept ==
  [][\A t \in Live : tickets'[t] = None =>
       t \in aged \/ tickets[t].left = 1 \/ Revoked(tickets[t])]_vars
==============================================================================
