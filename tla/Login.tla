-------------------------------- MODULE Login --------------------------------
(***************************************************************************)
(* internal/web: how a browser gets, changes and loses a session.  GET     *)
(* /login starts an OIDC flow, /oidc/callback ends it through the identity *)
(* gate, POST /login adds a Unix user by password, POST /logout ends the   *)
(* session; beside them the operator unlinks users and SIGHUP replaces the *)
(* configuration.                                                          *)
(*                                                                         *)
(* A handler that waits (for the provider, for PAM) or makes two store     *)
(* calls is several steps, so other requests, unlinks and reloads fall in  *)
(* between.  One store call is one step here: Store.tla opens them up.     *)
(***************************************************************************)
EXTENDS Naturals, FiniteSets

CONSTANTS
  Browsers,     \* cookie jars
  Tabs,         \* handlers that can be in flight at once, of any browsers
  Ids,          \* session ids
  Txs,          \* oauth transactions; a tx id and its nonce are drawn together
  Subjects, NoSubject,
  Users, NoUser,
  Emails, NoEmail,   \* normalised addresses; NoEmail is one NormalizeEmail rejects
  Identities,   \* what the provider can assert: [subj, email, verified]
  Configs,      \* configurations a SIGHUP can load: [idp, pam, allow]
  MaxTx,        \* oauthMaxTx
  NoId, NoTx, NoSession, NoBrowser

NoIdentity == [subj |-> NoSubject, email |-> NoEmail, verified |-> FALSE]

AnySubject == Subjects \cup {NoSubject}

Pam == Users \cup {NoUser}

\* store.Session.  who.verified and gated record how the identity was admitted, for
\* the properties: the code does not store them.
Session == [who : Identities \cup {NoIdentity}, pam : Pam, gated : BOOLEAN]

Config == [idp : BOOLEAN, pam : BOOLEAN, allow : SUBSET Emails]

\* Ready() refuses PAM=no without a provider.
ASSUME LoginAssumption ==
  /\ Identities \subseteq [subj : Subjects, email : Emails \cup {NoEmail}, verified : BOOLEAN]
  /\ Configs \subseteq Config
  /\ \A c \in Configs : c.pam \/ c.idp
  /\ NoSubject \notin Subjects /\ NoUser \notin Users /\ NoEmail \notin Emails
  /\ NoBrowser \notin Browsers /\ NoId \notin Ids /\ NoTx \notin Txs
  /\ NoSession \notin Session
  /\ MaxTx \in Nat

VARIABLES
  cfg,        \* the configuration handlers read
  links, pins, sessions,   \* links.json, subjects.json, sessions-<id>.json
  pending,    \* oauthTx: the transactions in the table
  aged,       \* transactions and signed states older than 15 minutes
  granted,    \* what the provider will answer for a transaction
  jar,        \* each browser's session and oauth cookies
  req         \* the requests in flight

\* History.
VARIABLES
  owner,      \* the browser that started each transaction
  minted,     \* who got which session from which transaction
  proved,     \* (subject, user) pairs with an accepted password, not revoked since
  used        \* session ids drawn

history == <<owner, minted, proved, used>>

vars == <<cfg, links, pins, sessions, pending, aged, granted, jar, req, history>>

Quiet == [step |-> "none", by |-> NoBrowser, tx |-> NoTx, who |-> NoIdentity, gated |-> FALSE,
          id |-> NoId, user |-> NoUser]

Init ==
  /\ cfg \in Configs
  /\ links = [s \in AnySubject |-> NoUser]
  /\ pins = [e \in Emails |-> NoSubject]
  /\ sessions = [id \in Ids |-> NoSession]
  /\ pending = {}
  /\ aged = {}
  /\ granted = [t \in Txs |-> NoIdentity]
  /\ jar = [b \in Browsers |-> [sid |-> NoId, oauth |-> NoTx]]
  /\ req = [r \in Tabs |-> Quiet]
  /\ owner = [t \in Txs |-> {}]
  /\ minted = {}
  /\ proved = {}
  /\ used = {}

-----------------------------------------------------------------------------
(* What a session may do *)

PAMLogin == cfg.pam /\ ~cfg.idp

LinkPAM == cfg.pam /\ cfg.idp

Files == {id \in Ids : sessions[id] # NoSession}

\* emailHomeID: the session reaches home/<hash of its address>.
EmailHome(s) ==
  /\ s.pam = NoUser
  /\ ~cfg.pam
  /\ s.who.email # NoEmail
  /\ cfg.allow # {} => s.who.email \in cfg.allow

HasCubby(s) == s.pam # NoUser \/ EmailHome(s)

\* session(r) of a browser; NoId when the cookie is absent or names no file.
SessionId(b) == IF jar[b].sid \in Files THEN jar[b].sid ELSE NoId

\* passwordLogin: the form is offered to a browser with session id or none.
PasswordLogin(id) ==
  IF id = NoId THEN PAMLogin
  ELSE ~HasCubby(sessions[id]) /\ (PAMLogin \/ LinkPAM)

-----------------------------------------------------------------------------
(* The OIDC flow *)

\* Mutant: neither purge nor limit.
PutUnbounded(t) == pending' = pending \cup {t}

\* putOauthTx: drop what has expired, then insert unless the table is full.
PutOauthTx(t) ==
  /\ Cardinality(pending \ aged) < MaxTx
  /\ pending' = (pending \ aged) \cup {t}

\* GET /login?provider=google that is not a password form.
StartsFlow(b) ==
  /\ cfg.idp
  /\ SessionId(b) # NoId => ~HasCubby(sessions[SessionId(b)])
  /\ ~PasswordLogin(SessionId(b))

\* Mutant: the transaction cookie is set under the name of the session cookie.
LoginGetOneCookie(b, t) ==
  /\ StartsFlow(b)
  /\ owner[t] = {}
  /\ PutOauthTx(t)
  /\ jar' = [jar EXCEPT ![b].sid = t]
  /\ owner' = [owner EXCEPT ![t] = {b}]
  /\ UNCHANGED <<cfg, links, pins, sessions, aged, granted, req, minted, proved, used>>

\* handleLoginGet up to the redirect to the provider.
LoginGet(b, t) ==
  /\ StartsFlow(b)
  /\ owner[t] = {}
  /\ PutOauthTx(t)
  /\ jar' = [jar EXCEPT ![b].oauth = t]
  /\ owner' = [owner EXCEPT ![t] = {b}]
  /\ UNCHANGED <<cfg, links, pins, sessions, aged, granted, req, minted, proved, used>>

\* The table is full: 503, after the purge.
LoginFull(b) ==
  /\ StartsFlow(b)
  /\ Cardinality(pending \ aged) >= MaxTx
  /\ pending' = pending \ aged
  /\ UNCHANGED <<cfg, links, pins, sessions, aged, granted, jar, req, history>>

\* Fifteen minutes pass: the transaction and its signed state expire.
Age(t) ==
  /\ owner[t] # {} /\ t \notin aged
  /\ aged' = aged \cup {t}
  /\ UNCHANGED <<cfg, links, pins, sessions, pending, granted, jar, req, history>>

\* External: someone signs in at the provider in the browser that started t.  PKCE
\* and the nonce tie the answer to t.
Consent(t, who) ==
  /\ owner[t] # {} /\ granted[t] = NoIdentity
  /\ granted' = [granted EXCEPT ![t] = who]
  /\ UNCHANGED <<cfg, links, pins, sessions, pending, aged, jar, req, history>>

\* Mutant: the transaction stays in the table.
TakeAndKeep(c) == pending' = pending

\* takeOauthTx: deleted before anything else is checked.
TakeOauthTx(c) == pending' = pending \ {c}

\* The cookie's transaction is live and is the one the signed state names.
SameTx(c, t) == c \in pending \ aged /\ c = t

\* Mutant: the transaction is found by the signed state and the cookie is ignored.
CallbackByState(r, b, t) ==
  /\ req[r].step = "none"
  /\ granted[t] # NoIdentity /\ t \notin aged
  /\ TakeOauthTx(t)
  /\ t \in pending
  /\ req' = [req EXCEPT ![r] = [Quiet EXCEPT !.step = "gate", !.by = b, !.tx = t]]
  /\ UNCHANGED <<cfg, links, pins, sessions, aged, granted, jar, history>>

\* /oidc/callback with the state of t, up to the call of the provider.  The URL may
\* be opened in any browser that has an oauth cookie, and more than once.
Callback(r, b, t) ==
  /\ req[r].step = "none"
  /\ granted[t] # NoIdentity /\ t \notin aged
  /\ jar[b].oauth # NoTx
  /\ TakeOauthTx(jar[b].oauth)
  /\ IF SameTx(jar[b].oauth, t) /\ cfg.idp
       THEN /\ req' = [req EXCEPT ![r] = [Quiet EXCEPT !.step = "gate", !.by = b, !.tx = t]]
            /\ UNCHANGED jar
       ELSE /\ jar' = IF SameTx(jar[b].oauth, t) THEN [jar EXCEPT ![b].oauth = NoTx] ELSE jar
            /\ UNCHANGED req
  /\ UNCHANGED <<cfg, links, pins, sessions, aged, granted, history>>

\* The exchange fails, the gate refuses or the store fails; the response still
\* clears the oauth cookie.
Refuse(r) ==
  /\ req[r].step \in {"gate", "create"}
  /\ req' = [req EXCEPT ![r] = Quiet]
  /\ jar' = [jar EXCEPT ![req[r].by].oauth = NoTx]
  /\ UNCHANGED <<cfg, links, pins, sessions, pending, aged, granted, history>>

\* Mutant: a second subject for a pinned address is let in.
BindAnySubject(e, s) == pins' = IF pins[e] = NoSubject THEN [pins EXCEPT ![e] = s] ELSE pins

\* BindSubject: insert on first use, later only the same subject.
BindSubject(e, s) ==
  /\ pins[e] \in {NoSubject, s}
  /\ pins' = [pins EXCEPT ![e] = s]

\* Exchange: the code is traded with the verifier of the transaction and the token
\* must carry its nonce, so the identity is the one granted for it.
Exchange(r) == granted[req[r].tx]

\* gateIdentity on what Exchange returned.
GateIdentity(r) ==
  LET who == Exchange(r) IN
  /\ req[r].step = "gate"
  /\ \/ /\ cfg.allow # {}
        /\ who.verified /\ who.email \in cfg.allow
        /\ BindSubject(who.email, who.subj)
     \/ /\ cfg.allow = {}
        /\ \/ cfg.pam
           \/ links[who.subj] # NoUser
           \/ who.verified /\ who.email # NoEmail
        /\ UNCHANGED pins
  /\ req' = [req EXCEPT ![r].step = "create", ![r].who = who, ![r].gated = (cfg.allow # {})]
  /\ UNCHANGED <<cfg, links, sessions, pending, aged, granted, jar, history>>

\* CreateSession and the cookies: the link is looked up now, not at the gate.
CreateSession(r, id) ==
  /\ req[r].step = "create"
  /\ id \notin used
  /\ used' = used \cup {id}
  /\ sessions' = [sessions EXCEPT ![id] = [who |-> req[r].who, pam |-> links[req[r].who.subj],
                                           gated |-> req[r].gated]]
  /\ jar' = [jar EXCEPT ![req[r].by] = [sid |-> id, oauth |-> NoTx]]
  /\ minted' = minted \cup {[tx |-> req[r].tx, browser |-> req[r].by, id |-> id]}
  /\ req' = [req EXCEPT ![r] = Quiet]
  /\ UNCHANGED <<cfg, links, pins, pending, aged, granted, owner, proved>>

-----------------------------------------------------------------------------
(* The password *)

\* handleLoginPost up to the PAM helper, with the session it has read.
LoginPost(r, b, u) ==
  /\ req[r].step = "none"
  /\ PasswordLogin(SessionId(b))
  /\ req' = [req EXCEPT ![r] =
       IF SessionId(b) = NoId THEN [Quiet EXCEPT !.step = "auth", !.by = b, !.user = u]
       ELSE [Quiet EXCEPT !.step = "auth", !.by = b, !.user = u, !.id = SessionId(b),
                          !.who = sessions[SessionId(b)].who,
                          !.gated = sessions[SessionId(b)].gated]]
  /\ UNCHANGED <<cfg, links, pins, sessions, pending, aged, granted, jar, history>>

\* acceptLocalUser refuses: the form again.
Denied(r) ==
  /\ req[r].step = "auth"
  /\ req' = [req EXCEPT ![r] = Quiet]
  /\ UNCHANGED <<cfg, links, pins, sessions, pending, aged, granted, jar, history>>

\* PAM accepts and there was no session: CreatePAMSession.
AcceptNew(r, id) ==
  /\ req[r].step = "auth" /\ req[r].id = NoId
  /\ id \notin used
  /\ used' = used \cup {id}
  /\ sessions' = [sessions EXCEPT ![id] = [who |-> NoIdentity, pam |-> req[r].user,
                                           gated |-> FALSE]]
  /\ jar' = [jar EXCEPT ![req[r].by].sid = id]
  /\ req' = [req EXCEPT ![r] = Quiet]
  /\ UNCHANGED <<cfg, links, pins, pending, aged, granted, owner, minted, proved>>

\* Mutant: the subject's other sessions keep their user when it changes.
ClearNone(S) == sessions

\* clearMatchingSessionsLocked: PAMUser becomes "" on the ids of S.
ClearPAM(S) == [i \in Ids |-> IF i \in S THEN [sessions[i] EXCEPT !.pam = NoUser]
                              ELSE sessions[i]]

\* The sessions SaveLinkedSession revokes when the row of subj changes to user.
RemapClears(subj, user) ==
  IF links[subj] \in {NoUser, user} THEN {}
  ELSE {i \in Files : sessions[i].who.subj = subj /\ sessions[i].pam # NoUser}

\* PAM accepts and the browser had a session: SaveLinkedSession writes the row, moves
\* the session to a new id and revokes the subject's others when the user changed.
AcceptLinked(r, id) ==
  LET q == req[r]  subj == q.who.subj IN
  /\ q.step = "auth" /\ q.id # NoId
  /\ id \notin used
  /\ used' = used \cup {id}
  /\ links' = [links EXCEPT ![subj] = q.user]
  /\ sessions' = [ClearPAM(RemapClears(subj, q.user))
                    EXCEPT ![q.id] = NoSession,
                           ![id] = [who |-> q.who, pam |-> q.user, gated |-> q.gated]]
  /\ jar' = [jar EXCEPT ![q.by].sid = id]
  /\ req' = [req EXCEPT ![r] = Quiet]
  /\ proved' = {x \in proved : x[1] # subj} \cup {<<subj, q.user>>}
  /\ UNCHANGED <<cfg, pins, pending, aged, granted, owner, minted>>

\* handleLogout: this session's file and cookie only.
Logout(b) ==
  /\ sessions' = [i \in Ids |-> IF i = SessionId(b) THEN NoSession ELSE sessions[i]]
  /\ jar' = [jar EXCEPT ![b].sid = NoId]
  /\ UNCHANGED <<cfg, links, pins, pending, aged, granted, req, history>>

-----------------------------------------------------------------------------
(* The operator *)

\* bootstash unlink: every row of the user, and the sessions that match.
Unlink(u) ==
  LET removed == {s \in AnySubject : links[s] = u} IN
  /\ links' = [s \in AnySubject |-> IF s \in removed THEN NoUser ELSE links[s]]
  /\ sessions' = ClearPAM({i \in Files : /\ sessions[i].pam # NoUser
                                         /\ \/ sessions[i].pam = u
                                            \/ sessions[i].who.subj \in removed})
  /\ proved' = {x \in proved : x[2] # u}
  /\ UNCHANGED <<cfg, pins, pending, aged, granted, jar, req, owner, minted, used>>

\* SIGHUP: SetConfig replaces the configuration under running requests.
Reload(c) ==
  /\ cfg' = c
  /\ UNCHANGED <<links, pins, sessions, pending, aged, granted, jar, req, history>>

\* bootstashd restarts: handlers and the transaction table are lost, files and
\* cookies stay, and crypto.key still verifies signed states.
Restart(c) ==
  /\ cfg' = c
  /\ pending' = {}
  /\ req' = [r \in Tabs |-> Quiet]
  /\ UNCHANGED <<links, pins, sessions, aged, granted, jar, history>>

Next ==
  \/ \E r \in Tabs :
       \/ Refuse(r) \/ GateIdentity(r) \/ Denied(r)
       \/ \E id \in Ids : CreateSession(r, id) \/ AcceptNew(r, id) \/ AcceptLinked(r, id)
       \/ \E b \in Browsers, t \in Txs : Callback(r, b, t)
       \/ \E b \in Browsers, u \in Users : LoginPost(r, b, u)
  \/ \E b \in Browsers : LoginFull(b) \/ Logout(b) \/ \E t \in Txs : LoginGet(b, t)
  \/ \E t \in Txs : Age(t) \/ \E who \in Identities : Consent(t, who)
  \/ \E u \in Users : Unlink(u)
  \/ \E c \in Configs : Reload(c) \/ Restart(c)

Spec == Init /\ [][Next]_vars

-----------------------------------------------------------------------------
(* Properties *)

Req == [step : {"none", "gate", "create", "auth"}, by : Browsers \cup {NoBrowser},
        tx : Txs \cup {NoTx}, who : Identities \cup {NoIdentity}, gated : BOOLEAN,
        id : Ids \cup {NoId}, user : Pam]

\* Every variable keeps its type.
TypeOK ==
  /\ cfg \in Configs
  /\ links \in [AnySubject -> Pam]
  /\ pins \in [Emails -> AnySubject]
  /\ sessions \in [Ids -> Session \cup {NoSession}]
  /\ pending \subseteq Txs /\ aged \subseteq Txs
  /\ granted \in [Txs -> Identities \cup {NoIdentity}]
  /\ jar \in [Browsers -> [sid : Ids \cup {NoId}, oauth : Txs \cup {NoTx}]]
  /\ req \in [Tabs -> Req]
  /\ owner \in [Txs -> SUBSET Browsers]
  /\ minted \subseteq [tx : Txs, browser : Browsers, id : Ids]
  /\ proved \subseteq AnySubject \X Users
  /\ used \subseteq Ids

\* A provider session opens users/<u> only while a password of u has been accepted
\* for its subject (handleLoginPost, auth.go:130) and neither an unlink of u nor a
\* login of the subject as someone else has come since, whatever requests were in
\* flight across them.
AccessProved ==
  \A id \in Files : LET s == sessions[id] IN
    (s.pam # NoUser /\ s.who.subj # NoSubject) => <<s.who.subj, s.pam>> \in proved

\* Sessions whose identity came in through a non-empty allowlist (gateIdentity and
\* BindSubject, home.go:54) have a verified address and are of the one subject pinned to
\* it, for good: across browsers, password logins that move the session, reloads and
\* restarts.  It does not speak of sessions made while no allowlist was in force: those
\* carry no pin, and emailHomeID (home.go:94) lets them into their address's cubby when
\* a later SIGHUP sets PAM=no and ALLOWED_EMAILS.
PinnedSubject ==
  \A id \in Files : LET s == sessions[id] IN
    s.gated => s.who.verified /\ pins[s.who.email] = s.who.subj

\* A callback gives a session only to the browser that started the flow (oauth
\* cookie against signed state, auth.go:165).
FlowBound == \A m \in minted : owner[m.tx] = {m.browser}

\* A flow gives at most one session (takeOauthTx, server.go:582), however often the
\* callback URL is opened.
FlowOnce == \A m, n \in minted : m.tx = n.tx => m = n

\* The transaction table stays within oauthMaxTx (server.go:575), and only live
\* entries count against it.
TxBound == Cardinality(pending) <= MaxTx

\* What home.go:41 says of PAM=no: an unlinked session that reaches an email cubby
\* has a verified address.
EmailHomeVerified == \A id \in Files : EmailHome(sessions[id]) => sessions[id].who.verified
==============================================================================
