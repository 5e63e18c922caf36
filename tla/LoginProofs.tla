----------------------------- MODULE LoginProofs -----------------------------
(***************************************************************************)
(* The invariants of Login for any number of browsers, requests in flight, *)
(* session ids, transactions, subjects, users and configurations.          *)
(*                                                                         *)
(* Inv adds to the properties what is in flight: a request carries a       *)
(* browser, a transaction of that browser and, once gated, a pinned        *)
(* address; a transaction is in the table, in one request or spent; a      *)
(* session's Unix user is its subject's link, and a link is proved.        *)
(***************************************************************************)
EXTENDS Login, FiniteSetTheorems, TLAPS

Busy(r) == req[r].step \in {"gate", "create"}

\* What a request in flight carries.
ReqOK ==
  \A r \in Tabs :
    /\ req[r].step # "none" => req[r].by \in Browsers
    /\ Busy(r) => req[r].tx \in Txs
    /\ req[r].step = "auth" => req[r].user \in Users

Types == TypeOK /\ ReqOK

\* A row of links.json has a password behind it, and sessions follow the rows.
Access ==
  /\ \A s \in Subjects : links[s] # NoUser => <<s, links[s]>> \in proved
  /\ \A id \in Ids :
       sessions[id] # NoSession /\ sessions[id].pam # NoUser /\ sessions[id].who.subj # NoSubject
         => links[sessions[id].who.subj] = sessions[id].pam

IsPinned(who) ==
  who.email \in Emails /\ who.subj \in Subjects /\ who.verified /\ pins[who.email] = who.subj

\* Whatever passed the allowlist, a session or still a request, is pinned.
Pinned ==
  /\ \A id \in Ids : sessions[id] # NoSession /\ sessions[id].gated => IsPinned(sessions[id].who)
  /\ \A r \in Tabs : req[r].gated => IsPinned(req[r].who)

\* Cookies, requests and sessions belong to the browser that started the flow.
Bound ==
  /\ \A b \in Browsers : jar[b].oauth # NoTx => owner[jar[b].oauth] = {b}
  /\ \A r \in Tabs : Busy(r) => owner[req[r].tx] = {req[r].by}
  /\ FlowBound

\* A transaction is in the table, in one request, or spent for one session.
Once ==
  /\ \A r \in Tabs : Busy(r) => req[r].tx \notin pending
  /\ \A q, r \in Tabs : Busy(q) /\ Busy(r) /\ req[q].tx = req[r].tx => q = r
  /\ \A m \in minted : m.tx \notin pending
  /\ \A m \in minted, r \in Tabs : Busy(r) => m.tx # req[r].tx
  /\ FlowOnce

\* The table is finite and within its limit.
Bounded == IsFiniteSet(pending) /\ Cardinality(pending) <= MaxTx

Inv == Types /\ Access /\ Pinned /\ Bound /\ Once /\ Bounded

-----------------------------------------------------------------------------
(* Initial states *)

LEMMA InitInv == Init => Inv
<1> SUFFICES ASSUME Init PROVE Inv
  OBVIOUS
<1> USE LoginAssumption
<1>1. Types
  BY DEF Init, Types, TypeOK, ReqOK, Busy, Quiet, Req, Pam, AnySubject
<1>2. Access /\ Pinned
  BY DEF Init, Access, Pinned, Quiet, AnySubject
<1>3. Bound /\ Once
  BY DEF Init, Bound, Once, Busy, Quiet, FlowBound, FlowOnce
<1>4. Bounded
  BY FS_EmptySet DEF Init, Bounded
<1> QED BY <1>1, <1>2, <1>3, <1>4 DEF Inv

-----------------------------------------------------------------------------
(* Types *)

LEMMA NoIdentityType == NoIdentity.subj = NoSubject /\ NoIdentity.email = NoEmail
BY DEF NoIdentity

\* The parts of a typed state that the actions look at.
LEMMA Parts ==
  ASSUME TypeOK
  PROVE  /\ \A r \in Tabs : req[r] \in Req /\ req[r].who.subj \in AnySubject
         /\ \A id \in Files : sessions[id] \in Session /\ sessions[id].who.subj \in AnySubject
         /\ \A t \in Txs : granted[t].subj \in AnySubject
<1> USE LoginAssumption, NoIdentityType
<1>1. \A who \in Identities \cup {NoIdentity} : who.subj \in AnySubject
  BY DEF AnySubject
<1> QED BY <1>1 DEF TypeOK, Req, Session, Files

LEMMA QuietType ==
  /\ Quiet \in Req
  /\ \A b \in Browsers, t \in Txs : [Quiet EXCEPT !.step = "gate", !.by = b, !.tx = t] \in Req
BY DEF Quiet, Req, Pam

\* Clearing PAMUser leaves sessions.
LEMMA ClearType ==
  ASSUME TypeOK, NEW S \in SUBSET Files
  PROVE  ClearPAM(S) \in [Ids -> Session \cup {NoSession}]
<1>1. ASSUME NEW i \in S PROVE [sessions[i] EXCEPT !.pam = NoUser] \in Session
  BY <1>1, Parts DEF Session, Pam
<1> QED BY <1>1 DEF ClearPAM, TypeOK

\* Clearing PAMUser changes nothing else of a session.
LEMMA ClearKeeps ==
  ASSUME TypeOK, NEW S \in SUBSET Files
  PROVE  \A i \in Ids : ClearPAM(S)[i] # NoSession =>
           /\ sessions[i] # NoSession
           /\ ClearPAM(S)[i].gated = sessions[i].gated /\ ClearPAM(S)[i].who = sessions[i].who
BY Parts DEF ClearPAM, Session, Files

\* What the gate leaves of the request it passes.
LEMMA GateReq ==
  ASSUME TypeOK, NEW r \in Tabs, GateIdentity(r)
  PROVE  \A q \in Tabs : Busy(q)' =>
           Busy(q) /\ req'[q].tx = req[q].tx /\ req'[q].by = req[q].by
<1> DEFINE who == granted[req[r].tx]
           g == cfg.allow # {}
<1>1. req' = [req EXCEPT ![r] = [req[r] EXCEPT !.step = "create", !.who = who, !.gated = g]]
  BY DEF GateIdentity, Exchange, TypeOK
<1>2. req[r] \in Req /\ Busy(r)
  BY DEF GateIdentity, TypeOK, Busy
<1> HIDE DEF who, g
<1> QED BY <1>1, <1>2 DEF Busy, TypeOK, Req

\* A callback that goes on is of the transaction in the browser's cookie.
LEMMA CallbackReq ==
  ASSUME TypeOK, NEW r \in Tabs, NEW b \in Browsers, NEW t \in Txs, Callback(r, b, t)
  PROVE  \A q \in Tabs :
           \/ req'[q] = req[q]
           \/ /\ q = r /\ req'[q].gated = FALSE /\ req'[q].tx = t /\ req'[q].by = b
              /\ jar[b].oauth = t /\ t \in pending
<1> DEFINE new == [Quiet EXCEPT !.step = "gate", !.by = b, !.tx = t]
<1>1. new.gated = FALSE /\ new.tx = t /\ new.by = b
  BY DEF Quiet
<1>2. \/ req' = req
      \/ req' = [req EXCEPT ![r] = new] /\ SameTx(jar[b].oauth, t)
  BY DEF Callback
<1>3. SameTx(jar[b].oauth, t) => jar[b].oauth = t /\ t \in pending
  BY DEF SameTx
<1> HIDE DEF new
<1> QED BY <1>1, <1>2, <1>3 DEF TypeOK

\* Every action keeps the types.
LEMMA TypesStep ==
  ASSUME Types, [Next]_vars
  PROVE  Types'
<1> USE LoginAssumption
<1> USE DEF Types
<1>1. ASSUME UNCHANGED vars PROVE Types'
  BY <1>1 DEF vars, history, TypeOK, ReqOK, Busy
<1>2. ASSUME NEW r \in Tabs, Refuse(r) PROVE Types'
  BY ZenonT(40), <1>2, QuietType DEF Refuse, TypeOK, ReqOK, Busy, history, Quiet
<1>3. ASSUME NEW r \in Tabs, GateIdentity(r) PROVE Types'
  <2>1. pins' \in [Emails -> AnySubject]
    BY <1>3, Parts DEF GateIdentity, BindSubject, Exchange, TypeOK, ReqOK, Busy
  <2>2. req' \in [Tabs -> Req] /\ ReqOK'
    <3> DEFINE g == cfg.allow # {}
    <3>1. req[r] \in Req /\ req[r].by \in Browsers /\ req[r].tx \in Txs
      BY <1>3 DEF GateIdentity, TypeOK, ReqOK, Busy
    <3>2. granted[req[r].tx] \in Identities \cup {NoIdentity} /\ g \in BOOLEAN
      BY <3>1 DEF TypeOK
    <3>3. req' = [req EXCEPT ![r] = [req[r] EXCEPT !.step = "create", !.who = granted[req[r].tx], !.gated = g]]
      BY <1>3 DEF GateIdentity, Exchange, TypeOK
    <3> HIDE DEF g
    <3>4. [req[r] EXCEPT !.step = "create", !.who = granted[req[r].tx], !.gated = g] \in Req
      BY <3>1, <3>2 DEF Req
    <3> QED BY <3>1, <3>3, <3>4 DEF TypeOK, ReqOK, Busy, Req
  <2> QED BY <1>3, <2>1, <2>2 DEF GateIdentity, TypeOK, history
<1>4. ASSUME NEW r \in Tabs, Denied(r) PROVE Types'
  BY <1>4, QuietType DEF Denied, TypeOK, ReqOK, Busy, history, Quiet
<1>5. ASSUME NEW r \in Tabs, NEW id \in Ids, CreateSession(r, id) PROVE Types'
  <2>1. req[r] \in Req /\ links[req[r].who.subj] \in Pam /\ req[r].by \in Browsers /\ req[r].tx \in Txs
    BY <1>5, Parts DEF CreateSession, TypeOK, ReqOK, Busy
  <2>2. sessions' \in [Ids -> Session \cup {NoSession}]
    BY <1>5, <2>1 DEF CreateSession, TypeOK, Session, Req
  <2>3. minted' \subseteq [tx : Txs, browser : Browsers, id : Ids]
    BY <1>5, <2>1 DEF CreateSession, TypeOK
  <2>4. jar' \in [Browsers -> [sid : Ids \cup {NoId}, oauth : Txs \cup {NoTx}]]
    BY <1>5, <2>1 DEF CreateSession, TypeOK
  <2>5. req' \in [Tabs -> Req] /\ ReqOK'
    BY <1>5, QuietType DEF CreateSession, TypeOK, ReqOK, Busy, Quiet
  <2> QED BY <1>5, <2>2, <2>3, <2>4, <2>5 DEF CreateSession, TypeOK
<1>6. ASSUME NEW r \in Tabs, NEW id \in Ids, AcceptNew(r, id) PROVE Types'
  <2>1. req[r] \in Req /\ req[r].by \in Browsers
    BY <1>6, Parts DEF AcceptNew, ReqOK
  <2>2. sessions' \in [Ids -> Session \cup {NoSession}]
    BY <1>6, <2>1 DEF AcceptNew, TypeOK, Session, Req
  <2>3. jar' \in [Browsers -> [sid : Ids \cup {NoId}, oauth : Txs \cup {NoTx}]]
    BY <1>6, <2>1 DEF AcceptNew, TypeOK
  <2>4. req' \in [Tabs -> Req] /\ ReqOK'
    BY <1>6, QuietType DEF AcceptNew, TypeOK, ReqOK, Busy, Quiet
  <2> QED BY <1>6, <2>2, <2>3, <2>4 DEF AcceptNew, TypeOK
<1>7. ASSUME NEW r \in Tabs, NEW id \in Ids, AcceptLinked(r, id) PROVE Types'
  <2> DEFINE S == RemapClears(req[r].who.subj, req[r].user)
  <2>1. req[r] \in Req /\ req[r].by \in Browsers /\ req[r].user \in Users /\ req[r].who.subj \in AnySubject
    BY <1>7, Parts DEF AcceptLinked, ReqOK
  <2>2. S \subseteq Files
    BY DEF RemapClears, Files
  <2>3. ClearPAM(S) \in [Ids -> Session \cup {NoSession}]
    BY <2>2, ClearType
  <2>4. sessions' \in [Ids -> Session \cup {NoSession}]
    BY <1>7, <2>1, <2>3 DEF AcceptLinked, Session, Req, Pam
  <2>5. jar' \in [Browsers -> [sid : Ids \cup {NoId}, oauth : Txs \cup {NoTx}]]
    BY SMTT(30), <1>7, <2>1 DEF AcceptLinked, TypeOK
  <2>6. req' \in [Tabs -> Req] /\ ReqOK'
    BY <1>7, QuietType DEF AcceptLinked, TypeOK, ReqOK, Busy, Quiet
  <2>7. links' \in [AnySubject -> Pam] /\ proved' \subseteq AnySubject \X Users
    BY <1>7, <2>1 DEF AcceptLinked, TypeOK, Pam
  <2> QED BY <1>7, <2>4, <2>5, <2>6, <2>7 DEF AcceptLinked, TypeOK
<1>8. ASSUME NEW r \in Tabs, NEW b \in Browsers, NEW t \in Txs, Callback(r, b, t) PROVE Types'
  <2>1. pending' \subseteq Txs
    BY <1>8 DEF Callback, TakeOauthTx, TypeOK
  <2>2. req' \in [Tabs -> Req] /\ ReqOK'
    <3>1. CASE UNCHANGED req
      BY <3>1 DEF TypeOK, ReqOK, Busy
    <3>2. CASE req' = [req EXCEPT ![r] = [Quiet EXCEPT !.step = "gate", !.by = b, !.tx = t]]
      BY <3>2, QuietType DEF TypeOK, ReqOK, Busy, Quiet
    <3> QED BY <1>8, <3>1, <3>2 DEF Callback
  <2>3. jar' \in [Browsers -> [sid : Ids \cup {NoId}, oauth : Txs \cup {NoTx}]]
    BY <1>8 DEF Callback, TypeOK
  <2> QED BY <1>8, <2>1, <2>2, <2>3 DEF Callback, TypeOK, history
<1>9. ASSUME NEW r \in Tabs, NEW b \in Browsers, NEW u \in Users, LoginPost(r, b, u) PROVE Types'
  <2>1. req' \in [Tabs -> Req] /\ ReqOK'
    <3>1. CASE SessionId(b) = NoId
      BY <1>9, <3>1 DEF LoginPost, TypeOK, ReqOK, Busy, Quiet, Req, Pam
    <3>2. CASE SessionId(b) # NoId
      <4>1. SessionId(b) \in Files
        BY <3>2 DEF SessionId
      <4>2. sessions[SessionId(b)] \in Session /\ SessionId(b) \in Ids
        BY <4>1, Parts DEF Files
      <4> QED BY <1>9, <3>2, <4>2 DEF LoginPost, TypeOK, ReqOK, Busy, Quiet, Req, Pam, Session
    <3> QED BY <3>1, <3>2
  <2> QED BY <1>9, <2>1 DEF LoginPost, TypeOK, history
<1>10. ASSUME NEW b \in Browsers, LoginFull(b) PROVE Types'
  BY <1>10 DEF LoginFull, TypeOK, ReqOK, Busy, history
<1>11. ASSUME NEW b \in Browsers, Logout(b) PROVE Types'
  BY <1>11 DEF Logout, TypeOK, ReqOK, Busy, history
<1>12. ASSUME NEW b \in Browsers, NEW t \in Txs, LoginGet(b, t) PROVE Types'
  BY <1>12 DEF LoginGet, PutOauthTx, TypeOK, ReqOK, Busy
<1>13. ASSUME NEW t \in Txs, Age(t) PROVE Types'
  BY <1>13 DEF Age, TypeOK, ReqOK, Busy, history
<1>14. ASSUME NEW t \in Txs, NEW who \in Identities, Consent(t, who) PROVE Types'
  BY <1>14 DEF Consent, TypeOK, ReqOK, Busy, history
<1>15. ASSUME NEW u \in Users, Unlink(u) PROVE Types'
  <2>1. \A S \in SUBSET Files : ClearPAM(S) \in [Ids -> Session \cup {NoSession}]
    BY ClearType
  <2>2. sessions' \in [Ids -> Session \cup {NoSession}]
    BY <1>15, <2>1 DEF Unlink
  <2>3. links' \in [AnySubject -> Pam] /\ proved' \subseteq AnySubject \X Users
    BY <1>15 DEF Unlink, TypeOK, Pam
  <2> QED BY <1>15, <2>2, <2>3 DEF Unlink, TypeOK, ReqOK, Busy
<1>16. ASSUME NEW c \in Configs, Reload(c) PROVE Types'
  BY <1>16 DEF Reload, TypeOK, ReqOK, Busy, history
<1>17. ASSUME NEW c \in Configs, Restart(c) PROVE Types'
  BY <1>17, QuietType DEF Restart, TypeOK, ReqOK, Busy, history, Quiet
<1> QED
  BY <1>1, <1>2, <1>3, <1>4, <1>5, <1>6, <1>7, <1>8, <1>9, <1>10, <1>11, <1>12, <1>13, <1>14,
     <1>15, <1>16, <1>17 DEF Next

-----------------------------------------------------------------------------
(* Which steps touch what *)

LEMMA AccessFrame ==
  ASSUME [Next]_vars
  PROVE  \/ UNCHANGED <<links, sessions, proved>>
         \/ \E r \in Tabs, id \in Ids : CreateSession(r, id) \/ AcceptNew(r, id) \/ AcceptLinked(r, id)
         \/ \E b \in Browsers : Logout(b)
         \/ \E u \in Users : Unlink(u)
BY ZenonT(40) DEF Next, vars, history, Refuse, GateIdentity, Denied, Callback, LoginPost, LoginFull, LoginGet,
       Age, Consent, Reload, Restart

LEMMA PinnedFrame ==
  ASSUME [Next]_vars
  PROVE  \/ UNCHANGED <<sessions, req, pins>>
         \/ \E r \in Tabs : Refuse(r) \/ GateIdentity(r) \/ Denied(r)
         \/ \E r \in Tabs, id \in Ids : CreateSession(r, id) \/ AcceptNew(r, id) \/ AcceptLinked(r, id)
         \/ \E r \in Tabs, b \in Browsers, t \in Txs : Callback(r, b, t)
         \/ \E r \in Tabs, b \in Browsers, u \in Users : LoginPost(r, b, u)
         \/ \E b \in Browsers : Logout(b)
         \/ \E u \in Users : Unlink(u)
         \/ \E c \in Configs : Restart(c)
BY DEF Next, vars, LoginFull, LoginGet, Age, Consent, Reload

LEMMA FlowFrame ==
  ASSUME [Next]_vars
  PROVE  \/ UNCHANGED <<jar, owner, req, minted, pending>>
         \/ \E r \in Tabs : Refuse(r) \/ GateIdentity(r) \/ Denied(r)
         \/ \E r \in Tabs, id \in Ids : CreateSession(r, id) \/ AcceptNew(r, id) \/ AcceptLinked(r, id)
         \/ \E r \in Tabs, b \in Browsers, t \in Txs : Callback(r, b, t)
         \/ \E r \in Tabs, b \in Browsers, u \in Users : LoginPost(r, b, u)
         \/ \E b \in Browsers : Logout(b) \/ LoginFull(b)
         \/ \E b \in Browsers, t \in Txs : LoginGet(b, t)
         \/ \E c \in Configs : Restart(c)
BY DEF Next, vars, history, Age, Consent, Reload, Unlink

-----------------------------------------------------------------------------
(* Access *)

\* A row and the sessions of its subject change together.
LEMMA AccessStep ==
  ASSUME Types, Access, [Next]_vars
  PROVE  Access'
<1> USE LoginAssumption DEF Types
<1>1. CASE UNCHANGED <<links, sessions, proved>>
  BY <1>1 DEF Access
<1>2. ASSUME NEW r \in Tabs, NEW id \in Ids, CreateSession(r, id) PROVE Access'
  BY <1>2 DEF CreateSession, Access, TypeOK
<1>3. ASSUME NEW r \in Tabs, NEW id \in Ids, AcceptNew(r, id) PROVE Access'
  BY <1>3, NoIdentityType DEF AcceptNew, Access, TypeOK
<1>4. ASSUME NEW r \in Tabs, NEW id \in Ids, AcceptLinked(r, id) PROVE Access'
  <2> DEFINE subj == req[r].who.subj
             S == RemapClears(subj, req[r].user)
  <2>1. subj \in AnySubject /\ req[r].user \in Users
    BY <1>4, Parts DEF AcceptLinked, ReqOK
  <2>2. \A s \in AnySubject : links'[s] = IF s = subj THEN req[r].user ELSE links[s]
    BY <1>4, <2>1 DEF AcceptLinked, TypeOK
  <2>3. \A s \in Subjects : links'[s] # NoUser => <<s, links'[s]>> \in proved'
    BY <1>4, <2>1, <2>2 DEF AcceptLinked, Access, AnySubject
  <2>4. ASSUME NEW i \in Ids, sessions'[i] # NoSession, sessions'[i].pam # NoUser,
               sessions'[i].who.subj # NoSubject
        PROVE  links'[sessions'[i].who.subj] = sessions'[i].pam
    <3>1. CASE i = id
      BY <1>4, <2>1, <2>2, <3>1 DEF AcceptLinked, ClearPAM
    <3>2. CASE i # id
      <4>1. sessions'[i] = ClearPAM(S)[i] /\ i \in Files
        BY <1>4, <2>4, <3>2 DEF AcceptLinked, ClearPAM, Files, RemapClears
      <4>2. i \notin S /\ sessions'[i] = sessions[i]
        BY <2>4, <4>1, Parts DEF ClearPAM, Session
      <4>3. sessions[i].who.subj = subj => sessions[i].pam = req[r].user
        BY <2>4, <4>1, <4>2 DEF Access, RemapClears, Files
      <4> QED BY <2>1, <2>2, <2>4, <4>1, <4>2, <4>3, Parts DEF Access, Files
    <3> QED BY <3>1, <3>2
  <2> QED BY <2>3, <2>4 DEF Access
<1>5. ASSUME NEW b \in Browsers, Logout(b) PROVE Access'
  BY <1>5 DEF Logout, Access, TypeOK, history
<1>6. ASSUME NEW u \in Users, Unlink(u) PROVE Access'
  <2> DEFINE removed == {s \in AnySubject : links[s] = u}
             S == {i \in Files : /\ sessions[i].pam # NoUser
                                 /\ sessions[i].pam = u \/ sessions[i].who.subj \in removed}
  <2>1. /\ links' = [s \in AnySubject |-> IF s \in removed THEN NoUser ELSE links[s]]
        /\ sessions' = ClearPAM(S)
        /\ proved' = {x \in proved : x[2] # u}
    BY <1>6 DEF Unlink
  <2>2. \A s \in Subjects : links'[s] # NoUser => <<s, links'[s]>> \in proved'
    BY <2>1 DEF Access, AnySubject
  <2>3. ASSUME NEW i \in Ids, sessions'[i] # NoSession, sessions'[i].pam # NoUser,
               sessions'[i].who.subj # NoSubject
        PROVE  links'[sessions'[i].who.subj] = sessions'[i].pam
    <3>1. i \in Files
      BY <2>1, <2>3 DEF ClearPAM, Files
    <3>2. i \notin S /\ sessions'[i] = sessions[i]
      BY <2>1, <2>3, <3>1, Parts DEF ClearPAM, Session
    <3> QED BY <2>1, <2>3, <3>1, <3>2, Parts DEF Access, Files
  <2> QED BY <2>2, <2>3 DEF Access
<1> QED BY <1>1, <1>2, <1>3, <1>4, <1>5, <1>6, AccessFrame
-----------------------------------------------------------------------------
(* Pins *)

\* A pin is never changed, and what passes the gate is pinned.
LEMMA PinnedStep ==
  ASSUME Types, Pinned, [Next]_vars
  PROVE  Pinned'
<1> USE LoginAssumption DEF Types
<1>1. CASE UNCHANGED <<sessions, req, pins>>
  BY <1>1 DEF Pinned, IsPinned
<1>2. ASSUME NEW r \in Tabs, Refuse(r) \/ Denied(r) PROVE Pinned'
  BY <1>2 DEF Refuse, Denied, Pinned, IsPinned, TypeOK, Quiet
<1>3. ASSUME NEW r \in Tabs, GateIdentity(r) PROVE Pinned'
  <2> DEFINE who == granted[req[r].tx]
  <2>1. req[r].tx \in Txs
    BY <1>3 DEF GateIdentity, ReqOK, Busy
  <2>2. who \in Identities \cup {NoIdentity} /\ cfg.allow \subseteq Emails
    BY <2>1 DEF TypeOK, Config
  <2>3. /\ req'[r].who = who /\ req'[r].gated = (cfg.allow # {})
        /\ \A q \in Tabs \ {r} : req'[q] = req[q]
        /\ sessions' = sessions
    BY <1>3 DEF GateIdentity, Exchange, TypeOK, Req
  <2>4. cfg.allow # {} => /\ who.email \in Emails /\ who.subj \in Subjects /\ who.verified
                          /\ pins[who.email] \in {NoSubject, who.subj}
                          /\ pins' = [pins EXCEPT ![who.email] = who.subj]
    BY <1>3, <2>2, NoIdentityType DEF GateIdentity, Exchange, BindSubject
  <2>5. cfg.allow = {} => pins' = pins
    BY <1>3 DEF GateIdentity
  <2>6. \A id \in Ids : sessions'[id] # NoSession /\ sessions'[id].gated => IsPinned(sessions[id].who)'
    BY <2>3, <2>4, <2>5 DEF Pinned, IsPinned, TypeOK
  <2>7. ASSUME NEW q \in Tabs, req'[q].gated PROVE IsPinned(req[q].who)'
    <3>1. CASE q = r
      <4>1. cfg.allow # {} /\ req'[q].who = who
        BY <2>3, <2>7, <3>1
      <4>2. pins'[who.email] = who.subj
        BY <2>4, <4>1 DEF TypeOK
      <4> QED BY <2>4, <4>1, <4>2 DEF IsPinned
    <3>2. CASE q # r
      BY <2>3, <2>4, <2>5, <2>7, <3>2 DEF Pinned, IsPinned, TypeOK
    <3> QED BY <3>1, <3>2
  <2> QED BY <2>6, <2>7 DEF Pinned
<1>4. ASSUME NEW r \in Tabs, NEW id \in Ids, CreateSession(r, id) PROVE Pinned'
  BY <1>4 DEF CreateSession, Pinned, IsPinned, TypeOK, Quiet
<1>5. ASSUME NEW r \in Tabs, NEW id \in Ids, AcceptNew(r, id) PROVE Pinned'
  BY <1>5 DEF AcceptNew, Pinned, IsPinned, TypeOK, Quiet
<1>6. ASSUME NEW r \in Tabs, NEW id \in Ids, AcceptLinked(r, id) PROVE Pinned'
  <2> DEFINE S == RemapClears(req[r].who.subj, req[r].user)
  <2>1. S \subseteq Files
    BY DEF RemapClears, Files
  <2>2. \A i \in Ids : ClearPAM(S)[i] # NoSession =>
          /\ sessions[i] # NoSession
          /\ ClearPAM(S)[i].gated = sessions[i].gated /\ ClearPAM(S)[i].who = sessions[i].who
    BY <2>1, ClearKeeps
  <2>3. \A i \in Ids \ {id} : sessions'[i] # NoSession => sessions'[i] = ClearPAM(S)[i]
    BY <1>6 DEF AcceptLinked, ClearPAM
  <2>4. sessions'[id].gated = req[r].gated /\ sessions'[id].who = req[r].who
    BY <1>6 DEF AcceptLinked, ClearPAM
  <2>5. pins' = pins /\ \A q \in Tabs : req'[q] = IF q = r THEN Quiet ELSE req[q]
    BY <1>6 DEF AcceptLinked, TypeOK
  <2>6. Quiet.gated = FALSE
    BY DEF Quiet
  <2>7. \A i \in Ids : sessions'[i] # NoSession /\ sessions'[i].gated => IsPinned(sessions[i].who)'
    BY <2>2, <2>3, <2>4, <2>5 DEF Pinned, IsPinned
  <2> QED BY <2>5, <2>6, <2>7 DEF Pinned, IsPinned
<1>7. ASSUME NEW r \in Tabs, NEW b \in Browsers, NEW t \in Txs, Callback(r, b, t) PROVE Pinned'
  <2>1. \A q \in Tabs : req'[q] = req[q] \/ req'[q].gated = FALSE
    BY <1>7, CallbackReq
  <2>2. UNCHANGED <<sessions, pins>>
    BY <1>7 DEF Callback
  <2> QED BY <2>1, <2>2 DEF Pinned, IsPinned
<1>8. ASSUME NEW r \in Tabs, NEW b \in Browsers, NEW u \in Users, LoginPost(r, b, u) PROVE Pinned'
  <2>1. SessionId(b) # NoId => SessionId(b) \in Ids /\ sessions[SessionId(b)] # NoSession
    BY DEF SessionId, Files
  <2>2. req'[r].gated => IsPinned(req'[r].who)
    BY <1>8, <2>1 DEF LoginPost, Pinned, TypeOK, Quiet
  <2> QED BY <1>8, <2>2 DEF LoginPost, Pinned, IsPinned, TypeOK
<1>9. ASSUME NEW b \in Browsers, Logout(b) PROVE Pinned'
  BY <1>9 DEF Logout, Pinned, IsPinned
<1>10. ASSUME NEW u \in Users, Unlink(u) PROVE Pinned'
  <2>1. PICK S \in SUBSET Files : sessions' = ClearPAM(S)
    BY <1>10 DEF Unlink
  <2>2. \A i \in Ids : ClearPAM(S)[i] # NoSession =>
          /\ sessions[i] # NoSession
          /\ ClearPAM(S)[i].gated = sessions[i].gated /\ ClearPAM(S)[i].who = sessions[i].who
    BY ClearKeeps
  <2>3. UNCHANGED <<req, pins>>
    BY <1>10 DEF Unlink
  <2> QED BY <2>1, <2>2, <2>3 DEF Pinned, IsPinned
<1>11. ASSUME NEW c \in Configs, Restart(c) PROVE Pinned'
  BY <1>11 DEF Restart, Pinned, IsPinned, Quiet
<1> QED
  BY <1>1, <1>2, <1>3, <1>4, <1>5, <1>6, <1>7, <1>8, <1>9, <1>10, <1>11, PinnedFrame
-----------------------------------------------------------------------------
(* Flows *)

\* A transaction is given to one browser and stays its own.
LEMMA BoundStep ==
  ASSUME Types, Bound, [Next]_vars
  PROVE  Bound'
<1> USE LoginAssumption DEF Types
<1>1. CASE UNCHANGED <<jar, owner, req, minted, pending>>
  BY <1>1 DEF Bound, Busy, FlowBound
<1>2. ASSUME NEW r \in Tabs, Refuse(r) PROVE Bound'
  <2>1. UNCHANGED <<owner, minted>>
    BY <1>2 DEF Refuse, history
  <2>2. \A b \in Browsers : jar'[b].oauth # NoTx => jar'[b].oauth = jar[b].oauth
    BY <1>2 DEF Refuse, TypeOK
  <2>3. \A q \in Tabs : Busy(q)' => Busy(q) /\ req'[q] = req[q]
    BY <1>2 DEF Refuse, Busy, TypeOK, Quiet
  <2> QED BY <2>1, <2>2, <2>3 DEF Bound, FlowBound
<1>3. ASSUME NEW r \in Tabs, GateIdentity(r) \/ Denied(r) PROVE Bound'
  <2>1. /\ UNCHANGED <<jar, owner, minted>>
        /\ \A q \in Tabs : Busy(q)' => Busy(q) /\ req'[q].tx = req[q].tx /\ req'[q].by = req[q].by
    <3>1. CASE GateIdentity(r)
      BY <3>1, GateReq DEF GateIdentity, history
    <3>2. CASE Denied(r)
      BY <3>2 DEF Denied, Busy, TypeOK, history, Quiet
    <3> QED BY <1>3, <3>1, <3>2
  <2> QED BY <2>1 DEF Bound, FlowBound
<1>4. ASSUME NEW r \in Tabs, NEW id \in Ids, CreateSession(r, id) PROVE Bound'
  <2>1. owner[req[r].tx] = {req[r].by} /\ UNCHANGED owner
    BY <1>4 DEF CreateSession, Bound, Busy
  <2>2. FlowBound'
    BY <1>4, <2>1 DEF CreateSession, Bound, FlowBound
  <2>3. \A b \in Browsers : jar'[b].oauth # NoTx => jar'[b].oauth = jar[b].oauth
    BY <1>4 DEF CreateSession, TypeOK
  <2>4. \A q \in Tabs : Busy(q)' => Busy(q) /\ req'[q] = req[q]
    BY <1>4 DEF CreateSession, Busy, TypeOK, Quiet
  <2> QED BY <2>1, <2>2, <2>3, <2>4 DEF Bound
<1>5. ASSUME NEW r \in Tabs, NEW id \in Ids, AcceptNew(r, id) \/ AcceptLinked(r, id) PROVE Bound'
  <2>1. UNCHANGED <<owner, minted>>
    BY <1>5 DEF AcceptNew, AcceptLinked
  <2>2. \A b \in Browsers : jar'[b].oauth = jar[b].oauth
    BY <1>5 DEF AcceptNew, AcceptLinked, TypeOK
  <2>3. \A q \in Tabs : Busy(q)' => Busy(q) /\ req'[q] = req[q]
    BY <1>5 DEF AcceptNew, AcceptLinked, Busy, TypeOK, Quiet
  <2> QED BY <2>1, <2>2, <2>3 DEF Bound, FlowBound
<1>6. ASSUME NEW r \in Tabs, NEW b \in Browsers, NEW t \in Txs, Callback(r, b, t) PROVE Bound'
  <2>1. UNCHANGED <<owner, minted>>
    BY <1>6 DEF Callback, history
  <2>2. \A c \in Browsers : jar'[c].oauth # NoTx => jar'[c].oauth = jar[c].oauth
    BY <1>6 DEF Callback, TypeOK
  <2>3. \A q \in Tabs : Busy(q)' =>
          \/ Busy(q) /\ req'[q] = req[q]
          \/ req'[q].tx = t /\ req'[q].by = b /\ jar[b].oauth = t
    <3>1. \A q \in Tabs :
            \/ req'[q] = req[q]
            \/ /\ q = r /\ req'[q].gated = FALSE /\ req'[q].tx = t /\ req'[q].by = b
               /\ jar[b].oauth = t /\ t \in pending
      BY <1>6, CallbackReq, Zenon
    <3> QED BY <3>1 DEF Busy
  <2>4. jar[b].oauth = t => owner[t] = {b}
    BY DEF Bound
  <2> QED BY <2>1, <2>2, <2>3, <2>4 DEF Bound, FlowBound
<1>7. ASSUME NEW r \in Tabs, NEW b \in Browsers, NEW u \in Users, LoginPost(r, b, u) PROVE Bound'
  <2>1. UNCHANGED <<owner, minted, jar>>
    BY <1>7 DEF LoginPost, history
  <2>2. \A q \in Tabs : Busy(q)' => Busy(q) /\ req'[q] = req[q]
    BY <1>7 DEF LoginPost, Busy, TypeOK, Quiet
  <2> QED BY <2>1, <2>2 DEF Bound, FlowBound
<1>8. ASSUME NEW b \in Browsers, Logout(b) \/ LoginFull(b) PROVE Bound'
  <2>1. UNCHANGED <<owner, minted, req>> /\ \A c \in Browsers : jar'[c].oauth = jar[c].oauth
    BY <1>8 DEF Logout, LoginFull, TypeOK, history
  <2> QED BY <2>1 DEF Bound, FlowBound, Busy
<1>9. ASSUME NEW b \in Browsers, NEW t \in Txs, LoginGet(b, t) PROVE Bound'
  <2>1. owner[t] = {} /\ UNCHANGED <<req, minted>>
    BY <1>9 DEF LoginGet
  <2>2. \A x \in Txs : owner'[x] = IF x = t THEN {b} ELSE owner[x]
    BY <1>9 DEF LoginGet, TypeOK
  <2>3. \A c \in Browsers : jar'[c].oauth = IF c = b THEN t ELSE jar[c].oauth
    BY <1>9 DEF LoginGet, TypeOK
  <2>4. \A c \in Browsers : jar'[c].oauth # NoTx => owner'[jar'[c].oauth] = {c}
    <3>1. \A c \in Browsers \ {b} : jar[c].oauth # NoTx => jar[c].oauth \in Txs \ {t}
      <4>1. \A c \in Browsers : jar[c].oauth \in Txs \cup {NoTx}
        BY DEF TypeOK
      <4>2. \A c \in Browsers : jar[c].oauth # NoTx => owner[jar[c].oauth] = {c}
        BY DEF Bound
      <4> QED BY <2>1, <4>1, <4>2
    <3> QED BY <2>2, <2>3, <3>1 DEF Bound
  <2>5. \A r \in Tabs : Busy(r)' => owner'[req'[r].tx] = {req'[r].by}
    BY <2>1, <2>2 DEF Bound, Busy, ReqOK
  <2>6. FlowBound'
    BY <2>1, <2>2 DEF Bound, FlowBound, TypeOK
  <2> QED BY <2>4, <2>5, <2>6 DEF Bound
<1>10. ASSUME NEW c \in Configs, Restart(c) PROVE Bound'
  BY <1>10 DEF Restart, Bound, FlowBound, Busy, Quiet, history
<1> QED
  BY <1>1, <1>2, <1>3, <1>4, <1>5, <1>6, <1>7, <1>8, <1>9, <1>10, FlowFrame
\* What is taken from the table goes to one request, and from there to one session.
LEMMA OnceStep ==
  ASSUME Types, Bound, Once, [Next]_vars
  PROVE  Once'
<1> USE LoginAssumption DEF Types
<1>1. CASE UNCHANGED <<jar, owner, req, minted, pending>>
  BY <1>1 DEF Once, Busy, FlowOnce
<1>2. ASSUME UNCHANGED minted, pending' \subseteq pending,
             \A q \in Tabs : Busy(q)' => Busy(q) /\ req'[q].tx = req[q].tx
      PROVE  Once'
  BY <1>2 DEF Once, FlowOnce
<1>3. ASSUME NEW r \in Tabs, Refuse(r) \/ Denied(r) PROVE Once'
  <2>1. UNCHANGED <<minted, pending>>
    BY <1>3 DEF Refuse, Denied, history
  <2>2. \A q \in Tabs : Busy(q)' => Busy(q) /\ req'[q].tx = req[q].tx
    BY <1>3 DEF Refuse, Denied, Busy, TypeOK, Quiet
  <2> QED BY <2>1, <2>2, <1>2
<1>4. ASSUME NEW r \in Tabs, GateIdentity(r) PROVE Once'
  <2>1. UNCHANGED <<minted, pending>>
    BY <1>4 DEF GateIdentity, history
  <2>2. \A q \in Tabs : Busy(q)' => Busy(q) /\ req'[q].tx = req[q].tx
    BY <1>4, GateReq
  <2> QED BY <2>1, <2>2, <1>2
<1>5. ASSUME NEW r \in Tabs, NEW id \in Ids, CreateSession(r, id) PROVE Once'
  <2> DEFINE m == [tx |-> req[r].tx, browser |-> req[r].by, id |-> id]
  <2>1. Busy(r) /\ minted' = minted \cup {m} /\ UNCHANGED pending
    BY <1>5 DEF CreateSession, Busy
  <2>2. \A q \in Tabs : Busy(q)' => q # r /\ Busy(q) /\ req'[q] = req[q]
    BY <1>5 DEF CreateSession, Busy, TypeOK, Quiet
  <2>3. m.tx = req[r].tx
    OBVIOUS
  <2> HIDE DEF m
  <2>4. \A n \in minted : n.tx # m.tx
    BY <2>1, <2>3 DEF Once
  <2>5. FlowOnce'
    BY <2>1, <2>4 DEF Once, FlowOnce
  <2>6. \A n \in minted' : n.tx \notin pending'
    BY <2>1, <2>3 DEF Once
  <2>7. \A n \in minted', q \in Tabs : Busy(q)' => n.tx # req'[q].tx
    BY <2>1, <2>2, <2>3 DEF Once
  <2>8. /\ \A q \in Tabs : Busy(q)' => req'[q].tx \notin pending'
        /\ \A p, q \in Tabs : Busy(p)' /\ Busy(q)' /\ req'[p].tx = req'[q].tx => p = q
    BY <2>1, <2>2 DEF Once
  <2> QED BY <2>5, <2>6, <2>7, <2>8 DEF Once
<1>6. ASSUME NEW r \in Tabs, NEW id \in Ids, AcceptNew(r, id) \/ AcceptLinked(r, id) PROVE Once'
  <2>1. UNCHANGED <<minted, pending>>
    BY <1>6 DEF AcceptNew, AcceptLinked
  <2>2. \A q \in Tabs : Busy(q)' => Busy(q) /\ req'[q].tx = req[q].tx
    BY <1>6 DEF AcceptNew, AcceptLinked, Busy, TypeOK, Quiet
  <2> QED BY <2>1, <2>2, <1>2
<1>7. ASSUME NEW r \in Tabs, NEW b \in Browsers, NEW t \in Txs, Callback(r, b, t) PROVE Once'
  <2>1. UNCHANGED minted /\ pending' = pending \ {jar[b].oauth}
    BY <1>7 DEF Callback, TakeOauthTx, history
  <2>2. \A q \in Tabs :
          \/ req'[q] = req[q]
          \/ /\ q = r /\ req'[q].gated = FALSE /\ req'[q].tx = t /\ req'[q].by = b
             /\ jar[b].oauth = t /\ t \in pending
    BY <1>7, CallbackReq, Zenon
  <2>3. \A q \in Tabs : Busy(q)' =>
          \/ Busy(q) /\ req'[q] = req[q]
          \/ q = r /\ req'[q].tx = t /\ jar[b].oauth = t /\ t \in pending
    BY <2>2 DEF Busy
  <2>4. \A q \in Tabs : Busy(q)' => req'[q].tx \notin pending'
    BY <2>1, <2>3 DEF Once
  <2>5. \A p, q \in Tabs : Busy(p)' /\ Busy(q)' /\ req'[p].tx = req'[q].tx => p = q
    BY <2>3 DEF Once
  <2>6. \A n \in minted', q \in Tabs : Busy(q)' => n.tx # req'[q].tx
    BY <2>1, <2>3 DEF Once
  <2> QED BY <2>1, <2>4, <2>5, <2>6 DEF Once, FlowOnce
<1>8. ASSUME NEW r \in Tabs, NEW b \in Browsers, NEW u \in Users, LoginPost(r, b, u) PROVE Once'
  <2>1. UNCHANGED <<minted, pending>>
    BY <1>8 DEF LoginPost, history
  <2>2. \A q \in Tabs : Busy(q)' => Busy(q) /\ req'[q].tx = req[q].tx
    BY <1>8 DEF LoginPost, Busy, TypeOK, Quiet
  <2> QED BY <2>1, <2>2, <1>2
<1>9. ASSUME NEW b \in Browsers, Logout(b) \/ LoginFull(b) PROVE Once'
  <2>1. UNCHANGED <<minted, req>> /\ pending' \subseteq pending
    BY <1>9 DEF Logout, LoginFull, history
  <2> QED BY <2>1, <1>2 DEF Busy
<1>10. ASSUME NEW b \in Browsers, NEW t \in Txs, LoginGet(b, t) PROVE Once'
  <2>1. owner[t] = {} /\ UNCHANGED <<req, minted>> /\ pending' \subseteq pending \cup {t}
    BY <1>10 DEF LoginGet, PutOauthTx
  <2>2. /\ \A r \in Tabs : Busy(r) => req[r].tx # t
        /\ \A n \in minted : n.tx # t
    BY <2>1 DEF Bound, FlowBound
  <2> QED BY <2>1, <2>2 DEF Once, Busy, FlowOnce
<1>11. ASSUME NEW c \in Configs, Restart(c) PROVE Once'
  BY <1>11 DEF Restart, Once, FlowOnce, Busy, Quiet, history
<1> QED
  BY <1>1, <1>3, <1>4, <1>5, <1>6, <1>7, <1>8, <1>9, <1>10, <1>11, FlowFrame

\* Whatever enters the table finds room after the purge.
LEMMA BoundedStep ==
  ASSUME Bounded, [Next]_vars
  PROVE  Bounded'
<1> USE LoginAssumption
<1>1. ASSUME pending' \subseteq pending PROVE Bounded'
  <2>1. IsFiniteSet(pending') /\ Cardinality(pending') <= Cardinality(pending)
    BY <1>1, FS_Subset DEF Bounded
  <2>2. Cardinality(pending) \in Nat /\ Cardinality(pending') \in Nat
    BY <2>1, FS_CardinalityType DEF Bounded
  <2> QED BY <2>1, <2>2 DEF Bounded
<1>2. ASSUME NEW b \in Browsers, NEW t \in Txs, LoginGet(b, t) PROVE Bounded'
  <2> DEFINE live == pending \ aged
  <2>1. IsFiniteSet(live) /\ Cardinality(live) \in Nat
    BY FS_Subset, FS_CardinalityType DEF Bounded
  <2>2. pending' = live \cup {t} /\ Cardinality(live) < MaxTx
    BY <1>2 DEF LoginGet, PutOauthTx
  <2> HIDE DEF live
  <2>3. IsFiniteSet(pending') /\ Cardinality(pending') <= Cardinality(live) + 1
    <3>1. IsFiniteSet(live \cup {t})
          /\ Cardinality(live \cup {t}) = IF t \in live THEN Cardinality(live) ELSE Cardinality(live) + 1
      BY <2>1, FS_AddElement, Zenon
    <3> QED BY <2>1, <2>2, <3>1
  <2>4. Cardinality(pending') \in Nat
    BY <2>3, FS_CardinalityType
  <2> QED BY <2>1, <2>2, <2>3, <2>4 DEF Bounded
<1>3. \/ pending' \subseteq pending
      \/ \E b \in Browsers, t \in Txs : LoginGet(b, t)
  BY ZenonT(40) DEF Next, vars, Refuse, GateIdentity, Denied, CreateSession, AcceptNew, AcceptLinked, Callback,
         TakeOauthTx, LoginPost, LoginFull, Logout, Age, Consent, Unlink, Reload, Restart
<1> QED BY <1>1, <1>2, <1>3

-----------------------------------------------------------------------------
(* Theorems *)

\* What requests in flight carry, where each transaction is, and that sessions follow
\* links and links follow passwords, in every reachable state of the login (Login.tla).
THEOREM LoginInvariance == Spec => []Inv
<1>1. Init => Inv
  BY InitInv
<1>2. Inv /\ [Next]_vars => Inv'
  <2> SUFFICES ASSUME Inv, [Next]_vars PROVE Inv'
    OBVIOUS
  <2>1. Types'
    BY TypesStep DEF Inv
  <2>2. Access'
    BY AccessStep DEF Inv
  <2>3. Pinned'
    BY PinnedStep DEF Inv
  <2>4. Bound'
    BY BoundStep DEF Inv
  <2>5. Once'
    BY OnceStep DEF Inv
  <2>6. Bounded'
    BY BoundedStep DEF Inv
  <2> QED BY <2>1, <2>2, <2>3, <2>4, <2>5, <2>6 DEF Inv
<1> QED BY <1>1, <1>2, PTL DEF Spec

\* Every variable of the login keeps its type.
THEOREM LoginTypes == Spec => []TypeOK
<1>1. Inv => TypeOK
  BY DEF Inv, Types
<1> QED BY <1>1, LoginInvariance, PTL

\* A provider session opens users/<u> only while a password of u, accepted for its
\* subject by handleLoginPost, has not been revoked by an unlink or replaced.
THEOREM AccessIsProved == Spec => []AccessProved
<1>1. Inv => AccessProved
  <2> SUFFICES ASSUME Inv, NEW id \in Files, sessions[id].pam # NoUser, sessions[id].who.subj # NoSubject
               PROVE  <<sessions[id].who.subj, sessions[id].pam>> \in proved
    BY DEF AccessProved
  <2>1. sessions[id].who.subj \in Subjects
    BY Parts DEF Inv, Types, AnySubject
  <2> QED BY <2>1 DEF Inv, Access, Files
<1> QED BY <1>1, LoginInvariance, PTL

\* A session let in by the allowlist of gateIdentity has a verified address and is of the
\* one subject BindSubject has pinned to it; a session made without one is not covered.
THEOREM AddressesArePinned == Spec => []PinnedSubject
<1>1. Inv => PinnedSubject
  BY DEF Inv, Pinned, IsPinned, PinnedSubject, Files
<1> QED BY <1>1, LoginInvariance, PTL

\* handleCallback gives a session only to the browser that started the flow.
THEOREM FlowsAreBound == Spec => []FlowBound
<1>1. Inv => FlowBound
  BY DEF Inv, Bound
<1> QED BY <1>1, LoginInvariance, PTL

\* A flow gives at most one session, however often its callback URL is opened.
THEOREM FlowsEndOnce == Spec => []FlowOnce
<1>1. Inv => FlowOnce
  BY DEF Inv, Once
<1> QED BY <1>1, LoginInvariance, PTL

\* The transaction table of putOauthTx stays within its limit.
THEOREM TableIsBounded == Spec => []TxBound
<1>1. Inv => TxBound
  BY DEF Inv, Bounded, TxBound
<1> QED BY <1>1, LoginInvariance, PTL
==============================================================================
