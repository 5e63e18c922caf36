-------------------------------- MODULE Store --------------------------------
(***************************************************************************)
(* internal/store: the link table (links.json) and the session files that  *)
(* bootstashd's request goroutines and the bootstash CLI share on disk.    *)
(*                                                                         *)
(* Every mutation runs under withLock, a mutex plus flock on state/.lock,  *)
(* except two: GetSession removes an expired file and DeleteSession (the   *)
(* logout) removes a file without it.  A locked mutation writes several    *)
(* files, so it is several steps here: lock-free removals fall between     *)
(* them, and a failed write or a killed process leaves the rest undone.    *)
(* writeStateFile replaces a file by rename, so one file is one step.      *)
(***************************************************************************)
EXTENDS Naturals

CONSTANTS
  Procs,        \* request goroutines of bootstashd, and bootstash unlink
  Ids,          \* session ids; randomID never returns one twice
  Subjects,     \* OIDC (issuer, subject) pairs
  NoSubject,    \* the pair ("", "") of a PAM-only session
  Users,        \* Unix account names
  NoUser,       \* PAMUser == "", and a subject without a row in links.json
  NoProc, NoId, NoSession,
  Unissued,     \* SessionRights' mark of an id not drawn yet
  MaxFailures   \* bound on failed writes and killed processes

AnySubject == Subjects \cup {NoSubject}

Pam == Users \cup {NoUser}

\* The fields of store.Session that decide access.  Expires is the set expired.
Session == [subj : AnySubject, pam : Pam]

ASSUME StoreAssumption ==
  /\ NoSubject \notin Subjects
  /\ NoUser \notin Users
  /\ Unissued \notin Pam
  /\ NoProc \notin Procs
  /\ NoId \notin Ids
  /\ NoSession \notin Session
  /\ MaxFailures \in Nat

VARIABLES
  links,      \* links.json: the Unix user of each subject
  sessions,   \* sessions-<id>.json, NoSession where there is no file
  expired,    \* the ids whose Expires lies in the past
  lock,       \* who holds state/.lock
  call        \* the call each process is in, with its local variables

\* History of the ids and failures; no action reads them except failures' bound
\* and the freshness of a drawn id.
VARIABLES
  used,       \* ids randomID has returned
  rotated,    \* ids SaveLinkedSession has replaced
  loggedOut,  \* ids DeleteSession has removed
  dirty,      \* subjects whose link changed in a call that then failed
  failures    \* failed writes and killed processes so far

history == <<used, rotated, loggedOut, dirty, failures>>

vars == <<links, sessions, expired, lock, call, history>>

-----------------------------------------------------------------------------
(* Calls *)

Locked == {"setLink", "save", "remove", "unlink", "readDir", "scan", "rewrite",
           "create"}

Call == [pc   : {"idle", "auth"} \cup Locked,
         op   : {"none", "create", "link", "unlink"},
         id   : Ids \cup {NoId},          \* the id of the caller's session
         sess : Session,                  \* the caller's in-memory copy of it
         user : Pam,
         rows : [AnySubject -> Pam],      \* links.json as read under the lock
         fresh : Ids \cup {NoId},         \* the id SaveLinkedSession has drawn
         todo : SUBSET Ids,               \* ReadDir's names not yet visited
         cur  : Ids \cup {NoId},          \* the file being rewritten
         buf  : Session]                  \* what was read from it

NoLinks == [s \in AnySubject |-> NoUser]

NoSess == [subj |-> NoSubject, pam |-> NoUser]

Idle == [pc |-> "idle", op |-> "none", id |-> NoId, sess |-> NoSess, user |-> NoUser,
         rows |-> NoLinks, fresh |-> NoId, todo |-> {}, cur |-> NoId, buf |-> NoSess]

Files == {id \in Ids : sessions[id] # NoSession}

Init ==
  /\ links = NoLinks
  /\ sessions = [id \in Ids |-> NoSession]
  /\ expired = {}
  /\ lock = NoProc
  /\ call = [p \in Procs |-> Idle]
  /\ used = {}
  /\ rotated = {}
  /\ loggedOut = {}
  /\ dirty = {}
  /\ failures = 0

\* Mutant: the flock is not waited for.
AcquireWithoutFlock(p) == lock' = p

Acquire(p) == lock = NoProc /\ lock' = p

\* The locked function returns: the deferred LOCK_UN runs, and flock is dropped
\* by the kernel when the process is killed.
Return(p) ==
  /\ lock' = NoProc
  /\ call' = [call EXCEPT ![p] = Idle]

\* Ids are a bounded supply here: a call that will draw one starts only while one
\* is left.  No other process can draw it while this one holds the lock.
IdsLeft == Ids \ used # {}

\* saveSession of an id that randomID has just returned.
WriteFresh(id, s) ==
  /\ id \notin used
  /\ used' = used \cup {id}
  /\ sessions' = [sessions EXCEPT ![id] = s]

-----------------------------------------------------------------------------
(* CreateSession and CreatePAMSession *)

\* CreateSession, at the end of an OIDC login: take the lock, look the subject up.
CreateSession(p, s) ==
  /\ call[p].pc = "idle"
  /\ IdsLeft
  /\ Acquire(p)
  /\ call' = [call EXCEPT ![p] = [Idle EXCEPT !.pc = "create", !.op = "create",
                                              !.sess.subj = s, !.rows = links]]
  /\ UNCHANGED <<links, sessions, expired, history>>

\* Its second half: write the session with the user that was found.
CreateSave(p, id) ==
  /\ call[p].pc = "create"
  /\ WriteFresh(id, [subj |-> call[p].sess.subj,
                     pam |-> call[p].rows[call[p].sess.subj]])
  /\ Return(p)
  /\ UNCHANGED <<links, expired, rotated, loggedOut, dirty, failures>>

\* CreatePAMSession writes one new file and reads nothing, so it is one step.
CreatePAMSession(p, id, u) ==
  /\ call[p].pc = "idle"
  /\ lock = NoProc
  /\ WriteFresh(id, [subj |-> NoSubject, pam |-> u])
  /\ UNCHANGED <<links, expired, lock, call, rotated, loggedOut, dirty, failures>>

-----------------------------------------------------------------------------
(* The lock-free operations *)

\* Time passes Expires of an issued session.
Expire(id) ==
  /\ id \in used \ expired
  /\ expired' = expired \cup {id}
  /\ UNCHANGED <<links, sessions, lock, call, history>>

\* GetSession of a session without a user, at the start of POST /login: the
\* handler keeps the copy while PAM checks the password of u, up to 30 seconds.
GetSession(p, id, u) ==
  /\ call[p].pc = "idle"
  /\ id \in Files \ expired
  /\ sessions[id].pam = NoUser
  /\ call' = [call EXCEPT ![p] = [Idle EXCEPT !.pc = "auth", !.op = "link", !.id = id,
                                              !.sess = sessions[id], !.user = u]]
  /\ UNCHANGED <<links, sessions, expired, lock, history>>

\* PAM refuses the password, or the process dies while it waits.
Denied(p) ==
  /\ call[p].pc = "auth"
  /\ call' = [call EXCEPT ![p] = Idle]
  /\ UNCHANGED <<links, sessions, expired, lock, history>>

\* GetSession of an expired session removes its file.
GetExpired(id) ==
  /\ id \in Files \cap expired
  /\ sessions' = [sessions EXCEPT ![id] = NoSession]
  /\ UNCHANGED <<links, expired, lock, call, history>>

\* Logout: GetSession finds the session, DeleteSession removes the file.
DeleteSession(id) ==
  /\ id \in Files \ expired
  /\ sessions' = [sessions EXCEPT ![id] = NoSession]
  /\ loggedOut' = loggedOut \cup {id}
  /\ UNCHANGED <<links, expired, lock, call, used, rotated, dirty, failures>>

-----------------------------------------------------------------------------
(* SaveLinkedSession *)

\* The password was accepted: take the lock and read links.json (prev is
\* rows[sess.subj]).
SaveLinkedSession(p) ==
  /\ call[p].pc = "auth"
  /\ IdsLeft
  /\ Acquire(p)
  /\ call' = [call EXCEPT ![p] = [@ EXCEPT !.pc = "setLink", !.rows = links]]
  /\ UNCHANGED <<links, sessions, expired, history>>

\* Write the row before the session.
SetLink(p) ==
  /\ call[p].pc = "setLink"
  /\ links' = [call[p].rows EXCEPT ![call[p].sess.subj] = call[p].user]
  /\ call' = [call EXCEPT ![p] = [@ EXCEPT !.pc = "save"]]
  /\ UNCHANGED <<sessions, expired, lock, history>>

\* Mutant: the session keeps its id across the password login.
SaveInPlace(p, id) ==
  /\ call[p].pc = "save"
  /\ id \notin used
  /\ sessions' = [sessions EXCEPT ![call[p].id] = [call[p].sess EXCEPT !.pam = call[p].user]]
  /\ call' = [call EXCEPT ![p] = [@ EXCEPT !.pc = "remove", !.fresh = id]]
  /\ UNCHANGED <<used, links, expired, lock, rotated, loggedOut, dirty, failures>>

\* Write the session under a new id.  Expires is copied from the old one.
SaveRotated(p, id) ==
  /\ call[p].pc = "save"
  /\ WriteFresh(id, [call[p].sess EXCEPT !.pam = call[p].user])
  /\ expired' = IF call[p].id \in expired THEN expired \cup {id} ELSE expired
  /\ call' = [call EXCEPT ![p] = [@ EXCEPT !.pc = "remove", !.fresh = id]]
  /\ UNCHANGED <<links, lock, rotated, loggedOut, dirty, failures>>

\* The previous user of the subject, "" when there was no row.
Prev(p) == call[p].rows[call[p].sess.subj]

\* Mutant: the other sessions of the subject are left alone.
RemoveAndKeepOthers(p) ==
  /\ call[p].pc = "remove"
  /\ sessions' = [sessions EXCEPT ![call[p].id] = NoSession]
  /\ rotated' = rotated \cup {call[p].id}
  /\ Return(p)
  /\ UNCHANGED <<links, expired, used, loggedOut, dirty, failures>>

\* Mutant: the old file stays.
RemoveNothing(p) ==
  /\ call[p].pc = "remove"
  /\ rotated' = rotated \cup {call[p].id}
  /\ Return(p)
  /\ UNCHANGED <<links, sessions, expired, used, loggedOut, dirty, failures>>

\* Remove the old file; when the mapping changed, go on to the subject's other
\* sessions, otherwise return.
RemoveOld(p) ==
  /\ call[p].pc = "remove"
  /\ sessions' = [sessions EXCEPT ![call[p].id] = NoSession]
  /\ rotated' = rotated \cup {call[p].id}
  /\ IF Prev(p) \notin {NoUser, call[p].user}
       THEN call' = [call EXCEPT ![p] = [@ EXCEPT !.pc = "readDir"]] /\ UNCHANGED lock
       ELSE Return(p)
  /\ UNCHANGED <<links, expired, used, loggedOut, dirty, failures>>

-----------------------------------------------------------------------------
(* UnlinkPAM *)

\* bootstash unlink u: take the lock and read links.json.
UnlinkPAM(p, u) ==
  /\ call[p].pc = "idle"
  /\ Acquire(p)
  /\ call' = [call EXCEPT ![p] = [Idle EXCEPT !.pc = "unlink", !.op = "unlink",
                                              !.user = u, !.rows = links]]
  /\ UNCHANGED <<links, sessions, expired, history>>

\* The subjects whose rows unlink drops.
Removed(p) == {s \in AnySubject : call[p].rows[s] = call[p].user}

\* Write links.json without the rows of the user, then go on to the sessions.
DropLinks(p) ==
  /\ call[p].pc = "unlink"
  /\ links' = [s \in AnySubject |-> IF s \in Removed(p) THEN NoUser ELSE call[p].rows[s]]
  /\ call' = [call EXCEPT ![p] = [@ EXCEPT !.pc = "readDir"]]
  /\ UNCHANGED <<sessions, expired, lock, history>>

-----------------------------------------------------------------------------
(* clearMatchingSessionsLocked *)

\* ReadDir: the session files of this moment, to be visited in name order; ids
\* are random, so the order is any.
ReadDir(p) ==
  /\ call[p].pc = "readDir"
  /\ call' = [call EXCEPT ![p] = [@ EXCEPT !.pc = "scan", !.todo = Files]]
  /\ UNCHANGED <<links, sessions, expired, lock, history>>

\* Mutant: unlink only follows the rows it removed.
MatchBySubjectOnly(p, id, s) ==
  /\ s.pam # NoUser
  /\ IF call[p].op = "unlink"
       THEN s.subj \in Removed(p)
       ELSE id # call[p].fresh /\ s.subj = call[p].sess.subj

\* The match closures of clearSessionPAMLocked and clearSubjectPAMLocked.
Match(p, id, s) ==
  /\ s.pam # NoUser
  /\ IF call[p].op = "unlink"
       THEN s.pam = call[p].user \/ s.subj \in Removed(p)
       ELSE id # call[p].fresh /\ s.subj = call[p].sess.subj

\* The subjects whose link this call has written already.
Written(p) ==
  IF call[p].op = "unlink" THEN Removed(p)
  ELSE IF call[p].op = "link" THEN {call[p].sess.subj} ELSE {}

\* Mutant: ReadFile's error is dropped and the empty result is processed.
ScanUnchecked(p, id) ==
  /\ call[p].pc = "scan"
  /\ id \in call[p].todo
  /\ call' = [call EXCEPT ![p] =
                 [@ EXCEPT !.pc = "rewrite", !.cur = id, !.buf = sessions[id]]]
  /\ UNCHANGED <<links, sessions, expired, lock, history>>

\* Read the next file.  One that does not match is passed over.
Scan(p, id) ==
  /\ call[p].pc = "scan"
  /\ id \in call[p].todo \cap Files
  /\ call' = [call EXCEPT ![p] =
       IF Match(p, id, sessions[id])
         THEN [@ EXCEPT !.pc = "rewrite", !.cur = id, !.buf = sessions[id]]
         ELSE [@ EXCEPT !.todo = call[p].todo \ {id}]]
  /\ UNCHANGED <<links, sessions, expired, lock, history>>

\* The file has gone since ReadDir: ReadFile's error ends the whole call.
ScanMissing(p, id) ==
  /\ call[p].pc = "scan"
  /\ id \in call[p].todo \ Files
  /\ dirty' = dirty \cup Written(p)
  /\ Return(p)
  /\ UNCHANGED <<links, sessions, expired, used, rotated, loggedOut, failures>>

\* Write back what was read, without its user.
Rewrite(p) ==
  /\ call[p].pc = "rewrite"
  /\ sessions' = [sessions EXCEPT ![call[p].cur] = [call[p].buf EXCEPT !.pam = NoUser]]
  /\ call' = [call EXCEPT ![p] = [@ EXCEPT !.pc = "scan", !.cur = NoId, !.buf = NoSess,
                                           !.todo = call[p].todo \ {call[p].cur}]]
  /\ UNCHANGED <<links, expired, lock, history>>

\* Every file has been visited: the call returns nil.
ScanDone(p) ==
  /\ call[p].pc = "scan"
  /\ call[p].todo = {}
  /\ Return(p)
  /\ UNCHANGED <<links, sessions, expired, history>>

-----------------------------------------------------------------------------
\* A write fails, or the process is killed, between two steps of a locked call.
\* No file changes and the lock is released; nothing done so far is undone.
Fail(p) ==
  /\ call[p].pc \in Locked
  /\ failures < MaxFailures
  /\ failures' = failures + 1
  /\ dirty' = IF call[p].pc \in {"setLink", "unlink", "create"} THEN dirty
              ELSE dirty \cup Written(p)
  /\ Return(p)
  /\ UNCHANGED <<links, sessions, expired, used, rotated, loggedOut>>

\* The steps of a process that holds the lock.
Step(p) ==
  \/ \E id \in Ids : CreateSave(p, id) \/ SaveRotated(p, id) \/ Scan(p, id)
                     \/ ScanMissing(p, id)
  \/ SetLink(p) \/ RemoveOld(p) \/ DropLinks(p) \/ ReadDir(p) \/ Rewrite(p) \/ ScanDone(p)

Next ==
  \/ \E p \in Procs :
       \/ Step(p)
       \/ SaveLinkedSession(p)
       \/ Denied(p)
       \/ Fail(p)
       \/ \E s \in Subjects : CreateSession(p, s)
       \/ \E u \in Users : UnlinkPAM(p, u)
       \/ \E id \in Ids, u \in Users : CreatePAMSession(p, id, u) \/ GetSession(p, id, u)
  \/ \E id \in Ids : Expire(id) \/ GetExpired(id) \/ DeleteSession(id)

Spec == Init /\ [][Next]_vars

-----------------------------------------------------------------------------
(* Properties *)

\* Every variable keeps its type: no call leaves a malformed session, link or
\* local copy behind.
TypeOK ==
  /\ links \in [AnySubject -> Pam]
  /\ sessions \in [Ids -> Session \cup {NoSession}]
  /\ expired \in SUBSET Ids
  /\ lock \in Procs \cup {NoProc}
  /\ call \in [Procs -> Call]
  /\ used \in SUBSET Ids
  /\ rotated \in SUBSET Ids
  /\ loggedOut \in SUBSET Ids
  /\ dirty \in SUBSET AnySubject
  /\ failures \in 0..MaxFailures

\* No lost update of links.json (withLock, store.go:218): between a process's read
\* of the table and its write, the daemon and the CLI included, the file still
\* holds what was read.
LinkRowsFresh ==
  \A p \in Procs :
    call[p].pc \in {"setLink", "unlink", "create"} => call[p].rows = links

\* UnlinkPAM is complete when it reports success (store.go:373): no row and no
\* session file names the user, whatever was logged out, expired, half done by an
\* earlier failed call or waiting for a password meanwhile.
UnlinkComplete ==
  \A p \in Procs :
    (call[p].op = "unlink" /\ call[p].pc = "scan" /\ call[p].todo = {}) =>
      /\ \A s \in AnySubject : links[s] # call[p].user
      /\ \A id \in Files : sessions[id].pam # call[p].user

Agrees(id) == sessions[id].pam # NoUser => links[sessions[id].subj] = sessions[id].pam

\* Sessions and links agree whenever the lock is free (store.go:313): an OIDC
\* session with a user has the user its subject is linked to, unless a call that
\* changed the subject's row failed half way.
Coherent ==
  lock = NoProc =>
    \A id \in Files : sessions[id].subj \notin dirty \cup {NoSubject} => Agrees(id)

\* A rotated session id is dead for good (SaveLinkedSession, store.go:314): once
\* the old file is removed no later step of any process writes it again.
RotatedGone == rotated \cap Files = {}

\* The Unix user an id stands for on disk.
RightsOf(id) ==
  IF id \notin used THEN Unissued
  ELSE IF sessions[id] = NoSession THEN NoUser ELSE sessions[id].pam

RightsMap == [id \in Ids |-> RightsOf(id)]

Rights == INSTANCE SessionRights WITH rights <- RightsMap

\* The store implements SessionRights: a session id gets its user when it is first
\* written, never later, and an id that lost it by any path never gets one back.
RightsOnlyShrink == Rights!Spec

\* What DEVELOPERS.md:171 says of session mutations: a logout cannot interleave
\* with a revocation.  A session file removed by a logout would then stay removed.
LogoutFinal == loggedOut \cap Files = {}

\* What store.go:315 says of SaveLinkedSession: when the mapping changes to a
\* different Unix name, the subject's other sessions lose their user.
RemapRevokesOthers ==
  lock = NoProc =>
    \A id \in Files :
      (sessions[id].subj # NoSubject /\ links[sessions[id].subj] # NoUser) => Agrees(id)
=============================================================================
