----------------------------- MODULE StoreProofs -----------------------------
(***************************************************************************)
(* Proofs about Store for any number of processes, sessions, subjects and  *)
(* users.  The inductive invariant Inv adds to the properties what links   *)
(* them: the lock and the program counters, which ids a call may still     *)
(* write, and how far a revocation has come.                               *)
(***************************************************************************)
EXTENDS Store, TLAPS

\* The holder of the lock is the process inside a locked call.
LockInv == \A p \in Procs : call[p].pc \in Locked <=> lock = p

\* What a call works on, by its program counter.
CallInv ==
  \A p \in Procs :
    /\ call[p].pc = "create" => call[p].op = "create"
    /\ call[p].pc \in {"auth", "setLink", "save", "remove"} => call[p].op = "link"
    /\ call[p].pc = "unlink" => call[p].op = "unlink"
    /\ call[p].pc \in {"readDir", "scan", "rewrite"} => call[p].op \in {"link", "unlink"}
    /\ call[p].op \in {"link", "unlink"} => call[p].user \in Users
    /\ call[p].pc = "idle" => call[p].op = "none"

\* Ids that a file, a call or the history names have been drawn.
UsedInv ==
  /\ Files \subseteq used
  /\ rotated \subseteq used
  /\ \A p \in Procs :
       /\ call[p].op = "link" => call[p].id \in used
       /\ call[p].pc \in {"scan", "rewrite"} => call[p].todo \subseteq used
       /\ call[p].pc = "rewrite" => call[p].cur \in used

\* No scan has a rotated id left to write.
RotatedInv ==
  /\ RotatedGone
  /\ \A p \in Procs :
       /\ call[p].pc \in {"scan", "rewrite"} => call[p].todo \cap rotated = {}
       /\ call[p].pc = "rewrite" => call[p].cur \notin rotated

\* How far an unlink has come: the rows are gone once they are written, and the
\* sessions that still name the user have yet to be visited.
UnlinkInv ==
  \A p \in Procs : call[p].op = "unlink" =>
    /\ call[p].pc \in {"readDir", "scan", "rewrite"} =>
         \A s \in AnySubject : links[s] # call[p].user
    /\ call[p].pc \in {"scan", "rewrite"} =>
         \A id \in Files : sessions[id].pam = call[p].user => id \in call[p].todo

\* The row that a SaveLinkedSession past its write has set.
LinkedInv ==
  \A p \in Procs :
    (call[p].op = "link" /\ call[p].pc \in Locked \ {"setLink"}) =>
      /\ links[call[p].sess.subj] = call[p].user
      /\ call[p].pc # "save" =>
           (call[p].fresh \in Files =>
              sessions[call[p].fresh].pam \in {NoUser, call[p].user})

\* A session that the call of p has yet to revoke.
Pending(p, id) ==
  /\ call[p].pc \in {"save", "remove", "readDir", "scan", "rewrite"}
  /\ sessions[id].subj \in Written(p)
  /\ call[p].op = "link" => sessions[id].pam = Prev(p)
  /\ call[p].pc \in {"scan", "rewrite"} => id \in call[p].todo

\* Sessions and links agree, or the holder of the lock is on its way to them.
CoherentInv ==
  \A id \in Files :
    sessions[id].subj \notin dirty \cup {NoSubject} =>
      Agrees(id) \/ \E p \in Procs : Pending(p, id)

Inv ==
  /\ TypeOK
  /\ LockInv
  /\ CallInv
  /\ UsedInv
  /\ RotatedInv
  /\ LinkRowsFresh
  /\ UnlinkInv
  /\ LinkedInv
  /\ CoherentInv
-----------------------------------------------------------------------------

\* The record of a process outside any call is well typed.
LEMMA IdleType == Idle \in Call
  BY DEF Idle, Call, NoLinks, NoSess, Session, AnySubject, Pam

\* Every step of every operation keeps the types (TypeOK).
LEMMA TypeStep == TypeOK /\ CallInv /\ UsedInv /\ [Next]_vars => TypeOK'
<1> SUFFICES ASSUME TypeOK, CallInv, UsedInv, [Next]_vars PROVE TypeOK'
  OBVIOUS
<1> USE StoreAssumption, IdleType
<1>1. CASE UNCHANGED vars
  BY <1>1 DEF TypeOK, vars, history
<1>2. ASSUME NEW p \in Procs, NEW s \in Subjects, CreateSession(p, s) PROVE TypeOK'
  BY ZenonT(40), <1>2 DEF TypeOK, CreateSession, Acquire, history, Call, Locked, Idle, Session,
     AnySubject, Pam
<1>3. ASSUME NEW p \in Procs, NEW id \in Ids, CreateSave(p, id) PROVE TypeOK'
  BY <1>3 DEF TypeOK, CreateSave, WriteFresh, Return, Call, Session
<1>4. ASSUME NEW p \in Procs, NEW id \in Ids, NEW u \in Users, CreatePAMSession(p, id, u)
      PROVE  TypeOK'
  BY <1>4 DEF TypeOK, CreatePAMSession, WriteFresh, Session, AnySubject, Pam
<1>5. ASSUME NEW id \in Ids, Expire(id) \/ GetExpired(id) \/ DeleteSession(id) PROVE TypeOK'
  BY <1>5 DEF TypeOK, Expire, GetExpired, DeleteSession, history
<1>6. ASSUME NEW p \in Procs, NEW id \in Ids, NEW u \in Users, GetSession(p, id, u)
      PROVE  TypeOK'
  <2>1. sessions[id] \in Session
    BY <1>6 DEF TypeOK, GetSession, Files
  <2>2. QED
    BY <1>6, <2>1 DEF TypeOK, GetSession, history, Call, Locked, Idle, Pam
<1>7. ASSUME NEW p \in Procs, Denied(p) PROVE TypeOK'
  BY <1>7 DEF TypeOK, Denied, history
<1>8. ASSUME NEW p \in Procs, SaveLinkedSession(p) PROVE TypeOK'
  <2>1. call[p] \in Call
    BY DEF TypeOK
  <2>2. [call[p] EXCEPT !.pc = "setLink", !.rows = links] \in Call
    BY <2>1 DEF TypeOK, Call, Locked
  <2>3. call' \in [Procs -> Call]
    BY <1>8, <2>2 DEF TypeOK, SaveLinkedSession, Acquire
  <2>4. QED
    BY <1>8, <2>3 DEF TypeOK, SaveLinkedSession, Acquire, history
<1>9. ASSUME NEW p \in Procs, SetLink(p) PROVE TypeOK'
  <2>1. call[p] \in Call
    BY DEF TypeOK
  <2>2. [call[p] EXCEPT !.pc = "save"] \in Call
    BY <2>1 DEF TypeOK, Call, Locked
  <2>3. call' \in [Procs -> Call]
    BY <1>9, <2>2 DEF TypeOK, SetLink
  <2>4. links' \in [AnySubject -> Pam]
    BY <1>9, <2>1 DEF SetLink, Call, Session, Pam
  <2>5. QED
    BY <1>9, <2>3, <2>4 DEF TypeOK, SetLink, history
<1>10. ASSUME NEW p \in Procs, NEW id \in Ids, SaveRotated(p, id) PROVE TypeOK'
  <2>1. [call[p].sess EXCEPT !.pam = call[p].user] \in Session
    BY DEF TypeOK, Call, Session
  <2>2. sessions' \in [Ids -> Session \cup {NoSession}] /\ expired' \in SUBSET Ids /\ used' \in SUBSET Ids
    BY <1>10, <2>1 DEF TypeOK, SaveRotated, WriteFresh
  <2>3. call' \in [Procs -> Call]
    <3>1. call[p] \in Call
      BY DEF TypeOK
    <3>2. [call[p] EXCEPT !.pc = "remove", !.fresh = id] \in Call
      BY <3>1 DEF Call, Locked
    <3>3. QED
      BY <1>10, <3>2 DEF TypeOK, SaveRotated
  <2>4. QED
    BY <1>10, <2>2, <2>3 DEF TypeOK, SaveRotated
<1>11. ASSUME NEW p \in Procs, RemoveOld(p) PROVE TypeOK'
  <2>1. call[p] \in Call
    BY DEF TypeOK
  <2>2. [call[p] EXCEPT !.pc = "readDir"] \in Call
    BY <2>1 DEF Call, Locked
  <2>3. call' \in [Procs -> Call] /\ lock' \in Procs \cup {NoProc}
    BY <1>11, <2>2 DEF TypeOK, RemoveOld, Return
  <2>4. call[p].id \in Ids
    BY <1>11 DEF RemoveOld, CallInv, UsedInv, TypeOK
  <2>5. QED
    BY <1>11, <2>3, <2>4 DEF TypeOK, RemoveOld
<1>12. ASSUME NEW p \in Procs, NEW u \in Users, UnlinkPAM(p, u) PROVE TypeOK'
  BY <1>12 DEF TypeOK, UnlinkPAM, Acquire, history, Call, Locked, Idle, Pam
<1>13. ASSUME NEW p \in Procs, DropLinks(p) PROVE TypeOK'
  <2>1. call[p] \in Call
    BY DEF TypeOK
  <2>2. [call[p] EXCEPT !.pc = "readDir"] \in Call
    BY <2>1 DEF TypeOK, Call, Locked
  <2>3. call' \in [Procs -> Call]
    BY <1>13, <2>2 DEF TypeOK, DropLinks
  <2>4. links' \in [AnySubject -> Pam]
    BY <1>13, <2>1 DEF DropLinks, Call, Session, Pam
  <2>5. QED
    BY <1>13, <2>3, <2>4 DEF TypeOK, DropLinks, history
<1>14. ASSUME NEW p \in Procs, ReadDir(p) PROVE TypeOK'
  <2>1. call[p] \in Call
    BY DEF TypeOK
  <2>2. [call[p] EXCEPT !.pc = "scan", !.todo = Files] \in Call
    BY <2>1 DEF TypeOK, Call, Locked, Files
  <2>3. call' \in [Procs -> Call]
    BY <1>14, <2>2 DEF TypeOK, ReadDir
  <2>4. QED
    BY <1>14, <2>3 DEF TypeOK, ReadDir, history
<1>15. ASSUME NEW p \in Procs, NEW id \in Ids, Scan(p, id) PROVE TypeOK'
  <2>1. sessions[id] \in Session
    BY <1>15 DEF TypeOK, Scan, Files
  <2>2. call[p] \in Call
    BY DEF TypeOK
  <2>3. [call[p] EXCEPT !.pc = "rewrite", !.cur = id, !.buf = sessions[id]] \in Call
    BY <2>1, <2>2 DEF Call, Locked
  <2>4. [call[p] EXCEPT !.todo = call[p].todo \ {id}] \in Call
    BY <2>2 DEF Call, Locked
  <2>5. call' \in [Procs -> Call]
    BY <1>15, <2>3, <2>4 DEF TypeOK, Scan
  <2>6. QED
    BY <1>15, <2>5 DEF TypeOK, Scan, history
<1>16. ASSUME NEW p \in Procs, NEW id \in Ids, ScanMissing(p, id) PROVE TypeOK'
  <2>1. Written(p) \subseteq AnySubject
    BY DEF Written, Removed, TypeOK, Call, Session
  <2>2. QED
    BY <1>16, <2>1 DEF TypeOK, ScanMissing, Return
<1>17. ASSUME NEW p \in Procs, Rewrite(p) PROVE TypeOK'
  <2>1. [call[p].buf EXCEPT !.pam = NoUser] \in Session
    BY DEF TypeOK, Call, Session, Pam
  <2>2. sessions' \in [Ids -> Session \cup {NoSession}]
    BY <1>17, <2>1 DEF TypeOK, Rewrite
  <2>3. call' \in [Procs -> Call]
    <3>1. call[p] \in Call /\ NoSess \in Session
      BY DEF TypeOK, NoSess, Session, AnySubject, Pam
    <3>2. [call[p] EXCEPT !.pc = "scan", !.cur = NoId, !.buf = NoSess,
                          !.todo = call[p].todo \ {call[p].cur}] \in Call
      BY <3>1 DEF Call, Locked
    <3>3. QED
      BY <1>17, <3>2 DEF TypeOK, Rewrite
  <2>4. QED
    BY <1>17, <2>2, <2>3 DEF TypeOK, Rewrite, history
<1>18. ASSUME NEW p \in Procs, ScanDone(p) PROVE TypeOK'
  BY <1>18 DEF TypeOK, ScanDone, Return, history
<1>19. ASSUME NEW p \in Procs, Fail(p) PROVE TypeOK'
  <2>1. Written(p) \subseteq AnySubject
    BY DEF Written, Removed, TypeOK, Call, Session
  <2>2. failures' \in 0..MaxFailures
    BY <1>19 DEF TypeOK, Fail
  <2>3. QED
    BY <1>19, <2>1, <2>2 DEF TypeOK, Fail, Return
<1>20. QED
  BY <1>1, <1>2, <1>3, <1>4, <1>5, <1>6, <1>7, <1>8, <1>9, <1>10, <1>11, <1>12, <1>13,
     <1>14, <1>15, <1>16, <1>17, <1>18, <1>19 DEF Next, Step

\* When the mapping changed, RemoveOld moves its own call on to the scan and
\* touches nothing else but the old file.
LEMMA RemoveOldGoesOn ==
  ASSUME TypeOK, NEW p \in Procs, RemoveOld(p), Prev(p) \notin {NoUser, call[p].user}
  PROVE  /\ call[p].pc = "remove" /\ call'[p].pc = "readDir"
         /\ call'[p].op = call[p].op /\ call'[p].id = call[p].id
         /\ call'[p].sess = call[p].sess /\ call'[p].user = call[p].user
         /\ call'[p].rows = call[p].rows /\ call'[p].fresh = call[p].fresh
         /\ \A q \in Procs : q # p => call'[q] = call[q]
         /\ sessions' = [sessions EXCEPT ![call[p].id] = NoSession]
         /\ rotated' = rotated \cup {call[p].id}
         /\ UNCHANGED <<lock, links, used, dirty>>
  BY DEF RemoveOld, TypeOK, Call

\* Only the holder is inside a locked call, after every step.
LEMMA LockStep ==
  ASSUME TypeOK, LockInv, [Next]_vars
  PROVE  LockInv'
<1> USE StoreAssumption
<1>1. CASE UNCHANGED vars
  BY <1>1 DEF vars, history, LockInv
<1>2. ASSUME NEW p \in Procs, NEW s \in Subjects, CreateSession(p, s) PROVE LockInv'
  BY <1>2 DEF CreateSession, Acquire, history, Idle, LockInv, TypeOK, Locked, Call
<1>3. ASSUME NEW p \in Procs, NEW id \in Ids, CreateSave(p, id) PROVE LockInv'
  BY <1>3 DEF CreateSave, WriteFresh, Return, Idle, LockInv, TypeOK, Locked, Call
<1>4. ASSUME NEW p \in Procs, NEW id \in Ids, NEW u \in Users, CreatePAMSession(p, id, u) PROVE LockInv'
  BY <1>4 DEF CreatePAMSession, WriteFresh, LockInv, TypeOK, Locked, Call
<1>5. ASSUME NEW id \in Ids, Expire(id) PROVE LockInv'
  BY <1>5 DEF Expire, history, LockInv, TypeOK, Locked, Call
<1>6. ASSUME NEW id \in Ids, GetExpired(id) PROVE LockInv'
  BY <1>6 DEF GetExpired, history, LockInv, TypeOK, Locked, Call
<1>7. ASSUME NEW id \in Ids, DeleteSession(id) PROVE LockInv'
  BY <1>7 DEF DeleteSession, LockInv, TypeOK, Locked, Call
<1>8. ASSUME NEW p \in Procs, NEW id \in Ids, NEW u \in Users, GetSession(p, id, u) PROVE LockInv'
  BY <1>8 DEF GetSession, history, Idle, LockInv, TypeOK, Locked, Call
<1>9. ASSUME NEW p \in Procs, Denied(p) PROVE LockInv'
  BY <1>9 DEF Denied, history, Idle, LockInv, TypeOK, Locked, Call
<1>10. ASSUME NEW p \in Procs, SaveLinkedSession(p) PROVE LockInv'
  BY <1>10 DEF SaveLinkedSession, Acquire, history, LockInv, TypeOK, Locked, Call
<1>11. ASSUME NEW p \in Procs, SetLink(p) PROVE LockInv'
  BY <1>11 DEF SetLink, history, LockInv, TypeOK, Locked, Call
<1>12. ASSUME NEW p \in Procs, NEW id \in Ids, SaveRotated(p, id) PROVE LockInv'
  BY <1>12 DEF SaveRotated, WriteFresh, LockInv, TypeOK, Locked, Call
<1>13. ASSUME NEW p \in Procs, RemoveOld(p) PROVE LockInv'
  <2>1. CASE Prev(p) \notin {NoUser, call[p].user}
    BY <1>13, <2>1, RemoveOldGoesOn DEF LockInv, TypeOK, Locked, Call
  <2>2. CASE Prev(p) \in {NoUser, call[p].user}
    BY <1>13, <2>2 DEF RemoveOld, Return, Idle, LockInv, TypeOK, Locked, Call
  <2>3. QED
    BY <2>1, <2>2
<1>14. ASSUME NEW p \in Procs, NEW u \in Users, UnlinkPAM(p, u) PROVE LockInv'
  BY <1>14 DEF UnlinkPAM, Acquire, history, Idle, LockInv, TypeOK, Locked, Call
<1>15. ASSUME NEW p \in Procs, DropLinks(p) PROVE LockInv'
  BY <1>15 DEF DropLinks, history, LockInv, TypeOK, Locked, Call
<1>16. ASSUME NEW p \in Procs, ReadDir(p) PROVE LockInv'
  BY <1>16 DEF ReadDir, history, LockInv, TypeOK, Locked, Call
<1>17. ASSUME NEW p \in Procs, NEW id \in Ids, Scan(p, id) PROVE LockInv'
  BY <1>17 DEF Scan, history, LockInv, TypeOK, Locked, Call
<1>18. ASSUME NEW p \in Procs, NEW id \in Ids, ScanMissing(p, id) PROVE LockInv'
  BY <1>18 DEF ScanMissing, Return, Idle, LockInv, TypeOK, Locked, Call
<1>19. ASSUME NEW p \in Procs, Rewrite(p) PROVE LockInv'
  BY <1>19 DEF Rewrite, history, LockInv, TypeOK, Locked, Call
<1>20. ASSUME NEW p \in Procs, ScanDone(p) PROVE LockInv'
  BY <1>20 DEF ScanDone, Return, Idle, history, LockInv, TypeOK, Locked, Call
<1>21. ASSUME NEW p \in Procs, Fail(p) PROVE LockInv'
  BY <1>21 DEF Fail, Return, Idle, LockInv, TypeOK, Locked, Call
<1>22. QED
  BY <1>1, <1>2, <1>3, <1>4, <1>5, <1>6, <1>7, <1>8, <1>9, <1>10, <1>11, <1>12, <1>13,
     <1>14, <1>15, <1>16, <1>17, <1>18, <1>19, <1>20, <1>21
  DEF Next, Step

\* A call's operation fits its program counter, after every step.
LEMMA CallStep ==
  ASSUME TypeOK, CallInv, [Next]_vars
  PROVE  CallInv'
<1>1. CASE UNCHANGED vars
  BY <1>1 DEF vars, history, CallInv
<1>2. ASSUME NEW p \in Procs, NEW s \in Subjects, CreateSession(p, s) PROVE CallInv'
  BY <1>2 DEF CreateSession, Acquire, history, Idle, CallInv, TypeOK
<1>3. ASSUME NEW p \in Procs, NEW id \in Ids, CreateSave(p, id) PROVE CallInv'
  BY <1>3 DEF CreateSave, WriteFresh, Return, Idle, CallInv, TypeOK
<1>4. ASSUME NEW p \in Procs, NEW id \in Ids, NEW u \in Users, CreatePAMSession(p, id, u) PROVE CallInv'
  BY <1>4 DEF CreatePAMSession, WriteFresh, CallInv, TypeOK
<1>5. ASSUME NEW id \in Ids, Expire(id) PROVE CallInv'
  BY <1>5 DEF Expire, history, CallInv, TypeOK
<1>6. ASSUME NEW id \in Ids, GetExpired(id) PROVE CallInv'
  BY <1>6 DEF GetExpired, history, CallInv, TypeOK
<1>7. ASSUME NEW id \in Ids, DeleteSession(id) PROVE CallInv'
  BY <1>7 DEF DeleteSession, CallInv, TypeOK
<1>8. ASSUME NEW p \in Procs, NEW id \in Ids, NEW u \in Users, GetSession(p, id, u) PROVE CallInv'
  BY <1>8 DEF GetSession, history, Idle, CallInv, TypeOK
<1>9. ASSUME NEW p \in Procs, Denied(p) PROVE CallInv'
  BY <1>9 DEF Denied, history, Idle, CallInv, TypeOK
<1>10. ASSUME NEW p \in Procs, SaveLinkedSession(p) PROVE CallInv'
  BY <1>10 DEF SaveLinkedSession, Acquire, history, CallInv, TypeOK
<1>11. ASSUME NEW p \in Procs, SetLink(p) PROVE CallInv'
  BY <1>11 DEF SetLink, history, CallInv, TypeOK
<1>12. ASSUME NEW p \in Procs, NEW id \in Ids, SaveRotated(p, id) PROVE CallInv'
  BY <1>12 DEF SaveRotated, WriteFresh, CallInv, TypeOK
<1>13. ASSUME NEW p \in Procs, RemoveOld(p) PROVE CallInv'
  <2>1. CASE Prev(p) \notin {NoUser, call[p].user}
    BY <1>13, <2>1, RemoveOldGoesOn DEF CallInv, TypeOK
  <2>2. CASE Prev(p) \in {NoUser, call[p].user}
    BY <1>13, <2>2 DEF RemoveOld, Return, Idle, CallInv, TypeOK
  <2>3. QED
    BY <2>1, <2>2
<1>14. ASSUME NEW p \in Procs, NEW u \in Users, UnlinkPAM(p, u) PROVE CallInv'
  BY <1>14 DEF UnlinkPAM, Acquire, history, Idle, CallInv, TypeOK
<1>15. ASSUME NEW p \in Procs, DropLinks(p) PROVE CallInv'
  BY <1>15 DEF DropLinks, history, CallInv, TypeOK
<1>16. ASSUME NEW p \in Procs, ReadDir(p) PROVE CallInv'
  BY <1>16 DEF ReadDir, history, CallInv, TypeOK
<1>17. ASSUME NEW p \in Procs, NEW id \in Ids, Scan(p, id) PROVE CallInv'
  BY <1>17 DEF Scan, history, CallInv, TypeOK
<1>18. ASSUME NEW p \in Procs, NEW id \in Ids, ScanMissing(p, id) PROVE CallInv'
  BY <1>18 DEF ScanMissing, Return, Idle, CallInv, TypeOK
<1>19. ASSUME NEW p \in Procs, Rewrite(p) PROVE CallInv'
  BY <1>19 DEF Rewrite, history, CallInv, TypeOK
<1>20. ASSUME NEW p \in Procs, ScanDone(p) PROVE CallInv'
  BY <1>20 DEF ScanDone, Return, Idle, history, CallInv, TypeOK
<1>21. ASSUME NEW p \in Procs, Fail(p) PROVE CallInv'
  BY <1>21 DEF Fail, Return, Idle, CallInv, TypeOK
<1>22. QED
  BY <1>1, <1>2, <1>3, <1>4, <1>5, <1>6, <1>7, <1>8, <1>9, <1>10, <1>11, <1>12, <1>13,
     <1>14, <1>15, <1>16, <1>17, <1>18, <1>19, <1>20, <1>21
  DEF Next, Step

\* Only drawn ids are named, after every step.
LEMMA UsedStep ==
  ASSUME TypeOK, CallInv, UsedInv, [Next]_vars
  PROVE  UsedInv'
<1>1. CASE UNCHANGED vars
  BY <1>1 DEF vars, history, UsedInv, Files
<1>2. ASSUME NEW p \in Procs, NEW s \in Subjects, CreateSession(p, s) PROVE UsedInv'
  BY <1>2 DEF CreateSession, Acquire, history, Idle, CallInv, UsedInv, Files, TypeOK
<1>3. ASSUME NEW p \in Procs, NEW id \in Ids, CreateSave(p, id) PROVE UsedInv'
  BY <1>3 DEF CreateSave, WriteFresh, Return, Idle, CallInv, UsedInv, Files, TypeOK
<1>4. ASSUME NEW p \in Procs, NEW id \in Ids, NEW u \in Users, CreatePAMSession(p, id, u) PROVE UsedInv'
  BY <1>4 DEF CreatePAMSession, WriteFresh, CallInv, UsedInv, Files, TypeOK
<1>5. ASSUME NEW id \in Ids, Expire(id) PROVE UsedInv'
  BY <1>5 DEF Expire, history, CallInv, UsedInv, Files, TypeOK
<1>6. ASSUME NEW id \in Ids, GetExpired(id) PROVE UsedInv'
  BY <1>6 DEF GetExpired, history, CallInv, UsedInv, Files, TypeOK
<1>7. ASSUME NEW id \in Ids, DeleteSession(id) PROVE UsedInv'
  BY <1>7 DEF DeleteSession, CallInv, UsedInv, Files, TypeOK
<1>8. ASSUME NEW p \in Procs, NEW id \in Ids, NEW u \in Users, GetSession(p, id, u) PROVE UsedInv'
  BY <1>8 DEF GetSession, history, Idle, CallInv, UsedInv, Files, TypeOK
<1>9. ASSUME NEW p \in Procs, Denied(p) PROVE UsedInv'
  BY <1>9 DEF Denied, history, Idle, CallInv, UsedInv, Files, TypeOK
<1>10. ASSUME NEW p \in Procs, SaveLinkedSession(p) PROVE UsedInv'
  BY <1>10 DEF SaveLinkedSession, Acquire, history, CallInv, UsedInv, Files, TypeOK
<1>11. ASSUME NEW p \in Procs, SetLink(p) PROVE UsedInv'
  BY <1>11 DEF SetLink, history, CallInv, UsedInv, Files, TypeOK
<1>12. ASSUME NEW p \in Procs, NEW id \in Ids, SaveRotated(p, id) PROVE UsedInv'
  BY <1>12 DEF SaveRotated, WriteFresh, CallInv, UsedInv, Files, TypeOK
<1>13. ASSUME NEW p \in Procs, RemoveOld(p) PROVE UsedInv'
  <2>1. CASE Prev(p) \notin {NoUser, call[p].user}
    BY <1>13, <2>1, RemoveOldGoesOn DEF CallInv, UsedInv, Files, TypeOK
  <2>2. CASE Prev(p) \in {NoUser, call[p].user}
    BY <1>13, <2>2 DEF RemoveOld, Return, Idle, CallInv, UsedInv, Files, TypeOK
  <2>3. QED
    BY <2>1, <2>2
<1>14. ASSUME NEW p \in Procs, NEW u \in Users, UnlinkPAM(p, u) PROVE UsedInv'
  BY <1>14 DEF UnlinkPAM, Acquire, history, Idle, CallInv, UsedInv, Files, TypeOK
<1>15. ASSUME NEW p \in Procs, DropLinks(p) PROVE UsedInv'
  BY <1>15 DEF DropLinks, history, CallInv, UsedInv, Files, TypeOK
<1>16. ASSUME NEW p \in Procs, ReadDir(p) PROVE UsedInv'
  BY <1>16 DEF ReadDir, history, CallInv, UsedInv, Files, TypeOK
<1>17. ASSUME NEW p \in Procs, NEW id \in Ids, Scan(p, id) PROVE UsedInv'
  BY <1>17 DEF Scan, history, CallInv, UsedInv, Files, TypeOK
<1>18. ASSUME NEW p \in Procs, NEW id \in Ids, ScanMissing(p, id) PROVE UsedInv'
  BY <1>18 DEF ScanMissing, Return, Idle, CallInv, UsedInv, Files, TypeOK
<1>19. ASSUME NEW p \in Procs, Rewrite(p) PROVE UsedInv'
  BY <1>19 DEF Rewrite, history, CallInv, UsedInv, Files, TypeOK
<1>20. ASSUME NEW p \in Procs, ScanDone(p) PROVE UsedInv'
  BY <1>20 DEF ScanDone, Return, Idle, history, CallInv, UsedInv, Files, TypeOK
<1>21. ASSUME NEW p \in Procs, Fail(p) PROVE UsedInv'
  BY <1>21 DEF Fail, Return, Idle, CallInv, UsedInv, Files, TypeOK
<1>22. QED
  BY <1>1, <1>2, <1>3, <1>4, <1>5, <1>6, <1>7, <1>8, <1>9, <1>10, <1>11, <1>12, <1>13,
     <1>14, <1>15, <1>16, <1>17, <1>18, <1>19, <1>20, <1>21
  DEF Next, Step

\* Nobody writes links.json between a read and the write it prepares.
LEMMA LinkRowsStep ==
  ASSUME TypeOK, LockInv, LinkRowsFresh, [Next]_vars
  PROVE  LinkRowsFresh'
<1> USE StoreAssumption
<1>1. CASE UNCHANGED vars
  BY <1>1 DEF vars, history, LinkRowsFresh
<1>2. ASSUME NEW p \in Procs, NEW s \in Subjects, CreateSession(p, s) PROVE LinkRowsFresh'
  BY <1>2 DEF CreateSession, Acquire, history, Idle, LockInv, LinkRowsFresh, TypeOK, Locked
<1>3. ASSUME NEW p \in Procs, NEW id \in Ids, CreateSave(p, id) PROVE LinkRowsFresh'
  BY <1>3 DEF CreateSave, WriteFresh, Return, Idle, LockInv, LinkRowsFresh, TypeOK, Locked
<1>4. ASSUME NEW p \in Procs, NEW id \in Ids, NEW u \in Users, CreatePAMSession(p, id, u) PROVE LinkRowsFresh'
  BY <1>4 DEF CreatePAMSession, WriteFresh, LockInv, LinkRowsFresh, TypeOK, Locked
<1>5. ASSUME NEW id \in Ids, Expire(id) PROVE LinkRowsFresh'
  BY <1>5 DEF Expire, history, LockInv, LinkRowsFresh, TypeOK, Locked
<1>6. ASSUME NEW id \in Ids, GetExpired(id) PROVE LinkRowsFresh'
  BY <1>6 DEF GetExpired, history, LockInv, LinkRowsFresh, TypeOK, Locked
<1>7. ASSUME NEW id \in Ids, DeleteSession(id) PROVE LinkRowsFresh'
  BY <1>7 DEF DeleteSession, LockInv, LinkRowsFresh, TypeOK, Locked
<1>8. ASSUME NEW p \in Procs, NEW id \in Ids, NEW u \in Users, GetSession(p, id, u) PROVE LinkRowsFresh'
  BY <1>8 DEF GetSession, history, Idle, LockInv, LinkRowsFresh, TypeOK, Locked
<1>9. ASSUME NEW p \in Procs, Denied(p) PROVE LinkRowsFresh'
  BY <1>9 DEF Denied, history, Idle, LockInv, LinkRowsFresh, TypeOK, Locked
<1>10. ASSUME NEW p \in Procs, SaveLinkedSession(p) PROVE LinkRowsFresh'
  BY <1>10 DEF SaveLinkedSession, Acquire, history, LockInv, LinkRowsFresh, TypeOK, Locked
<1>11. ASSUME NEW p \in Procs, SetLink(p) PROVE LinkRowsFresh'
  BY <1>11 DEF SetLink, history, LockInv, LinkRowsFresh, TypeOK, Locked
<1>12. ASSUME NEW p \in Procs, NEW id \in Ids, SaveRotated(p, id) PROVE LinkRowsFresh'
  BY <1>12 DEF SaveRotated, WriteFresh, LockInv, LinkRowsFresh, TypeOK, Locked
<1>13. ASSUME NEW p \in Procs, RemoveOld(p) PROVE LinkRowsFresh'
  <2>1. CASE Prev(p) \notin {NoUser, call[p].user}
    BY <1>13, <2>1, RemoveOldGoesOn DEF LockInv, LinkRowsFresh, TypeOK, Locked
  <2>2. CASE Prev(p) \in {NoUser, call[p].user}
    BY <1>13, <2>2 DEF RemoveOld, Return, Idle, LockInv, LinkRowsFresh, TypeOK, Locked
  <2>3. QED
    BY <2>1, <2>2
<1>14. ASSUME NEW p \in Procs, NEW u \in Users, UnlinkPAM(p, u) PROVE LinkRowsFresh'
  BY <1>14 DEF UnlinkPAM, Acquire, history, Idle, LockInv, LinkRowsFresh, TypeOK, Locked
<1>15. ASSUME NEW p \in Procs, DropLinks(p) PROVE LinkRowsFresh'
  BY <1>15 DEF DropLinks, history, LockInv, LinkRowsFresh, TypeOK, Locked
<1>16. ASSUME NEW p \in Procs, ReadDir(p) PROVE LinkRowsFresh'
  BY <1>16 DEF ReadDir, history, LockInv, LinkRowsFresh, TypeOK, Locked
<1>17. ASSUME NEW p \in Procs, NEW id \in Ids, Scan(p, id) PROVE LinkRowsFresh'
  BY <1>17 DEF Scan, history, LockInv, LinkRowsFresh, TypeOK, Locked
<1>18. ASSUME NEW p \in Procs, NEW id \in Ids, ScanMissing(p, id) PROVE LinkRowsFresh'
  BY <1>18 DEF ScanMissing, Return, Idle, LockInv, LinkRowsFresh, TypeOK, Locked
<1>19. ASSUME NEW p \in Procs, Rewrite(p) PROVE LinkRowsFresh'
  BY <1>19 DEF Rewrite, history, LockInv, LinkRowsFresh, TypeOK, Locked
<1>20. ASSUME NEW p \in Procs, ScanDone(p) PROVE LinkRowsFresh'
  BY <1>20 DEF ScanDone, Return, Idle, history, LockInv, LinkRowsFresh, TypeOK, Locked
<1>21. ASSUME NEW p \in Procs, Fail(p) PROVE LinkRowsFresh'
  BY <1>21 DEF Fail, Return, Idle, LockInv, LinkRowsFresh, TypeOK, Locked
<1>22. QED
  BY <1>1, <1>2, <1>3, <1>4, <1>5, <1>6, <1>7, <1>8, <1>9, <1>10, <1>11, <1>12, <1>13,
     <1>14, <1>15, <1>16, <1>17, <1>18, <1>19, <1>20, <1>21
  DEF Next, Step

\* No step writes a rotated id or plans to.
LEMMA RotatedStep ==
  ASSUME TypeOK, LockInv, CallInv, UsedInv, RotatedInv, [Next]_vars
  PROVE  RotatedInv'
<1> USE StoreAssumption
<1>1. CASE UNCHANGED vars
  BY <1>1 DEF vars, history, RotatedInv, RotatedGone, Files
<1>2. ASSUME NEW p \in Procs, NEW s \in Subjects, CreateSession(p, s) PROVE RotatedInv'
  BY <1>2 DEF CreateSession, Acquire, history, Idle, LockInv, CallInv, UsedInv,
     RotatedInv, RotatedGone, Files, TypeOK, Locked
<1>3. ASSUME NEW p \in Procs, NEW id \in Ids, CreateSave(p, id) PROVE RotatedInv'
  BY <1>3 DEF CreateSave, WriteFresh, Return, Idle, LockInv, CallInv, UsedInv, RotatedInv,
     RotatedGone, Files, TypeOK, Locked
<1>4. ASSUME NEW p \in Procs, NEW id \in Ids, NEW u \in Users, CreatePAMSession(p, id, u) PROVE RotatedInv'
  BY <1>4 DEF CreatePAMSession, WriteFresh, LockInv, CallInv, UsedInv, RotatedInv,
     RotatedGone, Files, TypeOK, Locked
<1>5. ASSUME NEW id \in Ids, Expire(id) PROVE RotatedInv'
  BY <1>5 DEF Expire, history, LockInv, CallInv, UsedInv, RotatedInv, RotatedGone, Files,
     TypeOK, Locked
<1>6. ASSUME NEW id \in Ids, GetExpired(id) PROVE RotatedInv'
  BY <1>6 DEF GetExpired, history, LockInv, CallInv, UsedInv, RotatedInv, RotatedGone,
     Files, TypeOK, Locked
<1>7. ASSUME NEW id \in Ids, DeleteSession(id) PROVE RotatedInv'
  BY <1>7 DEF DeleteSession, LockInv, CallInv, UsedInv, RotatedInv, RotatedGone, Files,
     TypeOK, Locked
<1>8. ASSUME NEW p \in Procs, NEW id \in Ids, NEW u \in Users, GetSession(p, id, u) PROVE RotatedInv'
  BY <1>8 DEF GetSession, history, Idle, LockInv, CallInv, UsedInv, RotatedInv,
     RotatedGone, Files, TypeOK, Locked
<1>9. ASSUME NEW p \in Procs, Denied(p) PROVE RotatedInv'
  BY <1>9 DEF Denied, history, Idle, LockInv, CallInv, UsedInv, RotatedInv, RotatedGone,
     Files, TypeOK, Locked
<1>10. ASSUME NEW p \in Procs, SaveLinkedSession(p) PROVE RotatedInv'
  BY <1>10 DEF SaveLinkedSession, Acquire, history, LockInv, CallInv, UsedInv, RotatedInv,
     RotatedGone, Files, TypeOK, Locked
<1>11. ASSUME NEW p \in Procs, SetLink(p) PROVE RotatedInv'
  BY <1>11 DEF SetLink, history, LockInv, CallInv, UsedInv, RotatedInv, RotatedGone,
     Files, TypeOK, Locked
<1>12. ASSUME NEW p \in Procs, NEW id \in Ids, SaveRotated(p, id) PROVE RotatedInv'
  BY <1>12 DEF SaveRotated, WriteFresh, LockInv, CallInv, UsedInv, RotatedInv,
     RotatedGone, Files, TypeOK, Locked
<1>13. ASSUME NEW p \in Procs, RemoveOld(p) PROVE RotatedInv'
  <2>1. CASE Prev(p) \notin {NoUser, call[p].user}
    BY <1>13, <2>1, RemoveOldGoesOn DEF LockInv, CallInv, UsedInv, RotatedInv,
       RotatedGone, Files, TypeOK, Locked
  <2>2. CASE Prev(p) \in {NoUser, call[p].user}
    BY <1>13, <2>2 DEF RemoveOld, Return, Idle, LockInv, CallInv, UsedInv, RotatedInv,
       RotatedGone, Files, TypeOK, Locked
  <2>3. QED
    BY <2>1, <2>2
<1>14. ASSUME NEW p \in Procs, NEW u \in Users, UnlinkPAM(p, u) PROVE RotatedInv'
  BY <1>14 DEF UnlinkPAM, Acquire, history, Idle, LockInv, CallInv, UsedInv, RotatedInv,
     RotatedGone, Files, TypeOK, Locked
<1>15. ASSUME NEW p \in Procs, DropLinks(p) PROVE RotatedInv'
  BY <1>15 DEF DropLinks, history, LockInv, CallInv, UsedInv, RotatedInv, RotatedGone,
     Files, TypeOK, Locked
<1>16. ASSUME NEW p \in Procs, ReadDir(p) PROVE RotatedInv'
  BY <1>16 DEF ReadDir, history, LockInv, CallInv, UsedInv, RotatedInv, RotatedGone,
     Files, TypeOK, Locked
<1>17. ASSUME NEW p \in Procs, NEW id \in Ids, Scan(p, id) PROVE RotatedInv'
  BY <1>17 DEF Scan, history, LockInv, CallInv, UsedInv, RotatedInv, RotatedGone, Files,
     TypeOK, Locked
<1>18. ASSUME NEW p \in Procs, NEW id \in Ids, ScanMissing(p, id) PROVE RotatedInv'
  BY <1>18 DEF ScanMissing, Return, Idle, LockInv, CallInv, UsedInv, RotatedInv,
     RotatedGone, Files, TypeOK, Locked
<1>19. ASSUME NEW p \in Procs, Rewrite(p) PROVE RotatedInv'
  BY <1>19 DEF Rewrite, history, LockInv, CallInv, UsedInv, RotatedInv, RotatedGone,
     Files, TypeOK, Locked
<1>20. ASSUME NEW p \in Procs, ScanDone(p) PROVE RotatedInv'
  BY <1>20 DEF ScanDone, Return, Idle, history, LockInv, CallInv, UsedInv, RotatedInv,
     RotatedGone, Files, TypeOK, Locked
<1>21. ASSUME NEW p \in Procs, Fail(p) PROVE RotatedInv'
  BY <1>21 DEF Fail, Return, Idle, LockInv, CallInv, UsedInv, RotatedInv, RotatedGone,
     Files, TypeOK, Locked
<1>22. QED
  BY <1>1, <1>2, <1>3, <1>4, <1>5, <1>6, <1>7, <1>8, <1>9, <1>10, <1>11, <1>12, <1>13,
     <1>14, <1>15, <1>16, <1>17, <1>18, <1>19, <1>20, <1>21
  DEF Next, Step

\* An unlink never loses ground: no step adds a row or a session for the user it revokes.
LEMMA UnlinkStep ==
  ASSUME TypeOK, LockInv, CallInv, UnlinkInv, [Next]_vars
  PROVE  UnlinkInv'
<1> USE StoreAssumption
<1>1. CASE UNCHANGED vars
  BY <1>1 DEF vars, history, UnlinkInv, Files
<1>2. ASSUME NEW p \in Procs, NEW s \in Subjects, CreateSession(p, s) PROVE UnlinkInv'
  BY <1>2 DEF CreateSession, Acquire, history, Idle, LockInv, CallInv, UnlinkInv, Files,
     TypeOK, Locked
<1>3. ASSUME NEW p \in Procs, NEW id \in Ids, CreateSave(p, id) PROVE UnlinkInv'
  BY <1>3 DEF CreateSave, WriteFresh, Return, Idle, LockInv, CallInv, UnlinkInv, Files,
     TypeOK, Locked
<1>4. ASSUME NEW p \in Procs, NEW id \in Ids, NEW u \in Users, CreatePAMSession(p, id, u) PROVE UnlinkInv'
  BY <1>4 DEF CreatePAMSession, WriteFresh, LockInv, CallInv, UnlinkInv, Files, TypeOK,
     Locked
<1>5. ASSUME NEW id \in Ids, Expire(id) PROVE UnlinkInv'
  BY <1>5 DEF Expire, history, LockInv, CallInv, UnlinkInv, Files, TypeOK, Locked
<1>6. ASSUME NEW id \in Ids, GetExpired(id) PROVE UnlinkInv'
  BY <1>6 DEF GetExpired, history, LockInv, CallInv, UnlinkInv, Files, TypeOK, Locked
<1>7. ASSUME NEW id \in Ids, DeleteSession(id) PROVE UnlinkInv'
  BY <1>7 DEF DeleteSession, LockInv, CallInv, UnlinkInv, Files, TypeOK, Locked
<1>8. ASSUME NEW p \in Procs, NEW id \in Ids, NEW u \in Users, GetSession(p, id, u) PROVE UnlinkInv'
  BY <1>8 DEF GetSession, history, Idle, LockInv, CallInv, UnlinkInv, Files, TypeOK, Locked
<1>9. ASSUME NEW p \in Procs, Denied(p) PROVE UnlinkInv'
  BY <1>9 DEF Denied, history, Idle, LockInv, CallInv, UnlinkInv, Files, TypeOK, Locked
<1>10. ASSUME NEW p \in Procs, SaveLinkedSession(p) PROVE UnlinkInv'
  BY <1>10 DEF SaveLinkedSession, Acquire, history, LockInv, CallInv, UnlinkInv, Files,
     TypeOK, Locked
<1>11. ASSUME NEW p \in Procs, SetLink(p) PROVE UnlinkInv'
  BY <1>11 DEF SetLink, history, LockInv, CallInv, UnlinkInv, Files, TypeOK, Locked
<1>12. ASSUME NEW p \in Procs, NEW id \in Ids, SaveRotated(p, id) PROVE UnlinkInv'
  BY <1>12 DEF SaveRotated, WriteFresh, LockInv, CallInv, UnlinkInv, Files, TypeOK, Locked
<1>13. ASSUME NEW p \in Procs, RemoveOld(p) PROVE UnlinkInv'
  <2>1. CASE Prev(p) \notin {NoUser, call[p].user}
    BY <1>13, <2>1, RemoveOldGoesOn DEF LockInv, CallInv, UnlinkInv, Files, TypeOK, Locked
  <2>2. CASE Prev(p) \in {NoUser, call[p].user}
    BY <1>13, <2>2 DEF RemoveOld, Return, Idle, LockInv, CallInv, UnlinkInv, Files,
       TypeOK, Locked
  <2>3. QED
    BY <2>1, <2>2
<1>14. ASSUME NEW p \in Procs, NEW u \in Users, UnlinkPAM(p, u) PROVE UnlinkInv'
  BY <1>14 DEF UnlinkPAM, Acquire, history, Idle, LockInv, CallInv, UnlinkInv, Files,
     TypeOK, Locked
<1>15. ASSUME NEW p \in Procs, DropLinks(p) PROVE UnlinkInv'
  <2>1. /\ call[p].pc = "unlink" /\ call'[p].pc = "readDir"
        /\ call'[p].op = call[p].op /\ call'[p].user = call[p].user
        /\ UNCHANGED sessions
    BY <1>15 DEF DropLinks, TypeOK, Call
  <2>2. \A q \in Procs : q # p => call'[q] = call[q] /\ call[q].pc \notin Locked
    BY <1>15 DEF DropLinks, TypeOK, LockInv, Locked
  <2>3. \A s \in AnySubject : links'[s] # call[p].user
    <3>1. call[p].user \in Users
      BY <2>1 DEF CallInv
    <3>2. QED
      BY <1>15, <3>1 DEF DropLinks, Removed
  <2>4. QED
    BY <2>1, <2>2, <2>3 DEF UnlinkInv, Locked
<1>16. ASSUME NEW p \in Procs, ReadDir(p) PROVE UnlinkInv'
  BY <1>16 DEF ReadDir, history, LockInv, CallInv, UnlinkInv, Files, TypeOK, Locked
<1>17. ASSUME NEW p \in Procs, NEW id \in Ids, Scan(p, id) PROVE UnlinkInv'
  <2>1. /\ call[p].pc = "scan" /\ call'[p].pc \in {"scan", "rewrite"}
        /\ call'[p].op = call[p].op /\ call'[p].user = call[p].user
        /\ UNCHANGED <<links, sessions>>
    BY <1>17 DEF Scan, TypeOK, Call
  <2>2. \A q \in Procs : q # p => call'[q] = call[q] /\ call[q].pc \notin Locked
    BY <1>17 DEF Scan, TypeOK, LockInv, Locked
  <2>3. ASSUME call[p].op = "unlink", NEW i \in Files, sessions[i].pam = call[p].user
        PROVE  i \in call'[p].todo
    <3>1. i \in call[p].todo /\ call[p].user \in Users
      BY <2>1, <2>3 DEF UnlinkInv, CallInv
    <3>2. CASE i # id
      BY <1>17, <3>1, <3>2 DEF Scan, TypeOK, Call
    <3>3. CASE i = id
      <4>1. Match(p, id, sessions[id])
        BY <2>3, <3>1, <3>3 DEF Match
      <4>2. QED
        BY <1>17, <3>1, <3>3, <4>1 DEF Scan, TypeOK, Call
    <3>4. QED
      BY <3>2, <3>3
  <2>4. QED
    BY <2>1, <2>2, <2>3 DEF UnlinkInv, Files, Locked
<1>18. ASSUME NEW p \in Procs, NEW id \in Ids, ScanMissing(p, id) PROVE UnlinkInv'
  BY <1>18 DEF ScanMissing, Return, Idle, LockInv, CallInv, UnlinkInv, Files, TypeOK, Locked
<1>19. ASSUME NEW p \in Procs, Rewrite(p) PROVE UnlinkInv'
  BY <1>19 DEF Rewrite, history, LockInv, CallInv, UnlinkInv, Files, TypeOK, Locked
<1>20. ASSUME NEW p \in Procs, ScanDone(p) PROVE UnlinkInv'
  BY <1>20 DEF ScanDone, Return, Idle, history, LockInv, CallInv, UnlinkInv, Files,
     TypeOK, Locked
<1>21. ASSUME NEW p \in Procs, Fail(p) PROVE UnlinkInv'
  BY <1>21 DEF Fail, Return, Idle, LockInv, CallInv, UnlinkInv, Files, TypeOK, Locked
<1>22. QED
  BY <1>1, <1>2, <1>3, <1>4, <1>5, <1>6, <1>7, <1>8, <1>9, <1>10, <1>11, <1>12, <1>13,
     <1>14, <1>15, <1>16, <1>17, <1>18, <1>19, <1>20, <1>21
  DEF Next, Step

\* The row that SaveLinkedSession wrote stays while it holds the lock.
LEMMA LinkedStep ==
  ASSUME TypeOK, LockInv, CallInv, UsedInv, LinkedInv, [Next]_vars
  PROVE  LinkedInv'
<1> USE StoreAssumption
<1>1. CASE UNCHANGED vars
  BY <1>1 DEF vars, history, LinkedInv, Files
<1>2. ASSUME NEW p \in Procs, NEW s \in Subjects, CreateSession(p, s) PROVE LinkedInv'
  BY <1>2 DEF CreateSession, Acquire, history, Idle, LockInv, CallInv, UsedInv, LinkedInv,
     Files, TypeOK, Locked
<1>3. ASSUME NEW p \in Procs, NEW id \in Ids, CreateSave(p, id) PROVE LinkedInv'
  BY <1>3 DEF CreateSave, WriteFresh, Return, Idle, LockInv, CallInv, UsedInv, LinkedInv,
     Files, TypeOK, Locked
<1>4. ASSUME NEW p \in Procs, NEW id \in Ids, NEW u \in Users, CreatePAMSession(p, id, u) PROVE LinkedInv'
  BY <1>4 DEF CreatePAMSession, WriteFresh, LockInv, CallInv, UsedInv, LinkedInv, Files,
     TypeOK, Locked
<1>5. ASSUME NEW id \in Ids, Expire(id) PROVE LinkedInv'
  BY <1>5 DEF Expire, history, LockInv, CallInv, UsedInv, LinkedInv, Files, TypeOK, Locked
<1>6. ASSUME NEW id \in Ids, GetExpired(id) PROVE LinkedInv'
  BY <1>6 DEF GetExpired, history, LockInv, CallInv, UsedInv, LinkedInv, Files, TypeOK,
     Locked
<1>7. ASSUME NEW id \in Ids, DeleteSession(id) PROVE LinkedInv'
  BY <1>7 DEF DeleteSession, LockInv, CallInv, UsedInv, LinkedInv, Files, TypeOK, Locked
<1>8. ASSUME NEW p \in Procs, NEW id \in Ids, NEW u \in Users, GetSession(p, id, u) PROVE LinkedInv'
  BY <1>8 DEF GetSession, history, Idle, LockInv, CallInv, UsedInv, LinkedInv, Files,
     TypeOK, Locked
<1>9. ASSUME NEW p \in Procs, Denied(p) PROVE LinkedInv'
  BY <1>9 DEF Denied, history, Idle, LockInv, CallInv, UsedInv, LinkedInv, Files, TypeOK,
     Locked
<1>10. ASSUME NEW p \in Procs, SaveLinkedSession(p) PROVE LinkedInv'
  BY <1>10 DEF SaveLinkedSession, Acquire, history, LockInv, CallInv, UsedInv, LinkedInv,
     Files, TypeOK, Locked
<1>11. ASSUME NEW p \in Procs, SetLink(p) PROVE LinkedInv'
  <2>1. /\ call[p].pc = "setLink" /\ call'[p].pc = "save"
        /\ call'[p].sess = call[p].sess /\ call'[p].user = call[p].user
    BY <1>11 DEF SetLink, TypeOK, Call
  <2>2. \A q \in Procs : q # p => call'[q] = call[q] /\ call[q].pc \notin Locked
    BY <1>11 DEF SetLink, TypeOK, LockInv, Locked
  <2>3. links'[call[p].sess.subj] = call[p].user
    BY <1>11 DEF SetLink, TypeOK, Call, Session
  <2>4. QED
    BY <2>1, <2>2, <2>3 DEF LinkedInv, Locked
<1>12. ASSUME NEW p \in Procs, NEW id \in Ids, SaveRotated(p, id) PROVE LinkedInv'
  BY <1>12 DEF SaveRotated, WriteFresh, LockInv, CallInv, UsedInv, LinkedInv, Files,
     TypeOK, Locked
<1>13. ASSUME NEW p \in Procs, RemoveOld(p) PROVE LinkedInv'
  <2>1. CASE Prev(p) \notin {NoUser, call[p].user}
    BY <1>13, <2>1, RemoveOldGoesOn DEF LockInv, CallInv, UsedInv, LinkedInv, Files,
       TypeOK, Locked
  <2>2. CASE Prev(p) \in {NoUser, call[p].user}
    BY <1>13, <2>2 DEF RemoveOld, Return, Idle, LockInv, CallInv, UsedInv, LinkedInv,
       Files, TypeOK, Locked
  <2>3. QED
    BY <2>1, <2>2
<1>14. ASSUME NEW p \in Procs, NEW u \in Users, UnlinkPAM(p, u) PROVE LinkedInv'
  BY <1>14 DEF UnlinkPAM, Acquire, history, Idle, LockInv, CallInv, UsedInv, LinkedInv,
     Files, TypeOK, Locked
<1>15. ASSUME NEW p \in Procs, DropLinks(p) PROVE LinkedInv'
  BY <1>15 DEF DropLinks, history, LockInv, CallInv, UsedInv, LinkedInv, Files, TypeOK,
     Locked
<1>16. ASSUME NEW p \in Procs, ReadDir(p) PROVE LinkedInv'
  BY <1>16 DEF ReadDir, history, LockInv, CallInv, UsedInv, LinkedInv, Files, TypeOK, Locked
<1>17. ASSUME NEW p \in Procs, NEW id \in Ids, Scan(p, id) PROVE LinkedInv'
  BY <1>17 DEF Scan, history, LockInv, CallInv, UsedInv, LinkedInv, Files, TypeOK, Locked
<1>18. ASSUME NEW p \in Procs, NEW id \in Ids, ScanMissing(p, id) PROVE LinkedInv'
  BY <1>18 DEF ScanMissing, Return, Idle, LockInv, CallInv, UsedInv, LinkedInv, Files,
     TypeOK, Locked
<1>19. ASSUME NEW p \in Procs, Rewrite(p) PROVE LinkedInv'
  BY <1>19 DEF Rewrite, history, LockInv, CallInv, UsedInv, LinkedInv, Files, TypeOK, Locked
<1>20. ASSUME NEW p \in Procs, ScanDone(p) PROVE LinkedInv'
  BY <1>20 DEF ScanDone, Return, Idle, history, LockInv, CallInv, UsedInv, LinkedInv,
     Files, TypeOK, Locked
<1>21. ASSUME NEW p \in Procs, Fail(p) PROVE LinkedInv'
  BY <1>21 DEF Fail, Return, Idle, LockInv, CallInv, UsedInv, LinkedInv, Files, TypeOK,
     Locked
<1>22. QED
  BY <1>1, <1>2, <1>3, <1>4, <1>5, <1>6, <1>7, <1>8, <1>9, <1>10, <1>11, <1>12, <1>13,
     <1>14, <1>15, <1>16, <1>17, <1>18, <1>19, <1>20, <1>21
  DEF Next, Step

\* Only the holder of the lock has revocations pending.
LEMMA PendingHolds ==
  ASSUME LockInv, NEW q \in Procs, NEW id, Pending(q, id)
  PROVE  lock = q
  BY DEF LockInv, Pending, Locked

\* When nothing is pending, every clean session agrees with its link.
LEMMA AllAgree ==
  ASSUME LockInv, CoherentInv,
         NEW h, \/ lock = NoProc
                \/ lock = h /\ call[h].pc \notin {"save", "remove", "readDir", "scan", "rewrite"},
         NEW id \in Files, sessions[id].subj \notin dirty \cup {NoSubject}
  PROVE  Agrees(id)
<1>1. ASSUME NEW q \in Procs, Pending(q, id) PROVE FALSE
  <2>1. lock = q
    BY <1>1, PendingHolds
  <2>2. QED
    BY <1>1, <2>1, StoreAssumption DEF Pending
<1>2. QED
  BY <1>1 DEF CoherentInv

\* A step of p that changes no session, link or dirty subject, and takes p neither
\* into nor out of a revocation, keeps sessions and links in agreement.
LEMMA CoherentFrame ==
  ASSUME TypeOK, CoherentInv, NEW p \in Procs,
         UNCHANGED <<sessions, links, dirty>>,
         \A q \in Procs : q # p => call'[q] = call[q],
         \A id \in Files : Pending(p, id) => Agrees(id) \/ Pending(p, id)'
  PROVE  CoherentInv'
<1> SUFFICES ASSUME NEW i \in Files, sessions[i].subj \notin dirty \cup {NoSubject}
             PROVE  Agrees(i) \/ \E q \in Procs : Pending(q, i)'
  BY DEF CoherentInv, Files, Agrees
<1>1. CASE Agrees(i)
  BY <1>1
<1>2. ASSUME NEW q \in Procs, Pending(q, i) PROVE Agrees(i) \/ Pending(q, i)'
  <2>1. CASE q = p
    BY <1>2, <2>1
  <2>2. CASE q # p
    BY <1>2, <2>2 DEF Pending, Written, Removed, Prev
  <2>3. QED
    BY <2>1, <2>2
<1>3. QED
  BY <1>1, <1>2 DEF CoherentInv

\* Sessions and links agree after every step, up to what the holder has pending.
LEMMA CoherentStep ==
  ASSUME TypeOK, LockInv, CallInv, UsedInv, LinkRowsFresh, LinkedInv, CoherentInv, [Next]_vars
  PROVE  CoherentInv'
<1> USE StoreAssumption
<1>1. CASE UNCHANGED vars
  BY <1>1 DEF vars, history, CoherentInv, Files, Agrees, Pending, Written, Removed, Prev
<1>2. ASSUME NEW p \in Procs, NEW s \in Subjects, CreateSession(p, s) PROVE CoherentInv'
  BY <1>2, PendingHolds, CoherentFrame DEF CreateSession, Acquire, history, TypeOK
<1>3. ASSUME NEW p \in Procs, NEW id \in Ids, CreateSave(p, id) PROVE CoherentInv'
  <2> SUFFICES ASSUME NEW i \in Files', sessions'[i].subj \notin dirty' \cup {NoSubject}
               PROVE  Agrees(i)'
    BY DEF CoherentInv
  <2>1. lock = p /\ call[p].rows = links /\ links' = links /\ dirty' = dirty
    BY <1>3 DEF CreateSave, LockInv, LinkRowsFresh, Locked
  <2>2. CASE i = id
    BY <1>3, <2>1, <2>2 DEF CreateSave, WriteFresh, TypeOK, Agrees
  <2>3. CASE i # id
    <3>1. i \in Files /\ sessions'[i] = sessions[i]
      BY <1>3, <2>3 DEF CreateSave, WriteFresh, TypeOK, Files
    <3>2. Agrees(i)
      BY <1>3, <2>1, <3>1, AllAgree DEF CreateSave
    <3>3. QED
      BY <2>1, <3>1, <3>2 DEF Agrees
  <2>4. QED
    BY <2>2, <2>3
<1>4. ASSUME NEW p \in Procs, NEW id \in Ids, NEW u \in Users, CreatePAMSession(p, id, u)
      PROVE  CoherentInv'
  <2> SUFFICES ASSUME NEW i \in Files', sessions'[i].subj \notin dirty' \cup {NoSubject}
               PROVE  Agrees(i)'
    BY DEF CoherentInv
  <2>1. i # id
    BY <1>4 DEF CreatePAMSession, WriteFresh, TypeOK
  <2>2. i \in Files /\ sessions'[i] = sessions[i]
    BY <1>4, <2>1 DEF CreatePAMSession, WriteFresh, TypeOK, Files
  <2>3. Agrees(i)
    BY <1>4, <2>2, AllAgree DEF CreatePAMSession
  <2>4. QED
    BY <1>4, <2>2, <2>3 DEF Agrees, CreatePAMSession
<1>5. ASSUME NEW id \in Ids, Expire(id) \/ GetExpired(id) \/ DeleteSession(id)
      PROVE  CoherentInv'
  <2>1. UNCHANGED <<links, call, dirty>>
    BY <1>5 DEF Expire, GetExpired, DeleteSession, history
  <2>2. \A i \in Files' : i \in Files /\ sessions'[i] = sessions[i]
    BY <1>5 DEF Expire, GetExpired, DeleteSession, history, TypeOK, Files
  <2>3. QED
    BY ZenonT(40), <2>1, <2>2 DEF CoherentInv, Agrees, Pending, Written, Removed, Prev
<1>6. ASSUME NEW p \in Procs, NEW id \in Ids, NEW u \in Users, GetSession(p, id, u)
      PROVE  CoherentInv'
  BY <1>6, CoherentFrame DEF GetSession, history, TypeOK, Pending
<1>7. ASSUME NEW p \in Procs, Denied(p) PROVE CoherentInv'
  BY <1>7, CoherentFrame DEF Denied, history, TypeOK, Pending
<1>8. ASSUME NEW p \in Procs, SaveLinkedSession(p) PROVE CoherentInv'
  BY <1>8, PendingHolds, CoherentFrame DEF SaveLinkedSession, Acquire, history, TypeOK
<1>9. ASSUME NEW p \in Procs, SetLink(p) PROVE CoherentInv'
  <2> SUFFICES ASSUME NEW i \in Files, sessions[i].subj \notin dirty \cup {NoSubject}
               PROVE  Agrees(i)' \/ Pending(p, i)'
    BY <1>9 DEF CoherentInv, SetLink, Files, history
  <2>1. /\ lock = p /\ call[p].rows = links /\ call[p].pc = "setLink" /\ call[p].op = "link"
        /\ UNCHANGED sessions
    BY <1>9 DEF SetLink, LockInv, LinkRowsFresh, Locked, CallInv
  <2>2. Agrees(i)
    BY <2>1, AllAgree
  <2>3. /\ call'[p].pc = "save" /\ call'[p].op = "link" /\ call'[p].rows = call[p].rows
        /\ call'[p].sess = call[p].sess
    BY <1>9, <2>1 DEF SetLink, TypeOK, Call
  <2>4. CASE sessions[i].subj = call[p].sess.subj
    BY <2>1, <2>2, <2>3, <2>4 DEF Agrees, Pending, Written, Prev
  <2>5. CASE sessions[i].subj # call[p].sess.subj
    <3>1. links'[sessions[i].subj] = links[sessions[i].subj]
      BY <1>9, <2>1, <2>5 DEF SetLink, TypeOK, Files, Session
    <3>2. QED
      BY <2>1, <2>2, <3>1 DEF Agrees
  <2>6. QED
    BY <2>4, <2>5
<1>10. ASSUME NEW p \in Procs, NEW id \in Ids, SaveRotated(p, id) PROVE CoherentInv'
  <2> SUFFICES ASSUME NEW i \in Files', sessions'[i].subj \notin dirty' \cup {NoSubject}
               PROVE  Agrees(i)' \/ Pending(p, i)'
    BY DEF CoherentInv
  <2>1. /\ lock = p /\ call[p].pc = "save" /\ call[p].op = "link"
        /\ links' = links /\ dirty' = dirty
        /\ links[call[p].sess.subj] = call[p].user
    BY <1>10 DEF SaveRotated, LockInv, Locked, CallInv, LinkedInv
  <2>2. CASE i = id
    <3>1. sessions'[i] = [call[p].sess EXCEPT !.pam = call[p].user]
      BY <1>10, <2>2 DEF SaveRotated, WriteFresh, TypeOK
    <3>2. sessions'[i].subj = call[p].sess.subj /\ sessions'[i].pam = call[p].user
      BY <3>1 DEF TypeOK, Call, Session
    <3>3. QED
      BY <2>1, <3>2 DEF Agrees
  <2>3. CASE i # id
    <3>1. i \in Files /\ sessions'[i] = sessions[i]
      BY <1>10, <2>3 DEF SaveRotated, WriteFresh, TypeOK, Files
    <3>2. Agrees(i) \/ Pending(p, i)
      BY <2>1, <3>1, PendingHolds DEF CoherentInv
    <3>3. /\ call'[p].pc = "remove" /\ call'[p].op = "link" /\ call'[p].rows = call[p].rows
          /\ call'[p].sess = call[p].sess
      BY <1>10, <2>1 DEF SaveRotated, TypeOK, Call
    <3>4. QED
      BY <2>1, <3>1, <3>2, <3>3 DEF Agrees, Pending, Written, Prev
  <2>4. QED
    BY <2>2, <2>3
<1>11. ASSUME NEW p \in Procs, RemoveOld(p) PROVE CoherentInv'
  <2> SUFFICES ASSUME NEW i \in Files', sessions'[i].subj \notin dirty' \cup {NoSubject}
               PROVE  Agrees(i)' \/ Pending(p, i)'
    BY DEF CoherentInv
  <2>1. /\ lock = p /\ call[p].pc = "remove" /\ call[p].op = "link"
        /\ links' = links /\ dirty' = dirty
        /\ links[call[p].sess.subj] = call[p].user
    BY <1>11 DEF RemoveOld, LockInv, Locked, CallInv, LinkedInv
  <2>2. i \in Files /\ sessions'[i] = sessions[i]
    BY <1>11 DEF RemoveOld, TypeOK, Files
  <2>3. Agrees(i) \/ Pending(p, i)
    BY <2>1, <2>2, PendingHolds DEF CoherentInv
  <2>4. CASE Prev(p) \notin {NoUser, call[p].user}
    BY <1>11, <2>1, <2>2, <2>3, <2>4, RemoveOldGoesOn DEF Agrees, Pending, Written, Prev
  <2>5. CASE Prev(p) \in {NoUser, call[p].user}
    BY <2>1, <2>2, <2>3, <2>5 DEF Agrees, Pending, Written
  <2>6. QED
    BY <2>4, <2>5
<1>12. ASSUME NEW p \in Procs, NEW u \in Users, UnlinkPAM(p, u) PROVE CoherentInv'
  BY <1>12, PendingHolds, CoherentFrame DEF UnlinkPAM, Acquire, history, TypeOK
<1>13. ASSUME NEW p \in Procs, DropLinks(p) PROVE CoherentInv'
  <2> SUFFICES ASSUME NEW i \in Files, sessions[i].subj \notin dirty \cup {NoSubject}
               PROVE  Agrees(i)' \/ Pending(p, i)'
    BY <1>13 DEF CoherentInv, DropLinks, Files, history
  <2>1. /\ lock = p /\ call[p].rows = links /\ call[p].pc = "unlink" /\ call[p].op = "unlink"
        /\ UNCHANGED sessions
    BY <1>13 DEF DropLinks, LockInv, LinkRowsFresh, Locked, CallInv
  <2>2. Agrees(i)
    BY <2>1, AllAgree
  <2>3. /\ call'[p].pc = "readDir" /\ call'[p].op = "unlink" /\ call'[p].rows = call[p].rows
        /\ call'[p].user = call[p].user
    BY <1>13, <2>1 DEF DropLinks, TypeOK, Call
  <2>4. sessions[i].subj \in AnySubject
    BY DEF TypeOK, Files, Session
  <2>5. CASE sessions[i].subj \in Removed(p)
    BY <2>1, <2>3, <2>5 DEF Pending, Written, Removed
  <2>6. CASE sessions[i].subj \notin Removed(p)
    BY <1>13, <2>1, <2>2, <2>4, <2>6 DEF DropLinks, Agrees
  <2>7. QED
    BY <2>5, <2>6
<1>14. ASSUME NEW p \in Procs, ReadDir(p) PROVE CoherentInv'
  <2>1. /\ call[p].pc = "readDir" /\ call'[p].pc = "scan" /\ call'[p].op = call[p].op
        /\ call'[p].rows = call[p].rows /\ call'[p].user = call[p].user
        /\ call'[p].sess = call[p].sess /\ call'[p].todo = Files
    BY <1>14 DEF ReadDir, TypeOK, Call
  <2>2. UNCHANGED <<sessions, links, dirty>> /\ \A q \in Procs : q # p => call'[q] = call[q]
    BY <1>14 DEF ReadDir, TypeOK, history
  <2>3. \A i \in Files : Pending(p, i) => Pending(p, i)'
    BY <2>1, <2>2 DEF Pending, Written, Removed, Prev
  <2>4. QED
    BY <2>2, <2>3, CoherentFrame
<1>15. ASSUME NEW p \in Procs, NEW id \in Ids, Scan(p, id) PROVE CoherentInv'
  <2>1. /\ call[p].pc = "scan" /\ call'[p].pc \in {"scan", "rewrite"} /\ call'[p].op = call[p].op
        /\ call'[p].rows = call[p].rows /\ call'[p].user = call[p].user
        /\ call'[p].sess = call[p].sess
        /\ call'[p].todo = IF Match(p, id, sessions[id]) THEN call[p].todo ELSE call[p].todo \ {id}
    BY <1>15 DEF Scan, TypeOK, Call
  <2>2. UNCHANGED <<sessions, links, dirty>> /\ \A q \in Procs : q # p => call'[q] = call[q]
    BY <1>15 DEF Scan, TypeOK, history
  <2>3. ASSUME NEW i \in Files, Pending(p, i) PROVE Agrees(i) \/ Pending(p, i)'
    <3>1. CASE i = id /\ ~Match(p, id, sessions[id])
      <4>1. CASE call[p].op = "unlink"
        BY <2>3, <3>1, <4>1 DEF Match, Pending, Written, Agrees
      <4>2. CASE call[p].op = "link"
        BY <2>1, <2>3, <3>1, <4>2 DEF Match, Pending, Written, Agrees, LinkedInv, Locked
      <4>3. QED
        BY <2>1, <4>1, <4>2 DEF CallInv
    <3>2. CASE i # id \/ Match(p, id, sessions[id])
      BY <2>1, <2>2, <2>3, <3>2 DEF Pending, Written, Removed, Prev
    <3>3. QED
      BY <3>1, <3>2
  <2>4. QED
    BY <2>2, <2>3, CoherentFrame
<1>16. ASSUME NEW p \in Procs, NEW id \in Ids, ScanMissing(p, id) PROVE CoherentInv'
  <2> SUFFICES ASSUME NEW i \in Files, sessions[i].subj \notin dirty \cup Written(p) \cup {NoSubject}
               PROVE  Agrees(i)
    BY <1>16 DEF CoherentInv, ScanMissing, Files, Agrees
  <2>1. lock = p
    BY <1>16 DEF ScanMissing, LockInv, Locked
  <2>2. QED
    BY <2>1, PendingHolds DEF CoherentInv, Pending
<1>17. ASSUME NEW p \in Procs, Rewrite(p) PROVE CoherentInv'
  <2> SUFFICES ASSUME NEW i \in Files', sessions'[i].subj \notin dirty' \cup {NoSubject}
               PROVE  Agrees(i)' \/ Pending(p, i)'
    BY DEF CoherentInv
  <2>1. lock = p /\ call[p].pc = "rewrite" /\ UNCHANGED <<links, dirty>>
    BY <1>17 DEF Rewrite, LockInv, Locked, history
  <2>2. CASE i = call[p].cur
    <3>1. sessions'[i] = [call[p].buf EXCEPT !.pam = NoUser]
      BY <1>17, <2>2 DEF Rewrite, TypeOK, Files
    <3>2. sessions'[i].pam = NoUser
      BY <3>1 DEF TypeOK, Call, Session
    <3>3. QED
      BY <3>2 DEF Agrees
  <2>3. CASE i # call[p].cur
    <3>1. i \in Files /\ sessions'[i] = sessions[i]
      BY <1>17, <2>3 DEF Rewrite, TypeOK, Files
    <3>2. Agrees(i) \/ Pending(p, i)
      BY <2>1, <3>1, PendingHolds DEF CoherentInv
    <3>3. /\ call'[p].pc = "scan" /\ call'[p].op = call[p].op /\ call'[p].rows = call[p].rows
          /\ call'[p].sess = call[p].sess /\ call'[p].user = call[p].user
          /\ call'[p].todo = call[p].todo \ {call[p].cur}
      BY <1>17 DEF Rewrite, TypeOK, Call
    <3>4. QED
      BY <2>1, <2>3, <3>1, <3>2, <3>3 DEF Agrees, Pending, Written, Removed, Prev
  <2>4. QED
    BY <2>2, <2>3
<1>18. ASSUME NEW p \in Procs, ScanDone(p) PROVE CoherentInv'
  <2>1. UNCHANGED <<sessions, links, dirty>> /\ \A q \in Procs : q # p => call'[q] = call[q]
    BY <1>18 DEF ScanDone, Return, TypeOK, history
  <2>2. \A i \in Files : ~Pending(p, i)
    BY <1>18 DEF ScanDone, Pending
  <2>3. QED
    BY <2>1, <2>2, CoherentFrame
<1>19. ASSUME NEW p \in Procs, Fail(p) PROVE CoherentInv'
  <2> SUFFICES ASSUME NEW i \in Files, sessions[i].subj \notin dirty' \cup {NoSubject}
               PROVE  Agrees(i)
    BY <1>19 DEF CoherentInv, Fail, Files, Agrees
  <2>1. lock = p /\ dirty \subseteq dirty'
    BY <1>19 DEF Fail, LockInv
  <2>2. CASE call[p].pc \in {"setLink", "unlink", "create"}
    BY <2>1, <2>2, AllAgree
  <2>3. CASE call[p].pc \notin {"setLink", "unlink", "create"}
    <3>1. sessions[i].subj \notin Written(p)
      BY <1>19, <2>3 DEF Fail
    <3>2. QED
      BY <2>1, <3>1, PendingHolds DEF CoherentInv, Pending
  <2>4. QED
    BY <2>2, <2>3
<1>20. QED
  BY <1>1, <1>2, <1>3, <1>4, <1>5, <1>6, <1>7, <1>8, <1>9, <1>10, <1>11, <1>12, <1>13,
     <1>14, <1>15, <1>16, <1>17, <1>18, <1>19
  DEF Next, Step

\* Inv holds initially and every step of the store keeps it.
THEOREM Invariance == Spec => []Inv
<1>1. Init => Inv
  <2> SUFFICES ASSUME Init PROVE Inv
    OBVIOUS
  <2> USE StoreAssumption
  <2>1. TypeOK
    BY IdleType DEF Init, TypeOK, NoLinks, Pam
  <2>2. LockInv /\ CallInv /\ LinkRowsFresh /\ UnlinkInv /\ LinkedInv
    BY DEF Init, Idle, Locked, LockInv, CallInv, LinkRowsFresh, UnlinkInv, LinkedInv
  <2>3. UsedInv /\ RotatedInv /\ CoherentInv
    BY DEF Init, Idle, Files, UsedInv, RotatedInv, RotatedGone, CoherentInv
  <2>4. QED
    BY <2>1, <2>2, <2>3 DEF Inv
<1>2. Inv /\ [Next]_vars => Inv'
  BY TypeStep, LockStep, CallStep, UsedStep, LinkRowsStep, RotatedStep, UnlinkStep,
     LinkedStep, CoherentStep DEF Inv
<1>3. QED
  BY <1>1, <1>2, PTL DEF Spec

\* The types of the store's files and of every call hold in every state.
THEOREM TypeCorrect == Spec => []TypeOK
<1>1. Inv => TypeOK
  BY DEF Inv
<1>2. QED
  BY <1>1, Invariance, PTL

\* withLock loses no update of links.json: what a call read is still there when it
\* writes, for any number of goroutines and CLI processes.
THEOREM NoLostUpdate == Spec => []LinkRowsFresh
<1>1. Inv => LinkRowsFresh
  BY DEF Inv
<1>2. QED
  BY <1>1, Invariance, PTL

\* bootstash unlink that reports success has left no row and no session file with
\* the user, whatever ran beside it and whatever failed before.
THEOREM UnlinkIsComplete == Spec => []UnlinkComplete
<1>1. Inv => UnlinkComplete
  BY DEF Inv, UnlinkInv, UnlinkComplete
<1>2. QED
  BY <1>1, Invariance, PTL

\* With the lock free, every session of a subject untouched by a failure has the
\* user its subject is linked to, or none.
THEOREM SessionsFollowLinks == Spec => []Coherent
<1>1. Inv => Coherent
  <2> SUFFICES ASSUME Inv, lock = NoProc, NEW id \in Files,
                      sessions[id].subj \notin dirty \cup {NoSubject}
               PROVE  Agrees(id)
    BY DEF Coherent
  <2>1. QED
    BY AllAgree DEF Inv
<1>2. QED
  BY <1>1, Invariance, PTL

\* The id a session had before a password login never has a file again.
THEOREM RotationIsFinal == Spec => []RotatedGone
<1>1. Inv => RotatedGone
  BY DEF Inv, RotatedInv
<1>2. QED
  BY <1>1, Invariance, PTL

\* A step that leaves the drawn ids alone, and every session as it was, without its
\* user, or gone, is a step of SessionRights.
LEMMA RevokeStep ==
  ASSUME TypeOK, UsedInv, used' = used,
         \A i \in Ids : RightsOf(i)' \in {RightsOf(i), NoUser}
  PROVE  Rights!Next
<1> DEFINE S == {i \in used : RightsOf(i)' = NoUser}
<1>1. \A i \in Ids : RightsOf(i) = Unissued <=> i \notin used
  <2>1. \A i \in Ids : sessions[i] # NoSession => sessions[i].pam \in Pam
    BY DEF TypeOK, Session
  <2>2. QED
    BY <2>1, StoreAssumption DEF RightsOf, Pam
<1>2. \A i \in Ids \ used : RightsOf(i)' = Unissued
  BY DEF RightsOf
<1>3. S \in SUBSET Ids
  BY DEF TypeOK
<1>4. RightsMap' = [i \in Ids |-> IF i \in S THEN NoUser ELSE RightsMap[i]]
  BY <1>1, <1>2 DEF RightsMap
<1>5. \A i \in S : RightsMap[i] # Unissued
  BY <1>1, <1>3 DEF RightsMap
<1>6. Rights!Revoke(S)
  BY <1>3, <1>4, <1>5 DEF Rights!Revoke
<1>7. QED
  BY <1>3, <1>6 DEF Rights!Next

\* A step that writes one new id is a step of SessionRights.
LEMMA IssueStep ==
  ASSUME TypeOK, UsedInv, NEW id \in Ids, NEW s \in Session, WriteFresh(id, s)
  PROVE  Rights!Next
<1>1. RightsOf(id) = Unissued /\ RightsOf(id)' = s.pam
  BY StoreAssumption DEF WriteFresh, RightsOf, TypeOK
<1>2. \A i \in Ids : i # id => RightsOf(i)' = RightsOf(i)
  BY DEF WriteFresh, RightsOf, TypeOK
<1>3. RightsMap' = [RightsMap EXCEPT ![id] = s.pam]
  BY <1>1, <1>2 DEF RightsMap
<1>4. Rights!Issue(id, s.pam)
  BY <1>1, <1>3 DEF Rights!Issue, RightsMap
<1>5. s.pam \in Users \cup {NoUser}
  BY DEF Session, Pam
<1>6. QED
  BY <1>4, <1>5 DEF Rights!Next

\* Store implements SessionRights: a session id is given its Unix user when it is
\* first written and can only lose it, through logouts, expiries, revocations and
\* failures in any order.
THEOREM RightsRefinement == Spec => RightsOnlyShrink
<1>1. Init => Rights!Init
  BY DEF Init, Rights!Init, RightsMap, RightsOf
<1>2. Inv /\ [Next]_vars => [Rights!Next]_RightsMap
  <2> SUFFICES ASSUME TypeOK, CallInv, UsedInv, [Next]_vars
               PROVE  Rights!Next \/ UNCHANGED RightsMap
    BY DEF Inv
  <2>1. CASE sessions' = sessions /\ used' = used
    BY <2>1 DEF RightsOf, RightsMap
  <2>2. ASSUME NEW p \in Procs, NEW id \in Ids, CreateSave(p, id) PROVE Rights!Next
    <3>1. [subj |-> call[p].sess.subj, pam |-> call[p].rows[call[p].sess.subj]] \in Session
      BY DEF TypeOK, Call, Session
    <3>2. QED
      BY <2>2, <3>1, IssueStep DEF CreateSave
  <2>3. ASSUME NEW p \in Procs, NEW id \in Ids, NEW u \in Users, CreatePAMSession(p, id, u)
        PROVE  Rights!Next
    <3>1. [subj |-> NoSubject, pam |-> u] \in Session
      BY DEF Session, AnySubject, Pam
    <3>2. QED
      BY <2>3, <3>1, IssueStep DEF CreatePAMSession
  <2>4. ASSUME NEW p \in Procs, NEW id \in Ids, SaveRotated(p, id) PROVE Rights!Next
    <3>1. [call[p].sess EXCEPT !.pam = call[p].user] \in Session
      BY DEF TypeOK, Call, Session
    <3>2. QED
      BY <2>4, <3>1, IssueStep DEF SaveRotated
  <2>5. ASSUME NEW id \in Ids, GetExpired(id) \/ DeleteSession(id) PROVE Rights!Next
    <3>1. used' = used /\ sessions' = [sessions EXCEPT ![id] = NoSession] /\ id \in used
      BY <2>5 DEF GetExpired, DeleteSession, history, UsedInv
    <3>2. \A i \in Ids : RightsOf(i)' \in {RightsOf(i), NoUser}
      BY <3>1 DEF RightsOf, TypeOK
    <3>3. QED
      BY <3>1, <3>2, RevokeStep
  <2>6. ASSUME NEW p \in Procs, RemoveOld(p) PROVE Rights!Next
    <3>1. used' = used /\ sessions' = [sessions EXCEPT ![call[p].id] = NoSession]
          /\ call[p].id \in used
      BY <2>6 DEF RemoveOld, UsedInv, CallInv
    <3>2. \A i \in Ids : RightsOf(i)' \in {RightsOf(i), NoUser}
      BY <3>1 DEF RightsOf, TypeOK
    <3>3. QED
      BY <3>1, <3>2, RevokeStep
  <2>7. ASSUME NEW p \in Procs, Rewrite(p) PROVE Rights!Next
    <3>1. PICK c \in used : c = call[p].cur
      BY <2>7 DEF Rewrite, UsedInv
    <3>2. used' = used /\ sessions' = [sessions EXCEPT ![c] = [call[p].buf EXCEPT !.pam = NoUser]]
      BY <2>7, <3>1 DEF Rewrite, history
    <3>3. [call[p].buf EXCEPT !.pam = NoUser].pam = NoUser
      BY DEF TypeOK, Call, Session
    <3>4. \A i \in Ids : RightsOf(i)' \in {RightsOf(i), NoUser}
      BY <3>1, <3>2, <3>3 DEF RightsOf, TypeOK
    <3>5. QED
      BY <3>2, <3>4, RevokeStep
  <2>8. CASE UNCHANGED vars
    BY <2>1, <2>8 DEF vars, history
  <2>9. ASSUME NEW p \in Procs,
               \/ Denied(p) \/ SaveLinkedSession(p) \/ SetLink(p) \/ DropLinks(p)
               \/ ReadDir(p) \/ ScanDone(p) \/ Fail(p)
               \/ \E s \in Subjects : CreateSession(p, s)
               \/ \E u \in Users : UnlinkPAM(p, u)
               \/ \E id \in Ids : Scan(p, id) \/ ScanMissing(p, id)
               \/ \E id \in Ids, u \in Users : GetSession(p, id, u)
        PROVE  sessions' = sessions /\ used' = used
    BY <2>9 DEF Denied, SaveLinkedSession, SetLink, DropLinks, ReadDir, ScanDone, Fail,
                CreateSession, UnlinkPAM, Scan, ScanMissing, GetSession, history
  <2>10. ASSUME NEW id \in Ids, Expire(id) PROVE sessions' = sessions /\ used' = used
    BY <2>10 DEF Expire, history
  <2>11. QED
    BY <2>1, <2>2, <2>3, <2>4, <2>5, <2>6, <2>7, <2>8, <2>9, <2>10 DEF Next, Step
<1>3. QED
  BY <1>1, <1>2, Invariance, PTL DEF Spec, RightsOnlyShrink, Rights!Spec
=============================================================================
