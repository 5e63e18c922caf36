----------------------------- MODULE ConfigProofs -----------------------------
(***************************************************************************)
(* The properties of Config for any files the operator writes, any client, *)
(* any number of key pairs and any range of sizes.                         *)
(*                                                                         *)
(* Inv says what the daemon knows at each place of main and reload: what   *)
(* it has read is what the files say unless they changed since, what has   *)
(* passed apply has a usable size and DATA, and behind Check the pair on   *)
(* disk matches unless the hook or a provisioning came in between.         *)
(***************************************************************************)
EXTENDS Config, FiniteSetTheorems, TLAPS

\* What the files can hold.
OpKeys == {o.keys : o \in Operators} \cup {Nothing}

SecKeys == {f.keys : f \in Secrets} \cup {Nothing, [CLIENT |-> Client]}

Disk ==
  /\ operator \in [ok : BOOLEAN, keys : OpKeys]
  /\ secrets \in [ok : BOOLEAN, keys : SecKeys, grp : BOOLEAN]
  /\ prov \in [pc : {"idle", "dir", "tmp", "grouped", "renamed"}, grp : BOOLEAN]

History ==
  /\ stale \in [draft : BOOLEAN, live : BOOLEAN]
  /\ boot \in BOOLEAN /\ raced \in BOOLEAN /\ hup \in BOOLEAN
  /\ boot => pc \in {"files", "secrets", "pair", "cert", "set"}

\* Keys as load has merged them.
FileMap(m) == {"DATA", "MAX_UPLOAD"} \subseteq DOMAIN m /\ KeysOK(m)

\* A configuration that apply has passed.
Good(c) == c # Nothing /\ c.data # None /\ c.max \in 1..(c.size.n * c.size.mult)

\* The files say the same of the cubbies as c.
Agrees(c) ==
  /\ c.pam = (Get(FromFiles, "PAM", "yes") = "yes")
  /\ c.data = Merged["DATA"]
  /\ c.emails = Get(FromFiles, "ALLOWED_EMAILS", {})

Drafts ==
  /\ pc = "secrets" => FileMap(draft) /\ (~stale.draft => draft = FromFiles)
  /\ pc \in {"pair", "cert", "set"} => Good(draft) /\ (~stale.draft => Agrees(draft))

Lives == live # Nothing => Good(live) /\ (~stale.live => Agrees(live))

Certs ==
  /\ pc = "cert" => KeyPair \/ raced
  /\ pc = "set" /\ draft.tls => cert # 0 \/ raced
  /\ CertLoaded

Inv == TypeOK /\ Disk /\ History /\ Drafts /\ Lives /\ Certs

-----------------------------------------------------------------------------
(* Loading *)

LEMMA KeysMerged ==
  ASSUME NEW dst, NEW src, FileMap(dst), KeysOK(src)
  PROVE  FileMap(MergeInto(dst, src))
<1>1. PICK f : f = MergeInto(dst, src)
  OBVIOUS
<1>2. /\ DOMAIN f = DOMAIN src \cup DOMAIN dst
      /\ \A k \in DOMAIN src : f[k] = src[k]
      /\ \A k \in DOMAIN dst \ DOMAIN src : f[k] = dst[k]
  BY <1>1 DEF MergeInto
<1>3. FileMap(f)
  BY <1>2 DEF FileMap, KeysOK
<1> QED BY <1>1, <1>3

LEMMA KeysKnown ==
  ASSUME NEW keys \in OpKeys \cup SecKeys
  PROVE  KeysOK(keys)
<1>1. KeysOK(Nothing) /\ KeysOK([CLIENT |-> Client])
  BY DEF KeysOK, Nothing
<1> QED BY <1>1, ConfigAssumption DEF OpKeys, SecKeys

LEMMA FilesMap == Disk => FileMap(FromFiles)
<1>1. FileMap(Builtin)
  BY ConfigAssumption DEF FileMap
<1> QED BY <1>1, KeysKnown, KeysMerged DEF Disk, FromFiles

\* The keys a secrets file may set, and those it may not.
LEMMA SecretsMap ==
  ASSUME NEW m, FileMap(m), NEW sec \in SecKeys
  PROVE  /\ FileMap(MergeSecrets(m, sec))
         /\ \A k \in OperatorKeys : \A d : Get(MergeSecrets(m, sec), k, d) = Get(m, k, d)
         /\ "DATA" \notin DOMAIN sec => MergeSecrets(m, sec)["DATA"] = m["DATA"]
<1> DEFINE s == [k \in DOMAIN sec \ OperatorKeys |-> sec[k]]
<1>1. KeysOK(sec)
  BY KeysKnown
<1>2. KeysOK(s)
  BY <1>1 DEF KeysOK
<1>3. FileMap(MergeInto(m, s))
  BY <1>2, KeysMerged
<1>4. \A k \in OperatorKeys : k \notin DOMAIN s
  OBVIOUS
<1>5. "DATA" \notin DOMAIN sec => "DATA" \notin DOMAIN s
  OBVIOUS
<1>6. "DATA" \in DOMAIN m
  BY DEF FileMap
<1>7. MergeSecrets(m, sec) = MergeInto(m, s)
  BY DEF MergeSecrets
<1> HIDE DEF s
<1>8. PICK f : f = MergeInto(m, s)
  OBVIOUS
<1>9. /\ DOMAIN f = DOMAIN s \cup DOMAIN m
      /\ \A k \in DOMAIN m \ DOMAIN s : f[k] = m[k]
  BY <1>8 DEF MergeInto
<1>10. \A k \in OperatorKeys : \A d : Get(f, k, d) = Get(m, k, d)
  BY <1>4, <1>9 DEF Get
<1>11. "DATA" \notin DOMAIN sec => f["DATA"] = m["DATA"]
  BY <1>5, <1>6, <1>9
<1> QED BY <1>3, <1>7, <1>8, <1>10, <1>11

\* A product that wraps around to a positive number only gets smaller.
LEMMA SizeWraps ==
  ASSUME NEW s \in [n : Int, mult : Nat \ {0}], SizeOK(s)
  PROVE  ParseSize(s) \in 1..(s.n * s.mult)
<1>1. Wrap \in Nat \ {0} /\ MaxInt \in Nat
  BY ConfigAssumption DEF Wrap
<1>2. s.n \in Nat /\ s.mult \in Nat
  BY <1>1 DEF SizeOK
<1>3. s.n * s.mult \in Nat
  BY <1>2
<1> DEFINE x == s.n * s.mult
<1> HIDE DEF x
<1>4. x % Wrap \in 0..(Wrap - 1) /\ x % Wrap <= x /\ x \in Nat
  BY <1>1, <1>3 DEF x
<1>5. ParseSize(s) = IF x % Wrap <= MaxInt THEN x % Wrap ELSE (x % Wrap) - Wrap
  BY DEF ParseSize, x
<1>6. ParseSize(s) > 0
  BY DEF SizeOK
<1>7. ParseSize(s) \in 1..x
  BY <1>1, <1>4, <1>5, <1>6
<1> QED BY <1>7 DEF x

LEMMA GoodConfig ==
  ASSUME NEW m, FileMap(m), Applies(m)
  PROVE  Good(ConfigOf(m))
<1>1. ConfigOf(m).max \in 1..(ConfigOf(m).size.n * ConfigOf(m).size.mult)
  <2>1. m["MAX_UPLOAD"] \in [n : Int, mult : Nat \ {0}] /\ SizeOK(m["MAX_UPLOAD"])
    BY DEF FileMap, KeysOK, Applies
  <2> QED BY <2>1, SizeWraps DEF ConfigOf
<1>2. ConfigOf(m).data # None
  BY DEF ConfigOf, FileMap, KeysOK
<1>3. ConfigOf(m) # Nothing
  BY DEF ConfigOf, Nothing
<1> QED BY <1>1, <1>2, <1>3 DEF Good

LEMMA AgreesMerged ==
  ASSUME Disk
  PROVE  Agrees(ConfigOf(Merged))
<1>1. FileMap(FromFiles) /\ secrets.keys \in SecKeys
  BY FilesMap DEF Disk
<1>2. \A d : /\ Get(Merged, "PAM", d) = Get(FromFiles, "PAM", d)
             /\ Get(Merged, "ALLOWED_EMAILS", d) = Get(FromFiles, "ALLOWED_EMAILS", d)
  BY <1>1, SecretsMap DEF Merged, OperatorKeys
<1> QED BY <1>2 DEF Agrees, ConfigOf

-----------------------------------------------------------------------------
(* Initial states, and steps that change nothing of a kind *)

LEMMA InitInv == Init => Inv
<1> SUFFICES ASSUME Init PROVE Inv
  OBVIOUS
<1> USE ConfigAssumption
<1>1. Disk
  BY DEF Init, Disk, NoProv, OpKeys, SecKeys
<1>2. TypeOK
  BY DEF Init, TypeOK
<1>3. History /\ Drafts /\ Lives /\ Certs
  BY DEF Init, History, Drafts, Lives, Certs, CertLoaded
<1> QED BY <1>1, <1>2, <1>3 DEF Inv

\* What the files say does not change with their group.
LEMMA FilesStay ==
  ASSUME UNCHANGED <<operator, secrets.keys>>
  PROVE  /\ FromFiles' = FromFiles /\ Merged' = Merged
         /\ \A c : Agrees(c)' <=> Agrees(c)
<1>1. FromFiles' = FromFiles
  BY DEF FromFiles
<1>2. Merged' = Merged
  BY <1>1 DEF Merged
<1> QED BY <1>1, <1>2 DEF Agrees

\* The daemon goes on with a draft that is as good as the one it had.
LEMMA DaemonStep ==
  ASSUME Inv, Daemon, starts' \in 0..StartLimit
  PROVE  Inv'
<1> USE ConfigAssumption DEF Running
<1>0. /\ UNCHANGED <<operator, secrets, pem, prov, dir>> /\ KeyPair' = KeyPair /\ Disk'
      /\ FromFiles' = FromFiles /\ Merged' = Merged
  <2>1. UNCHANGED <<operator, secrets, pem, prov, dir>>
    BY DEF Daemon, Start, GiveUp, Reload, ReadFiles, ReadSecrets, CheckPair, LoadCertificate, SetConfig,
           Notify, disk, people
  <2>2. Disk' /\ KeyPair' = KeyPair
    BY <2>1 DEF Inv, Disk, KeyPair, CertPair, Enters
  <2> QED BY <2>1, <2>2, FilesStay
<1>d. Disk
  BY DEF Inv
<1>1. ASSUME Reject, boot \/ pc # "down", UNCHANGED <<live, cert, store, hup, raced>>,
             stale'.live = stale.live, stale' \in [draft : BOOLEAN, live : BOOLEAN],
             pc \in {"files", "secrets", "pair", "cert"}
      PROVE  Inv'
  <2>1. TypeOK' /\ History'
    BY <1>0, <1>1 DEF Inv, TypeOK, History, Reject
  <2>2. Drafts' /\ Certs'
    BY <1>0, <1>1 DEF Inv, Drafts, Certs, CertLoaded, Reject
  <2>3. Lives'
    BY <1>0, <1>1 DEF Inv, Lives, Agrees
  <2> QED BY <1>0, <2>1, <2>2, <2>3 DEF Inv
<1>2. CASE Start \/ Reload
  <2>0. /\ pc' = "files" /\ boot' \in BOOLEAN /\ hup' = FALSE
        /\ UNCHANGED <<draft, live, cert, store, raced, stale>>
        /\ (pc = "down" /\ boot') \/ (pc = "up" /\ ~boot')
    <3>1. CASE Start
      BY <3>1 DEF Start, Begin, Inv, TypeOK, History
    <3>2. CASE Reload
      BY <3>2 DEF Reload, Begin
    <3> QED BY <1>2, <3>1, <3>2
  <2>1. TypeOK' /\ History'
    <3>1. History'
      BY <2>0 DEF Inv, History
    <3>2. (live' = Nothing) = (pc' \in {"down", "off"} \/ boot') /\ (store' = None) = (live' = Nothing)
      BY <2>0 DEF Inv, TypeOK, History
    <3> QED BY <1>0, <2>0, <3>1, <3>2 DEF Inv, TypeOK
  <2>2. Drafts' /\ Certs'
    BY <1>0, <1>2 DEF Inv, Drafts, Certs, CertLoaded, Start, Reload, Begin
  <2>3. Lives'
    BY <1>0, <1>2 DEF Inv, Lives, Agrees, Start, Reload
  <2> QED BY <1>0, <2>1, <2>2, <2>3 DEF Inv
<1>3. CASE ReadFiles
  <2>0. /\ stale' \in [draft : BOOLEAN, live : BOOLEAN] /\ stale'.live = stale.live
        /\ stale'.draft = FALSE
    BY <1>3 DEF ReadFiles, Inv, History
  <2>1. CASE operator.ok
    <3>1. TypeOK' /\ History'
      BY <1>0, <1>3, <2>0, <2>1 DEF Inv, TypeOK, History, ReadFiles
    <3>2. Drafts'
      BY <1>0, <1>d, <1>3, <2>0, <2>1, FilesMap DEF Drafts, ReadFiles
    <3>3. Certs' /\ Lives'
      BY <1>0, <1>3, <2>0, <2>1 DEF Inv, Certs, CertLoaded, Lives, Agrees, ReadFiles
    <3> QED BY <1>0, <3>1, <3>2, <3>3 DEF Inv
  <2>2. CASE ~operator.ok
    BY <1>1, <1>3, <2>0, <2>2 DEF ReadFiles
  <2> QED BY <2>1, <2>2
<1>4. CASE ReadSecrets
  <2>0. UNCHANGED <<live, cert, store, hup, raced, stale>> /\ pc = "secrets"
    BY <1>4 DEF ReadSecrets
  <2>s. stale \in [draft : BOOLEAN, live : BOOLEAN]
    BY DEF Inv, History
  <2>1. PICK m : m = MergeSecrets(draft, secrets.keys)
    OBVIOUS
  <2>2. PICK c : c = ConfigOf(m)
    OBVIOUS
  <2>3. CASE Enters /\ secrets.ok /\ secrets.grp /\ Applies(m) /\ Ready(c) /\ SpecsOK(c)
    <3>1. draft' = c /\ pc' = (IF c.tls THEN "pair" ELSE "set") /\ UNCHANGED boot
      BY <1>4, <2>1, <2>2, <2>3 DEF ReadSecrets
    <3>2. FileMap(m)
      BY <2>0, <2>1, SecretsMap DEF Inv, Drafts, Disk
    <3>3. Good(c)
      BY <2>2, <2>3, <3>2, GoodConfig
    <3>4. ~stale.draft => Agrees(c)
      <4>1. ~stale.draft => m = Merged
        BY <2>0, <2>1 DEF Inv, Drafts, Merged
      <4> QED BY <1>d, <2>2, <4>1, AgreesMerged
    <3>5. TypeOK' /\ History'
      BY <1>0, <2>0, <3>1 DEF Inv, TypeOK, History
    <3>6. Drafts'
      BY <1>0, <2>0, <3>1, <3>3, <3>4 DEF Drafts, Agrees
    <3>7. Certs' /\ Lives'
      BY <1>0, <2>0, <3>1 DEF Inv, Certs, CertLoaded, Lives, Agrees
    <3> QED BY <1>0, <3>5, <3>6, <3>7 DEF Inv
  <2>4. CASE ~(Enters /\ secrets.ok /\ secrets.grp /\ Applies(m) /\ Ready(c) /\ SpecsOK(c))
    <3>1. Reject
      BY <1>4, <2>1, <2>2, <2>4 DEF ReadSecrets
    <3> QED BY <1>1, <2>0, <2>s, <3>1
  <2> QED BY <2>3, <2>4
<1>5. CASE CheckPair
  <2>0. UNCHANGED <<live, cert, store, hup, raced, stale>> /\ pc = "pair"
    BY <1>5 DEF CheckPair
  <2>s. stale \in [draft : BOOLEAN, live : BOOLEAN]
    BY DEF Inv, History
  <2>1. CASE PairChecked
    <3>1. TypeOK' /\ History'
      BY <1>0, <1>5, <2>0, <2>1 DEF Inv, TypeOK, History, CheckPair
    <3>2. Drafts'
      BY <1>0, <1>5, <2>0, <2>1 DEF Inv, Drafts, CheckPair, Agrees
    <3>3. Certs' /\ Lives'
      BY <1>0, <1>5, <2>0, <2>1 DEF Inv, Certs, CertLoaded, Lives, Agrees, CheckPair, PairChecked
    <3> QED BY <1>0, <3>1, <3>2, <3>3 DEF Inv
  <2>2. CASE ~PairChecked
    <3>1. Reject
      BY <1>5, <2>2 DEF CheckPair
    <3> QED BY <1>1, <2>0, <2>s, <3>1
  <2> QED BY <2>1, <2>2
<1>6. CASE LoadCertificate
  <2>0. UNCHANGED <<live, store, hup, stale>> /\ pc = "cert"
    BY <1>6 DEF LoadCertificate
  <2>s. stale \in [draft : BOOLEAN, live : BOOLEAN]
    BY DEF Inv, History
  <2>1. CASE ~KeyPair /\ boot
    <3>1. Reject /\ UNCHANGED <<cert, raced>>
      BY <1>6, <2>1 DEF LoadCertificate
    <3> QED BY <1>1, <2>0, <2>s, <3>1
  <2>2. CASE KeyPair \/ ~boot
    <3>0. /\ pc' = "set" /\ UNCHANGED <<boot, draft>> /\ cert' \in 0..MaxCerts /\ raced' \in BOOLEAN
      BY <1>6, <2>2 DEF Inv, TypeOK, History, LoadCertificate
    <3>1. TypeOK' /\ History'
      <4>1. History'
        BY <2>0, <3>0 DEF Inv, History
      <4>2. (live' = Nothing) = (pc' \in {"down", "off"} \/ boot') /\ (store' = None) = (live' = Nothing)
        BY <2>0, <3>0 DEF Inv, TypeOK
      <4> QED BY <1>0, <2>0, <3>0, <4>1, <4>2 DEF Inv, TypeOK
    <3>2. Drafts'
      BY <1>0, <1>6, <2>0, <2>2 DEF Inv, Drafts, LoadCertificate, Agrees
    <3>3. Certs'
      BY <1>0, <1>6, <2>0, <2>2 DEF Inv, Certs, CertLoaded, LoadCertificate, KeyPair, CertPair
    <3>4. Lives'
      BY <1>0, <2>0 DEF Inv, Lives, Agrees
    <3> QED BY <1>0, <3>1, <3>2, <3>3, <3>4 DEF Inv
  <2> QED BY <2>1, <2>2
<1>7. CASE SetConfig
  <2>0. /\ stale' \in [draft : BOOLEAN, live : BOOLEAN] /\ stale'.live = stale.draft
        /\ stale'.draft = stale.draft
    BY <1>7 DEF SetConfig, Inv, History
  <2>1. Good(draft) /\ (~stale.draft => Agrees(draft))
    BY <1>7 DEF SetConfig, Inv, Drafts
  <2>2. TypeOK' /\ History'
    BY <1>0, <1>7, <2>0, <2>1 DEF Inv, TypeOK, History, SetConfig, Good
  <2>3. Drafts' /\ Certs'
    BY <1>0, <1>7, <2>0 DEF Inv, Drafts, Certs, CertLoaded, SetConfig
  <2>4. Lives'
    BY <1>0, <1>7, <2>0, <2>1 DEF Lives, Agrees, SetConfig
  <2> QED BY <1>0, <2>2, <2>3, <2>4 DEF Inv
<1>8. CASE Notify
  <2>0. pc = "ready" /\ pc' = "up" /\ UNCHANGED <<boot, draft, live, cert, store, hup, raced, stale>>
    BY <1>8 DEF Notify
  <2>1. TypeOK' /\ History'
    <3>1. ~hup /\ ~boot
      BY <2>0 DEF Inv, TypeOK, History
    <3>2. History' /\ ~hup' /\ ~boot'
      BY <2>0, <3>1 DEF Inv, History
    <3>3. (live' = Nothing) = (pc' \in {"down", "off"} \/ boot') /\ (store' = None) = (live' = Nothing)
      BY <2>0, <3>1 DEF Inv, TypeOK
    <3> QED BY <1>0, <2>0, <3>2, <3>3 DEF Inv, TypeOK
  <2>2. Drafts' /\ Certs' /\ Lives'
    BY <1>0, <1>8 DEF Inv, Drafts, Certs, CertLoaded, Lives, Agrees, Notify
  <2> QED BY <1>0, <2>1, <2>2 DEF Inv
<1>9. CASE GiveUp
  <2>0. pc = "down" /\ pc' = "off" /\ UNCHANGED <<boot, draft, live, cert, store, hup, raced, stale>>
    BY <1>9 DEF GiveUp
  <2>1. ~hup /\ ~boot /\ live = Nothing /\ store = None /\ draft = Nothing
    BY <2>0 DEF Inv, TypeOK, History
  <2>2. History'
    BY <2>0, <2>1 DEF Inv, History
  <2>3. TypeOK'
    BY <1>0, <2>0, <2>1 DEF Inv, TypeOK
  <2>4. Drafts' /\ Certs' /\ Lives'
    BY <2>0, <2>1 DEF Drafts, Certs, CertLoaded, Lives
  <2> QED BY <1>0, <2>2, <2>3, <2>4 DEF Inv
<1> QED BY <1>2, <1>3, <1>4, <1>5, <1>6, <1>7, <1>8, <1>9 DEF Daemon

\* Steps that leave the daemon where it is, and steps that end it.
LEMMA DaemonStays ==
  ASSUME Inv, UNCHANGED <<operator, secrets.keys, pem, pc, boot, draft, live, cert, store, stale>>,
         raced' \in BOOLEAN, raced => raced', KeyPair' # KeyPair => raced' \/ pc # "cert",
         starts' \in 0..StartLimit, Disk', hup' \in BOOLEAN, hup' => Running
  PROVE  Inv'
<1> USE DEF Running
<1>1. FromFiles' = FromFiles /\ Merged' = Merged
  BY FilesStay
<1>2. History'
  BY DEF Inv, History
<1>3. (live' = Nothing) = (pc' \in {"down", "off"} \/ boot') /\ (store' = None) = (live' = Nothing)
  BY DEF Inv, TypeOK
<1>4. TypeOK'
  BY <1>3 DEF Inv, TypeOK
<1>5. Drafts' /\ Lives' /\ Certs'
  BY <1>1 DEF Inv, Drafts, Lives, Certs, CertLoaded, Agrees
<1> QED BY <1>2, <1>4, <1>5 DEF Inv

LEMMA DaemonGone ==
  ASSUME Inv, UNCHANGED <<operator, secrets, pem, prov, stale>>,
         starts' \in 0..StartLimit, NEW place \in {"down", "off"}, Gone(place)
  PROVE  Inv'
<1> USE ConfigAssumption DEF Running
<1>1. Disk' /\ History'
  BY DEF Inv, Disk, History, Gone
<1>2. TypeOK'
  BY DEF Inv, TypeOK, Gone
<1>3. Drafts' /\ Lives' /\ Certs'
  BY DEF Drafts, Lives, Certs, CertLoaded, Gone
<1> QED BY <1>1, <1>2, <1>3 DEF Inv

LEMMA SighupStep ==
  ASSUME Inv, Sighup, UNCHANGED <<operator, secrets, pem, prov, dir, starts, stale>>
  PROVE  Inv'
<1>1. Disk' /\ starts' \in 0..StartLimit /\ KeyPair' = KeyPair /\ raced \in BOOLEAN
  BY DEF Inv, Disk, TypeOK, History, KeyPair, CertPair, Enters
<1>2. CASE Running /\ Signal /\ UNCHANGED <<pc, boot, draft, live, cert, store, raced>>
  BY <1>1, <1>2, DaemonStays DEF Signal
<1>3. CASE pc = "ready" /\ Gone("off")
  BY <1>1, <1>3, DaemonGone
<1>4. CASE UNCHANGED <<daemon, raced>>
  BY <1>1, <1>4, DaemonStays DEF daemon, Inv, TypeOK, History
<1> QED BY <1>2, <1>3, <1>4 DEF Sighup

\* Somebody writes a file: what has been read of it is out of date.
LEMMA FilesChange ==
  ASSUME Inv, Changed, Disk', UNCHANGED <<pem, dir, starts, daemon, raced>>
  PROVE  Inv'
<1> USE DEF Running
<1>0. UNCHANGED <<pc, boot, draft, live, cert, store, hup>> /\ KeyPair' = KeyPair
  BY DEF daemon, KeyPair, CertPair, Enters
<1>1. stale' \in [draft : BOOLEAN, live : BOOLEAN] /\ stale'.draft /\ stale'.live
  BY DEF Changed
<1>2. History'
  BY <1>0, <1>1 DEF Inv, History
<1>3. (live' = Nothing) = (pc' \in {"down", "off"} \/ boot') /\ (store' = None) = (live' = Nothing)
  BY <1>0 DEF Inv, TypeOK
<1>4. TypeOK'
  BY <1>0, <1>3 DEF Inv, TypeOK
<1>5. Drafts' /\ Lives' /\ Certs'
  BY <1>0, <1>1 DEF Inv, Drafts, Lives, Certs, CertLoaded
<1> QED BY <1>2, <1>4, <1>5 DEF Inv

LEMMA InvStep == Inv /\ [Next]_vars => Inv'
<1> SUFFICES ASSUME Inv, [Next]_vars PROVE Inv'
  OBVIOUS
<1> USE ConfigAssumption
<1>0. /\ operator \in [ok : BOOLEAN, keys : OpKeys]
      /\ secrets \in [ok : BOOLEAN, keys : SecKeys, grp : BOOLEAN]
      /\ prov \in [pc : {"idle", "dir", "tmp", "grouped", "renamed"}, grp : BOOLEAN]
      /\ hup \in BOOLEAN /\ (hup => Running) /\ raced \in BOOLEAN /\ starts \in 0..StartLimit
  BY DEF Inv, Disk, History, TypeOK
\* A step of the commands that changes neither the daemon nor what the files say.
<1>1. ASSUME UNCHANGED <<operator, secrets.keys, pem, daemon, raced, stale>>, Disk',
             starts' \in 0..StartLimit, UNCHANGED dir \/ dir' = "group"
      PROVE  Inv'
  <2>1. KeyPair' # KeyPair => raced' \/ pc # "cert"
    <3>1. KeyPair => KeyPair'
      BY <1>1 DEF KeyPair, CertPair, Enters
    <3>2. pc = "cert" => KeyPair \/ raced
      BY DEF Inv, Certs
    <3> QED BY <1>1, <3>1, <3>2 DEF KeyPair
  <2> QED BY <1>0, <1>1, <2>1, DaemonStays DEF daemon
<1>2. CASE StartService
  <2>0. /\ pc = "off" /\ pc' = "files" /\ boot' = TRUE /\ starts' \in 0..StartLimit
        /\ UNCHANGED <<operator, secrets, pem, prov, draft, live, cert, store, hup, raced, stale>>
    BY <1>2 DEF StartService, Begin, disk
  <2>1. ~hup /\ live = Nothing /\ store = None
    BY <2>0 DEF Inv, TypeOK, Running
  <2>2. Disk' /\ History'
    BY <2>0 DEF Inv, Disk, History
  <2>3. TypeOK'
    BY <2>0, <2>1 DEF Inv, TypeOK, Running
  <2>4. Drafts' /\ Lives' /\ Certs'
    BY <2>0, <2>1 DEF Drafts, Lives, Certs, CertLoaded
  <2> QED BY <2>2, <2>3, <2>4 DEF Inv
<1>3. CASE Crash
  BY <1>0, <1>3, DaemonGone DEF Crash, disk
<1>4. CASE Edit
  <2>1. UNCHANGED <<pem, dir, starts, prov, daemon, raced>> /\ Changed
    BY <1>4 DEF Edit
  <2>2. operator' \in [ok : BOOLEAN, keys : OpKeys]
    BY <1>0, <1>4 DEF Edit, OpKeys
  <2>3. secrets' \in [ok : BOOLEAN, keys : SecKeys, grp : BOOLEAN]
    <3>1. CASE UNCHANGED secrets
      BY <1>0, <3>1
    <3>2. CASE ~UNCHANGED secrets
      <4>1. PICK f \in Secrets : secrets' = [f EXCEPT !.grp = secrets.grp]
        BY <1>4, <3>2 DEF Edit
      <4>2. f \in [ok : BOOLEAN, grp : BOOLEAN, keys : SecKeys]
        BY DEF SecKeys
      <4> QED BY <1>0, <4>1, <4>2
    <3> QED BY <3>1, <3>2
  <2>4. Disk'
    BY <1>0, <2>1, <2>2, <2>3 DEF Disk
  <2> QED BY <2>1, <2>4, FilesChange
<1>5. CASE ReloadService \/ HookReload
  BY <1>5, SighupStep DEF ReloadService, HookReload, disk
<1>6. CASE ProvisionDir
  <2>1. /\ UNCHANGED <<operator, secrets, pem, pc, boot, draft, live, cert, store, hup, stale, starts>>
        /\ raced' = (raced \/ (pc = "cert" /\ dir = "world")) /\ (dir' # dir => dir = "world")
    BY <1>6 DEF ProvisionDir, daemon
  <2>2. raced' \in BOOLEAN /\ (raced => raced') /\ (KeyPair' # KeyPair => raced' \/ pc # "cert")
    BY <1>0, <2>1 DEF KeyPair, CertPair, Enters
  <2>3. Disk'
    BY <1>0, <1>6, <2>1 DEF ProvisionDir, Disk
  <2> QED BY <1>0, <2>1, <2>2, <2>3, DaemonStays
<1>w. ASSUME NEW found \in BOOLEAN, ProvisionWrite(found) PROVE Inv'
  BY <1>0, <1>1, <1>w DEF ProvisionWrite, Disk
<1>f. CASE ProvisionFails
  BY <1>0, <1>1, <1>f DEF ProvisionFails, NoProv, disk, Disk
<1>i. CASE IntervalEnds
  BY <1>0, <1>1, <1>i DEF IntervalEnds, disk, Disk
<1>7. ASSUME NEW found \in BOOLEAN, ProvisionGroup(found) PROVE Inv'
  BY <1>0, <1>1, <1>7 DEF ProvisionGroup, disk, Disk
<1>8. ASSUME NEW found \in BOOLEAN, ProvisionRegroup(found) PROVE Inv'
  <2>1. prov' \in [pc : {"idle", "dir", "tmp", "grouped", "renamed"}, grp : BOOLEAN]
    BY <1>8 DEF ProvisionRegroup, NoProv
  <2>2. secrets' = [secrets EXCEPT !.grp = secrets.grp \/ found]
    BY <1>8 DEF ProvisionRegroup
  <2>3. (secrets.grp \/ found) \in BOOLEAN
    BY <1>0
  <2>4. secrets' \in [ok : BOOLEAN, keys : SecKeys, grp : BOOLEAN] /\ secrets'.keys = secrets.keys
    BY <1>0, <2>2, <2>3
  <2>5. UNCHANGED <<operator, dir, starts, pem, daemon, raced, stale>>
    BY <1>8 DEF ProvisionRegroup
  <2> QED BY <1>0, <1>1, <2>1, <2>4, <2>5 DEF Disk
<1>9. CASE ProvisionRename
  <2>1. UNCHANGED <<operator, dir, starts, pem, daemon, raced>> /\ Changed
    BY <1>9 DEF ProvisionRename
  <2>2. secrets' \in [ok : BOOLEAN, keys : SecKeys, grp : BOOLEAN]
    BY <1>0, <1>9 DEF ProvisionRename, SecKeys
  <2>3. prov' \in [pc : {"idle", "dir", "tmp", "grouped", "renamed"}, grp : BOOLEAN]
    BY <1>0, <1>9 DEF ProvisionRename
  <2> QED BY <1>0, <2>1, <2>2, <2>3, FilesChange DEF Disk
<1>10. CASE HookStep
  <2>0. /\ UNCHANGED <<operator, secrets, prov, starts, pc, boot, draft, live, cert, store, hup, stale>>
        /\ raced' = (raced \/ pc = "cert")
    BY <1>10 DEF HookStep, daemon
  <2>1. pem' \in [cert : 0..MaxCerts, key : 0..MaxCerts]
    BY <1>10 DEF HookStep, HookCert, HookKey, HookPurge, Inv, TypeOK
  <2>2. FromFiles' = FromFiles /\ Merged' = Merged
    BY <2>0, FilesStay
  <2>3. Disk' /\ History'
    BY <2>0 DEF Inv, Disk, History
  <2>4. (live' = Nothing) = (pc' \in {"down", "off"} \/ boot') /\ (store' = None) = (live' = Nothing)
    BY <2>0 DEF Inv, TypeOK
  <2>5. TypeOK'
    BY <2>0, <2>1, <2>4 DEF Inv, TypeOK, Running
  <2>6. Drafts' /\ Lives'
    BY <2>0, <2>2 DEF Inv, Drafts, Lives, Agrees
  <2>7. Certs'
    BY <2>0 DEF Inv, Certs, CertLoaded
  <2> QED BY <2>3, <2>5, <2>6, <2>7 DEF Inv
<1>11. CASE UNCHANGED vars
  BY <1>0, <1>1, <1>11 DEF vars, disk, people, Disk
<1>12. CASE Daemon
  <2>1. starts' \in 0..StartLimit
    <3>1. CASE Start
      BY <1>0, <3>1 DEF Start
    <3>2. CASE ~Start
      <4>1. starts' = starts
        BY <1>12, <3>2 DEF Daemon, GiveUp, Reload, ReadFiles, ReadSecrets, CheckPair,
                           LoadCertificate, SetConfig, Notify, people
      <4> QED BY <1>0, <4>1
    <3> QED BY <3>1, <3>2
  <2> QED BY <1>12, <2>1, DaemonStep
<1> QED
  BY <1>2, <1>3, <1>4, <1>5, <1>6, <1>w, <1>f, <1>i, <1>7, <1>8, <1>9, <1>10, <1>11, <1>12 DEF Next, Provision

-----------------------------------------------------------------------------
(* The theorems *)

\* Inv holds at every place of main and reload, whoever writes files meanwhile.
THEOREM ConfigInvariance == Spec => []Inv
BY InitInv, InvStep, PTL DEF Spec

\* A daemon past its start has a configuration and a store, one before it has neither,
\* and a signal waits only in a daemon that can take it.
THEOREM ConfigTypes == Spec => []TypeOK
<1>1. Inv => TypeOK
  BY DEF Inv
<1> QED BY <1>1, ConfigInvariance, PTL

\* TLS without a certificate takes a hook or a provisioning between Check and
\* LoadCertificate.
THEOREM CertLoadedHolds == Spec => []CertLoaded
<1>1. Inv => CertLoaded
  BY DEF Inv, Certs
<1> QED BY <1>1, ConfigInvariance, PTL

\* Whatever number and unit MAX_UPLOAD has, a limit in force is positive and not larger.
THEOREM SizeBoundHolds == Spec => []SizeBound
<1>1. Inv => SizeBound
  BY DEF Inv, Lives, Good, SizeBound
<1> QED BY <1>1, ConfigInvariance, PTL

\* put and mkdir choose a cubby that the daemon serves, and unlink its store, as long as
\* the daemon has read the files as they are.
THEOREM CliAgreesHolds == Spec => []CliAgrees
<1>1. Inv => CliAgrees
  <2> SUFFICES ASSUME Inv, live # Nothing, ~stale.live PROVE CliAgrees
    BY DEF CliAgrees
  <2> DEFINE known == UNION {Get(o.keys, "ALLOWED_EMAILS", {}) : o \in Operators}
  <2>0. Agrees(live) /\ FileMap(FromFiles) /\ operator.keys \in OpKeys /\ secrets.keys \in SecKeys
    BY FilesMap DEF Inv, Lives, Disk
  <2>1. live.data = store => Merged["DATA"] = store
    BY <2>0 DEF Agrees
  <2>2. /\ Operator.pam = live.pam /\ Operator.emails = live.emails
        /\ Operator.data = FromFiles["DATA"]
    BY <2>0 DEF Operator, ConfigOf, Agrees
  <2>3. "DATA" \notin DOMAIN secrets.keys => Operator.data = live.data
    BY <2>0, <2>2, SecretsMap DEF Agrees, Merged
  <2>4. Operator.emails \subseteq known
    <3>1. Operator.emails = Get(FromFiles, "ALLOWED_EMAILS", {})
      BY DEF Operator, ConfigOf
    <3>2. CASE "ALLOWED_EMAILS" \in DOMAIN operator.keys
      <4>1. Operator.emails = operator.keys["ALLOWED_EMAILS"]
        BY <3>1, <3>2 DEF Get, FromFiles, MergeInto
      <4>2. PICK o \in Operators : operator.keys = o.keys
        BY <2>0, <3>2 DEF OpKeys, Nothing
      <4>3. Get(o.keys, "ALLOWED_EMAILS", {}) = operator.keys["ALLOWED_EMAILS"]
        BY <3>2, <4>2 DEF Get
      <4> QED BY <4>1, <4>3
    <3>3. CASE "ALLOWED_EMAILS" \notin DOMAIN operator.keys
      BY <3>1, <3>3, ConfigAssumption DEF Get, FromFiles, MergeInto
    <3> QED BY <3>2, <3>3
  <2> HIDE DEF known
  <2>5. ASSUME "DATA" \notin DOMAIN secrets.keys, NEW flag \in known \cup {None}, CubbyDir(flag) # None
        PROVE  Serves(CubbyDir(flag), known)
    <3>1. CASE Operator.pam
      <4>1. CubbyDir(flag) = <<Operator.data, "users", None>>
        BY <2>5, <3>1 DEF CubbyDir
      <4> QED BY <2>2, <2>3, <2>5, <3>1, <4>1 DEF Serves
    <3>2. CASE ~Operator.pam
      <4>1. /\ PickPutEmail(flag) # None
            /\ CubbyDir(flag) = <<Operator.data, "home", PickPutEmail(flag)>>
        BY <2>5, <3>2 DEF CubbyDir
      <4>2. PickPutEmail(flag) \in Operator.emails
        <5>1. CASE flag # None
          BY <4>1, <5>1 DEF PickPutEmail
        <5>2. CASE flag = None
          <6>1. Cardinality(Operator.emails) = 1
                /\ PickPutEmail(flag) = CHOOSE e \in Operator.emails : TRUE
            BY <4>1, <5>2 DEF PickPutEmail
          <6>2. Operator.emails # {}
            BY <6>1, FS_EmptySet
          <6> QED BY <6>1, <6>2
        <5> QED BY <5>1, <5>2
      <4> QED BY <2>2, <2>3, <2>4, <2>5, <3>2, <4>1, <4>2 DEF Serves
    <3> QED BY <3>1, <3>2
  <2> QED BY <2>1, <2>5 DEF CliAgrees, known
<1> QED BY <1>1, ConfigInvariance, PTL
===============================================================================
