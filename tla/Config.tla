-------------------------------- MODULE Config --------------------------------
(***************************************************************************)
(* How a running bootstashd gets its configuration and certificate, while  *)
(* the operator edits the files, `bootstash provision-google` installs the *)
(* OAuth client and the certbot hook installs key pairs.  Start and SIGHUP *)
(* read everything in the same order, one file at a time.  A file is the   *)
(* set of keys it mentions with their values (the last line of a scalar,   *)
(* all lines of a list); one certificate name is known to the host.        *)
(***************************************************************************)
EXTENDS Naturals, Integers, FiniteSets

CONSTANTS
  Builtin,       \* the keys of default-dist
  Operators,     \* contents the operator may give /etc/default/bootstash
  Secrets,       \* contents he may give the secrets file
  Client,        \* the OAuth client that provision-google installs
  None,
  Fqdn,          \* whether hostname -f is a name that can be an origin
  MaxInt,        \* math.MaxInt64
  StartLimit,    \* starts that systemd tries in one interval
  MaxCerts,      \* key pairs certbot issues
  MaxEdits       \* changes by the operator, provisionings and crashes

VARIABLES
  operator,      \* the operator file
  secrets,       \* the secrets file; grp: the daemon's group can read it
  dir,           \* who can enter its directory, above certs/ too: "world", "group" or, of
                 \* another group, not the daemon ("closed")
  pem,           \* numbers of the pairs certs/ holds fullchain.pem and privkey.pem of
  edits,
  owed,          \* the operator has yet to reload
  prov,          \* provision-google: its place and its temporary file
  hook,          \* the certbot hook's place
  starts,        \* starts in systemd's current interval
  pc,            \* the daemon's place; boot: in main, before READY
  boot,
  draft,         \* what is read so far
  live,          \* the Server's cfg
  cert,          \* the Server's cert: the number of a pair, or 0
  store,         \* DATA of the store
  hup,           \* the signal channel's one slot
  raced,         \* history: the pair or its directory changed after Check had loaded it
  stale,         \* history: files changed since the draft, and since the live config, was read
  missed         \* history: something changed on disk while the daemon started

disk == <<operator, secrets, dir, pem>>
people == <<edits, owed, prov, hook, starts>>
daemon == <<pc, boot, draft, live, cert, store, hup>>
vars == <<disk, people, daemon, raced, stale, missed>>

\* Keys a file can give: sizes are numbers with a unit.
KeysOK(keys) ==
  /\ "DATA" \in DOMAIN keys => keys["DATA"] # None
  /\ "MAX_UPLOAD" \in DOMAIN keys => keys["MAX_UPLOAD"] \in [n : Int, mult : Nat \ {0}]

ASSUME ConfigAssumption ==
  /\ MaxInt \in Nat /\ MaxCerts \in Nat /\ MaxEdits \in Nat /\ StartLimit \in Nat \ {0}
  /\ Fqdn \in BOOLEAN
  /\ {"LISTEN", "DATA", "MAX_UPLOAD"} \subseteq DOMAIN Builtin
  /\ "ALLOWED_EMAILS" \in DOMAIN Builtin => Builtin["ALLOWED_EMAILS"] = {}
  /\ Operators \subseteq [ok : BOOLEAN, keys : {o.keys : o \in Operators}]
  /\ Secrets \subseteq [ok : BOOLEAN, grp : BOOLEAN, keys : {f.keys : f \in Secrets}]
  /\ \A keys \in {Builtin} \cup {f.keys : f \in Operators \cup Secrets} : KeysOK(keys)

\* A file without keys, and a daemon without a configuration.
Nothing == << >>

-----------------------------------------------------------------------------
(* Loading *)

\* mergeInto: a key that is mentioned replaces what was there, lists too.
MergeInto(dst, src) ==
  [k \in DOMAIN src \cup DOMAIN dst |-> IF k \in DOMAIN src THEN src[k] ELSE dst[k]]

\* Mutant: all that is deleted is IDP.
SecretKeysLoose == {"LISTEN", "ALLOWED_EMAILS", "IDP"}

\* The keys of a secrets file that load deletes and mergeScalars skips.
OperatorKeys == {"LISTEN", "ALLOWED_EMAILS", "IDP", "PAM"}

MergeSecrets(m, sec) == MergeInto(m, [k \in DOMAIN sec \ OperatorKeys |-> sec[k]])

Get(m, k, default) == IF k \in DOMAIN m THEN m[k] ELSE default

\* Numbers an int64 can tell apart.
Wrap == 2 * (MaxInt + 1)

\* n * mult, an int64.
ParseSize(s) ==
  LET w == (s.n * s.mult) % Wrap IN IF w <= MaxInt THEN w ELSE w - Wrap

\* Mutant: only ParseInt's own range.
SizeParsed(s) == s.n \in 0..MaxInt

\* ParseInt fails above the range, parseSize below zero; apply wants a positive size.
SizeOK(s) == s.n \in 0..MaxInt /\ ParseSize(s) > 0

\* apply without an error.
Applies(m) ==
  /\ Get(m, "PAM", "yes") \in {"yes", "no"}
  /\ Get(m, "TLS", "auto") \in {"auto", "no"}
  /\ Get(m, "IDP", {}) \subseteq {"google"}
  /\ SizeOK(m["MAX_UPLOAD"])

CertPair == pem.cert # 0 /\ pem.key # 0

\* Providers.
Providers(m) ==
  IF "IDP" \in DOMAIN m THEN m["IDP"]
  ELSE IF Get(m, "CLIENT", None) # None THEN {"google"} ELSE {}

\* deriveTLSFiles.
TLSFiles(m) ==
  LET given == Get(m, "TLS_FILES", {})
  IN  IF given = {} /\ CertPair THEN {"cert", "key"} ELSE given

UseTLS(m) == Get(m, "TLS", "auto") # "no" /\ TLSFiles(m) = {"cert", "key"}

\* deriveCertName and derivePublicURL.
PublicURL(m) ==
  IF Get(m, "PUBLIC_URL", "") # "" THEN m["PUBLIC_URL"]
  ELSE IF (CertPair \/ Fqdn) /\ "tcp" \in m["LISTEN"]
    THEN (IF UseTLS(m) THEN "https" ELSE "http")
  ELSE ""

\* The Config that load makes of the merged keys.
ConfigOf(m) ==
  [pam |-> Get(m, "PAM", "yes") = "yes", idps |-> Providers(m), client |-> Get(m, "CLIENT", None),
   data |-> m["DATA"], emails |-> Get(m, "ALLOWED_EMAILS", {}), binds |-> m["LISTEN"],
   off |-> Get(m, "TLS", "auto") = "no", files |-> TLSFiles(m), tls |-> UseTLS(m),
   url |-> PublicURL(m), max |-> ParseSize(m["MAX_UPLOAD"]), size |-> m["MAX_UPLOAD"]]

Ready(c) ==
  /\ c.url # ""
  /\ c.idps # {} => c.client # None
  /\ c.pam \/ c.idps # {}
  /\ c.off \/ Cardinality(c.files) # 1
  /\ c.binds # {}

\* bind.ParseSpec of every LISTEN.
SpecsOK(c) == "junk" \notin c.binds

Enters == dir # "closed"

\* LoadX509KeyPair.
KeyPair == Enters /\ CertPair /\ pem.cert = pem.key

FromFiles == MergeInto(Builtin, operator.keys)

Merged == MergeSecrets(FromFiles, secrets.keys)

-----------------------------------------------------------------------------

NoProv == [pc |-> "idle", grp |-> FALSE]

\* As installed: both files say nothing, and certbot may have run.  The directory is that
\* of bootstash.tmpfiles, or one made by hand or not yet.
Init ==
  /\ operator = [ok |-> TRUE, keys |-> Nothing]
  /\ secrets = [ok |-> TRUE, keys |-> Nothing, grp |-> TRUE]
  /\ dir \in {"world", "group"}
  /\ pem \in {[cert |-> v, key |-> v] : v \in {0, 1} \cap (0..MaxCerts)}
  /\ edits = 0 /\ owed = FALSE /\ prov = NoProv /\ hook = "idle" /\ starts = 0
  /\ pc = "down" /\ boot = FALSE /\ draft = Nothing /\ live = Nothing
  /\ cert = 0 /\ store = None /\ hup = FALSE
  /\ raced = FALSE /\ stale = [draft |-> FALSE, live |-> FALSE] /\ missed = FALSE

\* The main loop is reached: SIGHUP has its channel.
Running == pc \notin {"down", "off", "ready"} /\ ~boot

\* Files change: who has read them already holds what they were.
Changed ==
  /\ stale' = [draft |-> TRUE, live |-> TRUE]
  /\ missed' = (missed \/ boot)

-----------------------------------------------------------------------------
(* The daemon: main and reload *)

Begin(b) == pc' = "files" /\ boot' = b /\ missed' = FALSE

\* systemd starts it, and again after a failure (Restart=on-failure).
Start ==
  /\ pc = "down" /\ starts < StartLimit /\ starts' = starts + 1 /\ Begin(TRUE)
  /\ UNCHANGED <<disk, edits, owed, prov, hook, draft, live, cert, store, hup, raced, stale>>

\* systemd's default StartLimitBurst: the unit has failed for good.
GiveUp ==
  /\ pc = "down" /\ starts = StartLimit /\ pc' = "off"
  /\ UNCHANGED <<disk, people, boot, draft, live, cert, store, hup, raced, stale, missed>>

\* StartLimitIntervalSec is over, for a daemon that fails slowly.
IntervalEnds ==
  /\ pc = "down" /\ starts # 0 /\ starts' = 0
  /\ UNCHANGED <<disk, edits, owed, prov, hook, daemon, raced, stale, missed>>

\* The operator starts a service that has ended or that systemd has given up.
StartService ==
  /\ pc = "off" /\ edits < MaxEdits /\ edits' = edits + 1 /\ starts' = 1 /\ Begin(TRUE)
  /\ UNCHANGED <<disk, owed, prov, hook, draft, live, cert, store, hup, raced, stale>>

\* A signal is taken from the channel.
Reload ==
  /\ pc = "up" /\ hup /\ Begin(FALSE)
  /\ hup' = FALSE
  /\ UNCHANGED <<disk, people, draft, live, cert, store, raced, stale>>

\* Mutant: the daemon stays without a configuration.
RejectAndStay == pc' = "up" /\ boot' = FALSE /\ draft' = Nothing

\* log.Fatal, or "keeping last good config".
Reject == pc' = (IF boot THEN "down" ELSE "up") /\ boot' = FALSE /\ draft' = Nothing

\* load reads the dist and the operator file.
ReadFiles ==
  /\ pc = "files"
  /\ IF operator.ok THEN pc' = "secrets" /\ draft' = FromFiles /\ UNCHANGED boot ELSE Reject
  /\ stale' = [stale EXCEPT !.draft = FALSE]
  /\ UNCHANGED <<disk, people, live, cert, store, hup, raced, missed>>

\* load reads the secrets and looks for the pair; Ready; ParseSpec.
ReadSecrets ==
  /\ pc = "secrets"
  /\ LET m == MergeSecrets(draft, secrets.keys)
         c == ConfigOf(m) IN
     IF Enters /\ secrets.ok /\ secrets.grp /\ Applies(m) /\ Ready(c) /\ SpecsOK(c)
       THEN draft' = c /\ pc' = (IF c.tls THEN "pair" ELSE "set") /\ UNCHANGED boot
       ELSE Reject
  /\ UNCHANGED <<disk, people, live, cert, store, hup, raced, stale, missed>>

\* Mutant: Check is content with the names of the files.
PairUnchecked == TRUE

\* Check's LoadX509KeyPair.
PairChecked == KeyPair

CheckPair ==
  /\ pc = "pair"
  /\ IF PairChecked THEN pc' = "cert" /\ UNCHANGED <<boot, draft>> ELSE Reject
  /\ UNCHANGED <<disk, people, live, cert, store, hup, raced, stale, missed>>

\* LoadCertificate: fatal at start, otherwise the previous certificate stays.
LoadCertificate ==
  /\ pc = "cert"
  /\ \/ KeyPair /\ cert' = pem.cert /\ raced' = FALSE /\ pc' = "set" /\ UNCHANGED <<boot, draft>>
     \/ ~KeyPair /\ boot /\ Reject /\ UNCHANGED <<cert, raced>>
     \/ ~KeyPair /\ ~boot /\ pc' = "set" /\ UNCHANGED <<boot, draft, cert, raced>>
  /\ UNCHANGED <<disk, people, live, store, hup, stale, missed>>

\* SetConfig and SyncBinds; the store was opened once, by main, which then sends READY=1.
SetConfig ==
  /\ pc = "set"
  /\ live' = draft /\ draft' = Nothing /\ pc' = (IF boot THEN "ready" ELSE "up") /\ boot' = FALSE
  /\ store' = IF boot THEN draft.data ELSE store
  /\ stale' = [stale EXCEPT !.live = stale.draft]
  /\ UNCHANGED <<disk, people, cert, hup, raced, missed>>

\* signal.Notify, after READY=1.
Notify ==
  /\ pc = "ready" /\ pc' = "up"
  /\ UNCHANGED <<disk, people, boot, draft, live, cert, store, hup, raced, stale, missed>>

\* The process is gone; systemd goes on at place.
Gone(place) ==
  /\ pc' = place /\ boot' = FALSE /\ draft' = Nothing /\ live' = Nothing /\ cert' = 0
  /\ store' = None /\ hup' = FALSE /\ raced' = FALSE

Crash ==
  /\ pc \notin {"down", "off"} /\ edits < MaxEdits /\ edits' = edits + 1
  /\ Gone("down")
  /\ UNCHANGED <<disk, owed, prov, hook, starts, stale, missed>>

\* Mutant: a signal during a reload is dropped.
SignalUnbuffered == hup' = (pc = "up")

\* The channel holds one signal; more are dropped.
Signal == hup' = TRUE

\* kill -HUP.  Between READY=1 and signal.Notify it ends the process, and Restart=on-failure
\* takes that for a clean exit.
Sighup ==
  \/ Running /\ Signal /\ UNCHANGED <<pc, boot, draft, live, cert, store, raced>>
  \/ pc = "ready" /\ Gone("off")
  \/ ~Running /\ pc # "ready" /\ UNCHANGED <<daemon, raced>>

-----------------------------------------------------------------------------
(* The operator *)

Edit ==
  /\ edits < MaxEdits /\ edits' = edits + 1 /\ owed' = TRUE
  /\ \/ operator' \in Operators \ {operator} /\ UNCHANGED secrets
     \/ secrets' \in {[s EXCEPT !.grp = secrets.grp] : s \in Secrets} \ {secrets} /\ UNCHANGED operator
  /\ Changed
  /\ UNCHANGED <<dir, pem, prov, hook, starts, daemon, raced>>

\* systemctl reload, which waits for a start to end.
ReloadService ==
  /\ owed /\ ~boot /\ prov = NoProv
  /\ owed' = FALSE /\ Sighup
  /\ UNCHANGED <<disk, edits, prov, hook, starts, stale, missed>>

\* provision-google loads the configuration and makes the directory 0750: one that was
\* open to all, or that it creates, is closed to the daemon until it has its group.
ProvisionDir ==
  /\ prov = NoProv /\ edits < MaxEdits /\ edits' = edits + 1 /\ owed' = TRUE
  /\ operator.ok /\ secrets.ok /\ Applies(Merged)
  /\ dir' = IF dir = "world" THEN "closed" ELSE dir
  /\ raced' = (raced \/ (pc = "cert" /\ dir = "world"))
  /\ prov' = [pc |-> "dir", grp |-> FALSE]
  /\ UNCHANGED <<operator, secrets, pem, hook, starts, daemon, stale, missed>>

\* chownGroup of the directory, whose errors are ignored; <secrets>.tmp is written.
ProvisionWrite(found) ==
  /\ prov.pc = "dir"
  /\ prov' = [prov EXCEPT !.pc = "tmp"]
  /\ dir' = IF found THEN "group" ELSE dir
  /\ UNCHANGED <<operator, secrets, pem, edits, owed, hook, starts, daemon, raced, stale, missed>>

\* chownGroup of the temporary file.
ProvisionGroup(found) ==
  /\ prov.pc = "tmp"
  /\ prov' = [pc |-> "grouped", grp |-> found]
  /\ UNCHANGED <<disk, edits, owed, hook, starts, daemon, raced, stale, missed>>

ProvisionRename ==
  /\ prov.pc = "grouped"
  /\ secrets' = [ok |-> TRUE, keys |-> [CLIENT |-> Client], grp |-> prov.grp]
  /\ prov' = [prov EXCEPT !.pc = "renamed"]
  /\ Changed
  /\ UNCHANGED <<operator, dir, pem, edits, owed, hook, starts, daemon, raced>>

ProvisionRegroup(found) ==
  /\ prov.pc = "renamed"
  /\ prov' = NoProv
  /\ secrets' = [secrets EXCEPT !.grp = @ \/ found]
  /\ UNCHANGED <<operator, dir, pem, edits, owed, hook, starts, daemon, raced, stale, missed>>

\* A call fails, or the command is killed.
ProvisionFails ==
  /\ prov # NoProv /\ prov' = NoProv
  /\ UNCHANGED <<disk, edits, owed, hook, starts, daemon, raced, stale, missed>>

-----------------------------------------------------------------------------
(* contrib/letsencrypt-deploy *)

TLSOff == Get(operator.keys, "TLS", "auto") = "no"

\* install of fullchain.pem and of privkey.pem, or rm of both under TLS=no.
HookCert ==
  /\ hook = "idle" /\ pem.cert < MaxCerts /\ ~TLSOff
  /\ pem' = [pem EXCEPT !.cert = @ + 1]
  /\ hook' = "key"

HookKey ==
  /\ hook = "key"
  /\ pem' = [pem EXCEPT !.key = pem.cert]
  /\ hook' = "reload"

HookPurge ==
  /\ hook = "idle" /\ TLSOff /\ CertPair
  /\ pem' = [cert |-> 0, key |-> 0]
  /\ hook' = "reload"

HookStep ==
  /\ HookCert \/ HookKey \/ HookPurge
  /\ raced' = (raced \/ pc = "cert")
  /\ missed' = (missed \/ boot)
  /\ UNCHANGED <<operator, secrets, dir, edits, owed, prov, starts, daemon, stale>>

\* systemctl is-active, then reload.
HookReload ==
  /\ hook = "reload" /\ hook' = "idle"
  /\ Sighup
  /\ UNCHANGED <<disk, edits, owed, prov, starts, stale, missed>>

-----------------------------------------------------------------------------

Daemon ==
  \/ Start \/ GiveUp \/ Reload \/ ReadFiles \/ ReadSecrets \/ CheckPair \/ LoadCertificate
  \/ SetConfig \/ Notify

Provision ==
  \/ \E found \in BOOLEAN : ProvisionWrite(found) \/ ProvisionGroup(found) \/ ProvisionRegroup(found)
  \/ ProvisionRename \/ ProvisionFails

Next ==
  \/ Daemon \/ IntervalEnds \/ Crash
  \/ Edit \/ StartService \/ ReloadService \/ ProvisionDir \/ Provision
  \/ HookStep \/ HookReload

\* The daemon's loop goes on, and systemd restarts it or gives up; a command that was begun
\* ends, and the operator reloads after a change or a provision-google, a failed one too.
Fairness ==
  /\ WF_vars(Daemon) /\ WF_vars(ReloadService) /\ WF_vars(Provision)
  /\ WF_vars(HookStep /\ hook = "key") /\ WF_vars(HookReload)

Spec == Init /\ [][Next]_vars /\ Fairness

-----------------------------------------------------------------------------
(* `bootstash put`, `mkdir` and `unlink`, which read the files as they are *)

\* LoadOperator.
Operator == ConfigOf(FromFiles)

\* pickPutEmail.
PickPutEmail(flag) ==
  IF flag # None THEN IF flag \in Operator.emails THEN flag ELSE None
  ELSE IF Cardinality(Operator.emails) = 1 THEN CHOOSE e \in Operator.emails : TRUE ELSE None

\* cubbyDir: the cubby's parent in DATA and, for home/, whose it is; None is an error.
CubbyDir(flag) ==
  IF ~operator.ok \/ ~Applies(FromFiles) THEN None
  ELSE IF Operator.pam THEN IF flag = None THEN <<Operator.data, "users", None>> ELSE None
  ELSE IF PickPutEmail(flag) = None THEN None
  ELSE <<Operator.data, "home", PickPutEmail(flag)>>

\* jailPath and emailHomeID: the cubbies the daemon serves, to sessions with these addresses.
Serves(cubby, addresses) ==
  IF live.pam THEN cubby = <<live.data, "users", None>>
  ELSE \E e \in addresses : cubby = <<live.data, "home", e>> /\ (live.emails = {} \/ e \in live.emails)

-----------------------------------------------------------------------------
(* Properties *)

\* The daemon has a configuration and a store exactly when it is past its start, and a
\* signal waits only in a daemon that can take it.
TypeOK ==
  /\ pc \in {"down", "files", "secrets", "pair", "cert", "set", "ready", "up", "off"}
  /\ (live = Nothing) = (pc \in {"down", "off"} \/ boot) /\ (store = None) = (live = Nothing)
  /\ (hup => Running) /\ starts \in 0..StartLimit
  /\ cert \in 0..MaxCerts /\ pem \in [cert : 0..MaxCerts, key : 0..MaxCerts]
  /\ pc \in {"down", "ready", "up", "off"} => draft = Nothing

\* Whenever the daemon's listeners speak TLS a certificate is loaded, unless the hook
\* changed the pair, or provision-google its directory, after Check had loaded it: reload
\* carries on when LoadCertificate fails, even if there is no previous certificate to keep.
CertLoaded == live # Nothing /\ live.tls => cert # 0 \/ raced

\* As long as the files are those the daemon has read, put copies to a cubby the daemon
\* serves, whatever the secrets hold, and unlink works on the daemon's store.  DATA is
\* the exception: put does not see one in the secrets, and SIGHUP does not move the store.
CliAgrees ==
  live # Nothing /\ ~stale.live =>
    /\ "DATA" \notin DOMAIN secrets.keys =>
         LET known == UNION {Get(o.keys, "ALLOWED_EMAILS", {}) : o \in Operators} IN
         \A flag \in known \cup {None} : CubbyDir(flag) # None => Serves(CubbyDir(flag), known)
    /\ live.data = store => Merged["DATA"] = store

\* A size that wraps around is refused or only makes the limit smaller, never zero,
\* negative or larger than what was written.
SizeBound == live # Nothing => live.max \in 1..(live.size.n * live.size.mult)

\* What Check accepts of the files as they are.
Accepted ==
  /\ operator.ok /\ Enters /\ secrets.ok /\ secrets.grp /\ Applies(Merged)
  /\ Ready(ConfigOf(Merged)) /\ SpecsOK(ConfigOf(Merged))
  /\ UseTLS(Merged) => KeyPair

\* Once everybody rests, a daemon whose files are acceptable runs on exactly what they
\* say, with the newest pair, whatever reloads met the hook or provision-google half way:
\* the signal of whoever changed something last is still taken.  A change while the daemon
\* starts can be missed, since the hook signals active services only; and a service that
\* is "off", ended by a signal between READY=1 and signal.Notify or given up by systemd
\* after failed starts, stays off whatever is put right, until somebody starts it.
Settles ==
  <>[](~missed /\ pc # "off" /\ Accepted =>
         pc = "up" /\ live = ConfigOf(Merged) /\ (live.tls => cert = pem.cert))
===============================================================================
