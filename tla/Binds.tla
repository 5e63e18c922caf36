-------------------------------- MODULE Binds --------------------------------
(***************************************************************************)
(* internal/bind and its callers: how the listeners follow LISTEN.         *)
(*                                                                         *)
(* Manager.Sync resolves every spec against the host without a lock, then  *)
(* closes and opens sockets under m.mu.  Two goroutines of bootstashd call *)
(* it: main, at start and on SIGHUP, and retryBinds, from one second after *)
(* the start until a call succeeds.                                        *)
(***************************************************************************)
EXTENDS Naturals, Sequences, FiniteSets, Functions

CONSTANTS
  Specs, NoSpec,
  Kind,        \* the kind of each spec
  Targets,     \* what Listen can open
  Configs,     \* [binds : a sequence of specs, tls : BOOLEAN]
  TargetsOf,   \* the targets each spec can stand for
  Places,      \* interfaces and addresses, which come and go
  Needs,       \* the places a target needs
  Fallback,    \* device target -> address targets of its interface
  UnixTargets  \* unix sockets: plain HTTP always

Kinds == {"unix", "any", "address", "cidr", "iface"}

ASSUME BindsAssumption ==
  /\ NoSpec \notin Specs
  /\ Kind \in [Specs -> Kinds]
  /\ Configs \subseteq [binds : Seq(Specs), tls : BOOLEAN]
  /\ TargetsOf \in [Specs -> SUBSET Targets]
  /\ Needs \in [Targets -> SUBSET Places]
  /\ Fallback \in [Targets -> SUBSET Targets]
  /\ UnixTargets \subseteq Targets
  /\ \A t \in Targets : Fallback[t] \cap UnixTargets = {}

VARIABLES
  up,       \* the places the host has now
  busy,     \* targets the kernel refuses: port taken, SO_BINDTODEVICE not permitted
  phase,    \* of the process: "down", "starting", "running"
  retry,    \* of retryBinds: "off", "waiting", "done"
  cfg,      \* the running configuration
  current,  \* m.current
  job       \* the Sync each goroutine is in

\* History, of the last Sync that applied.
VARIABLES
  stale,    \* it had read another configuration than the running one
  kept      \* its keepRaw

vars == <<up, busy, phase, retry, cfg, current, job, stale, kept>>

Callers == {"main", "retry"}

Closed == [spec |-> NoSpec, https |-> FALSE]

NoListeners == [t \in Targets |-> Closed]

Listening(t) == current[t] # Closed

Nothing == [t \in Targets |-> NoSpec]

\* Sync(specs, useTLS, reload) as it begins, with the configuration SyncBinds read.
Sync(c, reload) == [step |-> "sync", cfg |-> c, reload |-> reload, next |-> 1,
                    wanted |-> Nothing, keep |-> {}]

Idle == [Sync([binds |-> <<>>, tls |-> FALSE], FALSE) EXCEPT !.step = "idle"]

Init ==
  /\ up \in SUBSET Places
  /\ busy = {}
  /\ phase = "down"
  /\ retry = "off"
  /\ cfg \in Configs
  /\ current = NoListeners
  /\ job = [p \in Callers |-> Idle]
  /\ stale = FALSE
  /\ kept = {}

-----------------------------------------------------------------------------
(* The host *)

Up(t) == Needs[t] \subseteq up

CanListen(t) == Up(t) /\ t \notin busy

\* An interface or an address appears or goes.  Open sockets stay.
Change(x) ==
  /\ up' = IF x \in up THEN up \ {x} ELSE up \cup {x}
  /\ UNCHANGED <<busy, phase, retry, cfg, current, job, stale, kept>>

Refuse(t) ==
  /\ ~Listening(t)
  /\ busy' = IF t \in busy THEN busy \ {t} ELSE busy \cup {t}
  /\ UNCHANGED <<up, phase, retry, cfg, current, job, stale, kept>>

-----------------------------------------------------------------------------
(* Sync *)

\* Spec.Resolve; the empty set is an error.  Only a prefix and an interface look at
\* the host.
Resolve(sp) == {t \in TargetsOf[sp] : Kind[sp] \in {"cidr", "iface"} => Up(t)}

\* Mutant: retryBinds makes one attempt.
ReturnOnce(p, ok, listeners) ==
  /\ job' = [job EXCEPT ![p] = Idle]
  /\ IF p = "main" /\ phase = "starting"
       THEN /\ phase' = IF ok THEN "running" ELSE "down"
            /\ retry' = IF ok THEN "waiting" ELSE "off"
            /\ current' = IF ok THEN listeners ELSE NoListeners
       ELSE /\ retry' = IF p = "retry" THEN "done" ELSE retry
            /\ current' = listeners
            /\ UNCHANGED phase

\* Sync returns to its caller: log.Fatal at start, a log line on reload, another
\* round for retryBinds.
Return(p, ok, listeners) ==
  /\ job' = [job EXCEPT ![p] = Idle]
  /\ IF p = "main" /\ phase = "starting"
       THEN /\ phase' = IF ok THEN "running" ELSE "down"
            /\ retry' = IF ok THEN "waiting" ELSE "off"
            /\ current' = IF ok THEN listeners ELSE NoListeners
       ELSE /\ retry' = IF p = "retry" /\ ok THEN "done" ELSE retry
            /\ current' = listeners
            /\ UNCHANGED phase

\* Resolve succeeds on the next spec.
Resolved(p, sp) ==
  /\ Resolve(sp) # {}
  /\ job' = [job EXCEPT ![p].next = @ + 1,
                        ![p].wanted = [t \in Targets |-> IF t \in Resolve(sp) THEN sp ELSE @[t]]]
  /\ UNCHANGED <<phase, retry, current>>

\* It fails.  On reload a prefix or an interface keeps its listeners; otherwise an
\* empty prefix ends Sync at once and any other error is remembered.
Unresolved(p, sp) ==
  /\ Resolve(sp) = {}
  /\ IF Kind[sp] = "cidr" /\ ~job[p].reload
       THEN Return(p, FALSE, current)
       ELSE /\ job' = [job EXCEPT ![p].next = @ + 1,
                                  ![p].keep = IF job[p].reload /\ Kind[sp] \in {"cidr", "iface"}
                                                THEN @ \cup {sp} ELSE @]
            /\ UNCHANGED <<phase, retry, current>>

\* One round of the loop of manager.go:59.
ResolveNext(p) ==
  /\ job[p].step = "sync" /\ job[p].next <= Len(job[p].cfg.binds)
  /\ LET sp == job[p].cfg.binds[job[p].next] IN Resolved(p, sp) \/ Unresolved(p, sp)
  /\ UNCHANGED <<up, busy, cfg, stale, kept>>

Wanted(j) == {t \in Targets : j.wanted[t] # NoSpec}

\* Mutant: TLS on unix sockets too.
HttpsAll(j, t) == j.cfg.tls

\* useTLS && !t.Unix.
Https(j, t) == j.cfg.tls /\ t \notin UnixTargets

\* Mutant: keepRaw protects a target only while it is also wanted.
StayWanted(j) == {t \in Wanted(j) : Listening(t) /\ current[t].https = Https(j, t)}

\* Mutant: a wanted listener is left as it is when TLS changes.
StayPlain(j) == {t \in Targets : Listening(t) /\ (t \in Wanted(j) \/ current[t].spec \in j.keep)}

\* The listeners Sync leaves open: wanted with the same TLS, or kept.
Stay(j) == {t \in Targets : /\ Listening(t)
                            /\ \/ t \in Wanted(j) /\ current[t].https = Https(j, t)
                               \/ t \notin Wanted(j) /\ current[t].spec \in j.keep}

Opened(j) == {t \in Wanted(j) \ Stay(j) : CanListen(t)}

\* The specs on whose behalf f is opened because their device target cannot be.
FallbackFor(j, f) == {j.wanted[t] : t \in {t \in Wanted(j) \ (Stay(j) \cup Opened(j)) :
                                            f \in Fallback[t] /\ CanListen(f)}}

\* m.current after the two loops under m.mu.
Listeners(j) ==
  [t \in Targets |->
     IF t \in Opened(j) THEN [spec |-> j.wanted[t], https |-> Https(j, t)]
     ELSE IF t \in Stay(j) \cap Wanted(j) THEN [current[t] EXCEPT !.spec = j.wanted[t]]
     ELSE IF t \in Stay(j) THEN current[t]
     ELSE IF FallbackFor(j, t) # {}
       THEN [spec |-> CHOOSE sp \in FallbackFor(j, t) : TRUE, https |-> j.cfg.tls]
     ELSE Closed]

\* The part of Sync under m.mu; it fails only when nothing listens.
Apply(p) ==
  /\ job[p].step = "sync" /\ job[p].next > Len(job[p].cfg.binds)
  /\ Return(p, Listeners(job[p]) # NoListeners, Listeners(job[p]))
  /\ stale' = (job[p].cfg # cfg)
  /\ kept' = job[p].keep
  /\ UNCHANGED <<up, busy, cfg>>

-----------------------------------------------------------------------------
(* bootstashd *)

\* The process starts, by hand or by systemd's Restart=on-failure.
Start(c) ==
  /\ phase = "down"
  /\ phase' = "starting"
  /\ cfg' = c
  /\ job' = [p \in Callers |-> IF p = "main" THEN Sync(c, FALSE) ELSE Idle]
  /\ UNCHANGED <<up, busy, retry, current, stale, kept>>

\* SIGHUP with a configuration that passes configcheck.
Reload(c) ==
  /\ phase = "running" /\ job["main"].step = "idle"
  /\ cfg' = c
  /\ job' = [job EXCEPT !["main"] = Sync(c, TRUE)]
  /\ UNCHANGED <<up, busy, phase, retry, current, stale, kept>>

\* retryBinds wakes up.
RetryBinds ==
  /\ phase = "running" /\ retry = "waiting" /\ job["retry"].step = "idle"
  /\ job' = [job EXCEPT !["retry"] = Sync(cfg, FALSE)]
  /\ UNCHANGED <<up, busy, phase, retry, cfg, current, stale, kept>>

\* SIGTERM: Close, and the process ends with whatever retryBinds was doing.
Stop ==
  /\ phase = "running" /\ job["main"].step = "idle"
  /\ phase' = "down"
  /\ retry' = "off"
  /\ current' = NoListeners
  /\ job' = [p \in Callers |-> Idle]
  /\ UNCHANGED <<up, busy, cfg, stale, kept>>

Step(p) == ResolveNext(p) \/ Apply(p)

Next ==
  \/ \E p \in Callers : Step(p)
  \/ RetryBinds
  \/ \E c \in Configs : Start(c) \/ Reload(c)
  \/ Stop
  \/ \E x \in Places : Change(x)
  \/ \E t \in Targets : Refuse(t)

\* The goroutines are scheduled and the timer of retryBinds fires.
Fairness == WF_vars(RetryBinds) /\ \A p \in Callers : WF_vars(Step(p))

Spec == Init /\ [][Next]_vars /\ Fairness

-----------------------------------------------------------------------------
(* Properties *)

Config == [binds : Seq(Specs), tls : BOOLEAN]

\* Every variable keeps its type, and a unix socket is plain HTTP (manager.go:108).
TypeOK ==
  /\ up \subseteq Places /\ busy \subseteq Targets
  /\ phase \in {"down", "starting", "running"}
  /\ retry \in {"off", "waiting", "done"}
  /\ cfg \in Configs
  /\ current \in [Targets -> [spec : Specs \cup {NoSpec}, https : BOOLEAN]]
  /\ \A t \in UnixTargets : ~current[t].https
  /\ job \in [Callers -> [step : {"idle", "sync"}, cfg : Config, reload : BOOLEAN, next : Nat,
                         wanted : [Targets -> Specs \cup {NoSpec}], keep : SUBSET Specs]]
  /\ stale \in BOOLEAN /\ kept \subseteq Specs

\* At rest the sockets are those of the running configuration: each belongs to a spec
\* it lists and speaks what TLS says, unless the last Sync had to keep it from before
\* (manager.go:92-116).  The exception is a Sync that read the configuration before a
\* SIGHUP replaced it and applied it afterwards.
Settled ==
  phase = "running" /\ job["main"].step = "idle" /\ ~stale =>
    \A t \in Targets : Listening(t) =>
      /\ current[t].spec \in Range(cfg.binds)
      /\ current[t].spec \in kept \/ current[t].https = (cfg.tls /\ t \notin UnixTargets)

\* "Kept on reload" (man/bootstash.5:150): a SIGHUP does not close the listener of a
\* spec that the new list still has and of which it finds no target, however the host
\* changes meanwhile, unless another spec has to reopen that target with other TLS.
HupKeeps ==
  [][\A t \in Targets :
       (phase = "running" /\ phase' = "running" /\ job["main"].step = "sync" /\ Listening(t)
          /\ current'[t] = Closed /\ job'["main"].step = "idle")
       => \/ current[t].spec \notin Range(cfg.binds)
          \/ Wanted(job["main"]) \cap (TargetsOf[current[t].spec] \cup {t}) # {}
          \/ Kind[current[t].spec] \notin {"cidr", "iface"}]_vars

HostReady == <>[](up = Places /\ busy = {})

Deaf == phase = "running" /\ retry = "waiting" /\ current = NoListeners

\* A daemon that lost every listener while retryBinds was still at work gets some
\* back once the host has its interfaces and addresses, whatever SIGHUPs come
\* (main.go:124, manager.go:150).
DeafRecovers == HostReady => (Deaf ~> phase # "running" \/ current # NoListeners)

\* What DEVELOPERS.md:135 and man/bootstash.5:150 say of an interface missing at
\* start: it is retried, so once the host has it a daemon that goes on running
\* without a SIGHUP listens there.
MissingIfaceRetried ==
  \A sp \in {x \in Specs : Kind[x] = "iface"} :
    <>[](up = Places /\ busy = {} /\ phase = "running" /\ sp \in Range(cfg.binds))
      => <>(\E t \in Targets : current[t].spec = sp)
==============================================================================
