----------------------------- MODULE BindsProofs -----------------------------
(***************************************************************************)
(* The properties of Binds for any specs, targets, hosts and               *)
(* configurations.                                                         *)
(*                                                                         *)
(* Inv adds what a Sync under way has found out: every target it wants and *)
(* every spec it keeps comes from the list it read, and each spec it has   *)
(* been through has a target or, on reload, is kept.                       *)
(***************************************************************************)
EXTENDS Binds, TLAPS

Job == [step : {"idle", "sync"}, cfg : Config, reload : BOOLEAN, next : Nat,
        wanted : [Targets -> Specs \cup {NoSpec}], keep : SUBSET Specs]

Floating(sp) == Kind[sp] \in {"cidr", "iface"}

\* The targets and the specs of j are of the list that j read.
Listed(j) ==
  /\ j.next # 0
  /\ \A t \in Targets : j.wanted[t] # NoSpec => j.wanted[t] \in Range(j.cfg.binds)
  /\ j.keep \subseteq Range(j.cfg.binds)

\* What the loop has done about the specs before the next one.
Seen(j) ==
  \A i \in 1..Len(j.cfg.binds) : i < j.next =>
    \/ Wanted(j) \cap TargetsOf[j.cfg.binds[i]] # {}
    \/ j.reload /\ Floating(j.cfg.binds[i]) => j.cfg.binds[i] \in j.keep

Jobs == \A p \in Callers : Listed(job[p]) /\ Seen(job[p])

\* Main works on the running configuration, and reloads when the process is up.
Main ==
  job["main"].step = "sync" => job["main"].cfg = cfg /\ (phase = "running" => job["main"].reload)

Inv == TypeOK /\ Jobs /\ Main /\ Settled

-----------------------------------------------------------------------------
(* Jobs *)

LEMMA SyncJob ==
  ASSUME NEW c \in Config, NEW r \in BOOLEAN
  PROVE  Sync(c, r) \in Job /\ Listed(Sync(c, r)) /\ Seen(Sync(c, r))
<1>1. Sync(c, r) \in Job
  BY DEF Sync, Job, Nothing
<1>2. Listed(Sync(c, r))
  BY DEF Sync, Listed, Nothing
<1>3. Seen(Sync(c, r))
  BY DEF Sync, Seen, Config
<1> QED BY <1>1, <1>2, <1>3

LEMMA IdleJob == Idle \in Job /\ Listed(Idle) /\ Seen(Idle) /\ Idle.step = "idle"
<1> DEFINE c == [binds |-> <<>>, tls |-> FALSE]
           j == Sync(c, FALSE)
<1>1. c \in Config
  BY DEF Config
<1>2. j \in Job /\ Listed(j) /\ Seen(j)
  BY <1>1, SyncJob
<1>3. Idle = [j EXCEPT !.step = "idle"]
  BY DEF Idle
<1> HIDE DEF j
<1>4. /\ Idle \in Job /\ Idle.step = "idle" /\ Idle.next = j.next /\ Idle.wanted = j.wanted
      /\ Idle.keep = j.keep /\ Idle.cfg = j.cfg /\ Idle.reload = j.reload
  BY <1>2, <1>3 DEF Job
<1> QED BY <1>2, <1>4 DEF Listed, Seen, Wanted

\* What Return leaves of the jobs.
LEMMA ReturnJobs ==
  ASSUME job \in [Callers -> Job], NEW p \in Callers, job' = [job EXCEPT ![p] = Idle]
  PROVE  /\ job' \in [Callers -> Job] /\ job'[p] = Idle
         /\ \A q \in Callers \ {p} : job'[q] = job[q]
BY IdleJob

\* The loop goes on to the next spec, with a target for this one or without.
LEMMA LoopStep ==
  ASSUME TypeOK, Jobs, NEW p \in Callers, ResolveNext(p), ~(job'[p] = Idle)
  PROVE  /\ job' \in [Callers -> Job] /\ \A q \in Callers \ {p} : job'[q] = job[q]
         /\ job'[p].step = "sync" /\ job'[p].cfg = job[p].cfg /\ job'[p].reload = job[p].reload
         /\ Listed(job'[p]) /\ Seen(job'[p])
         /\ UNCHANGED <<phase, retry, current>>
<1> USE BindsAssumption
<1> DEFINE sp == job[p].cfg.binds[job[p].next]
<1>0. job \in [Callers -> Job] /\ job[p] \in Job /\ job[p].cfg \in Config /\ job[p].next \in Nat
  BY DEF TypeOK, Job
<1>1. /\ job[p].step = "sync" /\ job[p].next \in 1..Len(job[p].cfg.binds)
      /\ sp \in Specs /\ sp \in Range(job[p].cfg.binds)
  BY <1>0 DEF ResolveNext, Jobs, Listed, Config, Range
<1>2. CASE Resolved(p, sp)
  <2> DEFINE W == [t \in Targets |-> IF t \in Resolve(sp) THEN sp ELSE job[p].wanted[t]]
  <2>1. /\ job' = [job EXCEPT ![p] = [job[p] EXCEPT !.next = job[p].next + 1, !.wanted = W]]
        /\ UNCHANGED <<phase, retry, current>>
    BY <1>0, <1>2 DEF Resolved
  <2>2. W \in [Targets -> Specs \cup {NoSpec}]
    BY <1>0, <1>1 DEF Job
  <2>3. /\ \A t \in Targets : W[t] = IF t \in Resolve(sp) THEN sp ELSE job[p].wanted[t]
        /\ Resolve(sp) \subseteq TargetsOf[sp] /\ Resolve(sp) # {} /\ TargetsOf[sp] \subseteq Targets
    BY <1>1, <1>2 DEF Resolved, Resolve
  <2> HIDE DEF W, sp
  <2>a. job'[p] = [job[p] EXCEPT !.next = job[p].next + 1, !.wanted = W]
    BY <1>0, <2>1
  <2>b. job[p].next + 1 \in Nat
    BY <1>0
  <2>c. job'[p] \in Job
    BY ONLY <1>0, <2>2, <2>a, <2>b DEF Job
  <2>4. /\ job'[p].step = "sync" /\ job'[p].cfg = job[p].cfg
        /\ job'[p].reload = job[p].reload /\ job'[p].next = job[p].next + 1
        /\ job'[p].wanted = W /\ job'[p].keep = job[p].keep
    BY ONLY <1>0, <1>1, <2>a DEF Job
  <2>5. job' \in [Callers -> Job] /\ \A q \in Callers \ {p} : job'[q] = job[q]
    BY <1>0, <2>1, <2>c
  <2>6. Listed(job'[p])
    BY <1>0, <1>1, <2>3, <2>4 DEF Jobs, Listed
  <2>7. Wanted(job[p]) \cup Resolve(sp) \subseteq Wanted(job'[p])
    BY <1>1, <2>3, <2>4 DEF Wanted
  <2>8. Seen(job'[p])
    <3> SUFFICES ASSUME NEW i \in 1..Len(job[p].cfg.binds), i < job[p].next + 1
                 PROVE  \/ Wanted(job'[p]) \cap TargetsOf[job[p].cfg.binds[i]] # {}
                        \/ /\ job[p].reload /\ Floating(job[p].cfg.binds[i])
                           => job[p].cfg.binds[i] \in job[p].keep
      BY <2>4 DEF Seen
    <3>1. CASE i = job[p].next
      BY <2>3, <2>7, <3>1 DEF sp
    <3>2. CASE i # job[p].next
      <4>1. i < job[p].next
        BY <1>0, <3>2
      <4> QED BY <2>7, <4>1 DEF Jobs, Seen
    <3> QED BY <3>1, <3>2
  <2> QED BY <2>1, <2>4, <2>5, <2>6, <2>8
<1>3. CASE Unresolved(p, sp)
  <2> DEFINE K == IF job[p].reload /\ Floating(sp) THEN job[p].keep \cup {sp} ELSE job[p].keep
  <2>0. ~(Kind[sp] = "cidr" /\ ~job[p].reload)
    BY <1>0, <1>3 DEF Unresolved, Return
  <2>1. /\ job' = [job EXCEPT ![p] = [job[p] EXCEPT !.next = job[p].next + 1, !.keep = K]]
        /\ UNCHANGED <<phase, retry, current>>
    BY <1>0, <1>3, <2>0 DEF Unresolved, Floating
  <2>2. K \subseteq Specs
    BY <1>0, <1>1 DEF Job
  <2>3. /\ job[p].keep \subseteq K /\ K \subseteq job[p].keep \cup {sp}
        /\ job[p].reload /\ Floating(sp) => sp \in K
    OBVIOUS
  <2> HIDE DEF K, sp
  <2>a. job'[p] = [job[p] EXCEPT !.next = job[p].next + 1, !.keep = K]
    BY <1>0, <2>1
  <2>b. job[p].next + 1 \in Nat
    BY <1>0
  <2>c. job'[p] \in Job
    BY ONLY <1>0, <2>2, <2>a, <2>b DEF Job
  <2>4. /\ job'[p].step = "sync" /\ job'[p].cfg = job[p].cfg
        /\ job'[p].reload = job[p].reload /\ job'[p].next = job[p].next + 1
        /\ job'[p].wanted = job[p].wanted /\ job'[p].keep = K
    BY ONLY <1>0, <1>1, <2>a DEF Job
  <2>5. job' \in [Callers -> Job] /\ \A q \in Callers \ {p} : job'[q] = job[q]
    BY <1>0, <2>1, <2>c
  <2>6. Listed(job'[p])
    BY <1>0, <1>1, <2>3, <2>4 DEF Jobs, Listed
  <2>7. Seen(job'[p])
    <3> SUFFICES ASSUME NEW i \in 1..Len(job[p].cfg.binds), i < job[p].next + 1
                 PROVE  \/ Wanted(job'[p]) \cap TargetsOf[job[p].cfg.binds[i]] # {}
                        \/ /\ job[p].reload /\ Floating(job[p].cfg.binds[i])
                           => job[p].cfg.binds[i] \in K
      BY <2>4 DEF Seen
    <3>0. Wanted(job'[p]) = Wanted(job[p])
      BY <2>4 DEF Wanted
    <3>1. CASE i = job[p].next
      BY <2>3, <3>1 DEF sp
    <3>2. CASE i # job[p].next
      <4>1. i < job[p].next
        BY <1>0, <3>2
      <4> QED BY <2>3, <3>0, <4>1 DEF Jobs, Seen
    <3> QED BY <3>1, <3>2
  <2> QED BY <2>1, <2>4, <2>5, <2>6, <2>7
<1> QED BY <1>2, <1>3 DEF ResolveNext

-----------------------------------------------------------------------------
(* The part under m.mu *)

Listener == [spec : Specs \cup {NoSpec}, https : BOOLEAN]

\* What Sync leaves at a target: a socket it opened or left for a wanted target, one
\* that it keeps, one that stands in for a device target, or nothing.
LEMMA ListenerCases ==
  ASSUME TypeOK, NEW j \in Job, NEW t \in Targets
  PROVE  LET l == Listeners(j)[t] IN
         \/ l.spec = j.wanted[t] /\ j.wanted[t] # NoSpec /\ l.https = Https(j, t)
         \/ l = current[t] /\ current[t].spec \in j.keep
         \/ /\ t \notin UnixTargets /\ l.https = j.cfg.tls
            /\ \E u \in Targets : l.spec = j.wanted[u] /\ j.wanted[u] # NoSpec
         \/ l = Closed
<1> USE BindsAssumption
<1> DEFINE l == Listeners(j)[t]
<1>0. current[t] \in Listener
  BY DEF TypeOK, Listener
<1>1. CASE t \in Opened(j)
  BY <1>1 DEF Listeners, Opened, Wanted
<1>2. CASE t \notin Opened(j) /\ t \in Stay(j) /\ t \in Wanted(j)
  <2>1. l = [current[t] EXCEPT !.spec = j.wanted[t]]
    BY <1>2 DEF Listeners
  <2>2. current[t].https = Https(j, t) /\ j.wanted[t] # NoSpec
    BY <1>2 DEF Stay, Wanted
  <2>3. l.spec = j.wanted[t] /\ l.https = current[t].https
    BY <1>0, <2>1 DEF Listener
  <2> QED BY <2>2, <2>3
<1>3. CASE t \notin Opened(j) /\ t \in Stay(j) /\ t \notin Wanted(j)
  BY <1>3 DEF Listeners, Stay
<1>4. CASE t \notin Opened(j) /\ t \notin Stay(j) /\ FallbackFor(j, t) # {}
  <2>1. l = [spec |-> CHOOSE sp \in FallbackFor(j, t) : TRUE, https |-> j.cfg.tls]
    BY <1>4 DEF Listeners
  <2>2. l.spec \in FallbackFor(j, t) /\ l.https = j.cfg.tls
    BY <1>4, <2>1
  <2>3. PICK u \in Wanted(j) : l.spec = j.wanted[u] /\ t \in Fallback[u]
    BY <2>2 DEF FallbackFor
  <2>4. u \in Targets /\ j.wanted[u] # NoSpec /\ t \notin UnixTargets
    BY <2>3 DEF Wanted
  <2> QED BY <2>2, <2>3, <2>4
<1>5. CASE t \notin Opened(j) /\ t \notin Stay(j) /\ FallbackFor(j, t) = {}
  BY <1>5 DEF Listeners
<1> QED BY <1>1, <1>2, <1>3, <1>4, <1>5

LEMMA ListenersType ==
  ASSUME TypeOK, NEW j \in Job
  PROVE  /\ Listeners(j) \in [Targets -> Listener]
         /\ \A t \in UnixTargets : ~Listeners(j)[t].https
<1> USE BindsAssumption
<1>0. /\ \A t \in Targets : current[t] \in Listener /\ j.wanted[t] \in Specs \cup {NoSpec}
      /\ j.cfg.tls \in BOOLEAN /\ Closed \in Listener
  BY DEF TypeOK, Listener, Job, Config, Closed
<1>1. \A t \in Targets : Https(j, t) \in BOOLEAN /\ (t \in UnixTargets => ~Https(j, t))
  BY <1>0 DEF Https
<1>2. ASSUME NEW t \in Targets PROVE Listeners(j)[t] \in Listener
  <2> DEFINE l == Listeners(j)[t]
  <2>1. CASE t \in Opened(j)
    BY <1>0, <1>1, <2>1 DEF Listeners, Listener
  <2>2. CASE t \notin Opened(j) /\ t \in Stay(j) \cap Wanted(j)
    <3>1. l = [current[t] EXCEPT !.spec = j.wanted[t]]
      BY <2>2 DEF Listeners
    <3> QED BY <1>0, <3>1 DEF Listener
  <2>3. CASE t \notin Opened(j) /\ t \in Stay(j) /\ t \notin Wanted(j)
    BY <1>0, <2>3 DEF Listeners
  <2>4. CASE t \notin Opened(j) /\ t \notin Stay(j) /\ FallbackFor(j, t) # {}
    <3>1. l = [spec |-> CHOOSE sp \in FallbackFor(j, t) : TRUE, https |-> j.cfg.tls]
      BY <2>4 DEF Listeners
    <3>2. (CHOOSE sp \in FallbackFor(j, t) : TRUE) \in FallbackFor(j, t)
      BY <2>4
    <3>3. FallbackFor(j, t) \subseteq Specs \cup {NoSpec}
      BY <1>0 DEF FallbackFor, Wanted
    <3> QED BY <1>0, <3>1, <3>2, <3>3 DEF Listener
  <2>5. CASE t \notin Opened(j) /\ t \notin Stay(j) /\ FallbackFor(j, t) = {}
    BY <1>0, <2>5 DEF Listeners
  <2> QED BY <2>1, <2>2, <2>3, <2>4, <2>5
<1>3. ASSUME NEW t \in UnixTargets PROVE ~Listeners(j)[t].https
  <2>1. t \in Targets /\ ~current[t].https /\ ~Closed.https
    BY DEF TypeOK, Closed
  <2> QED BY <1>1, <2>1, ListenerCases
<1>4. Listeners(j) = [t \in Targets |-> Listeners(j)[t]]
  BY DEF Listeners
<1> QED BY <1>2, <1>3, <1>4

-----------------------------------------------------------------------------
(* Steps *)

LEMMA InitInv == Init => Inv
<1> SUFFICES ASSUME Init PROVE Inv
  OBVIOUS
<1> USE BindsAssumption
<1>1. \A p \in Callers : job[p] = Idle
  BY DEF Init
<1>2. job \in [Callers -> Job]
  BY IdleJob DEF Init
<1>3. TypeOK
  BY <1>2 DEF Init, TypeOK, Job, NoListeners, Closed
<1>4. Jobs
  BY <1>1, IdleJob DEF Jobs
<1>5. Main /\ Settled
  BY <1>1, IdleJob DEF Init, Main, Settled, Callers
<1> QED BY <1>3, <1>4, <1>5 DEF Inv

\* A set of sockets that Return can install.
Sound(L) == L \in [Targets -> Listener] /\ \A t \in UnixTargets : ~L[t].https

\* Return leaves a well-formed state, and its caller idle.
LEMMA ReturnStep ==
  ASSUME TypeOK, Jobs, Main, NEW p \in Callers, NEW ok \in BOOLEAN, NEW L, Sound(L), Return(p, ok, L)
  PROVE  /\ phase' \in {"down", "starting", "running"} /\ retry' \in {"off", "waiting", "done"}
         /\ Sound(current') /\ (current' = L \/ phase' = "down")
         /\ phase' = "running" => current' = L
         /\ job' \in [Callers -> Job] /\ job'[p].step = "idle"
         /\ \A q \in Callers \ {p} : job'[q] = job[q]
         /\ \A q \in Callers : Listed(job'[q]) /\ Seen(job'[q])
         /\ phase' = phase \/ p = "main"
<1> USE BindsAssumption
<1>1. job \in [Callers -> Job] /\ phase \in {"down", "starting", "running"}
      /\ retry \in {"off", "waiting", "done"}
  BY DEF TypeOK, Job
<1>2. /\ job' \in [Callers -> Job] /\ job'[p] = Idle
      /\ \A q \in Callers \ {p} : job'[q] = job[q]
  BY <1>1, ReturnJobs DEF Return
<1>3. \A q \in Callers : Listed(job'[q]) /\ Seen(job'[q])
  BY <1>2, IdleJob DEF Jobs
<1>4. Sound(NoListeners)
  BY DEF Sound, NoListeners, Closed, Listener
<1>5. CASE p = "main" /\ phase = "starting"
  BY <1>2, <1>3, <1>4, <1>5, IdleJob DEF Return
<1>6. CASE ~(p = "main" /\ phase = "starting")
  BY <1>1, <1>2, <1>3, <1>6, IdleJob DEF Return
<1> QED BY <1>5, <1>6

LEMMA ApplyStep ==
  ASSUME Inv, NEW p \in Callers, Apply(p)
  PROVE  Inv'
<1> USE BindsAssumption
<1> DEFINE j == job[p]
           L == Listeners(j)
<1>0. j \in Job /\ job \in [Callers -> Job]
  BY DEF Inv, TypeOK, Job
<1>1. Sound(L)
  BY <1>0, ListenersType DEF Inv, Sound
<1>2. Return(p, L # NoListeners, L)
  BY DEF Apply
<1> HIDE DEF L
<1>3. /\ phase' \in {"down", "starting", "running"} /\ retry' \in {"off", "waiting", "done"}
      /\ Sound(current') /\ (phase' = "running" => current' = L)
      /\ job' \in [Callers -> Job] /\ job'[p].step = "idle"
      /\ \A q \in Callers \ {p} : job'[q] = job[q]
      /\ \A q \in Callers : Listed(job'[q]) /\ Seen(job'[q])
      /\ phase' = phase \/ p = "main"
  BY <1>1, <1>2, ReturnStep DEF Inv
<1>4. /\ stale' = (j.cfg # cfg) /\ kept' = j.keep /\ j.keep \subseteq Specs
      /\ UNCHANGED <<up, busy, cfg>>
  BY <1>0 DEF Apply, Job
<1>5. TypeOK'
  BY <1>3, <1>4 DEF Inv, TypeOK, Sound, Listener, Job
<1>6. Jobs'
  <2>1. \A q \in Callers : Listed(job[q])' /\ Seen(job[q])'
    BY <1>3 DEF Listed, Seen, Wanted
  <2> QED BY <2>1 DEF Jobs
<1>7. Main'
  BY <1>3, <1>4 DEF Inv, Main, Callers
<1>8. Settled'
  <2> SUFFICES ASSUME phase' = "running", ~stale', NEW t \in Targets, current'[t] # Closed
               PROVE  /\ current'[t].spec \in Range(cfg.binds)
                      /\ \/ current'[t].spec \in j.keep
                         \/ current'[t].https = (cfg.tls /\ t \notin UnixTargets)
    BY <1>4 DEF Settled, Listening
  <2>1. j.cfg = cfg /\ current'[t] = Listeners(j)[t] /\ Listed(j)
    BY <1>3, <1>4 DEF L, Inv, Jobs
  <2>2. cfg.tls \in BOOLEAN
    BY <1>0, <2>1 DEF Job, Config
  <2> HIDE DEF j
  <2>3. \/ Listeners(j)[t].spec = j.wanted[t] /\ j.wanted[t] # NoSpec /\ Listeners(j)[t].https = Https(j, t)
        \/ Listeners(j)[t] = current[t] /\ current[t].spec \in j.keep
        \/ /\ t \notin UnixTargets /\ Listeners(j)[t].https = j.cfg.tls
           /\ \E u \in Targets : Listeners(j)[t].spec = j.wanted[u] /\ j.wanted[u] # NoSpec
        \/ Listeners(j)[t] = Closed
    BY <1>0, ListenerCases DEF Inv
  <2> QED BY <2>1, <2>2, <2>3 DEF Listed, Https
<1> QED BY <1>5, <1>6, <1>7, <1>8 DEF Inv

LEMMA ResolveStep ==
  ASSUME Inv, NEW p \in Callers, ResolveNext(p)
  PROVE  Inv'
<1> USE BindsAssumption
<1>0. /\ job \in [Callers -> Job] /\ job[p] \in Job /\ Sound(current)
      /\ UNCHANGED <<up, busy, cfg, stale, kept>>
  BY DEF Inv, TypeOK, Job, Sound, Listener, ResolveNext
<1>1. CASE job'[p] # Idle
  <2>1. /\ job' \in [Callers -> Job] /\ \A q \in Callers \ {p} : job'[q] = job[q]
        /\ job'[p].step = "sync" /\ job'[p].cfg = job[p].cfg /\ job'[p].reload = job[p].reload
        /\ Listed(job'[p]) /\ Seen(job'[p])
        /\ UNCHANGED <<phase, retry, current>>
    BY <1>1, LoopStep DEF Inv
  <2>2. job[p].step = "sync"
    BY DEF ResolveNext
  <2>3. TypeOK'
    BY <1>0, <2>1 DEF Inv, TypeOK, Job
  <2>4. \A q \in Callers : Listed(job[q])' /\ Seen(job[q])'
    <3>1. \A q \in Callers : Listed(job'[q]) /\ Seen(job'[q])
      BY <2>1 DEF Inv, Jobs
    <3> QED BY <3>1 DEF Listed, Seen, Wanted
  <2>5. Main'
    BY <1>0, <2>1, <2>2 DEF Inv, Main, Callers
  <2>6. Settled'
    BY <1>0, <2>1, <2>2 DEF Inv, Settled, Callers, Listening
  <2> QED BY <2>3, <2>4, <2>5, <2>6 DEF Inv, Jobs
<1>2. CASE job'[p] = Idle
  <2>0. job[p].step = "sync" /\ job'[p].step # "sync"
    BY <1>2, IdleJob DEF ResolveNext
  <2>1. Return(p, FALSE, current) /\ ~job[p].reload
    <3>1. PICK sp : Resolved(p, sp) \/ Unresolved(p, sp)
      BY DEF ResolveNext
    <3>3. ~Resolved(p, sp)
      <4> SUFFICES ASSUME Resolved(p, sp) PROVE FALSE
        OBVIOUS
      <4>1. job'[p].step = job[p].step
        BY <1>0 DEF Resolved, Job
      <4> QED BY <2>0, <4>1
    <3>4. Unresolved(p, sp)
      BY <3>1, <3>3
    <3>5. ASSUME ~(Kind[sp] = "cidr" /\ ~job[p].reload) PROVE FALSE
      <4> DEFINE K == IF job[p].reload /\ Kind[sp] \in {"cidr", "iface"}
                        THEN job[p].keep \cup {sp} ELSE job[p].keep
      <4>1. job'[p] = [job[p] EXCEPT !.next = job[p].next + 1, !.keep = K]
        BY <1>0, <3>4, <3>5 DEF Unresolved
      <4> HIDE DEF K
      <4>2. job'[p].step = job[p].step
        BY <1>0, <4>1 DEF Job
      <4> QED BY <2>0, <4>2
    <3> QED BY <3>4, <3>5 DEF Unresolved
  <2>2. /\ phase' \in {"down", "starting", "running"} /\ retry' \in {"off", "waiting", "done"}
        /\ Sound(current') /\ (phase' = "running" => current' = current)
        /\ job' \in [Callers -> Job] /\ job'[p].step = "idle"
        /\ \A q \in Callers \ {p} : job'[q] = job[q]
        /\ \A q \in Callers : Listed(job'[q]) /\ Seen(job'[q])
        /\ phase' = phase \/ p = "main"
    BY <1>0, <2>1, ReturnStep DEF Inv
  <2>3. TypeOK'
    BY <1>0, <2>2 DEF Inv, TypeOK, Sound, Listener, Job
  <2>4. \A q \in Callers : Listed(job[q])' /\ Seen(job[q])'
    BY <2>2 DEF Listed, Seen, Wanted
  <2>5. Main'
    BY <1>0, <2>2 DEF Inv, Main, Callers
  \* A Sync that gives up does so at the start, or it is retryBinds'.
  <2>6. p = "main" => phase # "running" /\ phase' # "running"
    BY <2>0, <2>1 DEF Inv, Main, Return
  <2>7. Settled'
    BY <1>0, <2>2, <2>6 DEF Inv, Settled, Callers, Listening
  <2> QED BY <2>3, <2>4, <2>5, <2>7 DEF Inv, Jobs
<1> QED BY <1>1, <1>2

\* Inv is inductive.
LEMMA InvStep == Inv /\ [Next]_vars => Inv'
<1> SUFFICES ASSUME Inv, [Next]_vars PROVE Inv'
  OBVIOUS
<1> USE BindsAssumption
<1>0. job \in [Callers -> Job] /\ Configs \subseteq Config /\ cfg \in Config
  BY DEF Inv, TypeOK, Job, Config
<1>1. ASSUME NEW p \in Callers, Step(p) PROVE Inv'
  BY <1>1, ApplyStep, ResolveStep DEF Step
\* Steps that start or end jobs and leave the rest of Sync's state alone.
<1>2. ASSUME NEW J \in [Callers -> Job], \A p \in Callers : Listed(J[p]) /\ Seen(J[p]), job' = J
      PROVE  Jobs' /\ job' \in [Callers -> Job]
  BY <1>2 DEF Jobs, Listed, Seen, Wanted
<1>3. CASE RetryBinds
  <2>1. Sync(cfg, FALSE) \in Job /\ Listed(Sync(cfg, FALSE)) /\ Seen(Sync(cfg, FALSE))
    BY <1>0, SyncJob
  <2>2. Jobs' /\ job' \in [Callers -> Job] /\ job'["main"] = job["main"]
    BY <1>0, <1>2, <1>3, <2>1 DEF RetryBinds, Inv, Jobs, Callers
  <2>3. UNCHANGED <<up, busy, phase, retry, cfg, current, stale, kept>>
    BY <1>3 DEF RetryBinds
  <2>4. TypeOK'
    BY <2>2, <2>3 DEF Inv, TypeOK, Job
  <2>5. Main' /\ Settled'
    BY <2>2, <2>3 DEF Inv, Main, Settled, Listening
  <2> QED BY <2>2, <2>4, <2>5 DEF Inv
<1>4. ASSUME NEW c \in Configs, Start(c) PROVE Inv'
  <2>1. Sync(c, FALSE) \in Job /\ Listed(Sync(c, FALSE)) /\ Seen(Sync(c, FALSE))
    BY <1>0, SyncJob
  <2>2. Jobs' /\ job' \in [Callers -> Job] /\ job'["main"] = Sync(c, FALSE)
    <3>1. /\ job' \in [Callers -> Job] /\ job'["main"] = Sync(c, FALSE)
          /\ \A p \in Callers : job'[p] = Sync(c, FALSE) \/ job'[p] = Idle
      BY <1>4, <2>1, IdleJob DEF Start, Callers
    <3>2. \A p \in Callers : Listed(job'[p]) /\ Seen(job'[p])
      BY <2>1, <3>1, IdleJob
    <3> QED BY <1>2, <3>1, <3>2
  <2>3. phase' = "starting" /\ cfg' = c /\ UNCHANGED <<up, busy, retry, current, stale, kept>>
    BY <1>4 DEF Start
  <2>4. TypeOK'
    BY <2>2, <2>3 DEF Inv, TypeOK, Job
  <2>5. Main' /\ Settled'
    BY <2>2, <2>3 DEF Inv, Main, Settled, Sync
  <2> QED BY <2>2, <2>4, <2>5 DEF Inv
<1>5. ASSUME NEW c \in Configs, Reload(c) PROVE Inv'
  <2>1. Sync(c, TRUE) \in Job /\ Listed(Sync(c, TRUE)) /\ Seen(Sync(c, TRUE))
    BY <1>0, SyncJob
  <2>2. Jobs' /\ job' \in [Callers -> Job] /\ job'["main"] = Sync(c, TRUE)
    BY <1>0, <1>2, <1>5, <2>1 DEF Reload, Inv, Jobs, Callers
  <2>3. cfg' = c /\ UNCHANGED <<up, busy, phase, retry, current, stale, kept>>
    BY <1>5 DEF Reload
  <2>4. TypeOK'
    BY <2>2, <2>3 DEF Inv, TypeOK, Job
  <2>5. Main' /\ Settled'
    BY <2>2, <2>3 DEF Inv, Main, Settled, Sync
  <2> QED BY <2>2, <2>4, <2>5 DEF Inv
<1>6. CASE Stop
  <2>1. Jobs' /\ job' \in [Callers -> Job] /\ job'["main"] = Idle
    BY <1>2, <1>6, IdleJob DEF Stop, Callers
  <2>2. /\ phase' = "down" /\ retry' = "off" /\ current' = NoListeners
        /\ UNCHANGED <<up, busy, cfg, stale, kept>>
    BY <1>6 DEF Stop
  <2>3. TypeOK'
    BY <2>1, <2>2 DEF Inv, TypeOK, Job, NoListeners, Closed
  <2>4. Main' /\ Settled'
    BY <2>1, <2>2, IdleJob DEF Main, Settled
  <2> QED BY <2>1, <2>3, <2>4 DEF Inv
<1>7. ASSUME UNCHANGED <<phase, retry, cfg, current, job, stale, kept>>,
             up' \subseteq Places, busy' \subseteq Targets
      PROVE  Inv'
  <2>1. TypeOK'
    BY <1>7 DEF Inv, TypeOK
  <2>2. Jobs' /\ Main' /\ Settled'
    BY <1>7 DEF Inv, Jobs, Listed, Seen, Wanted, Main, Settled, Listening
  <2> QED BY <2>1, <2>2 DEF Inv
<1>8. ASSUME NEW x \in Places, Change(x) PROVE Inv'
  BY <1>7, <1>8 DEF Change, Inv, TypeOK
<1>9. ASSUME NEW t \in Targets, Refuse(t) PROVE Inv'
  BY <1>7, <1>9 DEF Refuse, Inv, TypeOK
<1>10. CASE UNCHANGED vars
  BY <1>7, <1>10 DEF vars, Inv, TypeOK
<1> QED BY <1>1, <1>3, <1>4, <1>5, <1>6, <1>8, <1>9, <1>10 DEF Next

-----------------------------------------------------------------------------
(* The theorems *)

\* Inv holds of every state the manager and its two callers can reach.
THEOREM BindsInvariance == Spec => []Inv
BY InitInv, InvStep, PTL DEF Spec

\* The manager's table keeps its type, and a unix socket never speaks TLS.
THEOREM BindTypes == Spec => []TypeOK
<1>1. Inv => TypeOK
  BY DEF Inv
<1> QED BY <1>1, BindsInvariance, PTL

\* At rest every socket belongs to the running LISTEN and speaks what TLS says, unless
\* the last Sync kept it or had read an older configuration.
THEOREM SettledHolds == Spec => []Settled
<1>1. Inv => Settled
  BY DEF Inv
<1> QED BY <1>1, BindsInvariance, PTL

\* A SIGHUP keeps the listener of a listed prefix or interface it finds no target for.
THEOREM HupKeepsHolds == Spec => HupKeeps
<1> DEFINE Keeps ==
      \A t \in Targets :
        (phase = "running" /\ phase' = "running" /\ job["main"].step = "sync" /\ Listening(t)
           /\ current'[t] = Closed /\ job'["main"].step = "idle")
        => \/ current[t].spec \notin Range(cfg.binds)
           \/ Wanted(job["main"]) \cap (TargetsOf[current[t].spec] \cup {t}) # {}
           \/ Kind[current[t].spec] \notin {"cidr", "iface"}
<1>1. ASSUME Inv, [Next]_vars PROVE Keeps
  <2> USE BindsAssumption
  <2> DEFINE j == job["main"]
  <2> SUFFICES ASSUME NEW t \in Targets,
                      phase = "running", phase' = "running", j.step = "sync", Listening(t),
                      current'[t] = Closed, job'["main"].step = "idle",
                      current[t].spec \in Range(cfg.binds),
                      Wanted(j) \cap (TargetsOf[current[t].spec] \cup {t}) = {},
                      Kind[current[t].spec] \in {"cidr", "iface"}
               PROVE  FALSE
    OBVIOUS
  <2>0. /\ job \in [Callers -> Job] /\ j \in Job /\ j.cfg = cfg /\ j.reload
        /\ Seen(j) /\ cfg \in Config
    BY <1>1 DEF Inv, TypeOK, Job, Main, Jobs, Callers, Config
  <2>1. Apply("main")
    <3>1. ASSUME NEW p \in Callers, ResolveNext(p) PROVE FALSE
      <4>1. CASE job'[p] # Idle
        BY <1>1, <2>0, <3>1, <4>1, LoopStep DEF Inv, Callers
      <4>2. CASE job'[p] = Idle
        BY <1>1, <2>0, <3>1, <4>2 DEF ResolveNext, Resolved, Unresolved, Return, Listening, Callers
      <4> QED BY <4>1, <4>2
    <3>2. ~Apply("retry")
      <4>1. Apply("retry") => job'["main"] = job["main"]
        BY <2>0 DEF Apply, Return, Callers
      <4> QED BY <4>1
    <3>3. ~RetryBinds
      BY <2>0 DEF RetryBinds, Callers
    <3>4. \A c \in Configs : ~Start(c) /\ ~Reload(c)
      BY DEF Start, Reload
    <3> QED BY <1>1, <3>1, <3>2, <3>3, <3>4
            DEF Next, Step, Callers, Stop, Change, Refuse, vars
  <2>2. current[t].spec \in j.keep
    <3>1. PICK i \in 1..Len(cfg.binds) : current[t].spec = cfg.binds[i]
      BY <2>0 DEF Range, Config
    <3>2. i < j.next
      BY <2>0, <2>1, <3>1 DEF Apply, Config, Job
    <3>3. \/ Wanted(j) \cap TargetsOf[cfg.binds[i]] # {}
          \/ j.reload /\ Floating(cfg.binds[i]) => cfg.binds[i] \in j.keep
      BY <2>0, <3>1, <3>2 DEF Seen
    <3> QED BY <2>0, <3>1, <3>3 DEF Floating
  <2>3. t \in Stay(j) /\ t \notin Wanted(j) /\ t \notin Opened(j)
    BY <2>2 DEF Stay, Opened
  <2>4. Listeners(j)[t] = current[t]
    BY <2>3 DEF Listeners
  <2>5. current' = Listeners(j)
    BY <2>1 DEF Apply, Return
  <2> QED BY <2>4, <2>5 DEF Listening
<1>2. Inv /\ [Next]_vars => [Keeps]_vars
  BY <1>1
<1> QED BY <1>2, BindsInvariance, PTL DEF Spec, HupKeeps
===============================================================================
