--------------------------------- MODULE Cubby ---------------------------------
(***************************************************************************)
(* One cubby with everything that changes it on disk: the daemon's repairs *)
(* and `bootstash mkdir` (Repair), the owner's `bootstash put` (Put), and  *)
(* the owner in a shell (Access).                                          *)
(***************************************************************************)
EXTENDS Repair, Put

CONSTANTS
  Starts,        \* trees with their attributes to start from
  MaxMoves       \* how many commands the owner types

\* Nothing is in two places, what is somebody else's is not in the tree (only links lead
\* there), and directories that do not exist yet are empty.
StartOK(s) ==
  /\ s.kind \in {"users", "home"} /\ s.attr \in [Objects -> Attr]
  /\ s.kids \in [Dirs -> [Names -> (Objects \cup {Nil}) \ (Tops \cup Fixed)]]
  /\ \A a, b \in Dirs, x, y \in Names :
       s.kids[a][x] = s.kids[b][y] /\ s.kids[a][x] # Nil => a = b /\ x = y
  /\ \A d \in Dirs \ Tops : (\A a \in Dirs, x \in Names : s.kids[a][x] # d)
       => \A n \in Names : s.kids[d][n] = Nil

ASSUME CubbyAssumption ==
  /\ MaxMoves \in Nat /\ IsFiniteSet(Dirs) /\ Temps = {}
  /\ \A s \in Starts : StartOK(s)

VARIABLES
  moves,   \* the owner's commands so far
  since,   \* history: what each repair found when it began
  goal     \* history: what the put is to bring about

vars == <<kids, kind, attr, fresh, fix, stuck, put, body, moves, since, goal>>

\* The files and directories at and below d.
Under(d) ==
  IF d \notin Dirs THEN {}
  ELSE Below(d) \cup (Files \cap {kids[e][n] : e \in Below(d), n \in Names})

Inside == Under(Root)

\* The daemon can use the directory, and what is made in it.
Proper(d) == attr[d].grp /\ attr[d].mode = CubbyMode

\* The files a put copies from src to target: where to, and their contents.
Copies(src, target) ==
  LET paths == UNION {[1..k -> Names] : k \in 0..Cardinality(Dirs)}
  IN  {[to |-> target \o r, body |-> body[SourceAt(src \o r)]] : r \in {q \in paths : SourceAt(src \o q) \in Files}}

NoSince == [calm |-> FALSE, all |-> FALSE, had |-> {}]

NoGoal == [calm |-> FALSE, tidy |-> FALSE, copies |-> {}]

Init ==
  /\ \E s \in Starts :
       /\ kind = s.kind /\ kids = s.kids
       /\ attr = [s.attr EXCEPT ![Parent] = Layout]
       /\ fresh = {o \in (Dirs \cup Files) \ (Tops \cup Fixed) :
                     \A d \in Dirs, n \in Names : s.kids[d][n] # o}
  /\ RepairInit /\ PutInit
  /\ moves = 0
  /\ since = [p \in Procs |-> NoSince]
  /\ goal = NoGoal

BeginRepair(p) ==
  /\ \E op \in {"start", "read", "login", "mkdir"}, rel \in Rels, gid \in BOOLEAN :
       /\ Begin(p, op, rel, gid)
       /\ since' = [since EXCEPT ![p] = [calm |-> TRUE, all |-> op = "start", had |-> Reach]]
  /\ UNCHANGED <<put, body, moves, goal>>

\* A directory is closed to the owner: it is somebody else's and was open to others.
ShutsOut == \E d \in Dirs \ fresh : Searches("user", d) /\ ~Searches("user", d)'

\* A change made by one repair disturbs another; a MkdirOwner without the group disturbs
\* a put, and so does a repair that closes a directory to the owner.
Repairs(p) ==
  /\ RepairStep(p)
  /\ since' = [q \in Procs |->
       IF IF q = p THEN fix'[p].pc # "idle" ELSE UNCHANGED <<kids, attr>> THEN since[q] ELSE NoSince]
  /\ goal' = IF (fix[p].pc = "chown" /\ ~fix[p].gid) \/ ShutsOut THEN NoGoal ELSE goal
  /\ UNCHANGED <<put, body, moves>>

\* A repair with a failed call is not held to anything any more.
Fails(p) ==
  /\ CallFails(p)
  /\ since' = [since EXCEPT ![p] = NoSince]
  /\ UNCHANGED <<put, body, moves, goal>>

Blocks(p) ==
  /\ \E d \in Dirs, n \in Names : Block(p, d, n)
  /\ UNCHANGED <<put, body, moves, since, goal>>

BeginPut ==
  /\ moves < MaxMoves /\ moves' = moves + 1
  /\ \E src \in Sources, dest \in Dests :
       /\ PutBegin(src, dest)
       /\ goal' = [calm |-> TRUE, copies |-> Copies(src, dest \o <<Last(src)>>),
                   tidy |-> /\ kind = "users" => OwnedCubby(Root)
                           /\ \A o \in Inside : o \in Dirs => Proper(o)]
  /\ UNCHANGED <<fix, stuck, since>>

Disturbed == [p \in Procs |-> NoSince]

Puts ==
  /\ PutStep
  /\ since' = IF <<kids, attr>>' # <<kids, attr>> THEN Disturbed ELSE since
  /\ goal' = IF put'.pc = "idle" THEN NoGoal ELSE goal
  /\ UNCHANGED <<fix, stuck, moves>>

Shell ==
  /\ moves < MaxMoves /\ moves' = moves + 1
  /\ \/ \E a, b \in Dirs, x, y \in Names : Move(a, x, b, y)
     \/ \E o \in Inside, m \in {{"ux"}} : Chmod(o, m)
  /\ since' = Disturbed /\ goal' = NoGoal
  /\ UNCHANGED <<fix, stuck, put, body>>

Crash ==
  /\ \E who \in {"daemon", "root"} : Kill(who)
  /\ since' = Disturbed
  /\ UNCHANGED <<put, body, moves, goal>>

Next ==
  \/ \E p \in Procs : BeginRepair(p) \/ Repairs(p) \/ Fails(p) \/ Blocks(p)
  \/ BeginPut \/ Puts \/ Shell \/ Crash

\* A goroutine or command that has begun goes on, or waits at a FIFO; requests, the owner,
\* failures and crashes come or do not come.
Fairness == \A p \in Procs : WF_vars(Repairs(p))

Spec == Init /\ [][Next]_vars /\ Fairness

-----------------------------------------------------------------------------
(* Properties *)

\* Nothing is in two places, the put works exactly while it has something left to do,
\* and a repair holds a descriptor wherever it uses one.
TypeOK ==
  /\ kids \in [Dirs -> [Names -> Objects \cup {Nil}]]
  /\ attr \in [Objects -> Attr]
  /\ fresh \subseteq Objects
  /\ \A o \in Objects : Cardinality({s \in Dirs \X Names : kids[s[1]][s[2]] = o}) <= 1
  /\ (put.pc = "work") = (put.todo # << >>)
  /\ \A p \in Procs :
       /\ (fix[p].fd # Nil) = (fix[p].pc \in {"chown", "chmod", "fix", "perm", "path", "list", "children"})
       /\ fix[p].pc = "children" => fix[p].stack # << >>
       /\ p \in stuck => fix[p].pc \in {"path", "children"}

\* What a repair changes: whatever the owner moves meanwhile, neither the directories
\* around the cubby nor what only a link leads to (openat with O_NOFOLLOW from descriptor
\* to descriptor); the owner of nothing but the cubby itself ("does not change the owner
\* uid", home.go:146); and, while nobody disturbs it, nothing that is not in the cubby.
\* What others own in there it does change: fixCubbyFD looks at no owner.
RepairLocal ==
  [][\A p \in Procs, o \in Objects : Repairs(p) /\ attr'[o] # attr[o] =>
       /\ o \notin Tops \cup Fixed
       /\ attr'[o].own # attr[o].own => o = Root'
       /\ since[p].calm /\ fix[p].gid => o \in Inside']_vars

Ends(p) == Repairs(p) /\ since[p].calm /\ fix[p].gid /\ fix'[p].pc = "idle"

\* Once the full-tree pass of start or SIGHUP ends undisturbed and without a failed call,
\* every directory the daemon can reach is 2770 and every file has group bootstash, is
\* readable to it and closed to others.
Converged ==
  [][\A p \in Procs : Ends(p) /\ since[p].all =>
       \A o \in Reach' :
         IF o \in Dirs THEN attr'[o].mode = CubbyMode
         ELSE /\ attr'[o].grp /\ "gr" \in attr'[o].mode /\ "o" \notin attr'[o].mode
              /\ "ux" \in attr'[o].mode => "gx" \in attr'[o].mode]_vars

\* An undisturbed repair never costs the daemon what it could reach, except below
\* directories of another group, whose group fixCubbyFD leaves alone.
AccessKept ==
  [][\A p \in Procs : Ends(p) =>
       \A o \in since[p].had : o \in Reach' \/ \E d \in Inside \cap Dirs : ~attr[d].grp /\ o \in Under(d)]_vars

\* What auth.go:375 says of the repair before a GET: the cubby, the path and, for a
\* directory, its immediate children, "not a full-tree walk".
ReadShallow ==
  [][\A p \in Procs, o \in Objects :
       Repairs(p) /\ fix[p].op = "read" /\ fix[p].stack # << >> /\ attr'[o] # attr[o] =>
         o \in Children(Last(fix[p].stack).fd)]_vars

\* Every repair ends or waits at a FIFO: an entry that cannot be opened is left, no link
\* is followed, and the owner, who can keep moving directories ahead of it, stops some day.
RepairEnds == \A p \in Procs : fix[p].pc # "idle" ~> fix[p].pc = "idle" \/ p \in stuck

\* The put copies over the source's own parents.
OverParents == IsPrefix(<<Parent, Cubby>> \o Target, put.src)

\* put never copies what it made itself, unless it copies over the source's own parents:
\* refuseSelfCopy keeps a source out of its own copy, which would never end.
NoSelfCopy ==
  put.pc = "work" /\ it.k = "list" /\ goal.calm /\ ~OverParents => SourceAt(it.from) \notin put.made

PutEnds == goal.calm /\ put.pc = "work" /\ put'.ok

\* A put that succeeds undisturbed has copied every file that was below the source,
\* unless it copied over the source's own parents.
PutCopies ==
  [][PutEnds /\ ~OverParents =>
       \A c \in goal.copies :
         LET f == Lookup(Root, c.to)' IN f \in Files /\ body'[f] = c.body]_vars

\* In a cubby whose directories all have the cubby's group and mode, the daemon can
\* list, extend and serve whatever a put adds, without another repair.
PutServed ==
  [][PutEnds /\ goal.tidy => \A o \in put.made \cup (fresh \ fresh') : o \in Reach' /\ (o \in Dirs => Proper(o)')]_vars
===============================================================================
