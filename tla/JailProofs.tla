------------------------------ MODULE JailProofs ------------------------------
(***************************************************************************)
(* The properties of Jail for any tree, any links and paths, and any       *)
(* number of requests.                                                     *)
(*                                                                         *)
(* Inv adds what makes a walk safe: its components are names, never "..",  *)
(* its descriptor is a directory until the last of them, no entry leads to *)
(* the cubby or to the directory around it, and what an upload makes is a  *)
(* file that nobody else holds.                                            *)
(***************************************************************************)
EXTENDS Jail, TreeProofs

-----------------------------------------------------------------------------
(* Paths *)

Path == [ok : BOOLEAN, parts : Seq(Names)]

LEMMA PushType ==
  ASSUME NEW c \in Path, NEW n \in Names \cup {".."}
  PROVE  Push(c, n) \in Path
<1>1. c.parts \in Seq(Names) /\ c.ok \in BOOLEAN
  BY DEF Path
<1>2. CASE c.ok /\ n # ".."
  <2>1. Append(c.parts, n) \in Seq(Names)
    BY <1>1, <1>2
  <2> QED BY <1>2, <2>1 DEF Push, Path
<1>3. CASE c.ok /\ n = ".." /\ c.parts # << >>
  <2>1. Len(c.parts) \in Nat \ {0}
    BY <1>1, <1>3
  <2>2. Front(c.parts) \in Seq(Names)
    BY <1>1, <2>1 DEF Front
  <2> QED BY <1>3, <2>2 DEF Push, Path
<1>4. CASE ~c.ok \/ (n = ".." /\ c.parts = << >>)
  BY <1>4 DEF Push, Path
<1> QED BY <1>2, <1>3, <1>4

\* A table of what is left of the first components of rel, up to the n-th.
Table(f, rel, n) == f = [k \in 0..n |-> IF k = 0 THEN Start ELSE Push(f[k - 1], rel[k])]

LEMMA TableExists ==
  ASSUME NEW rel, NEW n \in Nat
  PROVE  \E f : Table(f, rel, n)
<1> DEFINE S == {m \in Nat : \E f : Table(f, rel, m)}
<1>1. 0 \in S
  <2> DEFINE f == [k \in 0..0 |-> Start]
  <2>1. f = [k \in 0..0 |-> IF k = 0 THEN Start ELSE Push(f[k - 1], rel[k])]
    OBVIOUS
  <2>2. Table(f, rel, 0)
    BY <2>1 DEF Table
  <2> QED BY <2>2
<1>2. ASSUME NEW m \in Nat, m \in S PROVE m + 1 \in S
  <2>1. PICK f : Table(f, rel, m)
    BY <1>2
  <2>2. /\ f = [k \in 0..m |-> f[k]] /\ DOMAIN f = 0..m
        /\ \A k \in 0..m : f[k] = IF k = 0 THEN Start ELSE Push(f[k - 1], rel[k])
    BY <2>1 DEF Table
  <2> DEFINE last == Push(f[m], rel[m + 1])
             g == [k \in 0..(m + 1) |-> IF k = m + 1 THEN last ELSE f[k]]
  <2>3. ASSUME NEW k \in 0..(m + 1)
        PROVE  g[k] = IF k = 0 THEN Start ELSE Push(g[k - 1], rel[k])
    <3>1. CASE k = m + 1
      <4>1. k # 0 /\ k - 1 = m /\ m \in 0..(m + 1) /\ m # m + 1
        BY <3>1
      <4>2. g[k] = last /\ g[k - 1] = f[m]
        BY <3>1, <4>1
      <4> QED BY <3>1, <4>1, <4>2
    <3>2. CASE k # m + 1 /\ k # 0
      <4>1. k \in 0..m /\ k - 1 \in 0..(m + 1) /\ k - 1 # m + 1
        BY <3>2
      <4>2. g[k] = f[k] /\ g[k - 1] = f[k - 1]
        BY <3>2, <4>1
      <4> HIDE DEF g
      <4> QED BY <2>2, <3>2, <4>1, <4>2
    <3>3. CASE k = 0
      <4>1. g[k] = f[0] /\ 0 \in 0..m
        BY <3>3
      <4> QED BY <2>2, <3>3, <4>1
    <3> QED BY <3>1, <3>2, <3>3
  <2>4. g = [k \in 0..(m + 1) |-> g[k]]
    OBVIOUS
  <2> HIDE DEF g
  <2>5. g = [k \in 0..(m + 1) |-> IF k = 0 THEN Start ELSE Push(g[k - 1], rel[k])]
    BY <2>3, <2>4
  <2>6. Table(g, rel, m + 1)
    BY <2>5 DEF Table
  <2> QED BY <2>6
<1> HIDE DEF S
<1>3. n \in S
  BY <1>1, <1>2, NatSets
<1> QED BY <1>3 DEF S

\* components yields names only: no "..", whatever the path holds.
LEMMA ComponentsType ==
  ASSUME NEW rel \in Seq(Names \cup {".."})
  PROVE  Components(rel) \in Path
<1> DEFINE n == Len(rel)
<1>1. n \in Nat
  OBVIOUS
<1>2. PICK f : Table(f, rel, n) /\ Components(rel) = f[n]
  <2> DEFINE f == CHOOSE f : Table(f, rel, n)
  <2>1. Table(f, rel, n)
    BY <1>1, TableExists
  <2>2. Components(rel) = f[n]
    BY DEF Components, Table
  <2> QED BY <2>1, <2>2
<1>3. \A k \in 0..n : f[k] = IF k = 0 THEN Start ELSE Push(f[k - 1], rel[k])
  BY <1>2 DEF Table
<1> DEFINE S == {m \in Nat : m <= n => f[m] \in Path}
<1>4. 0 \in S
  <2>1. Start \in Path
    BY DEF Start, Path
  <2> QED BY <1>1, <1>3, <2>1
<1>5. ASSUME NEW m \in Nat, m \in S PROVE m + 1 \in S
  <2> SUFFICES ASSUME m + 1 <= n PROVE f[m + 1] \in Path
    OBVIOUS
  <2>1. m + 1 \in 0..n /\ m + 1 # 0 /\ (m + 1) - 1 = m /\ rel[m + 1] \in Names \cup {".."}
    BY <1>1
  <2>2. f[m + 1] = Push(f[m], rel[m + 1])
    BY <1>3, <2>1
  <2>3. f[m] \in Path
    BY <1>1, <1>5
  <2> QED BY <2>1, <2>2, <2>3, PushType
<1> HIDE DEF S
<1>6. n \in S
  BY <1>1, <1>4, <1>5, NatSets
<1> QED BY <1>2, <1>6 DEF S

-----------------------------------------------------------------------------
(* The invariant *)

Purposes == {"none", "stat", "list", "read", "chown"} \cup Parents

Uploading == {"copy", "rename"}

Places == {"idle", "walk", "link", "copy", "rename", "setgid", "unlink"}

Hops == 0..(MaxSymlinks - 1)

Req == [op : {"none"} \cup Ops, rel : Seq(Names), pc : Places, then : Purposes,
        parts : Seq(Names), i : Nat, fd : Dirs \cup Files, hops : Hops,
        new : Files \cup {Nil}, tmp : Temps \cup {Nil}, dir : BOOLEAN]

\* What a request has in its hands.
Held(r) ==
  /\ r.i \in 1..(Len(r.parts) + 1)
  /\ r.pc = "link" => r.i <= Len(r.parts)
  /\ r.fd \notin {Outside, Secret}
  /\ r.i <= Len(r.parts) => r.fd \in Dirs
  /\ r.then \in Parents => r.fd \in Dirs /\ r.rel # << >>
  /\ r.pc \in {"copy", "rename", "setgid", "unlink"} => r.then \in Parents
  /\ r.tmp # Nil => r.pc \in Uploading
  /\ r.pc \in Uploading => r.tmp # Nil /\ r.new \in Files \ {Secret}

Requests == req \in [Workers -> Req] /\ \A w \in Workers : Held(req[w])

\* The tree around the cubby.
Tree0 ==
  /\ kids \in [Dirs -> [Slots -> Objects \cup {Nil}]]
  /\ \A d \in Dirs, n \in Slots : kids[d][n] \notin Tops
  /\ Holders(Secret) = {Outside}

\* Bodies that a name, a descriptor or a rename leads to.
Bodies ==
  /\ body \in [Files -> {"whole", "partial"}]
  /\ WholeBodies
  /\ \A w \in Workers : req[w].pc = "rename" => body[req[w].new] = "whole"

Inv == Requests /\ Tree0 /\ Bodies /\ killed \subseteq Temps /\ NoLitter

-----------------------------------------------------------------------------
(* Requests *)

LEMMA Constants ==
  /\ Root \in Dirs /\ Outside \in Dirs /\ Root # Outside /\ Secret \in Files /\ Root # Secret
  /\ Dirs \cap Files = {} /\ MaxSymlinks \in Nat \ {0} /\ Nil \notin Temps \cup Files \cup Dirs
  /\ Names \cap Temps = {} /\ ".." \notin Names /\ Slots = Names \cup Temps
BY TreeAssumption, JailAssumption DEF Objects, Slots

LEMMA IdleReq == Idle \in Req /\ Held(Idle)
<1>1. << >> \in Seq(Names) /\ Len(<< >>) = 0
  OBVIOUS
<1>2. Idle \in Req
  BY <1>1, Constants DEF Idle, Req, Purposes, Places, Hops
<1>3. Held(Idle)
  BY <1>1, Constants DEF Idle, Held, Parents, Uploading
<1> QED BY <1>2, <1>3

\* A walk at its beginning.
LEMMA WalkHeld ==
  ASSUME NEW r \in Req, r.pc = "walk", r.i = 1, r.fd = Root, r.tmp = Nil,
         r.then \in Parents => r.rel # << >>
  PROVE  Held(r)
<1>1. Len(r.parts) \in Nat
  BY DEF Req
<1> QED BY <1>1, Constants DEF Held, Uploading

LEMMA ResolveReq ==
  ASSUME NEW r \in Req, NEW t \in Purposes \ {"none"}, t \in Parents => r.rel # << >>
  PROVE  /\ Resolve(r, t) \in Req /\ (r.tmp = Nil => Held(Resolve(r, t)))
         /\ Resolve(r, t).pc = "walk" /\ Resolve(r, t).then = t /\ Resolve(r, t).i = 1
         /\ Resolve(r, t).fd = Root /\ Resolve(r, t).rel = r.rel /\ Resolve(r, t).tmp = r.tmp
<1> DEFINE P == IF t \in Parents THEN Front(r.rel) ELSE r.rel
<1>1. r.rel \in Seq(Names)
  BY DEF Req
<1>2. P \in Seq(Names)
  <2>1. CASE t \in Parents
    <3>1. Len(r.rel) \in Nat \ {0}
      BY <1>1, <2>1
    <3> QED BY <1>1, <2>1, <3>1 DEF Front
  <2> QED BY <1>1, <2>1
<1>4. Resolve(r, t) = [r EXCEPT !.pc = "walk", !.then = t, !.i = 1, !.fd = Root, !.hops = 0, !.parts = P]
  BY DEF Resolve
<1> HIDE DEF P
<1>5. Resolve(r, t) \in Req
  <2>1. "walk" \in Places /\ 0 \in Hops /\ Root \in Dirs \cup Files /\ t \in Purposes
    BY Constants DEF Places, Hops
  <2>2. [r EXCEPT !.pc = "walk", !.then = t, !.i = 1] \in Req
    BY <2>1 DEF Req
  <2>3. PICK q \in Req : q = [r EXCEPT !.pc = "walk", !.then = t, !.i = 1]
    BY <2>2
  <2>4. [q EXCEPT !.fd = Root, !.hops = 0, !.parts = P] \in Req
    BY <1>2, <2>1 DEF Req
  <2>5. Resolve(r, t) = [q EXCEPT !.fd = Root, !.hops = 0, !.parts = P]
    BY <1>4, <2>3
  <2> QED BY <2>4, <2>5
<1>6. /\ Resolve(r, t).pc = "walk" /\ Resolve(r, t).then = t /\ Resolve(r, t).i = 1
      /\ Resolve(r, t).fd = Root /\ Resolve(r, t).rel = r.rel /\ Resolve(r, t).tmp = r.tmp
  BY <1>4 DEF Req
<1>7. r.tmp = Nil => Held(Resolve(r, t))
  BY <1>5, <1>6, WalkHeld
<1> QED BY <1>5, <1>6, <1>7

LEMMA InitInv == Init => Inv
<1> SUFFICES ASSUME Init PROVE Inv
  OBVIOUS
<1> USE TreeAssumption, JailAssumption
<1>1. Requests
  BY IdleReq DEF Init, Requests
<1>0. PICK s \in Starts :
        kids = [d \in Dirs |-> [n \in Slots |-> IF n \in Names THEN s[d][n] ELSE Nil]]
  BY DEF Init
<1>2. /\ kids \in [Dirs -> [Slots -> Objects \cup {Nil}]]
      /\ \A d \in Dirs, n \in Names : kids[d][n] = s[d][n] /\ s[d][n] \notin Tops
      /\ \A d \in Dirs, n \in Temps : kids[d][n] = Nil
      /\ {d \in Dirs : \E n \in Names : s[d][n] = Secret} = {Outside}
  BY <1>0 DEF Slots
<1>3. Tree0
  <2>1. \A d \in Dirs, n \in Slots : kids[d][n] \notin Tops
    BY <1>2, Constants DEF Objects
  <2>2. Holders(Secret) = {Outside}
    BY <1>2, Constants DEF Holders
  <2> QED BY <1>2, <2>1, <2>2 DEF Tree0
<1>4. Bodies
  <2>1. \A w \in Workers : req[w].pc = "idle" /\ req[w].fd = Root
    BY DEF Init, Idle
  <2>2. body \in [Files -> {"whole", "partial"}] /\ \A f \in Files : body[f] = "whole"
    BY DEF Init
  <2> QED BY <2>1, <2>2 DEF Bodies, WholeBodies
<1>5. killed \subseteq Temps /\ NoLitter
  BY <1>2 DEF Init, NoLitter
<1> QED BY <1>1, <1>3, <1>4, <1>5 DEF Inv

-----------------------------------------------------------------------------
(* Entries *)

\* One entry of one directory changes.
LEMMA OneEntry ==
  ASSUME NEW d \in Dirs, NEW n \in Slots, NEW o \in Objects \cup {Nil},
         kids \in [Dirs -> [Slots -> Objects \cup {Nil}]],
         kids' = [kids EXCEPT ![d][n] = o]
  PROVE  /\ kids' \in [Dirs -> [Slots -> Objects \cup {Nil}]]
         /\ kids'[d][n] = o
         /\ \A e \in Dirs, m \in Slots : e # d \/ m # n => kids'[e][m] = kids[e][m]
<1>1. kids' = [kids EXCEPT ![d] = [kids[d] EXCEPT ![n] = o]]
  OBVIOUS
<1>2. kids[d] \in [Slots -> Objects \cup {Nil}]
  OBVIOUS
<1>3. [kids[d] EXCEPT ![n] = o] \in [Slots -> Objects \cup {Nil}]
  BY <1>2
<1>4. kids' \in [Dirs -> [Slots -> Objects \cup {Nil}]]
  BY <1>1, <1>3
<1>5. kids'[d] = [kids[d] EXCEPT ![n] = o] /\ \A e \in Dirs \ {d} : kids'[e] = kids[e]
  BY <1>1
<1> QED BY <1>2, <1>4, <1>5

\* Entries change outside Outside, to objects that may be there.
LEMMA TreeStep ==
  ASSUME Tree0, kids' \in [Dirs -> [Slots -> Objects \cup {Nil}]],
         \A d \in Dirs, n \in Slots :
           \/ kids'[d][n] = kids[d][n]
           \/ /\ d = Outside => kids[d][n] # Secret
              /\ kids'[d][n] \notin Tops \cup {Secret}
  PROVE  Tree0'
<1>1. \A d \in Dirs, n \in Slots : kids'[d][n] \notin Tops
  BY DEF Tree0
<1>2. Holders(Secret)' = {Outside}
  <2>1. \A d \in Dirs : (\E n \in Slots : kids[d][n] = Secret) <=> d = Outside
    BY Constants DEF Tree0, Holders
  <2>2. \A d \in Dirs : (\E n \in Slots : kids'[d][n] = Secret) <=> d = Outside
    BY <2>1, Constants DEF Tree0
  <2> QED BY <2>2, Constants DEF Holders
<1> QED BY <1>1, <1>2 DEF Tree0

\* No entry but one of Outside leads to the secret.
LEMMA SecretPlace ==
  ASSUME Tree0, NEW d \in Dirs, NEW n \in Slots, kids[d][n] = Secret
  PROVE  d = Outside
BY DEF Tree0, Holders

-----------------------------------------------------------------------------
(* Steps of a request that leave the tree alone *)

\* The request of w goes on as r.
LEMMA RequestStep ==
  ASSUME Requests, NEW w \in Workers, NEW r \in Req, Held(r), req' = [req EXCEPT ![w] = r]
  PROVE  /\ Requests' /\ req'[w] = r /\ \A v \in Workers \ {w} : req'[v] = req[v]
<1>1. req' \in [Workers -> Req] /\ req'[w] = r /\ \A v \in Workers \ {w} : req'[v] = req[v]
  BY DEF Requests
<1>2. \A v \in Workers : Held(req'[v])
  BY <1>1 DEF Requests
<1>3. Requests'
  BY <1>1, <1>2 DEF Requests, Held
<1> QED BY <1>1, <1>3

LEMMA QuietStep ==
  ASSUME Inv, NEW w \in Workers, NEW r \in Req, Held(r), req' = [req EXCEPT ![w] = r],
         UNCHANGED <<kids, body, killed>>,
         r.fd \in Files => body[r.fd] = "whole",
         r.pc # "rename", req[w].tmp = Nil
  PROVE  Inv'
<1>1. /\ Requests' /\ req'[w] = r /\ \A v \in Workers \ {w} : req'[v] = req[v]
  BY RequestStep DEF Inv
<1>2. Tree0' /\ killed' \subseteq Temps
  BY DEF Inv, Tree0, Holders
<1>3. Bodies'
  BY <1>1 DEF Inv, Bodies, WholeBodies
<1>4. NoLitter'
  <2> SUFFICES ASSUME NEW d \in Dirs, NEW t \in Temps, kids[d][t] # Nil, t \notin killed
               PROVE  \E v \in Workers : req'[v].tmp = t /\ req'[v].fd = d
    BY DEF NoLitter
  <2>1. PICK v \in Workers : req[v].tmp = t /\ req[v].fd = d
    BY DEF Inv, NoLitter
  <2>2. v # w
    BY <2>1, Constants
  <2> QED BY <1>1, <2>1, <2>2
<1> QED BY <1>1, <1>2, <1>3, <1>4 DEF Inv

\* The request ends.
LEMMA EndStep ==
  ASSUME Inv, NEW w \in Workers, req' = [req EXCEPT ![w] = Idle], UNCHANGED <<kids, body, killed>>,
         req[w].tmp = Nil
  PROVE  Inv'
<1>1. Idle.fd = Root /\ Idle.pc = "idle"
  BY DEF Idle
<1> QED BY <1>1, IdleReq, QuietStep, Constants

\* A walk begins or begins again.
LEMMA BeginStep ==
  ASSUME Inv, NEW w \in Workers, NEW r \in Req, NEW t \in Purposes \ {"none"},
         t \in Parents => r.rel # << >>, r.tmp = Nil, req[w].tmp = Nil,
         req' = [req EXCEPT ![w] = Resolve(r, t)], UNCHANGED <<kids, body, killed>>
  PROVE  Inv'
<1>1. PICK q : q = Resolve(r, t)
  OBVIOUS
<1>2. q \in Req /\ Held(q) /\ q.pc = "walk" /\ q.fd = Root
  BY <1>1, ResolveReq
<1> QED BY <1>1, <1>2, QuietStep, Constants

\* A request that is not uploading has no temporary file.
LEMMA NoTemp ==
  ASSUME Requests, NEW w \in Workers, req[w].pc \notin Uploading
  PROVE  req[w].tmp = Nil /\ req[w] \in Req /\ Held(req[w])
BY DEF Requests, Held

LEMMA BeginInv ==
  ASSUME Inv, NEW w \in Workers, NEW op, NEW path \in Paths, NEW t \in Purposes \ {"none"},
         Begin(w, op, path, t), t \in Parents => InCubby(path)
  PROVE  Inv'
<1> DEFINE rel == Components(path).parts
           r == [Idle EXCEPT !.op = op, !.rel = rel]
<1>1. rel \in Seq(Names)
  <2>1. path \in Seq(Names \cup {".."})
    BY JailAssumption
  <2> QED BY <2>1, ComponentsType DEF Path
<1>2. op \in Ops /\ req' = [req EXCEPT ![w] = Resolve(r, t)] /\ UNCHANGED <<kids, body, killed>>
  BY DEF Begin
<1>3. t \in Parents => rel # << >>
  BY DEF InCubby
<1>4. req[w].tmp = Nil
  BY NoTemp DEF Begin, Inv, Uploading
<1>5. Idle.tmp = Nil
  BY DEF Idle
<1> HIDE DEF rel
<1>6. r \in Req /\ r.rel = rel /\ r.tmp = Nil
  BY <1>1, <1>2, <1>5, IdleReq DEF Req
<1> QED BY <1>2, <1>3, <1>4, <1>6, BeginStep

\* One openat: the components are names, so it finds an entry of a directory that is
\* neither Outside nor anything an entry cannot lead to.
LEMMA OpenatStep ==
  ASSUME Inv, NEW w \in Workers, Openat(w)
  PROVE  Inv'
<1>0. PICK r \in Req : r = req[w] /\ Held(r)
  BY DEF Inv, Requests
<1>1. /\ r.pc = "walk" /\ r.i \in 1..Len(r.parts) /\ r.parts \in Seq(Names)
      /\ r.fd \in Dirs \ {Outside} /\ r.tmp = Nil /\ r.i \in Nat
  BY <1>0, Constants DEF Openat, Held, Req, Uploading
<1>2. PICK n \in Names : n = r.parts[r.i]
  BY <1>1
<1>3. PICK o : o = kids[r.fd][n]
  OBVIOUS
<1>4. o = Child(r.fd, r.parts[r.i])
  BY <1>2, <1>3, Constants DEF Child
<1>5. /\ req' = [req EXCEPT ![w] = IF Opens(r, o) THEN [r EXCEPT !.fd = o, !.i = r.i + 1]
                                   ELSE [r EXCEPT !.pc = "link"]]
      /\ UNCHANGED <<kids, body, killed>>
  BY <1>0, <1>4 DEF Openat
<1>6. o \notin {Outside, Secret}
  <2>1. n \in Slots /\ o \notin Tops /\ Outside \in Tops
    BY <1>1, <1>3, Constants, JailAssumption DEF Inv, Tree0
  <2> QED BY <1>1, <1>3, <2>1, SecretPlace DEF Inv
<1>7. CASE Opens(r, o)
  <2>1. o \in Dirs \cup Files /\ (o \in Files => r.i = Len(r.parts) /\ r.then \notin Parents)
    BY <1>7, Constants DEF Opens
  <2>2. PICK q : q = [r EXCEPT !.fd = o, !.i = r.i + 1]
    OBVIOUS
  <2>3. q \in Req
    <3>1. PICK k \in Nat : k = r.i + 1
      BY <1>1
    <3> QED BY <2>1, <2>2, <3>1 DEF Req
  <2>4. /\ q.fd = o /\ q.i = r.i + 1 /\ q.pc = r.pc /\ q.parts = r.parts /\ q.then = r.then
        /\ q.rel = r.rel /\ q.tmp = r.tmp /\ q.new = r.new
    BY <2>2 DEF Req
  <2>5. Len(r.parts) \in Nat
    BY <1>1
  <2>6. Held(q)
    BY <1>0, <1>1, <1>6, <2>1, <2>4, <2>5, Constants DEF Held, Uploading
  <2>7. o \in Files => body[o] = "whole"
    BY <1>1, <1>3 DEF Inv, Bodies, WholeBodies
  <2> QED BY <1>0, <1>1, <1>5, <1>7, <2>2, <2>3, <2>4, <2>6, <2>7, QuietStep
<1>8. CASE ~Opens(r, o)
  <2>1. PICK q : q = [r EXCEPT !.pc = "link"]
    OBVIOUS
  <2>2. q \in Req
    BY <2>1 DEF Req, Places
  <2>3. /\ q.fd = r.fd /\ q.i = r.i /\ q.pc = "link" /\ q.parts = r.parts /\ q.then = r.then
        /\ q.rel = r.rel /\ q.tmp = r.tmp /\ q.new = r.new
    BY <2>1 DEF Req
  <2>4. Held(q)
    BY <1>0, <1>1, <2>3 DEF Held, Uploading
  <2> QED BY <1>0, <1>1, <1>5, <1>8, <2>1, <2>2, <2>3, <2>4, QuietStep, Constants
<1> QED BY <1>7, <1>8

\* A link is joined to what was walked, and the walk starts again at the root.
LEMMA FollowStep ==
  ASSUME Inv, NEW w \in Workers, Follow(w)
  PROVE  Inv'
<1>0. PICK r \in Req : r = req[w] /\ Held(r)
  BY DEF Inv, Requests
<1>1. /\ r.pc = "link" /\ r.i \in 1..Len(r.parts) /\ r.parts \in Seq(Names) /\ r.tmp = Nil
      /\ r.then \in Parents => r.rel # << >>
  BY <1>0 DEF Follow, Held, Req, Uploading
<1>2. PICK l : l = Child(r.fd, r.parts[r.i])
  OBVIOUS
<1>3. CASE Refused(r)
  BY <1>0, <1>1, <1>3, EndStep DEF Follow
<1>4. CASE ~Refused(r)
  <2>1. l \in Links /\ r.hops + 1 \in Hops
    <3>1. r.hops \in Hops
      BY DEF Req
    <3> QED BY <1>2, <1>4, <3>1, Constants DEF Refused, TooMany, Hops
  <2>2. Joined(r, l).parts \in Seq(Names)
    <3>1. SubSeq(r.parts, 1, r.i - 1) \in Seq(Names \cup {".."})
      <4>1. r.parts \in Seq(Names \cup {".."})
        BY <1>1
      <4> QED BY <1>1, <4>1
    <3>2. Target[l].path \in Seq(Names \cup {".."})
      BY <2>1, JailAssumption
    <3>3. SubSeq(r.parts, 1, r.i - 1) \o Target[l].path \in Seq(Names \cup {".."})
      BY <3>1, <3>2
    <3> QED BY <3>3, ComponentsType DEF Joined, JoinComponents, Path
  <2>3. SubSeq(r.parts, r.i + 1, Len(r.parts)) \in Seq(Names)
    BY <1>1
  <2>4. PICK P \in Seq(Names) : P = Joined(r, l).parts \o SubSeq(r.parts, r.i + 1, Len(r.parts))
    <3>1. \A a, b \in Seq(Names) : a \o b \in Seq(Names)
      OBVIOUS
    <3> QED BY <2>2, <2>3, <3>1
  <2>5. PICK q : q = Again(r, P)
    OBVIOUS
  <2>6. req' = [req EXCEPT ![w] = q] /\ UNCHANGED <<kids, body, killed>>
    BY <1>0, <1>2, <1>4, <2>4, <2>5 DEF Follow
  <2>7. q = [r EXCEPT !.pc = "walk", !.parts = P, !.i = 1, !.fd = Root, !.hops = r.hops + 1]
    BY <2>5 DEF Again
  <2>8. q \in Req
    <3>1. "walk" \in Places /\ Root \in Dirs \cup Files /\ 1 \in Nat
      BY Constants DEF Places
    <3>2. PICK h : h = r.hops + 1
      OBVIOUS
    <3>3. PICK p \in Req : p = [r EXCEPT !.pc = "walk", !.parts = P, !.i = 1]
      BY <3>1 DEF Req
    <3>4. [p EXCEPT !.fd = Root, !.hops = h] \in Req
      BY <2>1, <3>1, <3>2 DEF Req
    <3> QED BY <2>7, <3>2, <3>3, <3>4
  <2>9. /\ q.pc = "walk" /\ q.i = 1 /\ q.fd = Root /\ q.tmp = Nil
        /\ q.then = r.then /\ q.rel = r.rel
    BY <1>1, <2>7 DEF Req
  <2>10. Held(q)
    BY <1>1, <2>8, <2>9, WalkHeld
  <2> QED BY <1>0, <1>1, <2>6, <2>8, <2>9, <2>10, QuietStep, Constants
<1> QED BY <1>3, <1>4

LEMMA StatStep ==
  ASSUME Inv, NEW w \in Workers, Stat(w)
  PROVE  Inv'
<1> DEFINE t == IF req[w].fd \in Dirs THEN "list" ELSE "read"
<1>1. req[w] \in Req /\ req[w].tmp = Nil
  BY NoTemp DEF Stat, Resolved, Inv, Uploading
<1>2. t \in Purposes \ {"none"} /\ t \notin Parents
  BY DEF Purposes, Parents
<1>3. req' = [req EXCEPT ![w] = Resolve(req[w], t)] /\ UNCHANGED <<kids, body, killed>>
  BY DEF Stat, Inv, Requests
<1> QED BY <1>1, <1>2, <1>3, BeginStep

LEMMA FinishStep ==
  ASSUME Inv, NEW w \in Workers, NEW t, Finish(w, t)
  PROVE  Inv'
BY NoTemp, EndStep DEF Finish, Resolved, Inv, Uploading

LEMMA KeepSetgidStep ==
  ASSUME Inv, NEW w \in Workers, KeepSetgid(w)
  PROVE  Inv'
<1>1. req[w] \in Req /\ req[w].tmp = Nil
  BY NoTemp DEF KeepSetgid, Inv, Uploading
<1>2. PICK next \in ChownRel(req[w]) :
        req' = [req EXCEPT ![w] = next] /\ UNCHANGED <<kids, body, killed>>
  BY DEF KeepSetgid
<1>3. CASE next = Idle
  BY <1>1, <1>2, <1>3, EndStep
<1>4. CASE next = Resolve(req[w], "chown")
  <2>1. "chown" \in Purposes \ {"none"} /\ "chown" \notin Parents
    BY DEF Purposes, Parents
  <2> QED BY <1>1, <1>2, <1>4, <2>1, BeginStep
<1> QED BY <1>2, <1>3, <1>4 DEF ChownRel

\* The last name of a path that is not the cubby.
LEMMA NameType ==
  ASSUME NEW r \in Req, r.rel # << >>
  PROVE  Name(r) \in Names /\ Name(r) \in Slots
<1>1. r.rel \in Seq(Names)
  BY DEF Req
<1>2. Len(r.rel) \in 1..Len(r.rel)
  BY <1>1
<1> QED BY <1>1, <1>2 DEF Name, Last, Slots

LEMMA LstatStep ==
  ASSUME Inv, NEW w \in Workers, Lstat(w)
  PROVE  Inv'
<1>0. PICK r \in Req : r = req[w] /\ Held(r)
  BY DEF Inv, Requests
<1>1. r.pc = "walk" /\ r.then = "lstat" /\ r.tmp = Nil
  BY <1>0 DEF Lstat, Resolved, Held, Uploading
<1>2. PICK o : o = kids[r.fd][Name(r)]
  OBVIOUS
<1>3. CASE o = Nil
  BY <1>0, <1>1, <1>2, <1>3, EndStep DEF Lstat
<1>4. CASE o # Nil
  <2> DEFINE b == o \in Dirs
  <2>1. b \in BOOLEAN
    OBVIOUS
  <2>2. PICK q : q = [r EXCEPT !.pc = "unlink", !.dir = b]
    OBVIOUS
  <2>3. req' = [req EXCEPT ![w] = q] /\ UNCHANGED <<kids, body, killed>>
    BY <1>0, <1>2, <1>4, <2>2 DEF Lstat
  <2> HIDE DEF b
  <2>4. q \in Req
    BY <2>1, <2>2 DEF Req, Places
  <2>5. /\ q.fd = r.fd /\ q.i = r.i /\ q.pc = "unlink" /\ q.parts = r.parts /\ q.then = r.then
        /\ q.rel = r.rel /\ q.tmp = r.tmp /\ q.new = r.new
    BY <2>2 DEF Req
  <2>6. Held(q)
    BY <1>0, <1>1, <2>5 DEF Held, Uploading, Parents
  <2>7. q.fd \in Files => body[q.fd] = "whole"
    BY <1>0, <2>5 DEF Inv, Bodies, WholeBodies
  <2> QED BY <1>0, <1>1, <2>3, <2>4, <2>5, <2>6, <2>7, QuietStep
<1> QED BY <1>3, <1>4

-----------------------------------------------------------------------------
(* Steps that change the tree *)

\* A step that ends the request of w, or carries it on, and changes entries so that none
\* leads to a file that could be partial and no temporary name is added.
LEMMA EntriesStep ==
  ASSUME Inv, NEW w \in Workers, NEW r \in Req, Held(r), req' = [req EXCEPT ![w] = r],
         UNCHANGED <<body, killed>>,
         r.fd \in Files => body[r.fd] = "whole", r.pc \notin Uploading,
         kids' \in [Dirs -> [Slots -> Objects \cup {Nil}]],
         \A d \in Dirs, n \in Slots :
           \/ kids'[d][n] = kids[d][n] /\ (n \in Temps => d # req[w].fd \/ n # req[w].tmp)
           \/ /\ d # Outside /\ kids'[d][n] \notin Tops \cup {Secret}
              /\ n \in Temps => kids'[d][n] = Nil
              /\ kids'[d][n] \in Files => body[kids'[d][n]] = "whole"
  PROVE  Inv'
<1>1. /\ Requests' /\ req'[w] = r /\ \A v \in Workers \ {w} : req'[v] = req[v]
  BY RequestStep DEF Inv
<1>2. Tree0'
  BY TreeStep DEF Inv
<1>3. Bodies'
  <2>1. \A d \in Dirs, n \in Names : kids'[d][n] \in Files => body[kids'[d][n]] = "whole"
    BY Constants DEF Inv, Bodies, WholeBodies
  <2> QED BY <1>1, <2>1 DEF Inv, Bodies, WholeBodies, Uploading
<1>4. NoLitter'
  <2> SUFFICES ASSUME NEW d \in Dirs, NEW t \in Temps, kids'[d][t] # Nil, t \notin killed
               PROVE  \E v \in Workers : req'[v].tmp = t /\ req'[v].fd = d
    BY DEF NoLitter
  <2>1. kids'[d][t] = kids[d][t] /\ (d # req[w].fd \/ t # req[w].tmp)
    BY Constants
  <2>2. PICK v \in Workers : req[v].tmp = t /\ req[v].fd = d
    BY <2>1 DEF Inv, NoLitter
  <2> QED BY <1>1, <2>1, <2>2
<1> QED BY <1>1, <1>2, <1>3, <1>4 DEF Inv

\* What an upload holds.
LEMMA UploadHeld ==
  ASSUME Requests, NEW w \in Workers, req[w].pc \in Uploading
  PROVE  /\ req[w] \in Req /\ req[w].fd \in Dirs \ {Outside} /\ req[w].tmp \in Temps
         /\ req[w].new \in Files \ {Secret} /\ req[w].rel # << >>
<1>1. req[w] \in Req /\ Held(req[w])
  BY DEF Requests
<1> QED BY <1>1 DEF Held, Req, Uploading

LEMMA DropTempStep ==
  ASSUME Inv, NEW w \in Workers, req[w].pc \in Uploading, DropTemp(w)
  PROVE  Inv'
<1>1. PICK d \in Dirs \ {Outside}, t \in Temps : d = req[w].fd /\ t = req[w].tmp
  BY UploadHeld DEF Inv
<1>2. /\ kids' = [kids EXCEPT ![d][t] = Nil] /\ req' = [req EXCEPT ![w] = Idle]
      /\ UNCHANGED <<body, killed>>
  BY <1>1 DEF DropTemp
<1>3. t \in Slots /\ kids \in [Dirs -> [Slots -> Objects \cup {Nil}]]
  BY DEF Slots, Inv, Tree0
<1>4. /\ kids' \in [Dirs -> [Slots -> Objects \cup {Nil}]] /\ kids'[d][t] = Nil
      /\ \A e \in Dirs, m \in Slots : e # d \/ m # t => kids'[e][m] = kids[e][m]
  BY <1>2, <1>3, OneEntry
<1>5. Idle.fd = Root /\ Idle.pc = "idle"
  BY DEF Idle
<1>6. Nil \notin Tops \cup {Secret} \cup Files
  BY Constants, TreeAssumption, JailAssumption
<1>7. \A e \in Dirs, m \in Slots :
        \/ kids'[e][m] = kids[e][m] /\ (m \in Temps => e # req[w].fd \/ m # req[w].tmp)
        \/ /\ e # Outside /\ kids'[e][m] \notin Tops \cup {Secret}
           /\ m \in Temps => kids'[e][m] = Nil
           /\ kids'[e][m] \in Files => body[kids'[e][m]] = "whole"
  BY <1>1, <1>4, <1>6
<1>8. Idle.fd \notin Files /\ Idle.pc \notin Uploading
  BY <1>5, Constants DEF Uploading
<1> QED BY <1>2, <1>4, <1>7, <1>8, IdleReq, EntriesStep

LEMMA UnlinkStep ==
  ASSUME Inv, NEW w \in Workers, Unlink(w)
  PROVE  Inv'
<1>0. PICK r \in Req : r = req[w] /\ Held(r)
  BY DEF Inv, Requests
<1>1. /\ r.pc = "unlink" /\ r.fd \in Dirs \ {Outside} /\ r.tmp = Nil /\ r.rel # << >>
      /\ Name(r) \in Names /\ Name(r) \in Slots
  BY <1>0, NameType DEF Unlink, Held, Uploading
<1>2. /\ req' = [req EXCEPT ![w] = Idle] /\ UNCHANGED <<body, killed>>
      /\ kids' = kids \/ kids' = [kids EXCEPT ![r.fd][Name(r)] = Nil]
  BY <1>0 DEF Unlink
<1>3. CASE kids' = kids
  BY <1>0, <1>1, <1>2, <1>3, EndStep
<1>4. CASE kids' = [kids EXCEPT ![r.fd][Name(r)] = Nil]
  <2>1. kids \in [Dirs -> [Slots -> Objects \cup {Nil}]]
    BY DEF Inv, Tree0
  <2>2. /\ kids' \in [Dirs -> [Slots -> Objects \cup {Nil}]] /\ kids'[r.fd][Name(r)] = Nil
        /\ \A e \in Dirs, m \in Slots : e # r.fd \/ m # Name(r) => kids'[e][m] = kids[e][m]
    BY <1>1, <1>4, <2>1, OneEntry
  <2>3. Idle.fd = Root /\ Idle.pc = "idle"
    BY DEF Idle
  <2>4. Nil \notin Tops \cup {Secret} \cup Files \cup Temps
    BY Constants, TreeAssumption, JailAssumption
  <2>5. \A e \in Dirs, m \in Slots :
          \/ kids'[e][m] = kids[e][m] /\ (m \in Temps => e # req[w].fd \/ m # req[w].tmp)
          \/ /\ e # Outside /\ kids'[e][m] \notin Tops \cup {Secret}
             /\ m \in Temps => kids'[e][m] = Nil
             /\ kids'[e][m] \in Files => body[kids'[e][m]] = "whole"
    BY <1>0, <1>1, <2>2, <2>4
  <2>6. Idle.fd \notin Files /\ Idle.pc \notin Uploading
    BY <2>3, Constants DEF Uploading
  <2> QED BY <1>2, <2>2, <2>5, <2>6, IdleReq, EntriesStep
<1> QED BY <1>2, <1>3, <1>4

LEMMA MkdirStep ==
  ASSUME Inv, NEW w \in Workers, NEW d \in Dirs, Mkdir(w, d)
  PROVE  Inv'
<1>0. PICK r \in Req : r = req[w] /\ Held(r)
  BY DEF Inv, Requests
<1>1. /\ r.pc = "walk" /\ r.then = "mkdir" /\ r.fd \in Dirs \ {Outside} /\ r.tmp = Nil
      /\ r.rel # << >> /\ Name(r) \in Names /\ Name(r) \in Slots
  BY <1>0, NameType DEF Mkdir, Resolved, Held, Uploading, Parents
<1>2. CASE ~(Linked(r.fd) /\ kids[r.fd][Name(r)] = Nil)
  BY <1>0, <1>1, <1>2, EndStep DEF Mkdir
<1>3. CASE Linked(r.fd) /\ kids[r.fd][Name(r)] = Nil
  <2>1. /\ kids' = [kids EXCEPT ![r.fd][Name(r)] = d] /\ d \notin Tops
        /\ req' = [req EXCEPT ![w].pc = "setgid"] /\ UNCHANGED <<body, killed>>
    BY <1>0, <1>3 DEF Mkdir, Free
  <2>2. kids \in [Dirs -> [Slots -> Objects \cup {Nil}]] /\ d \in Objects \cup {Nil}
    BY DEF Inv, Tree0, Objects
  <2>3. /\ kids' \in [Dirs -> [Slots -> Objects \cup {Nil}]] /\ kids'[r.fd][Name(r)] = d
        /\ \A e \in Dirs, m \in Slots : e # r.fd \/ m # Name(r) => kids'[e][m] = kids[e][m]
    BY <1>1, <2>1, <2>2, OneEntry
  <2>4. PICK q : q = [r EXCEPT !.pc = "setgid"]
    OBVIOUS
  <2>5. q \in Req
    BY <2>4 DEF Req, Places
  <2>6. /\ q.fd = r.fd /\ q.i = r.i /\ q.pc = "setgid" /\ q.parts = r.parts /\ q.then = r.then
        /\ q.rel = r.rel /\ q.tmp = r.tmp /\ q.new = r.new
    BY <2>4 DEF Req
  <2>7. Held(q)
    BY <1>0, <1>1, <2>6 DEF Held, Uploading, Parents
  <2>8. req' = [req EXCEPT ![w] = q]
    BY <1>0, <2>1, <2>4 DEF Inv, Requests
  <2>9. d \notin Files /\ d # Secret /\ Name(r) \notin Temps
    BY <1>1, Constants
  <2>10. \A e \in Dirs, n \in Slots :
           \/ kids'[e][n] = kids[e][n] /\ (n \in Temps => e # req[w].fd \/ n # req[w].tmp)
           \/ /\ e # Outside /\ kids'[e][n] \notin Tops \cup {Secret}
              /\ n \in Temps => kids'[e][n] = Nil
              /\ kids'[e][n] \in Files => body[kids'[e][n]] = "whole"
    BY <1>0, <1>1, <2>1, <2>3, <2>9, Constants
  <2> QED BY <1>0, <1>1, <2>1, <2>3, <2>5, <2>6, <2>7, <2>8, <2>10, EntriesStep, Constants DEF Uploading
<1> QED BY <1>2, <1>3

LEMMA RenameStep ==
  ASSUME Inv, NEW w \in Workers, Rename(w)
  PROVE  Inv'
<1>0. PICK r \in Req : r = req[w] /\ Held(r)
  BY DEF Inv, Requests
<1>1. /\ r.pc = "rename" /\ r.fd \in Dirs \ {Outside} /\ r.tmp \in Temps /\ r.rel # << >>
      /\ r.new \in Files \ {Secret} /\ body[r.new] = "whole"
      /\ Name(r) \in Names /\ Name(r) \in Slots /\ r.tmp \in Slots
  BY <1>0, NameType, UploadHeld DEF Rename, Inv, Bodies, Uploading, Slots
<1>2. PICK n \in Names, t \in Temps, d \in Dirs \ {Outside} : n = Name(r) /\ t = r.tmp /\ d = r.fd
  BY <1>1
<1>3. kids' = [kids EXCEPT ![d][n] = r.new, ![d][t] = Nil] /\ UNCHANGED <<body, killed>>
  BY <1>0, <1>2 DEF Rename
<1>4. kids \in [Dirs -> [Slots -> Objects \cup {Nil}]] /\ n \in Slots /\ t \in Slots /\ n # t
      /\ r.new \in Objects \cup {Nil}
  BY <1>1, <1>2, Constants DEF Inv, Tree0, Objects, Slots
<1>5. /\ kids' \in [Dirs -> [Slots -> Objects \cup {Nil}]]
      /\ kids'[d][n] = r.new /\ kids'[d][t] = Nil
      /\ \A e \in Dirs, m \in Slots : e # d \/ m \notin {n, t} => kids'[e][m] = kids[e][m]
  <2>1. kids' = [kids EXCEPT ![d] = [kids[d] EXCEPT ![n] = r.new, ![t] = Nil]]
    BY <1>3, <1>4
  <2>2. kids[d] \in [Slots -> Objects \cup {Nil}]
    BY <1>4
  <2>3. [kids[d] EXCEPT ![n] = r.new, ![t] = Nil] \in [Slots -> Objects \cup {Nil}]
    BY <1>4, <2>2
  <2>4. kids'[d] = [kids[d] EXCEPT ![n] = r.new, ![t] = Nil] /\ \A e \in Dirs \ {d} : kids'[e] = kids[e]
    BY <1>4, <2>1
  <2> QED BY <1>4, <2>1, <2>2, <2>3, <2>4
<1>6. PICK next \in ChownRel(r) : req' = [req EXCEPT ![w] = [next EXCEPT !.new = Nil, !.tmp = Nil]]
  BY <1>0 DEF Rename
<1>7. /\ next \in Req /\ next.i = 1 /\ next.fd = Root /\ next.then \notin Parents
      /\ next = Idle \/ next.pc = "walk"
  <2>1. "chown" \in Purposes \ {"none"} /\ "chown" \notin Parents
    BY DEF Purposes, Parents
  <2>2. CASE next = Resolve(r, "chown")
    BY <2>1, <2>2, ResolveReq
  <2>3. CASE next = Idle
    BY <2>3, IdleReq DEF Idle, Parents
  <2> QED BY <1>6, <2>2, <2>3 DEF ChownRel
<1>8. PICK q : q = [next EXCEPT !.new = Nil, !.tmp = Nil]
  OBVIOUS
<1>9. q \in Req
  BY <1>7, <1>8 DEF Req
<1>10. /\ q.i = 1 /\ q.fd = Root /\ q.then \notin Parents /\ q.tmp = Nil /\ q.pc \in {"idle", "walk"}
  <2>1. Idle.pc = "idle"
    BY DEF Idle
  <2> QED BY <1>7, <1>8, <2>1 DEF Req
<1>11. Held(q)
  <2>1. Len(q.parts) \in Nat
    BY <1>9 DEF Req
  <2> QED BY <1>10, <2>1, Constants DEF Held, Uploading
<1>12. r.new \notin Tops \cup {Secret} /\ Nil \notin Tops \cup {Secret} \cup Files
  BY <1>1, Constants, TreeAssumption, JailAssumption
<1>13. \A e \in Dirs, m \in Slots :
         \/ kids'[e][m] = kids[e][m] /\ (m \in Temps => e # req[w].fd \/ m # req[w].tmp)
         \/ /\ e # Outside /\ kids'[e][m] \notin Tops \cup {Secret}
            /\ m \in Temps => kids'[e][m] = Nil
            /\ kids'[e][m] \in Files => body[kids'[e][m]] = "whole"
  BY <1>0, <1>1, <1>2, <1>5, <1>12, Constants
<1> QED BY <1>3, <1>5, <1>6, <1>8, <1>9, <1>10, <1>11, <1>13, EntriesStep, Constants DEF Uploading

\* The file of an upload is new: nothing leads to it and no request has it open, so its
\* body may be partial.
LEMMA CreateTempStep ==
  ASSUME Inv, NEW w \in Workers, NEW t \in Temps, NEW f \in Files, CreateTemp(w, t, f)
  PROVE  Inv'
<1>0. PICK r \in Req : r = req[w] /\ Held(r)
  BY DEF Inv, Requests
<1>1. /\ r.pc = "walk" /\ r.then = "tmp" /\ r.fd \in Dirs \ {Outside} /\ r.tmp = Nil
      /\ r.rel # << >> /\ r.then \in Parents
  BY <1>0 DEF CreateTemp, Resolved, Held, Uploading, Parents
<1>2. CASE ~Linked(r.fd)
  BY <1>0, <1>1, <1>2, EndStep DEF CreateTemp
<1>3. CASE Linked(r.fd)
  <2>1. /\ f \in Free(Files) /\ kids' = [kids EXCEPT ![r.fd][t] = f]
        /\ body' = [body EXCEPT ![f] = "partial"]
        /\ req' = [req EXCEPT ![w].pc = "copy", ![w].tmp = t, ![w].new = f]
        /\ UNCHANGED killed
    BY <1>0, <1>3 DEF CreateTemp
  <2>2. /\ \A d \in Dirs, n \in Slots : kids[d][n] # f
        /\ \A v \in Workers : req[v].fd # f /\ req[v].new # f
    BY <2>1 DEF Free, Holders
  <2>3. f # Secret /\ f \notin Tops
    BY <2>2, Constants, JailAssumption DEF Inv, Tree0, Holders
  <2>4. /\ kids \in [Dirs -> [Slots -> Objects \cup {Nil}]] /\ f \in Objects \cup {Nil}
        /\ t \in Slots
    BY DEF Inv, Tree0, Objects, Slots
  <2>5. /\ kids' \in [Dirs -> [Slots -> Objects \cup {Nil}]] /\ kids'[r.fd][t] = f
        /\ \A e \in Dirs, m \in Slots : e # r.fd \/ m # t => kids'[e][m] = kids[e][m]
    BY <1>1, <2>1, <2>4, OneEntry
  <2>6. PICK q : q = [r EXCEPT !.pc = "copy", !.tmp = t, !.new = f]
    OBVIOUS
  <2>7. q \in Req
    BY <2>6 DEF Req, Places
  <2>8. /\ q.fd = r.fd /\ q.i = r.i /\ q.pc = "copy" /\ q.parts = r.parts /\ q.then = r.then
        /\ q.rel = r.rel /\ q.tmp = t /\ q.new = f
    BY <2>6 DEF Req
  <2>9. Held(q)
    BY <1>0, <1>1, <2>3, <2>8, Constants DEF Held, Uploading
  <2>10. req' = [req EXCEPT ![w] = q]
    BY <1>0, <2>1, <2>6 DEF Inv, Requests
  <2>11. /\ Requests' /\ req'[w] = q /\ \A v \in Workers \ {w} : req'[v] = req[v]
    BY <2>7, <2>9, <2>10, RequestStep DEF Inv
  <2>12. Tree0'
    <3>1. \A e \in Dirs, m \in Slots :
            \/ kids'[e][m] = kids[e][m]
            \/ /\ e = Outside => kids[e][m] # Secret
               /\ kids'[e][m] \notin Tops \cup {Secret}
      BY <1>1, <2>3, <2>5
    <3> QED BY <2>5, <3>1, TreeStep DEF Inv
  <2>13. Bodies'
    <3>1. /\ body' \in [Files -> {"whole", "partial"}]
          /\ \A g \in Files \ {f} : body'[g] = body[g]
      BY <2>1 DEF Inv, Bodies
    <3>2. \A d \in Dirs, n \in Names : kids'[d][n] = kids[d][n]
      BY <2>5, Constants
    <3>3. \A d \in Dirs, n \in Names : kids'[d][n] \in Files => body'[kids'[d][n]] = "whole"
      BY <2>2, <3>1, <3>2, Constants DEF Inv, Bodies, WholeBodies
    <3>4. \A v \in Workers : req'[v].fd \in Files => body'[req'[v].fd] = "whole"
      BY <1>0, <2>2, <2>8, <2>11, <3>1 DEF Inv, Bodies, WholeBodies
    <3>5. \A v \in Workers : req'[v].pc = "rename" => body'[req'[v].new] = "whole"
      <4> SUFFICES ASSUME NEW v \in Workers, req'[v].pc = "rename"
                   PROVE  body'[req'[v].new] = "whole"
        OBVIOUS
      <4>1. v # w /\ req'[v] = req[v] /\ req[v].pc = "rename"
        BY <2>8, <2>11
      <4>2. req[v].new \in Files
        BY <4>1, UploadHeld DEF Inv, Uploading
      <4> QED BY <2>2, <3>1, <4>1, <4>2 DEF Inv, Bodies
    <3> QED BY <3>1, <3>3, <3>4, <3>5 DEF Bodies, WholeBodies
  <2>14. NoLitter'
    <3> SUFFICES ASSUME NEW d \in Dirs, NEW s \in Temps, kids'[d][s] # Nil, s \notin killed
                 PROVE  \E v \in Workers : req'[v].tmp = s /\ req'[v].fd = d
      BY ZenonT(40), <2>1 DEF NoLitter
    <3>1. CASE d = r.fd /\ s = t
      BY <2>8, <2>11, <3>1
    <3>2. CASE d # r.fd \/ s # t
      <4>1. kids[d][s] # Nil
        BY <2>5, <3>2, Constants
      <4>2. PICK v \in Workers : req[v].tmp = s /\ req[v].fd = d
        BY <4>1 DEF Inv, NoLitter
      <4>3. v # w
        BY <1>0, <1>1, <4>2, Constants
      <4> QED BY <2>11, <4>2, <4>3
    <3> QED BY <3>1, <3>2
  <2> QED BY <2>1, <2>11, <2>12, <2>13, <2>14 DEF Inv
<1> QED BY <1>2, <1>3

\* The body of an upload is complete.
LEMMA CopyStep ==
  ASSUME Inv, NEW w \in Workers, Copy(w)
  PROVE  Inv'
<1>0. PICK r \in Req : r = req[w] /\ Held(r)
  BY DEF Inv, Requests
<1>1. /\ r.pc = "copy" /\ r.new \in Files /\ body' = [body EXCEPT ![r.new] = "whole"]
      /\ req' = [req EXCEPT ![w].pc = "rename"] /\ UNCHANGED <<kids, killed>>
  BY <1>0, UploadHeld DEF Copy, Inv, Uploading
<1>2. PICK q : q = [r EXCEPT !.pc = "rename"]
  OBVIOUS
<1>3. q \in Req
  BY <1>2 DEF Req, Places
<1>4. /\ q.fd = r.fd /\ q.i = r.i /\ q.pc = "rename" /\ q.parts = r.parts /\ q.then = r.then
      /\ q.rel = r.rel /\ q.tmp = r.tmp /\ q.new = r.new
  BY <1>2 DEF Req
<1>5. Held(q)
  BY <1>0, <1>1, <1>4 DEF Held, Uploading
<1>6. req' = [req EXCEPT ![w] = q]
  BY <1>0, <1>1, <1>2 DEF Inv, Requests
<1>7. /\ Requests' /\ req'[w] = q /\ \A v \in Workers \ {w} : req'[v] = req[v]
  BY <1>3, <1>5, <1>6, RequestStep DEF Inv
<1>8. Tree0'
  BY <1>1 DEF Inv, Tree0, Holders
<1>9. Bodies'
  <2>1. /\ body' \in [Files -> {"whole", "partial"}] /\ body'[r.new] = "whole"
        /\ \A g \in Files : body[g] = "whole" => body'[g] = "whole"
    BY <1>1 DEF Inv, Bodies
  <2>2. \A v \in Workers : req'[v].pc = "rename" => body'[req'[v].new] = "whole"
    <3> SUFFICES ASSUME NEW v \in Workers, v # w, req[v].pc = "rename"
                 PROVE  body'[req[v].new] = "whole"
      BY <1>4, <1>7, <2>1
    <3>1. req[v].new \in Files
      BY UploadHeld DEF Inv, Uploading
    <3> QED BY <2>1, <3>1 DEF Inv, Bodies
  <2>3. \A v \in Workers : req'[v].fd \in Files => body'[req'[v].fd] = "whole"
    BY <1>0, <1>4, <1>7, <2>1 DEF Inv, Bodies, WholeBodies
  <2> QED BY <1>1, <2>1, <2>2, <2>3 DEF Inv, Bodies, WholeBodies
<1>10. NoLitter'
  <2>1. \A v \in Workers : req'[v].tmp = req[v].tmp /\ req'[v].fd = req[v].fd
    BY <1>0, <1>4, <1>7
  <2> QED BY <1>1, <2>1 DEF Inv, NoLitter
<1> QED BY <1>1, <1>7, <1>8, <1>9, <1>10 DEF Inv

\* The owner moves what names lead to, and neither the secret nor a temporary file.
LEMMA OwnerStep ==
  ASSUME Inv, NEW a \in Dirs, NEW b \in Dirs, NEW x \in Names, NEW y \in Names,
         Owner(a, x, b, y)
  PROVE  Inv'
<1>1. PICK p, q : p = kids[a][x] /\ q = kids[b][y]
  OBVIOUS
<1>2. /\ p # q /\ p # Secret /\ q # Secret
      /\ kids' = [kids EXCEPT ![a][x] = q, ![b][y] = p] /\ UNCHANGED <<body, req, killed>>
  BY <1>1, JailAssumption DEF Owner, Exchange, Movable
<1>3. /\ kids \in [Dirs -> [Slots -> Objects \cup {Nil}]] /\ x \in Slots /\ y \in Slots
      /\ p \in Objects \cup {Nil} /\ q \in Objects \cup {Nil} /\ p \notin Tops /\ q \notin Tops
  <2>1. x \in Slots /\ y \in Slots
    BY DEF Slots
  <2>2. kids \in [Dirs -> [Slots -> Objects \cup {Nil}]]
    BY DEF Inv, Tree0
  <2>3. p \notin Tops /\ q \notin Tops
    BY <1>1, <2>1 DEF Inv, Tree0
  <2> QED BY <1>1, <2>1, <2>2, <2>3
<1>4. PICK mid : mid = [kids EXCEPT ![a] = [kids[a] EXCEPT ![x] = q]]
  OBVIOUS
<1>5. /\ mid \in [Dirs -> [Slots -> Objects \cup {Nil}]] /\ mid[a][x] = q
      /\ \A e \in Dirs, m \in Slots : e # a \/ m # x => mid[e][m] = kids[e][m]
  <2>1. [kids[a] EXCEPT ![x] = q] \in [Slots -> Objects \cup {Nil}]
    BY <1>3
  <2> QED BY <1>3, <1>4, <2>1
<1>6. kids' = [mid EXCEPT ![b] = [mid[b] EXCEPT ![y] = p]]
  BY <1>2, <1>4
<1>7. /\ kids' \in [Dirs -> [Slots -> Objects \cup {Nil}]] /\ kids'[b][y] = p
      /\ \A e \in Dirs, m \in Slots : e # b \/ m # y => kids'[e][m] = mid[e][m]
  <2>1. [mid[b] EXCEPT ![y] = p] \in [Slots -> Objects \cup {Nil}]
    BY <1>3, <1>5
  <2> QED BY <1>3, <1>5, <1>6, <2>1
<1>8. \A e \in Dirs, m \in Slots :
        \/ kids'[e][m] = kids[e][m]
        \/ m \in Names /\ kids[e][m] \in {p, q} /\ kids'[e][m] \in {p, q}
  BY <1>1, <1>3, <1>5, <1>7
<1>9. Tree0'
  <2>1. \A e \in Dirs, m \in Slots :
          \/ kids'[e][m] = kids[e][m]
          \/ /\ e = Outside => kids[e][m] # Secret
             /\ kids'[e][m] \notin Tops \cup {Secret}
    BY <1>2, <1>3, <1>8
  <2> QED BY <1>7, <2>1, TreeStep DEF Inv
<1>10. Bodies'
  <2>1. (p \in Files => body[p] = "whole") /\ (q \in Files => body[q] = "whole")
    BY <1>1 DEF Inv, Bodies, WholeBodies
  <2>2. \A d \in Dirs, n \in Names : kids'[d][n] \in Files => body[kids'[d][n]] = "whole"
    BY <1>8, <2>1, Constants DEF Inv, Bodies, WholeBodies
  <2> QED BY <1>2, <2>2 DEF Inv, Bodies, WholeBodies
<1>11. NoLitter'
  <2>1. \A d \in Dirs, s \in Temps : kids'[d][s] = kids[d][s]
    BY <1>8, Constants
  <2> QED BY <1>2, <2>1 DEF Inv, NoLitter
<1>12. Requests'
  BY <1>2 DEF Inv, Requests, Held
<1> QED BY <1>2, <1>9, <1>10, <1>11, <1>12 DEF Inv

\* A kill leaves the temporary files behind, and remembers them.
LEMMA KillStep ==
  ASSUME Inv, Kill
  PROVE  Inv'
<1>1. /\ killed' = killed \cup {req[w].tmp : w \in {v \in Workers : req[v].tmp # Nil}}
      /\ req' = [w \in Workers |-> Idle] /\ UNCHANGED <<kids, body>>
  BY DEF Kill
<1>2. \A w \in Workers : req[w].tmp \in Temps \cup {Nil}
  BY DEF Inv, Requests, Req
<1>3. \A w \in Workers : req'[w] = Idle
  BY <1>1
<1>4. Requests'
  <2>1. req' \in [Workers -> Req]
    BY <1>1, IdleReq
  <2>2. \A w \in Workers : Held(req'[w])
    BY <1>3, IdleReq
  <2> QED BY <2>1, <2>2 DEF Requests, Held
<1>5. Tree0'
  BY <1>1 DEF Inv, Tree0, Holders
<1>6. Bodies'
  <2>1. Idle.fd = Root /\ Idle.pc = "idle"
    BY DEF Idle
  <2> QED BY <1>1, <1>3, <2>1, Constants DEF Inv, Bodies, WholeBodies
<1>7. killed' \subseteq Temps
  BY <1>1, <1>2 DEF Inv
<1>8. NoLitter'
  <2> SUFFICES ASSUME NEW d \in Dirs, NEW t \in Temps, kids[d][t] # Nil
               PROVE  t \in killed'
    BY <1>1 DEF NoLitter
  <2>1. t \in killed \/ \E w \in Workers : req[w].tmp = t
    BY DEF Inv, NoLitter
  <2> QED BY <1>1, <2>1, Constants
<1> QED BY <1>4, <1>5, <1>6, <1>7, <1>8 DEF Inv

LEMMA StepInv ==
  ASSUME Inv, NEW w \in Workers, Step(w)
  PROVE  Inv'
<1>1. CASE Openat(w)
  BY <1>1, OpenatStep
<1>2. CASE Follow(w)
  BY <1>2, FollowStep
<1>3. CASE Stat(w)
  BY <1>3, StatStep
<1>4. CASE List(w) \/ Serve(w) \/ Chown(w)
  BY <1>4, FinishStep DEF List, Serve, Chown
<1>5. CASE KeepSetgid(w)
  BY <1>5, KeepSetgidStep
<1>6. CASE Lstat(w)
  BY <1>6, LstatStep
<1>7. CASE Unlink(w)
  BY <1>7, UnlinkStep
<1>8. CASE \E d \in Dirs : Mkdir(w, d)
  BY <1>8, MkdirStep
<1> QED BY <1>1, <1>2, <1>3, <1>4, <1>5, <1>6, <1>7, <1>8 DEF Step

LEMMA InvStep == Inv /\ [Next]_vars => Inv'
<1> SUFFICES ASSUME Inv, [Next]_vars PROVE Inv'
  OBVIOUS
<1>1. CASE UNCHANGED vars
  BY <1>1 DEF vars, Inv, Requests, Held, Tree0, Holders, Bodies, WholeBodies, NoLitter
<1>2. ASSUME NEW w \in Workers, NEW path \in Paths,
             Get(w, path) \/ Put(w, path) \/ DoMkdir(w, path) \/ Delete(w, path)
      PROVE  Inv'
  <2>1. /\ {"stat", "tmp", "mkdir", "lstat"} \subseteq Purposes \ {"none"} /\ "stat" \notin Parents
    BY DEF Purposes, Parents
  <2> QED BY <1>2, <2>1, BeginInv DEF Get, Put, DoMkdir, Delete
<1>3. ASSUME NEW w \in Workers, Step(w) PROVE Inv'
  BY <1>3, StepInv
<1>4. ASSUME NEW w \in Workers, NEW t \in Temps, NEW f \in Files, CreateTemp(w, t, f) PROVE Inv'
  BY <1>4, CreateTempStep
<1>5. ASSUME NEW w \in Workers, Copy(w) PROVE Inv'
  BY <1>5, CopyStep
<1>6. ASSUME NEW w \in Workers, CopyFails(w) \/ RenameFails(w) PROVE Inv'
  BY <1>6, DropTempStep DEF CopyFails, RenameFails, Uploading
<1>7. ASSUME NEW w \in Workers, Rename(w) PROVE Inv'
  BY <1>7, RenameStep
<1>8. ASSUME NEW a \in Dirs, NEW b \in Dirs, NEW x \in Names, NEW y \in Names, Owner(a, x, b, y)
      PROVE  Inv'
  BY <1>8, OwnerStep
<1>9. CASE Kill
  BY <1>9, KillStep
<1> QED BY <1>1, <1>2, <1>3, <1>4, <1>5, <1>6, <1>7, <1>8, <1>9 DEF Next

\* The invariant holds in every state of the daemon, the owner and the kernel.
THEOREM JailInvariance == Spec => []Inv
BY InitInv, InvStep, PTL DEF Spec

-----------------------------------------------------------------------------
(* Properties *)

\* Every variable keeps its type, and resolve follows fewer than maxSymlinks links, for
\* any tree and any number of requests.
THEOREM JailTypes == Spec => []TypeOK
<1>1. Inv => TypeOK
  <2> SUFFICES ASSUME Inv PROVE TypeOK
    OBVIOUS
  <2>1. ASSUME NEW w \in Workers
        PROVE  /\ req[w].op \in {"none"} \cup Ops
               /\ req[w].pc \in {"idle", "walk", "link", "copy", "rename", "setgid", "unlink"}
               /\ req[w].i \in 1..(Len(req[w].parts) + 1)
               /\ req[w].fd \in Dirs \cup Files
               /\ req[w].hops \in 0..(MaxSymlinks - 1)
    <3>1. req[w] \in Req /\ req[w].i \in 1..(Len(req[w].parts) + 1)
      BY DEF Inv, Requests, Held
    <3> QED BY <3>1 DEF Req, Places, Hops
  <2> QED BY <2>1 DEF Inv, Tree0, Bodies, TypeOK
<1> QED BY <1>1, JailInvariance, PTL

\* The jail (walk, resolve and joinComponents) holds every request inside the cubby, for
\* any links, paths and trees and whatever the owner moves while requests are under way:
\* components leaves no "..", so a walk only ever reads entries; no entry leads to the
\* directory around the cubby, and only its own entries lead to somebody else's file.
THEOREM ConfinedHolds == Spec => []Confined
<1>1. Inv => Confined
  BY DEF Inv, Requests, Held, Tree0, Confined
<1> QED BY <1>1, JailInvariance, PTL

\* Replace: no name leads to the start of a body and no GET has one open, for any number
\* of uploads, failed copies and kills.
THEOREM WholeBodiesHold == Spec => []WholeBodies
<1>1. Inv => WholeBodies
  BY DEF Inv, Bodies
<1> QED BY <1>1, JailInvariance, PTL

\* Replace's deferred Unlinkat: a temporary file belongs to an upload in flight or to one
\* that was killed.
THEOREM NoLitterHolds == Spec => []NoLitter
<1>1. Inv => NoLitter
  BY DEF Inv
<1> QED BY <1>1, JailInvariance, PTL
===============================================================================
