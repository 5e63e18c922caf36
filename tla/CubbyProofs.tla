------------------------------ MODULE CubbyProofs ------------------------------
(***************************************************************************)
(* Cubby for any tree and any number of repairs.  Five inductive           *)
(* invariants, each of the others on top of the first:                     *)
(*                                                                         *)
(*   Inv      what every descriptor, stack and entry can lead to: an       *)
(*            object that is neither one of Tops nor Fixed.  From it:      *)
(*            nothing is ever in two places, and with Calm that a repair   *)
(*            changes nothing but what is in the cubby (RepairLocal).      *)
(*   Calm     for a repair that nobody disturbs, a set of objects that     *)
(*            are mended, closed under what the daemon can open but for    *)
(*            the entries the walk has still to visit.  From it: a full    *)
(*            repair leaves everything reachable as the mount needs it     *)
(*            (Converged) and takes away nobody's access (AccessKept).     *)
(*   Copying  each pending item of a put copies from a source the put      *)
(*            was asked for to a place below its destination, and what     *)
(*            the put made is at such a place.  From it: a put never       *)
(*            reads what it has itself written (NoSelfCopy).               *)
(*   Filling  on top of Copying: each file that was below the source when  *)
(*            the put began is there still and below an item that is       *)
(*            left, or it is at its place and no item left writes there.   *)
(*            From it: a put that succeeds has copied them (PutCopies).    *)
(*   Serving  on top of Filling: in a cubby that was orderly when the put  *)
(*            began every directory still is, and whatever the put made    *)
(*            has its place, which no item left takes.  From it: the       *)
(*            daemon can serve what a put adds (PutServed).                *)
(*                                                                         *)
(* and three small ones: AtFifo (who waits in an openat, for TypeOK),      *)
(* Given (what Serving and RepairLocal take from the layout of DATA) and   *)
(* Chowning (MkdirOwner's descriptor is the cubby's, for RepairLocal).     *)
(***************************************************************************)
EXTENDS Cubby, TreeProofs

\* What entries may lead to, and what of it can be open.
Theirs == Objects \ (Tops \cup Fixed)

Opened0 == (Dirs \cup Files) \ (Tops \cup Fixed)

-----------------------------------------------------------------------------
(* The invariant *)

\* The tree and the attributes.
Entries ==
  /\ kids \in [Dirs -> [Names -> Theirs \cup {Nil}]]
  /\ \A a, b \in Dirs, x, y \in Names :
       kids[a][x] = kids[b][y] /\ kids[a][x] # Nil => a = b /\ x = y

Inodes ==
  /\ fresh \subseteq Opened0
  /\ \A a \in Dirs, x \in Names : kids[a][x] \notin fresh

Attributes == attr \in [Objects -> Attr]

Found == [name : Names, dir : BOOLEAN]

Frame == [fd : Dirs, left : SUBSET Found]

FixPlaces == {"idle", "check", "mkdirat", "openat", "chown", "chmod", "open",
              "fix", "perm", "path", "list", "children"}

\* Where a repair uses its descriptor.
Holding == {"chown", "chmod", "fix", "perm", "path", "list", "children"}

FixOps == {"none", "start", "read", "login", "mkdir"}

Fix == [op : FixOps, pc : FixPlaces, gid : BOOLEAN, rel : Seq(Names), fd : Opened0 \cup {Nil},
        deep : BOOLEAN, perm : SUBSET Bits, stack : Seq(Frame)]

\* What a repair holds where.
Handy(r) ==
  /\ (r.fd # Nil) = (r.pc \in Holding)
  /\ r.pc = "children" => r.stack # << >>
  /\ r.pc = "path" => r.rel # << >>
  /\ r.pc = "list" => r.fd \in Dirs

Repairers == fix \in [Procs -> Fix] /\ \A p \in Procs : Handy(fix[p])

Kinds == {"mkdir", "stat", "source", "into", "list", "file"}

Items == [k : Kinds, from : Seq(Tops \cup Names), to : Seq(Names) \ {<< >>}]

PutPlaces == {"idle", "find", "mkdir", "setgid", "check", "open", "work"}

Puts0 == [pc : PutPlaces, ok : BOOLEAN, src : Sources \cup {<< >>}, dest : Dests \cup {<< >>},
          root : Objects \cup {Nil}, todo : Seq(Items), made : SUBSET Objects]

Putter ==
  /\ put \in Puts0
  /\ (put.pc = "work") = (put.todo # << >>)
  /\ put.pc # "idle" => put.src \in Sources /\ put.dest \in Dests

Inv == Entries /\ Inodes /\ Attributes /\ Repairers /\ Putter

-----------------------------------------------------------------------------
(* The directories below a directory *)

\* Below a directory there is nothing but it and what entries lead to.
LEMMA BelowEntries ==
  ASSUME NEW d \in Dirs, NEW e \in Below(d)
  PROVE  e \in Dirs /\ (e = d \/ \E p \in Dirs, m \in Names : e = kids[p][m])
<1> DEFINE B == {e1 \in Dirs : e1 = d \/ \E p \in Dirs, m \in Names : e1 = kids[p][m]}
           next == [p \in Dirs |-> Dirs \cap Children(p)]
<1>1. {d} \subseteq B /\ \A p \in Dirs \cap B : next[p] \subseteq B
  BY DEF Children
<1>2. Reachable({d}, next) \subseteq B
  <2> HIDE DEF B, next
  <2> QED BY <1>1, CubbyAssumption, ReachableLeast
<1> QED BY <1>2 DEF Below

-----------------------------------------------------------------------------
(* Entries and attributes *)

LEMMA Constants ==
  /\ Parent \in Dirs /\ Home \in Dirs /\ Cubby \in Names /\ Dirs \cap Files = {}
  /\ Nil \notin Objects /\ Opened0 \subseteq Theirs /\ Theirs \subseteq Objects
  /\ Nil \notin Theirs /\ Nil \notin Opened0
BY TreeAssumption, AccessAssumption DEF Objects, Theirs, Opened0

LEMMA RootTheirs ==
  ASSUME Entries
  PROVE  Root \in Theirs \cup {Nil}
BY Constants DEF Entries, Root

\* The owner's chmod reaches nothing that is not his.
LEMMA InsideTheirs ==
  ASSUME Entries, NEW o \in Inside
  PROVE  o \in Opened0
<1>1. Root \in Dirs /\ Root \in Theirs
  <2>1. Root \in Dirs
    BY DEF Inside, Under
  <2>2. Root \in Theirs \cup {Nil} /\ Root # Nil
    BY <2>1, RootTheirs, TreeAssumption DEF Objects
  <2> QED BY <2>1, <2>2
<1>2. o \in Below(Root) \/ \E e \in Below(Root), n \in Names : o = kids[e][n] /\ o \in Files
  BY <1>1 DEF Inside, Under
<1>3. \A e \in Below(Root) : e \in Dirs /\ e \in Theirs
  <2> SUFFICES ASSUME NEW e \in Below(Root) PROVE e \in Dirs /\ e \in Theirs
    OBVIOUS
  <2>1. e \in Dirs /\ (e = Root \/ \E p \in Dirs, m \in Names : e = kids[p][m])
    BY <1>1, BelowEntries
  <2>2. e # Nil
    BY <2>1, TreeAssumption DEF Objects
  <2> QED BY <1>1, <2>1, <2>2 DEF Entries
<1>4. CASE o \in Below(Root)
  BY <1>3, <1>4 DEF Theirs, Opened0
<1>5. ASSUME NEW e \in Below(Root), NEW n \in Names, o = kids[e][n], o \in Files PROVE o \in Opened0
  <2>1. o \in Theirs \cup {Nil} /\ o # Nil
    BY <1>3, <1>5, TreeAssumption DEF Entries, Objects
  <2> QED BY <1>5, <2>1 DEF Theirs, Opened0
<1> QED BY <1>2, <1>4, <1>5

LEMMA FreshIn ==
  ASSUME NEW S, NEW o \in Fresh(S)
  PROVE  o \in fresh /\ o \in S
BY DEF Fresh

\* A new object gets an entry.
LEMMA NewEntry ==
  ASSUME Entries, Inodes, NEW a \in Dirs, NEW x \in Names, NEW o \in fresh,
         kids' = [kids EXCEPT ![a][x] = o], fresh' = fresh \ {o}
  PROVE  Entries' /\ Inodes'
<1>1. kids \in [Dirs -> [Names -> Theirs \cup {Nil}]] /\ o \in Theirs
  BY Constants DEF Entries, Inodes
<1>2. /\ kids' \in [Dirs -> [Names -> Theirs \cup {Nil}]] /\ kids'[a][x] = o
      /\ \A e \in Dirs, m \in Names : e # a \/ m # x => kids'[e][m] = kids[e][m]
  <2>1. kids' = [kids EXCEPT ![a] = [kids[a] EXCEPT ![x] = o]]
    OBVIOUS
  <2>2. [kids[a] EXCEPT ![x] = o] \in [Names -> Theirs \cup {Nil}]
    BY <1>1
  <2> QED BY <1>1, <2>1, <2>2
<1>3. \A e \in Dirs, m \in Names : kids[e][m] # o
  BY DEF Inodes
<1>4. Entries'
  BY <1>2, <1>3 DEF Entries
<1>5. Inodes'
  BY <1>2, <1>3 DEF Inodes
<1> QED BY <1>4, <1>5

\* The attributes of what is not the owner's stay.
Kept == \A o \in Tops \cup Fixed : attr'[o] = attr[o]

LEMMA AttrStep ==
  ASSUME Attributes, NEW o \in Theirs, NEW v \in Attr, attr' = [attr EXCEPT ![o] = v]
  PROVE  Attributes' /\ Kept
<1>1. Tops \cup Fixed \subseteq Objects /\ o \notin Tops \cup Fixed
  BY TreeAssumption DEF Theirs, Objects
<1> QED BY <1>1 DEF Attributes, Kept

\* chmod and chown of an object.
LEMMA ModeStep ==
  ASSUME Attributes, NEW o \in Theirs, NEW m \in SUBSET Bits, attr' = [attr EXCEPT ![o].mode = m]
  PROVE  Attributes' /\ Kept
<1>1. attr[o] \in Attr
  BY Constants DEF Attributes
<1>2. PICK v : v = [attr[o] EXCEPT !.mode = m]
  OBVIOUS
<1>3. v \in Attr
  BY <1>1, <1>2 DEF Attr
<1>4. attr' = [attr EXCEPT ![o] = v]
  BY <1>2 DEF Attributes
<1> QED BY <1>3, <1>4, AttrStep

LEMMA MadeTypes ==
  ASSUME Attributes, NEW d \in Dirs, NEW who \in {"daemon", "user", "root", "other"},
         NEW m \in SUBSET Bits
  PROVE  MadeDir(who, d, m) \in Attr /\ MadeFile(who, d, m) \in Attr
<1>1. attr[d] \in Attr
  BY DEF Attributes, Objects
<1>2. attr[d].grp \in BOOLEAN /\ attr[d].mode \in SUBSET Bits
  BY <1>1 DEF Attr
<1>3. m \cup (attr[d].mode \cap {"sg"}) \in SUBSET Bits /\ (who = "daemon") \in BOOLEAN
  BY <1>2
<1>4. MadeDir(who, d, m) \in Attr
  BY <1>2, <1>3 DEF MadeDir, Attr
<1> QED BY <1>4 DEF MadeFile, Attr

LEMMA Modes ==
  Mode0770 \in SUBSET Bits /\ CubbyMode \in SUBSET Bits /\ Mode0770 \ {"gw"} \in SUBSET Bits
BY DEF Mode0770, CubbyMode, Bits

-----------------------------------------------------------------------------
(* Repairs *)

LEMMA NoFixType == NoFix \in Fix /\ Handy(NoFix)
<1>1. << >> \in Seq(Names) /\ << >> \in Seq(Frame) /\ {} \in SUBSET Bits
  OBVIOUS
<1>2. NoFix \in Fix
  BY <1>1 DEF NoFix, Fix, FixOps, FixPlaces
<1> QED BY <1>2 DEF NoFix, Handy, Holding

\* What repairs work on.
Shared == Entries /\ Inodes /\ Attributes /\ Repairers

\* The repair p goes on as r.
LEMMA FixStep ==
  ASSUME Repairers, NEW p \in Procs, NEW r \in Fix, Handy(r), fix' = [fix EXCEPT ![p] = r]
  PROVE  Repairers'
<1>1. fix' \in [Procs -> Fix] /\ \A q \in Procs : Handy(fix'[q])
  BY DEF Repairers
<1> QED BY <1>1 DEF Repairers, Handy

LEMMA OnlyFix ==
  ASSUME Shared, NEW p \in Procs, NEW r \in Fix, Handy(r), fix' = [fix EXCEPT ![p] = r],
         UNCHANGED <<kids, attr, fresh>>
  PROVE  Shared' /\ Kept
<1>1. Repairers'
  BY FixStep DEF Shared
<1> QED BY <1>1 DEF Shared, Entries, Inodes, Attributes, Kept

LEMMA EndFix ==
  ASSUME Shared, NEW p \in Procs, fix' = [fix EXCEPT ![p] = NoFix], UNCHANGED <<kids, attr, fresh>>
  PROVE  Shared' /\ Kept
BY NoFixType, OnlyFix

\* The repair p goes on at pc, with the same descriptor.
LEMMA GotoStep ==
  ASSUME Repairers, NEW p \in Procs, NEW pc \in FixPlaces, Goto(p, pc),
         (pc \in Holding) = (fix[p].pc \in Holding), pc \notin {"children", "path", "list"}
  PROVE  Repairers'
<1>1. fix[p] \in Fix /\ Handy(fix[p])
  BY DEF Repairers
<1>2. PICK r : r = [fix[p] EXCEPT !.pc = pc]
  OBVIOUS
<1>3. r \in Fix
  BY <1>1, <1>2 DEF Fix
<1>4. r.pc = pc /\ r.fd = fix[p].fd
  BY <1>1, <1>2 DEF Fix
<1>5. Handy(r)
  BY <1>1, <1>4 DEF Handy
<1>6. fix' = [fix EXCEPT ![p] = r]
  BY <1>2 DEF Goto, Repairers
<1> QED BY <1>3, <1>5, <1>6, FixStep

LEMMA BeginFix ==
  ASSUME Shared, NEW p \in Procs, NEW op \in {"start", "read", "login", "mkdir"}, NEW rel \in Rels,
         NEW gid \in BOOLEAN, Begin(p, op, rel, gid)
  PROVE  Shared' /\ Kept
<1>1. rel \in Seq(Names) /\ op \in FixOps
  BY RepairAssumption DEF FixOps
<1>2. PICK pc \in {"open", "check", "mkdirat"} :
        pc = CASE kind = "home" -> "open" [] op = "mkdir" -> "check" [] OTHER -> "mkdirat"
  OBVIOUS
<1>3. PICK r : r = [NoFix EXCEPT !.op = op, !.rel = rel, !.gid = gid, !.pc = pc]
  OBVIOUS
<1>4. pc \in FixPlaces /\ pc \notin Holding
  BY DEF FixPlaces, Holding
<1>5. r \in Fix
  BY <1>1, <1>3, <1>4, NoFixType DEF Fix
<1>6. r.pc = pc /\ r.fd = Nil
  BY <1>3 DEF NoFix
<1>7. Handy(r)
  BY <1>4, <1>6 DEF Handy
<1>8. fix' = [fix EXCEPT ![p] = r] /\ UNCHANGED <<kids, attr, fresh>>
  BY <1>2, <1>3 DEF Begin
<1> QED BY <1>5, <1>7, <1>8, OnlyFix

LEMMA CheckStep ==
  ASSUME Shared, NEW p \in Procs, Check(p)
  PROVE  Shared' /\ Kept
<1>1. fix[p].pc = "check" /\ UNCHANGED <<kids, attr, fresh>>
  BY DEF Check, At
<1>2. CASE Goto(p, "mkdirat")
  <2>1. Repairers'
    BY <1>1, <1>2, GotoStep DEF FixPlaces, Holding, Shared
  <2> QED BY <1>1, <2>1 DEF Shared, Entries, Inodes, Attributes, Kept
<1>3. CASE End(p)
  BY <1>1, <1>3, EndFix DEF End
<1> QED BY <1>2, <1>3 DEF Check

LEMMA MkdiratStep ==
  ASSUME Shared, NEW p \in Procs, NEW d \in Dirs, Mkdirat(p, d)
  PROVE  Shared' /\ Kept
<1>1. fix[p].pc = "mkdirat" /\ Goto(p, "openat")
  BY DEF Mkdirat, At
<1>2. Repairers'
  BY <1>1, GotoStep DEF FixPlaces, Holding, Shared
<1>3. CASE Root # Nil
  BY <1>2, <1>3 DEF Mkdirat, Shared, Entries, Inodes, Attributes, Kept
<1>4. CASE Root = Nil
  <2>1. PICK who \in {"daemon", "user", "root", "other"}, m \in SUBSET Bits :
          attr' = [attr EXCEPT ![d] = MadeDir(who, Parent, m)]
    BY <1>4, Modes DEF Mkdirat, Who
  <2>2. d \in fresh /\ fresh' = fresh \ {d} /\ kids' = [kids EXCEPT ![Parent][Cubby] = d]
    BY <1>4, FreshIn DEF Mkdirat
  <2>3. Entries' /\ Inodes'
    BY <2>2, NewEntry, Constants DEF Shared
  <2>4. d \in Theirs
    BY <2>2, Constants DEF Shared, Inodes
  <2>5. Attributes' /\ Kept
    BY <2>1, <2>4, MadeTypes, AttrStep, Constants DEF Shared
  <2> QED BY <1>2, <2>3, <2>5 DEF Shared
<1> QED BY <1>3, <1>4

\* A descriptor is of something the owner's.
LEMMA OpensTheirs ==
  ASSUME NEW who, NEW d, NEW o \in Theirs \cup {Nil}, NEW dir, Opens(who, d, o, dir)
  PROVE  o \in Opened0 /\ o # Nil /\ (dir => o \in Dirs)
BY TreeAssumption DEF Opens, Theirs, Opened0, Objects

LEMMA OpenCubbyStep ==
  ASSUME Shared, NEW p \in Procs, OpenCubby(p)
  PROVE  Shared' /\ Kept
<1>1. fix[p] \in Fix /\ UNCHANGED <<kids, attr, fresh>>
  BY DEF OpenCubby, Shared, Repairers
<1>2. CASE Opens(Who(p), Parent, Root, TRUE)
  <2>1. PICK o \in Opened0 : o = Root /\ o # Nil
    BY <1>2, OpensTheirs, RootTheirs DEF Shared
  <2>2. PICK r : r = [fix[p] EXCEPT !.pc = "chown", !.fd = o]
    OBVIOUS
  <2>3. r \in Fix /\ r.pc = "chown" /\ r.fd = o
    BY <1>1, <2>2 DEF Fix, FixPlaces
  <2>4. Handy(r)
    BY <2>1, <2>3 DEF Handy, Holding
  <2>5. fix' = [fix EXCEPT ![p] = r]
    BY <1>2, <2>1, <2>2 DEF OpenCubby
  <2> QED BY <1>1, <2>3, <2>4, <2>5, OnlyFix
<1>3. CASE ~Opens(Who(p), Parent, Root, TRUE)
  BY <1>1, <1>3, EndFix DEF OpenCubby
<1> QED BY <1>2, <1>3

\* What a repair has open.
LEMMA HeldTheirs ==
  ASSUME Shared, NEW p \in Procs, fix[p].pc \in Holding
  PROVE  fix[p] \in Fix /\ Handy(fix[p]) /\ fix[p].fd \in Opened0 /\ fix[p].fd \in Theirs
<1>1. fix[p] \in Fix /\ Handy(fix[p])
  BY DEF Shared, Repairers
<1> QED BY <1>1, Constants DEF Fix, Handy

LEMMA ChownStep ==
  ASSUME Shared, NEW p \in Procs, ChownCubby(p)
  PROVE  Shared' /\ Kept
<1>1. fix[p].pc = "chown" /\ Goto(p, "chmod") /\ UNCHANGED <<kids, fresh>>
  BY DEF ChownCubby, At
<1>2. PICK o \in Theirs : o = fix[p].fd
  BY <1>1, HeldTheirs DEF Holding
<1>3. PICK g \in BOOLEAN : g = fix[p].gid
  BY <1>1, HeldTheirs DEF Holding, Fix
<1>4. attr' = [attr EXCEPT ![o].own = "user", ![o].grp = g]
  BY <1>2, <1>3 DEF ChownCubby
<1>5. attr[o] \in Attr
  BY Constants DEF Shared, Attributes
<1>6. PICK v : v = [attr[o] EXCEPT !.own = "user", !.grp = g]
  OBVIOUS
<1>7. v \in Attr
  BY <1>5, <1>6 DEF Attr
<1>8. attr' = [attr EXCEPT ![o] = v]
  BY <1>4, <1>6, Constants DEF Shared, Attributes
<1>9. Attributes' /\ Kept
  BY <1>7, <1>8, AttrStep DEF Shared
<1>10. Repairers'
  BY <1>1, GotoStep DEF FixPlaces, Holding, Shared
<1> QED BY <1>1, <1>9, <1>10 DEF Shared, Entries, Inodes

LEMMA ChownFailsStep ==
  ASSUME Shared, NEW p \in Procs, ChownFails(p)
  PROVE  Shared' /\ Kept
<1>1. Repairers'
  BY GotoStep DEF ChownFails, At, FixPlaces, Holding, Shared
<1> QED BY <1>1 DEF ChownFails, Shared, Entries, Inodes, Attributes, Kept

\* A repair that sets the mode of what it holds and goes on as r.
LEMMA ModeFix ==
  ASSUME Shared, NEW p \in Procs, fix[p].pc \in Holding, NEW m \in SUBSET Bits,
         attr' = [attr EXCEPT ![fix[p].fd].mode = m],
         NEW r \in Fix, Handy(r), fix' = [fix EXCEPT ![p] = r], UNCHANGED <<kids, fresh>>
  PROVE  Shared' /\ Kept
<1>1. Attributes' /\ Kept
  <2>1. PICK o \in Theirs : o = fix[p].fd
    BY HeldTheirs
  <2> QED BY <2>1, ModeStep DEF Shared
<1>2. Repairers'
  BY FixStep DEF Shared
<1> QED BY <1>1, <1>2 DEF Shared, Entries, Inodes

LEMMA ChmodCubbyStep ==
  ASSUME Shared, NEW p \in Procs, ChmodCubby(p)
  PROVE  Shared' /\ Kept
<1>1. /\ fix[p].pc = "chmod" /\ fix[p].pc \in Holding /\ UNCHANGED <<kids, fresh>>
      /\ attr' = [attr EXCEPT ![fix[p].fd].mode = CubbyMode]
  BY DEF ChmodCubby, At, Holding
<1>2. CASE End(p)
  BY <1>1, <1>2, NoFixType, Modes, ModeFix DEF End
<1>3. CASE fix' = [fix EXCEPT ![p].pc = "open", ![p].fd = Nil]
  <2>1. PICK r : r = [fix[p] EXCEPT !.pc = "open", !.fd = Nil]
    OBVIOUS
  <2>2. fix[p] \in Fix
    BY DEF Shared, Repairers
  <2>3. r \in Fix /\ r.pc = "open" /\ r.fd = Nil
    BY <2>1, <2>2 DEF Fix, FixPlaces
  <2>4. Handy(r)
    BY <2>3 DEF Handy, Holding
  <2>5. fix' = [fix EXCEPT ![p] = r]
    BY <1>3, <2>1 DEF Shared, Repairers
  <2> QED BY <1>1, <2>3, <2>4, <2>5, Modes, ModeFix
<1> QED BY <1>2, <1>3 DEF ChmodCubby

LEMMA OpenStep ==
  ASSUME Shared, NEW p \in Procs, Open(p)
  PROVE  Shared' /\ Kept
<1>1. fix[p] \in Fix /\ UNCHANGED <<kids, attr, fresh>>
  BY DEF Open, Shared, Repairers
<1>2. CASE Opens("daemon", Parent, Root, TRUE)
  <2>1. PICK o \in Opened0 : o = Root /\ o # Nil
    BY <1>2, OpensTheirs, RootTheirs DEF Shared
  <2>2. PICK pc \in {"fix", "path"} : pc = IF fix[p].rel = << >> THEN "fix" ELSE "path"
    OBVIOUS
  <2>3. PICK r : r = [fix[p] EXCEPT !.fd = o, !.deep = TRUE, !.pc = pc]
    OBVIOUS
  <2>4. pc \in FixPlaces /\ pc \in Holding
    BY DEF FixPlaces, Holding
  <2>5. r \in Fix /\ r.pc = pc /\ r.fd = o /\ r.rel = fix[p].rel
    BY <1>1, <2>3, <2>4 DEF Fix
  <2>6. Handy(r)
    BY <2>1, <2>2, <2>4, <2>5 DEF Handy
  <2>7. fix' = [fix EXCEPT ![p] = r]
    BY <1>2, <2>1, <2>2, <2>3 DEF Open
  <2> QED BY <1>1, <2>5, <2>6, <2>7, OnlyFix
<1>3. CASE ~Opens("daemon", Parent, Root, TRUE)
  BY <1>1, <1>3, EndFix DEF Open
<1> QED BY <1>2, <1>3

\* An openat below a descriptor.
LEMMA OpenedTheirs ==
  ASSUME Entries, NEW d \in Dirs, NEW n \in Names, NEW dir
  PROVE  Opened(d, n, dir) \in Opened0 \cup {Nil}
<1>1. kids[d][n] \in Theirs \cup {Nil}
  BY DEF Entries
<1> QED BY <1>1, OpensTheirs DEF Opened

LEMMA DescendStep ==
  ASSUME Shared, NEW p \in Procs, Descend(p)
  PROVE  Shared' /\ Kept
<1>1. PICK r \in Fix : r = fix[p] /\ r.pc = "path" /\ Handy(r)
  BY DEF Descend, At, Shared, Repairers
<1>2. UNCHANGED <<kids, attr, fresh>> /\ r.rel \in Seq(Names) /\ r.rel # << >>
  BY <1>1 DEF Descend, Handy, Fix
<1>3. PICK o : o = Opened(r.fd, Head(r.rel), FALSE)
  OBVIOUS
<1>4. CASE r.fd \in Dirs /\ o # Nil
  <2>1. Head(r.rel) \in Names /\ Tail(r.rel) \in Seq(Names)
    BY <1>2
  <2>2. o \in Opened0
    BY <1>3, <1>4, <2>1, OpenedTheirs DEF Shared
  <2>3. PICK T \in Seq(Names) : T = Tail(r.rel)
    BY <2>1
  <2>4. PICK q : q = [r EXCEPT !.fd = o, !.rel = T, !.pc = "fix"]
    OBVIOUS
  <2>5. q \in Fix /\ q.pc = "fix" /\ q.fd = o
    BY <2>2, <2>4 DEF Fix, FixPlaces
  <2>6. Handy(q)
    BY <1>4, <2>5 DEF Handy, Holding
  <2>7. fix' = [fix EXCEPT ![p] = q]
    BY <1>1, <1>3, <1>4, <2>3, <2>4 DEF Descend
  <2> QED BY <1>2, <2>5, <2>6, <2>7, OnlyFix
<1>5. CASE ~(r.fd \in Dirs /\ o # Nil)
  BY <1>1, <1>2, <1>3, <1>5, EndFix DEF Descend
<1> QED BY <1>4, <1>5

\* Where a repair goes on once it has repaired what it holds.
LEMMA AfterType ==
  ASSUME NEW r \in Fix, r.fd # Nil
  PROVE  After(r) \in Fix /\ Handy(After(r))
<1> DEFINE q(pc) == [r EXCEPT !.pc = pc]
<1>1. ASSUME NEW pc \in {"path", "list", "children"}
      PROVE  q(pc) \in Fix /\ q(pc).pc = pc /\ q(pc).fd = r.fd /\ q(pc).rel = r.rel
             /\ q(pc).stack = r.stack
  BY DEF Fix, FixPlaces
<1>2. CASE r.rel # << >>
  <2>1. After(r) = q("path")
    BY <1>2 DEF After
  <2> HIDE DEF q
  <2> QED BY <1>1, <1>2, <2>1 DEF Handy, Holding
<1>3. CASE r.rel = << >> /\ r.deep /\ r.fd \in Dirs
  <2>1. After(r) = q("list")
    BY <1>3 DEF After
  <2> HIDE DEF q
  <2> QED BY <1>1, <1>3, <2>1 DEF Handy, Holding
<1>4. CASE r.rel = << >> /\ ~(r.deep /\ r.fd \in Dirs) /\ r.stack # << >>
  <2>1. After(r) = q("children")
    BY <1>4 DEF After
  <2> HIDE DEF q
  <2> QED BY <1>1, <1>4, <2>1 DEF Handy, Holding
<1>5. CASE r.rel = << >> /\ ~(r.deep /\ r.fd \in Dirs) /\ r.stack = << >>
  BY <1>5, NoFixType DEF After
<1> QED BY <1>2, <1>3, <1>4, <1>5

LEMMA FixFDStep ==
  ASSUME Shared, NEW p \in Procs, FixFD(p)
  PROVE  Shared' /\ Kept
<1>1. fix[p].pc = "fix" /\ fix[p].pc \in Holding /\ UNCHANGED <<kids, fresh>>
  BY DEF FixFD, At, Holding
<1>2. PICK r \in Fix : r = fix[p] /\ Handy(r) /\ r.fd \in Theirs /\ r.fd # Nil
  BY <1>1, HeldTheirs, Constants
<1>3. CASE r.fd \in Dirs
  <2>1. attr' = [attr EXCEPT ![r.fd].mode = CubbyMode] /\ fix' = [fix EXCEPT ![p] = After(r)]
    BY <1>2, <1>3 DEF FixFD
  <2> QED BY <1>1, <1>2, <2>1, AfterType, Modes, ModeFix
<1>4. CASE r.fd \notin Dirs
  <2>1. PICK o \in Theirs : o = r.fd
    BY <1>2
  <2>2. attr[o] \in Attr
    BY Constants DEF Shared, Attributes
  <2>3. PICK m \in SUBSET Bits : m = attr[o].mode \ {"sg"}
    BY <2>2 DEF Attr
  <2>4. PICK g \in BOOLEAN : g = Group(attr[o].grp, r.gid)
    BY <2>2 DEF Group, Attr, Fix
  <2>5. /\ attr' = [attr EXCEPT ![o].grp = g]
        /\ fix' = [fix EXCEPT ![p].pc = "perm", ![p].perm = m]
    BY <1>2, <1>4, <2>1, <2>3, <2>4 DEF FixFD
  <2>6. PICK v : v = [attr[o] EXCEPT !.grp = g]
    OBVIOUS
  <2>7. v \in Attr /\ attr' = [attr EXCEPT ![o] = v]
    BY <2>2, <2>5, <2>6, Constants DEF Attr, Shared, Attributes
  <2>8. Attributes' /\ Kept
    BY <2>7, AttrStep DEF Shared
  <2>9. PICK q : q = [r EXCEPT !.pc = "perm", !.perm = m]
    OBVIOUS
  <2>10. q \in Fix /\ q.pc = "perm" /\ q.fd = r.fd
    BY <2>9 DEF Fix, FixPlaces
  <2>11. Handy(q)
    BY <1>2, <2>10 DEF Handy, Holding
  <2>12. fix' = [fix EXCEPT ![p] = q]
    BY <1>2, <2>5, <2>9 DEF Shared, Repairers
  <2>13. Repairers'
    BY <2>10, <2>11, <2>12, FixStep DEF Shared
  <2> QED BY <1>1, <2>8, <2>13 DEF Shared, Entries, Inodes
<1> QED BY <1>3, <1>4

LEMMA ChmodFileStep ==
  ASSUME Shared, NEW p \in Procs, ChmodFile(p)
  PROVE  Shared' /\ Kept
<1>1. fix[p].pc = "perm" /\ fix[p].pc \in Holding /\ UNCHANGED <<kids, fresh>>
  BY DEF ChmodFile, At, Holding
<1>2. PICK r \in Fix : r = fix[p] /\ r.fd # Nil
  BY <1>1, HeldTheirs, Constants
<1>3. Want(r.perm) \in SUBSET Bits
  <2>1. r.perm \in SUBSET Bits
    BY DEF Fix
  <2> QED BY <2>1 DEF Want, Bits
<1>4. attr' = [attr EXCEPT ![fix[p].fd].mode = Want(r.perm)] /\ fix' = [fix EXCEPT ![p] = After(r)]
  BY <1>2 DEF ChmodFile
<1> QED BY <1>1, <1>2, <1>3, <1>4, AfterType, ModeFix

LEMMA ListStep ==
  ASSUME Shared, NEW p \in Procs, List(p)
  PROVE  Shared' /\ Kept
<1>1. PICK r \in Fix : r = fix[p] /\ r.pc = "list" /\ Handy(r)
  BY DEF List, At, Shared, Repairers
<1>2. UNCHANGED <<kids, attr, fresh>> /\ r.fd \in Dirs /\ r.fd # Nil
  BY <1>1 DEF List, Handy, Holding
<1>3. PICK L : L = EntriesOf(r.fd)
  OBVIOUS
<1>4. L \in SUBSET Found
  <2>1. \A n \in Names : [name |-> n, dir |-> kids[r.fd][n] \in Dirs] \in Found
    <3>1. ASSUME NEW n \in Names, NEW b \in BOOLEAN PROVE [name |-> n, dir |-> b] \in Found
      BY DEF Found
    <3>2. \A n \in Names : (kids[r.fd][n] \in Dirs) \in BOOLEAN
      OBVIOUS
    <3> QED BY <3>1, <3>2
  <2> QED BY <1>3, <2>1 DEF EntriesOf
<1>5. PICK frame \in Frame : frame = [fd |-> r.fd, left |-> L]
  BY <1>2, <1>4 DEF Frame
<1>6. PICK S : S = <<frame>> \o r.stack
  OBVIOUS
<1>7. S \in Seq(Frame) /\ S # << >>
  <2>1. r.stack \in Seq(Frame)
    BY DEF Fix
  <2>2. <<frame>> \in Seq(Frame) /\ Len(<<frame>>) = 1
    OBVIOUS
  <2>3. S \in Seq(Frame) /\ Len(S) = 1 + Len(r.stack) /\ Len(r.stack) \in Nat
    BY <1>6, <2>1, <2>2
  <2> QED BY <2>3
<1>8. PICK q : q = [r EXCEPT !.pc = "children", !.stack = S]
  OBVIOUS
<1>9. q \in Fix /\ q.pc = "children" /\ q.fd = r.fd /\ q.stack = S
  BY <1>7, <1>8 DEF Fix, FixPlaces
<1>10. Handy(q)
  BY <1>2, <1>7, <1>9 DEF Handy, Holding
<1>11. fix' = [fix EXCEPT ![p] = q]
  BY <1>1, <1>3, <1>5, <1>6, <1>8 DEF List, Shared, Repairers
<1> QED BY <1>2, <1>9, <1>10, <1>11, OnlyFix

LEMMA UpStep ==
  ASSUME Shared, NEW p \in Procs, Up(p)
  PROVE  Shared' /\ Kept
<1>1. PICK r \in Fix : r = fix[p] /\ r.pc = "children" /\ Handy(r)
  BY DEF Up, At, Shared, Repairers
<1>2. UNCHANGED <<kids, attr, fresh>> /\ r.stack \in Seq(Frame) /\ r.stack # << >> /\ r.fd # Nil
  BY <1>1 DEF Up, Handy, Holding, Fix
<1>3. PICK T \in Seq(Frame) : T = Tail(r.stack)
  <2>1. \A s \in Seq(Frame) : s # << >> => Tail(s) \in Seq(Frame)
    OBVIOUS
  <2> QED BY <1>2, <2>1
<1>4. CASE T = << >>
  BY <1>1, <1>2, <1>3, <1>4, EndFix DEF Up
<1>5. CASE T # << >>
  <2>1. PICK q : q = [r EXCEPT !.stack = T]
    OBVIOUS
  <2>2. q \in Fix /\ q.pc = "children" /\ q.fd = r.fd /\ q.stack = T
    BY <1>1, <2>1 DEF Fix
  <2>3. Handy(q)
    BY <1>2, <1>5, <2>2 DEF Handy, Holding
  <2>4. fix' = [fix EXCEPT ![p] = q]
    BY <1>1, <1>3, <1>5, <2>1 DEF Up
  <2> QED BY <1>2, <2>2, <2>3, <2>4, OnlyFix
<1> QED BY <1>4, <1>5

LEMMA VisitStep ==
  ASSUME Shared, NEW p \in Procs, NEW e \in Found, Visit(p, e)
  PROVE  Shared' /\ Kept
<1>1. PICK r \in Fix : r = fix[p] /\ r.pc = "children" /\ Handy(r)
  BY DEF Visit, At, Shared, Repairers
<1>2. UNCHANGED <<kids, attr, fresh>> /\ r.stack \in Seq(Frame) /\ r.stack # << >>
      /\ r.fd \in Opened0 /\ r.fd # Nil
  BY <1>1 DEF Visit, Handy, Holding, Fix
<1>3. PICK top \in Frame : top = Head(r.stack) /\ top = r.stack[1]
  BY <1>2
<1>4. PICK o : o = Opened(top.fd, e.name, e.dir)
  OBVIOUS
<1>5. o \in Opened0 \cup {Nil} /\ e.dir \in BOOLEAN
  BY <1>4, OpenedTheirs DEF Shared, Frame, Found
<1>6. PICK frame \in Frame : frame = [top EXCEPT !.left = LeftAfter(top.left, e, o)]
  BY DEF Frame, LeftAfter
<1>7. PICK S \in Seq(Frame) : S = [r.stack EXCEPT ![1] = frame] /\ S # << >>
  <2>1. 1 \in 1..Len(r.stack) /\ Len(r.stack) \in Nat
    BY <1>2
  <2>2. [r.stack EXCEPT ![1] = frame] \in Seq(Frame)
    BY <1>2, <2>1
  <2>3. Len([r.stack EXCEPT ![1] = frame]) = Len(r.stack)
    BY <1>2, <2>1
  <2>4. PICK S : S = [r.stack EXCEPT ![1] = frame]
    OBVIOUS
  <2>5. S \in Seq(Frame) /\ Len(S) # 0
    BY <2>1, <2>2, <2>3, <2>4
  <2>6. S # << >>
    BY <2>5
  <2> QED BY <2>4, <2>5, <2>6
<1>8. PICK pc \in {"children", "fix"}, fd \in Opened0 :
        pc = (IF o = Nil THEN "children" ELSE "fix") /\ fd = IF o = Nil THEN r.fd ELSE o
  BY <1>2, <1>5
<1>9. PICK q : q = [r EXCEPT !.stack = S, !.pc = pc, !.fd = fd, !.deep = e.dir]
  OBVIOUS
<1>10. q \in Fix
  <2>1. pc \in FixPlaces
    BY DEF FixPlaces
  <2>2. PICK h \in Fix : h = [r EXCEPT !.stack = S, !.pc = pc]
    BY <2>1 DEF Fix
  <2>3. [h EXCEPT !.fd = fd, !.deep = e.dir] \in Fix
    BY <1>5 DEF Fix
  <2> QED BY <1>9, <2>2, <2>3
<1>11. q.pc = pc /\ q.fd = fd /\ q.stack = S
  BY <1>9 DEF Fix
<1>12. Handy(q)
  BY <1>7, <1>11, Constants DEF Handy, Holding
<1>13. fix' = [fix EXCEPT ![p] = q]
  <2>1. fix' = [fix EXCEPT ![p].stack[1].left = LeftAfter(top.left, e, o),
                           ![p].pc = pc, ![p].fd = fd, ![p].deep = e.dir]
    BY <1>1, <1>3, <1>4, <1>8 DEF Visit, Shared, Repairers
  <2> QED BY <1>1, <1>3, <1>6, <1>7, <1>9, <2>1 DEF Shared, Repairers
<1> QED BY <1>2, <1>10, <1>12, <1>13, OnlyFix

LEMMA RepairInv ==
  ASSUME Shared, NEW p \in Procs, RepairStep(p)
  PROVE  Shared' /\ Kept
<1>1. CASE Check(p)
  BY <1>1, CheckStep
<1>2. CASE \E d \in Dirs : Mkdirat(p, d)
  BY <1>2, MkdiratStep
<1>3. CASE OpenCubby(p)
  BY <1>3, OpenCubbyStep
<1>4. CASE ChownCubby(p)
  BY <1>4, ChownStep
<1>5. CASE ChownFails(p)
  BY <1>5, ChownFailsStep
<1>6. CASE ChmodCubby(p)
  BY <1>6, ChmodCubbyStep
<1>7. CASE Open(p)
  BY <1>7, OpenStep
<1>8. CASE Descend(p)
  BY <1>8, DescendStep
<1>9. CASE FixFD(p)
  BY <1>9, FixFDStep
<1>10. CASE ChmodFile(p)
  BY <1>10, ChmodFileStep
<1>11. CASE List(p)
  BY <1>11, ListStep
<1>12. CASE Up(p)
  BY <1>12, UpStep
<1>13. CASE \E e \in [name : Names, dir : BOOLEAN] : Visit(p, e)
  BY <1>13, VisitStep DEF Found
<1> QED BY <1>1, <1>2, <1>3, <1>4, <1>5, <1>6, <1>7, <1>8, <1>9, <1>10, <1>11, <1>12, <1>13
        DEF RepairStep

\* The repair's own record is all that one of its steps changes in fix.
LEMMA OwnStep ==
  ASSUME Shared, NEW p \in Procs, RepairStep(p)
  PROVE  \A q \in Procs \ {p} : fix'[q] = fix[q]
<1>1. fix \in [Procs -> Fix]
  BY DEF Shared, Repairers
<1> SUFFICES ASSUME NEW q \in Procs \ {p} PROVE fix'[q] = fix[q]
  OBVIOUS
<1>2. CASE Check(p) \/ (\E d \in Dirs : Mkdirat(p, d)) \/ OpenCubby(p) \/ ChownCubby(p)
  BY <1>1, <1>2 DEF Check, Mkdirat, OpenCubby, ChownCubby, Goto, End
<1>3. CASE ChownFails(p) \/ ChmodCubby(p)
  BY <1>1, <1>3 DEF ChownFails, ChmodCubby, Goto, End
<1>4. CASE Open(p) \/ Descend(p) \/ FixFD(p) \/ ChmodFile(p)
  BY <1>1, <1>4 DEF Open, Descend, FixFD, ChmodFile
<1>5. CASE List(p) \/ Up(p)
  BY <1>1, <1>5 DEF List, Up
<1>6. CASE \E e \in [name : Names, dir : BOOLEAN] : Visit(p, e)
  BY <1>1, <1>6 DEF Visit
<1> QED BY <1>2, <1>3, <1>4, <1>5, <1>6 DEF RepairStep

\* Nobody who waits at a FIFO does anything else.
LEMMA NotStuck ==
  ASSUME NEW p \in Procs, RepairStep(p)
  PROVE  p \notin stuck /\ UNCHANGED <<kind, stuck>>
<1>1. CASE Check(p) \/ (\E d \in Dirs : Mkdirat(p, d)) \/ OpenCubby(p) \/ ChownCubby(p) \/ ChownFails(p) \/ ChmodCubby(p)
  BY <1>1 DEF Check, Mkdirat, OpenCubby, ChownCubby, ChownFails, ChmodCubby, At
<1>2. CASE Open(p) \/ Descend(p) \/ FixFD(p) \/ ChmodFile(p) \/ List(p) \/ Up(p)
  BY <1>2 DEF Open, Descend, FixFD, ChmodFile, List, Up, At
<1>3. CASE \E e \in [name : Names, dir : BOOLEAN] : Visit(p, e)
  BY <1>3 DEF Visit, At
<1> QED BY <1>1, <1>2, <1>3 DEF RepairStep

\* The Fchown of a file fails: its Fchmod is next.
PermNext(r) == [r EXCEPT !.pc = "perm", !.perm = attr[r.fd].mode \ {"sg"}]

\* A failing call leaves a repair at its end, at that Fchmod or after the object.
LEMMA CallFailsFacts ==
  ASSUME Shared, NEW p \in Procs, CallFails(p)
  PROVE  /\ UNCHANGED <<kids, kind, attr, fresh, stuck>> /\ \A q \in Procs \ {p} : fix'[q] = fix[q]
         /\ \/ fix' = [fix EXCEPT ![p] = NoFix]
            \/ fix[p].pc = "fix" /\ fix[p].fd \notin Dirs /\ fix' = [fix EXCEPT ![p] = PermNext(fix[p])]
            \/ fix[p].pc \in {"fix", "perm"} /\ fix' = [fix EXCEPT ![p] = After(fix[p])]
<1>1. fix \in [Procs -> Fix]
  BY DEF Shared, Repairers
<1>2. PICK r, v : r = fix[p] /\ fix' = [fix EXCEPT ![p] = v] /\ r.pc \in {"chmod", "fix", "perm"}
               /\ v = IF r.pc = "chmod" THEN NoFix
                      ELSE IF r.pc = "fix" /\ r.fd \notin Dirs THEN PermNext(r) ELSE After(r)
  BY DEF CallFails, PermNext
<1>3. UNCHANGED <<kids, kind, attr, fresh, stuck>>
  BY DEF CallFails
<1>4. \A q \in Procs \ {p} : fix'[q] = fix[q]
  BY <1>1, <1>2
<1>5. \/ v = NoFix
      \/ r.pc = "fix" /\ r.fd \notin Dirs /\ v = PermNext(r)
      \/ r.pc \in {"fix", "perm"} /\ v = After(r)
  BY <1>2
<1> QED BY <1>2, <1>3, <1>4, <1>5

LEMMA CallFailsStep ==
  ASSUME Shared, NEW p \in Procs, CallFails(p)
  PROVE  Shared' /\ Kept
<1>1. UNCHANGED <<kids, attr, fresh>> /\ fix[p].pc \in Holding
  BY DEF CallFails, Holding
<1>2. PICK r \in Fix : r = fix[p] /\ Handy(r) /\ r.fd \in Theirs /\ r.fd # Nil
  BY <1>1, HeldTheirs, Constants
<1>3. CASE fix' = [fix EXCEPT ![p] = NoFix]
  BY <1>1, <1>3, EndFix
<1>4. CASE fix' = [fix EXCEPT ![p] = PermNext(fix[p])]
  <2>1. attr[r.fd] \in Attr
    BY <1>2, Constants DEF Shared, Attributes
  <2>2. PICK m \in SUBSET Bits : m = attr[r.fd].mode \ {"sg"}
    BY <2>1 DEF Attr
  <2>3. PICK q : q = [r EXCEPT !.pc = "perm", !.perm = m]
    OBVIOUS
  <2>4. q \in Fix /\ q.pc = "perm" /\ q.fd = r.fd
    BY <2>3 DEF Fix, FixPlaces
  <2>5. Handy(q)
    BY <1>2, <2>4 DEF Handy, Holding
  <2>6. fix' = [fix EXCEPT ![p] = q]
    BY <1>2, <1>4, <2>2, <2>3 DEF PermNext
  <2> QED BY <1>1, <2>4, <2>5, <2>6, OnlyFix
<1>5. CASE fix' = [fix EXCEPT ![p] = After(fix[p])]
  BY <1>1, <1>2, <1>5, AfterType, OnlyFix
<1> QED BY <1>3, <1>4, <1>5, CallFailsFacts

LEMMA KillStep ==
  ASSUME Shared, NEW who, Kill(who)
  PROVE  Shared' /\ Kept
<1>1. fix' \in [Procs -> Fix] /\ \A q \in Procs : Handy(fix'[q])
  BY NoFixType DEF Kill, Shared, Repairers
<1>2. Repairers'
  BY <1>1 DEF Repairers, Handy
<1> QED BY <1>2 DEF Kill, Shared, Entries, Inodes, Attributes, Kept

-----------------------------------------------------------------------------
(* A put *)

\* One name more of a listing of d.
Next1(s, d, n) == IF kids[d][n] = Nil THEN s ELSE Append(s, n)

\* A table of the listings of the first names of Order, up to the n-th.
Listings(f, d, n) == f = [i \in 0..n |-> IF i = 0 THEN << >> ELSE Next1(f[i - 1], d, Order[i])]

LEMMA ListingsExist ==
  ASSUME NEW d, NEW n \in Nat
  PROVE  \E f : Listings(f, d, n)
<1> DEFINE S == {m \in Nat : \E f : Listings(f, d, m)}
<1>1. 0 \in S
  <2> DEFINE f == [k \in 0..0 |-> << >>]
  <2>1. f = [k \in 0..0 |-> IF k = 0 THEN << >> ELSE Next1(f[k - 1], d, Order[k])]
    OBVIOUS
  <2>2. Listings(f, d, 0)
    BY <2>1 DEF Listings
  <2> QED BY <2>2
<1>2. ASSUME NEW m \in Nat, m \in S PROVE m + 1 \in S
  <2>1. PICK f : Listings(f, d, m)
    BY <1>2
  <2>2. /\ f = [k \in 0..m |-> f[k]] /\ DOMAIN f = 0..m
        /\ \A k \in 0..m : f[k] = IF k = 0 THEN << >> ELSE Next1(f[k - 1], d, Order[k])
    BY <2>1 DEF Listings
  <2> DEFINE last == Next1(f[m], d, Order[m + 1])
             g == [k \in 0..(m + 1) |-> IF k = m + 1 THEN last ELSE f[k]]
  <2>3. ASSUME NEW k \in 0..(m + 1)
        PROVE  g[k] = IF k = 0 THEN << >> ELSE Next1(g[k - 1], d, Order[k])
    <3>1. CASE k = m + 1
      <4>1. k # 0 /\ k - 1 = m /\ m \in 0..(m + 1) /\ m # m + 1
        BY <3>1
      <4>2. g[k] = last /\ g[k - 1] = f[m]
        BY <3>1, <4>1
      <4> QED BY <3>1, <4>1, <4>2
    <3>2. CASE k # m + 1 /\ k # 0
      <4>1. k \in 0..m /\ k - 1 \in 0..(m + 1) /\ k - 1 # m + 1
        BY <3>2
      <4>2. g[k] = f[k] /\ g[k - 1] = f[k - 1]
        BY <3>2, <4>1
      <4> HIDE DEF g
      <4> QED BY <2>2, <3>2, <4>1, <4>2
    <3>3. CASE k = 0
      <4>1. g[k] = f[0] /\ 0 \in 0..m
        BY <3>3
      <4> QED BY <2>2, <3>3, <4>1
    <3> QED BY <3>1, <3>2, <3>3
  <2>4. g = [k \in 0..(m + 1) |-> g[k]]
    OBVIOUS
  <2> HIDE DEF g
  <2>5. g = [k \in 0..(m + 1) |-> IF k = 0 THEN << >> ELSE Next1(g[k - 1], d, Order[k])]
    BY <2>3, <2>4
  <2>6. Listings(g, d, m + 1)
    BY <2>5 DEF Listings
  <2> QED BY <2>6
<1> HIDE DEF S
<1>3. n \in S
  BY <1>1, <1>2, NatSets
<1> QED BY <1>3 DEF S

\* A listing is a sequence of names.
LEMMA ReadDirType ==
  ASSUME NEW d
  PROVE  ReadDir(d) \in Seq(Names)
<1> DEFINE n == Len(Order)
<1>1. n \in Nat /\ Order \in Seq(Names)
  BY PutAssumption
<1>2. PICK f : Listings(f, d, n) /\ ReadDir(d) = f[n]
  <2> DEFINE f == CHOOSE f : Listings(f, d, n)
  <2>1. Listings(f, d, n)
    BY <1>1, ListingsExist
  <2>2. ReadDir(d) = f[n]
    BY DEF ReadDir, Listings, Next1
  <2> QED BY <2>1, <2>2
<1>3. \A k \in 0..n : f[k] = IF k = 0 THEN << >> ELSE Next1(f[k - 1], d, Order[k])
  BY <1>2 DEF Listings
<1> DEFINE S == {m \in Nat : m <= n => f[m] \in Seq(Names)}
<1>4. 0 \in S
  <2>1. f[0] = << >> /\ << >> \in Seq(Names)
    BY <1>1, <1>3
  <2> QED BY <2>1
<1>5. ASSUME NEW m \in Nat, m \in S PROVE m + 1 \in S
  <2> SUFFICES ASSUME m + 1 <= n PROVE f[m + 1] \in Seq(Names)
    OBVIOUS
  <2>1. m + 1 \in 0..n /\ m + 1 # 0 /\ (m + 1) - 1 = m /\ Order[m + 1] \in Names
    BY <1>1
  <2>2. f[m + 1] = Next1(f[m], d, Order[m + 1])
    BY <1>3, <2>1
  <2>3. f[m] \in Seq(Names)
    BY <1>1, <1>5
  <2> QED BY <2>1, <2>2, <2>3 DEF Next1
<1> HIDE DEF S
<1>6. n \in S
  BY <1>1, <1>4, <1>5, NatSets
<1> QED BY <1>2, <1>6 DEF S

LEMMA SourceType ==
  ASSUME NEW s \in Sources
  PROVE  /\ s \in Seq(Tops \cup Names) /\ Len(s) > 1 /\ Head(s) \in Tops /\ Tail(s) \in Seq(Names)
         /\ Last(s) \in Names
         /\ \A dest \in Dests : dest \in Seq(Names)
<1>1. s \in Seq(Tops \cup Names) /\ Len(s) \in Nat /\ Len(s) > 1 /\ Head(s) \in Tops /\ Tail(s) \in Seq(Names)
  BY PutAssumption
<1>2. Len(Tail(s)) = Len(s) - 1 /\ Tail(s)[Len(s) - 1] = s[Len(s)] /\ Len(s) - 1 \in 1..Len(Tail(s))
  BY <1>1
<1>3. s[Len(s)] \in Names
  BY <1>1, <1>2
<1> QED BY <1>1, <1>3, PutAssumption DEF Last

LEMMA NoPutType ==
  ASSUME put' = NoPut \/ put' = [NoPut EXCEPT !.ok = TRUE]
  PROVE  Putter'
<1>1. << >> \in Seq(Items) /\ {} \in SUBSET Objects
  OBVIOUS
<1>2. NoPut \in Puts0 /\ [NoPut EXCEPT !.ok = TRUE] \in Puts0
  BY <1>1 DEF NoPut, Puts0, PutPlaces
<1>3. NoPut.pc = "idle" /\ NoPut.todo = << >>
  BY DEF NoPut
<1>4. PICK q : q = [NoPut EXCEPT !.ok = TRUE]
  OBVIOUS
<1>5. q.pc = "idle" /\ q.todo = << >>
  BY <1>4 DEF NoPut
<1>6. put' \in Puts0 /\ put'.pc = "idle" /\ put'.todo = << >>
  BY <1>2, <1>3, <1>4, <1>5
<1> QED BY <1>6 DEF Putter

\* Before the copy.
LEMMA PutGoto ==
  ASSUME Putter, NEW pc \in PutPlaces \ {"idle", "work"}, NEW m \in SUBSET Objects,
         put.pc \notin {"idle", "work"},
         put' = [put EXCEPT !.pc = pc, !.made = m]
  PROVE  Putter'
<1>1. put' \in Puts0
  BY DEF Putter, Puts0
<1>2. put'.pc = pc /\ put'.todo = put.todo /\ put'.src = put.src /\ put'.dest = put.dest
  BY DEF Putter, Puts0
<1> QED BY <1>1, <1>2 DEF Putter

LEMMA PutGo ==
  ASSUME Putter, NEW pc \in PutPlaces \ {"idle", "work"}, put.pc \notin {"idle", "work"},
         put' = [put EXCEPT !.pc = pc]
  PROVE  Putter'
<1>1. put.made \in SUBSET Objects /\ put' = [put EXCEPT !.pc = pc, !.made = put.made]
  BY DEF Putter, Puts0
<1> QED BY <1>1, PutGoto

\* What a copy under way has.
LEMMA Working ==
  ASSUME Putter, put.pc = "work"
  PROVE  /\ put \in Puts0 /\ put.todo \in Seq(Items) /\ put.todo # << >> /\ it \in Items
         /\ put.src \in Sources /\ put.dest \in Dests
<1>1. put \in Puts0 /\ put.todo # << >> /\ put.src \in Sources /\ put.dest \in Dests
  BY DEF Putter
<1>2. put.todo \in Seq(Items)
  BY <1>1 DEF Puts0
<1> QED BY <1>1, <1>2 DEF it

\* The copy goes on, or ends when nothing is left.
LEMMA MoreStep ==
  ASSUME Putter, put.pc = "work", NEW m \in SUBSET Objects, NEW items \in Seq(Items),
         put' = More([put EXCEPT !.made = m], items)
  PROVE  Putter'
<1>1. PICK p : p = [put EXCEPT !.made = m]
  OBVIOUS
<1>2. /\ p \in Puts0 /\ p.pc = "work" /\ p.todo = put.todo
      /\ p.src \in Sources /\ p.dest \in Dests
  BY <1>1, Working DEF Puts0
<1>3. PICK T : T = items \o Tail(p.todo)
  OBVIOUS
<1>4. T \in Seq(Items)
  <2>1. Tail(p.todo) \in Seq(Items)
    BY <1>2, Working
  <2> QED BY <1>3, <2>1
<1>5. CASE T = << >>
  BY <1>1, <1>3, <1>5, NoPutType DEF More
<1>6. CASE T # << >>
  <2>1. put' = [p EXCEPT !.todo = T]
    BY <1>1, <1>3, <1>6 DEF More
  <2>2. put' \in Puts0
    BY <1>2, <1>4, <2>1 DEF Puts0
  <2>3. put'.pc = "work" /\ put'.todo = T /\ put'.src = p.src /\ put'.dest = p.dest
    BY <1>2, <2>1 DEF Puts0
  <2> QED BY <1>2, <1>6, <2>2, <2>3 DEF Putter
<1> QED BY <1>5, <1>6

LEMMA MoreSame ==
  ASSUME Putter, put.pc = "work", NEW items \in Seq(Items), put' = More(put, items)
  PROVE  Putter'
<1>1. put.made \in SUBSET Objects /\ put = [put EXCEPT !.made = put.made]
  BY DEF Putter, Puts0
<1> QED BY <1>1, MoreStep

LEMMA ItemType ==
  ASSUME NEW k \in Kinds, NEW from \in Seq(Tops \cup Names), NEW to \in Seq(Names), to # << >>
  PROVE  Item(k, from, to) \in Items /\ <<Item(k, from, to)>> \in Seq(Items)
BY DEF Item, Items

LEMMA MkdirAllType ==
  ASSUME NEW rel \in Seq(Names)
  PROVE  MkdirAll(rel) \in Seq(Items)
<1>1. ASSUME NEW i \in 1..Len(rel) PROVE Item("mkdir", << >>, SubSeq(rel, 1, i)) \in Items
  <2>1. SubSeq(rel, 1, i) \in Seq(Names)
    OBVIOUS
  <2>2. SubSeq(rel, 1, i) # << >>
    <3>1. Len(SubSeq(rel, 1, i)) = i /\ i # 0
      OBVIOUS
    <3> QED BY <3>1
  <2>3. << >> \in Seq(Tops \cup Names) /\ "mkdir" \in Kinds
    BY DEF Kinds
  <2> QED BY <2>1, <2>2, <2>3, ItemType
<1>2. Len(rel) \in Nat
  OBVIOUS
<1> DEFINE F(i) == Item("mkdir", << >>, SubSeq(rel, 1, i))
<1>3. MkdirAll(rel) = [i \in 1..Len(rel) |-> F(i)] /\ \A i \in 1..Len(rel) : F(i) \in Items
  BY <1>1 DEF MkdirAll
<1> HIDE DEF F
<1> QED BY <1>2, <1>3

\* The items for a directory or a file, and for what is in a directory.
LEMMA IntoType ==
  ASSUME NEW i \in Items, NEW k \in Kinds, NEW rel \in Seq(Names)
  PROVE  MkdirAll(rel) \o <<Item(k, i.from, i.to)>> \in Seq(Items)
<1>1. i.from \in Seq(Tops \cup Names) /\ i.to \in Seq(Names) /\ i.to # << >>
  BY DEF Items
<1>2. MkdirAll(rel) \in Seq(Items) /\ <<Item(k, i.from, i.to)>> \in Seq(Items)
  BY <1>1, MkdirAllType, ItemType
<1> QED BY <1>2

LEMMA EntriesType ==
  ASSUME NEW i \in Items, NEW names \in Seq(Names)
  PROVE  [j \in DOMAIN names |-> Entry(i, names[j])] \in Seq(Items)
<1>1. i.from \in Seq(Tops \cup Names) /\ i.to \in Seq(Names)
  BY DEF Items
<1>2. ASSUME NEW j \in 1..Len(names) PROVE Entry(i, names[j]) \in Items
  <2>1. names[j] \in Names
    OBVIOUS
  <2>2. Append(i.from, names[j]) \in Seq(Tops \cup Names) /\ Append(i.to, names[j]) \in Seq(Names)
    BY <1>1, <2>1
  <2>3. Append(i.to, names[j]) # << >>
    BY <1>1
  <2>4. "into" \in Kinds
    BY DEF Kinds
  <2> QED BY <2>2, <2>3, <2>4, ItemType DEF Entry
<1>3. Len(names) \in Nat /\ DOMAIN names = 1..Len(names)
  OBVIOUS
<1> DEFINE F(j) == Entry(i, names[j])
<1>4. \A j \in 1..Len(names) : F(j) \in Items
  BY <1>2
<1> HIDE DEF F
<1>5. [j \in 1..Len(names) |-> F(j)] \in Seq(Items)
  BY <1>3, <1>4
<1> QED BY <1>3, <1>5 DEF F

\* The name an item makes.
LEMMA LastType ==
  ASSUME NEW i \in Items
  PROVE  Last(i.to) \in Names /\ Front(i.to) \in Seq(Names)
<1>1. i.to \in Seq(Names) /\ i.to # << >>
  BY DEF Items
<1>2. Len(i.to) \in Nat \ {0}
  BY <1>1
<1> QED BY <1>1, <1>2 DEF Last, Front

\* A step of the put that changes nothing but the put itself.
LEMMA OnlyPut ==
  ASSUME Inv, Putter', UNCHANGED <<kids, attr, fresh, fix>>
  PROVE  Inv' /\ Kept
BY DEF Inv, Entries, Inodes, Attributes, Repairers, Handy, Kept

\* A step of the put that makes o in directory a, with attributes v.
LEMMA Makes ==
  ASSUME Inv, Putter', UNCHANGED fix, NEW a \in Dirs, NEW x \in Names, NEW o \in fresh, NEW v \in Attr,
         kids' = [kids EXCEPT ![a][x] = o], fresh' = fresh \ {o}, attr' = [attr EXCEPT ![o] = v]
  PROVE  Inv' /\ Kept
<1>1. Entries' /\ Inodes'
  BY NewEntry DEF Inv
<1>2. o \in Theirs
  BY Constants DEF Inv, Inodes
<1>3. Attributes' /\ Kept
  BY <1>2, AttrStep DEF Inv
<1>4. Repairers'
  BY DEF Inv, Repairers, Handy
<1> QED BY <1>1, <1>3, <1>4 DEF Inv

LEMMA BeginPutStep ==
  ASSUME Inv, NEW src \in Sources, NEW dest \in Dests, PutBegin(src, dest), UNCHANGED fix
  PROVE  Inv' /\ Kept
<1>1. put' = [NoPut EXCEPT !.pc = "find", !.src = src, !.dest = dest] /\ UNCHANGED <<kids, attr, fresh>>
  BY DEF PutBegin
<1>2. << >> \in Seq(Items) /\ {} \in SUBSET Objects
  OBVIOUS
<1>3. put' \in Puts0
  BY <1>1, <1>2 DEF NoPut, Puts0, PutPlaces
<1>4. put'.pc = "find" /\ put'.src = src /\ put'.dest = dest /\ put'.todo = << >>
  BY <1>1 DEF NoPut
<1>5. Putter'
  BY <1>3, <1>4 DEF Putter
<1> QED BY <1>1, <1>5, OnlyPut

LEMMA FindCubbyStep ==
  ASSUME Inv, FindCubby, UNCHANGED fix
  PROVE  Inv' /\ Kept
<1>1. put.pc = "find" /\ UNCHANGED <<kids, attr, fresh>>
  BY DEF FindCubby
<1>2. {"mkdir", "open"} \subseteq PutPlaces \ {"idle", "work"}
  BY DEF PutPlaces
<1>3. put' = [put EXCEPT !.pc = "mkdir"] \/ put' = [put EXCEPT !.pc = "open"] \/ put' = NoPut
  BY DEF FindCubby, Fail
<1>4. Putter'
  <2>1. CASE put' = [put EXCEPT !.pc = "mkdir"]
    BY <1>1, <1>2, <2>1, PutGo DEF Inv
  <2>2. CASE put' = [put EXCEPT !.pc = "open"]
    BY <1>1, <1>2, <2>2, PutGo DEF Inv
  <2> QED BY <1>3, <2>1, <2>2, NoPutType
<1> QED BY <1>1, <1>4, OnlyPut

LEMMA MakeCubbyStep ==
  ASSUME Inv, NEW d \in Dirs, MakeCubby(d), UNCHANGED fix
  PROVE  Inv' /\ Kept
<1>1. CASE Root # Nil
  BY <1>1, NoPutType, OnlyPut DEF MakeCubby, Fail
<1>2. CASE Root = Nil
  <2>1. /\ put.pc = "mkdir" /\ d \in fresh /\ fresh' = fresh \ {d}
        /\ kids' = [kids EXCEPT ![Parent][Cubby] = d]
        /\ attr' = [attr EXCEPT ![d] = MadeDir("user", Parent, Mode0770)]
        /\ put' = [put EXCEPT !.pc = "setgid", !.made = {d}]
    BY <1>2, FreshIn DEF MakeCubby
  <2>2. MadeDir("user", Parent, Mode0770) \in Attr
    BY MadeTypes, Modes, Constants DEF Inv
  <2>3. Putter'
    <3>1. {d} \in SUBSET Objects /\ "setgid" \in PutPlaces \ {"idle", "work"}
      BY DEF Objects, PutPlaces
    <3> QED BY <2>1, <3>1, PutGoto DEF Inv
  <2> QED BY <2>1, <2>2, <2>3, Makes, Constants
<1> QED BY <1>1, <1>2

LEMMA CopySetgidStep ==
  ASSUME Inv, CopySetgid, UNCHANGED fix
  PROVE  Inv' /\ Kept
<1>1. put.pc = "setgid" /\ UNCHANGED <<kids, fresh>>
  BY DEF CopySetgid
<1>2. CASE Fail /\ UNCHANGED attr
  BY <1>1, <1>2, NoPutType, OnlyPut DEF Fail
<1>3. CASE ~(Fail /\ UNCHANGED attr)
  <2>1. /\ put' = [put EXCEPT !.pc = "check"] /\ Root # Nil
        /\ attr' = [attr EXCEPT ![Root].mode =
                      IF attr[Root].grp THEN attr[Root].mode ELSE attr[Root].mode \cup {"sg"}]
    BY <1>3 DEF CopySetgid
  <2>2. PICK o \in Theirs : o = Root
    BY <2>1, RootTheirs DEF Inv
  <2>3. attr[o] \in Attr
    BY Constants DEF Inv, Attributes
  <2>4. PICK m \in SUBSET Bits : m = IF attr[o].grp THEN attr[o].mode ELSE attr[o].mode \cup {"sg"}
    BY <2>3 DEF Attr, Bits
  <2>5. Attributes' /\ Kept
    BY <2>1, <2>2, <2>4, ModeStep DEF Inv
  <2>6. Putter'
    BY <1>1, <2>1, PutGo DEF Inv, PutPlaces
  <2>7. Repairers'
    BY DEF Inv, Repairers, Handy
  <2> QED BY <1>1, <2>5, <2>6, <2>7 DEF Inv, Entries, Inodes
<1> QED BY <1>2, <1>3

LEMMA CheckCubbyStep ==
  ASSUME Inv, CheckCubby, UNCHANGED fix
  PROVE  Inv' /\ Kept
<1>1. put.pc = "check" /\ UNCHANGED <<kids, attr, fresh>>
  BY DEF CheckCubby
<1>2. CASE put' = [put EXCEPT !.pc = "open"]
  <2>1. Putter'
    BY <1>1, <1>2, PutGo DEF Inv, PutPlaces
  <2> QED BY <1>1, <2>1, OnlyPut
<1>3. CASE Fail
  BY <1>1, <1>3, NoPutType, OnlyPut DEF Fail
<1> QED BY <1>2, <1>3 DEF CheckCubby

LEMMA OpenRootStep ==
  ASSUME Inv, OpenRoot, UNCHANGED fix
  PROVE  Inv' /\ Kept
<1>1. put.pc = "open" /\ UNCHANGED <<kids, attr, fresh>>
  BY DEF OpenRoot
<1>2. CASE Fail
  BY <1>1, <1>2, NoPutType, OnlyPut DEF Fail
<1>3. CASE ~Fail
  <2>1. PICK T : T = MkdirAll(put.dest) \o <<Item("source", put.src, Target)>>
    OBVIOUS
  <2>2. PICK o : o = Root
    OBVIOUS
  <2>3. put' = [put EXCEPT !.pc = "work", !.root = o, !.todo = T]
    BY <1>3, <2>1, <2>2 DEF OpenRoot
  <2>4. o \in Objects \cup {Nil}
    BY <2>2, RootTheirs, Constants DEF Inv
  <2>5. put \in Puts0 /\ put.src \in Sources /\ put.dest \in Dests
    BY <1>1 DEF Inv, Putter
  <2>6. /\ put.src \in Seq(Tops \cup Names) /\ put.dest \in Seq(Names)
        /\ Last(put.src) \in Names
    BY <2>5, SourceType
  <2>7. Target \in Seq(Names) /\ Target # << >>
    <3>1. PICK n \in Names : n = Last(put.src)
      BY <2>6
    <3>2. <<n>> \in Seq(Names) /\ Len(<<n>>) = 1
      OBVIOUS
    <3>3. put.dest \o <<n>> \in Seq(Names) /\ Len(put.dest \o <<n>>) = Len(put.dest) + 1
      BY <2>6, <3>2
    <3>4. Len(put.dest) + 1 # 0
      BY <2>6
    <3> QED BY <3>1, <3>3, <3>4 DEF Target
  <2>8. T \in Seq(Items) /\ T # << >>
    <3>1. PICK s \in Items : s = Item("source", put.src, Target)
      BY <2>6, <2>7, ItemType DEF Kinds
    <3>2. MkdirAll(put.dest) \in Seq(Items) /\ <<s>> \in Seq(Items) /\ Len(<<s>>) = 1
      BY <2>6, MkdirAllType
    <3>3. T \in Seq(Items) /\ Len(T) = Len(MkdirAll(put.dest)) + 1
      BY <2>1, <3>1, <3>2
    <3>4. Len(MkdirAll(put.dest)) \in Nat
      BY <3>2
    <3> QED BY <3>3, <3>4
  <2>9. put' \in Puts0
    BY <2>3, <2>4, <2>5, <2>8 DEF Puts0, PutPlaces
  <2>10. put'.pc = "work" /\ put'.todo = T /\ put'.src = put.src /\ put'.dest = put.dest
    BY <2>3, <2>5 DEF Puts0
  <2>11. Putter'
    BY <2>5, <2>8, <2>9, <2>10 DEF Putter
  <2> QED BY <1>1, <2>11, OnlyPut
<1> QED BY <1>2, <1>3

LEMMA StatDirStep ==
  ASSUME Inv, StatDir, UNCHANGED fix
  PROVE  Inv' /\ Kept
<1>1. put.pc = "work" /\ UNCHANGED <<kids, attr, fresh>> /\ (put' = NoPut \/ put' = More(put, << >>))
  BY DEF StatDir, Work, Fail
<1>2. << >> \in Seq(Items)
  OBVIOUS
<1>3. Putter'
  BY <1>1, <1>2, NoPutType, MoreSame DEF Inv
<1> QED BY <1>1, <1>3, OnlyPut

LEMMA PutSourceStep ==
  ASSUME Inv, PutSource, UNCHANGED fix
  PROVE  Inv' /\ Kept
<1>1. /\ put.pc = "work" /\ UNCHANGED <<kids, attr, fresh>>
      /\ put' = NoPut \/ put' = More(put, <<Item("into", it.from, it.to)>>)
  BY DEF PutSource, Work, Fail
<1>2. it \in Items
  BY <1>1, Working DEF Inv
<1>3. <<Item("into", it.from, it.to)>> \in Seq(Items)
  BY <1>2, ItemType DEF Items, Kinds
<1>4. Putter'
  BY <1>1, <1>3, NoPutType, MoreSame DEF Inv
<1> QED BY <1>1, <1>4, OnlyPut

LEMMA CopyIntoStep ==
  ASSUME Inv, CopyInto, UNCHANGED fix
  PROVE  Inv' /\ Kept
<1>1. /\ put.pc = "work" /\ UNCHANGED <<kids, attr, fresh>>
      /\ \/ put' = NoPut
         \/ put' = More(put, MkdirAll(it.to) \o <<Item("list", it.from, it.to)>>)
         \/ put' = More(put, MkdirAll(Front(it.to)) \o <<Item("file", it.from, it.to)>>)
  BY DEF CopyInto, Work, Fail
<1>2. it \in Items /\ it.to \in Seq(Names) /\ Front(it.to) \in Seq(Names)
  BY <1>1, Working, LastType DEF Inv, Items
<1>3. /\ MkdirAll(it.to) \o <<Item("list", it.from, it.to)>> \in Seq(Items)
      /\ MkdirAll(Front(it.to)) \o <<Item("file", it.from, it.to)>> \in Seq(Items)
  BY <1>2, IntoType DEF Kinds
<1>4. Putter'
  BY <1>1, <1>3, NoPutType, MoreSame DEF Inv
<1> QED BY <1>1, <1>4, OnlyPut

LEMMA CopyDirStep ==
  ASSUME Inv, CopyDir, UNCHANGED fix
  PROVE  Inv' /\ Kept
<1>1. PICK names : names = ReadDir(SourceAt(it.from))
  OBVIOUS
<1>2. /\ put.pc = "work" /\ UNCHANGED <<kids, attr, fresh>>
      /\ put' = NoPut \/ put' = More(put, [i \in DOMAIN names |-> Entry(it, names[i])])
  BY <1>1 DEF CopyDir, Work, Fail
<1>3. names \in Seq(Names) /\ it \in Items
  BY <1>1, <1>2, ReadDirType, Working DEF Inv
<1>4. PICK items \in Seq(Items) : items = [i \in DOMAIN names |-> Entry(it, names[i])]
  BY <1>3, EntriesType
<1>5. Putter'
  BY <1>2, <1>4, NoPutType, MoreSame DEF Inv
<1> QED BY <1>2, <1>5, OnlyPut

LEMMA MkdirExistOKStep ==
  ASSUME Inv, NEW d \in Dirs, MkdirExistOK(d), UNCHANGED fix
  PROVE  Inv' /\ Kept
<1>1. put.pc = "work"
  BY DEF MkdirExistOK, Work
<1>2. it \in Items /\ Last(it.to) \in Names
  BY <1>1, Working, LastType DEF Inv
<1>3. PICK p, n : p = Dest /\ n = Last(it.to)
  OBVIOUS
<1>4. CASE UNCHANGED <<kids, attr, fresh>>
                /\ (put' = NoPut \/ put' = More(put, <<Item("stat", << >>, it.to)>>))
  <2>1. << >> \in Seq(Tops \cup Names) /\ it.to \in Seq(Names) /\ it.to # << >>
    BY <1>2 DEF Items
  <2>2. <<Item("stat", << >>, it.to)>> \in Seq(Items)
    BY <2>1, ItemType DEF Kinds
  <2>3. Putter'
    BY <1>1, <1>4, <2>2, NoPutType, MoreSame DEF Inv
  <2> QED BY <1>4, <2>3, OnlyPut
<1>5. CASE /\ p \in Dirs /\ d \in Fresh(Dirs) /\ fresh' = fresh \ {d}
           /\ kids' = [kids EXCEPT ![p][n] = d]
           /\ attr' = [attr EXCEPT ![d] = MadeDir("user", p, PutDirMode)]
           /\ put' = More([put EXCEPT !.made = put.made \cup {d}], << >>)
  <2>1. d \in fresh
    BY <1>5, FreshIn
  <2>2. MadeDir("user", p, PutDirMode) \in Attr
    BY <1>5, MadeTypes, Modes DEF Inv, PutDirMode
  <2>3. << >> \in Seq(Items) /\ put.made \cup {d} \in SUBSET Objects
    BY DEF Inv, Putter, Puts0, Objects
  <2>4. Putter'
    BY <1>1, <1>5, <2>3, MoreStep DEF Inv
  <2> QED BY <1>2, <1>3, <1>5, <2>1, <2>2, <2>4, Makes
<1> QED BY <1>3, <1>4, <1>5 DEF MkdirExistOK, Fail

LEMMA CopyFileStep ==
  ASSUME Inv, NEW f \in Files, CopyFile(f), UNCHANGED fix
  PROVE  Inv' /\ Kept
<1>1. put.pc = "work"
  BY DEF CopyFile, Work
<1>2. it \in Items /\ Last(it.to) \in Names
  BY <1>1, Working, LastType DEF Inv
<1>3. PICK p, n : p = Dest /\ n = Last(it.to)
  OBVIOUS
<1>4. CASE UNCHANGED <<kids, attr, fresh>> /\ put' = NoPut
  BY <1>4, NoPutType, OnlyPut
<1>5. CASE /\ p \in Dirs /\ f \in Fresh(Files) /\ fresh' = fresh \ {f}
           /\ kids' = [kids EXCEPT ![p][n] = f]
           /\ attr' = [attr EXCEPT ![f] = MadeFile("user", p, {"gr", "gw"})]
           /\ put' = More([put EXCEPT !.made = put.made \cup {f}], << >>)
  <2>1. f \in fresh
    BY <1>5, FreshIn
  <2>2. {"gr", "gw"} \in SUBSET Bits
    BY DEF Bits
  <2>3. MadeFile("user", p, {"gr", "gw"}) \in Attr
    BY <1>5, <2>2, MadeTypes DEF Inv
  <2>4. << >> \in Seq(Items) /\ put.made \cup {f} \in SUBSET Objects
    BY DEF Inv, Putter, Puts0, Objects
  <2>5. Putter'
    BY <1>1, <1>5, <2>4, MoreStep DEF Inv
  <2> QED BY <1>2, <1>3, <1>5, <2>1, <2>3, <2>5, Makes
<1> QED BY <1>3, <1>4, <1>5 DEF CopyFile, Fail

LEMMA PutInv ==
  ASSUME Inv, PutStep, UNCHANGED fix
  PROVE  Inv' /\ Kept
<1>1. CASE FindCubby \/ CopySetgid \/ CheckCubby \/ OpenRoot
  BY <1>1, FindCubbyStep, CopySetgidStep, CheckCubbyStep, OpenRootStep
<1>2. CASE StatDir \/ PutSource \/ CopyInto \/ CopyDir
  BY <1>2, StatDirStep, PutSourceStep, CopyIntoStep, CopyDirStep
<1>3. CASE \E d \in Dirs : MakeCubby(d) \/ MkdirExistOK(d)
  BY <1>3, MakeCubbyStep, MkdirExistOKStep
<1>4. CASE \E f \in Files : CopyFile(f)
  BY <1>4, CopyFileStep
<1> QED BY <1>1, <1>2, <1>3, <1>4 DEF PutStep

-----------------------------------------------------------------------------
(* The owner *)

LEMMA MoveStep ==
  ASSUME Entries, Inodes, NEW a \in Dirs, NEW b \in Dirs, NEW x \in Names, NEW y \in Names,
         Exchange(a, x, b, y), UNCHANGED fresh
  PROVE  Entries' /\ Inodes'
<1>1. PICK p, q : p = kids[a][x] /\ q = kids[b][y]
  OBVIOUS
<1>2. p # q /\ kids' = [kids EXCEPT ![a][x] = q, ![b][y] = p]
  BY <1>1 DEF Exchange
<1>3. /\ kids \in [Dirs -> [Names -> Theirs \cup {Nil}]]
      /\ p \in Theirs \cup {Nil} /\ q \in Theirs \cup {Nil}
  BY <1>1 DEF Entries
<1>4. PICK mid : mid = [kids EXCEPT ![a] = [kids[a] EXCEPT ![x] = q]]
  OBVIOUS
<1>5. /\ mid \in [Dirs -> [Names -> Theirs \cup {Nil}]] /\ mid[a][x] = q
      /\ \A e \in Dirs, m \in Names : e # a \/ m # x => mid[e][m] = kids[e][m]
  <2>1. [kids[a] EXCEPT ![x] = q] \in [Names -> Theirs \cup {Nil}]
    BY <1>3
  <2> QED BY <1>3, <1>4, <2>1
<1>6. kids' = [mid EXCEPT ![b] = [mid[b] EXCEPT ![y] = p]]
  BY <1>2, <1>4
<1>7. /\ kids' \in [Dirs -> [Names -> Theirs \cup {Nil}]] /\ kids'[b][y] = p
      /\ \A e \in Dirs, m \in Names : e # b \/ m # y => kids'[e][m] = mid[e][m]
  <2>1. [mid[b] EXCEPT ![y] = p] \in [Names -> Theirs \cup {Nil}]
    BY <1>3, <1>5
  <2> QED BY <1>3, <1>5, <1>6, <2>1
<1>8. /\ kids'[a][x] = q /\ kids'[b][y] = p
      /\ \A e \in Dirs, m \in Names :
           (e # a \/ m # x) /\ (e # b \/ m # y) => kids'[e][m] = kids[e][m]
  <2>1. a # b \/ x # y
    BY <1>1, <1>2
  <2>2. kids'[a][x] = mid[a][x]
    BY <1>7, <2>1
  <2>3. ASSUME NEW e \in Dirs, NEW m \in Names, e # a \/ m # x, e # b \/ m # y
        PROVE  kids'[e][m] = kids[e][m]
    <3>1. kids'[e][m] = mid[e][m]
      BY <1>7, <2>3
    <3>2. mid[e][m] = kids[e][m]
      BY <1>5, <2>3
    <3> QED BY <3>1, <3>2
  <2> QED BY <1>5, <1>7, <2>2, <2>3
<1>9. ASSUME NEW c \in Dirs, NEW e \in Dirs, NEW m \in Names, NEW n \in Names,
             kids'[c][m] = kids'[e][n], kids'[c][m] # Nil
      PROVE  c = e /\ m = n
  <2>1. ASSUME NEW u \in Dirs, NEW v \in Dirs, NEW s \in Names, NEW t \in Names,
               kids[u][s] = kids[v][t], kids[u][s] # Nil
        PROVE  u = v /\ s = t
    BY <2>1 DEF Entries
  <2>2. ASSUME NEW u \in Dirs, NEW s \in Names
        PROVE  \/ u = a /\ s = x /\ kids'[u][s] = kids[b][y]
               \/ u = b /\ s = y /\ kids'[u][s] = kids[a][x]
               \/ (u # a \/ s # x) /\ (u # b \/ s # y) /\ kids'[u][s] = kids[u][s]
    BY <1>1, <1>8
  <2>3. CASE c = a /\ m = x /\ kids'[c][m] = kids[b][y]
    <3>1. CASE e = b /\ n = y /\ kids'[e][n] = kids[a][x]
      BY <1>1, <1>2, <1>9, <2>3, <3>1
    <3>2. CASE (e # a \/ n # x) /\ (e # b \/ n # y) /\ kids'[e][n] = kids[e][n]
      <4>1. kids[b][y] = kids[e][n] /\ kids[b][y] # Nil
        BY <1>9, <2>3, <3>2
      <4>2. b = e /\ y = n
        BY <2>1, <4>1
      <4> QED BY <3>2, <4>2
    <3> QED BY <2>2, <2>3, <3>1, <3>2
  <2>4. CASE c = b /\ m = y /\ kids'[c][m] = kids[a][x]
    <3>1. CASE e = a /\ n = x /\ kids'[e][n] = kids[b][y]
      BY <1>1, <1>2, <1>9, <2>4, <3>1
    <3>2. CASE (e # a \/ n # x) /\ (e # b \/ n # y) /\ kids'[e][n] = kids[e][n]
      <4>1. kids[a][x] = kids[e][n] /\ kids[a][x] # Nil
        BY <1>9, <2>4, <3>2
      <4>2. a = e /\ x = n
        BY <2>1, <4>1
      <4> QED BY <3>2, <4>2
    <3> QED BY <2>2, <2>4, <3>1, <3>2
  <2>5. CASE (c # a \/ m # x) /\ (c # b \/ m # y) /\ kids'[c][m] = kids[c][m]
    <3>1. CASE e = a /\ n = x /\ kids'[e][n] = kids[b][y]
      <4>1. kids[c][m] = kids[b][y] /\ kids[c][m] # Nil
        BY <1>9, <2>5, <3>1
      <4>2. c = b /\ m = y
        BY <2>1, <4>1
      <4> QED BY <2>5, <4>2
    <3>2. CASE e = b /\ n = y /\ kids'[e][n] = kids[a][x]
      <4>1. kids[c][m] = kids[a][x] /\ kids[c][m] # Nil
        BY <1>9, <2>5, <3>2
      <4>2. c = a /\ m = x
        BY <2>1, <4>1
      <4> QED BY <2>5, <4>2
    <3>3. CASE kids'[e][n] = kids[e][n]
      <4>1. kids[c][m] = kids[e][n] /\ kids[c][m] # Nil
        BY <1>9, <2>5, <3>3
      <4> QED BY <2>1, <4>1
    <3> QED BY <2>2, <3>1, <3>2, <3>3
  <2> QED BY <2>2, <2>3, <2>4, <2>5
<1>10. Entries'
  BY <1>7, <1>9 DEF Entries
<1>11. Inodes'
  BY <1>1, <1>8 DEF Inodes
<1> QED BY <1>10, <1>11

LEMMA ShellStep ==
  ASSUME Inv, Shell
  PROVE  Inv' /\ Kept
<1>1. UNCHANGED <<fix, put>>
  BY DEF Shell
<1>2. Repairers' /\ Putter'
  BY <1>1 DEF Inv, Repairers, Handy, Putter
<1>3. ASSUME NEW a \in Dirs, NEW b \in Dirs, NEW x \in Names, NEW y \in Names, Move(a, x, b, y)
      PROVE  Inv' /\ Kept
  <2>1. Exchange(a, x, b, y) /\ UNCHANGED <<attr, fresh>>
    BY <1>3 DEF Move
  <2>2. Entries' /\ Inodes'
    BY <2>1, MoveStep DEF Inv
  <2> QED BY <1>2, <2>1, <2>2 DEF Inv, Attributes, Kept
<1>4. ASSUME NEW o \in Inside, Chmod(o, {"ux"}) PROVE Inv' /\ Kept
  <2>1. attr' = [attr EXCEPT ![o].mode = {"ux"}] /\ UNCHANGED <<kids, fresh>>
    BY <1>4 DEF Chmod
  <2>2. o \in Theirs /\ {"ux"} \in SUBSET Bits
    BY InsideTheirs, Constants DEF Inv, Bits
  <2>3. Attributes' /\ Kept
    BY <2>1, <2>2, ModeStep DEF Inv
  <2> QED BY <1>2, <2>1, <2>3 DEF Inv, Entries, Inodes
<1> QED BY <1>3, <1>4 DEF Shell

-----------------------------------------------------------------------------
(* All of it *)

LEMMA InitInv == Init => Inv
<1> SUFFICES ASSUME Init PROVE Inv
  OBVIOUS
<1>1. PICK s \in Starts :
        /\ kind = s.kind /\ kids = s.kids /\ attr = [s.attr EXCEPT ![Parent] = Layout]
        /\ fresh = {o \in (Dirs \cup Files) \ (Tops \cup Fixed) :
                      \A d \in Dirs, n \in Names : s.kids[d][n] # o}
  BY DEF Init
<1>2. StartOK(s)
  BY CubbyAssumption
<1>3. Entries
  <2>1. kids \in [Dirs -> [Names -> (Objects \cup {Nil}) \ (Tops \cup Fixed)]]
    BY <1>1, <1>2 DEF StartOK
  <2>2. (Objects \cup {Nil}) \ (Tops \cup Fixed) \subseteq Theirs \cup {Nil}
    BY DEF Theirs
  <2>3. kids \in [Dirs -> [Names -> Theirs \cup {Nil}]]
    BY <2>1, <2>2
  <2> QED BY <1>1, <1>2, <2>3 DEF StartOK, Entries
<1>4. Inodes
  BY <1>1 DEF Inodes, Opened0
<1>5. Attributes
  <2>1. s.attr \in [Objects -> Attr]
    BY <1>2 DEF StartOK
  <2>2. Layout \in Attr
    BY DEF Layout, Attr, CubbyMode, Mode0770, Bits
  <2> QED BY <1>1, <2>1, <2>2 DEF Attributes
<1>6. Repairers
  BY NoFixType DEF Init, RepairInit, Repairers
<1>7. Putter
  <2>1. << >> \in Seq(Items) /\ {} \in SUBSET Objects
    OBVIOUS
  <2>2. put = NoPut
    BY DEF Init, PutInit
  <2>3. put \in Puts0 /\ put.pc = "idle" /\ put.todo = << >>
    BY <2>1, <2>2 DEF NoPut, Puts0, PutPlaces
  <2> QED BY <2>3 DEF Putter
<1> QED BY <1>3, <1>4, <1>5, <1>6, <1>7 DEF Inv

LEMMA NextInv == Inv /\ Next => Inv' /\ Kept
<1> SUFFICES ASSUME Inv, Next PROVE Inv' /\ Kept
  OBVIOUS
<1>0. Shared
  BY DEF Inv, Shared
<1>1. ASSUME Shared', Kept, UNCHANGED put PROVE Inv' /\ Kept
  BY <1>1 DEF Inv, Shared, Putter
<1>2. ASSUME NEW p \in Procs, BeginRepair(p) PROVE Inv' /\ Kept
  BY <1>0, <1>1, <1>2, BeginFix DEF BeginRepair
<1>3. ASSUME NEW p \in Procs, Repairs(p) PROVE Inv' /\ Kept
  BY <1>0, <1>1, <1>3, RepairInv DEF Repairs
<1>4. CASE BeginPut
  BY <1>4, BeginPutStep DEF BeginPut
<1>5. CASE Puts
  BY <1>5, PutInv DEF Puts
<1>6. CASE Shell
  BY <1>6, ShellStep
<1>7. CASE Crash
  BY <1>0, <1>1, <1>7, KillStep DEF Crash
<1>8. ASSUME NEW p \in Procs, Fails(p) PROVE Inv' /\ Kept
  BY <1>0, <1>1, <1>8, CallFailsStep DEF Fails
<1>9. ASSUME NEW p \in Procs, Blocks(p) PROVE Inv' /\ Kept
  <2>1. UNCHANGED <<kids, attr, fresh, fix, put>>
    BY <1>9 DEF Blocks, Block
  <2> QED BY <2>1 DEF Inv, Entries, Inodes, Attributes, Repairers, Handy, Putter, Kept
<1> QED BY <1>2, <1>3, <1>4, <1>5, <1>6, <1>7, <1>8, <1>9 DEF Next

LEMMA InvStep == Inv /\ [Next]_vars => Inv'
<1> SUFFICES ASSUME Inv, [Next]_vars PROVE Inv'
  OBVIOUS
<1>1. CASE UNCHANGED vars
  BY <1>1 DEF vars, Inv, Entries, Inodes, Attributes, Repairers, Handy, Putter
<1> QED BY <1>1, NextInv

\* The invariant holds in every state of the repairs, the put and the owner.
THEOREM CubbyInvariance == Spec => []Inv
BY InitInv, InvStep, PTL DEF Spec

-----------------------------------------------------------------------------
(* Properties *)

\* Only the openat of a walk waits.
AtFifo == \A p \in Procs : p \in stuck => fix[p].pc \in {"path", "children"}

LEMMA NextAtFifo == Inv /\ AtFifo /\ [Next]_vars => AtFifo'
<1> SUFFICES ASSUME Inv, AtFifo, [Next]_vars PROVE AtFifo'
  OBVIOUS
<1>1. CASE UNCHANGED <<fix, stuck>>
  BY <1>1 DEF AtFifo
<1>2. BeginPut \/ Puts \/ Shell \/ UNCHANGED vars => UNCHANGED <<fix, stuck>>
  BY DEF BeginPut, Puts, Shell, vars
<1>3. ASSUME NEW p \in Procs, p \notin stuck, UNCHANGED stuck, \A q \in Procs \ {p} : fix'[q] = fix[q]
      PROVE  AtFifo'
  BY <1>3 DEF AtFifo
<1>4. ASSUME NEW p \in Procs, BeginRepair(p) PROVE AtFifo'
  <2>1. fix[p].pc = "idle" /\ UNCHANGED stuck /\ \A q \in Procs \ {p} : fix'[q] = fix[q]
    BY <1>4 DEF BeginRepair, Begin, Inv, Repairers
  <2> QED BY <1>3, <2>1 DEF AtFifo
<1>5. ASSUME NEW p \in Procs, Repairs(p) PROVE AtFifo'
  <2>1. RepairStep(p) /\ Shared
    BY <1>5 DEF Repairs, Inv, Shared
  <2> QED BY <1>3, <2>1, NotStuck, OwnStep
<1>6. ASSUME NEW p \in Procs, Fails(p) PROVE AtFifo'
  <2>1. CallFails(p) /\ Shared
    BY <1>6 DEF Fails, Inv, Shared
  <2>2. p \notin stuck
    BY <2>1 DEF CallFails, AtFifo
  <2> QED BY <1>3, <2>1, <2>2, CallFailsFacts
<1>7. ASSUME NEW p \in Procs, Blocks(p) PROVE AtFifo'
  <2>1. fix[p].pc \in {"path", "children"} /\ stuck' = stuck \cup {p} /\ UNCHANGED fix
    BY <1>7 DEF Blocks, Block
  <2> QED BY <2>1 DEF AtFifo
<1>8. CASE Crash
  <2>1. PICK who : Kill(who)
    BY <1>8 DEF Crash
  <2>2. \A q \in Procs : q \in stuck' => q \in stuck /\ fix'[q] = fix[q]
    BY <2>1 DEF Kill
  <2> QED BY <2>2 DEF AtFifo
<1> QED BY <1>1, <1>2, <1>4, <1>5, <1>6, <1>7, <1>8 DEF Next

\* Nothing is in two places, the put works exactly while it has something left to do,
\* and a repair holds a descriptor wherever it uses one, for any tree, any number of
\* repairs and any commands of the owner.
THEOREM CubbyTypes == Spec => []TypeOK
<1>1. Inv /\ AtFifo => TypeOK
  <2> SUFFICES ASSUME Inv, AtFifo PROVE TypeOK
    OBVIOUS
  <2>1. kids \in [Dirs -> [Names -> Objects \cup {Nil}]]
    <3>1. Theirs \cup {Nil} \subseteq Objects \cup {Nil}
      BY Constants
    <3> QED BY <3>1 DEF Inv, Entries
  <2>2. attr \in [Objects -> Attr] /\ fresh \subseteq Objects
    BY DEF Inv, Attributes, Inodes, Opened0, Objects
  <2>3. ASSUME NEW o \in Objects
        PROVE  Cardinality({s \in Dirs \X Names : kids[s[1]][s[2]] = o}) <= 1
    <3> DEFINE P == {s \in Dirs \X Names : kids[s[1]][s[2]] = o}
    <3>1. o # Nil
      BY TreeAssumption
    <3>2. \A s, t \in P : s = t
      <4> SUFFICES ASSUME NEW s \in P, NEW t \in P PROVE s = t
        OBVIOUS
      <4>1. s[1] \in Dirs /\ s[2] \in Names /\ t[1] \in Dirs /\ t[2] \in Names
            /\ s = <<s[1], s[2]>> /\ t = <<t[1], t[2]>>
        OBVIOUS
      <4>2. kids[s[1]][s[2]] = o /\ kids[t[1]][t[2]] = o
        OBVIOUS
      <4>3. s[1] = t[1] /\ s[2] = t[2]
        BY <3>1, <4>1, <4>2 DEF Inv, Entries
      <4> QED BY <4>1, <4>3
    <3> HIDE DEF P
    <3>3. CASE P = {}
      BY <3>3, FS_EmptySet DEF P
    <3>4. CASE P # {}
      <4>1. PICK s : P = {s}
        BY <3>2, <3>4
      <4>2. Cardinality(P) = 1
        BY <4>1, FS_Singleton
      <4> QED BY <4>2 DEF P
    <3> QED BY <3>3, <3>4
  <2>4. (put.pc = "work") = (put.todo # << >>)
    BY DEF Inv, Putter
  <2>5. \A p \in Procs :
          /\ (fix[p].fd # Nil) = (fix[p].pc \in {"chown", "chmod", "fix", "perm", "path", "list", "children"})
          /\ fix[p].pc = "children" => fix[p].stack # << >>
    BY DEF Inv, Repairers, Handy, Holding
  <2> QED BY <2>1, <2>2, <2>3, <2>4, <2>5 DEF TypeOK, AtFifo
<1>2. Init => AtFifo
  BY DEF Init, RepairInit, AtFifo
<1> QED BY <1>1, <1>2, CubbyInvariance, NextAtFifo, PTL DEF Spec

-----------------------------------------------------------------------------
(* A repair that nobody disturbs *)

\* What Converged asks for.
Mended(o) ==
  IF o \in Dirs THEN attr[o].mode = CubbyMode
  ELSE /\ attr[o].grp /\ "gr" \in attr[o].mode /\ "o" \notin attr[o].mode
       /\ "ux" \in attr[o].mode => "gx" \in attr[o].mode

\* The repair r has still to mend what is in d under the name n.
Ahead(r, d, n) ==
  \/ \E i \in 1..Len(r.stack) : r.stack[i].fd = d /\ \E e \in r.stack[i].left : e.name = n
  \/ r.pc = "list" /\ r.fd = d
  \/ r.pc \in {"fix", "perm"} /\ r.fd = kids[d][n]

\* D is mended, and so will be whatever the daemon can open from there.
Done(r, D) ==
  /\ \A o \in D : Mended(o)
  /\ Root \in D \/ (r.pc = "fix" /\ r.fd = Root)
  /\ \A d \in Dirs \cap D, n \in Names :
       Opens("daemon", d, kids[d][n], FALSE) => kids[d][n] \in D \/ Ahead(r, d, n)

\* The entries left to visit are as they were listed.
Agreed(r) ==
  \A i \in 1..Len(r.stack) : \A e \in r.stack[i].left : e.dir = (kids[r.stack[i].fd][e.name] \in Dirs)

Walking == {"fix", "perm", "list", "children"}

\* The walk over the whole cubby.
Whole(r) ==
  /\ r.op = "start" /\ r.rel = << >> /\ r.pc # "check"
  /\ r.pc \notin Walking => r.stack = << >>
  /\ r.pc \in Walking => Agreed(r) /\ (r.pc = "fix" => r.deep = (r.fd \in Dirs))
  /\ r.pc \in Walking => \E D \in SUBSET Objects : Done(r, D)

\* What is open is in the cubby, and the Fchown of a file comes before its Fchmod.
Held(r) ==
  /\ r.pc \in Holding => r.fd \in Inside
  /\ r.pc \in {"chown", "chmod"} => r.fd \in Dirs
  /\ r.pc = "perm" => r.fd \notin Dirs /\ attr[r.fd].grp
  /\ \A i \in 1..Len(r.stack) : r.stack[i].fd \in Inside

\* The daemon can open o in d, or could with all rights on the objects of E.
Enters(E, d, o) ==
  /\ d \in E \/ Searches("daemon", d)
  /\ o \in Dirs \cup Files
  /\ o \in E \/ Reads("daemon", o)

\* What it can reach so.
From(E) == {o \in {Root} \cap Dirs : Enters(E, Parent, o)}

Onward(E) == [d \in Dirs |-> {o \in Children(d) : Enters(E, d, o)}]

Excused(E) == Reachable(From(E), Onward(E))

\* What AccessKept excepts.
Excepted == UNION {Under(d) : d \in {x \in Inside \cap Dirs : ~attr[x].grp}}

Early == {"check", "mkdirat", "openat", "chown"}

\* Between an Fchown and the Fchmod that follows it.
Spared(r) == IF r.pc \in {"chmod", "perm"} THEN {r.fd} ELSE {}

\* What the daemon could reach at first, it can reach again after the next chmod.
Keeps(r, had) ==
  had \subseteq IF r.pc \in Early THEN Excused({}) ELSE Excused(Spared(r)) \cup Excepted

Calm ==
  /\ DOMAIN since = Procs
  /\ \A p \in Procs : since[p].calm /\ fix[p].gid =>
       /\ Held(fix[p]) /\ Keeps(fix[p], since[p].had)
       /\ since[p].all => Whole(fix[p])

-----------------------------------------------------------------------------
(* What is below a directory, and what can be reached *)

LEMMA SomeDirs == IsFiniteSet(Dirs) /\ Dirs # {}
BY CubbyAssumption, Constants

LEMMA BelowClosed ==
  ASSUME NEW d \in Dirs
  PROVE  /\ d \in Below(d)
         /\ \A e \in Below(d), n \in Names : kids[e][n] \in Dirs => kids[e][n] \in Below(d)
<1> DEFINE next == [e \in Dirs |-> Dirs \cap Children(e)]
<1>1. {d} \subseteq Reachable({d}, next) /\ \A e \in Dirs \cap Reachable({d}, next) : next[e] \subseteq Reachable({d}, next)
  <2> HIDE DEF next
  <2> QED BY SomeDirs, ReachableClosed
<1>2. \A e \in Below(d) : e \in Dirs
  BY BelowEntries
<1> QED BY <1>1, <1>2 DEF Below, Children

LEMMA UnderClosed ==
  ASSUME NEW d \in Dirs
  PROVE  /\ d \in Under(d)
         /\ \A e \in Dirs \cap Under(d), n \in Names : kids[e][n] \in Dirs \cup Files => kids[e][n] \in Under(d)
<1>1. \A e \in Dirs \cap Under(d) : e \in Below(d)
  BY Constants DEF Under
<1> QED BY <1>1, BelowClosed DEF Under

\* Excused is closed under its steps.
ExcusedUp ==
  \A E : /\ Root \in Dirs /\ Enters(E, Parent, Root) => Root \in Excused(E)
         /\ \A d \in Dirs \cap Excused(E), n \in Names : Enters(E, d, kids[d][n]) => kids[d][n] \in Excused(E)

LEMMA ExcusedClosed == ExcusedUp
<1> SUFFICES ASSUME NEW E
             PROVE  /\ Root \in Dirs /\ Enters(E, Parent, Root) => Root \in Excused(E)
                    /\ \A d \in Dirs \cap Excused(E), n \in Names :
                         Enters(E, d, kids[d][n]) => kids[d][n] \in Excused(E)
  BY DEF ExcusedUp
<1>1. From(E) \subseteq Excused(E) /\ \A d \in Dirs \cap Excused(E) : Onward(E)[d] \subseteq Excused(E)
  BY SomeDirs, ReachableClosed DEF Excused
<1> QED BY <1>1 DEF From, Onward, Children

LEMMA ExcusedClosedNext == ExcusedUp'
BY ExcusedClosed, PTL

\* And in every set that is.
LEMMA ExcusedLeast ==
  ASSUME NEW E, NEW C, Root \in Dirs /\ Enters(E, Parent, Root) => Root \in C,
         \A d \in Dirs \cap C, n \in Names : Enters(E, d, kids[d][n]) => kids[d][n] \in C
  PROVE  Excused(E) \subseteq C
<1>1. From(E) \subseteq C /\ \A d \in Dirs \cap C : Onward(E)[d] \subseteq C
  BY DEF From, Onward, Children
<1> QED BY <1>1, SomeDirs, ReachableLeast DEF Excused

ReachIs == Reach = Excused({})

LEMMA ReachExcused == ReachIs
<1>1. From({}) = {o \in {Root} : Opens("daemon", Parent, o, TRUE)}
  BY DEF From, Enters, Opens
<1>2. Onward({}) = [d \in Dirs |-> {o \in Children(d) : Opens("daemon", d, o, FALSE)}]
  BY DEF Onward, Enters, Opens
<1> QED BY <1>1, <1>2 DEF Reach, Excused, ReachIs

LEMMA ReachExcusedNext == ReachIs'
BY ReachExcused, PTL

\* Excepted is closed as well.
ExceptedUp ==
  /\ \A x \in Inside \cap Dirs : ~attr[x].grp => x \in Excepted
  /\ \A d \in Dirs \cap Excepted, n \in Names : kids[d][n] \in Dirs \cup Files => kids[d][n] \in Excepted

LEMMA ExceptedClosed == ExceptedUp
<1>1. ASSUME NEW x \in Inside \cap Dirs, ~attr[x].grp PROVE x \in Excepted
  <2>1. x \in Under(x)
    BY UnderClosed
  <2> QED BY <1>1, <2>1 DEF Excepted
<1>2. ASSUME NEW d \in Dirs \cap Excepted, NEW n \in Names, kids[d][n] \in Dirs \cup Files
      PROVE  kids[d][n] \in Excepted
  <2>1. PICK x \in Inside \cap Dirs : ~attr[x].grp /\ d \in Under(x)
    BY DEF Excepted
  <2>2. kids[d][n] \in Under(x)
    BY <1>2, <2>1, UnderClosed
  <2> QED BY <2>1, <2>2 DEF Excepted
<1> QED BY <1>1, <1>2 DEF ExceptedUp

LEMMA ExceptedClosedNext == ExceptedUp'
BY ExceptedClosed, PTL

\* While no entry changes, neither does what is below what.
LEMMA SameTree ==
  ASSUME UNCHANGED kids
  PROVE  /\ Root' = Root /\ Inside' = Inside
         /\ \A d : Children(d)' = Children(d) /\ Below(d)' = Below(d) /\ Under(d)' = Under(d)
<1>1. Root' = Root /\ \A d : Children(d)' = Children(d)
  BY DEF Root, Children
<1>2. ASSUME NEW d PROVE Below(d)' = Below(d)
  <2>1. [e \in Dirs |-> Dirs \cap Children(e)]' = [e \in Dirs |-> Dirs \cap Children(e)]
    BY <1>1
  <2> QED BY <2>1 DEF Below
<1>3. ASSUME NEW d PROVE Under(d)' = Under(d)
  BY <1>2 DEF Under
<1>4. Inside' = Inside
  <2>1. PICK d : d = Root
    OBVIOUS
  <2>2. Under(Root)' = Under(d)'
    BY <1>1, <2>1
  <2> QED BY <1>3, <2>1, <2>2 DEF Inside
<1> QED BY <1>1, <1>2, <1>3, <1>4

LEMMA SameExcepted ==
  ASSUME UNCHANGED kids, \A d \in Dirs : attr'[d].grp = attr[d].grp
  PROVE  Excepted' = Excepted
<1>1. Inside' = Inside /\ \A d : Under(d)' = Under(d)
  BY SameTree
<1> QED BY <1>1 DEF Excepted

\* What a step takes from the daemon, except for the objects of F, is excepted.
LEMMA ExcusedStep ==
  ASSUME Inv, Kept, UNCHANGED kids, NEW E, NEW F,
         \A o \in Dirs \cup Files : (o \in E \/ Reads("daemon", o)) =>
            o \in F \/ Reads("daemon", o)' \/ (o \in Inside \cap Dirs /\ ~attr'[o].grp),
         \A d \in Dirs : (d \in E \/ Searches("daemon", d)) =>
            d \in F \/ Searches("daemon", d)' \/ (d \in Inside /\ ~attr'[d].grp)
  PROVE  Excused(E) \subseteq Excused(F)' \cup Excepted'
<1>1. PICK R, X : R = Excused(F)' /\ X = Excepted'
  OBVIOUS
<1>2. Root' = Root /\ Inside' = Inside
  BY SameTree
<1>3. /\ Root \in Dirs /\ Enters(F, Parent, Root)' => Root \in R
      /\ \A d \in Dirs \cap R, n \in Names : Enters(F, d, kids[d][n])' => kids[d][n] \in R
  BY <1>1, <1>2, ExcusedClosedNext DEF ExcusedUp
<1>4. /\ \A x \in Inside \cap Dirs : ~attr'[x].grp => x \in X
      /\ \A d \in Dirs \cap X, n \in Names : kids[d][n] \in Dirs \cup Files => kids[d][n] \in X
  BY <1>1, <1>2, ExceptedClosedNext DEF ExceptedUp
<1>5. Parent \notin Inside
  BY InsideTheirs, AccessAssumption DEF Inv, Opened0
<1>6. Root \in Dirs /\ Enters(E, Parent, Root) => Root \in R \cup X
  BY <1>2, <1>3, <1>4, <1>5, Constants DEF Enters
<1>7. ASSUME NEW d \in Dirs \cap (R \cup X), NEW n \in Names, Enters(E, d, kids[d][n])
      PROVE  kids[d][n] \in R \cup X
  <2>1. PICK o \in Dirs \cup Files : o = kids[d][n]
    BY <1>7 DEF Enters
  <2>2. CASE d \in X \/ (d \in Inside /\ ~attr'[d].grp)
    BY <1>4, <2>1, <2>2
  <2>3. CASE o \in Inside \cap Dirs /\ ~attr'[o].grp
    BY <1>4, <2>1, <2>3
  <2>4. CASE d \in R /\ (d \in F \/ Searches("daemon", d)') /\ (o \in F \/ Reads("daemon", o)')
    BY <1>3, <2>1, <2>4 DEF Enters
  <2> QED BY <1>7, <2>1, <2>2, <2>3, <2>4 DEF Enters
<1>8. Excused(E) \subseteq R \cup X
  BY <1>6, <1>7, ExcusedLeast
<1> QED BY <1>1, <1>8

-----------------------------------------------------------------------------
(* What the steps of a repair leave it with *)

\* The record goes on at pc, and is otherwise the same.
GoesTo(r, q, pc) ==
  /\ q.pc = pc /\ q.op = r.op /\ q.gid = r.gid /\ q.rel = r.rel /\ q.fd = r.fd
  /\ q.deep = r.deep /\ q.stack = r.stack

LEMMA GotoFacts ==
  ASSUME Shared, NEW p \in Procs, NEW pc, Goto(p, pc)
  PROVE  GoesTo(fix[p], fix'[p], pc)
<1>1. fix \in [Procs -> Fix]
  BY DEF Shared, Repairers
<1>2. PICK r \in Fix : r = fix[p]
  BY <1>1
<1>3. fix'[p] = [r EXCEPT !.pc = pc]
  BY <1>1, <1>2 DEF Goto
<1> QED BY <1>2, <1>3 DEF GoesTo, Fix

\* Where After leads.
LEMMA AfterFacts ==
  ASSUME NEW r \in Fix
  PROVE  \/ r.rel # << >> /\ GoesTo(r, After(r), "path")
         \/ r.rel = << >> /\ r.deep /\ r.fd \in Dirs /\ GoesTo(r, After(r), "list")
         \/ r.rel = << >> /\ ~(r.deep /\ r.fd \in Dirs) /\ r.stack # << >> /\ GoesTo(r, After(r), "children")
         \/ r.rel = << >> /\ ~(r.deep /\ r.fd \in Dirs) /\ r.stack = << >> /\ After(r) = NoFix
<1> DEFINE q(pc) == [r EXCEPT !.pc = pc]
<1>1. ASSUME NEW pc PROVE GoesTo(r, q(pc), pc)
  BY DEF Fix, GoesTo
<1>2. CASE r.rel # << >>
  BY <1>1, <1>2 DEF After
<1>3. CASE r.rel = << >> /\ r.deep /\ r.fd \in Dirs
  BY <1>1, <1>3 DEF After
<1>4. CASE r.rel = << >> /\ ~(r.deep /\ r.fd \in Dirs) /\ r.stack # << >>
  BY <1>1, <1>4 DEF After
<1>5. CASE r.rel = << >> /\ ~(r.deep /\ r.fd \in Dirs) /\ r.stack = << >>
  BY <1>5 DEF After
<1> QED BY <1>2, <1>3, <1>4, <1>5

LEMMA NoFixFacts ==
  /\ NoFix.pc = "idle" /\ NoFix.stack = << >> /\ Len(NoFix.stack) = 0 /\ NoFix.fd = Nil
BY DEF NoFix

\* The cubby can be opened; an object can be opened in a directory.
Enterable(who) == Opens(who, Parent, Root, TRUE)

Openable(d, o) == Opens("daemon", d, o, FALSE)

LEMMA OpenCubbyFacts ==
  ASSUME Shared, NEW p \in Procs, OpenCubby(p), NEW r, NEW q, r = fix[p], q = fix'[p]
  PROVE  \/ /\ Enterable(Who(p))
            /\ q.pc = "chown" /\ q.op = r.op /\ q.gid = r.gid /\ q.rel = r.rel /\ q.fd = Root /\ q.stack = r.stack
         \/ ~Enterable(Who(p)) /\ q = NoFix
<1>1. fix \in [Procs -> Fix] /\ r \in Fix
  BY DEF Shared, Repairers
<1>2. CASE Enterable(Who(p))
  <2>1. q = [r EXCEPT !.pc = "chown", !.fd = Root]
    BY <1>1, <1>2 DEF OpenCubby, Enterable
  <2> QED BY <1>1, <1>2, <2>1 DEF Fix
<1>3. CASE ~Enterable(Who(p))
  BY <1>1, <1>3 DEF OpenCubby, Enterable
<1> QED BY <1>2, <1>3

LEMMA ChmodCubbyFacts ==
  ASSUME Shared, NEW p \in Procs, ChmodCubby(p), NEW r, NEW q, r = fix[p], q = fix'[p]
  PROVE  \/ r.op \in {"login", "mkdir"} /\ q = NoFix
         \/ /\ r.op \notin {"login", "mkdir"}
            /\ q.pc = "open" /\ q.op = r.op /\ q.gid = r.gid /\ q.rel = r.rel /\ q.fd = Nil /\ q.stack = r.stack
<1>1. fix \in [Procs -> Fix] /\ r \in Fix
  BY DEF Shared, Repairers
<1>2. CASE r.op \in {"login", "mkdir"}
  BY <1>1, <1>2 DEF ChmodCubby, End
<1>3. CASE r.op \notin {"login", "mkdir"}
  <2>1. q = [r EXCEPT !.pc = "open", !.fd = Nil]
    BY <1>1, <1>3 DEF ChmodCubby
  <2> QED BY <1>1, <1>3, <2>1 DEF Fix
<1> QED BY <1>2, <1>3

LEMMA OpenFacts ==
  ASSUME Shared, NEW p \in Procs, Open(p), NEW r, NEW q, r = fix[p], q = fix'[p]
  PROVE  \/ /\ Enterable("daemon")
            /\ q.pc = (IF r.rel = << >> THEN "fix" ELSE "path") /\ q.op = r.op /\ q.gid = r.gid /\ q.rel = r.rel
            /\ q.fd = Root /\ q.deep /\ q.stack = r.stack
         \/ ~Enterable("daemon") /\ q = NoFix
<1>1. fix \in [Procs -> Fix] /\ r \in Fix
  BY DEF Shared, Repairers
<1>2. CASE Enterable("daemon")
  <2>1. PICK pc : pc = IF r.rel = << >> THEN "fix" ELSE "path"
    OBVIOUS
  <2>2. q = [r EXCEPT !.fd = Root, !.deep = TRUE, !.pc = pc]
    BY <1>1, <1>2, <2>1 DEF Open, Enterable
  <2> QED BY <1>1, <1>2, <2>1, <2>2 DEF Fix
<1>3. CASE ~Enterable("daemon")
  BY <1>1, <1>3 DEF Open, Enterable
<1> QED BY <1>2, <1>3

LEMMA DescendFacts ==
  ASSUME Shared, NEW p \in Procs, Descend(p), NEW r, NEW q, r = fix[p], q = fix'[p]
  PROVE  \/ /\ r.fd \in Dirs /\ Head(r.rel) \in Names
            /\ Openable(r.fd, kids[r.fd][Head(r.rel)]) /\ q.fd = kids[r.fd][Head(r.rel)]
            /\ q.pc = "fix" /\ q.gid = r.gid /\ q.stack = r.stack
         \/ q = NoFix
<1>1. fix \in [Procs -> Fix] /\ r \in Fix /\ r.pc = "path" /\ Handy(r)
  BY DEF Shared, Repairers, Descend, At
<1>2. r.rel \in Seq(Names) /\ r.rel # << >>
  BY <1>1 DEF Fix, Handy
<1>3. PICK n \in Names : n = Head(r.rel)
  BY <1>2
<1>4. PICK T, o : T = Tail(r.rel) /\ o = Opened(r.fd, n, FALSE)
  OBVIOUS
<1>5. CASE r.fd \in Dirs /\ o # Nil
  <2>1. q = [r EXCEPT !.fd = o, !.rel = T, !.pc = "fix"]
    BY <1>1, <1>3, <1>4, <1>5 DEF Descend
  <2>2. q.fd = o /\ q.pc = "fix" /\ q.gid = r.gid /\ q.stack = r.stack
    BY <1>1, <2>1 DEF Fix
  <2>3. Openable(r.fd, kids[r.fd][n]) /\ o = kids[r.fd][n]
    BY <1>4, <1>5 DEF Opened, Openable
  <2> QED BY <1>3, <1>5, <2>2, <2>3
<1>6. CASE ~(r.fd \in Dirs /\ o # Nil)
  BY <1>1, <1>3, <1>4, <1>6 DEF Descend
<1> QED BY <1>5, <1>6

\* What List leaves.
ListsTo(r, q) ==
  /\ r.pc = "list" /\ r.fd \in Dirs /\ r.stack \in Seq(Frame)
  /\ q.pc = "children" /\ q.op = r.op /\ q.gid = r.gid /\ q.rel = r.rel /\ q.fd = r.fd
  /\ Len(q.stack) = Len(r.stack) + 1 /\ q.stack[1].fd = r.fd /\ q.stack[1].left = EntriesOf(r.fd)
  /\ \A i \in 1..Len(r.stack) : q.stack[i + 1] = r.stack[i]
  /\ \A i \in 1..Len(q.stack) : i = 1 \/ (i - 1 \in 1..Len(r.stack) /\ q.stack[i] = r.stack[i - 1])

LEMMA ListFacts ==
  ASSUME Shared, NEW p \in Procs, List(p), NEW r, NEW q, r = fix[p], q = fix'[p]
  PROVE  ListsTo(r, q)
<1>1. fix \in [Procs -> Fix] /\ r \in Fix /\ r.pc = "list" /\ Handy(r)
  BY DEF Shared, Repairers, List, At
<1>2. r.fd \in Dirs /\ r.stack \in Seq(Frame)
  BY <1>1 DEF Fix, Handy
<1>3. PICK F : F = [fd |-> r.fd, left |-> EntriesOf(r.fd)]
  OBVIOUS
<1>4. F.fd = r.fd /\ F.left = EntriesOf(r.fd)
  BY <1>3
<1>5. PICK S : S = <<F>> \o r.stack
  OBVIOUS
<1>6. q = [r EXCEPT !.pc = "children", !.stack = S]
  BY <1>1, <1>3, <1>5 DEF List
<1>7. q.pc = "children" /\ q.op = r.op /\ q.gid = r.gid /\ q.rel = r.rel /\ q.fd = r.fd /\ q.stack = S
  BY <1>1, <1>6 DEF Fix
<1>8. Len(r.stack) \in Nat /\ Len(S) = Len(r.stack) + 1 /\ S[1] = F /\ \A i \in 1..Len(r.stack) : S[i + 1] = r.stack[i]
  BY <1>2, <1>5
<1>9. \A i \in 1..Len(S) : i = 1 \/ (i - 1 \in 1..Len(r.stack) /\ S[i] = r.stack[i - 1])
  BY <1>8
<1> QED BY <1>1, <1>2, <1>4, <1>7, <1>8, <1>9 DEF ListsTo

\* What Up leaves.
UpTo(r, q) ==
  /\ r.pc = "children" /\ r.stack \in Seq(Frame) /\ Len(r.stack) \in Nat \ {0} /\ r.stack[1].left = {}
  /\ \/ Len(r.stack) = 1 /\ q = NoFix
     \/ /\ q.pc = "children" /\ q.op = r.op /\ q.gid = r.gid /\ q.rel = r.rel /\ q.fd = r.fd
        /\ Len(q.stack) = Len(r.stack) - 1 /\ \A i \in 1..Len(q.stack) : q.stack[i] = r.stack[i + 1]

LEMMA UpFacts ==
  ASSUME Shared, NEW p \in Procs, Up(p), NEW r, NEW q, r = fix[p], q = fix'[p]
  PROVE  UpTo(r, q)
<1>1. fix \in [Procs -> Fix] /\ r \in Fix /\ r.pc = "children" /\ Handy(r)
  BY DEF Shared, Repairers, Up, At
<1>2. r.stack \in Seq(Frame) /\ r.stack # << >>
  BY <1>1 DEF Fix, Handy
<1>3. Len(r.stack) \in Nat \ {0} /\ r.stack[1].left = {}
  BY <1>2 DEF Up
<1>4. PICK T : T = Tail(r.stack)
  OBVIOUS
<1>5. T \in Seq(Frame) /\ Len(T) = Len(r.stack) - 1 /\ \A i \in 1..Len(T) : T[i] = r.stack[i + 1]
  BY <1>2, <1>3, <1>4
<1>6. CASE T = << >>
  <2>1. Len(r.stack) = 1
    BY <1>3, <1>5, <1>6
  <2> QED BY <1>1, <1>2, <1>3, <1>4, <1>6, <2>1 DEF Up, UpTo
<1>7. CASE T # << >>
  <2>1. q = [r EXCEPT !.stack = T]
    BY <1>1, <1>4, <1>7 DEF Up
  <2>2. q.pc = "children" /\ q.op = r.op /\ q.gid = r.gid /\ q.rel = r.rel /\ q.fd = r.fd /\ q.stack = T
    BY <1>1, <2>1 DEF Fix
  <2> QED BY <1>1, <1>2, <1>3, <1>5, <2>2 DEF UpTo
<1> QED BY <1>6, <1>7

\* What Visit leaves.
VisitsTo(r, q, e) ==
  /\ r.pc = "children" /\ r.stack \in Seq(Frame) /\ Len(r.stack) \in Nat \ {0} /\ e \in r.stack[1].left
  /\ q.op = r.op /\ q.gid = r.gid /\ q.rel = r.rel
  /\ Len(q.stack) = Len(r.stack) /\ q.stack[1].fd = r.stack[1].fd /\ q.stack[1].left = r.stack[1].left \ {e}
  /\ \A i \in 1..Len(r.stack) : i # 1 => q.stack[i] = r.stack[i]
  /\ \/ ~Opens("daemon", r.stack[1].fd, kids[r.stack[1].fd][e.name], e.dir) /\ q.pc = "children" /\ q.fd = r.fd
     \/ /\ Opens("daemon", r.stack[1].fd, kids[r.stack[1].fd][e.name], e.dir)
        /\ q.pc = "fix" /\ q.fd = kids[r.stack[1].fd][e.name] /\ q.deep = e.dir

LEMMA VisitFacts ==
  ASSUME Shared, NEW p \in Procs, NEW e \in Found, Visit(p, e), NEW r, NEW q, r = fix[p], q = fix'[p]
  PROVE  VisitsTo(r, q, e)
<1>1. fix \in [Procs -> Fix] /\ r \in Fix /\ r.pc = "children" /\ Handy(r)
  BY DEF Shared, Repairers, Visit, At
<1>2. r.stack \in Seq(Frame) /\ r.stack # << >>
  BY <1>1 DEF Fix, Handy
<1>3. Len(r.stack) \in Nat \ {0} /\ 1 \in 1..Len(r.stack)
  BY <1>2
<1>4. PICK top \in Frame : top = Head(r.stack) /\ top = r.stack[1]
  BY <1>2, <1>3
<1>5. PICK o : o = Opened(top.fd, e.name, e.dir)
  OBVIOUS
<1>6. PICK pc, fd, F : /\ pc = (IF o = Nil THEN "children" ELSE "fix") /\ fd = (IF o = Nil THEN r.fd ELSE o)
                       /\ F = [top EXCEPT !.left = top.left \ {e}]
  OBVIOUS
<1>7. F.fd = top.fd /\ F.left = top.left \ {e}
  BY <1>6 DEF Frame
<1>8. PICK S : S = [r.stack EXCEPT ![1] = F]
  OBVIOUS
<1>9. Len(S) = Len(r.stack) /\ S[1] = F /\ \A i \in 1..Len(r.stack) : i # 1 => S[i] = r.stack[i]
  BY <1>2, <1>3, <1>8
<1>10. q = [r EXCEPT !.stack = S, !.pc = pc, !.fd = fd, !.deep = e.dir]
  <2>1. fix' = [fix EXCEPT ![p].stack[1].left = top.left \ {e},
                           ![p].pc = pc, ![p].fd = fd, ![p].deep = e.dir]
    BY <1>1, <1>4, <1>5, <1>6 DEF Visit, LeftAfter
  <2> QED BY <1>1, <1>4, <1>6, <1>8, <2>1
<1>11. q.op = r.op /\ q.gid = r.gid /\ q.rel = r.rel /\ q.stack = S /\ q.pc = pc /\ q.fd = fd /\ q.deep = e.dir
  BY <1>1, <1>10 DEF Fix
<1>12. e \in top.left
  BY <1>4 DEF Visit
<1>13. Nil \notin Dirs \cup Files
  BY TreeAssumption DEF Objects
<1>14. \/ ~Opens("daemon", top.fd, kids[top.fd][e.name], e.dir) /\ pc = "children" /\ fd = r.fd
       \/ Opens("daemon", top.fd, kids[top.fd][e.name], e.dir) /\ pc = "fix" /\ fd = kids[top.fd][e.name]
  BY <1>5, <1>6, <1>13 DEF Opened, Opens
<1> QED BY <1>1, <1>2, <1>3, <1>4, <1>7, <1>9, <1>11, <1>12, <1>14 DEF VisitsTo

-----------------------------------------------------------------------------
(* The daemon keeps its access *)

LEMMA SameRights ==
  ASSUME NEW o, attr'[o] = attr[o]
  PROVE  /\ Reads("daemon", o)' = Reads("daemon", o)
         /\ Searches("daemon", o)' = Searches("daemon", o)
BY DEF Reads, Searches, Allowed

\* Access after a change of the attributes of x alone.
LEMMA OneChanged ==
  ASSUME Inv, Kept, UNCHANGED kids, NEW x, \A o \in Objects \ {x} : attr'[o] = attr[o],
         NEW E, NEW F, E \subseteq {x},
         \/ x \in F
         \/ x \in Inside \cap Dirs /\ ~attr'[x].grp
         \/ Reads("daemon", x)' /\ (x \in Dirs => Searches("daemon", x)')
  PROVE  Excused(E) \subseteq Excused(F)' \cup Excepted'
<1>1. ASSUME NEW o \in Dirs \cup Files, o \in E \/ Reads("daemon", o)
      PROVE  o \in F \/ Reads("daemon", o)' \/ (o \in Inside \cap Dirs /\ ~attr'[o].grp)
  <2>1. CASE o = x
    BY <2>1
  <2>2. CASE o # x
    <3>1. attr'[o] = attr[o]
      BY <2>2 DEF Objects
    <3> QED BY <1>1, <2>2, <3>1, SameRights
  <2> QED BY <2>1, <2>2
<1>2. ASSUME NEW d \in Dirs, d \in E \/ Searches("daemon", d)
      PROVE  d \in F \/ Searches("daemon", d)' \/ (d \in Inside /\ ~attr'[d].grp)
  <2>1. CASE d = x
    BY <2>1
  <2>2. CASE d # x
    <3>1. attr'[d] = attr[d]
      BY <2>2 DEF Objects
    <3> QED BY <1>2, <2>2, <3>1, SameRights
  <2> QED BY <2>1, <2>2
<1> QED BY <1>1, <1>2, ExcusedStep

\* A step of a repair that changes neither entries nor attributes.
LEMMA QuietKeeps ==
  ASSUME UNCHANGED <<kids, attr>>, NEW r, NEW q, NEW had, Inv, Keeps(r, had), Spared(r) = {},
         q.pc \in Early => r.pc \in Early
  PROVE  Keeps(q, had)' /\ Excepted' = Excepted
<1>1. Kept
  BY DEF Kept
<1>2. ASSUME NEW F PROVE Excused({}) \subseteq Excused(F)' \cup Excepted'
  <2>1. /\ \A o \in Dirs \cup Files : Reads("daemon", o)' = Reads("daemon", o)
        /\ \A d \in Dirs : Searches("daemon", d)' = Searches("daemon", d)
    BY SameRights
  <2> QED BY <1>1, <2>1, ExcusedStep
<1>3. Excepted' = Excepted
  BY SameExcepted
<1>4. Excused({})' = Excused({})
  <2>1. Root' = Root /\ \A d : Children(d)' = Children(d)
    BY SameTree
  <2>2. \A d, o : Enters({}, d, o)' = Enters({}, d, o)
    BY SameRights DEF Enters
  <2>3. From({})' = From({})
    BY <2>1, <2>2 DEF From
  <2>4. Onward({})' = Onward({})
    BY <2>1, <2>2 DEF Onward
  <2> QED BY <2>3, <2>4 DEF Excused
<1>5. CASE q.pc \in Early
  BY <1>3, <1>4, <1>5 DEF Keeps
<1>6. CASE q.pc \notin Early
  <2>1. had \subseteq Excused({}) \cup Excepted
    BY DEF Keeps
  <2>2. PICK F : F = Spared(q)
    OBVIOUS
  <2>3. had \subseteq Excused(F)' \cup Excepted'
    BY <1>2, <1>3, <2>1
  <2> QED BY <1>3, <1>6, <2>2, <2>3 DEF Keeps, Spared
<1> QED BY <1>3, <1>5, <1>6

LEMMA HeldSame ==
  ASSUME UNCHANGED kids, NEW q, q.pc \in Holding => q.fd \in Inside,
         q.pc \in {"chown", "chmod"} => q.fd \in Dirs,
         q.pc = "perm" => q.fd \notin Dirs /\ attr'[q.fd].grp,
         \A i \in 1..Len(q.stack) : q.stack[i].fd \in Inside
  PROVE  Held(q)'
<1>1. Inside' = Inside
  BY SameTree
<1> QED BY <1>1 DEF Held

LEMMA NoFixHeld == UNCHANGED kids => Held(NoFix)'
<1>1. NoFix.pc \notin Holding /\ NoFix.pc # "perm" /\ NoFix.pc \notin {"chown", "chmod"}
  BY NoFixFacts DEF Holding
<1> QED BY <1>1, NoFixFacts, HeldSame

\* What an openat in the cubby finds is in the cubby.
LEMMA InsideDown ==
  ASSUME NEW d \in Dirs \cap Inside, NEW n \in Names, NEW who, NEW dir, Opens(who, d, kids[d][n], dir)
  PROVE  kids[d][n] \in Inside
<1>1. Root \in Dirs
  BY DEF Inside, Under
<1>2. kids[d][n] \in Dirs \cup Files
  BY DEF Opens
<1> QED BY <1>1, <1>2, UnderClosed DEF Inside

LEMMA RootInside ==
  ASSUME Root \in Dirs
  PROVE  Root \in Inside
BY UnderClosed DEF Inside

\* The repair keeps what it has open in the cubby, and the daemon its access.
StillKeeps(p, had) == Held(fix[p])' /\ Keeps(fix[p], had)' /\ (fix'[p].pc = "idle" => Excepted' = Excepted)

LEMMA QuietStill ==
  ASSUME UNCHANGED <<kids, attr>>, Inv, NEW p \in Procs, NEW had, Keeps(fix[p], had),
         fix[p].pc \notin {"chmod", "perm"},
         fix'[p].pc \in Early => fix[p].pc \in Early, Held(fix[p])'
  PROVE  StillKeeps(p, had)
<1>1. PICK r, q : r = fix[p] /\ q = fix'[p]
  OBVIOUS
<1>2. Spared(r) = {}
  BY <1>1 DEF Spared
<1>3. Keeps(q, had)' /\ Excepted' = Excepted
  BY <1>1, <1>2, QuietKeeps
<1> QED BY <1>1, <1>3 DEF StillKeeps

LEMMA InvShared == Inv => Shared
BY DEF Inv, Shared

LEMMA CheckKeeps ==
  ASSUME Inv, NEW p \in Procs, Check(p), Held(fix[p]), NEW had, Keeps(fix[p], had)
  PROVE  StillKeeps(p, had)
<1>1. fix[p].pc = "check" /\ UNCHANGED <<kids, attr>>
  BY DEF Check, At
<1>2. PICK q : q = fix'[p]
  OBVIOUS
<1>3. CASE Goto(p, "mkdirat")
  <2>1. GoesTo(fix[p], q, "mkdirat")
    BY <1>2, <1>3, InvShared, GotoFacts
  <2>2. Held(q)'
    BY <1>1, <2>1, HeldSame DEF GoesTo, Held, Holding
  <2> QED BY <1>1, <1>2, <2>1, <2>2, QuietStill DEF GoesTo, Early
<1>4. CASE End(p)
  <2>1. q = NoFix
    BY <1>2, <1>4 DEF End, Inv, Repairers
  <2> QED BY <1>1, <1>2, <2>1, NoFixHeld, NoFixFacts, QuietStill DEF Early
<1> QED BY <1>3, <1>4 DEF Check

LEMMA MkdiratKeeps ==
  ASSUME Inv, NEW p \in Procs, NEW d \in Dirs, Mkdirat(p, d), Held(fix[p]), NEW had, Keeps(fix[p], had)
  PROVE  StillKeeps(p, had)
<1>1. fix[p].pc = "mkdirat" /\ Goto(p, "openat")
  BY DEF Mkdirat, At
<1>2. PICK q : q = fix'[p]
  OBVIOUS
<1>3. GoesTo(fix[p], q, "openat")
  BY <1>1, <1>2, InvShared, GotoFacts
<1>4. CASE Root # Nil
  <2>1. UNCHANGED <<kids, attr>>
    BY <1>4 DEF Mkdirat
  <2>2. Held(q)'
    BY <2>1, <1>3, HeldSame DEF GoesTo, Held, Holding
  <2> QED BY <1>1, <1>2, <1>3, <2>1, <2>2, QuietStill DEF GoesTo, Early
<1>5. CASE Root = Nil
  <2>1. Root \notin Dirs
    BY <1>5, TreeAssumption DEF Objects
  <2>2. Inside = {}
    BY <2>1 DEF Inside, Under
  <2>3. Excused({}) \subseteq {}
    BY <2>1, ExcusedLeast
  <2>4. had = {}
    BY <1>1, <2>3 DEF Keeps, Early
  <2>5. Held(q)'
    BY <1>3, <2>2 DEF GoesTo, Held, Holding
  <2> QED BY <1>2, <1>3, <2>4, <2>5 DEF GoesTo, StillKeeps, Keeps
<1> QED BY <1>4, <1>5

LEMMA OpenCubbyKeeps ==
  ASSUME Inv, NEW p \in Procs, OpenCubby(p), Held(fix[p]), NEW had, Keeps(fix[p], had)
  PROVE  StillKeeps(p, had)
<1>1. fix[p].pc = "openat" /\ UNCHANGED <<kids, attr>>
  BY DEF OpenCubby, At
<1>2. PICK r, q : r = fix[p] /\ q = fix'[p]
  OBVIOUS
<1>3. CASE /\ Enterable(Who(p))
           /\ q.pc = "chown" /\ q.op = r.op /\ q.gid = r.gid /\ q.rel = r.rel /\ q.fd = Root /\ q.stack = r.stack
  <2>1. Root \in Dirs /\ Root \in Inside
    BY <1>3, RootInside DEF Opens, Enterable
  <2>2. Held(q)'
    BY <1>1, <1>2, <1>3, <2>1, HeldSame DEF Held
  <2> QED BY <1>1, <1>2, <1>3, <2>2, QuietStill DEF Early
<1>4. CASE q = NoFix
  BY <1>1, <1>2, <1>4, NoFixHeld, NoFixFacts, QuietStill DEF Early
<1>5. \/ /\ Enterable(Who(p))
         /\ q.pc = "chown" /\ q.op = r.op /\ q.gid = r.gid /\ q.rel = r.rel /\ q.fd = Root /\ q.stack = r.stack
      \/ ~Enterable(Who(p)) /\ q = NoFix
  BY <1>2, InvShared, OpenCubbyFacts
<1> QED BY <1>3, <1>4, <1>5

LEMMA ChownKeeps ==
  ASSUME Inv, Kept, NEW p \in Procs, ChownCubby(p), Held(fix[p]), NEW had, Keeps(fix[p], had)
  PROVE  StillKeeps(p, had)
<1>1. fix[p].pc = "chown" /\ UNCHANGED kids /\ Goto(p, "chmod")
  BY DEF ChownCubby, At
<1>2. PICK r, q : r = fix[p] /\ q = fix'[p]
  OBVIOUS
<1>3. GoesTo(r, q, "chmod")
  BY <1>1, <1>2, InvShared, GotoFacts
<1>4. PICK x : x = r.fd
  OBVIOUS
<1>5. \A o \in Objects \ {x} : attr'[o] = attr[o]
  BY <1>2, <1>4 DEF ChownCubby, Inv, Attributes
<1>6. Excused({}) \subseteq Excused({x})' \cup Excepted'
  BY <1>1, <1>5, OneChanged
<1>7. had \subseteq Excused({})
  BY <1>1 DEF Keeps, Early
<1>8. Keeps(q, had)'
  BY <1>3, <1>4, <1>6, <1>7 DEF Keeps, Early, Spared, GoesTo
<1>9. Held(q)'
  BY <1>1, <1>2, <1>3, HeldSame DEF GoesTo, Held, Holding
<1> QED BY <1>2, <1>3, <1>8, <1>9 DEF StillKeeps, GoesTo

LEMMA ChownFailsKeeps ==
  ASSUME Inv, NEW p \in Procs, ChownFails(p), Held(fix[p]), NEW had, Keeps(fix[p], had)
  PROVE  StillKeeps(p, had)
<1>1. fix[p].pc = "chown" /\ UNCHANGED <<kids, attr>> /\ Goto(p, "chmod")
  BY DEF ChownFails, At
<1>2. PICK r, q : r = fix[p] /\ q = fix'[p]
  OBVIOUS
<1>3. GoesTo(r, q, "chmod")
  BY <1>1, <1>2, InvShared, GotoFacts
<1>4. Held(q)'
  BY <1>1, <1>2, <1>3, HeldSame DEF GoesTo, Held, Holding
<1> QED BY <1>1, <1>2, <1>3, <1>4, QuietStill DEF GoesTo, Early

\* A directory of group bootstash, or of the daemon, that has the cubby's mode.
LEMMA ModeRights ==
  ASSUME NEW x, attr'[x].mode = CubbyMode, attr'[x].grp
  PROVE  Reads("daemon", x)' /\ Searches("daemon", x)'
BY DEF Reads, Searches, Allowed, CubbyMode, Mode0770

\* A chmod changes the mode of one object.
LEMMA ModeOnly ==
  ASSUME Attributes, NEW x \in Objects, NEW m, attr' = [attr EXCEPT ![x].mode = m]
  PROVE  /\ \A o \in Objects \ {x} : attr'[o] = attr[o]
         /\ attr'[x].mode = m /\ attr'[x].grp = attr[x].grp /\ attr'[x].own = attr[x].own
         /\ \A o \in Objects : attr'[o].grp = attr[o].grp
<1>1. attr \in [Objects -> Attr] /\ attr[x] \in Attr
  BY DEF Attributes
<1>2. \A o \in Objects \ {x} : attr'[o] = attr[o]
  BY <1>1
<1>3. attr'[x] = [attr[x] EXCEPT !.mode = m]
  BY <1>1
<1>4. attr'[x].mode = m /\ attr'[x].grp = attr[x].grp /\ attr'[x].own = attr[x].own
  BY <1>1, <1>3 DEF Attr
<1> QED BY <1>2, <1>4

\* The mode of a directory in the cubby becomes the cubby's.
LEMMA DirKeeps ==
  ASSUME Inv, Kept, UNCHANGED kids, NEW x \in Dirs \cap Inside, attr' = [attr EXCEPT ![x].mode = CubbyMode],
         NEW E, E \subseteq {x}
  PROVE  Excused(E) \subseteq Excused({})' \cup Excepted' /\ Excepted' = Excepted
<1>1. x \in Objects /\ Attributes
  BY DEF Objects, Inv
<1>2. /\ \A o \in Objects \ {x} : attr'[o] = attr[o]
      /\ attr'[x].mode = CubbyMode /\ \A o \in Objects : attr'[o].grp = attr[o].grp
  BY <1>1, ModeOnly
<1>3. ~attr'[x].grp \/ (Reads("daemon", x)' /\ Searches("daemon", x)')
  BY <1>2, ModeRights
<1>4. Excused(E) \subseteq Excused({})' \cup Excepted'
  BY <1>2, <1>3, OneChanged
<1>5. Excepted' = Excepted
  BY <1>2, SameExcepted DEF Objects
<1> QED BY <1>4, <1>5

LEMMA ChmodCubbyKeeps ==
  ASSUME Inv, Kept, NEW p \in Procs, ChmodCubby(p), Held(fix[p]), NEW had, Keeps(fix[p], had)
  PROVE  StillKeeps(p, had)
<1>1. PICK r, q : r = fix[p] /\ q = fix'[p]
  OBVIOUS
<1>2. r.pc = "chmod" /\ UNCHANGED kids /\ attr' = [attr EXCEPT ![r.fd].mode = CubbyMode]
  BY <1>1 DEF ChmodCubby, At
<1>3. PICK x \in Dirs \cap Inside : x = r.fd
  BY <1>1, <1>2 DEF Held, Holding
<1>4. Excused({x}) \subseteq Excused({})' \cup Excepted' /\ Excepted' = Excepted
  BY <1>2, <1>3, DirKeeps
<1>5. had \subseteq Excused({x}) \cup Excepted
  BY <1>1, <1>2, <1>3 DEF Keeps, Early, Spared
<1>6. q = NoFix \/ (q.pc = "open" /\ q.stack = r.stack)
  BY <1>1, InvShared, ChmodCubbyFacts
<1>7. q.pc \notin Early /\ Spared(q) = {}
  BY <1>6, NoFixFacts DEF Early, Spared
<1>8. Keeps(q, had)'
  BY <1>4, <1>5, <1>7 DEF Keeps, Spared
<1>9. Held(q)'
  <2>1. CASE q = NoFix
    BY <1>2, <2>1, NoFixHeld
  <2>2. CASE q.pc = "open" /\ q.stack = r.stack
    BY <1>1, <1>2, <2>2, HeldSame DEF Held, Holding
  <2> QED BY <1>6, <2>1, <2>2
<1> QED BY <1>1, <1>4, <1>8, <1>9 DEF StillKeeps

LEMMA OpenKeeps ==
  ASSUME Inv, NEW p \in Procs, Open(p), Held(fix[p]), NEW had, Keeps(fix[p], had)
  PROVE  StillKeeps(p, had)
<1>1. fix[p].pc = "open" /\ UNCHANGED <<kids, attr>>
  BY DEF Open, At
<1>2. PICK r, q : r = fix[p] /\ q = fix'[p]
  OBVIOUS
<1>3. \/ Enterable("daemon") /\ q.pc \in {"fix", "path"} /\ q.fd = Root /\ q.stack = r.stack
      \/ q = NoFix
  <2>1. \/ /\ Enterable("daemon")
           /\ q.pc = (IF r.rel = << >> THEN "fix" ELSE "path") /\ q.fd = Root /\ q.stack = r.stack
        \/ q = NoFix
    BY <1>2, InvShared, OpenFacts
  <2> QED BY <2>1
<1>4. CASE Enterable("daemon") /\ q.pc \in {"fix", "path"} /\ q.fd = Root /\ q.stack = r.stack
  <2>1. Root \in Dirs /\ Root \in Inside
    BY <1>4, RootInside DEF Opens, Enterable
  <2>2. Held(q)'
    BY <1>1, <1>2, <1>4, <2>1, HeldSame DEF Held
  <2> QED BY <1>1, <1>2, <1>4, <2>2, QuietStill DEF Early
<1>5. CASE q = NoFix
  BY <1>1, <1>2, <1>5, NoFixHeld, NoFixFacts, QuietStill DEF Early
<1> QED BY <1>3, <1>4, <1>5

LEMMA DescendKeeps ==
  ASSUME Inv, NEW p \in Procs, Descend(p), Held(fix[p]), NEW had, Keeps(fix[p], had)
  PROVE  StillKeeps(p, had)
<1>1. fix[p].pc = "path" /\ UNCHANGED <<kids, attr>>
  BY DEF Descend, At
<1>2. PICK r, q : r = fix[p] /\ q = fix'[p]
  OBVIOUS
<1>3. PICK n : n = Head(r.rel)
  OBVIOUS
<1>4. \/ /\ r.fd \in Dirs /\ n \in Names /\ Openable(r.fd, kids[r.fd][n])
         /\ q.fd = kids[r.fd][n] /\ q.pc = "fix" /\ q.stack = r.stack
      \/ q = NoFix
  BY <1>2, <1>3, InvShared, DescendFacts
<1>5. CASE /\ r.fd \in Dirs /\ n \in Names /\ Openable(r.fd, kids[r.fd][n])
           /\ q.fd = kids[r.fd][n] /\ q.pc = "fix" /\ q.stack = r.stack
  <2>1. PICK d \in Dirs \cap Inside : d = r.fd
    BY <1>1, <1>2, <1>5 DEF Held, Holding
  <2>2. Opens("daemon", d, kids[d][n], FALSE)
    BY <1>5, <2>1 DEF Openable
  <2>3. q.fd \in Inside
    BY <1>5, <2>1, <2>2, InsideDown
  <2>4. Held(q)'
    BY <1>1, <1>2, <1>5, <2>3, HeldSame DEF Held
  <2> QED BY <1>1, <1>2, <1>5, <2>4, QuietStill DEF Early
<1>6. CASE q = NoFix
  BY <1>1, <1>2, <1>6, NoFixHeld, NoFixFacts, QuietStill DEF Early
<1> QED BY <1>4, <1>5, <1>6

LEMMA ListKeeps ==
  ASSUME Inv, NEW p \in Procs, List(p), Held(fix[p]), NEW had, Keeps(fix[p], had)
  PROVE  StillKeeps(p, had)
<1>1. fix[p].pc = "list" /\ UNCHANGED <<kids, attr>>
  BY DEF List, At
<1>2. PICK r, q : r = fix[p] /\ q = fix'[p]
  OBVIOUS
<1>3. /\ q.pc = "children" /\ q.fd = r.fd /\ q.stack[1].fd = r.fd
      /\ \A i \in 1..Len(q.stack) : i = 1 \/ (i - 1 \in 1..Len(r.stack) /\ q.stack[i] = r.stack[i - 1])
  <2>1. ListsTo(r, q)
    BY <1>2, InvShared, ListFacts
  <2> QED BY <1>2, <2>1 DEF ListsTo
<1>4. r.fd \in Inside
  BY <1>1, <1>2 DEF Held, Holding
<1>5. \A i \in 1..Len(q.stack) : q.stack[i].fd \in Inside
  BY <1>2, <1>3, <1>4 DEF Held
<1>6. Held(q)'
  BY <1>1, <1>3, <1>4, <1>5, HeldSame
<1> QED BY <1>1, <1>2, <1>3, <1>6, QuietStill DEF Early

LEMMA UpKeeps ==
  ASSUME Inv, NEW p \in Procs, Up(p), Held(fix[p]), NEW had, Keeps(fix[p], had)
  PROVE  StillKeeps(p, had)
<1>1. fix[p].pc = "children" /\ UNCHANGED <<kids, attr>>
  BY DEF Up, At
<1>2. PICK r, q : r = fix[p] /\ q = fix'[p]
  OBVIOUS
<1>3. /\ Len(r.stack) \in Nat \ {0}
      /\ \/ q = NoFix
         \/ /\ q.pc = "children" /\ q.fd = r.fd /\ Len(q.stack) = Len(r.stack) - 1
            /\ \A i \in 1..Len(q.stack) : q.stack[i] = r.stack[i + 1]
  <2>1. UpTo(r, q)
    BY <1>2, InvShared, UpFacts
  <2> QED BY <1>2, <2>1 DEF UpTo
<1>4. CASE q = NoFix
  BY <1>1, <1>2, <1>4, NoFixHeld, NoFixFacts, QuietStill DEF Early
<1>5. CASE /\ q.pc = "children" /\ q.fd = r.fd /\ Len(q.stack) = Len(r.stack) - 1
           /\ \A i \in 1..Len(q.stack) : q.stack[i] = r.stack[i + 1]
  <2>1. r.fd \in Inside
    BY <1>1, <1>2 DEF Held, Holding
  <2>2. \A i \in 1..Len(q.stack) : q.stack[i].fd \in Inside
    <3>1. \A i \in 1..Len(q.stack) : i + 1 \in 1..Len(r.stack)
      BY <1>3, <1>5
    <3> QED BY <1>2, <1>5, <3>1 DEF Held
  <2>3. Held(q)'
    BY <1>1, <1>5, <2>1, <2>2, HeldSame
  <2> QED BY <1>1, <1>2, <1>5, <2>3, QuietStill DEF Early
<1> QED BY <1>3, <1>4, <1>5

LEMMA VisitKeeps ==
  ASSUME Inv, NEW p \in Procs, NEW e \in Found, Visit(p, e), Held(fix[p]), NEW had, Keeps(fix[p], had)
  PROVE  StillKeeps(p, had)
<1>1. fix[p].pc = "children" /\ UNCHANGED <<kids, attr>>
  BY DEF Visit, At
<1>2. PICK r, q, d : r = fix[p] /\ q = fix'[p] /\ d = r.stack[1].fd
  OBVIOUS
<1>3. /\ r.stack \in Seq(Frame) /\ Len(r.stack) \in Nat \ {0} /\ Len(q.stack) = Len(r.stack) /\ q.stack[1].fd = d
      /\ \A i \in 1..Len(r.stack) : i # 1 => q.stack[i] = r.stack[i]
      /\ \/ q.pc = "children" /\ q.fd = r.fd
         \/ Opens("daemon", d, kids[d][e.name], e.dir) /\ q.pc = "fix" /\ q.fd = kids[d][e.name]
  <2>1. VisitsTo(r, q, e)
    BY <1>2, InvShared, VisitFacts
  <2> QED BY <1>2, <2>1 DEF VisitsTo
<1>4. d \in Inside \cap Dirs
  <2>1. 1 \in 1..Len(r.stack)
    BY <1>3
  <2>2. r.stack[1] \in Frame
    BY <1>3, <2>1
  <2> QED BY <1>2, <2>1, <2>2 DEF Held, Frame
<1>5. \A i \in 1..Len(q.stack) : q.stack[i].fd \in Inside
  BY <1>2, <1>3, <1>4 DEF Held
<1>6. q.fd \in Inside
  <2>1. r.fd \in Inside
    BY <1>1, <1>2 DEF Held, Holding
  <2>2. e.name \in Names
    BY DEF Found
  <2> QED BY <1>3, <1>4, <2>1, <2>2, InsideDown
<1>7. Held(q)'
  BY <1>1, <1>3, <1>5, <1>6, HeldSame
<1> QED BY <1>1, <1>2, <1>3, <1>7, QuietStill DEF Early

\* Where After leads, nothing new is open.
LEMMA AfterHeld ==
  ASSUME UNCHANGED kids, NEW r \in Fix, Held(r), r.pc \in Holding, NEW q, q = After(r)
  PROVE  /\ Held(q)' /\ q.pc \notin Early /\ Spared(q) = {}
<1>1. q = NoFix \/ GoesTo(r, q, "path") \/ GoesTo(r, q, "list") \/ GoesTo(r, q, "children")
  BY AfterFacts
<1>2. CASE q = NoFix
  BY <1>2, NoFixHeld, NoFixFacts DEF Early, Spared
<1>3. ASSUME NEW pc \in {"path", "list", "children"}, GoesTo(r, q, pc)
      PROVE  Held(q)' /\ q.pc \notin Early /\ Spared(q) = {}
  <2>1. Held(q)'
    BY <1>3, HeldSame DEF Held, GoesTo
  <2> QED BY <1>3, <2>1 DEF GoesTo, Early, Spared
<1> QED BY <1>1, <1>2, <1>3

LEMMA FixFDKeeps ==
  ASSUME Inv, Kept, NEW p \in Procs, FixFD(p), fix[p].gid, Held(fix[p]), NEW had, Keeps(fix[p], had)
  PROVE  StillKeeps(p, had)
<1>1. PICK r \in Fix : r = fix[p]
  BY DEF Inv, Repairers
<1>2. PICK q : q = fix'[p]
  OBVIOUS
<1>3. r.pc = "fix" /\ r.pc \in Holding /\ UNCHANGED kids /\ r.fd \in Inside
  BY <1>1 DEF FixFD, At, Holding, Held
<1>4. had \subseteq Excused({}) \cup Excepted
  BY <1>1, <1>3 DEF Keeps, Early, Spared
<1>5. CASE r.fd \in Dirs
  <2>1. attr' = [attr EXCEPT ![r.fd].mode = CubbyMode] /\ q = After(r)
    BY <1>1, <1>2, <1>5 DEF FixFD, Inv, Repairers
  <2>2. Excused({}) \subseteq Excused({})' \cup Excepted' /\ Excepted' = Excepted
    <3>1. PICK x \in Dirs \cap Inside : x = r.fd
      BY <1>3, <1>5
    <3> QED BY <1>3, <2>1, <3>1, DirKeeps
  <2>3. Held(q)' /\ q.pc \notin Early /\ Spared(q) = {}
    BY <1>1, <1>3, <2>1, AfterHeld
  <2>4. Keeps(q, had)'
    BY <1>4, <2>2, <2>3 DEF Keeps, Spared
  <2> QED BY <1>2, <2>2, <2>3, <2>4 DEF StillKeeps
<1>6. CASE r.fd \notin Dirs
  <2>1. PICK x : x = r.fd
    OBVIOUS
  <2>2. x \in Objects /\ attr \in [Objects -> Attr]
    BY <1>3, <2>1, InsideTheirs, Constants DEF Inv, Attributes
  <2>3. attr' = [attr EXCEPT ![x].grp = TRUE]
    <3>1. attr' = [attr EXCEPT ![x].grp = Group(attr[x].grp, r.gid)]
      BY <1>1, <1>6, <2>1 DEF FixFD
    <3>2. Group(attr[x].grp, r.gid) = TRUE
      BY <1>1, <2>2 DEF Group, Attr
    <3> QED BY <3>1, <3>2
  <2>4. attr'[x].grp /\ \A o \in Objects \ {x} : attr'[o] = attr[o]
    BY <2>2, <2>3 DEF Attr
  <2>5. PICK m : m = attr[x].mode \ {"sg"}
    OBVIOUS
  <2>6. q = [r EXCEPT !.pc = "perm", !.perm = m]
    BY <1>1, <1>2, <1>6, <2>1, <2>5 DEF FixFD, Inv, Repairers
  <2>7. q.pc = "perm" /\ q.fd = x /\ q.stack = r.stack
    BY <2>1, <2>6 DEF Fix
  <2>8. Held(q)'
    BY <1>1, <1>3, <1>6, <2>1, <2>4, <2>7, HeldSame DEF Held
  <2>9. Excused({}) \subseteq Excused({x})' \cup Excepted'
    BY <1>3, <2>4, OneChanged
  <2>10. Excepted' = Excepted
    <3>1. \A d \in Dirs : attr'[d].grp = attr[d].grp
      BY <1>6, <2>1, <2>4 DEF Objects
    <3> QED BY <1>3, <3>1, SameExcepted
  <2>11. Keeps(q, had)'
    BY <1>4, <2>7, <2>9, <2>10 DEF Keeps, Early, Spared
  <2> QED BY <1>2, <2>8, <2>10, <2>11 DEF StillKeeps
<1> QED BY <1>5, <1>6

LEMMA ChmodFileKeeps ==
  ASSUME Inv, Kept, NEW p \in Procs, ChmodFile(p), Held(fix[p]), NEW had, Keeps(fix[p], had)
  PROVE  StillKeeps(p, had)
<1>1. PICK r \in Fix : r = fix[p]
  BY DEF Inv, Repairers
<1>2. PICK q, x : q = fix'[p] /\ x = r.fd
  OBVIOUS
<1>3. r.pc = "perm" /\ r.pc \in Holding /\ UNCHANGED kids /\ x \in Inside /\ x \notin Dirs /\ attr[x].grp
  BY <1>1, <1>2 DEF ChmodFile, At, Holding, Held
<1>4. had \subseteq Excused({x}) \cup Excepted
  BY <1>1, <1>2, <1>3 DEF Keeps, Early, Spared
<1>5. attr' = [attr EXCEPT ![x].mode = Want(r.perm)] /\ q = After(r)
  BY <1>1, <1>2 DEF ChmodFile, Inv, Repairers
<1>6. x \in Objects /\ Attributes
  BY <1>3, InsideTheirs, Constants DEF Inv
<1>7. /\ \A o \in Objects \ {x} : attr'[o] = attr[o]
      /\ attr'[x].mode = Want(r.perm) /\ attr'[x].grp = attr[x].grp /\ \A o \in Objects : attr'[o].grp = attr[o].grp
  BY <1>5, <1>6, ModeOnly
<1>8. Reads("daemon", x)'
  BY <1>3, <1>7 DEF Reads, Allowed, Want
<1>9. Excused({x}) \subseteq Excused({})' \cup Excepted'
  BY <1>3, <1>7, <1>8, OneChanged
<1>10. Excepted' = Excepted
  BY <1>3, <1>7, SameExcepted DEF Objects
<1>11. Held(q)' /\ q.pc \notin Early /\ Spared(q) = {}
  BY <1>1, <1>3, <1>5, AfterHeld
<1>12. Keeps(q, had)'
  BY <1>4, <1>9, <1>10, <1>11 DEF Keeps, Spared
<1> QED BY <1>2, <1>10, <1>11, <1>12 DEF StillKeeps

LEMMA RepairKeeps ==
  ASSUME Inv, Kept, NEW p \in Procs, RepairStep(p), fix[p].gid, Held(fix[p]), NEW had, Keeps(fix[p], had)
  PROVE  StillKeeps(p, had)
<1>1. CASE Check(p) \/ (\E d \in Dirs : Mkdirat(p, d)) \/ OpenCubby(p)
  BY <1>1, CheckKeeps, MkdiratKeeps, OpenCubbyKeeps
<1>2. CASE ChownCubby(p) \/ ChownFails(p) \/ ChmodCubby(p)
  BY <1>2, ChownKeeps, ChownFailsKeeps, ChmodCubbyKeeps
<1>3. CASE Open(p) \/ Descend(p) \/ FixFD(p) \/ ChmodFile(p)
  BY <1>3, OpenKeeps, DescendKeeps, FixFDKeeps, ChmodFileKeeps
<1>4. CASE List(p) \/ Up(p)
  BY <1>4, ListKeeps, UpKeeps
<1>5. CASE \E e \in [name : Names, dir : BOOLEAN] : Visit(p, e)
  BY <1>5, VisitKeeps DEF Found
<1> QED BY <1>1, <1>2, <1>3, <1>4, <1>5 DEF RepairStep

-----------------------------------------------------------------------------
(* A walk over the whole cubby *)

\* Once nothing is ahead, all that the daemon can reach is mended.
DoneEnds == \A D : Done(NoFix, D) => \A o \in Reach : Mended(o)

LEMMA DoneMended == DoneEnds
<1> SUFFICES ASSUME NEW D, Done(NoFix, D) PROVE \A o \in Reach : Mended(o)
  BY DEF DoneEnds
<1>1. Root \in D
  BY NoFixFacts DEF Done
<1>2. ASSUME NEW d \in Dirs \cap D, NEW n \in Names, Enters({}, d, kids[d][n]) PROVE kids[d][n] \in D
  <2>1. ~Ahead(NoFix, d, n)
    BY NoFixFacts DEF Ahead
  <2>2. Opens("daemon", d, kids[d][n], FALSE)
    BY <1>2 DEF Enters, Opens
  <2> QED BY <2>1, <2>2 DEF Done
<1>3. Excused({}) \subseteq D
  BY <1>1, <1>2, ExcusedLeast
<1> QED BY <1>3, ReachExcused DEF ReachIs, Done

LEMMA DoneMendedNext == DoneEnds'
BY DoneMended, PTL

ClosedCubby == ~Enterable("daemon") => Reach = {}

LEMMA NothingReached == ClosedCubby
<1> SUFFICES ASSUME ~Enterable("daemon") PROVE Reach = {}
  BY DEF ClosedCubby
<1>1. ~(Root \in Dirs /\ Enters({}, Parent, Root))
  BY DEF Enterable, Opens, Enters
<1>2. Excused({}) \subseteq {}
  BY <1>1, ExcusedLeast
<1> QED BY <1>2, ReachExcused DEF ReachIs

LEMMA NothingReachedNext == ClosedCubby'
BY NothingReached, PTL

\* The walk goes on, or has mended what the daemon can reach.
StillWhole(p) ==
  IF fix'[p].pc = "idle" THEN \A o \in Reach' : Mended(o)' ELSE Whole(fix[p])'

\* The walk p ends.
LEMMA EndsWhole ==
  ASSUME NEW p \in Procs, fix'[p] = NoFix, NEW D, Done(NoFix, D)'
  PROVE  StillWhole(p)
<1>1. \A o \in Reach' : Mended(o)'
  BY DoneMendedNext DEF DoneEnds
<1> QED BY <1>1, NoFixFacts DEF StillWhole

\* Before the walk.
LEMMA EarlyWhole ==
  ASSUME NEW p \in Procs, fix'[p].pc \notin Walking \cup {"check", "idle"}, fix'[p].op = "start",
         fix'[p].rel = << >>, fix'[p].stack = << >>
  PROVE  StillWhole(p)
BY DEF StillWhole, Whole

\* The cubby cannot be opened.
LEMMA ClosedWhole ==
  ASSUME NEW p \in Procs, fix'[p] = NoFix, ~Enterable("daemon"), UNCHANGED <<kids, attr>>
  PROVE  StillWhole(p)
<1>1. ~Enterable("daemon")'
  BY DEF Enterable, Opens, Root, Searches, Reads, Allowed
<1>2. Reach' = {}
  BY <1>1, NothingReachedNext DEF ClosedCubby
<1> QED BY <1>2, NoFixFacts DEF StillWhole

LEMMA BeforeWhole ==
  ASSUME Inv, NEW p \in Procs, Whole(fix[p]),
         \/ Check(p) \/ (\E d \in Dirs : Mkdirat(p, d)) \/ OpenCubby(p)
         \/ ChownCubby(p) \/ ChownFails(p) \/ ChmodCubby(p)
  PROVE  StillWhole(p)
<1>1. PICK r, q : r = fix[p] /\ q = fix'[p]
  OBVIOUS
<1>2. r.op = "start" /\ r.rel = << >> /\ r.pc # "check" /\ (r.pc \notin Walking => r.stack = << >>)
  BY <1>1 DEF Whole
<1>3. ASSUME NEW pc \in {"openat", "chmod"}, Goto(p, pc), r.pc \in {"mkdirat", "chown"} PROVE StillWhole(p)
  <2>1. GoesTo(r, q, pc)
    BY <1>1, <1>3, InvShared, GotoFacts
  <2> QED BY <1>1, <1>2, <1>3, <2>1, EarlyWhole DEF GoesTo, Walking
<1>4. CASE Check(p)
  BY <1>1, <1>2, <1>4 DEF Check, At
<1>5. CASE \E d \in Dirs : Mkdirat(p, d)
  BY <1>1, <1>3, <1>5 DEF Mkdirat, At
<1>6. CASE ChownCubby(p) \/ ChownFails(p)
  BY <1>1, <1>3, <1>6 DEF ChownCubby, ChownFails, At
<1>7. CASE OpenCubby(p)
  <2>1. r.pc = "openat" /\ UNCHANGED <<kids, attr>>
    BY <1>1, <1>7 DEF OpenCubby, At
  <2>2. Who(p) = "daemon"
    BY <1>1, <1>2 DEF Who
  <2>3. \/ q.pc = "chown" /\ q.op = r.op /\ q.rel = r.rel /\ q.stack = r.stack
        \/ ~Enterable(Who(p)) /\ q = NoFix
    BY <1>1, <1>7, InvShared, OpenCubbyFacts
  <2>4. CASE q.pc = "chown" /\ q.op = r.op /\ q.rel = r.rel /\ q.stack = r.stack
    BY <1>1, <1>2, <2>1, <2>4, EarlyWhole DEF Walking
  <2>5. CASE ~Enterable(Who(p)) /\ q = NoFix
    BY <1>1, <2>1, <2>2, <2>5, ClosedWhole
  <2> QED BY <2>3, <2>4, <2>5
<1>8. CASE ChmodCubby(p)
  <2>1. r.pc = "chmod"
    BY <1>1, <1>8 DEF ChmodCubby, At
  <2>2. q.pc = "open" /\ q.op = r.op /\ q.rel = r.rel /\ q.stack = r.stack
    BY <1>1, <1>2, <1>8, InvShared, ChmodCubbyFacts
  <2> QED BY <1>1, <1>2, <2>1, <2>2, EarlyWhole DEF Walking
<1> QED BY <1>4, <1>5, <1>6, <1>7, <1>8

LEMMA OpenWhole ==
  ASSUME Inv, NEW p \in Procs, Whole(fix[p]), Open(p)
  PROVE  StillWhole(p)
<1>1. PICK r, q : r = fix[p] /\ q = fix'[p]
  OBVIOUS
<1>2. r.pc = "open" /\ UNCHANGED <<kids, attr>>
  BY <1>1 DEF Open, At
<1>3. r.op = "start" /\ r.rel = << >> /\ r.stack = << >>
  BY <1>1, <1>2 DEF Whole, Walking
<1>4. \/ /\ Enterable("daemon")
         /\ q.pc = "fix" /\ q.op = r.op /\ q.rel = r.rel /\ q.fd = Root /\ q.deep /\ q.stack = r.stack
      \/ ~Enterable("daemon") /\ q = NoFix
  BY <1>1, <1>3, InvShared, OpenFacts
<1>5. CASE /\ Enterable("daemon")
           /\ q.pc = "fix" /\ q.op = r.op /\ q.rel = r.rel /\ q.fd = Root /\ q.deep /\ q.stack = r.stack
  <2>1. Root \in Dirs /\ Root' = Root
    BY <1>2, <1>5 DEF Enterable, Opens, Root
  <2>2. q.deep \in BOOLEAN
    BY <1>1, OpenStep, InvShared DEF Shared, Repairers, Fix
  <2>3. Len(q.stack) = 0
    BY <1>3, <1>5
  <2>4. Agreed(q)'
    BY <2>3 DEF Agreed
  <2>5. Done(q, {})'
    BY <1>5, <2>1 DEF Done
  <2>6. q.deep = (q.fd \in Dirs)
    BY <1>5, <2>1, <2>2
  <2>7. Whole(q)'
    <3>1. {} \in SUBSET Objects
      OBVIOUS
    <3> QED BY <1>3, <1>5, <2>4, <2>5, <2>6, <3>1 DEF Whole, Walking
  <2> QED BY <1>1, <1>5, <2>7 DEF StillWhole
<1>6. CASE ~Enterable("daemon") /\ q = NoFix
  BY <1>1, <1>2, <1>6, ClosedWhole
<1> QED BY <1>4, <1>5, <1>6

\* A step that changes neither entries nor attributes.
LEMMA QuietDone ==
  ASSUME UNCHANGED <<kids, attr>>, NEW r, NEW q, NEW D, Done(r, D), Root \in D,
         \A d \in Dirs \cap D, n \in Names :
           Opens("daemon", d, kids[d][n], FALSE) /\ Ahead(r, d, n) => Ahead(q, d, n)
  PROVE  Done(q, D)'
<1>1. \A o : Mended(o)' = Mended(o)
  BY DEF Mended
<1>2. \A d, o : Opens("daemon", d, o, FALSE)' = Opens("daemon", d, o, FALSE)
  BY DEF Opens, Searches, Reads, Allowed
<1>3. Root' = Root /\ \A d, n : Ahead(q, d, n)' = Ahead(q, d, n)
  BY DEF Root, Ahead
<1> QED BY <1>1, <1>2, <1>3 DEF Done

\* What the steps of a walk have to show.
LEMMA WalkOn ==
  ASSUME NEW p \in Procs, NEW q, q = fix'[p], q.pc \in Walking, q.op = "start", q.rel = << >>,
         Agreed(q)', q.pc = "fix" => q.deep = (q.fd \in Dirs), NEW D \in SUBSET Objects, Done(q, D)'
  PROVE  StillWhole(p)
<1>1. Whole(q)'
  BY DEF Whole, Walking
<1> QED BY <1>1 DEF StillWhole, Walking

\* The entries of a listing say what is a directory.
LEMMA ListedAs ==
  ASSUME NEW d, NEW e \in EntriesOf(d)
  PROVE  e.dir = (kids[d][e.name] \in Dirs)
<1>1. PICK m \in Names : e = [name |-> m, dir |-> kids[d][m] \in Dirs]
  BY DEF EntriesOf
<1>2. e.name = m /\ e.dir = (kids[d][m] \in Dirs)
  BY <1>1
<1> QED BY <1>2

LEMMA ListWhole ==
  ASSUME Inv, NEW p \in Procs, Whole(fix[p]), List(p)
  PROVE  StillWhole(p)
<1>1. PICK r, q : r = fix[p] /\ q = fix'[p]
  OBVIOUS
<1>2. /\ r.pc = "list" /\ r.fd \in Dirs /\ r.stack \in Seq(Frame)
      /\ q.pc = "children" /\ q.op = r.op /\ q.rel = r.rel
      /\ Len(q.stack) = Len(r.stack) + 1 /\ q.stack[1].fd = r.fd /\ q.stack[1].left = EntriesOf(r.fd)
      /\ \A i \in 1..Len(r.stack) : q.stack[i + 1] = r.stack[i]
      /\ \A i \in 1..Len(q.stack) : i = 1 \/ (i - 1 \in 1..Len(r.stack) /\ q.stack[i] = r.stack[i - 1])
  <2>1. ListsTo(r, q)
    BY <1>1, InvShared, ListFacts
  <2> QED BY <1>1, <2>1 DEF ListsTo
<1>3. UNCHANGED <<kids, attr>>
  BY DEF List
<1>4. r.op = "start" /\ r.rel = << >> /\ Agreed(r) /\ \E D \in SUBSET Objects : Done(r, D)
  BY <1>1, <1>2 DEF Whole, Walking
<1>5. PICK D \in SUBSET Objects : Done(r, D)
  BY <1>4
<1>6. Len(r.stack) \in Nat
  BY <1>2
<1>7. Agreed(q)'
  <2>1. ASSUME NEW i \in 1..Len(q.stack), NEW e \in q.stack[i].left
        PROVE  e.dir = (kids[q.stack[i].fd][e.name] \in Dirs)
    <3>1. CASE i = 1
      <4>1. e \in EntriesOf(r.fd) /\ q.stack[i].fd = r.fd
        BY <1>2, <2>1, <3>1
      <4>2. e.dir = (kids[r.fd][e.name] \in Dirs)
        BY <4>1, ListedAs
      <4> QED BY <4>1, <4>2
    <3>2. CASE i # 1
      <4>1. i - 1 \in 1..Len(r.stack) /\ q.stack[i] = r.stack[i - 1]
        BY <1>2, <3>2
      <4> QED BY <1>4, <4>1 DEF Agreed
    <3> QED BY <3>1, <3>2
  <2> QED BY <1>3, <2>1 DEF Agreed
<1>8. ASSUME NEW d \in Dirs \cap D, NEW n \in Names, Opens("daemon", d, kids[d][n], FALSE), Ahead(r, d, n)
      PROVE  Ahead(q, d, n)
  <2>1. CASE \E i \in 1..Len(r.stack) : r.stack[i].fd = d /\ \E e \in r.stack[i].left : e.name = n
    <3>1. PICK i \in 1..Len(r.stack) : r.stack[i].fd = d /\ \E e \in r.stack[i].left : e.name = n
      BY <2>1
    <3>2. i + 1 \in 1..Len(q.stack) /\ q.stack[i + 1] = r.stack[i]
      BY <1>2, <1>6
    <3> QED BY <3>1, <3>2 DEF Ahead
  <2>2. CASE r.fd = d
    <3>1. [name |-> n, dir |-> kids[d][n] \in Dirs] \in EntriesOf(d)
      BY <1>8 DEF EntriesOf, Opens
    <3>2. \E e \in q.stack[1].left : e.name = n
      BY <1>2, <2>2, <3>1
    <3>3. 1 \in 1..Len(q.stack)
      BY <1>2, <1>6
    <3> QED BY <1>2, <2>2, <3>2, <3>3 DEF Ahead
  <2> QED BY <1>2, <1>8, <2>1, <2>2 DEF Ahead
<1>9. Root \in D
  BY <1>2, <1>5 DEF Done
<1>10. Done(q, D)'
  BY <1>3, <1>5, <1>8, <1>9, QuietDone
<1> QED BY <1>1, <1>2, <1>4, <1>7, <1>10, WalkOn DEF Walking

LEMMA VisitWhole ==
  ASSUME Inv, NEW p \in Procs, Whole(fix[p]), NEW e \in Found, Visit(p, e)
  PROVE  StillWhole(p)
<1>1. PICK r, q, t : r = fix[p] /\ q = fix'[p] /\ t = r.stack[1].fd
  OBVIOUS
<1>2. /\ r.pc = "children" /\ r.stack \in Seq(Frame) /\ Len(r.stack) \in Nat \ {0} /\ e \in r.stack[1].left
      /\ q.op = r.op /\ q.rel = r.rel
      /\ Len(q.stack) = Len(r.stack) /\ q.stack[1].fd = t /\ q.stack[1].left = r.stack[1].left \ {e}
      /\ \A i \in 1..Len(r.stack) : i # 1 => q.stack[i] = r.stack[i]
      /\ \/ ~Opens("daemon", t, kids[t][e.name], e.dir) /\ q.pc = "children"
         \/ Opens("daemon", t, kids[t][e.name], e.dir) /\ q.pc = "fix" /\ q.fd = kids[t][e.name] /\ q.deep = e.dir
  <2>1. VisitsTo(r, q, e)
    BY <1>1, InvShared, VisitFacts
  <2> QED BY <1>1, <2>1 DEF VisitsTo
<1>3. UNCHANGED <<kids, attr>>
  BY DEF Visit
<1>4. r.op = "start" /\ r.rel = << >> /\ Agreed(r) /\ \E D \in SUBSET Objects : Done(r, D)
  BY <1>1, <1>2 DEF Whole, Walking
<1>5. PICK D \in SUBSET Objects : Done(r, D)
  BY <1>4
<1>6. 1 \in 1..Len(r.stack)
  BY <1>2
<1>7. e.dir = (kids[t][e.name] \in Dirs)
  <2>1. \A f \in r.stack[1].left : f.dir = (kids[r.stack[1].fd][f.name] \in Dirs)
    BY <1>4, <1>6, Zenon DEF Agreed
  <2> QED BY <1>1, <1>2, <2>1, Zenon
<1>8. Agreed(q)'
  <2>1. ASSUME NEW i \in 1..Len(q.stack), NEW f \in q.stack[i].left
        PROVE  f.dir = (kids[q.stack[i].fd][f.name] \in Dirs)
    <3>1. f \in r.stack[i].left /\ q.stack[i].fd = r.stack[i].fd /\ i \in 1..Len(r.stack)
      BY <1>1, <1>2, <2>1
    <3> QED BY <1>4, <3>1 DEF Agreed
  <2> QED BY <1>3, <2>1 DEF Agreed
<1>9. ASSUME NEW d \in Dirs \cap D, NEW n \in Names, Opens("daemon", d, kids[d][n], FALSE), Ahead(r, d, n)
      PROVE  Ahead(q, d, n)
  <2>0. PICK i \in 1..Len(r.stack) : r.stack[i].fd = d /\ \E f \in r.stack[i].left : f.name = n
    BY <1>2, <1>9 DEF Ahead
  <2>1. PICK f \in r.stack[i].left : r.stack[i].fd = d /\ f.name = n
    BY <2>0
  <2>2. q.stack[i].fd = d /\ i \in 1..Len(q.stack)
    BY <1>1, <1>2, <2>1
  <2>3. CASE i # 1 \/ f # e
    <3>1. f \in q.stack[i].left
      BY <1>2, <2>1, <2>3
    <3> QED BY <2>1, <2>2, <3>1 DEF Ahead
  <2>4. CASE i = 1 /\ f = e
    <3>1. d = t /\ n = e.name
      BY <1>1, <2>1, <2>4
    <3>2. Opens("daemon", t, kids[t][e.name], e.dir)
      BY <1>7, <1>9, <3>1 DEF Opens
    <3> QED BY <1>2, <3>1, <3>2 DEF Ahead
  <2> QED BY <2>3, <2>4
<1>10. Root \in D
  BY <1>2, <1>5 DEF Done
<1>11. Done(q, D)'
  BY <1>3, <1>5, <1>9, <1>10, QuietDone
<1>12. q.pc \in Walking /\ (q.pc = "fix" => q.deep = (q.fd \in Dirs))
  BY <1>2, <1>7 DEF Walking
<1> QED BY <1>1, <1>2, <1>4, <1>8, <1>11, <1>12, WalkOn

LEMMA UpWhole ==
  ASSUME Inv, NEW p \in Procs, Whole(fix[p]), Up(p)
  PROVE  StillWhole(p)
<1>1. PICK r, q : r = fix[p] /\ q = fix'[p]
  OBVIOUS
<1>2. /\ r.pc = "children" /\ r.stack \in Seq(Frame) /\ Len(r.stack) \in Nat \ {0} /\ r.stack[1].left = {}
      /\ \/ Len(r.stack) = 1 /\ q = NoFix
         \/ /\ q.pc = "children" /\ q.op = r.op /\ q.rel = r.rel
            /\ Len(q.stack) = Len(r.stack) - 1 /\ \A i \in 1..Len(q.stack) : q.stack[i] = r.stack[i + 1]
  <2>1. UpTo(r, q)
    BY <1>1, InvShared, UpFacts
  <2> QED BY <1>1, <2>1 DEF UpTo
<1>3. UNCHANGED <<kids, attr>>
  BY DEF Up
<1>4. r.op = "start" /\ r.rel = << >> /\ Agreed(r) /\ \E D \in SUBSET Objects : Done(r, D)
  BY <1>1, <1>2 DEF Whole, Walking
<1>5. PICK D \in SUBSET Objects : Done(r, D)
  BY <1>4
<1>6. Root \in D
  BY <1>2, <1>5 DEF Done
<1>7. CASE Len(r.stack) = 1 /\ q = NoFix
  <2>1. ASSUME NEW d \in Dirs \cap D, NEW n \in Names PROVE ~Ahead(r, d, n)
    BY <1>2, <1>7 DEF Ahead
  <2>2. Done(q, D)'
    BY <1>3, <1>5, <1>6, <2>1, QuietDone
  <2> QED BY <1>1, <1>7, <2>2, EndsWhole
<1>8. CASE /\ q.pc = "children" /\ q.op = r.op /\ q.rel = r.rel
           /\ Len(q.stack) = Len(r.stack) - 1 /\ \A i \in 1..Len(q.stack) : q.stack[i] = r.stack[i + 1]
  <2>1. \A i \in 1..Len(q.stack) : i + 1 \in 1..Len(r.stack)
    BY <1>2, <1>8
  <2>2. Agreed(q)'
    BY <1>3, <1>4, <1>8, <2>1 DEF Agreed
  <2>3. ASSUME NEW d \in Dirs \cap D, NEW n \in Names, Ahead(r, d, n) PROVE Ahead(q, d, n)
    <3>1. PICK i \in 1..Len(r.stack) : r.stack[i].fd = d /\ \E e \in r.stack[i].left : e.name = n
      BY <1>2, <2>3 DEF Ahead
    <3>2. i # 1
      BY <1>2, <3>1
    <3>3. i - 1 \in 1..Len(q.stack) /\ (i - 1) + 1 = i
      BY <1>2, <1>8, <3>2
    <3>4. q.stack[i - 1] = r.stack[i]
      BY <1>8, <3>3
    <3> QED BY <3>1, <3>3, <3>4 DEF Ahead
  <2>4. Done(q, D)'
    BY <1>3, <1>5, <1>6, <2>3, QuietDone
  <2> QED BY <1>1, <1>4, <1>8, <2>2, <2>4, WalkOn DEF Walking
<1> QED BY <1>2, <1>7, <1>8

\* A step that changes the attributes of what is open, and goes on to q.
LEMMA ChangeDone ==
  ASSUME Inv, UNCHANGED kids, NEW x \in Objects, \A o \in Objects \ {x} : attr'[o] = attr[o],
         NEW r, NEW q, NEW D \in SUBSET Objects, Done(r, D), r.pc \in {"fix", "perm"}, r.fd = x,
         q.stack = r.stack,
         NEW F, F \subseteq {x}, x \in D \cup F => Mended(x)', Root \in D \cup F,
         x \in F \/ (q.pc = "perm" /\ q.fd = x),
         x \in Dirs \cap (D \cup F) => q.pc = "list" /\ q.fd = x
  PROVE  Done(q, D \cup F)'
<1>1. ASSUME NEW o \in D \cup F PROVE Mended(o)'
  <2>1. CASE o = x
    BY <2>1
  <2>2. CASE o # x
    <3>1. o \in D /\ attr'[o] = attr[o]
      BY <2>2
    <3>2. Mended(o)
      BY <3>1 DEF Done
    <3> QED BY <3>1, <3>2 DEF Mended
  <2> QED BY <2>1, <2>2
<1>2. ASSUME NEW d \in Dirs \cap (D \cup F), NEW n \in Names, Opens("daemon", d, kids[d][n], FALSE)'
      PROVE  kids[d][n] \in D \cup F \/ Ahead(q, d, n)
  <2>1. CASE d = x
    BY <2>1 DEF Ahead
  <2>2. CASE kids[d][n] = x
    BY <2>2 DEF Ahead
  <2>3. CASE d # x /\ kids[d][n] # x
    <3>1. d \in D /\ d \in Objects
      BY <2>3
    <3>2. PICK o \in Objects : o = kids[d][n]
      BY <1>2 DEF Opens, Objects
    <3>3. attr'[d] = attr[d] /\ attr'[o] = attr[o]
      BY <2>3, <3>1, <3>2
    <3>4. Opens("daemon", d, o, FALSE)
      BY <1>2, <3>2, <3>3, SameRights DEF Opens
    <3>5. o \in D \/ Ahead(r, d, n)
      BY <3>1, <3>2, <3>4 DEF Done
    <3>6. CASE Ahead(r, d, n)
      BY <2>3, <3>6 DEF Ahead
    <3> QED BY <3>2, <3>5, <3>6
  <2> QED BY <2>1, <2>2, <2>3
<1>3. Root' = Root /\ \A d, n : Ahead(q, d, n)' = Ahead(q, d, n)
  BY DEF Root, Ahead
<1> QED BY <1>1, <1>2, <1>3 DEF Done

LEMMA FixFDWhole ==
  ASSUME Inv, NEW p \in Procs, Whole(fix[p]), FixFD(p), fix[p].gid, Held(fix[p])
  PROVE  StillWhole(p)
<1>1. PICK r \in Fix : r = fix[p]
  BY DEF Inv, Repairers
<1>2. PICK q, x : q = fix'[p] /\ x = r.fd
  OBVIOUS
<1>3. r.pc = "fix" /\ UNCHANGED kids /\ x \in Inside
  BY <1>1, <1>2 DEF FixFD, At, Holding, Held
<1>4. r.op = "start" /\ r.rel = << >> /\ Agreed(r) /\ r.deep = (x \in Dirs) /\ \E D \in SUBSET Objects : Done(r, D)
  BY <1>1, <1>2, <1>3 DEF Whole, Walking
<1>5. PICK D \in SUBSET Objects : Done(r, D)
  BY <1>4
<1>6. x \in Objects /\ Attributes /\ attr \in [Objects -> Attr]
  BY <1>3, InsideTheirs, Constants DEF Inv, Attributes
<1>7. Root \in D \/ Root = x
  BY <1>2, <1>5 DEF Done
<1>8. CASE x \in Dirs
  <2>1. attr' = [attr EXCEPT ![x].mode = CubbyMode] /\ q = After(r)
    BY <1>1, <1>2, <1>8 DEF FixFD, Inv, Repairers
  <2>2. GoesTo(r, q, "list")
    BY <1>2, <1>4, <1>8, <2>1, AfterFacts
  <2>3. (\A o \in Objects \ {x} : attr'[o] = attr[o]) /\ attr'[x].mode = CubbyMode
    BY <1>6, <2>1, ModeOnly
  <2>4. Mended(x)'
    BY <1>8, <2>3 DEF Mended
  <2>5. Done(q, D \cup {x})'
    BY <1>2, <1>3, <1>5, <1>6, <1>7, <2>2, <2>3, <2>4, ChangeDone DEF GoesTo
  <2>6. Agreed(q)'
    BY <1>3, <1>4, <2>2 DEF Agreed, GoesTo
  <2>7. D \cup {x} \in SUBSET Objects
    BY <1>6
  <2> QED BY <1>2, <1>4, <2>2, <2>5, <2>6, <2>7, WalkOn DEF GoesTo, Walking
<1>9. CASE x \notin Dirs
  <2>1. attr' = [attr EXCEPT ![x].grp = TRUE]
    <3>1. attr' = [attr EXCEPT ![x].grp = Group(attr[x].grp, r.gid)]
      BY <1>1, <1>2, <1>9 DEF FixFD
    <3>2. Group(attr[x].grp, r.gid) = TRUE
      BY <1>1, <1>6 DEF Group, Attr
    <3> QED BY <3>1, <3>2
  <2>2. /\ \A o \in Objects \ {x} : attr'[o] = attr[o]
        /\ attr'[x].grp /\ attr'[x].mode = attr[x].mode
    BY <1>6, <2>1 DEF Attr
  <2>3. PICK m : m = attr[x].mode \ {"sg"}
    OBVIOUS
  <2>4. q = [r EXCEPT !.pc = "perm", !.perm = m]
    BY <1>1, <1>2, <1>9, <2>3 DEF FixFD, Inv, Repairers
  <2>5. q.pc = "perm" /\ q.fd = x /\ q.stack = r.stack /\ q.op = r.op /\ q.rel = r.rel
    BY <1>2, <2>4 DEF Fix
  <2>6. Root \in D
    BY <1>3, <1>7, <1>9 DEF Inside, Under
  <2>7. x \in D => Mended(x)'
    BY <1>5, <1>9, <2>2 DEF Done, Mended
  <2>8. Done(q, D \cup {})'
    BY <1>2, <1>3, <1>5, <1>6, <1>9, <2>2, <2>5, <2>6, <2>7, ChangeDone
  <2>9. Agreed(q)'
    BY <1>3, <1>4, <2>5 DEF Agreed
  <2>10. D \cup {} \in SUBSET Objects
    OBVIOUS
  <2> QED BY <1>2, <1>4, <2>5, <2>8, <2>9, <2>10, WalkOn DEF Walking
<1> QED BY <1>8, <1>9

LEMMA ChmodFileWhole ==
  ASSUME Inv, NEW p \in Procs, Whole(fix[p]), ChmodFile(p), Held(fix[p])
  PROVE  StillWhole(p)
<1>1. PICK r \in Fix : r = fix[p]
  BY DEF Inv, Repairers
<1>2. PICK q, x : q = fix'[p] /\ x = r.fd
  OBVIOUS
<1>3. r.pc = "perm" /\ UNCHANGED kids /\ x \in Inside /\ x \notin Dirs /\ attr[x].grp
  BY <1>1, <1>2 DEF ChmodFile, At, Holding, Held
<1>4. r.op = "start" /\ r.rel = << >> /\ Agreed(r) /\ \E D \in SUBSET Objects : Done(r, D)
  BY <1>1, <1>3 DEF Whole, Walking
<1>5. PICK D \in SUBSET Objects : Done(r, D)
  BY <1>4
<1>6. x \in Objects /\ Attributes
  BY <1>3, InsideTheirs, Constants DEF Inv
<1>7. attr' = [attr EXCEPT ![x].mode = Want(r.perm)] /\ q = After(r)
  BY <1>1, <1>2 DEF ChmodFile, Inv, Repairers
<1>8. /\ \A o \in Objects \ {x} : attr'[o] = attr[o]
      /\ attr'[x].mode = Want(r.perm) /\ attr'[x].grp = attr[x].grp
  BY <1>6, <1>7, ModeOnly
<1>9. Mended(x)'
  BY <1>3, <1>8 DEF Mended, Want
<1>10. Root \in D
  BY <1>3, <1>5 DEF Done
<1>11. \/ r.stack # << >> /\ GoesTo(r, q, "children")
       \/ r.stack = << >> /\ q = NoFix
  BY <1>2, <1>3, <1>4, <1>7, AfterFacts
<1>12. q.stack = r.stack
  BY <1>11, NoFixFacts DEF GoesTo
<1>13. Done(q, D \cup {x})'
  BY <1>2, <1>3, <1>5, <1>6, <1>8, <1>9, <1>10, <1>12, ChangeDone
<1>14. CASE GoesTo(r, q, "children")
  <2>1. Agreed(q)'
    BY <1>3, <1>4, <1>14 DEF Agreed, GoesTo
  <2>2. D \cup {x} \in SUBSET Objects
    BY <1>6
  <2> QED BY <1>2, <1>4, <1>13, <1>14, <2>1, <2>2, WalkOn DEF GoesTo, Walking
<1>15. CASE q = NoFix
  BY <1>2, <1>13, <1>15, EndsWhole
<1> QED BY <1>11, <1>14, <1>15

LEMMA RepairWhole ==
  ASSUME Inv, NEW p \in Procs, RepairStep(p), fix[p].gid, Held(fix[p]), Whole(fix[p])
  PROVE  StillWhole(p)
<1>1. CASE \/ Check(p) \/ (\E d \in Dirs : Mkdirat(p, d)) \/ OpenCubby(p)
           \/ ChownCubby(p) \/ ChownFails(p) \/ ChmodCubby(p)
  BY <1>1, BeforeWhole
<1>2. CASE Open(p) \/ FixFD(p) \/ ChmodFile(p)
  BY <1>2, OpenWhole, FixFDWhole, ChmodFileWhole
<1>3. CASE Descend(p)
  BY <1>3 DEF Descend, At, Whole, Inv, Repairers, Handy
<1>4. CASE List(p) \/ Up(p)
  BY <1>4, ListWhole, UpWhole
<1>5. CASE \E e \in [name : Names, dir : BOOLEAN] : Visit(p, e)
  BY <1>5, VisitWhole DEF Found
<1> QED BY <1>1, <1>2, <1>3, <1>4, <1>5 DEF RepairStep

-----------------------------------------------------------------------------
(* What holds of every repair that nobody disturbs *)

CalmAt(p) ==
  since[p].calm /\ fix[p].gid =>
    /\ Held(fix[p]) /\ Keeps(fix[p], since[p].had)
    /\ since[p].all => Whole(fix[p])

LEMMA CalmParts == Calm <=> DOMAIN since = Procs /\ \A p \in Procs : CalmAt(p)
BY DEF Calm, CalmAt

\* All of it speaks of entries, attributes and the repair alone.
LEMMA Unmoved ==
  ASSUME UNCHANGED <<kids, attr>>, NEW r, NEW had
  PROVE  Held(r)' = Held(r) /\ Keeps(r, had)' = Keeps(r, had) /\ Whole(r)' = Whole(r)
<1>1. Inside' = Inside /\ Root' = Root /\ Excepted' = Excepted /\ \A d : Children(d)' = Children(d)
  BY SameTree, SameExcepted
<1>2. \A E, d, o : Enters(E, d, o)' = Enters(E, d, o)
  BY DEF Enters, Searches, Reads, Allowed
<1>3. ASSUME NEW E PROVE Excused(E)' = Excused(E)
  <2>1. From(E)' = From(E) /\ Onward(E)' = Onward(E)
    BY <1>1, <1>2 DEF From, Onward
  <2> QED BY <2>1 DEF Excused
<1>4. Held(r)' = Held(r)
  BY <1>1 DEF Held
<1>5. Keeps(r, had)' = Keeps(r, had)
  BY <1>1, <1>3 DEF Keeps, Spared
<1>6. ASSUME NEW D PROVE Done(r, D)' = Done(r, D)
  <2>1. \A o : Mended(o)' = Mended(o)
    BY DEF Mended
  <2>2. \A d, o : Opens("daemon", d, o, FALSE)' = Opens("daemon", d, o, FALSE)
    BY DEF Opens, Searches, Reads, Allowed
  <2>3. \A d, n : Ahead(r, d, n)' = Ahead(r, d, n)
    BY DEF Ahead
  <2> QED BY <1>1, <2>1, <2>2, <2>3 DEF Done
<1>7. Agreed(r)' = Agreed(r)
  BY DEF Agreed
<1>8. Whole(r)' = Whole(r)
  BY <1>6, <1>7 DEF Whole
<1> QED BY <1>4, <1>5, <1>8

\* A step that has nothing to do with the repair p.
LEMMA OthersCalm ==
  ASSUME UNCHANGED <<kids, attr>>, NEW p \in Procs, CalmAt(p), fix'[p] = fix[p], since'[p] = since[p]
  PROVE  CalmAt(p)'
<1>1. PICK r, s : r = fix[p] /\ s = since[p] /\ r = fix'[p] /\ s = since'[p]
  OBVIOUS
<1>2. s.calm /\ r.gid => Held(r)' /\ Keeps(r, s.had)' /\ (s.all => Whole(r)')
  BY <1>1, Unmoved DEF CalmAt
<1> QED BY <1>1, <1>2 DEF CalmAt

\* Nothing is said of a repair that is over or was disturbed.
LEMMA EndedCalm ==
  ASSUME NEW p \in Procs, since'[p] = NoSince
  PROVE  CalmAt(p)'
<1>1. ~since'[p].calm
  BY DEF NoSince
<1> QED BY <1>1 DEF CalmAt

LEMMA BeginCalm ==
  ASSUME Inv, NEW p \in Procs, BeginRepair(p), DOMAIN since = Procs
  PROVE  CalmAt(p)'
<1>1. PICK op \in {"start", "read", "login", "mkdir"}, rel \in Rels, gid \in BOOLEAN :
        /\ Begin(p, op, rel, gid)
        /\ since' = [since EXCEPT ![p] = [calm |-> TRUE, all |-> op = "start", had |-> Reach]]
  BY DEF BeginRepair
<1>2. PICK q, pc : /\ q = fix'[p] /\ q = [NoFix EXCEPT !.op = op, !.rel = rel, !.gid = gid, !.pc = pc]
                   /\ pc = CASE kind = "home" -> "open" [] op = "mkdir" -> "check" [] OTHER -> "mkdirat"
  BY <1>1 DEF Begin, Inv, Repairers
<1>3. q.pc = pc /\ q.op = op /\ q.rel = rel /\ q.stack = << >>
  BY <1>2 DEF NoFix
<1>4. UNCHANGED <<kids, attr>>
  BY <1>1 DEF Begin
<1>5. PICK had, s : s = since'[p] /\ s.had = had /\ had = Reach /\ (s.all => op = "start" /\ rel = << >>)
  <2>1. PICK all \in BOOLEAN : all = (op = "start")
    OBVIOUS
  <2>2. since'[p] = [calm |-> TRUE, all |-> all, had |-> Reach]
    BY <1>1, <2>1
  <2>3. since'[p].had = Reach /\ since'[p].all = all
    BY <2>2
  <2>4. op = "start" => rel = << >>
    BY <1>1 DEF Begin
  <2> QED BY <2>1, <2>3, <2>4
<1>6. pc \in {"open", "check", "mkdirat"} /\ (op # "mkdir" => pc # "check")
  BY <1>2
<1>7. Len(q.stack) = 0
  BY <1>3
<1>8. Held(q)'
  BY <1>3, <1>4, <1>6, <1>7, HeldSame DEF Holding
<1>9. Keeps(q, had)'
  <2>1. Keeps(q, had)
    <3>1. had = Excused({})
      BY <1>5, ReachExcused DEF ReachIs
    <3>2. Spared(q) = {}
      BY <1>3, <1>6 DEF Spared
    <3> QED BY <3>1, <3>2 DEF Keeps
  <2> QED BY <1>4, <2>1, Unmoved
<1>10. s.all => Whole(q)'
  BY <1>3, <1>5, <1>6 DEF Whole, Walking
<1> QED BY <1>2, <1>5, <1>8, <1>9, <1>10 DEF CalmAt

\* Which group a repair uses is found out once.
LEMMA GidKept ==
  ASSUME Shared, NEW p \in Procs, RepairStep(p), fix'[p].pc # "idle"
  PROVE  fix'[p].gid = fix[p].gid
<1>1. fix \in [Procs -> Fix] /\ fix[p] \in Fix
  BY DEF Shared, Repairers
<1>2. fix'[p] # NoFix
  BY DEF NoFix
<1>3. CASE Check(p) \/ (\E d \in Dirs : Mkdirat(p, d)) \/ OpenCubby(p) \/ ChownCubby(p)
  BY <1>1, <1>2, <1>3 DEF Check, Mkdirat, OpenCubby, ChownCubby, Goto, End, Fix
<1>4. CASE ChownFails(p) \/ ChmodCubby(p)
  <2>1. CASE ChownFails(p)
    BY <1>1, <1>2, <2>1 DEF ChownFails, Goto, End, Fix
  <2>2. CASE ChmodCubby(p)
    BY <1>1, <1>2, <2>2 DEF ChmodCubby, Goto, End, Fix
  <2> QED BY <1>4, <2>1, <2>2
<1>5. CASE Open(p) \/ Descend(p)
  <2>1. CASE Open(p)
    BY <1>1, <1>2, <2>1 DEF Open, Fix
  <2>2. CASE Descend(p)
    BY <1>1, <1>2, <2>2 DEF Descend, Fix
  <2> QED BY <1>5, <2>1, <2>2
<1>6. CASE FixFD(p) \/ ChmodFile(p)
  BY <1>1, <1>2, <1>6 DEF FixFD, ChmodFile, After, Fix
<1>7. CASE List(p) \/ Up(p)
  BY <1>1, <1>2, <1>7 DEF List, Up, Fix
<1>8. CASE \E e \in [name : Names, dir : BOOLEAN] : Visit(p, e)
  BY <1>1, <1>2, <1>8 DEF Visit, Fix
<1> QED BY <1>3, <1>4, <1>5, <1>6, <1>7, <1>8 DEF RepairStep

LEMMA RepairCalm ==
  ASSUME Inv, Kept, NEW p \in Procs, Repairs(p), CalmAt(p)
  PROVE  CalmAt(p)'
<1>1. CASE fix'[p].pc = "idle"
  <2>1. since'[p] = NoSince
    BY <1>1 DEF Repairs
  <2> QED BY <2>1, EndedCalm
<1>2. CASE fix'[p].pc # "idle"
  <2>1. since'[p] = since[p] /\ RepairStep(p)
    BY <1>2 DEF Repairs
  <2>2. fix'[p].gid = fix[p].gid
    BY <1>2, <2>1, InvShared, GidKept
  <2>3. PICK s : s = since[p] /\ s = since'[p]
    BY <2>1
  <2>4. ASSUME s.calm, fix'[p].gid
        PROVE  Held(fix[p])' /\ Keeps(fix[p], s.had)' /\ (s.all => Whole(fix[p])')
    <3>1. fix[p].gid /\ Held(fix[p]) /\ Keeps(fix[p], s.had) /\ (s.all => Whole(fix[p]))
      BY <2>2, <2>3, <2>4 DEF CalmAt
    <3>2. StillKeeps(p, s.had)
      BY <2>1, <3>1, RepairKeeps
    <3>3. s.all => StillWhole(p)
      BY <2>1, <3>1, RepairWhole
    <3> QED BY <1>2, <3>2, <3>3 DEF StillKeeps, StillWhole
  <2> QED BY <2>3, <2>4 DEF CalmAt
<1> QED BY <1>1, <1>2

LEMMA InitCalm == Init => Calm
<1> SUFFICES ASSUME Init PROVE Calm
  OBVIOUS
<1>1. since = [p \in Procs |-> NoSince]
  BY DEF Init
<1>2. \A p \in Procs : ~since[p].calm
  BY <1>1 DEF NoSince
<1> QED BY <1>1, <1>2 DEF Calm

LEMMA NextCalm == Inv /\ Calm /\ [Next]_vars => Calm'
<1> SUFFICES ASSUME Inv, Calm, [Next]_vars PROVE Calm'
  OBVIOUS
<1>1. DOMAIN since = Procs /\ \A p \in Procs : CalmAt(p)
  BY CalmParts
<1>2. SUFFICES DOMAIN since' = Procs /\ \A p \in Procs : CalmAt(p)'
  BY DEF Calm, CalmAt
<1>3. CASE \E p \in Procs : BeginRepair(p)
  <2>1. PICK p \in Procs : BeginRepair(p)
    BY <1>3
  <2>2. UNCHANGED <<kids, attr>> /\ \A q \in Procs \ {p} : fix'[q] = fix[q] /\ since'[q] = since[q]
    BY <1>1, <2>1 DEF BeginRepair, Begin, Inv, Repairers
  <2>3. DOMAIN since' = Procs
    BY <1>1, <2>1 DEF BeginRepair
  <2>4. CalmAt(p)'
    BY <1>1, <2>1, BeginCalm
  <2>5. \A q \in Procs \ {p} : CalmAt(q)'
    BY <1>1, <2>2, OthersCalm
  <2> QED BY <2>3, <2>4, <2>5
<1>4. CASE \E p \in Procs : Repairs(p)
  <2>1. PICK p \in Procs : Repairs(p)
    BY <1>4
  <2>2. Kept
    BY <2>1, NextInv DEF Next
  <2>3. DOMAIN since' = Procs
    BY <2>1 DEF Repairs
  <2>4. CalmAt(p)'
    BY <1>1, <2>1, <2>2, RepairCalm
  <2>5. ASSUME NEW q \in Procs \ {p} PROVE CalmAt(q)'
    <3>1. CASE UNCHANGED <<kids, attr>>
      <4>1. fix'[q] = fix[q]
        BY <2>1, InvShared, OwnStep DEF Repairs
      <4>2. since'[q] = since[q]
        BY <2>1, <3>1 DEF Repairs
      <4> QED BY <1>1, <3>1, <4>1, <4>2, OthersCalm
    <3>2. CASE ~UNCHANGED <<kids, attr>>
      <4>1. since'[q] = NoSince
        BY <2>1, <3>2 DEF Repairs
      <4> QED BY <4>1, EndedCalm
    <3> QED BY <3>1, <3>2
  <2> QED BY <2>3, <2>4, <2>5
<1>5. CASE since' = Disturbed
  <2>1. DOMAIN since' = Procs /\ \A p \in Procs : since'[p] = NoSince
    BY <1>5 DEF Disturbed
  <2> QED BY <2>1, EndedCalm
<1>6. CASE UNCHANGED <<kids, attr, fix, since>>
  BY <1>1, <1>6, OthersCalm
<1>7. BeginPut \/ Puts => since' = Disturbed \/ UNCHANGED <<kids, attr, fix, since>>
  BY DEF BeginPut, Puts, PutBegin
<1>8. Shell \/ Crash => since' = Disturbed
  BY DEF Shell, Crash
<1>9. UNCHANGED vars => UNCHANGED <<kids, attr, fix, since>>
  BY DEF vars
<1>10. CASE \E p \in Procs : Fails(p)
  <2>1. PICK p \in Procs : Fails(p)
    BY <1>10
  <2>2. UNCHANGED <<kids, attr>> /\ \A q \in Procs \ {p} : fix'[q] = fix[q]
    BY <2>1, InvShared, CallFailsFacts DEF Fails
  <2>3. /\ DOMAIN since' = Procs /\ since'[p] = NoSince
        /\ \A q \in Procs \ {p} : since'[q] = since[q]
    BY <1>1, <2>1 DEF Fails
  <2>4. \A q \in Procs \ {p} : CalmAt(q)'
    BY <1>1, <2>2, <2>3, OthersCalm
  <2> QED BY <2>3, <2>4, EndedCalm
<1>11. (\E p \in Procs : Blocks(p)) => UNCHANGED <<kids, attr, fix, since>>
  BY DEF Blocks, Block
<1> QED BY <1>3, <1>4, <1>5, <1>6, <1>7, <1>8, <1>9, <1>10, <1>11 DEF Next

\* What every repair that nobody disturbs has kept and mended so far.
THEOREM CalmInvariance == Spec => [](Inv /\ Calm)
<1>1. Init => Inv /\ Calm
  BY InitInv, InitCalm
<1>2. (Inv /\ Calm) /\ [Next]_vars => (Inv /\ Calm)'
  BY InvStep, NextCalm
<1> QED BY <1>1, <1>2, PTL DEF Spec

\* Once the full-tree pass of start or SIGHUP has walked over a cubby undisturbed and
\* without a failed call, every directory the daemon can reach is 2770 and every file is
\* as fixCubbyFD wants it, for any tree, with any owners, groups and modes, and any number
\* of repairs: what is open, what is left on the walk's stack and what is mended already
\* make up all that the daemon can open.
THEOREM ConvergedHolds == Spec => Converged
<1> DEFINE A == \A p \in Procs : Ends(p) /\ since[p].all =>
                  \A o \in Reach' :
                    IF o \in Dirs THEN attr'[o].mode = CubbyMode
                    ELSE /\ attr'[o].grp /\ "gr" \in attr'[o].mode /\ "o" \notin attr'[o].mode
                         /\ "ux" \in attr'[o].mode => "gx" \in attr'[o].mode
<1>1. Inv /\ Calm /\ [Next]_vars => [A]_vars
  <2> SUFFICES ASSUME Inv, Calm, NEW p \in Procs, Ends(p), since[p].all
               PROVE  \A o \in Reach' : Mended(o)'
    BY DEF Mended
  <2>1. Repairs(p) /\ since[p].calm /\ fix[p].gid /\ fix'[p].pc = "idle" /\ RepairStep(p)
    BY DEF Ends, Repairs
  <2>2. Held(fix[p]) /\ Whole(fix[p])
    BY <2>1 DEF Calm
  <2>3. StillWhole(p)
    BY <2>1, <2>2, RepairWhole
  <2> QED BY <2>1, <2>3 DEF StillWhole
<1> QED BY <1>1, CalmInvariance, PTL DEF Spec, Converged

\* What the daemon could reach when a repair began it can reach when the repair ends
\* undisturbed, except below directories of another group, for any tree and any number of
\* repairs: an Fchown that takes a directory or a file from it is followed by the Fchmod
\* that gives it back, and Keeps holds in between.
THEOREM AccessKeptHolds == Spec => AccessKept
<1> DEFINE A == \A p \in Procs : Ends(p) =>
                  \A o \in since[p].had : o \in Reach' \/ \E d \in Inside \cap Dirs : ~attr[d].grp /\ o \in Under(d)
<1>1. Inv /\ Calm /\ [Next]_vars => [A]_vars
  <2> SUFFICES ASSUME Inv, Calm, NEW p \in Procs, Ends(p), NEW o \in since[p].had
               PROVE  o \in Reach' \/ \E d \in Inside \cap Dirs : ~attr[d].grp /\ o \in Under(d)
    OBVIOUS
  <2>1. Repairs(p) /\ since[p].calm /\ fix[p].gid /\ fix'[p].pc = "idle" /\ RepairStep(p)
    BY DEF Ends, Repairs
  <2>2. Kept
    BY <2>1, NextInv DEF Next
  <2>3. PICK had : had = since[p].had
    OBVIOUS
  <2>4. Held(fix[p]) /\ Keeps(fix[p], had)
    BY <2>1, <2>3 DEF Calm
  <2>5. StillKeeps(p, had)
    BY <2>1, <2>2, <2>4, RepairKeeps
  <2>6. PICK q : q = fix'[p]
    OBVIOUS
  <2>7. Keeps(q, had)' /\ Excepted' = Excepted
    BY <2>1, <2>5, <2>6 DEF StillKeeps
  <2>8. Spared(q)' = {} /\ q.pc \notin Early
    BY <2>1, <2>6 DEF Spared, Early
  <2>9. had \subseteq Excused({})' \cup Excepted
    BY <2>7, <2>8 DEF Keeps
  <2>10. Excused({})' = Reach'
    BY ReachExcusedNext DEF ReachIs
  <2> QED BY <2>3, <2>9, <2>10 DEF Excepted
<1> QED BY <1>1, CalmInvariance, PTL DEF Spec, AccessKept

-----------------------------------------------------------------------------
(* Paths *)

\* s begins t.
Begins(s, t) == Len(s) <= Len(t) /\ \A i \in 1..Len(s) : s[i] = t[i]

Alike(s, t) == Begins(s, t) \/ Begins(t, s)

LEMMA PrefixBegins ==
  ASSUME NEW S, NEW T, NEW s \in Seq(S), NEW t \in Seq(T)
  PROVE  IsPrefix(s, t) <=> Begins(s, t)
<1>1. Len(s) \in Nat /\ Len(t) \in Nat
  OBVIOUS
<1>2. ASSUME Len(s) <= Len(t)
      PROVE  /\ Len(SubSeq(s, 1, Len(s))) = Len(s) /\ \A i \in 1..Len(s) : SubSeq(s, 1, Len(s))[i] = s[i]
             /\ Len(SubSeq(t, 1, Len(s))) = Len(s) /\ \A i \in 1..Len(s) : SubSeq(t, 1, Len(s))[i] = t[i]
             /\ SubSeq(s, 1, Len(s)) = [i \in 1..Len(s) |-> s[i]]
             /\ SubSeq(t, 1, Len(s)) = [i \in 1..Len(s) |-> t[i]]
  BY <1>1, <1>2
<1>3. ASSUME IsPrefix(s, t) PROVE Begins(s, t)
  BY <1>1, <1>2, <1>3 DEF IsPrefix, Begins
<1>4. ASSUME Begins(s, t) PROVE IsPrefix(s, t)
  <2>1. Len(s) <= Len(t) /\ \A i \in 1..Len(s) : s[i] = t[i]
    BY <1>4 DEF Begins
  <2>2. [i \in 1..Len(s) |-> s[i]] = [i \in 1..Len(s) |-> t[i]]
    BY <2>1
  <2> QED BY <1>2, <2>1, <2>2 DEF IsPrefix
<1> QED BY <1>3, <1>4

\* Two beginnings of the same path.
LEMMA BothBegin ==
  ASSUME NEW S, NEW s \in Seq(S), NEW u \in Seq(S), NEW t \in Seq(S), Begins(s, t), Begins(u, t)
  PROVE  Alike(s, u)
BY DEF Begins, Alike

LEMMA BeginsTrans ==
  ASSUME NEW S, NEW s \in Seq(S), NEW u \in Seq(S), NEW t \in Seq(S), Begins(s, t), Begins(t, u)
  PROVE  Begins(s, u)
BY DEF Begins

LEMMA FrontFacts ==
  ASSUME NEW S, NEW to \in Seq(S) \ {<< >>}, NEW t, t = Front(to)
  PROVE  t \in Seq(S) /\ Len(t) = Len(to) - 1 /\ (\A i \in 1..Len(t) : t[i] = to[i]) /\ Begins(t, to)
<1>1. to \in Seq(S) /\ Len(to) \in Nat \ {0}
  OBVIOUS
<1>2. t = SubSeq(to, 1, Len(to) - 1) /\ Len(to) - 1 \in Nat /\ Len(to) - 1 <= Len(to)
  BY <1>1 DEF Front
<1>3. t \in Seq(S)
  BY <1>1, <1>2
<1>4. Len(t) = Len(to) - 1
  <2>1. PICK k : k = Len(to) - 1
    OBVIOUS
  <2>2. CASE k = 0
    BY <1>1, <1>2, <2>1, <2>2
  <2>3. CASE k # 0
    <3>1. 1 <= k /\ k <= Len(to) /\ k \in 1..Len(to) /\ t = SubSeq(to, 1, k)
      BY <1>1, <1>2, <2>1, <2>3
    <3> QED BY <1>1, <2>1, <3>1
  <2> QED BY <2>2, <2>3
<1>5. \A i \in 1..Len(t) : t[i] = to[i]
  BY <1>1, <1>2
<1> QED BY <1>1, <1>3, <1>4, <1>5 DEF Begins

-----------------------------------------------------------------------------
(* Where paths lead *)

Step1(x, n) == IF x \in Dirs /\ Searches("user", x) THEN kids[x][n] ELSE Nil

\* A table of what the first names of the path lead to, up to the n-th.
Lookups(f, top, path, n) == f = [i \in 0..n |-> IF i = 0 THEN top ELSE Step1(f[i - 1], path[i])]

LEMMA LookupsExist ==
  ASSUME NEW top, NEW path, NEW n \in Nat
  PROVE  \E f : Lookups(f, top, path, n)
<1> DEFINE S == {m \in Nat : \E f : Lookups(f, top, path, m)}
<1>1. 0 \in S
  <2> DEFINE f == [k \in 0..0 |-> top]
  <2>1. f = [k \in 0..0 |-> IF k = 0 THEN top ELSE Step1(f[k - 1], path[k])]
    OBVIOUS
  <2>2. Lookups(f, top, path, 0)
    BY <2>1 DEF Lookups
  <2> QED BY <2>2
<1>2. ASSUME NEW m \in Nat, m \in S PROVE m + 1 \in S
  <2>1. PICK f : Lookups(f, top, path, m)
    BY <1>2
  <2>2. /\ f = [k \in 0..m |-> f[k]] /\ DOMAIN f = 0..m
        /\ \A k \in 0..m : f[k] = IF k = 0 THEN top ELSE Step1(f[k - 1], path[k])
    BY <2>1 DEF Lookups
  <2> DEFINE last == Step1(f[m], path[m + 1])
             g == [k \in 0..(m + 1) |-> IF k = m + 1 THEN last ELSE f[k]]
  <2>3. ASSUME NEW k \in 0..(m + 1)
        PROVE  g[k] = IF k = 0 THEN top ELSE Step1(g[k - 1], path[k])
    <3>1. CASE k = m + 1
      <4>1. k # 0 /\ k - 1 = m /\ m \in 0..(m + 1) /\ m # m + 1
        BY <3>1
      <4>2. g[k] = last /\ g[k - 1] = f[m]
        BY <3>1, <4>1
      <4> QED BY <3>1, <4>1, <4>2
    <3>2. CASE k # m + 1 /\ k # 0
      <4>1. k \in 0..m /\ k - 1 \in 0..(m + 1) /\ k - 1 # m + 1
        BY <3>2
      <4>2. g[k] = f[k] /\ g[k - 1] = f[k - 1]
        BY <3>2, <4>1
      <4> HIDE DEF g
      <4> QED BY <2>2, <3>2, <4>1, <4>2
    <3>3. CASE k = 0
      <4>1. g[k] = f[0] /\ 0 \in 0..m
        BY <3>3
      <4> QED BY <2>2, <3>3, <4>1
    <3> QED BY <3>1, <3>2, <3>3
  <2>4. g = [k \in 0..(m + 1) |-> g[k]]
    OBVIOUS
  <2> HIDE DEF g
  <2>5. g = [k \in 0..(m + 1) |-> IF k = 0 THEN top ELSE Step1(g[k - 1], path[k])]
    BY <2>3, <2>4
  <2>6. Lookups(g, top, path, m + 1)
    BY <2>5 DEF Lookups
  <2> QED BY <2>6
<1> HIDE DEF S
<1>3. n \in S
  BY <1>1, <1>2, NatSets
<1> QED BY <1>3 DEF S

\* What a lookup finds, it finds from directory to directory.
LEMMA LookupChain ==
  ASSUME NEW top, NEW path \in Seq(Names), Lookup(top, path) # Nil
  PROVE  \E f : /\ f[0] = top /\ f[Len(path)] = Lookup(top, path)
                /\ \A i \in 1..Len(path) : f[i - 1] \in Dirs /\ f[i] = kids[f[i - 1]][path[i]]
<1> DEFINE n == Len(path)
<1>1. n \in Nat
  OBVIOUS
<1>2. PICK f : Lookups(f, top, path, n) /\ Lookup(top, path) = f[n]
  <2> DEFINE f == CHOOSE f : Lookups(f, top, path, n)
  <2>1. Lookups(f, top, path, n)
    BY <1>1, LookupsExist
  <2>2. Lookup(top, path) = f[n]
    BY DEF Lookup, Lookups, Step1
  <2> QED BY <2>1, <2>2
<1>3. f[0] = top /\ \A i \in 1..n : f[i] = Step1(f[i - 1], path[i])
  BY <1>1, <1>2 DEF Lookups
<1>4. Nil \notin Dirs
  BY TreeAssumption DEF Objects
<1>5. \A i \in 1..n : f[i] # Nil => f[i - 1] \in Dirs /\ f[i] = kids[f[i - 1]][path[i]]
  BY <1>3 DEF Step1
<1> DEFINE S == {j \in Nat : j <= n => f[n - j] # Nil}
<1>6. 0 \in S
  BY <1>1, <1>2
<1>7. ASSUME NEW j \in Nat, j \in S PROVE j + 1 \in S
  <2> SUFFICES ASSUME j + 1 <= n PROVE f[n - (j + 1)] # Nil
    OBVIOUS
  <2>1. n - j \in 1..n /\ (n - j) - 1 = n - (j + 1) /\ f[n - j] # Nil
    BY <1>1, <1>7
  <2>2. f[(n - j) - 1] \in Dirs
    BY <1>5, <2>1
  <2> QED BY <1>4, <2>1, <2>2
<1> HIDE DEF S
<1>8. Nat \subseteq S
  BY <1>6, <1>7, NatSets
<1>9. ASSUME NEW i \in 1..n PROVE f[i] # Nil
  <2>1. n - i \in Nat /\ n - (n - i) = i /\ n - i <= n
    BY <1>1
  <2>2. n - i \in S
    BY <1>8, <2>1
  <2> QED BY <2>1, <2>2 DEF S
<1> QED BY <1>2, <1>3, <1>5, <1>9

\* The absolute path a, which begins with a directory of Tops, leads to o.
Leads(a, o) ==
  \E c : /\ c[1] = a[1] /\ c[Len(a)] = o
         /\ \A i \in 1..(Len(a) - 1) : c[i] \in Dirs /\ c[i + 1] = kids[c[i]][a[i + 1]]

Absolute == {a \in Seq(Tops \cup Names) : Len(a) > 0 /\ a[1] \in Tops /\ \A i \in 2..Len(a) : a[i] \in Names}

LEMMA SourceLeads ==
  ASSUME NEW a \in Absolute, NEW o, o = SourceAt(a), o # Nil
  PROVE  Leads(a, o)
<1>1. a \in Seq(Tops \cup Names) /\ Len(a) \in Nat \ {0} /\ \A i \in 2..Len(a) : a[i] \in Names
  BY DEF Absolute
<1>2. PICK t : t = Tail(a)
  OBVIOUS
<1>3. Len(t) = Len(a) - 1 /\ (\A i \in 1..Len(t) : t[i] = a[i + 1]) /\ Head(a) = a[1] /\ t \in Seq(Tops \cup Names)
  BY <1>1, <1>2
<1>4. t \in Seq(Names)
  <2>1. \A i \in 1..Len(t) : t[i] \in Names
    BY <1>1, <1>3
  <2> QED BY <1>3, <2>1
<1>5. PICK f : /\ f[0] = a[1] /\ f[Len(t)] = o
               /\ \A i \in 1..Len(t) : f[i - 1] \in Dirs /\ f[i] = kids[f[i - 1]][t[i]]
  <2>1. PICK top : top = a[1] /\ Lookup(top, t) = o
    BY <1>2, <1>3 DEF SourceAt
  <2> QED BY <1>4, <2>1, LookupChain
<1> DEFINE c == [i \in 1..Len(a) |-> f[i - 1]]
<1>6. c[1] = a[1] /\ c[Len(a)] = o
  BY <1>1, <1>3, <1>5
<1>7. ASSUME NEW i \in 1..(Len(a) - 1) PROVE c[i] \in Dirs /\ c[i + 1] = kids[c[i]][a[i + 1]]
  <2>1. i \in 1..Len(t) /\ c[i] = f[i - 1] /\ c[i + 1] = f[i] /\ t[i] = a[i + 1]
    BY <1>1, <1>3
  <2> QED BY <1>5, <2>1
<1> QED BY <1>6, <1>7 DEF Leads

\* In the cubby.
In(to) == <<Parent, Cubby>> \o to

LEMMA InFacts ==
  ASSUME NEW to \in Seq(Names)
  PROVE  /\ In(to) \in Absolute /\ Len(In(to)) = Len(to) + 2 /\ In(to)[1] = Parent /\ In(to)[2] = Cubby
         /\ \A i \in 1..Len(to) : In(to)[i + 2] = to[i]
<1>1. Parent \in Tops /\ Cubby \in Names
  BY AccessAssumption
<1>2. PICK S : S = Tops \cup Names
  OBVIOUS
<1>3. <<Parent, Cubby>> \in Seq(S) /\ to \in Seq(S) /\ Len(to) \in Nat
  BY <1>1, <1>2
<1>4. /\ In(to) \in Seq(S) /\ Len(In(to)) = Len(to) + 2 /\ In(to)[1] = Parent /\ In(to)[2] = Cubby
      /\ \A i \in 1..Len(to) : In(to)[i + 2] = to[i]
  BY <1>3 DEF In
<1>5. ASSUME NEW i \in 2..Len(In(to)) PROVE In(to)[i] \in Names
  <2>1. CASE i = 2
    BY <1>1, <1>4, <2>1
  <2>2. CASE i # 2
    <3>1. i - 2 \in 1..Len(to) /\ (i - 2) + 2 = i /\ to[i - 2] \in Names
      BY <1>3, <1>4, <2>2
    <3> QED BY <1>4, <3>1
  <2> QED BY <2>1, <2>2
<1> QED BY <1>1, <1>2, <1>3, <1>4, <1>5 DEF Absolute

\* A lookup in the cubby.
LEMMA LookupLeads ==
  ASSUME NEW to \in Seq(Names), NEW o, o = Lookup(Root, to), o # Nil
  PROVE  Leads(In(to), o)
<1>1. PICK f : /\ f[0] = Root /\ f[Len(to)] = o
               /\ \A i \in 1..Len(to) : f[i - 1] \in Dirs /\ f[i] = kids[f[i - 1]][to[i]]
  <2>1. PICK top : top = Root /\ Lookup(top, to) = o
    OBVIOUS
  <2> QED BY <2>1, LookupChain
<1>2. PICK a : a = In(to)
  OBVIOUS
<1>3. /\ Len(to) \in Nat /\ Len(a) = Len(to) + 2 /\ a[1] = Parent /\ a[2] = Cubby
      /\ \A i \in 1..Len(to) : a[i + 2] = to[i]
  BY <1>2, InFacts
<1> DEFINE c == [i \in 1..Len(a) |-> IF i = 1 THEN Parent ELSE f[i - 2]]
<1>4. c[1] = a[1] /\ c[Len(a)] = o
  BY <1>1, <1>3
<1>5. ASSUME NEW i \in 1..(Len(a) - 1) PROVE c[i] \in Dirs /\ c[i + 1] = kids[c[i]][a[i + 1]]
  <2>1. CASE i = 1
    <3>1. c[1] = Parent /\ c[2] = f[0]
      BY <1>3
    <3> QED BY <1>1, <1>3, <2>1, <3>1, Constants DEF Root
  <2>2. CASE i # 1
    <3>1. i - 1 \in 1..Len(to) /\ (i - 1) - 1 = i - 2 /\ (i - 1) + 2 = i + 1
      BY <1>3, <2>2
    <3>2. c[i] = f[i - 2] /\ c[i + 1] = f[i - 1]
      BY <1>3, <2>2
    <3>3. a[i + 1] = to[i - 1]
      BY <1>3, <3>1
    <3> QED BY <1>1, <3>1, <3>2, <3>3
  <2> QED BY <2>1, <2>2
<1>6. Leads(a, o)
  BY <1>4, <1>5 DEF Leads
<1> QED BY <1>2, <1>6

\* No two paths lead to the same object.
LEMMA OnePath ==
  ASSUME Entries, NEW a \in Absolute, NEW b \in Absolute, NEW o, o # Nil, Leads(a, o), Leads(b, o)
  PROVE  Len(a) = Len(b) /\ \A i \in 1..Len(a) : a[i] = b[i]
<1>1. PICK c : /\ c[1] = a[1] /\ c[Len(a)] = o
               /\ \A i \in 1..(Len(a) - 1) : c[i] \in Dirs /\ c[i + 1] = kids[c[i]][a[i + 1]]
  BY DEF Leads
<1>2. PICK e : /\ e[1] = b[1] /\ e[Len(b)] = o
               /\ \A i \in 1..(Len(b) - 1) : e[i] \in Dirs /\ e[i + 1] = kids[e[i]][b[i + 1]]
  BY DEF Leads
<1>3. PICK m, k : m = Len(a) /\ k = Len(b)
  OBVIOUS
<1>4. /\ m \in Nat \ {0} /\ k \in Nat \ {0} /\ a[1] \in Tops /\ b[1] \in Tops
      /\ (\A i \in 2..m : a[i] \in Names) /\ (\A i \in 2..k : b[i] \in Names)
  BY <1>3 DEF Absolute
<1>5. Nil \notin Dirs
  BY TreeAssumption DEF Objects
<1> DEFINE S == {j \in Nat : (j < m /\ j < k) => /\ c[m - j] = e[k - j] /\ c[m - j] # Nil
                                                /\ (j > 0 => a[m - j + 1] = b[k - j + 1])}
<1>6. 0 \in S
  BY <1>1, <1>2, <1>3, <1>4
<1>7. ASSUME NEW j \in Nat, j \in S PROVE j + 1 \in S
  <2> SUFFICES ASSUME j + 1 < m, j + 1 < k
               PROVE  /\ c[m - (j + 1)] = e[k - (j + 1)] /\ c[m - (j + 1)] # Nil
                      /\ a[m - (j + 1) + 1] = b[k - (j + 1) + 1]
    OBVIOUS
  <2>1. PICK x, y : x = m - (j + 1) /\ y = k - (j + 1)
    OBVIOUS
  <2>2. /\ x \in 1..(m - 1) /\ y \in 1..(k - 1) /\ x + 1 = m - j /\ y + 1 = k - j
        /\ x + 1 \in 2..m /\ y + 1 \in 2..k
    BY <1>4, <2>1
  <2>3. c[x + 1] = e[y + 1] /\ c[x + 1] # Nil
    BY <1>4, <1>7, <2>2
  <2>4. c[x] \in Dirs /\ c[x + 1] = kids[c[x]][a[x + 1]] /\ e[y] \in Dirs /\ e[y + 1] = kids[e[y]][b[y + 1]]
    BY <1>1, <1>2, <1>3, <2>2
  <2>5. a[x + 1] \in Names /\ b[y + 1] \in Names
    BY <1>4, <2>2
  <2>6. c[x] = e[y] /\ a[x + 1] = b[y + 1]
    <3>1. PICK u \in Dirs, v \in Dirs, r \in Names, s \in Names : u = c[x] /\ v = e[y] /\ r = a[x + 1] /\ s = b[y + 1]
      BY <2>4, <2>5
    <3>2. kids[u][r] = kids[v][s] /\ kids[u][r] # Nil
      BY <2>3, <2>4, <3>1
    <3>3. u = v /\ r = s
      BY <3>2 DEF Entries
    <3> QED BY <3>1, <3>3
  <2> QED BY <1>5, <2>1, <2>4, <2>6
<1> HIDE DEF S
<1>8. Nat \subseteq S
  BY <1>6, <1>7, NatSets
<1>9. ASSUME NEW j \in Nat, j < m, j < k
      PROVE  c[m - j] = e[k - j] /\ (j > 0 => a[m - j + 1] = b[k - j + 1])
  BY <1>8, <1>9 DEF S
<1>10. ~(m < k)
  <2> SUFFICES ASSUME m < k PROVE FALSE
    OBVIOUS
  <2>1. m - 1 \in Nat /\ m - (m - 1) = 1 /\ k - (m - 1) = k - m + 1
    BY <1>4
  <2>2. c[1] = e[k - m + 1]
    BY <1>4, <1>9, <2>1
  <2>3. k - m \in 1..(k - 1) /\ k - m + 1 \in 2..k
    BY <1>4
  <2>4. e[k - m + 1] = kids[e[k - m]][b[k - m + 1]] /\ e[k - m] \in Dirs /\ b[k - m + 1] \in Names
    BY <1>2, <1>3, <1>4, <2>3
  <2>5. e[k - m + 1] \notin Tops
    BY <2>4, TreeAssumption DEF Entries, Theirs, Objects
  <2> QED BY <1>1, <1>4, <2>2, <2>5
<1>11. ~(k < m)
  <2> SUFFICES ASSUME k < m PROVE FALSE
    OBVIOUS
  <2>1. k - 1 \in Nat /\ k - (k - 1) = 1 /\ m - (k - 1) = m - k + 1
    BY <1>4
  <2>2. e[1] = c[m - k + 1]
    BY <1>4, <1>9, <2>1
  <2>3. m - k \in 1..(m - 1) /\ m - k + 1 \in 2..m
    BY <1>4
  <2>4. c[m - k + 1] = kids[c[m - k]][a[m - k + 1]] /\ c[m - k] \in Dirs /\ a[m - k + 1] \in Names
    BY <1>1, <1>3, <1>4, <2>3
  <2>5. c[m - k + 1] \notin Tops
    BY <2>4, TreeAssumption DEF Entries, Theirs, Objects
  <2> QED BY <1>2, <1>4, <2>2, <2>5
<1>12. m = k
  BY <1>4, <1>10, <1>11
<1>13. ASSUME NEW i \in 1..m PROVE a[i] = b[i]
  <2>1. CASE i = 1
    <3>1. m - 1 \in Nat /\ m - (m - 1) = 1
      BY <1>4
    <3>2. c[1] = e[1]
      BY <1>4, <1>9, <1>12, <3>1
    <3> QED BY <1>1, <1>2, <2>1, <3>2
  <2>2. CASE i # 1
    <3>1. m - i + 1 \in Nat /\ m - i + 1 < m /\ m - i + 1 > 0 /\ m - (m - i + 1) + 1 = i
      BY <1>4, <2>2
    <3> QED BY <1>9, <1>12, <3>1
  <2> QED BY <2>1, <2>2
<1> QED BY <1>3, <1>12, <1>13

\* A path goes on leading to o when an entry that is no directory is replaced, unless it
\* was the entry of o.
LEMMA LeadsKept ==
  ASSUME Entries, NEW p \in Dirs, NEW n \in Names, NEW v, kids' = [kids EXCEPT ![p][n] = v],
         kids[p][n] \notin Dirs,
         NEW a \in Absolute, NEW o, Leads(a, o), o # kids[p][n]
  PROVE  Leads(a, o)'
<1>1. PICK c : /\ c[1] = a[1] /\ c[Len(a)] = o
               /\ \A i \in 1..(Len(a) - 1) : c[i] \in Dirs /\ c[i + 1] = kids[c[i]][a[i + 1]]
  BY DEF Leads
<1>2. Len(a) \in Nat \ {0} /\ \A i \in 2..Len(a) : a[i] \in Names
  BY DEF Absolute
<1>3. \A e \in Dirs, m \in Names : e # p \/ m # n => kids'[e][m] = kids[e][m]
  BY DEF Entries
<1>4. ASSUME NEW i \in 1..(Len(a) - 1) PROVE c[i + 1] = kids'[c[i]][a[i + 1]]
  <2>1. c[i] \in Dirs /\ c[i + 1] = kids[c[i]][a[i + 1]] /\ a[i + 1] \in Names
    BY <1>1, <1>2
  <2>2. c[i] # p \/ a[i + 1] # n
    <3> SUFFICES ASSUME c[i] = p, a[i + 1] = n PROVE FALSE
      OBVIOUS
    <3>1. c[i + 1] \notin Dirs
      BY <2>1
    <3>2. CASE i + 1 = Len(a)
      BY <1>1, <2>1, <3>2
    <3>3. CASE i + 1 # Len(a)
      <4>1. i + 1 \in 1..(Len(a) - 1)
        BY <1>2, <3>3
      <4> QED BY <1>1, <3>1, <4>1
    <3> QED BY <3>2, <3>3
  <2> QED BY <1>3, <2>1, <2>2
<1> QED BY <1>1, <1>4 DEF Leads

\* v takes the place of what was no directory.
Replaces(d, n, v) == kids' = [kids EXCEPT ![d][n] = v] /\ kids[d][n] \notin Dirs

\* The path b is a with one name more.
Longer(b, a, n) == Len(b) = Len(a) + 1 /\ b[Len(b)] = n /\ \A i \in 1..Len(a) : b[i] = a[i]

\* What is made in the directory that the path a leads to.
LEMMA LeadsOn ==
  ASSUME Entries, NEW d \in Dirs, NEW n \in Names, NEW v, Replaces(d, n, v),
         NEW a \in Absolute, Leads(a, d), NEW b \in Absolute, Longer(b, a, n)
  PROVE  Leads(b, v)'
<1>0. /\ kids' = [kids EXCEPT ![d][n] = v] /\ kids[d][n] \notin Dirs
      /\ Len(b) = Len(a) + 1 /\ b[Len(b)] = n /\ \A i \in 1..Len(a) : b[i] = a[i]
  BY DEF Replaces, Longer
<1>1. Leads(a, d)'
  BY <1>0, LeadsKept
<1>2. PICK c : /\ c[1] = a[1] /\ c[Len(a)] = d
               /\ \A i \in 1..(Len(a) - 1) : c[i] \in Dirs /\ c[i + 1] = kids'[c[i]][a[i + 1]]
  BY <1>1 DEF Leads
<1>3. Len(a) \in Nat \ {0} /\ kids'[d][n] = v
  BY <1>0 DEF Absolute, Entries
<1> DEFINE e == [i \in 1..Len(b) |-> IF i = Len(b) THEN v ELSE c[i]]
<1>4. e[1] = b[1] /\ e[Len(b)] = v
  BY <1>0, <1>2, <1>3
<1>5. ASSUME NEW i \in 1..(Len(b) - 1) PROVE e[i] \in Dirs /\ e[i + 1] = kids'[e[i]][b[i + 1]]
  <2>1. CASE i = Len(a)
    <3>1. e[i] = d /\ e[i + 1] = v /\ b[i + 1] = n
      BY <1>0, <1>2, <1>3, <2>1
    <3> QED BY <1>3, <3>1
  <2>2. CASE i # Len(a)
    <3>1. i \in 1..(Len(a) - 1) /\ i + 1 \in 1..Len(a)
      BY <1>0, <1>3, <2>2
    <3>2. e[i] = c[i] /\ e[i + 1] = c[i + 1] /\ b[i + 1] = a[i + 1]
      BY <1>0, <1>3, <3>1
    <3> QED BY <1>2, <3>1, <3>2
  <2> QED BY <2>1, <2>2
<1> QED BY <1>4, <1>5 DEF Leads

\* What is made at a path in the cubby.
LEMMA MadeLeads ==
  ASSUME Entries, NEW to \in Seq(Names) \ {<< >>}, NEW d \in Dirs, d = Lookup(Root, Front(to)),
         NEW v, kids' = [kids EXCEPT ![d][Last(to)] = v], kids[d][Last(to)] \notin Dirs
  PROVE  Leads(In(to), v)'
<1>1. PICK t, n : t = Front(to) /\ n = Last(to)
  OBVIOUS
<1>2. Len(to) \in Nat \ {0} /\ n \in Names /\ n = to[Len(to)]
  <2>1. to \in Seq(Names) /\ Len(to) \in Nat \ {0}
    OBVIOUS
  <2> QED BY <1>1, <2>1 DEF Last
<1>3. t \in Seq(Names) /\ Len(t) = Len(to) - 1 /\ \A i \in 1..Len(t) : t[i] = to[i]
  BY <1>1, FrontFacts
<1>4. d # Nil
  BY TreeAssumption DEF Objects
<1>5. Leads(In(t), d)
  BY <1>1, <1>3, <1>4, LookupLeads
<1>6. PICK a, b : a = In(t) /\ b = In(to)
  OBVIOUS
<1>7. /\ a \in Absolute /\ Len(a) = Len(t) + 2 /\ a[1] = Parent /\ a[2] = Cubby
      /\ \A i \in 1..Len(t) : a[i + 2] = t[i]
  BY <1>3, <1>6, InFacts
<1>8. /\ b \in Absolute /\ Len(b) = Len(to) + 2 /\ b[1] = Parent /\ b[2] = Cubby
      /\ \A i \in 1..Len(to) : b[i + 2] = to[i]
  BY <1>6, InFacts
<1>9. Len(b) = Len(a) + 1 /\ b[Len(b)] = n
  BY <1>2, <1>3, <1>7, <1>8
<1>10. ASSUME NEW i \in 1..Len(a) PROVE b[i] = a[i]
  <2>1. CASE i \in {1, 2}
    BY <1>7, <1>8, <2>1
  <2>2. CASE i \notin {1, 2}
    <3>1. i - 2 \in 1..Len(t) /\ i - 2 \in 1..Len(to) /\ (i - 2) + 2 = i
      BY <1>2, <1>3, <1>7, <2>2
    <3> QED BY <1>3, <1>7, <1>8, <3>1
  <2> QED BY <2>1, <2>2
<1>11. Leads(b, v)'
  <2>1. Replaces(d, n, v) /\ Leads(a, d)
    BY <1>1, <1>5, <1>6 DEF Replaces
  <2>2. Longer(b, a, n)
    BY <1>9, <1>10 DEF Longer
  <2> QED BY <1>2, <1>7, <1>8, <2>1, <2>2, LeadsOn
<1> QED BY <1>6, <1>11

-----------------------------------------------------------------------------
(* What an undisturbed put has made and has left to do *)

\* An item of a put from src to target.
Fits(i, src, target) ==
  /\ Alike(i.to, target)
  /\ i.k = "source" => i.from = src /\ i.to = target
  /\ i.k \in {"into", "list", "file"} =>
       /\ i.from \in Absolute /\ Begins(src, i.from) /\ Begins(target, i.to)
       /\ ~RefuseSelfCopy(src, target)

FitAll(items, src, target) == \A i \in 1..Len(items) : Fits(items[i], src, target)

Placed(o) == \E d \in Dirs, n \in Names : kids[d][n] = o

\* What was made is on the way to the target or below it, as long as it has a place at all.
MadeAt(made, target) ==
  /\ made \subseteq Objects /\ made \cap fresh = {}
  /\ \A o \in made : Placed(o) => \E to \in Seq(Names) : Alike(to, target) /\ Leads(In(to), o)

CopyAt(p, target) ==
  /\ p.pc \in {"find", "mkdir"} => p.made = {}
  /\ p.pc = "work" => p.root = Root /\ Root \in Dirs
  /\ MadeAt(p.made, target)
  /\ FitAll(p.todo, p.src, target)

Copying == goal.calm => CopyAt(put, Target)

LEMMA TargetType ==
  ASSUME put.src \in Sources, put.dest \in Dests
  PROVE  Target \in Seq(Names) /\ Target # << >> /\ Begins(put.dest, Target)
<1>1. put.dest \in Seq(Names) /\ Last(put.src) \in Names
  BY SourceType
<1>2. PICK n \in Names, d \in Seq(Names) : n = Last(put.src) /\ d = put.dest
  BY <1>1
<1>3. PICK t : t = d \o <<n>>
  OBVIOUS
<1>4. <<n>> \in Seq(Names) /\ Len(<<n>>) = 1
  OBVIOUS
<1>5. Len(d) \in Nat /\ t \in Seq(Names) /\ Len(t) = Len(d) + 1 /\ \A i \in 1..Len(d) : t[i] = d[i]
  BY <1>3, <1>4
<1>6. Begins(d, t) /\ t # << >>
  BY <1>5 DEF Begins
<1> QED BY <1>2, <1>3, <1>5, <1>6 DEF Target

LEMMA SourceAbsolute ==
  ASSUME NEW s \in Sources
  PROVE  s \in Absolute
<1>1. s \in Seq(Tops \cup Names) /\ Len(s) \in Nat /\ Len(s) > 1 /\ Head(s) \in Tops /\ Tail(s) \in Seq(Names)
  BY SourceType
<1>2. s[1] \in Tops
  BY <1>1
<1>3. ASSUME NEW i \in 2..Len(s) PROVE s[i] \in Names
  <2>1. i - 1 \in 1..Len(Tail(s)) /\ Tail(s)[i - 1] = s[i]
    BY <1>1
  <2> QED BY <1>1, <2>1
<1> QED BY <1>1, <1>2, <1>3 DEF Absolute

\* Without its first item, and with new ones before the rest.
LEMMA FitTail ==
  ASSUME NEW s \in Seq(Items), s # << >>, NEW src, NEW target, FitAll(s, src, target)
  PROVE  FitAll(Tail(s), src, target) /\ Fits(Head(s), src, target)
<1>1. Len(s) \in Nat \ {0} /\ Len(Tail(s)) = Len(s) - 1 /\ Head(s) = s[1] /\ 1 \in 1..Len(s)
  OBVIOUS
<1>2. \A i \in 1..Len(Tail(s)) : i + 1 \in 1..Len(s) /\ Tail(s)[i] = s[i + 1]
  BY <1>1
<1> QED BY <1>1, <1>2 DEF FitAll

LEMMA FitJoin ==
  ASSUME NEW s \in Seq(Items), NEW t \in Seq(Items), NEW src, NEW target, FitAll(s, src, target),
         FitAll(t, src, target)
  PROVE  FitAll(s \o t, src, target)
<1>1. Len(s) \in Nat /\ Len(t) \in Nat /\ Len(s \o t) = Len(s) + Len(t)
  OBVIOUS
<1>2. ASSUME NEW i \in 1..Len(s \o t) PROVE Fits((s \o t)[i], src, target)
  <2>1. CASE i <= Len(s)
    <3>1. i \in 1..Len(s) /\ (s \o t)[i] = s[i]
      BY <1>1, <2>1
    <3> QED BY <3>1 DEF FitAll
  <2>2. CASE ~(i <= Len(s))
    <3>1. i - Len(s) \in 1..Len(t) /\ (s \o t)[i] = t[i - Len(s)]
      BY <1>1, <2>2
    <3> QED BY <3>1 DEF FitAll
  <2> QED BY <2>1, <2>2
<1> QED BY <1>2 DEF FitAll

LEMMA FitOne ==
  ASSUME NEW i, NEW src, NEW target, Fits(i, src, target)
  PROVE  FitAll(<<i>>, src, target)
<1>1. Len(<<i>>) = 1 /\ <<i>>[1] = i
  OBVIOUS
<1> QED BY <1>1 DEF FitAll

\* mkdirAll of a path that begins the target, or a path below it.
LEMMA FitMkdirAll ==
  ASSUME NEW rel \in Seq(Names), NEW src, NEW target \in Seq(Names), NEW to \in Seq(Names),
         Begins(rel, to), Begins(target, to)
  PROVE  FitAll(MkdirAll(rel), src, target)
<1>1. Len(rel) \in Nat /\ Len(to) \in Nat
  OBVIOUS
<1>2. Len(MkdirAll(rel)) = Len(rel) /\ \A i \in 1..Len(rel) : MkdirAll(rel)[i] = Item("mkdir", << >>, SubSeq(rel, 1, i))
  BY <1>1 DEF MkdirAll
<1>3. ASSUME NEW i \in 1..Len(rel) PROVE Fits(Item("mkdir", << >>, SubSeq(rel, 1, i)), src, target)
  <2>1. PICK s : s = SubSeq(rel, 1, i)
    OBVIOUS
  <2>2. s \in Seq(Names) /\ Len(s) = i /\ \A j \in 1..i : s[j] = rel[j]
    BY <1>1, <2>1
  <2>3. Begins(s, to)
    BY <1>1, <2>2 DEF Begins
  <2>4. Alike(s, target)
    BY <2>2, <2>3, BothBegin
  <2>5. PICK x : x = Item("mkdir", << >>, s)
    OBVIOUS
  <2>6. x.k = "mkdir" /\ x.to = s
    BY <2>5 DEF Item
  <2>7. Fits(x, src, target)
    BY <2>4, <2>6 DEF Fits
  <2> QED BY <2>1, <2>5, <2>7
<1> QED BY <1>2, <1>3 DEF FitAll

\* Steps that make nothing, or nothing of the put's.
LEMMA MadeSame ==
  ASSUME NEW made, NEW target, MadeAt(made, target), UNCHANGED kids, fresh' \subseteq fresh
  PROVE  MadeAt(made, target)'
<1>1. \A o : Placed(o)' = Placed(o)
  BY DEF Placed
<1>2. \A a, o : Leads(a, o)' = Leads(a, o)
  BY DEF Leads
<1> QED BY <1>1, <1>2 DEF MadeAt

LEMMA MadeBeside ==
  ASSUME Entries, Inodes, NEW made, NEW target, MadeAt(made, target),
         NEW d \in Dirs, NEW n \in Names, kids[d][n] \notin Dirs,
         NEW v \in fresh, kids' = [kids EXCEPT ![d][n] = v], fresh' = fresh \ {v}
  PROVE  MadeAt(made, target)'
<1>1. made \subseteq Objects /\ made \cap fresh' = {} /\ v \notin made
  BY DEF MadeAt
<1>2. \A e \in Dirs, m \in Names : e # d \/ m # n => kids'[e][m] = kids[e][m]
  BY DEF Entries
<1>3. kids'[d][n] = v
  BY DEF Entries
<1>4. ASSUME NEW o \in made, Placed(o)'
      PROVE  \E to \in Seq(Names) : Alike(to, target) /\ Leads(In(to), o)'
  <2>1. PICK e \in Dirs, m \in Names : kids'[e][m] = o
    BY <1>4 DEF Placed
  <2>2. e # d \/ m # n
    BY <1>1, <1>3, <2>1
  <2>3. kids[e][m] = o
    BY <1>2, <2>1, <2>2
  <2>4. o # Nil
    BY <1>1, TreeAssumption
  <2>5. o # kids[d][n]
    BY <2>2, <2>3, <2>4 DEF Entries
  <2>6. Placed(o)
    BY <2>3 DEF Placed
  <2>7. PICK to \in Seq(Names) : Alike(to, target) /\ Leads(In(to), o)
    BY <2>6 DEF MadeAt
  <2>8. PICK a \in Absolute : a = In(to)
    BY InFacts
  <2>9. Leads(a, o)'
    BY <2>5, <2>7, <2>8, LeadsKept
  <2> QED BY <2>7, <2>8, <2>9
<1> QED BY <1>1, <1>4 DEF MadeAt

LEMMA MadeMore ==
  ASSUME NEW made, NEW target, MadeAt(made, target)', NEW v \in Objects, v \notin fresh',
         NEW to \in Seq(Names), Alike(to, target), Leads(In(to), v)'
  PROVE  MadeAt(made \cup {v}, target)'
BY DEF MadeAt

-----------------------------------------------------------------------------
(* The steps of the put *)

\* A put that goes on from p to q, and one that has ended.
LEMMA GoesOn ==
  ASSUME NEW p, p = put', p.src = put.src, p.dest = put.dest, NEW target, target = Target,
         goal'.calm => CopyAt(p, target)'
  PROVE  Copying'
<1>1. Target' = target
  BY DEF Target
<1> QED BY <1>1 DEF Copying

LEMMA PutOver ==
  ASSUME goal' = NoGoal
  PROVE  Copying'
BY DEF Copying, NoGoal

\* Nothing of the put changes, and no entry but that of a cubby that was not there.
LEMMA CopyStill ==
  ASSUME Inv, Copying, put' = put, goal' = goal \/ goal' = NoGoal, fresh' \subseteq fresh,
         \/ UNCHANGED kids
         \/ \E v \in fresh : Root = Nil /\ kids' = [kids EXCEPT ![Parent][Cubby] = v] /\ fresh' = fresh \ {v}
  PROVE  Copying'
<1>1. CASE goal' = NoGoal
  BY <1>1, PutOver
<1>2. CASE goal' = goal
  <2>1. PICK p, t : p = put /\ t = Target
    OBVIOUS
  <2>2. ASSUME goal.calm PROVE CopyAt(p, t)'
    <3>1. CopyAt(p, t)
      BY <2>1, <2>2 DEF Copying
    <3>2. MadeAt(p.made, t)' /\ (p.pc = "work" => UNCHANGED kids)
      <4>1. CASE UNCHANGED kids
        BY <3>1, <4>1, MadeSame DEF CopyAt
      <4>2. CASE ~UNCHANGED kids
        <5>1. PICK v \in fresh : Root = Nil /\ kids' = [kids EXCEPT ![Parent][Cubby] = v] /\ fresh' = fresh \ {v}
          BY <4>2
        <5>2. Root \notin Dirs
          BY <5>1, TreeAssumption DEF Objects
        <5>3. MadeAt(p.made, t)'
          BY <3>1, <5>1, <5>2, MadeBeside, Constants DEF CopyAt, Inv, Root
        <5> QED BY <3>1, <5>2, <5>3 DEF CopyAt
      <4> QED BY <4>1, <4>2
    <3>3. p.pc = "work" => p.root = Root' /\ Root' \in Dirs
      BY <3>1, <3>2 DEF CopyAt, Root
    <3> QED BY <3>1, <3>2, <3>3 DEF CopyAt
  <2> QED BY <1>2, <2>1, <2>2, GoesOn
<1> QED BY <1>1, <1>2

\* What the put's steps do to the goal.
GoalAfter == goal' = IF put'.pc = "idle" THEN NoGoal ELSE goal

LEMMA PutOn ==
  ASSUME Copying, GoalAfter, NEW p, p = put', NEW target, target = Target,
         p.pc # "idle" => p.src = put.src /\ p.dest = put.dest,
         p.pc # "idle" /\ CopyAt(put, target) => CopyAt(p, target)'
  PROVE  Copying'
<1>1. CASE p.pc = "idle"
  BY <1>1, PutOver DEF GoalAfter
<1>2. CASE p.pc # "idle"
  <2>1. goal' = goal
    BY <1>2 DEF GoalAfter
  <2>2. goal.calm => CopyAt(put, target)
    BY DEF Copying
  <2> QED BY <1>2, <2>1, <2>2, GoesOn
<1> QED BY <1>1, <1>2

LEMMA FailCopying ==
  ASSUME GoalAfter, put' = NoPut
  PROVE  Copying'
<1>1. put'.pc = "idle"
  BY DEF NoPut
<1> QED BY <1>1, PutOver DEF GoalAfter

\* Before the copy.
LEMMA PcCopying ==
  ASSUME Inv, Copying, GoalAfter, UNCHANGED <<kids, fresh>>, NEW pc, put' = [put EXCEPT !.pc = pc],
         pc # "work", pc \in {"find", "mkdir"} => put.pc \in {"find", "mkdir"}
  PROVE  Copying'
<1>1. PICK p, target : p = put' /\ target = Target
  OBVIOUS
<1>2. p.pc = pc /\ p.src = put.src /\ p.dest = put.dest /\ p.made = put.made /\ p.todo = put.todo
  BY <1>1 DEF Inv, Putter, Puts0
<1>3. ASSUME CopyAt(put, target) PROVE CopyAt(p, target)'
  <2>1. PICK made : made = put.made
    OBVIOUS
  <2>2. MadeAt(made, target)'
    BY <1>3, <2>1, MadeSame DEF CopyAt
  <2> QED BY <1>2, <1>3, <2>1, <2>2 DEF CopyAt
<1> QED BY <1>1, <1>2, <1>3, PutOn

LEMMA FindCubbyCopying ==
  ASSUME Inv, Copying, GoalAfter, FindCubby
  PROVE  Copying'
<1>1. put.pc = "find" /\ UNCHANGED <<kids, fresh>>
  BY DEF FindCubby
<1>2. put' = [put EXCEPT !.pc = "mkdir"] \/ put' = [put EXCEPT !.pc = "open"] \/ put' = NoPut
  BY DEF FindCubby, Fail
<1> QED BY <1>1, <1>2, PcCopying, FailCopying

LEMMA CopySetgidCopying ==
  ASSUME Inv, Copying, GoalAfter, CopySetgid
  PROVE  Copying'
<1>1. UNCHANGED <<kids, fresh>> /\ (put' = [put EXCEPT !.pc = "check"] \/ put' = NoPut)
  BY DEF CopySetgid, Fail
<1> QED BY <1>1, PcCopying, FailCopying

LEMMA CheckCubbyCopying ==
  ASSUME Inv, Copying, GoalAfter, CheckCubby
  PROVE  Copying'
<1>1. UNCHANGED <<kids, fresh>> /\ (put' = [put EXCEPT !.pc = "open"] \/ put' = NoPut)
  BY DEF CheckCubby, Fail
<1> QED BY <1>1, PcCopying, FailCopying

\* The cubby's own path.
LEMMA RootLeads ==
  ASSUME NEW e \in Seq(Names), e = << >>, NEW v, v = Root'
  PROVE  Leads(In(e), v)'
<1>1. PICK a : a = In(e)
  OBVIOUS
<1>2. Len(e) = 0
  OBVIOUS
<1>3. Len(a) = 2 /\ a[1] = Parent /\ a[2] = Cubby
  <2>1. Len(In(e)) = Len(e) + 2 /\ In(e)[1] = Parent /\ In(e)[2] = Cubby
    BY InFacts
  <2> QED BY <1>1, <1>2, <2>1
<1> DEFINE c == <<Parent, v>>
<1>4. c[1] = a[1] /\ c[Len(a)] = v /\ \A i \in 1..(Len(a) - 1) : c[i] \in Dirs /\ c[i + 1] = kids'[c[i]][a[i + 1]]
  BY <1>3, Constants DEF Root
<1>5. Leads(a, v)'
  BY <1>4 DEF Leads
<1> QED BY <1>1, <1>5

LEMMA MakeCubbyCopying ==
  ASSUME Inv, Copying, GoalAfter, NEW d \in Dirs, MakeCubby(d)
  PROVE  Copying'
<1>1. CASE Root # Nil
  BY <1>1, FailCopying DEF MakeCubby, Fail
<1>2. CASE Root = Nil
  <2>1. /\ put.pc = "mkdir" /\ d \in fresh /\ fresh' = fresh \ {d}
        /\ kids' = [kids EXCEPT ![Parent][Cubby] = d]
        /\ put' = [put EXCEPT !.pc = "setgid", !.made = {d}]
    BY <1>2, FreshIn DEF MakeCubby
  <2>2. PICK p, target : p = put' /\ target = Target
    OBVIOUS
  <2>3. p.pc = "setgid" /\ p.src = put.src /\ p.dest = put.dest /\ p.made = {d} /\ p.todo = put.todo
    BY <2>1, <2>2 DEF Inv, Putter, Puts0
  <2>4. d = Root' /\ d \in Objects
    BY <2>1, Constants DEF Inv, Entries, Root, Objects
  <2>5. PICK e \in Seq(Names) : e = << >>
    <3>1. << >> \in Seq(Names)
      OBVIOUS
    <3> QED BY <3>1
  <2>6. Leads(In(e), d)'
    BY <2>4, <2>5, RootLeads
  <2>7. Alike(e, target)
    <3>1. target \in Seq(Names)
      BY <2>1, <2>2, TargetType DEF Inv, Putter
    <3>2. Len(e) = 0 /\ Len(target) \in Nat
      BY <2>5, <3>1
    <3> QED BY <3>2 DEF Alike, Begins
  <2>8. PICK none : none = {}
    OBVIOUS
  <2>9. MadeAt(none, target)'
    BY <2>8 DEF MadeAt
  <2>10. MadeAt(none \cup {d}, target)'
    BY <2>1, <2>4, <2>6, <2>7, <2>9, MadeMore
  <2>11. none \cup {d} = p.made
    BY <2>3, <2>8
  <2>12. CopyAt(put, target) => CopyAt(p, target)'
    BY <2>3, <2>10, <2>11 DEF CopyAt
  <2> QED BY <2>2, <2>3, <2>12, PutOn
<1> QED BY <1>1, <1>2

LEMMA OpenRootCopying ==
  ASSUME Inv, Copying, GoalAfter, OpenRoot
  PROVE  Copying'
<1>1. put.pc = "open" /\ UNCHANGED <<kids, fresh>>
  BY DEF OpenRoot
<1>2. CASE Fail
  BY <1>2, FailCopying DEF Fail
<1>3. CASE ~Fail
  <2>1. PICK T, o, p, target : /\ T = MkdirAll(put.dest) \o <<Item("source", put.src, Target)>>
                               /\ o = Root /\ p = put' /\ target = Target
    OBVIOUS
  <2>2. put' = [put EXCEPT !.pc = "work", !.root = o, !.todo = T] /\ o \in Dirs
    BY <1>3, <2>1 DEF OpenRoot, Opens
  <2>3. /\ p.pc = "work" /\ p.src = put.src /\ p.dest = put.dest /\ p.made = put.made
        /\ p.todo = T /\ p.root = o
    BY <2>1, <2>2 DEF Inv, Putter, Puts0
  <2>4. put.src \in Sources /\ put.dest \in Dests
    BY <1>1 DEF Inv, Putter
  <2>5. PICK src, dest : src = put.src /\ dest = put.dest
    OBVIOUS
  <2>6. /\ target \in Seq(Names) /\ target # << >> /\ dest \in Seq(Names) /\ src \in Seq(Tops \cup Names)
        /\ Begins(dest, target) /\ Begins(target, target)
    BY <2>1, <2>4, <2>5, TargetType, SourceType DEF Begins
  <2>7. PICK s : s = Item("source", src, target)
    OBVIOUS
  <2>8. s \in Items /\ s.k = "source" /\ s.from = src /\ s.to = target
    BY <2>6, <2>7, ItemType DEF Item, Kinds
  <2>9. Fits(s, src, target)
    BY <2>6, <2>8 DEF Fits, Alike
  <2>10. FitAll(<<s>>, src, target) /\ <<s>> \in Seq(Items)
    BY <2>8, <2>9, FitOne
  <2>11. FitAll(MkdirAll(dest), src, target) /\ MkdirAll(dest) \in Seq(Items)
    BY <2>6, FitMkdirAll, MkdirAllType
  <2>12. FitAll(MkdirAll(dest) \o <<s>>, src, target)
    BY <2>10, <2>11, FitJoin
  <2>13. FitAll(p.todo, p.src, target)
    BY <2>1, <2>3, <2>5, <2>7, <2>12
  <2>14. ASSUME CopyAt(put, target) PROVE CopyAt(p, target)'
    <3>1. PICK made : made = put.made
      OBVIOUS
    <3>2. MadeAt(made, target)'
      BY <1>1, <2>14, <3>1, MadeSame DEF CopyAt
    <3>3. Root' = o
      BY <1>1, <2>1 DEF Root
    <3> QED BY <2>2, <2>3, <2>13, <3>1, <3>2, <3>3 DEF CopyAt
  <2> QED BY <2>1, <2>3, <2>14, PutOn
<1> QED BY <1>2, <1>3

\* A step of the copy: new items, and what was made.
CopiesOn(p, m, items) ==
  /\ p.pc = "work" /\ p.src = put.src /\ p.dest = put.dest /\ p.root = put.root /\ p.made = m
  /\ p.todo = items \o Tail(put.todo)

LEMMA MoreFacts ==
  ASSUME Putter, put.pc = "work", NEW m \in SUBSET Objects, NEW items, NEW p,
         p = More([put EXCEPT !.made = m], items), p.pc # "idle"
  PROVE  CopiesOn(p, m, items)
<1>1. PICK r, T : r = [put EXCEPT !.made = m] /\ T = items \o Tail(r.todo)
  OBVIOUS
<1>2. /\ r.pc = "work" /\ r.src = put.src /\ r.dest = put.dest /\ r.root = put.root /\ r.made = m /\ r.todo = put.todo
      /\ r \in Puts0
  BY <1>1 DEF Putter, Puts0
<1>3. CASE T = << >>
  <2>1. p = [NoPut EXCEPT !.ok = TRUE]
    BY <1>1, <1>3 DEF More
  <2>2. p.pc = "idle"
    BY <2>1 DEF NoPut
  <2> QED BY <2>2
<1>4. CASE T # << >>
  <2>1. p = [r EXCEPT !.todo = T]
    BY <1>1, <1>4 DEF More
  <2>2. p.pc = r.pc /\ p.src = r.src /\ p.dest = r.dest /\ p.root = r.root /\ p.made = r.made /\ p.todo = T
    BY <1>2, <2>1 DEF Puts0
  <2> QED BY <1>1, <1>2, <2>2 DEF CopiesOn
<1> QED BY <1>3, <1>4

LEMMA MoreCopying ==
  ASSUME Inv, Copying, GoalAfter, put.pc = "work", NEW m \in SUBSET Objects, NEW items \in Seq(Items),
         put' = More([put EXCEPT !.made = m], items), NEW target, target = Target,
         CopyAt(put, target) => FitAll(items, put.src, target) /\ MadeAt(m, target)' /\ Root' = Root
  PROVE  Copying'
<1>1. PICK p : p = put'
  OBVIOUS
<1>2. ASSUME p.pc # "idle"
      PROVE  /\ p.pc = "work" /\ p.src = put.src /\ p.dest = put.dest /\ p.root = put.root /\ p.made = m
             /\ p.todo = items \o Tail(put.todo)
  <2>1. CopiesOn(p, m, items)
    BY <1>1, <1>2, MoreFacts DEF Inv
  <2> QED BY <2>1 DEF CopiesOn
<1>3. ASSUME p.pc # "idle", CopyAt(put, target) PROVE CopyAt(p, target)'
  <2>1. put.todo \in Seq(Items) /\ put.todo # << >>
    BY Working DEF Inv
  <2>2. PICK todo, src : todo = put.todo /\ src = put.src
    OBVIOUS
  <2>3. FitAll(Tail(todo), src, target) /\ Tail(todo) \in Seq(Items)
    BY <1>3, <2>1, <2>2, FitTail DEF CopyAt
  <2>4. FitAll(items \o Tail(todo), src, target)
    BY <1>3, <2>2, <2>3, FitJoin
  <2>5. FitAll(p.todo, p.src, target)
    BY <1>2, <1>3, <2>2, <2>4
  <2>6. p.root = Root' /\ Root' \in Dirs
    BY <1>2, <1>3 DEF CopyAt
  <2> QED BY <1>2, <1>3, <2>5, <2>6 DEF CopyAt
<1> QED BY <1>1, <1>2, <1>3, PutOn

\* One that makes nothing.
LEMMA OnlyMore ==
  ASSUME Inv, Copying, GoalAfter, put.pc = "work", UNCHANGED <<kids, fresh>>, NEW items \in Seq(Items),
         put' = More(put, items), NEW target, target = Target,
         CopyAt(put, target) => FitAll(items, put.src, target)
  PROVE  Copying'
<1>1. PICK m \in SUBSET Objects : m = put.made
  BY DEF Inv, Putter, Puts0
<1>2. put = [put EXCEPT !.made = m]
  BY <1>1 DEF Inv, Putter, Puts0
<1>3. CopyAt(put, target) => FitAll(items, put.src, target) /\ MadeAt(m, target)' /\ Root' = Root
  BY <1>1, MadeSame DEF CopyAt, Root
<1> QED BY <1>2, <1>3, MoreCopying

\* What the put works on.
LEMMA AtWork ==
  ASSUME Inv, put.pc = "work", NEW target, target = Target
  PROVE  /\ it \in Items /\ it.to \in Seq(Names) \ {<< >>} /\ it.from \in Seq(Tops \cup Names)
         /\ target \in Seq(Names) /\ put.src \in Absolute
         /\ CopyAt(put, target) => Fits(it, put.src, target)
<1>1. /\ put.todo \in Seq(Items) /\ put.todo # << >> /\ it \in Items /\ put.src \in Sources /\ put.dest \in Dests
  BY Working DEF Inv
<1>2. it.to \in Seq(Names) \ {<< >>} /\ it.from \in Seq(Tops \cup Names)
  BY <1>1 DEF Items
<1>3. target \in Seq(Names) /\ put.src \in Absolute
  BY <1>1, TargetType, SourceAbsolute
<1>4. PICK todo, src : todo = put.todo /\ src = put.src
  OBVIOUS
<1>5. FitAll(todo, src, target) => Fits(Head(todo), src, target)
  BY <1>1, <1>4, FitTail
<1> QED BY <1>1, <1>2, <1>3, <1>4, <1>5 DEF CopyAt, it

LEMMA NoItems ==
  /\ << >> \in Seq(Items)
  /\ \A src, target : FitAll(<< >>, src, target)
<1>1. Len(<< >>) = 0
  OBVIOUS
<1> QED BY <1>1 DEF FitAll

LEMMA StatDirCopying ==
  ASSUME Inv, Copying, GoalAfter, StatDir
  PROVE  Copying'
<1>1. put.pc = "work" /\ UNCHANGED <<kids, fresh>> /\ (put' = NoPut \/ put' = More(put, << >>))
  BY DEF StatDir, Work, Fail
<1>2. PICK none, target : none = << >> /\ target = Target
  OBVIOUS
<1>3. none \in Seq(Items) /\ FitAll(none, put.src, target)
  BY <1>2, NoItems
<1>4. CASE put' = More(put, none)
  BY <1>1, <1>2, <1>3, <1>4, OnlyMore
<1> QED BY <1>1, <1>2, <1>4, FailCopying

LEMMA PutSourceCopying ==
  ASSUME Inv, Copying, GoalAfter, PutSource
  PROVE  Copying'
<1>1. PICK i, src, target : i = it /\ src = put.src /\ target = Target
  OBVIOUS
<1>2. PICK x : x = Item("into", i.from, i.to)
  OBVIOUS
<1>3. /\ put.pc = "work" /\ i.k = "source" /\ UNCHANGED <<kids, fresh>>
      /\ put' = NoPut \/ (~RefuseSelfCopy(i.from, i.to) /\ put' = More(put, <<x>>))
  BY <1>1, <1>2 DEF PutSource, Work, Fail, it
<1>4. /\ i \in Items /\ i.to \in Seq(Names) \ {<< >>} /\ i.from \in Seq(Tops \cup Names)
      /\ target \in Seq(Names) /\ src \in Absolute
      /\ CopyAt(put, target) => Fits(i, src, target)
  BY <1>1, <1>3, AtWork
<1>5. x.k = "into" /\ x.from = i.from /\ x.to = i.to /\ <<x>> \in Seq(Items)
  BY <1>2, <1>4, ItemType DEF Item, Kinds
<1>6. ASSUME CopyAt(put, target), ~RefuseSelfCopy(i.from, i.to) PROVE FitAll(<<x>>, src, target)
  <2>1. i.from = src /\ i.to = target
    BY <1>3, <1>4, <1>6 DEF Fits
  <2>2. Len(src) \in Nat /\ Len(target) \in Nat
    BY <1>4 DEF Absolute
  <2>3. Begins(src, src) /\ Begins(target, target)
    BY <2>2 DEF Begins
  <2>4. Fits(x, src, target)
    BY <1>4, <1>5, <1>6, <2>1, <2>3 DEF Fits, Alike
  <2> QED BY <2>4, FitOne
<1>7. CASE ~RefuseSelfCopy(i.from, i.to) /\ put' = More(put, <<x>>)
  <2>1. PICK items \in Seq(Items) : items = <<x>>
    BY <1>5
  <2>2. put' = More(put, items) /\ (CopyAt(put, target) => FitAll(items, put.src, target))
    BY <1>1, <1>6, <1>7, <2>1
  <2> QED BY <1>1, <1>3, <2>2, OnlyMore
<1> QED BY <1>3, <1>7, FailCopying

\* mkdirAll and what comes after it.
LEMMA FitInto ==
  ASSUME NEW i \in Items, NEW src, NEW target \in Seq(Names), Fits(i, src, target), i.k = "into",
         NEW rel \in Seq(Names), Begins(rel, i.to), NEW k \in {"list", "file"}
  PROVE  /\ MkdirAll(rel) \o <<Item(k, i.from, i.to)>> \in Seq(Items)
         /\ FitAll(MkdirAll(rel) \o <<Item(k, i.from, i.to)>>, src, target)
<1>1. i.to \in Seq(Names) /\ i.to # << >> /\ i.from \in Seq(Tops \cup Names)
  BY DEF Items
<1>2. /\ i.from \in Absolute /\ Begins(src, i.from) /\ Begins(target, i.to) /\ ~RefuseSelfCopy(src, target)
      /\ Alike(i.to, target)
  BY DEF Fits
<1>3. PICK x : x = Item(k, i.from, i.to)
  OBVIOUS
<1>4. x.k = k /\ x.from = i.from /\ x.to = i.to /\ <<x>> \in Seq(Items)
  BY <1>1, <1>3, ItemType DEF Item, Kinds
<1>5. Fits(x, src, target)
  BY <1>2, <1>4 DEF Fits
<1>6. FitAll(<<x>>, src, target)
  BY <1>5, FitOne
<1>7. FitAll(MkdirAll(rel), src, target) /\ MkdirAll(rel) \in Seq(Items)
  BY <1>1, <1>2, FitMkdirAll, MkdirAllType
<1>8. PICK s \in Seq(Items), u \in Seq(Items) : s = MkdirAll(rel) /\ u = <<x>>
  BY <1>4, <1>7
<1>9. s \o u \in Seq(Items)
  OBVIOUS
<1>10. FitAll(s \o u, src, target)
  BY <1>6, <1>7, <1>8, FitJoin
<1> QED BY <1>3, <1>8, <1>9, <1>10

LEMMA CopyIntoCopying ==
  ASSUME Inv, Copying, GoalAfter, CopyInto
  PROVE  Copying'
<1>1. PICK i, src, target : i = it /\ src = put.src /\ target = Target
  OBVIOUS
<1>2. PICK A, B : /\ A = MkdirAll(i.to) \o <<Item("list", i.from, i.to)>>
                  /\ B = MkdirAll(Front(i.to)) \o <<Item("file", i.from, i.to)>>
  OBVIOUS
<1>3. /\ put.pc = "work" /\ i.k = "into" /\ UNCHANGED <<kids, fresh>>
      /\ put' = NoPut \/ put' = More(put, A) \/ put' = More(put, B)
  BY <1>1, <1>2 DEF CopyInto, Work, Fail, it
<1>4. /\ i \in Items /\ i.to \in Seq(Names) \ {<< >>} /\ i.from \in Seq(Tops \cup Names)
      /\ target \in Seq(Names)
      /\ CopyAt(put, target) => Fits(i, src, target)
  BY <1>1, <1>3, AtWork
<1>5. PICK front : front = Front(i.to)
  OBVIOUS
<1>6. front \in Seq(Names) /\ Begins(front, i.to) /\ i.to \in Seq(Names) /\ Begins(i.to, i.to)
  BY <1>4, <1>5, FrontFacts DEF Begins
<1>7. A \in Seq(Items) /\ B \in Seq(Items)
  BY <1>2, <1>4, <1>5, <1>6, IntoType DEF Kinds
<1>8. ASSUME CopyAt(put, target) PROVE FitAll(A, src, target) /\ FitAll(B, src, target)
  <2>1. Fits(i, src, target)
    BY <1>4, <1>8
  <2> QED BY <1>2, <1>3, <1>4, <1>5, <1>6, <2>1, FitInto
<1>9. CASE put' = More(put, A)
  BY <1>1, <1>3, <1>7, <1>8, <1>9, OnlyMore
<1>10. CASE put' = More(put, B)
  BY <1>1, <1>3, <1>7, <1>8, <1>10, OnlyMore
<1> QED BY <1>3, <1>9, <1>10, FailCopying

\* An entry of a source directory.
LEMMA FitEntry ==
  ASSUME NEW i \in Items, NEW src \in Absolute, NEW target \in Seq(Names), Fits(i, src, target), i.k = "list",
         NEW n \in Names
  PROVE  Fits(Entry(i, n), src, target)
<1>1. PICK from, to, x : from = Append(i.from, n) /\ to = Append(i.to, n) /\ x = Entry(i, n)
  OBVIOUS
<1>2. x.k = "into" /\ x.from = from /\ x.to = to
  BY <1>1 DEF Entry, Item
<1>3. /\ i.from \in Absolute /\ Begins(src, i.from) /\ Begins(target, i.to) /\ ~RefuseSelfCopy(src, target)
      /\ i.to \in Seq(Names) /\ i.from \in Seq(Tops \cup Names)
  BY DEF Fits, Items
<1>4. /\ to \in Seq(Names) /\ Len(i.to) \in Nat /\ Len(to) = Len(i.to) + 1 /\ \A j \in 1..Len(i.to) : to[j] = i.to[j]
      /\ from \in Seq(Tops \cup Names) /\ Len(i.from) \in Nat /\ Len(from) = Len(i.from) + 1 /\ from[Len(from)] = n
      /\ \A j \in 1..Len(i.from) : from[j] = i.from[j]
  BY <1>1, <1>3
<1>5. from \in Absolute
  <2>1. Len(i.from) > 0 /\ i.from[1] \in Tops /\ \A j \in 2..Len(i.from) : i.from[j] \in Names
    BY <1>3 DEF Absolute
  <2>2. ASSUME NEW j \in 2..Len(from) PROVE from[j] \in Names
    <3>1. CASE j = Len(from)
      BY <1>4, <3>1
    <3>2. CASE j # Len(from)
      <4>1. j \in 2..Len(i.from) /\ j \in 1..Len(i.from)
        BY <1>4, <3>2
      <4>2. from[j] = i.from[j] /\ i.from[j] \in Names
        BY <1>4, <2>1, <4>1
      <4> QED BY <4>2
    <3> QED BY <3>1, <3>2
  <2> QED BY <1>4, <2>1, <2>2 DEF Absolute
<1>6. Begins(src, from)
  <2>1. Len(src) \in Nat
    BY DEF Absolute
  <2> QED BY <1>3, <1>4, <2>1 DEF Begins
<1>7. Begins(target, to)
  <2>1. Len(target) \in Nat
    OBVIOUS
  <2> QED BY <1>3, <1>4, <2>1 DEF Begins
<1>8. Fits(x, src, target)
  BY <1>2, <1>3, <1>5, <1>6, <1>7 DEF Fits, Alike
<1> QED BY <1>1, <1>8

LEMMA CopyDirCopying ==
  ASSUME Inv, Copying, GoalAfter, CopyDir
  PROVE  Copying'
<1>1. PICK i, src, target, names : i = it /\ src = put.src /\ target = Target /\ names = ReadDir(SourceAt(it.from))
  OBVIOUS
<1>2. PICK items : items = [j \in DOMAIN names |-> Entry(i, names[j])]
  OBVIOUS
<1>3. /\ put.pc = "work" /\ i.k = "list" /\ UNCHANGED <<kids, fresh>>
      /\ put' = NoPut \/ put' = More(put, items)
  BY <1>1, <1>2 DEF CopyDir, Work, Fail, it
<1>4. /\ i \in Items /\ target \in Seq(Names) /\ src \in Absolute
      /\ CopyAt(put, target) => Fits(i, src, target)
  BY <1>1, <1>3, AtWork
<1>5. names \in Seq(Names)
  BY <1>1, ReadDirType
<1>6. items \in Seq(Items)
  BY <1>2, <1>4, <1>5, EntriesType
<1>7. ASSUME CopyAt(put, target) PROVE FitAll(items, src, target)
  <2>1. Fits(i, src, target)
    BY <1>4, <1>7
  <2>2. DOMAIN names = 1..Len(names) /\ Len(names) \in Nat /\ \A j \in 1..Len(names) : names[j] \in Names
    BY <1>5
  <2>3. Len(items) = Len(names) /\ \A j \in 1..Len(names) : items[j] = Entry(i, names[j])
    BY <1>2, <2>2
  <2>4. \A j \in 1..Len(names) : Fits(Entry(i, names[j]), src, target)
    BY <1>3, <1>4, <2>1, <2>2, FitEntry
  <2> QED BY <2>3, <2>4 DEF FitAll
<1>8. CASE put' = More(put, items)
  BY <1>1, <1>3, <1>6, <1>7, <1>8, OnlyMore
<1> QED BY <1>3, <1>8, FailCopying

\* A directory or file made in the destination.
LEMMA MakesCopying ==
  ASSUME Inv, Copying, GoalAfter, put.pc = "work", NEW d \in Dirs, d = Dest, NEW n, n = Last(it.to),
         NEW v \in fresh, kids' = [kids EXCEPT ![d][n] = v], kids[d][n] \notin Dirs, fresh' = fresh \ {v},
         NEW none, none = << >>, put' = More([put EXCEPT !.made = put.made \cup {v}], none)
  PROVE  Copying'
<1>1. PICK i, src, target : i = it /\ src = put.src /\ target = Target
  OBVIOUS
<1>2. /\ i \in Items /\ i.to \in Seq(Names) \ {<< >>}
      /\ CopyAt(put, target) => Fits(i, src, target)
  BY <1>1, AtWork
<1>3. PICK to \in Seq(Names) \ {<< >>} : to = i.to
  BY <1>2
<1>4. n \in Names /\ n = Last(to)
  BY <1>1, <1>2, <1>3, LastType
<1>5. PICK made \in SUBSET Objects : made = put.made
  BY DEF Inv, Putter, Puts0
<1>6. v \in Objects
  BY DEF Inv, Inodes, Opened0, Objects
<1>7. ASSUME CopyAt(put, target)
      PROVE  FitAll(none, put.src, target) /\ MadeAt(made \cup {v}, target)' /\ Root' = Root
  <2>1. MadeAt(made, target) /\ put.root = Root /\ Root \in Dirs
    BY <1>5, <1>7 DEF CopyAt
  <2>2. Alike(to, target)
    BY <1>2, <1>3, <1>7 DEF Fits
  <2>3. MadeAt(made, target)'
    BY <1>4, <2>1, MadeBeside DEF Inv
  <2>4. d = Lookup(Root, Front(to))
    BY <1>1, <1>3, <2>1 DEF Dest, it
  <2>5. Leads(In(to), v)'
    <3>1. kids' = [kids EXCEPT ![d][Last(to)] = v] /\ kids[d][Last(to)] \notin Dirs
      BY <1>4
    <3> QED BY <2>4, <3>1, MadeLeads DEF Inv
  <2>6. MadeAt(made \cup {v}, target)'
    BY <1>6, <2>2, <2>3, <2>5, MadeMore
  <2>7. Root' = Root
    <3>1. d # Parent \/ n # Cubby
      BY <2>1 DEF Root
    <3> QED BY <1>4, <3>1, Constants DEF Root, Inv, Entries
  <2> QED BY <2>6, <2>7, NoItems
<1>8. none \in Seq(Items) /\ made \cup {v} \in SUBSET Objects
  BY <1>6, NoItems
<1>9. PICK m \in SUBSET Objects : m = made \cup {v}
  BY <1>8
<1>10. put' = More([put EXCEPT !.made = m], none)
  BY <1>5, <1>9
<1>11. CopyAt(put, target) => FitAll(none, put.src, target) /\ MadeAt(m, target)' /\ Root' = Root
  BY <1>7, <1>9
<1> QED BY <1>1, <1>8, <1>10, <1>11, MoreCopying

LEMMA MkdirExistOKCopying ==
  ASSUME Inv, Copying, GoalAfter, NEW d \in Dirs, MkdirExistOK(d)
  PROVE  Copying'
<1>1. put.pc = "work"
  BY DEF MkdirExistOK, Work
<1>2. PICK p, n, i, target, none : p = Dest /\ n = Last(it.to) /\ i = it /\ target = Target /\ none = << >>
  OBVIOUS
<1>3. PICK x : x = Item("stat", << >>, i.to)
  OBVIOUS
<1>4. CASE UNCHANGED <<kids, attr, fresh>> /\ (put' = NoPut \/ put' = More(put, <<x>>))
  <2>1. /\ i.to \in Seq(Names) \ {<< >>} /\ (CopyAt(put, target) => Fits(i, put.src, target))
    BY <1>1, <1>2, AtWork
  <2>2. << >> \in Seq(Tops \cup Names) /\ i.to \in Seq(Names) /\ i.to # << >>
    BY <2>1
  <2>3. <<x>> \in Seq(Items) /\ x.k = "stat" /\ x.to = i.to
    BY <1>3, <2>2, ItemType DEF Kinds, Item
  <2>4. PICK src, items : src = put.src /\ items = <<x>>
    OBVIOUS
  <2>5. ASSUME CopyAt(put, target) PROVE FitAll(<<x>>, src, target)
    <3>1. Fits(x, src, target)
      BY <2>1, <2>3, <2>4, <2>5 DEF Fits
    <3> QED BY <3>1, FitOne
  <2>6. CASE put' = More(put, items)
    <3>1. items \in Seq(Items) /\ (CopyAt(put, target) => FitAll(items, put.src, target))
      BY <2>3, <2>4, <2>5
    <3> QED BY <1>1, <1>2, <1>4, <2>6, <3>1, OnlyMore
  <2> QED BY <1>4, <2>4, <2>6, FailCopying
<1>5. CASE /\ p \in Dirs /\ kids[p][n] = Nil /\ d \in Fresh(Dirs) /\ fresh' = fresh \ {d}
           /\ kids' = [kids EXCEPT ![p][n] = d]
           /\ put' = More([put EXCEPT !.made = put.made \cup {d}], none)
  <2>1. d \in fresh
    BY <1>5, FreshIn
  <2>2. kids[p][n] \notin Dirs
    BY <1>5, TreeAssumption DEF Objects
  <2> QED BY <1>1, <1>2, <1>5, <2>1, <2>2, MakesCopying
<1> QED BY <1>2, <1>3, <1>4, <1>5 DEF MkdirExistOK, Fail

LEMMA CopyFileCopying ==
  ASSUME Inv, Copying, GoalAfter, NEW f \in Files, CopyFile(f)
  PROVE  Copying'
<1>1. put.pc = "work"
  BY DEF CopyFile, Work
<1>2. PICK p, n, none : p = Dest /\ n = Last(it.to) /\ none = << >>
  OBVIOUS
<1>3. CASE put' = NoPut
  BY <1>3, FailCopying
<1>4. CASE /\ p \in Dirs /\ kids[p][n] \notin Dirs /\ f \in Fresh(Files) /\ fresh' = fresh \ {f}
           /\ kids' = [kids EXCEPT ![p][n] = f]
           /\ put' = More([put EXCEPT !.made = put.made \cup {f}], none)
  <2>1. f \in fresh
    BY <1>4, FreshIn
  <2> QED BY <1>1, <1>2, <1>4, <2>1, MakesCopying
<1> QED BY <1>2, <1>3, <1>4 DEF CopyFile, Fail

LEMMA PutCopying ==
  ASSUME Inv, Copying, PutStep, GoalAfter
  PROVE  Copying'
<1>1. CASE FindCubby \/ CopySetgid \/ CheckCubby \/ OpenRoot
  BY <1>1, FindCubbyCopying, CopySetgidCopying, CheckCubbyCopying, OpenRootCopying
<1>2. CASE StatDir \/ PutSource \/ CopyInto \/ CopyDir
  BY <1>2, StatDirCopying, PutSourceCopying, CopyIntoCopying, CopyDirCopying
<1>3. CASE \E d \in Dirs : MakeCubby(d) \/ MkdirExistOK(d)
  BY <1>3, MakeCubbyCopying, MkdirExistOKCopying
<1>4. CASE \E f \in Files : CopyFile(f)
  BY <1>4, CopyFileCopying
<1> QED BY <1>1, <1>2, <1>3, <1>4 DEF PutStep

-----------------------------------------------------------------------------
(* The steps of the others *)

\* A repair adds no entry but the cubby.
LEMMA RepairEntries ==
  ASSUME NEW p \in Procs, RepairStep(p)
  PROVE  \/ UNCHANGED <<kids, fresh>>
         \/ \E v \in fresh : Root = Nil /\ kids' = [kids EXCEPT ![Parent][Cubby] = v] /\ fresh' = fresh \ {v}
<1>1. CASE \E d \in Dirs : Mkdirat(p, d)
  BY <1>1, FreshIn DEF Mkdirat
<1>2. CASE Check(p) \/ OpenCubby(p) \/ ChownCubby(p) \/ ChownFails(p) \/ ChmodCubby(p)
  BY <1>2 DEF Check, OpenCubby, ChownCubby, ChownFails, ChmodCubby
<1>3. CASE Open(p) \/ Descend(p) \/ FixFD(p) \/ ChmodFile(p) \/ List(p) \/ Up(p)
  BY <1>3 DEF Open, Descend, FixFD, ChmodFile, List, Up
<1>4. CASE \E e \in [name : Names, dir : BOOLEAN] : Visit(p, e)
  BY <1>4 DEF Visit
<1> QED BY <1>1, <1>2, <1>3, <1>4 DEF RepairStep

LEMMA BeginCopying ==
  ASSUME Inv, BeginPut
  PROVE  Copying'
<1>1. PICK src \in Sources, dest \in Dests : PutBegin(src, dest)
  BY DEF BeginPut
<1>2. PICK p : p = put'
  OBVIOUS
<1>3. p = [NoPut EXCEPT !.pc = "find", !.src = src, !.dest = dest]
  BY <1>1, <1>2 DEF PutBegin
<1>4. p.pc = "find" /\ p.made = {} /\ p.todo = << >>
  BY <1>3 DEF NoPut
<1>5. PICK target : target = Target'
  OBVIOUS
<1>6. MadeAt(p.made, target)'
  BY <1>4 DEF MadeAt
<1>7. FitAll(p.todo, p.src, target)
  BY <1>4, NoItems
<1>8. CopyAt(p, target)'
  BY <1>4, <1>6, <1>7 DEF CopyAt
<1> QED BY <1>2, <1>5, <1>8 DEF Copying

\* A failing call and a wait at a FIFO change nothing but what a repair does next.
LEMMA AsideSame ==
  ASSUME NEW p \in Procs, Fails(p) \/ Blocks(p)
  PROVE  UNCHANGED <<kids, kind, attr, fresh, put, body, goal>>
BY DEF Fails, CallFails, Blocks, Block

LEMMA NextCopying == Inv /\ Copying /\ [Next]_vars => Copying'
<1> SUFFICES ASSUME Inv, Copying, [Next]_vars PROVE Copying'
  OBVIOUS
<1>1. CASE \E p \in Procs : BeginRepair(p)
  BY <1>1, CopyStill DEF BeginRepair, Begin
<1>2. CASE \E p \in Procs : Repairs(p)
  <2>1. PICK p \in Procs : Repairs(p)
    BY <1>2
  <2>2. put' = put /\ (goal' = goal \/ goal' = NoGoal) /\ RepairStep(p)
    BY <2>1 DEF Repairs
  <2> QED BY <2>2, RepairEntries, CopyStill
<1>3. CASE BeginPut
  BY <1>3, BeginCopying
<1>4. CASE Puts
  BY <1>4, PutCopying DEF Puts, GoalAfter
<1>5. CASE Shell
  BY <1>5, PutOver DEF Shell
<1>6. CASE Crash
  BY <1>6, CopyStill DEF Crash, Kill
<1>7. CASE UNCHANGED vars
  BY <1>7, CopyStill DEF vars
<1>8. CASE \E p \in Procs : Fails(p) \/ Blocks(p)
  BY <1>8, AsideSame, CopyStill
<1> QED BY <1>1, <1>2, <1>3, <1>4, <1>5, <1>6, <1>7, <1>8 DEF Next

\* What every put that nobody disturbs has made and has left to do.
THEOREM CopyInvariance == Spec => [](Inv /\ Copying)
<1>1. Init => Inv /\ Copying
  <2> SUFFICES ASSUME Init PROVE Inv /\ Copying
    OBVIOUS
  <2>1. ~goal.calm
    BY DEF Init, NoGoal
  <2> QED BY <2>1, InitInv DEF Copying
<1>2. (Inv /\ Copying) /\ [Next]_vars => (Inv /\ Copying)'
  BY InvStep, NextCopying
<1> QED BY <1>1, <1>2, PTL DEF Spec

\* What is below the source and on the way to the target, or below that, is there only
\* when one of the two paths begins the other.
LEMMA OwnPath ==
  ASSUME Entries, NEW src \in Absolute, NEW target \in Seq(Names), NEW s \in Absolute, Begins(src, s),
         NEW to \in Seq(Names), Alike(to, target), NEW o, o # Nil, Leads(s, o), Leads(In(to), o)
  PROVE  RefuseSelfCopy(src, target) \/ IsPrefix(In(target), src)
<1>1. PICK a, b : a = In(to) /\ b = In(target)
  OBVIOUS
<1>2. /\ a \in Absolute /\ Len(to) \in Nat /\ Len(a) = Len(to) + 2 /\ a[1] = Parent /\ a[2] = Cubby
      /\ \A j \in 1..Len(to) : a[j + 2] = to[j]
  BY <1>1, InFacts
<1>3. /\ b \in Absolute /\ Len(target) \in Nat /\ Len(b) = Len(target) + 2 /\ b[1] = Parent /\ b[2] = Cubby
      /\ \A j \in 1..Len(target) : b[j + 2] = target[j]
  BY <1>1, InFacts
<1>4. Len(a) = Len(s) /\ \A j \in 1..Len(a) : a[j] = s[j]
  BY <1>1, <1>2, OnePath
<1>5. Begins(src, a)
  <2>1. Len(src) \in Nat /\ Len(s) \in Nat
    BY DEF Absolute
  <2> QED BY <1>4, <2>1 DEF Begins
<1>6. Begins(a, b) \/ Begins(b, a)
  <2>1. ASSUME Begins(to, target) PROVE Begins(a, b)
    <3>1. ASSUME NEW j \in 1..Len(a) PROVE a[j] = b[j]
      <4>1. CASE j \in {1, 2}
        BY <1>2, <1>3, <4>1
      <4>2. CASE j \notin {1, 2}
        <5>1. j - 2 \in 1..Len(to) /\ (j - 2) + 2 = j /\ j - 2 \in 1..Len(target)
          BY <1>2, <1>3, <2>1, <4>2 DEF Begins
        <5>2. to[j - 2] = target[j - 2]
          BY <2>1, <5>1 DEF Begins
        <5> QED BY <1>2, <1>3, <5>1, <5>2
      <4> QED BY <4>1, <4>2
    <3>2. Len(a) <= Len(b)
      BY <1>2, <1>3, <2>1 DEF Begins
    <3> QED BY <3>1, <3>2 DEF Begins
  <2>2. ASSUME Begins(target, to) PROVE Begins(b, a)
    <3>1. ASSUME NEW j \in 1..Len(b) PROVE b[j] = a[j]
      <4>1. CASE j \in {1, 2}
        BY <1>2, <1>3, <4>1
      <4>2. CASE j \notin {1, 2}
        <5>1. j - 2 \in 1..Len(to) /\ (j - 2) + 2 = j /\ j - 2 \in 1..Len(target)
          BY <1>2, <1>3, <2>2, <4>2 DEF Begins
        <5>2. to[j - 2] = target[j - 2]
          BY <2>2, <5>1 DEF Begins
        <5> QED BY <1>2, <1>3, <5>1, <5>2
      <4> QED BY <4>1, <4>2
    <3>2. Len(b) <= Len(a)
      BY <1>2, <1>3, <2>2 DEF Begins
    <3> QED BY <3>1, <3>2 DEF Begins
  <2> QED BY <2>1, <2>2 DEF Alike
<1>7. PICK S : S = Tops \cup Names
  OBVIOUS
<1>8. src \in Seq(S) /\ a \in Seq(S) /\ b \in Seq(S)
  BY <1>2, <1>3, <1>7 DEF Absolute
<1>9. Begins(src, b) \/ Begins(b, src)
  <2>1. CASE Begins(a, b)
    BY <1>5, <1>8, <2>1, BeginsTrans
  <2>2. CASE Begins(b, a)
    <3>1. Alike(src, b)
      BY <1>5, <1>8, <2>2, BothBegin
    <3> QED BY <3>1 DEF Alike
  <2> QED BY <1>6, <2>1, <2>2
<1>10. IsPrefix(src, b) \/ IsPrefix(b, src)
  BY <1>8, <1>9, PrefixBegins
<1> QED BY <1>1, <1>10 DEF RefuseSelfCopy, In

-----------------------------------------------------------------------------
\* put never lists a directory it made itself, for any tree, source and destination,
\* unless it copies over the source's own parents: everything it made is on the path to
\* the target or below it, only one path leads to each object, and refuseSelfCopy has
\* compared those paths.
THEOREM NoSelfCopyHolds == Spec => []NoSelfCopy
<1>1. Inv /\ Copying => NoSelfCopy
  <2> SUFFICES ASSUME Inv, Copying, put.pc = "work", it.k = "list", goal.calm, ~OverParents, SourceAt(it.from) \in put.made
               PROVE  FALSE
    BY DEF NoSelfCopy
  <2>1. PICK i, src, target, o : i = it /\ src = put.src /\ target = Target /\ o = SourceAt(i.from)
    OBVIOUS
  <2>2. i \in Items /\ target \in Seq(Names) /\ src \in Absolute /\ CopyAt(put, target) /\ Fits(i, src, target)
    BY <2>1, AtWork DEF Copying
  <2>3. i.from \in Absolute /\ Begins(src, i.from) /\ ~RefuseSelfCopy(src, target)
    BY <2>1, <2>2 DEF Fits
  <2>4. PICK from \in Absolute : from = i.from
    BY <2>3
  <2>5. MadeAt(put.made, target) /\ o \in put.made
    BY <2>1, <2>2 DEF CopyAt
  <2>6. o # Nil
    BY <2>5, TreeAssumption DEF MadeAt
  <2>7. Leads(from, o)
    BY <2>1, <2>4, <2>6, SourceLeads
  <2>8. Len(src) \in Nat /\ Len(src) > 1 /\ Len(from) \in Nat /\ Len(src) <= Len(from)
    <3>1. put.src \in Sources
      BY Working DEF Inv
    <3>2. Len(src) > 1
      BY <2>1, <3>1, SourceType
    <3> QED BY <2>2, <2>3, <2>4, <3>2 DEF Absolute, Begins
  <2>9. Placed(o)
    <3>1. PICK c : /\ c[Len(from)] = o
                   /\ \A j \in 1..(Len(from) - 1) : c[j] \in Dirs /\ c[j + 1] = kids[c[j]][from[j + 1]]
      BY <2>7 DEF Leads
    <3>2. Len(from) - 1 \in 1..(Len(from) - 1) /\ (Len(from) - 1) + 1 = Len(from) /\ Len(from) \in 2..Len(from)
      BY <2>8
    <3>3. c[Len(from) - 1] \in Dirs /\ o = kids[c[Len(from) - 1]][from[Len(from)]]
      BY <3>1, <3>2
    <3>4. from[Len(from)] \in Names
      BY <3>2 DEF Absolute
    <3> QED BY <3>3, <3>4 DEF Placed
  <2>10. PICK to \in Seq(Names) : Alike(to, target) /\ Leads(In(to), o)
    BY <2>5, <2>9 DEF MadeAt
  <2>11. RefuseSelfCopy(src, target) \/ IsPrefix(In(target), src)
    BY <2>2, <2>3, <2>4, <2>6, <2>7, <2>10, OwnPath DEF Inv
  <2> QED BY <2>1, <2>3, <2>11 DEF OverParents, In
<1> QED BY <1>1, CopyInvariance, PTL

-----------------------------------------------------------------------------
(* The items of a put, and the places they write to *)

\* It writes at its destination or below, in the end.
Copier(i) == i.k \in {"source", "into", "list", "file"}

\* Nothing that is left writes at the path to, or replaces it.
Settled(L, to) == \A i \in 1..Len(L) : Copier(L[i]) => ~Begins(L[i].to, to)

\* from is as far below src as to is below target, and by the same names.
Along(from, to, src, target) ==
  /\ from \in Absolute /\ to \in Seq(Names) /\ Begins(src, from) /\ Begins(target, to)
  /\ Len(from) - Len(src) = Len(to) - Len(target)
  /\ \A k \in 1..(Len(to) - Len(target)) : from[Len(src) + k] = to[Len(target) + k]

\* Each item keeps to its own part of the target.
Laid(L, src, target) ==
  /\ \A i, j \in 1..Len(L) : i # j /\ Copier(L[i]) /\ Copier(L[j]) => ~Begins(L[i].to, L[j].to)
  /\ \A i \in 1..Len(L) : Copier(L[i]) => Along(L[i].from, L[i].to, src, target)

\* The items that take the place of h.
Spreads(items, h, src, target) ==
  /\ Laid(items, src, target)
  /\ \A i \in 1..Len(items) : Copier(items[i]) => Copier(h) /\ Begins(h.to, items[i].to)

\* M is L with items in place of the first one.
Joined(M, L, items) ==
  /\ Len(L) \in Nat /\ Len(L) > 0 /\ Len(items) \in Nat /\ Len(M) = Len(items) + Len(L) - 1
  /\ \A i \in 1..Len(items) : M[i] = items[i]
  /\ \A i \in 2..Len(L) : M[Len(items) + i - 1] = L[i]

LEMMA Joins ==
  ASSUME NEW L \in Seq(Items), L # << >>, NEW items \in Seq(Items)
  PROVE  Joined(items \o Tail(L), L, items)
<1>0. Tail(L) \in Seq(Items)
  OBVIOUS
<1>1. PICK T, M : T = Tail(L) /\ M = items \o T /\ T \in Seq(Items)
  BY <1>0
<1>2. Len(L) \in Nat /\ Len(L) > 0 /\ Len(items) \in Nat /\ Len(T) = Len(L) - 1 /\ Len(M) = Len(items) + Len(T)
  BY <1>1
<1>3. \A i \in 1..Len(items) : M[i] = items[i]
  BY <1>1, <1>2
<1>4. ASSUME NEW i \in 2..Len(L) PROVE M[Len(items) + i - 1] = L[i]
  <2>1. i - 1 \in 1..Len(T) /\ T[i - 1] = L[i]
    BY <1>1, <1>2
  <2>2. Len(items) + i - 1 \in 1..Len(M) /\ Len(items) + i - 1 > Len(items) /\ (Len(items) + i - 1) - Len(items) = i - 1
    BY <1>2, <2>1
  <2>3. M[Len(items) + i - 1] = T[i - 1]
    BY <1>1, <1>2, <2>2
  <2> QED BY <2>1, <2>3
<1> QED BY <1>1, <1>2, <1>3, <1>4 DEF Joined

\* Where an item of M comes from.
LEMMA JoinedFrom ==
  ASSUME NEW M, NEW L, NEW items, Joined(M, L, items), NEW i \in 1..Len(M)
  PROVE  \/ i \in 1..Len(items) /\ M[i] = items[i]
         \/ i - Len(items) + 1 \in 2..Len(L) /\ M[i] = L[i - Len(items) + 1]
<1>1. CASE i <= Len(items)
  BY <1>1 DEF Joined
<1>2. CASE ~(i <= Len(items))
  <2>1. PICK k : k = i - Len(items) + 1
    OBVIOUS
  <2>2. k \in 2..Len(L) /\ Len(items) + k - 1 = i
    BY <1>2, <2>1 DEF Joined
  <2>3. M[Len(items) + k - 1] = L[k]
    BY <2>2 DEF Joined
  <2> QED BY <2>1, <2>2, <2>3
<1> QED BY <1>1, <1>2

LEMMA ItemPaths ==
  ASSUME NEW L \in Seq(Items), NEW i \in 1..Len(L)
  PROVE  L[i] \in Items /\ L[i].to \in Seq(Names)
<1>1. L[i] \in Items
  OBVIOUS
<1> QED BY <1>1 DEF Items

LEMMA LaidMore ==
  ASSUME NEW L \in Seq(Items), L # << >>, NEW items \in Seq(Items), NEW M, Joined(M, L, items),
         NEW src, NEW target, Laid(L, src, target), Spreads(items, L[1], src, target)
  PROVE  Laid(M, src, target)
<1>0. Len(L) \in Nat /\ Len(L) > 0 /\ 1 \in 1..Len(L) /\ \A i \in 2..Len(L) : i \in 1..Len(L) /\ i # 1
  BY DEF Joined
<1>1. ASSUME NEW i \in 1..Len(M), NEW j \in 1..Len(M), i # j, Copier(M[i]), Copier(M[j])
      PROVE  ~Begins(M[i].to, M[j].to)
  <2>0. PICK k, l : k = i - Len(items) + 1 /\ l = j - Len(items) + 1 /\ (k = l => i = j)
    <3>1. Len(items) \in Nat
      OBVIOUS
    <3> QED BY <3>1
  <2>1. \/ i \in 1..Len(items) /\ M[i] = items[i]
        \/ k \in 2..Len(L) /\ M[i] = L[k]
    <3>1. \/ i \in 1..Len(items) /\ M[i] = items[i]
          \/ i - Len(items) + 1 \in 2..Len(L) /\ M[i] = L[i - Len(items) + 1]
      BY JoinedFrom
    <3> QED BY <2>0, <3>1
  <2>2. \/ j \in 1..Len(items) /\ M[j] = items[j]
        \/ l \in 2..Len(L) /\ M[j] = L[l]
    <3>1. \/ j \in 1..Len(items) /\ M[j] = items[j]
          \/ j - Len(items) + 1 \in 2..Len(L) /\ M[j] = L[j - Len(items) + 1]
      BY JoinedFrom
    <3> QED BY <2>0, <3>1
  <2>3. CASE i \in 1..Len(items) /\ M[i] = items[i] /\ j \in 1..Len(items) /\ M[j] = items[j]
    BY <1>1, <2>3 DEF Spreads, Laid
  <2>4. CASE k \in 2..Len(L) /\ M[i] = L[k] /\ l \in 2..Len(L) /\ M[j] = L[l]
    BY <1>0, <1>1, <2>0, <2>4 DEF Laid
  <2>5. CASE i \in 1..Len(items) /\ M[i] = items[i] /\ l \in 2..Len(L) /\ M[j] = L[l]
    <3>1. Copier(L[1]) /\ Begins(L[1].to, M[i].to)
      BY <1>1, <2>5 DEF Spreads
    <3>2. ~Begins(L[1].to, M[j].to)
      BY <1>0, <1>1, <2>5, <3>1 DEF Laid
    <3>3. L[1].to \in Seq(Names) /\ M[i].to \in Seq(Names) /\ M[j].to \in Seq(Names)
      BY <1>0, <2>5, ItemPaths
    <3> QED BY <3>1, <3>2, <3>3, BeginsTrans
  <2>6. CASE k \in 2..Len(L) /\ M[i] = L[k] /\ j \in 1..Len(items) /\ M[j] = items[j]
    <3>1. Copier(L[1]) /\ Begins(L[1].to, M[j].to)
      BY <1>1, <2>6 DEF Spreads
    <3>2. ~Begins(L[1].to, M[i].to) /\ ~Begins(M[i].to, L[1].to)
      BY <1>0, <1>1, <2>6, <3>1 DEF Laid
    <3>3. L[1].to \in Seq(Names) /\ M[i].to \in Seq(Names) /\ M[j].to \in Seq(Names)
      BY <1>0, <2>6, ItemPaths
    <3> QED BY <3>1, <3>2, <3>3, BothBegin DEF Alike
  <2> QED BY <2>1, <2>2, <2>3, <2>4, <2>5, <2>6
<1>2. ASSUME NEW i \in 1..Len(M), Copier(M[i]) PROVE Along(M[i].from, M[i].to, src, target)
  <2>1. \/ i \in 1..Len(items) /\ M[i] = items[i]
        \/ i - Len(items) + 1 \in 2..Len(L) /\ M[i] = L[i - Len(items) + 1]
    BY JoinedFrom
  <2>2. CASE i \in 1..Len(items) /\ M[i] = items[i]
    BY <1>2, <2>2 DEF Spreads, Laid
  <2>3. CASE i - Len(items) + 1 \in 2..Len(L) /\ M[i] = L[i - Len(items) + 1]
    BY <1>0, <1>2, <2>3 DEF Laid
  <2> QED BY <2>1, <2>2, <2>3
<1> QED BY <1>1, <1>2 DEF Laid

\* What is settled stays so.
LEMMA StaysSettled ==
  ASSUME NEW L \in Seq(Items), L # << >>, NEW items \in Seq(Items), NEW M, Joined(M, L, items),
         NEW src, NEW target, Spreads(items, L[1], src, target), NEW to \in Seq(Names), Settled(L, to)
  PROVE  Settled(M, to)
<1>0. Len(L) \in Nat /\ Len(L) > 0 /\ 1 \in 1..Len(L) /\ \A i \in 2..Len(L) : i \in 1..Len(L) /\ i # 1
  BY DEF Joined
<1> SUFFICES ASSUME NEW i \in 1..Len(M), Copier(M[i]), Begins(M[i].to, to) PROVE FALSE
  BY DEF Settled
<1>1. \/ i \in 1..Len(items) /\ M[i] = items[i]
      \/ i - Len(items) + 1 \in 2..Len(L) /\ M[i] = L[i - Len(items) + 1]
  BY JoinedFrom
<1>2. CASE i \in 1..Len(items) /\ M[i] = items[i]
  <2>1. Copier(L[1]) /\ Begins(L[1].to, M[i].to)
    BY <1>2 DEF Spreads
  <2>2. L[1].to \in Seq(Names) /\ M[i].to \in Seq(Names)
    BY <1>0, <1>2, ItemPaths
  <2>3. Begins(L[1].to, to)
    BY <2>1, <2>2, BeginsTrans
  <2> QED BY <1>0, <2>1, <2>3 DEF Settled
<1>3. CASE i - Len(items) + 1 \in 2..Len(L) /\ M[i] = L[i - Len(items) + 1]
  BY <1>0, <1>3 DEF Settled
<1> QED BY <1>1, <1>2, <1>3

\* What is not settled, for another item than the first or for one of the new ones.
LEMMA StaysUnsettled ==
  ASSUME NEW L, NEW items, NEW M, Joined(M, L, items), NEW to,
         \/ ~Settled(L, to) /\ ~(Copier(L[1]) /\ Begins(L[1].to, to))
         \/ ~Settled(items, to)
  PROVE  ~Settled(M, to)
<1>1. ASSUME NEW i \in 1..Len(L), Copier(L[i]), Begins(L[i].to, to), i # 1 PROVE ~Settled(M, to)
  <2>1. i \in 2..Len(L)
    BY <1>1 DEF Joined
  <2>2. PICK k : k = Len(items) + i - 1
    OBVIOUS
  <2>3. k \in 1..Len(M) /\ M[k] = L[i]
    BY <2>1, <2>2 DEF Joined
  <2> QED BY <1>1, <2>3 DEF Settled
<1>2. ASSUME NEW i \in 1..Len(items), Copier(items[i]), Begins(items[i].to, to) PROVE ~Settled(M, to)
  <2>1. i \in 1..Len(M) /\ M[i] = items[i]
    BY DEF Joined
  <2> QED BY <1>2, <2>1 DEF Settled
<1> QED BY <1>1, <1>2 DEF Settled

\* The place of the first item, once it is done.
LEMMA HeadSettled ==
  ASSUME NEW L, NEW items, NEW M, Joined(M, L, items), Len(items) = 0,
         NEW src, NEW target, Laid(L, src, target), Copier(L[1])
  PROVE  Settled(M, L[1].to)
<1> SUFFICES ASSUME NEW i \in 1..Len(M), Copier(M[i]), Begins(M[i].to, L[1].to) PROVE FALSE
  BY DEF Settled
<1>1. PICK k : k = i - Len(items) + 1 /\ k \in 2..Len(L) /\ M[i] = L[k]
  <2>1. i \notin 1..Len(items)
    BY DEF Joined
  <2> QED BY <2>1, JoinedFrom
<1>2. k \in 1..Len(L) /\ 1 \in 1..Len(L) /\ k # 1
  BY <1>1 DEF Joined
<1> QED BY <1>1, <1>2 DEF Laid

-----------------------------------------------------------------------------
(* What the owner finds at a path *)

\* The path leads from top to o, and he may search every directory on it.
Finds(top, path, o) ==
  \E f : /\ f[0] = top /\ f[Len(path)] = o
         /\ \A i \in 1..Len(path) : /\ f[i - 1] \in Dirs /\ Searches("user", f[i - 1])
                                    /\ f[i] = kids[f[i - 1]][path[i]]

LookupIs == \A top, o : \A path \in Seq(Names) : o # Nil => (Lookup(top, path) = o <=> Finds(top, path, o))

LEMMA LookupFinds == LookupIs
<1> SUFFICES ASSUME NEW top, NEW o, NEW path \in Seq(Names), o # Nil
             PROVE  Lookup(top, path) = o <=> Finds(top, path, o)
  BY DEF LookupIs
<1> DEFINE n == Len(path)
<1>1. n \in Nat
  OBVIOUS
<1>2. PICK g : Lookups(g, top, path, n) /\ Lookup(top, path) = g[n]
  <2> DEFINE g == CHOOSE g : Lookups(g, top, path, n)
  <2>1. Lookups(g, top, path, n)
    BY <1>1, LookupsExist
  <2>2. Lookup(top, path) = g[n]
    BY DEF Lookup, Lookups, Step1
  <2> QED BY <2>1, <2>2
<1>3. g[0] = top /\ \A i \in 1..n : g[i] = Step1(g[i - 1], path[i])
  BY <1>1, <1>2 DEF Lookups
<1>4. Nil \notin Dirs
  BY TreeAssumption DEF Objects
<1>5. \A i \in 1..n : g[i] # Nil => g[i - 1] \in Dirs /\ Searches("user", g[i - 1]) /\ g[i] = kids[g[i - 1]][path[i]]
  BY <1>3 DEF Step1
<1>6. ASSUME Lookup(top, path) = o PROVE Finds(top, path, o)
  <2> DEFINE S == {j \in Nat : j <= n => g[n - j] # Nil}
  <2>0. g[n] # Nil /\ n - 0 = n
    BY <1>1, <1>2, <1>6
  <2>1. 0 \in S
    BY <2>0
  <2>2. ASSUME NEW j \in Nat, j \in S PROVE j + 1 \in S
    <3> SUFFICES ASSUME j + 1 <= n PROVE g[n - (j + 1)] # Nil
      OBVIOUS
    <3>1. n - j \in 1..n /\ (n - j) - 1 = n - (j + 1) /\ g[n - j] # Nil
      BY <1>1, <2>2
    <3>2. g[(n - j) - 1] \in Dirs
      BY <1>5, <3>1
    <3> QED BY <1>4, <3>1, <3>2
  <2> HIDE DEF S
  <2>3. Nat \subseteq S
    BY <2>1, <2>2, NatSets
  <2>4. ASSUME NEW i \in 1..n PROVE g[i] # Nil
    <3>1. n - i \in Nat /\ n - (n - i) = i /\ n - i <= n
      BY <1>1
    <3>2. n - i \in S
      BY <2>3, <3>1
    <3> QED BY <3>1, <3>2 DEF S
  <2> QED BY <1>2, <1>3, <1>5, <1>6, <2>4 DEF Finds
<1>7. ASSUME Finds(top, path, o) PROVE Lookup(top, path) = o
  <2>1. PICK f : /\ f[0] = top /\ f[n] = o
                 /\ \A i \in 1..n : f[i - 1] \in Dirs /\ Searches("user", f[i - 1]) /\ f[i] = kids[f[i - 1]][path[i]]
    BY <1>7 DEF Finds
  <2> DEFINE S == {j \in Nat : j <= n => g[j] = f[j]}
  <2>2. 0 \in S
    BY <1>3, <2>1
  <2>3. ASSUME NEW j \in Nat, j \in S PROVE j + 1 \in S
    <3> SUFFICES ASSUME j + 1 <= n PROVE g[j + 1] = f[j + 1]
      OBVIOUS
    <3>1. j + 1 \in 1..n /\ (j + 1) - 1 = j /\ g[j] = f[j]
      BY <1>1, <2>3
    <3>2. f[j] \in Dirs /\ Searches("user", f[j]) /\ f[j + 1] = kids[f[j]][path[j + 1]]
      BY <2>1, <3>1
    <3>3. g[j + 1] = Step1(g[j], path[j + 1])
      BY <1>3, <3>1
    <3> QED BY <3>1, <3>2, <3>3 DEF Step1
  <2> HIDE DEF S
  <2>4. n \in S
    BY <1>1, <2>2, <2>3, NatSets
  <2> QED BY <1>1, <1>2, <2>1, <2>4 DEF S
<1> QED BY <1>6, <1>7

LEMMA LookupFindsNext == LookupIs'
BY LookupFinds, PTL

\* The entries of directories, and that of o, stay as they are.
KeepsTo(o) == \A d \in Dirs, m \in Names : kids[d][m] \in Dirs \cup {o} => kids'[d][m] = kids[d][m]

\* No directory is closed to the owner.
KeepsOpen == \A d \in Dirs \ fresh : Searches("user", d) => Searches("user", d)'

LEMMA FindsKept ==
  ASSUME Inodes, NEW o, KeepsTo(o), KeepsOpen, NEW top, top \notin fresh, NEW path \in Seq(Names),
         Finds(top, path, o)
  PROVE  Finds(top, path, o)'
<1>1. PICK f : /\ f[0] = top /\ f[Len(path)] = o
               /\ \A i \in 1..Len(path) : f[i - 1] \in Dirs /\ Searches("user", f[i - 1]) /\ f[i] = kids[f[i - 1]][path[i]]
  BY DEF Finds
<1>2. Len(path) \in Nat /\ \A i \in 1..Len(path) : path[i] \in Names
  OBVIOUS
<1>3. ASSUME NEW i \in 1..Len(path) PROVE f[i] = kids'[f[i - 1]][path[i]]
  <2>1. f[i] \in Dirs \cup {o}
    <3>1. CASE i = Len(path)
      BY <1>1, <3>1
    <3>2. CASE i # Len(path)
      <4>1. i + 1 \in 1..Len(path) /\ (i + 1) - 1 = i
        BY <1>2, <3>2
      <4> QED BY <1>1, <4>1
    <3> QED BY <3>1, <3>2
  <2>2. PICK d \in Dirs, n \in Names : d = f[i - 1] /\ n = path[i] /\ f[i] = kids[d][n]
    BY <1>1, <1>2
  <2> QED BY <2>1, <2>2 DEF KeepsTo
<1>4. ASSUME NEW i \in 1..Len(path) PROVE Searches("user", f[i - 1])'
  <2>1. f[i - 1] \notin fresh
    <3>1. CASE i = 1
      BY <1>1, <3>1
    <3>2. CASE i # 1
      <4>1. i - 1 \in 1..Len(path)
        BY <1>2, <3>2
      <4>2. PICK d \in Dirs, n \in Names : d = f[i - 1 - 1] /\ n = path[i - 1] /\ f[i - 1] = kids[d][n]
        BY <1>1, <1>2, <4>1
      <4> QED BY <4>2 DEF Inodes
    <3> QED BY <3>1, <3>2
  <2>2. PICK d \in Dirs : d = f[i - 1] /\ Searches("user", d) /\ d \notin fresh
    BY <1>1, <2>1
  <2>3. Searches("user", d)'
    BY <2>2 DEF KeepsOpen
  <2> QED BY <2>2, <2>3
<1> QED BY <1>1, <1>3, <1>4 DEF Finds

LEMMA LeadsStay ==
  ASSUME NEW o, KeepsTo(o), NEW a \in Absolute, Leads(a, o)
  PROVE  Leads(a, o)'
<1>1. PICK c : /\ c[1] = a[1] /\ c[Len(a)] = o
               /\ \A i \in 1..(Len(a) - 1) : c[i] \in Dirs /\ c[i + 1] = kids[c[i]][a[i + 1]]
  BY DEF Leads
<1>2. Len(a) \in Nat \ {0} /\ \A i \in 2..Len(a) : a[i] \in Names
  BY DEF Absolute
<1>3. ASSUME NEW i \in 1..(Len(a) - 1) PROVE c[i + 1] = kids'[c[i]][a[i + 1]]
  <2>1. c[i + 1] \in Dirs \cup {o}
    <3>1. CASE i + 1 = Len(a)
      BY <1>1, <3>1
    <3>2. CASE i + 1 # Len(a)
      <4>1. i + 1 \in 1..(Len(a) - 1)
        BY <1>2, <3>2
      <4> QED BY <1>1, <4>1
    <3> QED BY <3>1, <3>2
  <2>2. PICK d \in Dirs, n \in Names : d = c[i] /\ n = a[i + 1] /\ c[i + 1] = kids[d][n]
    BY <1>1, <1>2
  <2> QED BY <2>1, <2>2 DEF KeepsTo
<1> QED BY <1>1, <1>3 DEF Leads

\* An entry that is no directory, and does not lead to o, is replaced.
LEMMA ReplaceKeeps ==
  ASSUME Entries, NEW p \in Dirs, NEW n \in Names, NEW v, kids' = [kids EXCEPT ![p][n] = v],
         kids[p][n] \notin Dirs, NEW o, o # kids[p][n]
  PROVE  KeepsTo(o)
<1>1. \A d \in Dirs, m \in Names : d # p \/ m # n => kids'[d][m] = kids[d][m]
  BY DEF Entries
<1> QED BY <1>1 DEF KeepsTo

-----------------------------------------------------------------------------
(* What a listing has *)

\* s has each of the first m names that are in d, once.
ListsFirst(s, d, m) ==
  /\ s \in Seq(Names)
  /\ \A j \in 1..Len(s) : \E k \in 1..m : s[j] = Order[k]
  /\ \A k \in 1..m : kids[d][Order[k]] # Nil => \E j \in 1..Len(s) : s[j] = Order[k]
  /\ \A i, j \in 1..Len(s) : s[i] = s[j] => i = j

LEMMA ListsMore ==
  ASSUME NEW s, NEW d, NEW m \in Nat, m + 1 <= Len(Order), ListsFirst(s, d, m)
  PROVE  ListsFirst(Next1(s, d, Order[m + 1]), d, m + 1)
<1>1. /\ Order \in Seq(Names) /\ Len(Order) \in Nat /\ DOMAIN Order = 1..Len(Order)
      /\ \A i, j \in DOMAIN Order : Order[i] = Order[j] => i = j
  BY PutAssumption
<1>2. PICK n : n = Order[m + 1] /\ n \in Names
  BY <1>1
<1>3. /\ s \in Seq(Names) /\ Len(s) \in Nat
      /\ \A j \in 1..Len(s) : \E k \in 1..m : s[j] = Order[k]
      /\ \A k \in 1..m : kids[d][Order[k]] # Nil => \E j \in 1..Len(s) : s[j] = Order[k]
      /\ \A i, j \in 1..Len(s) : s[i] = s[j] => i = j
  BY DEF ListsFirst
<1>4. \A k \in 1..m : k \in 1..(m + 1) /\ k \in DOMAIN Order /\ m + 1 \in DOMAIN Order /\ k # m + 1
  BY <1>1
<1>5. \A k \in 1..(m + 1) : k \in 1..m \/ k = m + 1
  OBVIOUS
<1>6. CASE kids[d][n] = Nil
  <2>1. Next1(s, d, n) = s
    BY <1>6 DEF Next1
  <2>2. ListsFirst(s, d, m + 1)
    BY <1>2, <1>3, <1>4, <1>5, <1>6 DEF ListsFirst
  <2> QED BY <1>2, <2>1, <2>2
<1>7. CASE kids[d][n] # Nil
  <2>1. PICK t : t = Append(s, n) /\ t = Next1(s, d, n)
    BY <1>7 DEF Next1
  <2>2. /\ t \in Seq(Names) /\ Len(t) = Len(s) + 1 /\ t[Len(t)] = n
        /\ \A j \in 1..Len(s) : t[j] = s[j]
    <3>1. s \in Seq(Names) /\ n \in Names /\ t = Append(s, n)
      BY <1>2, <1>3, <2>1
    <3>2. t \in Seq(Names) /\ Len(t) = Len(s) + 1
      BY <3>1
    <3>3. t[Len(s) + 1] = n /\ \A j \in 1..Len(s) : t[j] = s[j]
      BY <3>1
    <3> QED BY <3>2, <3>3
  <2>3. \A j \in 1..Len(t) : j \in 1..Len(s) \/ j = Len(t)
    BY <1>3, <2>2
  <2>4. \A j \in 1..Len(s) : j \in 1..Len(t) /\ Len(t) \in 1..Len(t) /\ s[j] # n
    <3> SUFFICES ASSUME NEW j \in 1..Len(s) PROVE j \in 1..Len(t) /\ Len(t) \in 1..Len(t) /\ s[j] # n
      OBVIOUS
    <3>1. PICK k \in 1..m : s[j] = Order[k]
      BY <1>3
    <3>2. Order[k] # Order[m + 1]
      BY <1>1, <1>4
    <3> QED BY <1>2, <1>3, <2>2, <3>1, <3>2
  <2>5. ASSUME NEW j \in 1..Len(t) PROVE \E k \in 1..(m + 1) : t[j] = Order[k]
    BY <1>2, <1>3, <1>4, <2>2, <2>3
  <2>6. ASSUME NEW k \in 1..(m + 1), kids[d][Order[k]] # Nil PROVE \E j \in 1..Len(t) : t[j] = Order[k]
    <3>1. CASE k = m + 1
      <4>1. Len(t) \in 1..Len(t)
        BY <1>3, <2>2
      <4> QED BY <1>2, <2>2, <3>1, <4>1
    <3>2. CASE k \in 1..m
      BY <1>3, <2>2, <2>4, <2>6, <3>2
    <3> QED BY <1>5, <3>1, <3>2
  <2>7. ASSUME NEW i \in 1..Len(t), NEW j \in 1..Len(t), t[i] = t[j] PROVE i = j
    <3>1. CASE i \in 1..Len(s) /\ j \in 1..Len(s)
      <4>1. t[i] = s[i] /\ t[j] = s[j]
        BY <2>2, <3>1
      <4> QED BY <1>3, <2>7, <3>1, <4>1
    <3>2. CASE i \in 1..Len(s) /\ j = Len(t)
      <4>1. t[i] = s[i] /\ t[j] = n /\ s[i] # n
        BY <2>2, <2>4, <3>2
      <4> QED BY <2>7, <4>1
    <3>3. CASE i = Len(t) /\ j \in 1..Len(s)
      <4>1. t[j] = s[j] /\ t[i] = n /\ s[j] # n
        BY <2>2, <2>4, <3>3
      <4> QED BY <2>7, <4>1
    <3>4. CASE i = Len(t) /\ j = Len(t)
      BY <3>4
    <3> QED BY <2>3, <3>1, <3>2, <3>3, <3>4
  <2>8. ListsFirst(t, d, m + 1)
    BY <2>2, <2>5, <2>6, <2>7 DEF ListsFirst
  <2> QED BY <1>2, <2>1, <2>8
<1> QED BY <1>6, <1>7

\* ReadDir has every name once.
LEMMA ReadDirLists ==
  ASSUME NEW d
  PROVE  /\ ReadDir(d) \in Seq(Names)
         /\ \A n \in Names : kids[d][n] # Nil => \E j \in 1..Len(ReadDir(d)) : ReadDir(d)[j] = n
         /\ \A i, j \in 1..Len(ReadDir(d)) : ReadDir(d)[i] = ReadDir(d)[j] => i = j
<1> DEFINE n == Len(Order)
<1>1. n \in Nat /\ Order \in Seq(Names)
  BY PutAssumption
<1>2. PICK f : Listings(f, d, n) /\ ReadDir(d) = f[n]
  <2> DEFINE f == CHOOSE f : Listings(f, d, n)
  <2>1. Listings(f, d, n)
    BY <1>1, ListingsExist
  <2>2. ReadDir(d) = f[n]
    BY DEF ReadDir, Listings, Next1
  <2> QED BY <2>1, <2>2
<1>3. \A k \in 0..n : f[k] = IF k = 0 THEN << >> ELSE Next1(f[k - 1], d, Order[k])
  BY <1>2 DEF Listings
<1> DEFINE S == {m \in Nat : m <= n => ListsFirst(f[m], d, m)}
<1>4. 0 \in S
  <2>1. f[0] = << >> /\ << >> \in Seq(Names) /\ Len(<< >>) = 0
    BY <1>1, <1>3
  <2>2. ListsFirst(<< >>, d, 0)
    BY <2>1 DEF ListsFirst
  <2> QED BY <2>1, <2>2
<1>5. ASSUME NEW m \in Nat, m \in S PROVE m + 1 \in S
  <2> SUFFICES ASSUME m + 1 <= n PROVE ListsFirst(f[m + 1], d, m + 1)
    OBVIOUS
  <2>1. m + 1 \in 0..n /\ m + 1 # 0 /\ (m + 1) - 1 = m /\ m <= n
    BY <1>1
  <2>2. f[m + 1] = Next1(f[m], d, Order[m + 1])
    BY <1>3, <2>1
  <2>3. ListsFirst(f[m], d, m)
    BY <1>5, <2>1
  <2>4. PICK s : s = f[m]
    OBVIOUS
  <2>5. ListsFirst(Next1(s, d, Order[m + 1]), d, m + 1)
    BY <2>3, <2>4, ListsMore
  <2> QED BY <2>2, <2>4, <2>5
<1> HIDE DEF S
<1>6. n \in S
  BY <1>1, <1>4, <1>5, NatSets
<1>7. PICK s : s = ReadDir(d) /\ ListsFirst(s, d, n)
  BY <1>1, <1>2, <1>6 DEF S
<1>8. \A x \in Names : \E k \in 1..n : x = Order[k]
  <2>1. ToSet(Order) = Names /\ DOMAIN Order = 1..n
    BY <1>1, PutAssumption
  <2> QED BY <2>1 DEF ToSet
<1>9. \A x \in Names : kids[d][x] # Nil => \E j \in 1..Len(s) : s[j] = x
  BY <1>7, <1>8 DEF ListsFirst
<1> QED BY <1>7, <1>9 DEF ListsFirst

-----------------------------------------------------------------------------
(* Parts of paths *)

LEMMA LeadsSame ==
  ASSUME NEW a \in Absolute, NEW o, NEW e, Leads(a, o), Leads(a, e)
  PROVE  o = e
<1>1. PICK c : /\ c[1] = a[1] /\ c[Len(a)] = o
               /\ \A i \in 1..(Len(a) - 1) : c[i] \in Dirs /\ c[i + 1] = kids[c[i]][a[i + 1]]
  BY DEF Leads
<1>2. PICK b : /\ b[1] = a[1] /\ b[Len(a)] = e
               /\ \A i \in 1..(Len(a) - 1) : b[i] \in Dirs /\ b[i + 1] = kids[b[i]][a[i + 1]]
  BY DEF Leads
<1>3. PICK n : n = Len(a) /\ n \in Nat \ {0}
  BY DEF Absolute
<1> DEFINE S == {j \in Nat : j < n => c[j + 1] = b[j + 1]}
<1>4. 0 \in S
  BY <1>1, <1>2
<1>5. ASSUME NEW j \in Nat, j \in S PROVE j + 1 \in S
  <2> SUFFICES ASSUME j + 1 < n PROVE c[(j + 1) + 1] = b[(j + 1) + 1]
    OBVIOUS
  <2>1. PICK k : k = j + 1 /\ k \in 1..(n - 1) /\ c[k] = b[k]
    BY <1>3, <1>5
  <2>2. c[k + 1] = kids[c[k]][a[k + 1]] /\ b[k + 1] = kids[b[k]][a[k + 1]]
    BY <1>1, <1>2, <1>3, <2>1
  <2> QED BY <2>1, <2>2
<1> HIDE DEF S
<1>6. n - 1 \in S /\ n - 1 \in Nat
  BY <1>3, <1>4, <1>5, NatSets
<1>7. c[(n - 1) + 1] = b[(n - 1) + 1] /\ (n - 1) + 1 = n
  BY <1>3, <1>6 DEF S
<1> QED BY <1>1, <1>2, <1>3, <1>7

\* The beginning of a path leads to a directory, in which the next name is taken.
LEMMA LeadsPart ==
  ASSUME NEW a \in Absolute, NEW s \in Absolute, NEW o, o # Nil, Leads(s, o), Begins(a, s), Len(a) < Len(s)
  PROVE  \E d \in Dirs : Leads(a, d) /\ kids[d][s[Len(a) + 1]] # Nil
<1>1. PICK c : /\ c[1] = s[1] /\ c[Len(s)] = o
               /\ \A i \in 1..(Len(s) - 1) : c[i] \in Dirs /\ c[i + 1] = kids[c[i]][s[i + 1]]
  BY DEF Leads
<1>2. PICK n, m : n = Len(a) /\ m = Len(s) /\ n \in Nat \ {0} /\ m \in Nat \ {0} /\ n < m
  BY DEF Absolute
<1>3. \A i \in 1..n : a[i] = s[i]
  BY <1>2 DEF Begins
<1>4. ASSUME NEW i \in 1..(n - 1) PROVE c[i] \in Dirs /\ c[i + 1] = kids[c[i]][a[i + 1]]
  <2>1. i \in 1..(m - 1) /\ i + 1 \in 1..n
    BY <1>2
  <2> QED BY <1>1, <1>2, <1>3, <2>1
<1>5. n \in 1..(m - 1) /\ 1 \in 1..n
  BY <1>2
<1>6. c[1] = a[1] /\ c[n] \in Dirs /\ c[n + 1] = kids[c[n]][s[n + 1]]
  BY <1>1, <1>2, <1>3, <1>5
<1>7. Leads(a, c[n])
  BY <1>2, <1>4, <1>6 DEF Leads
<1>8. c[n + 1] # Nil
  <2>1. CASE n + 1 = m
    BY <1>1, <1>2, <2>1
  <2>2. CASE n + 1 # m
    <3>1. n + 1 \in 1..(m - 1)
      BY <1>2, <2>2
    <3>2. c[n + 1] \in Dirs
      BY <1>1, <1>2, <3>1
    <3> QED BY <3>2, TreeAssumption DEF Objects
  <2> QED BY <2>1, <2>2
<1> QED BY <1>2, <1>6, <1>7, <1>8

LEMMA InLonger ==
  ASSUME NEW to \in Seq(Names) \ {<< >>}
  PROVE  Longer(In(to), In(Front(to)), Last(to)) /\ Last(to) \in Names /\ Front(to) \in Seq(Names)
<1>1. PICK t, n : t = Front(to) /\ n = Last(to)
  OBVIOUS
<1>2. Len(to) \in Nat \ {0} /\ n \in Names /\ n = to[Len(to)]
  <2>1. to \in Seq(Names) /\ Len(to) \in Nat \ {0}
    OBVIOUS
  <2> QED BY <1>1, <2>1 DEF Last
<1>3. t \in Seq(Names) /\ Len(t) = Len(to) - 1 /\ \A i \in 1..Len(t) : t[i] = to[i]
  BY <1>1, FrontFacts
<1>6. PICK a, b : a = In(t) /\ b = In(to)
  OBVIOUS
<1>7. /\ Len(a) = Len(t) + 2 /\ a[1] = Parent /\ a[2] = Cubby
      /\ \A i \in 1..Len(t) : a[i + 2] = t[i]
  BY <1>3, <1>6, InFacts
<1>8. /\ Len(b) = Len(to) + 2 /\ b[1] = Parent /\ b[2] = Cubby
      /\ \A i \in 1..Len(to) : b[i + 2] = to[i]
  BY <1>6, InFacts
<1>9. Len(b) = Len(a) + 1 /\ b[Len(b)] = n
  BY <1>2, <1>3, <1>7, <1>8
<1>10. ASSUME NEW i \in 1..Len(a) PROVE b[i] = a[i]
  <2>1. CASE i \in {1, 2}
    BY <1>7, <1>8, <2>1
  <2>2. CASE i \notin {1, 2}
    <3>1. i - 2 \in 1..Len(t) /\ i - 2 \in 1..Len(to) /\ (i - 2) + 2 = i
      BY <1>2, <1>3, <1>7, <2>2
    <3> QED BY <1>3, <1>7, <1>8, <3>1
  <2> QED BY <2>1, <2>2
<1> QED BY <1>1, <1>2, <1>3, <1>6, <1>9, <1>10 DEF Longer

LEMMA LeadsFurther ==
  ASSUME NEW a \in Absolute, NEW d \in Dirs, Leads(a, d), NEW b, NEW n, Longer(b, a, n)
  PROVE  Leads(b, kids[d][n])
<1>1. PICK c : /\ c[1] = a[1] /\ c[Len(a)] = d
               /\ \A i \in 1..(Len(a) - 1) : c[i] \in Dirs /\ c[i + 1] = kids[c[i]][a[i + 1]]
  BY DEF Leads
<1>2. /\ Len(a) \in Nat \ {0} /\ Len(b) = Len(a) + 1 /\ b[Len(b)] = n /\ \A i \in 1..Len(a) : b[i] = a[i]
  BY DEF Longer, Absolute
<1>3. PICK v : v = kids[d][n]
  OBVIOUS
<1> DEFINE e == [i \in 1..Len(b) |-> IF i = Len(b) THEN v ELSE c[i]]
<1>4. e[1] = b[1] /\ e[Len(b)] = v
  BY <1>1, <1>2
<1>5. ASSUME NEW i \in 1..(Len(b) - 1) PROVE e[i] \in Dirs /\ e[i + 1] = kids[e[i]][b[i + 1]]
  <2>1. CASE i = Len(a)
    <3>1. e[i] = d /\ e[i + 1] = v /\ b[i + 1] = n
      BY <1>1, <1>2, <2>1
    <3> QED BY <1>3, <3>1
  <2>2. CASE i # Len(a)
    <3>1. i \in 1..(Len(a) - 1) /\ i + 1 \in 1..Len(a)
      BY <1>2, <2>2
    <3>2. e[i] = c[i] /\ e[i + 1] = c[i + 1] /\ b[i + 1] = a[i + 1]
      BY <1>2, <3>1
    <3> QED BY <1>1, <3>1, <3>2
  <2> QED BY <2>1, <2>2
<1>6. Leads(b, v)
  BY <1>4, <1>5 DEF Leads
<1> QED BY <1>3, <1>6

\* The entry that an item replaces.
LEMMA EntryLeads ==
  ASSUME NEW to \in Seq(Names) \ {<< >>}, NEW d \in Dirs, d = Lookup(Root, Front(to))
  PROVE  Leads(In(to), kids[d][Last(to)])
<1>1. PICK a, b, n, t : a = In(Front(to)) /\ b = In(to) /\ n = Last(to) /\ t = Front(to)
  OBVIOUS
<1>2. Longer(b, a, n) /\ t \in Seq(Names) /\ a = In(t)
  BY <1>1, InLonger
<1>3. a \in Absolute
  BY <1>2, InFacts
<1>4. d # Nil
  BY TreeAssumption DEF Objects
<1>5. Leads(a, d)
  BY <1>1, <1>2, <1>4, LookupLeads
<1>6. Leads(b, kids[d][n])
  BY <1>2, <1>3, <1>5, LeadsFurther
<1> QED BY <1>1, <1>6

\* Paths in the cubby are the same only when they are the same from there.
LEMMA InSame ==
  ASSUME NEW to \in Seq(Names), NEW t \in Seq(Names), Len(In(to)) = Len(In(t)),
         \A i \in 1..Len(In(to)) : In(to)[i] = In(t)[i]
  PROVE  Len(to) = Len(t) /\ (\A i \in 1..Len(to) : to[i] = t[i]) /\ Begins(to, t) /\ Begins(t, to)
<1>1. /\ Len(to) \in Nat /\ Len(In(to)) = Len(to) + 2 /\ \A i \in 1..Len(to) : In(to)[i + 2] = to[i]
  BY InFacts
<1>2. /\ Len(t) \in Nat /\ Len(In(t)) = Len(t) + 2 /\ \A i \in 1..Len(t) : In(t)[i + 2] = t[i]
  BY InFacts
<1>3. Len(to) = Len(t)
  <2>1. PICK k, l, m : k = Len(to) /\ l = Len(t) /\ m = Len(In(to)) /\ k \in Nat /\ l \in Nat
    BY <1>1, <1>2
  <2>2. m = k + 2 /\ m = l + 2
    BY <1>1, <1>2, <2>1
  <2>3. k = l
    BY <2>1, <2>2
  <2> QED BY <2>1, <2>3
<1>4. \A i \in 1..Len(to) : to[i] = t[i]
  <2> SUFFICES ASSUME NEW i \in 1..Len(to) PROVE to[i] = t[i]
    OBVIOUS
  <2>1. i + 2 \in 1..Len(In(to))
    BY <1>1
  <2> QED BY <1>1, <1>2, <1>3, <2>1
<1> QED BY <1>3, <1>4, <1>1 DEF Begins

-----------------------------------------------------------------------------
(* The steps of the copy that only look *)

\* Whatever is to be copied through h will be through one of the items.
Passes(items, h, src, target) ==
  \A s \in Absolute, to \in Seq(Names) :
    Copier(h) /\ Begins(h.to, to) /\ Along(s, to, src, target) /\ SourceAt(s) \in Files => ~Settled(items, to)

Follows(items, h, src, target) == Spreads(items, h, src, target) /\ Passes(items, h, src, target)

LEMMA NoCopiers ==
  ASSUME NEW items, NEW h, NEW src, NEW target, \A i \in 1..Len(items) : ~Copier(items[i])
  PROVE  Spreads(items, h, src, target) /\ (~Copier(h) => Follows(items, h, src, target))
BY DEF Spreads, Laid, Passes, Follows

\* One that copies from and to the same as h.
LEMMA OneCopier ==
  ASSUME NEW pre \in Seq(Items), NEW x \in Items, NEW h, NEW src, NEW target, Copier(h), Copier(x),
         \A i \in 1..Len(pre) : ~Copier(pre[i]), x.to = h.to, x.from = h.from,
         Along(h.from, h.to, src, target)
  PROVE  Follows(pre \o <<x>>, h, src, target)
<1>1. PICK items : items = pre \o <<x>>
  OBVIOUS
<1>2. Len(pre) \in Nat /\ Len(items) = Len(pre) + 1 /\ items[Len(items)] = x /\ \A i \in 1..Len(pre) : items[i] = pre[i]
  <2>1. <<x>> \in Seq(Items) /\ Len(<<x>>) = 1 /\ <<x>>[1] = x
    OBVIOUS
  <2> QED BY <1>1, <2>1
<1>3. \A i \in 1..Len(items) : Copier(items[i]) => i = Len(items)
  BY <1>2
<1>4. h.to \in Seq(Names) /\ Begins(h.to, h.to)
  BY DEF Along, Begins
<1>5. Spreads(items, h, src, target)
  BY <1>2, <1>3, <1>4 DEF Spreads, Laid
<1>6. Len(items) \in 1..Len(items)
  BY <1>2
<1>7. Passes(items, h, src, target)
  BY <1>2, <1>6 DEF Passes, Settled
<1> QED BY <1>1, <1>5, <1>7 DEF Follows

LEMMA MkdirAllNoCopier ==
  ASSUME NEW rel \in Seq(Names)
  PROVE  \A i \in 1..Len(MkdirAll(rel)) : ~Copier(MkdirAll(rel)[i])
<1>1. Len(rel) \in Nat
  OBVIOUS
<1>2. Len(MkdirAll(rel)) = Len(rel) /\ \A i \in 1..Len(rel) : MkdirAll(rel)[i] = Item("mkdir", << >>, SubSeq(rel, 1, i))
  BY <1>1 DEF MkdirAll
<1>3. ASSUME NEW i \in 1..Len(rel) PROVE MkdirAll(rel)[i].k = "mkdir"
  <2>1. PICK s, x : s = SubSeq(rel, 1, i) /\ x = MkdirAll(rel)[i] /\ x = Item("mkdir", << >>, s)
    BY <1>2
  <2>2. x.k = "mkdir"
    BY <2>1 DEF Item
  <2> QED BY <2>1, <2>2
<1> QED BY <1>2, <1>3 DEF Copier

LEMMA NoneLeft == \E none \in Seq(Items) : none = << >> /\ Len(none) = 0 /\ \A i \in 1..Len(none) : ~Copier(none[i])
<1>1. << >> \in Seq(Items) /\ Len(<< >>) = 0
  OBVIOUS
<1>2. \A i \in 1..Len(<< >>) : ~Copier(<< >>[i])
  BY <1>1
<1> QED BY <1>1, <1>2

\* The head of the list.
LEMMA HeadAlong ==
  ASSUME Inv, put.pc = "work", NEW src, NEW target, Laid(put.todo, src, target)
  PROVE  it = put.todo[1] /\ it \in Items /\ (Copier(it) => Along(it.from, it.to, src, target))
<1>1. put.todo \in Seq(Items) /\ put.todo # << >> /\ it \in Items
  BY Working DEF Inv
<1>2. Len(put.todo) \in Nat /\ 1 \in 1..Len(put.todo) /\ Head(put.todo) = put.todo[1]
  BY <1>1
<1> QED BY <1>1, <1>2 DEF it, Laid

LEMMA StatDirFollows ==
  ASSUME Inv, NEW src, NEW target, StatDir, put' # NoPut
  PROVE  \E items \in Seq(Items) : put' = More(put, items) /\ Follows(items, it, src, target)
<1>1. it.k = "stat" /\ put' = More(put, << >>)
  BY DEF StatDir, Work, Fail, it
<1>2. PICK none \in Seq(Items) : none = << >> /\ Len(none) = 0 /\ \A i \in 1..Len(none) : ~Copier(none[i])
  BY NoneLeft
<1>3. Follows(none, it, src, target)
  BY <1>1, <1>2, NoCopiers DEF Copier
<1> QED BY <1>1, <1>2, <1>3

LEMMA PutSourceFollows ==
  ASSUME Inv, put.pc = "work", NEW src, NEW target, Laid(put.todo, src, target), PutSource, put' # NoPut
  PROVE  \E items \in Seq(Items) : put' = More(put, items) /\ Follows(items, it, src, target)
<1>1. PICK i : i = it
  OBVIOUS
<1>2. i.k = "source" /\ put' = More(put, <<Item("into", i.from, i.to)>>)
  BY <1>1 DEF PutSource, Work, Fail, it
<1>3. i \in Items /\ Copier(i) /\ Along(i.from, i.to, src, target)
  BY <1>1, <1>2, HeadAlong DEF Copier
<1>4. PICK x : x = Item("into", i.from, i.to)
  OBVIOUS
<1>5. x \in Items /\ x.to = i.to /\ x.from = i.from /\ Copier(x)
  <2>1. i.from \in Seq(Tops \cup Names) /\ i.to \in Seq(Names) /\ i.to # << >>
    BY <1>3 DEF Items
  <2> QED BY <1>4, <2>1, ItemType DEF Item, Kinds, Copier
<1>6. PICK none \in Seq(Items) : none = << >> /\ Len(none) = 0 /\ \A j \in 1..Len(none) : ~Copier(none[j])
  BY NoneLeft
<1>7. Follows(none \o <<x>>, i, src, target)
  BY <1>3, <1>5, <1>6, OneCopier
<1>8. none \o <<x>> = <<x>> /\ <<x>> \in Seq(Items)
  BY <1>5, <1>6
<1> QED BY <1>1, <1>2, <1>4, <1>7, <1>8

LEMMA CopyIntoFollows ==
  ASSUME Inv, put.pc = "work", NEW src, NEW target, Laid(put.todo, src, target), CopyInto, put' # NoPut
  PROVE  \E items \in Seq(Items) : put' = More(put, items) /\ Follows(items, it, src, target)
<1>1. PICK i : i = it
  OBVIOUS
<1>2. i.k = "into"
  BY <1>1 DEF CopyInto, Work, it
<1>3. i \in Items /\ Copier(i) /\ Along(i.from, i.to, src, target)
  BY <1>1, <1>2, HeadAlong DEF Copier
<1>4. i.from \in Seq(Tops \cup Names) /\ i.to \in Seq(Names) /\ i.to # << >>
  BY <1>3 DEF Items
<1>5. PICK front : front = Front(i.to) /\ front \in Seq(Names)
  BY <1>4, FrontFacts
<1>6. PICK rel \in Seq(Names), k \in {"list", "file"} : put' = More(put, MkdirAll(rel) \o <<Item(k, i.from, i.to)>>)
  <2>1. \/ put' = More(put, MkdirAll(i.to) \o <<Item("list", i.from, i.to)>>)
        \/ put' = More(put, MkdirAll(front) \o <<Item("file", i.from, i.to)>>)
    BY <1>1, <1>5 DEF CopyInto, Fail, it
  <2> QED BY <1>4, <1>5, <2>1
<1>7. PICK pre, x : pre = MkdirAll(rel) /\ x = Item(k, i.from, i.to)
  OBVIOUS
<1>8. x \in Items /\ x.to = i.to /\ x.from = i.from /\ Copier(x)
  BY <1>4, <1>7, ItemType DEF Item, Kinds, Copier
<1>9. pre \in Seq(Items) /\ \A j \in 1..Len(pre) : ~Copier(pre[j])
  BY <1>7, MkdirAllType, MkdirAllNoCopier
<1>10. Follows(pre \o <<x>>, i, src, target)
  BY <1>3, <1>8, <1>9, OneCopier
<1>11. pre \o <<x>> \in Seq(Items)
  BY <1>8, <1>9
<1> QED BY <1>1, <1>6, <1>7, <1>10, <1>11

\* An entry of the source.
LEMMA EntryAlong ==
  ASSUME NEW h \in Items, NEW src \in Absolute, NEW target \in Seq(Names), Along(h.from, h.to, src, target),
         NEW n \in Names, NEW x, x = Entry(h, n)
  PROVE  /\ Copier(x) /\ Along(x.from, x.to, src, target) /\ Begins(h.to, x.to)
         /\ x.to \in Seq(Names) /\ Len(x.to) = Len(h.to) + 1 /\ x.to[Len(h.to) + 1] = n
<1>1. PICK from, to : from = Append(h.from, n) /\ to = Append(h.to, n) /\ x.k = "into" /\ x.from = from /\ x.to = to
  BY DEF Entry, Item
<1>2. /\ h.from \in Absolute /\ Begins(src, h.from) /\ Begins(target, h.to) /\ h.to \in Seq(Names)
      /\ h.from \in Seq(Tops \cup Names)
  BY DEF Along, Absolute
<1>3. to \in Seq(Names) /\ Len(h.to) \in Nat /\ Len(to) = Len(h.to) + 1 /\ to[Len(h.to) + 1] = n /\ \A j \in 1..Len(h.to) : to[j] = h.to[j]
  BY <1>1, <1>2
<1>4. /\ from \in Seq(Tops \cup Names) /\ Len(h.from) \in Nat /\ Len(from) = Len(h.from) + 1 /\ from[Len(h.from) + 1] = n
      /\ \A j \in 1..Len(h.from) : from[j] = h.from[j]
  BY <1>1, <1>2
<1>5. Len(src) \in Nat /\ Len(target) \in Nat
  BY DEF Absolute
<1>6. from \in Absolute
  <2>1. Len(h.from) > 0 /\ h.from[1] \in Tops /\ \A j \in 2..Len(h.from) : h.from[j] \in Names
    BY <1>2 DEF Absolute
  <2>2. ASSUME NEW j \in 2..Len(from) PROVE from[j] \in Names
    <3>1. CASE j = Len(h.from) + 1
      BY <1>4, <3>1
    <3>2. CASE j # Len(h.from) + 1
      <4>1. j \in 2..Len(h.from) /\ j \in 1..Len(h.from)
        BY <1>4, <3>2
      <4> QED BY <1>4, <2>1, <4>1
    <3> QED BY <3>1, <3>2
  <2> QED BY <1>4, <2>1, <2>2 DEF Absolute
<1>7. Begins(src, from) /\ Begins(target, to) /\ Begins(h.to, to)
  BY <1>2, <1>3, <1>4, <1>5 DEF Begins
<1>8. /\ Len(h.from) - Len(src) = Len(h.to) - Len(target) /\ Len(target) <= Len(h.to)
      /\ \A k \in 1..(Len(h.to) - Len(target)) : h.from[Len(src) + k] = h.to[Len(target) + k]
  BY DEF Along, Begins
<1>9. Len(from) - Len(src) = Len(to) - Len(target)
  <2>1. PICK a, b, u, v \in Nat : a = Len(h.from) /\ b = Len(h.to) /\ u = Len(src) /\ v = Len(target)
    BY <1>3, <1>4, <1>5
  <2>2. Len(from) = a + 1 /\ Len(to) = b + 1
    BY <1>3, <1>4, <2>1
  <2>3. a - u = b - v
    BY <1>8, <2>1
  <2>4. (a + 1) - u = (b + 1) - v
    BY <2>3
  <2> QED BY <2>1, <2>2, <2>4
<1>10. ASSUME NEW k \in 1..(Len(to) - Len(target)) PROVE from[Len(src) + k] = to[Len(target) + k]
  <2>1. CASE k = Len(to) - Len(target)
    <3>1. Len(src) + k = Len(h.from) + 1 /\ Len(target) + k = Len(h.to) + 1
      BY <1>3, <1>4, <1>5, <1>9, <2>1
    <3> QED BY <1>3, <1>4, <3>1
  <2>2. CASE k # Len(to) - Len(target)
    <3>1. k \in 1..(Len(h.to) - Len(target)) /\ Len(src) + k \in 1..Len(h.from) /\ Len(target) + k \in 1..Len(h.to)
      <4>1. PICK a, b, c, e : a = Len(h.from) /\ b = Len(src) /\ c = Len(h.to) /\ e = Len(target)
        OBVIOUS
      <4>2. a \in Nat /\ b \in Nat /\ c \in Nat /\ e \in Nat /\ a - b = c - e /\ k \in 1..(c + 1 - e) /\ k # c + 1 - e
        BY <1>3, <1>4, <1>5, <1>8, <2>2, <4>1
      <4>3. k \in 1..(c - e) /\ b + k \in 1..a /\ e + k \in 1..c
        BY <4>2
      <4> QED BY <4>1, <4>3
    <3> QED BY <1>3, <1>4, <1>8, <3>1
  <2> QED BY <2>1, <2>2
<1>11. Along(from, to, src, target)
  BY <1>3, <1>6, <1>7, <1>9, <1>10 DEF Along
<1> QED BY <1>1, <1>3, <1>7, <1>11 DEF Copier

\* s is as far below a as to is below b, and by the same names.
BelowBoth(a, b, s, to) ==
  /\ Begins(a, s) /\ Len(s) - Len(a) = Len(to) - Len(b)
  /\ \A k \in 1..(Len(to) - Len(b)) : s[Len(a) + k] = to[Len(b) + k]

\* What is below the one is below the other, by the same names.
LEMMA AlongBegins ==
  ASSUME NEW a, NEW b, NEW s, NEW to, NEW src \in Absolute, NEW target \in Seq(Names),
         Along(a, b, src, target), Along(s, to, src, target), Begins(b, to)
  PROVE  BelowBoth(a, b, s, to)
<1>1. PICK la, lb, ls, lt, m, n : la = Len(a) /\ lb = Len(b) /\ ls = Len(s) /\ lt = Len(to) /\ m = Len(src) /\ n = Len(target)
  OBVIOUS
<1>2. la \in Nat /\ lb \in Nat /\ ls \in Nat /\ lt \in Nat /\ m \in Nat /\ n \in Nat
  BY <1>1 DEF Along, Absolute
<1>3. /\ la - m = lb - n /\ ls - m = lt - n /\ m <= la /\ n <= lb /\ lb <= lt /\ m <= ls
      /\ \A j \in 1..m : src[j] = a[j] /\ src[j] = s[j]
      /\ \A j \in 1..lb : b[j] = to[j]
      /\ \A k \in 1..(lb - n) : a[m + k] = b[n + k]
      /\ \A k \in 1..(lt - n) : s[m + k] = to[n + k]
  BY <1>1 DEF Along, Begins
<1>4. la <= ls /\ ls - la = lt - lb
  BY <1>2, <1>3
<1>5. ASSUME NEW j \in 1..la PROVE a[j] = s[j]
  <2>1. CASE j <= m
    BY <1>2, <1>3, <2>1
  <2>2. CASE ~(j <= m)
    <3>1. PICK k : k = j - m
      OBVIOUS
    <3>2. k \in 1..(lb - n) /\ k \in 1..(lt - n) /\ m + k = j /\ n + k \in 1..lb
      BY <1>2, <1>3, <2>2, <3>1
    <3> QED BY <1>3, <3>2
  <2> QED BY <2>1, <2>2
<1>6. ASSUME NEW k \in 1..(lt - lb) PROVE s[la + k] = to[lb + k]
  <2>1. PICK l : l = lb - n + k
    OBVIOUS
  <2>2. l \in 1..(lt - n) /\ m + l = la + k /\ n + l = lb + k
    BY <1>2, <1>3, <2>1
  <2> QED BY <1>3, <2>2
<1> QED BY <1>1, <1>4, <1>5, <1>6 DEF Begins, BelowBoth

LEMMA SameSeq ==
  ASSUME NEW S, NEW a \in Seq(S), NEW b \in Seq(S), Len(a) = Len(b), \A i \in 1..Len(a) : a[i] = b[i]
  PROVE  a = b
OBVIOUS

LEMMA CopyDirFollows ==
  ASSUME Inv, put.pc = "work", NEW src \in Absolute, NEW target \in Seq(Names), Laid(put.todo, src, target),
         CopyDir, put' # NoPut
  PROVE  \E items \in Seq(Items) : put' = More(put, items) /\ Follows(items, it, src, target)
<1>1. PICK h, d, names : h = it /\ d = SourceAt(it.from) /\ names = ReadDir(SourceAt(it.from))
  OBVIOUS
<1>2. PICK items : items = [j \in DOMAIN names |-> Entry(h, names[j])]
  OBVIOUS
<1>3. h.k = "list" /\ d \in Dirs /\ put' = More(put, items)
  BY <1>1, <1>2 DEF CopyDir, Work, Fail, it
<1>4. h \in Items /\ Copier(h) /\ Along(h.from, h.to, src, target)
  BY <1>1, <1>3, HeadAlong DEF Copier
<1>5. /\ names \in Seq(Names) /\ (\A n \in Names : kids[d][n] # Nil => \E j \in 1..Len(names) : names[j] = n)
      /\ \A i, j \in 1..Len(names) : names[i] = names[j] => i = j
  BY <1>1, ReadDirLists
<1>6. items \in Seq(Items)
  BY <1>2, <1>4, <1>5, EntriesType
<1>7. DOMAIN names = 1..Len(names) /\ Len(names) \in Nat /\ \A j \in 1..Len(names) : names[j] \in Names
  BY <1>5
<1>8. Len(items) = Len(names) /\ \A j \in 1..Len(names) : items[j] = Entry(h, names[j])
  BY <1>2, <1>7
<1>9. ASSUME NEW j \in 1..Len(items)
      PROVE  /\ Copier(items[j]) /\ Along(items[j].from, items[j].to, src, target) /\ Begins(h.to, items[j].to)
             /\ items[j].to \in Seq(Names) /\ Len(items[j].to) = Len(h.to) + 1 /\ items[j].to[Len(h.to) + 1] = names[j]
  <2>1. PICK n, x : n \in Names /\ n = names[j] /\ x = items[j] /\ x = Entry(h, n)
    BY <1>7, <1>8
  <2>2. /\ Copier(x) /\ Along(x.from, x.to, src, target) /\ Begins(h.to, x.to)
        /\ x.to \in Seq(Names) /\ Len(x.to) = Len(h.to) + 1 /\ x.to[Len(h.to) + 1] = n
    BY <1>4, <2>1, EntryAlong
  <2> QED BY <2>1, <2>2
<1>10. Len(h.to) \in Nat /\ h.to \in Seq(Names) /\ h.from \in Absolute
  BY <1>4 DEF Along
<1>11. Spreads(items, h, src, target)
  <2>1. ASSUME NEW i \in 1..Len(items), NEW j \in 1..Len(items), i # j PROVE ~Begins(items[i].to, items[j].to)
    <3> SUFFICES ASSUME Begins(items[i].to, items[j].to) PROVE FALSE
      OBVIOUS
    <3>1. Len(h.to) + 1 \in 1..Len(items[i].to)
      BY <1>9, <1>10
    <3>2. items[i].to[Len(h.to) + 1] = items[j].to[Len(h.to) + 1]
      BY <3>1 DEF Begins
    <3>3. names[i] = names[j]
      BY <1>9, <3>2
    <3> QED BY <1>5, <1>8, <2>1, <3>3
  <2> QED BY <1>4, <1>9, <2>1 DEF Spreads, Laid
<1>12. Passes(items, h, src, target)
  <2> SUFFICES ASSUME NEW s \in Absolute, NEW to \in Seq(Names), Begins(h.to, to), Along(s, to, src, target), SourceAt(s) \in Files
               PROVE  ~Settled(items, to)
    BY DEF Passes
  <2>1. PICK from \in Absolute : from = h.from
    BY <1>10
  <2>2. PICK f : f = SourceAt(s) /\ f \in Files
    OBVIOUS
  <2>3. f # Nil /\ d # Nil /\ f # d
    BY <1>3, <2>2, TreeAssumption DEF Objects
  <2>4. Leads(s, f) /\ Leads(from, d)
    <3>1. d = SourceAt(from)
      BY <1>1, <2>1
    <3> QED BY <2>2, <2>3, <3>1, SourceLeads
  <2>5. /\ Begins(from, s) /\ Len(s) - Len(from) = Len(to) - Len(h.to)
        /\ \A k \in 1..(Len(to) - Len(h.to)) : s[Len(from) + k] = to[Len(h.to) + k]
    <3>1. PICK b : b = h.to /\ Along(from, b, src, target) /\ Begins(b, to)
      BY <1>4, <2>1
    <3>2. BelowBoth(from, b, s, to)
      BY <3>1, AlongBegins
    <3> QED BY <3>1, <3>2 DEF BelowBoth
  <2>6. PICK S : S = Tops \cup Names
    OBVIOUS
  <2>7. s \in Seq(S) /\ from \in Seq(S) /\ Len(s) \in Nat /\ Len(from) \in Nat /\ Len(to) \in Nat /\ Len(h.to) <= Len(to)
    BY <2>6 DEF Absolute, Begins
  <2>8. Len(from) < Len(s)
    <3> SUFFICES ASSUME ~(Len(from) < Len(s)) PROVE FALSE
      OBVIOUS
    <3>1. Len(from) = Len(s)
      BY <2>5, <2>7 DEF Begins
    <3>2. from = s
      BY <2>5, <2>7, <3>1, SameSeq DEF Begins
    <3> QED BY <2>3, <2>4, <3>2, LeadsSame
  <2>9. PICK e \in Dirs : Leads(from, e) /\ kids[e][s[Len(from) + 1]] # Nil
    BY <2>3, <2>4, <2>5, <2>8, LeadsPart
  <2>10. e = d
    BY <2>4, <2>9, LeadsSame
  <2>11. PICK n : n = to[Len(h.to) + 1]
    OBVIOUS
  <2>12. s[Len(from) + 1] = n /\ n \in Names /\ Len(h.to) + 1 <= Len(to)
    <3>1. Len(h.to) + 1 <= Len(to)
      BY <1>10, <2>5, <2>7, <2>8
    <3>2. 1 \in 1..(Len(to) - Len(h.to)) /\ Len(h.to) + 1 \in 1..Len(to)
      BY <1>10, <2>7, <3>1
    <3> QED BY <2>5, <2>11, <3>1, <3>2
  <2>13. PICK j \in 1..Len(names) : names[j] = n
    BY <1>5, <2>9, <2>10, <2>12
  <2>14. j \in 1..Len(items)
    BY <1>8
  <2>15. PICK x : x = items[j].to
    OBVIOUS
  <2>16. Begins(h.to, x) /\ x \in Seq(Names) /\ Len(x) = Len(h.to) + 1 /\ x[Len(h.to) + 1] = n
    BY <1>9, <2>13, <2>14, <2>15
  <2>17. ASSUME NEW i \in 1..Len(x) PROVE x[i] = to[i]
    <3>1. CASE i = Len(h.to) + 1
      BY <2>11, <2>16, <3>1
    <3>2. CASE i # Len(h.to) + 1
      <4>1. i \in 1..Len(h.to)
        BY <1>10, <2>16, <3>2
      <4> QED BY <2>16, <4>1 DEF Begins
    <3> QED BY <3>1, <3>2
  <2>18. Begins(x, to)
    BY <2>12, <2>16, <2>17 DEF Begins
  <2> QED BY <1>9, <2>14, <2>15, <2>18 DEF Settled
<1> QED BY <1>1, <1>3, <1>6, <1>11, <1>12 DEF Follows

-----------------------------------------------------------------------------
(* What an undisturbed put has copied and has left to copy *)

\* The file is still to be copied, and where it goes to.
Waiting(c, src, target) ==
  \E s \in Absolute : Along(s, c.to, src, target) /\ SourceAt(s) \in Files /\ body[SourceAt(s)] = c.body

\* The copy is there.
Arrived(c) == Lookup(Root, c.to) \in Files /\ body[Lookup(Root, c.to)] = c.body

\* L is what is left of a put at work.
Due(c, L, src, target) == IF Settled(L, c.to) THEN Arrived(c) ELSE Waiting(c, src, target)

FillAt(p, copies, target) ==
  /\ Laid(p.todo, p.src, target)
  /\ ~IsPrefix(In(target), p.src) =>
       \A c \in copies : /\ c.to \in Seq(Names)
                         /\ IF p.pc = "work" THEN Due(c, p.todo, p.src, target) ELSE Waiting(c, p.src, target)

Filling ==
  /\ body \in [Files -> Files]
  /\ put.pc # "idle" => ~put.ok
  /\ goal.calm => FillAt(put, goal.copies, Target)

\* A step that only takes x away from where it was.
Gentle(x) ==
  /\ KeepsOpen
  /\ \A o \in Files : o # x => KeepsTo(o)
  /\ \A o \in Files \ fresh : body'[o] = body[o]

\* What has a place is not new.
LEMMA LeadsOld ==
  ASSUME Inv, NEW a \in Absolute, NEW o \in Objects, Leads(a, o)
  PROVE  o \notin fresh
<1>1. PICK c : /\ c[1] = a[1] /\ c[Len(a)] = o
               /\ \A i \in 1..(Len(a) - 1) : c[i] \in Dirs /\ c[i + 1] = kids[c[i]][a[i + 1]]
  BY DEF Leads
<1>2. PICK n : n = Len(a) /\ n \in Nat \ {0} /\ a[1] \in Tops /\ \A i \in 2..n : a[i] \in Names
  BY DEF Absolute
<1>3. CASE n = 1
  <2>1. o \in Tops
    BY <1>1, <1>2, <1>3
  <2> QED BY <2>1 DEF Inv, Inodes, Opened0
<1>4. CASE n # 1
  <2>1. PICK m : m = n - 1 /\ m \in 1..(n - 1) /\ m + 1 = n /\ n \in 2..n
    BY <1>2, <1>4
  <2>2. PICK d \in Dirs, x \in Names : d = c[m] /\ x = a[n] /\ kids[d][x] = o
    BY <1>1, <1>2, <2>1
  <2> QED BY <2>2 DEF Inv, Inodes
<1> QED BY <1>3, <1>4

LEMMA SourceKept ==
  ASSUME Inv, NEW x, Gentle(x), NEW s \in Absolute, NEW o \in Files, o = SourceAt(s), o # x
  PROVE  SourceAt(s)' = o /\ body'[o] = body[o]
<1>1. PICK top, t : top = Head(s) /\ t = Tail(s) /\ top \in Tops /\ t \in Seq(Names)
  <2>1. s \in Seq(Tops \cup Names) /\ Len(s) \in Nat \ {0} /\ s[1] \in Tops /\ \A i \in 2..Len(s) : s[i] \in Names
    BY DEF Absolute
  <2>2. PICK t : t = Tail(s)
    OBVIOUS
  <2>3. Len(t) = Len(s) - 1 /\ (\A i \in 1..Len(t) : t[i] = s[i + 1]) /\ Head(s) = s[1] /\ t \in Seq(Tops \cup Names)
    BY <2>1, <2>2
  <2>4. \A i \in 1..Len(t) : t[i] \in Names
    BY <2>1, <2>3
  <2>5. t \in Seq(Names)
    BY <2>3, <2>4
  <2> QED BY <2>1, <2>2, <2>3, <2>5
<1>2. o # Nil
  BY TreeAssumption DEF Objects
<1>3. Finds(top, t, o)
  <2>1. Lookup(top, t) = o
    BY <1>1 DEF SourceAt
  <2> QED BY <1>1, <1>2, <2>1, LookupFinds DEF LookupIs
<1>4. top \notin fresh
  BY <1>1 DEF Inv, Inodes, Opened0
<1>5. Finds(top, t, o)'
  BY <1>1, <1>3, <1>4, FindsKept DEF Gentle, Inv
<1>6. Lookup(top, t)' = o
  BY <1>1, <1>2, <1>5, LookupFindsNext DEF LookupIs
<1>7. SourceAt(s)' = o
  BY <1>1, <1>6 DEF SourceAt
<1>8. o \notin fresh
  <2>1. Leads(s, o)
    BY <1>2, SourceLeads
  <2> QED BY <2>1, LeadsOld DEF Objects
<1> QED BY <1>7, <1>8 DEF Gentle

LEMMA WaitingKept ==
  ASSUME Inv, NEW x, Gentle(x), NEW c, NEW src, NEW target, Waiting(c, src, target),
         \A s \in Absolute : Along(s, c.to, src, target) /\ SourceAt(s) \in Files => SourceAt(s) # x
  PROVE  Waiting(c, src, target)'
<1>1. PICK s \in Absolute : Along(s, c.to, src, target) /\ SourceAt(s) \in Files /\ body[SourceAt(s)] = c.body
  BY DEF Waiting
<1>2. PICK o \in Files : o = SourceAt(s) /\ o # x
  BY <1>1
<1>3. SourceAt(s)' = o /\ body'[o] = body[o]
  BY <1>2, SourceKept
<1>4. SourceAt(s)' \in Files /\ body'[SourceAt(s)'] = c.body
  BY <1>1, <1>2, <1>3
<1> QED BY <1>1, <1>4 DEF Waiting

LEMMA ArrivedKept ==
  ASSUME Inv, NEW x, Gentle(x), NEW c, c.to \in Seq(Names), Arrived(c), Lookup(Root, c.to) # x,
         Root \in Dirs, Root' = Root
  PROVE  Arrived(c)'
<1>1. PICK to \in Seq(Names), o \in Files : to = c.to /\ o = Lookup(Root, to) /\ o # x /\ body[o] = c.body
  BY DEF Arrived
<1>2. PICK top : top = Root
  OBVIOUS
<1>3. o # Nil
  BY TreeAssumption DEF Objects
<1>4. Finds(top, to, o)
  <2>1. Lookup(top, to) = o
    BY <1>1, <1>2
  <2> QED BY <1>3, <2>1, LookupFinds DEF LookupIs
<1>5. top \notin fresh
  BY <1>2, Constants DEF Inv, Inodes, Root
<1>6. Finds(top, to, o)'
  BY <1>1, <1>4, <1>5, FindsKept DEF Gentle, Inv
<1>7. Lookup(top, to)' = o
  BY <1>3, <1>6, LookupFindsNext DEF LookupIs
<1>8. Leads(In(to), o)
  BY <1>1, <1>3, LookupLeads
<1>9. o \notin fresh
  <2>1. PICK a \in Absolute : a = In(to)
    BY InFacts
  <2> QED BY <1>8, <2>1, LeadsOld DEF Objects
<1>10. body'[o] = c.body
  BY <1>1, <1>9 DEF Gentle
<1>11. Lookup(Root, c.to)' = o
  BY <1>1, <1>2, <1>7
<1> QED BY <1>10, <1>11 DEF Arrived

-----------------------------------------------------------------------------
(* The steps of the copy *)

\* What is due after a step that puts items in place of the head.
FillsOn(M, copies, src, target) ==
  /\ Laid(M, src, target)
  /\ ~IsPrefix(In(target), src) => \A c \in copies : c.to \in Seq(Names) /\ Due(c, M, src, target)

\* A step that writes no file.
LEMMA LookingFills ==
  ASSUME Inv, Root \in Dirs, Root' = Root, Gentle(Nil), NEW L \in Seq(Items), L # << >>,
         NEW items \in Seq(Items),
         NEW copies, NEW src, NEW target, FillsOn(L, copies, src, target), Follows(items, L[1], src, target)
  PROVE  FillsOn(items \o Tail(L), copies, src, target)'
<1>1. PICK M : M = items \o Tail(L) /\ Joined(M, L, items)
  BY Joins
<1>2. Spreads(items, L[1], src, target) /\ Passes(items, L[1], src, target) /\ Laid(L, src, target)
  BY DEF Follows, FillsOn
<1>3. Laid(M, src, target)
  BY <1>1, <1>2, LaidMore
<1>4. Nil \notin Files
  BY TreeAssumption DEF Objects
<1>5. ASSUME ~IsPrefix(In(target), src), NEW c \in copies PROVE c.to \in Seq(Names) /\ Due(c, M, src, target)'
  <2>1. c.to \in Seq(Names) /\ Due(c, L, src, target)
    BY <1>5 DEF FillsOn
  <2>2. CASE Settled(L, c.to)
    <3>1. Settled(M, c.to)
      <4>1. PICK to \in Seq(Names) : to = c.to
        BY <2>1
      <4>2. Settled(M, to)
        BY <1>1, <1>2, <2>2, <4>1, StaysSettled
      <4> QED BY <4>1, <4>2
    <3>2. Arrived(c) /\ Lookup(Root, c.to) # Nil
      BY <1>4, <2>1, <2>2 DEF Due, Arrived
    <3>3. Arrived(c)'
      BY <2>1, <3>2, ArrivedKept
    <3> QED BY <2>1, <3>1, <3>3 DEF Due
  <2>3. CASE ~Settled(L, c.to)
    <3>1. Waiting(c, src, target)
      BY <2>1, <2>3 DEF Due
    <3>2. ~Settled(M, c.to)
      <4>1. PICK to \in Seq(Names) : to = c.to
        BY <2>1
      <4>2. ~Settled(items, to) \/ ~(Copier(L[1]) /\ Begins(L[1].to, to))
        BY <1>2, <3>1, <4>1 DEF Waiting, Passes
      <4>3. ~Settled(M, to)
        BY <1>1, <2>3, <4>1, <4>2, StaysUnsettled
      <4> QED BY <4>1, <4>3
    <3>3. Waiting(c, src, target)'
      BY <1>4, <3>1, WaitingKept
    <3> QED BY <2>1, <3>2, <3>3 DEF Due
  <2> QED BY <2>2, <2>3
<1>6. FillsOn(M, copies, src, target)'
  BY <1>3, <1>5 DEF FillsOn
<1> QED BY <1>1, <1>6

\* The file that was next is the only one that goes where it went.
LEMMA OnlyFile ==
  ASSUME NEW from \in Absolute, NEW o \in Files, o = SourceAt(from), NEW s \in Absolute,
         SourceAt(s) \in Files,
         NEW src \in Absolute, NEW target \in Seq(Names), NEW b \in Seq(Names), NEW to \in Seq(Names),
         Along(from, b, src, target), Along(s, to, src, target), Begins(b, to)
  PROVE  s = from /\ to = b
<1>1. BelowBoth(from, b, s, to)
  BY AlongBegins
<1>2. /\ Begins(from, s) /\ Len(s) - Len(from) = Len(to) - Len(b)
  BY <1>1 DEF BelowBoth
<1>3. PICK f \in Files : f = SourceAt(s)
  OBVIOUS
<1>4. f # Nil /\ o # Nil /\ o \notin Dirs
  BY TreeAssumption DEF Objects
<1>5. Leads(s, f) /\ Leads(from, o)
  BY <1>3, <1>4, SourceLeads
<1>6. PICK k, l, m, n : k = Len(s) /\ l = Len(from) /\ m = Len(to) /\ n = Len(b) /\ k \in Nat /\ l \in Nat /\ m \in Nat /\ n \in Nat
  <2>1. Len(s) \in Nat /\ Len(from) \in Nat
    BY DEF Absolute
  <2>2. Len(to) \in Nat /\ Len(b) \in Nat
    OBVIOUS
  <2> QED BY <2>1, <2>2
<1>7. l <= k
  BY <1>2, <1>6 DEF Begins
<1>8. ~(l < k)
  <2> SUFFICES ASSUME l < k PROVE FALSE
    OBVIOUS
  <2>1. PICK d \in Dirs : Leads(from, d)
    BY <1>2, <1>4, <1>5, <1>6, LeadsPart
  <2> QED BY <1>4, <1>5, <2>1, LeadsSame
<1>9. k = l /\ m = n
  BY <1>2, <1>6, <1>7, <1>8
<1>10. from = s
  <2>1. PICK S : S = Tops \cup Names
    OBVIOUS
  <2>2. from \in Seq(S) /\ s \in Seq(S)
    BY <2>1 DEF Absolute
  <2> QED BY <1>2, <1>6, <1>9, <2>2, SameSeq DEF Begins
<1>11. b = to
  BY <1>6, <1>9, SameSeq DEF Begins
<1> QED BY <1>10, <1>11

\* A file that is made is found where the item says.
LEMMA FoundNew ==
  ASSUME Inv, Root \in Dirs, Root' = Root, KeepsOpen, NEW to \in Seq(Names) \ {<< >>}, NEW p \in Dirs,
         p = Lookup(Root, Front(to)),
         NEW f \in Files, kids' = [kids EXCEPT ![p][Last(to)] = f], kids[p][Last(to)] \notin Dirs,
         Searches("user", p)'
  PROVE  Lookup(Root, to)' = f
<1>1. PICK t, n, top : t = Front(to) /\ n = Last(to) /\ top = Root
  OBVIOUS
<1>2. t \in Seq(Names) /\ n \in Names
  BY <1>1, InLonger
<1>3. p # Nil /\ f # Nil
  BY TreeAssumption DEF Objects
<1>4. Finds(top, t, p)
  BY <1>1, <1>2, <1>3, LookupFinds DEF LookupIs
<1>5. KeepsTo(p)
  <2>1. p # kids[p][n]
    BY <1>1
  <2> QED BY <1>1, <1>2, <2>1, ReplaceKeeps DEF Inv
<1>6. top \notin fresh
  BY <1>1, Constants DEF Inv, Inodes, Root
<1>7. Finds(top, t, p)'
  BY <1>2, <1>4, <1>5, <1>6, FindsKept DEF Inv
<1>8. PICK g : /\ g[0] = top /\ g[Len(t)] = p
               /\ \A i \in 1..Len(t) : g[i - 1] \in Dirs /\ Searches("user", g[i - 1])' /\ g[i] = kids'[g[i - 1]][t[i]]
  BY <1>7 DEF Finds
<1>9. kids'[p][n] = f
  BY <1>1, <1>2 DEF Inv, Entries
<1>10. /\ to \in Seq(Names) /\ Len(to) \in Nat /\ Len(t) \in Nat /\ Len(to) = Len(t) + 1
       /\ n = to[Len(to)] /\ \A i \in 1..Len(t) : t[i] = to[i]
  <2>1. to \in Seq(Names) /\ Len(to) \in Nat
    OBVIOUS
  <2>2. Len(t) = Len(to) - 1 /\ \A i \in 1..Len(t) : t[i] = to[i]
    BY <1>1, FrontFacts
  <2>3. Len(t) \in Nat
    BY <1>2
  <2> QED BY <1>1, <2>1, <2>2, <2>3 DEF Last
<1>11. PICK l : l = Len(t) /\ l \in Nat /\ Len(to) = l + 1
  BY <1>10
<1> DEFINE h == [i \in 0..(l + 1) |-> IF i = l + 1 THEN f ELSE g[i]]
<1>12. h[0] = top /\ h[l + 1] = f
  BY <1>8, <1>11
<1>13. ASSUME NEW i \in 1..(l + 1)
       PROVE  h[i - 1] \in Dirs /\ Searches("user", h[i - 1])' /\ h[i] = kids'[h[i - 1]][to[i]]
  <2>1. CASE i = l + 1
    <3>1. h[i - 1] = p /\ h[i] = f /\ to[i] = n
      BY <1>8, <1>10, <1>11, <2>1
    <3> QED BY <1>9, <3>1
  <2>2. CASE i # l + 1
    <3>1. i \in 1..Len(t) /\ i \in 0..(l + 1) /\ i - 1 \in 0..(l + 1) /\ i - 1 # l + 1
      BY <1>11, <2>2
    <3>2. h[i - 1] = g[i - 1] /\ h[i] = g[i] /\ t[i] = to[i]
      BY <1>10, <2>2, <3>1
    <3>3. PICK e \in Dirs : e = g[i - 1] /\ Searches("user", e)' /\ g[i] = kids'[e][t[i]]
      BY <1>8, <3>1
    <3> QED BY <3>2, <3>3
  <2> QED BY <2>1, <2>2
<1> HIDE DEF h
<1>14. Finds(top, to, f)'
  BY <1>11, <1>12, <1>13 DEF Finds
<1>15. Lookup(top, to)' = f
  BY <1>3, <1>10, <1>14, LookupFindsNext DEF LookupIs
<1> QED BY <1>1, <1>15

\* The step that writes one.
LEMMA WritingFills ==
  ASSUME Inv, body \in [Files -> Files], Root \in Dirs, Root' = Root, NEW L \in Seq(Items), L # << >>,
         NEW h \in Items, h = L[1], Copier(h),
         NEW copies, NEW src \in Absolute, NEW target \in Seq(Names), FillsOn(L, copies, src, target),
         ~RefuseSelfCopy(src, target),
         NEW o \in Files, o = SourceAt(h.from), NEW p \in Dirs, p = Lookup(Root, Front(h.to)),
         NEW x, x = kids[p][Last(h.to)], x \notin Dirs, Gentle(x),
         NEW f \in Files, kids' = [kids EXCEPT ![p][Last(h.to)] = f], Searches("user", p)', body'[f] = body[o]
  PROVE  FillsOn(Tail(L), copies, src, target)'
<1>1. PICK none \in Seq(Items) : none = << >> /\ Len(none) = 0 /\ \A i \in 1..Len(none) : ~Copier(none[i])
  BY NoneLeft
<1>2. PICK M : M = Tail(L) /\ Joined(M, L, none)
  <2>1. Joined(none \o Tail(L), L, none)
    BY Joins
  <2>2. none \o Tail(L) = Tail(L)
    <3>1. Tail(L) \in Seq(Items)
      OBVIOUS
    <3> QED BY <1>1, <3>1
  <2> QED BY <2>1, <2>2
<1>3. Spreads(none, h, src, target) /\ Laid(L, src, target)
  BY <1>1, NoCopiers DEF FillsOn
<1>4. Laid(M, src, target)
  BY <1>2, <1>3, LaidMore
<1>5. PICK from \in Absolute, b \in Seq(Names) \ {<< >>} : from = h.from /\ b = h.to /\ Along(from, b, src, target)
  <2>1. 1 \in 1..Len(L)
    BY <1>2 DEF Joined
  <2>2. Along(h.from, h.to, src, target)
    BY <1>3, <2>1 DEF Laid
  <2> QED BY <2>2 DEF Items, Along
<1>6. Leads(In(b), x) /\ Begins(target, b)
  BY <1>5, EntryLeads DEF Along
<1>7. ASSUME ~IsPrefix(In(target), src), NEW s \in Absolute, NEW to, Along(s, to, src, target), SourceAt(s) \in Files
      PROVE  SourceAt(s) # x
  <2> SUFFICES ASSUME x = SourceAt(s) PROVE FALSE
    OBVIOUS
  <2>1. x # Nil
    BY <1>7, TreeAssumption DEF Objects
  <2>2. Leads(s, x) /\ Begins(src, s)
    BY <1>7, <2>1, SourceLeads DEF Along
  <2>3. Alike(b, target)
    BY <1>6 DEF Alike
  <2> QED BY <1>5, <1>6, <1>7, <2>1, <2>2, <2>3, OwnPath DEF Inv
<1>8. ASSUME ~IsPrefix(In(target), src), NEW c \in copies PROVE c.to \in Seq(Names) /\ Due(c, M, src, target)'
  <2>1. c.to \in Seq(Names) /\ Due(c, L, src, target)
    BY <1>8 DEF FillsOn
  <2>0. PICK to \in Seq(Names) : to = c.to
    BY <2>1
  <2>2. CASE Settled(L, to)
    <3>1. Settled(M, to)
      BY <1>2, <1>3, <2>2, StaysSettled
    <3>2. Arrived(c)
      BY <2>0, <2>1, <2>2 DEF Due
    <3>3. Lookup(Root, to) # x
      <4> SUFFICES ASSUME x = Lookup(Root, to) PROVE FALSE
        OBVIOUS
      <4>1. x # Nil
        BY <2>0, <3>2, TreeAssumption DEF Objects, Arrived
      <4>2. Leads(In(to), x)
        BY <4>1, LookupLeads
      <4>3. PICK a, e : a = In(to) /\ e = In(b) /\ a \in Absolute /\ e \in Absolute
        BY <1>5, InFacts
      <4>4. Len(e) = Len(a) /\ \A i \in 1..Len(e) : e[i] = a[i]
        BY <1>6, <4>1, <4>2, <4>3, OnePath DEF Inv
      <4>5. Begins(b, to)
        BY <4>3, <4>4, InSame
      <4>6. 1 \in 1..Len(L)
        BY <1>2 DEF Joined
      <4> QED BY <1>5, <2>2, <4>5, <4>6 DEF Settled
    <3>4. Arrived(c)'
      BY <2>0, <2>1, <3>2, <3>3, ArrivedKept
    <3> QED BY <2>0, <2>1, <3>1, <3>4 DEF Due
  <2>3. CASE ~Settled(L, to) /\ ~Begins(b, to)
    <3>1. Waiting(c, src, target)
      BY <2>0, <2>1, <2>3 DEF Due
    <3>2. ~Settled(M, to)
      BY <1>2, <1>5, <2>3, StaysUnsettled
    <3>3. Waiting(c, src, target)'
      BY <1>7, <1>8, <3>1, WaitingKept
    <3> QED BY <2>0, <2>1, <3>2, <3>3 DEF Due
  <2>4. CASE ~Settled(L, to) /\ Begins(b, to)
    <3>1. Waiting(c, src, target)
      BY <2>0, <2>1, <2>4 DEF Due
    <3>2. PICK s \in Absolute : Along(s, to, src, target) /\ SourceAt(s) \in Files /\ body[SourceAt(s)] = c.body
      BY <2>0, <3>1 DEF Waiting
    <3>3. s = from /\ to = b
      BY <1>5, <2>4, <3>2, OnlyFile
    <3>4. body'[f] = c.body
      BY <1>5, <3>2, <3>3
    <3>5. Lookup(Root, b)' = f
      BY <1>5, FoundNew DEF Gentle
    <3>6. Arrived(c)'
      BY <2>0, <3>3, <3>4, <3>5 DEF Arrived
    <3>7. Settled(M, L[1].to)
      BY <1>1, <1>2, <1>3, HeadSettled
    <3> QED BY <1>5, <2>0, <2>1, <3>3, <3>6, <3>7 DEF Due
  <2> QED BY <2>2, <2>3, <2>4
<1>9. FillsOn(M, copies, src, target)'
  BY <1>4, <1>8 DEF FillsOn
<1> QED BY <1>2, <1>9

LEMMA QuietGentle ==
  ASSUME UNCHANGED <<kids, attr, body>>
  PROVE  Gentle(Nil) /\ Root' = Root
BY DEF Gentle, KeepsOpen, KeepsTo, Searches, Allowed, Root

\* What is made has no place and no attributes of its own before.
LEMMA MakingGentle ==
  ASSUME Inv, NEW p \in Dirs, NEW n \in Names, kids[p][n] \notin Dirs, NEW v \in fresh,
         kids' = [kids EXCEPT ![p][n] = v], NEW a, attr' = [attr EXCEPT ![v] = a],
         \A o \in Files \ fresh : body'[o] = body[o]
  PROVE  Gentle(kids[p][n])
<1>1. \A o \in Files : o # kids[p][n] => KeepsTo(o)
  BY ReplaceKeeps DEF Inv
<1>2. KeepsOpen
  <2> SUFFICES ASSUME NEW d \in Dirs \ fresh, Searches("user", d) PROVE Searches("user", d)'
    BY DEF KeepsOpen
  <2>1. attr'[d] = attr[d]
    BY DEF Inv, Attributes, Objects
  <2> QED BY <2>1 DEF Searches, Allowed
<1> QED BY <1>1, <1>2 DEF Gentle

\* What is left after a step of the copy, and that it is due.
StepFills(L, copies, src, target) ==
  \E m \in SUBSET Objects, items \in Seq(Items) :
    put' = More([put EXCEPT !.made = m], items) /\ FillsOn(items \o Tail(L), copies, src, target)'

LEMMA LookingSteps ==
  ASSUME Inv, put.pc = "work", NEW L, L = put.todo, NEW copies, NEW src \in Absolute,
         NEW target \in Seq(Names),
         FillsOn(L, copies, src, target), Root \in Dirs, Root' = Root, Gentle(Nil),
         NEW m \in SUBSET Objects, NEW items \in Seq(Items), put' = More([put EXCEPT !.made = m], items),
         Follows(items, it, src, target)
  PROVE  StepFills(L, copies, src, target)
<1>1. L \in Seq(Items) /\ L # << >> /\ it = L[1]
  <2>1. put.todo \in Seq(Items) /\ put.todo # << >>
    BY Working DEF Inv
  <2> QED BY <2>1 DEF it
<1>2. PICK h : h = it
  OBVIOUS
<1>3. Follows(items, h, src, target) /\ h = L[1]
  BY <1>1, <1>2
<1>4. FillsOn(items \o Tail(L), copies, src, target)'
  BY <1>1, <1>3, LookingFills
<1> QED BY <1>4 DEF StepFills

LEMMA QuietFills ==
  ASSUME Inv, put.pc = "work", NEW L, L = put.todo, NEW copies, NEW src \in Absolute,
         NEW target \in Seq(Names),
         FillsOn(L, copies, src, target), Root \in Dirs, put' # NoPut,
         StatDir \/ PutSource \/ CopyInto \/ CopyDir
  PROVE  StepFills(L, copies, src, target)
<1>1. Laid(put.todo, src, target)
  BY DEF FillsOn
<1>2. PICK items \in Seq(Items) : put' = More(put, items) /\ Follows(items, it, src, target)
  BY <1>1, StatDirFollows, PutSourceFollows, CopyIntoFollows, CopyDirFollows
<1>3. PICK m \in SUBSET Objects : m = put.made /\ put = [put EXCEPT !.made = m]
  BY DEF Inv, Putter, Puts0
<1>4. UNCHANGED <<kids, attr, fresh, body>>
  BY DEF StatDir, PutSource, CopyInto, CopyDir
<1>5. Gentle(Nil) /\ Root' = Root
  BY <1>4, QuietGentle
<1>6. put' = More([put EXCEPT !.made = m], items)
  BY <1>2, <1>3
<1> QED BY <1>2, <1>5, <1>6, LookingSteps

LEMMA MkdirFills ==
  ASSUME Inv, put.pc = "work", put.root = Root, NEW L, L = put.todo, NEW copies, NEW src \in Absolute,
         NEW target \in Seq(Names),
         FillsOn(L, copies, src, target), Root \in Dirs, put' # NoPut, NEW d \in Dirs, MkdirExistOK(d)
  PROVE  StepFills(L, copies, src, target)
<1>1. PICK p, n, i : p = Dest /\ n = Last(it.to) /\ i = it
  OBVIOUS
<1>2. PICK x, none : x = Item("stat", << >>, i.to) /\ none = << >>
  OBVIOUS
<1>3. i.k = "mkdir" /\ i \in Items /\ i.to \in Seq(Names) \ {<< >>} /\ UNCHANGED body
  <2>1. i.k = "mkdir" /\ UNCHANGED body
    BY <1>1 DEF MkdirExistOK, Work, it
  <2>2. i \in Items
    BY <1>1, Working DEF Inv
  <2> QED BY <2>1, <2>2 DEF Items
<1>4. ~Copier(i)
  BY <1>3 DEF Copier
<1>5. PICK m \in SUBSET Objects : m = put.made /\ put = [put EXCEPT !.made = m]
  BY DEF Inv, Putter, Puts0
<1>6. CASE UNCHANGED <<kids, attr, fresh>> /\ put' = More(put, <<x>>)
  <2>1. << >> \in Seq(Tops \cup Names) /\ i.to \in Seq(Names) /\ i.to # << >>
    BY <1>3
  <2>2. x \in Items /\ x.k = "stat"
    BY <1>2, <2>1, ItemType DEF Kinds, Item
  <2>3. PICK items \in Seq(Items) : items = <<x>> /\ Len(items) = 1 /\ items[1] = x
    <3>1. <<x>> \in Seq(Items) /\ Len(<<x>>) = 1 /\ <<x>>[1] = x
      BY <2>2
    <3> QED BY <3>1
  <2>4. \A j \in 1..Len(items) : ~Copier(items[j])
    BY <2>2, <2>3 DEF Copier
  <2>5. Follows(items, i, src, target)
    BY <1>4, <2>4, NoCopiers
  <2>6. Gentle(Nil) /\ Root' = Root
    BY <1>3, <1>6, QuietGentle
  <2>7. put' = More([put EXCEPT !.made = m], items)
    BY <1>5, <1>6, <2>3
  <2> QED BY <1>1, <2>5, <2>6, <2>7, LookingSteps
<1>7. CASE /\ p \in Dirs /\ kids[p][n] = Nil /\ d \in Fresh(Dirs) /\ fresh' = fresh \ {d}
           /\ kids' = [kids EXCEPT ![p][n] = d] /\ attr' = [attr EXCEPT ![d] = MadeDir("user", p, PutDirMode)]
           /\ put' = More([put EXCEPT !.made = put.made \cup {d}], none)
  <2>1. d \in fresh
    BY <1>7, FreshIn
  <2>2. n \in Names
    BY <1>1, <1>3, LastType
  <2>3. kids[p][n] \notin Dirs
    BY <1>7, TreeAssumption DEF Objects
  <2>4. PICK a : a = MadeDir("user", p, PutDirMode)
    OBVIOUS
  <2>5. Gentle(kids[p][n])
    BY <1>3, <1>7, <2>1, <2>2, <2>3, <2>4, MakingGentle
  <2>6. Gentle(Nil)
    BY <1>7, <2>5
  <2>7. Root' = Root
    <3>1. p # Parent \/ n # Cubby
      BY <1>7, TreeAssumption DEF Root, Objects
    <3> QED BY <1>7, <2>2, <3>1, Constants DEF Root, Inv, Entries
  <2>8. PICK items \in Seq(Items) : items = << >> /\ Len(items) = 0 /\ \A j \in 1..Len(items) : ~Copier(items[j])
    BY NoneLeft
  <2>9. Follows(items, i, src, target)
    BY <1>4, <2>8, NoCopiers
  <2>10. PICK m2 \in SUBSET Objects : m2 = put.made \cup {d}
    BY <1>5 DEF Objects
  <2>11. put' = More([put EXCEPT !.made = m2], items)
    BY <1>2, <1>7, <2>8, <2>10
  <2> QED BY <1>1, <2>6, <2>7, <2>9, <2>11, LookingSteps
<1> QED BY <1>1, <1>2, <1>6, <1>7 DEF MkdirExistOK, Fail

LEMMA CopyFileFills ==
  ASSUME Inv, body \in [Files -> Files], put.pc = "work", put.root = Root, NEW L, L = put.todo, NEW copies,
         NEW src \in Absolute, NEW target \in Seq(Names),
         FillsOn(L, copies, src, target), Root \in Dirs, Fits(it, src, target), put' # NoPut,
         NEW f \in Files, CopyFile(f)
  PROVE  StepFills(L, copies, src, target)
<1>1. PICK p, n, i, o, none : p = Dest /\ n = Last(it.to) /\ i = it /\ o = SourceAt(it.from) /\ none = << >>
  OBVIOUS
<1>2. i.k = "file" /\ i \in Items /\ i.to \in Seq(Names) \ {<< >>} /\ i = L[1] /\ L \in Seq(Items) /\ L # << >>
  <2>1. i.k = "file"
    BY <1>1 DEF CopyFile, Work, it
  <2>2. i \in Items /\ put.todo \in Seq(Items) /\ put.todo # << >>
    BY <1>1, Working DEF Inv
  <2>3. i = L[1]
    BY <1>1, <2>2 DEF it
  <2> QED BY <2>1, <2>2, <2>3 DEF Items
<1>3. /\ o \in Files /\ p \in Dirs /\ Writes(p) /\ kids[p][n] \notin Dirs /\ f \in Fresh(Files) /\ fresh' = fresh \ {f}
      /\ kids' = [kids EXCEPT ![p][n] = f] /\ attr' = [attr EXCEPT ![f] = MadeFile("user", p, {"gr", "gw"})]
      /\ body' = [body EXCEPT ![f] = body[o]]
      /\ put' = More([put EXCEPT !.made = put.made \cup {f}], none)
  BY <1>1 DEF CopyFile, Fail
<1>4. f \in fresh
  BY <1>3, FreshIn
<1>5. n \in Names /\ n = Last(i.to)
  BY <1>1, <1>2, LastType
<1>6. PICK x, a : x = kids[p][n] /\ a = MadeFile("user", p, {"gr", "gw"})
  OBVIOUS
<1>7. body'[f] = body[o] /\ \A e \in Files \ fresh : body'[e] = body[e]
  BY <1>3, <1>4
<1>8. Gentle(x)
  BY <1>3, <1>4, <1>5, <1>6, <1>7, MakingGentle
<1>9. Root' = Root
  <2>1. p # Parent \/ n # Cubby
    BY <1>3 DEF Root
  <2> QED BY <1>3, <1>5, <2>1, Constants DEF Root, Inv, Entries
<1>10. p = Lookup(Root, Front(i.to)) /\ o = SourceAt(i.from)
  BY <1>1 DEF Dest, it
<1>11. p # Parent
  <2>1. PICK t \in Seq(Names) : t = Front(i.to)
    BY <1>2, LastType
  <2>2. PICK top : top = Root /\ top \in Theirs
    BY Constants DEF Inv, Entries, Root, Theirs, Objects
  <2>3. p # Nil
    BY <1>3, TreeAssumption DEF Objects
  <2>4. PICK g : /\ g[0] = top /\ g[Len(t)] = p
                 /\ \A j \in 1..Len(t) : g[j - 1] \in Dirs /\ g[j] = kids[g[j - 1]][t[j]]
    <3>1. Lookup(top, t) = p
      BY <1>10, <2>1, <2>2
    <3> QED BY <2>3, <3>1, LookupChain
  <2>5. p \in Theirs
    <3>1. CASE Len(t) = 0
      BY <2>2, <2>4, <3>1
    <3>2. CASE Len(t) # 0
      <4>1. Len(t) \in 1..Len(t) /\ t[Len(t)] \in Names
        BY <3>2
      <4>2. PICK e \in Dirs, y \in Names : p = kids[e][y]
        BY <2>4, <4>1
      <4> QED BY <2>3, <4>2 DEF Inv, Entries
    <3> QED BY <3>1, <3>2
  <2> QED BY <2>5, AccessAssumption DEF Theirs
<1>12. Searches("user", p)'
  <2>1. attr[p].own = "user"
    BY <1>3, <1>11 DEF Writes
  <2>2. attr'[p] = attr[p]
    <3>1. p # f
      BY <1>3, TreeAssumption
    <3> QED BY <1>3, <3>1 DEF Inv, Attributes, Objects
  <2> QED BY <2>1, <2>2 DEF Searches, Allowed
<1>13. Copier(i) /\ ~RefuseSelfCopy(src, target)
  BY <1>1, <1>2 DEF Copier, Fits
<1>14. FillsOn(Tail(L), copies, src, target)'
  <2>1. kids' = [kids EXCEPT ![p][Last(i.to)] = f] /\ x = kids[p][Last(i.to)] /\ x \notin Dirs
    BY <1>3, <1>5, <1>6
  <2> QED BY <1>2, <1>3, <1>7, <1>8, <1>9, <1>10, <1>12, <1>13, <2>1, WritingFills
<1>15. PICK m \in SUBSET Objects : m = put.made \cup {f}
  BY DEF Inv, Putter, Puts0, Objects
<1>16. PICK items \in Seq(Items) : items = << >>
  BY NoneLeft
<1>17. items \o Tail(L) = Tail(L)
  <2>1. Tail(L) \in Seq(Items)
    BY <1>2
  <2> QED BY <1>16, <2>1
<1>18. put' = More([put EXCEPT !.made = m], items)
  BY <1>1, <1>3, <1>15, <1>16
<1>19. FillsOn(items \o Tail(L), copies, src, target)'
  BY <1>14, <1>17
<1> QED BY <1>18, <1>19 DEF StepFills

-----------------------------------------------------------------------------
(* The steps of the put *)

\* A put that goes on.
LEMMA FillsAfter ==
  ASSUME NEW p, p = put', p.src = put.src, p.dest = put.dest, p.pc # "idle" => ~p.ok, NEW target,
         target = Target,
         body' \in [Files -> Files], NEW copies,
         goal'.calm => goal'.copies = copies /\ FillAt(p, copies, target)'
  PROVE  Filling'
<1>1. Target' = target
  BY DEF Target
<1> QED BY <1>1 DEF Filling

LEMMA FillOver ==
  ASSUME goal' = NoGoal, body' \in [Files -> Files], put'.pc # "idle" => ~put'.ok
  PROVE  Filling'
BY DEF Filling, NoGoal

\* Before the copy, everything waits.
LEMMA WaitsOn ==
  ASSUME Inv, NEW p, p = put', p.pc # "work", p.src = put.src, p.todo = put.todo, put.pc # "work",
         Gentle(Nil), NEW copies, NEW target, FillAt(put, copies, target)
  PROVE  FillAt(p, copies, target)'
<1>1. PICK src, L : src = put.src /\ L = put.todo
  OBVIOUS
<1>2. Nil \notin Files
  BY TreeAssumption DEF Objects
<1>3. ASSUME ~IsPrefix(In(target), src), NEW c \in copies PROVE c.to \in Seq(Names) /\ Waiting(c, src, target)'
  <2>1. c.to \in Seq(Names) /\ Waiting(c, src, target)
    BY <1>1, <1>3 DEF FillAt
  <2> QED BY <1>2, <2>1, WaitingKept
<1>4. Laid(L, src, target)
  BY <1>1 DEF FillAt
<1> QED BY <1>1, <1>3, <1>4 DEF FillAt

LEMMA FailFills ==
  ASSUME Filling, GoalAfter, put' = NoPut, body' \in [Files -> Files]
  PROVE  Filling'
<1>1. put'.pc = "idle"
  BY DEF NoPut
<1> QED BY <1>1, FillOver DEF GoalAfter

LEMMA BeforeFills ==
  ASSUME Inv, Filling, GoalAfter, UNCHANGED body, put.pc \notin {"work", "idle"}, Gentle(Nil),
         NEW pc \in PutPlaces \ {"work", "idle"}, NEW m,
         put' = [put EXCEPT !.pc = pc, !.made = m]
  PROVE  Filling'
<1>1. PICK p, target, copies : p = put' /\ target = Target /\ copies = goal.copies
  OBVIOUS
<1>2. p.pc = pc /\ p.src = put.src /\ p.dest = put.dest /\ p.todo = put.todo /\ p.ok = put.ok
  BY <1>1 DEF Inv, Putter, Puts0
<1>3. goal' = goal
  BY <1>1, <1>2 DEF GoalAfter
<1>4. ASSUME goal.calm PROVE FillAt(p, copies, target)'
  <2>1. FillAt(put, copies, target)
    BY <1>1, <1>4 DEF Filling
  <2> QED BY <1>1, <1>2, <2>1, WaitsOn
<1> QED BY <1>1, <1>2, <1>3, <1>4, FillsAfter DEF Filling

LEMMA PcFills ==
  ASSUME Inv, Filling, GoalAfter, UNCHANGED body, put.pc \notin {"work", "idle"}, Gentle(Nil),
         NEW pc \in PutPlaces \ {"work", "idle"},
         put' = [put EXCEPT !.pc = pc]
  PROVE  Filling'
<1>1. PICK m : m = put.made /\ put' = [put EXCEPT !.pc = pc, !.made = m]
  BY DEF Inv, Putter, Puts0
<1> QED BY <1>1, BeforeFills

LEMMA FindCubbyFills ==
  ASSUME Inv, Filling, GoalAfter, FindCubby
  PROVE  Filling'
<1>1. put.pc = "find" /\ UNCHANGED <<kids, attr, body>>
  BY DEF FindCubby
<1>2. put' = [put EXCEPT !.pc = "mkdir"] \/ put' = [put EXCEPT !.pc = "open"] \/ put' = NoPut
  BY DEF FindCubby, Fail
<1>3. Gentle(Nil) /\ body' \in [Files -> Files] /\ "mkdir" \in PutPlaces \ {"work", "idle"} /\ "open" \in PutPlaces \ {"work", "idle"}
  BY <1>1, QuietGentle DEF Filling, PutPlaces
<1> QED BY <1>1, <1>2, <1>3, PcFills, FailFills

LEMMA CheckCubbyFills ==
  ASSUME Inv, Filling, GoalAfter, CheckCubby
  PROVE  Filling'
<1>1. put.pc = "check" /\ UNCHANGED <<kids, attr, body>> /\ (put' = [put EXCEPT !.pc = "open"] \/ put' = NoPut)
  BY DEF CheckCubby, Fail
<1>2. Gentle(Nil) /\ body' \in [Files -> Files] /\ "open" \in PutPlaces \ {"work", "idle"}
  BY <1>1, QuietGentle DEF Filling, PutPlaces
<1> QED BY <1>1, <1>2, PcFills, FailFills

LEMMA CopySetgidFills ==
  ASSUME Inv, Filling, GoalAfter, CopySetgid
  PROVE  Filling'
<1>1. put.pc = "setgid" /\ UNCHANGED <<kids, body>> /\ (put' = [put EXCEPT !.pc = "check"] \/ put' = NoPut)
  BY DEF CopySetgid, Fail
<1>2. KeepsOpen
  <2>1. CASE UNCHANGED attr
    BY <2>1 DEF KeepsOpen, Searches, Allowed
  <2>2. CASE ~UNCHANGED attr
    <3>1. attr' = [attr EXCEPT ![Root].mode = IF attr[Root].grp THEN @ ELSE @ \cup {"sg"}] /\ Root # Nil
      BY <2>2 DEF CopySetgid
    <3>2. PICK r \in Objects : r = Root
      BY <3>1, Constants DEF Inv, Entries, Root, Theirs
    <3>3. attr[r] \in Attr /\ attr'[r] = [attr[r] EXCEPT !.mode = IF attr[r].grp THEN attr[r].mode ELSE attr[r].mode \cup {"sg"}]
      BY <3>1, <3>2 DEF Inv, Attributes
    <3>4. attr'[r].own = attr[r].own /\ attr[r].mode \subseteq attr'[r].mode
      BY <3>3 DEF Attr
    <3>5. \A d \in Objects : d # r => attr'[d] = attr[d]
      BY <3>1, <3>2 DEF Inv, Attributes
    <3> SUFFICES ASSUME NEW d \in Dirs \ fresh, Searches("user", d) PROVE Searches("user", d)'
      BY DEF KeepsOpen
    <3>6. d \in Objects /\ attr'[d].own = attr[d].own /\ ("o" \in attr[d].mode => "o" \in attr'[d].mode)
      BY <3>4, <3>5 DEF Objects
    <3> QED BY <3>6 DEF Searches, Allowed
  <2> QED BY <2>1, <2>2
<1>3. Gentle(Nil) /\ body' \in [Files -> Files] /\ "check" \in PutPlaces \ {"work", "idle"}
  BY <1>1, <1>2 DEF Filling, PutPlaces, Gentle, KeepsTo
<1> QED BY <1>1, <1>3, PcFills, FailFills

LEMMA MakeCubbyFills ==
  ASSUME Inv, Filling, GoalAfter, NEW d \in Dirs, MakeCubby(d)
  PROVE  Filling'
<1>0. put.pc = "mkdir" /\ UNCHANGED body /\ body' \in [Files -> Files]
  BY DEF MakeCubby, Filling
<1>1. CASE Root # Nil
  BY <1>0, <1>1, FailFills DEF MakeCubby, Fail
<1>2. CASE Root = Nil
  <2>1. PICK a, m : a = MadeDir("user", Parent, Mode0770) /\ m = {d}
    OBVIOUS
  <2>2. /\ d \in fresh /\ kids' = [kids EXCEPT ![Parent][Cubby] = d] /\ attr' = [attr EXCEPT ![d] = a]
        /\ put' = [put EXCEPT !.pc = "setgid", !.made = m]
    BY <1>2, <2>1, FreshIn DEF MakeCubby
  <2>3. kids[Parent][Cubby] = Nil /\ Nil \notin Dirs
    BY <1>2, TreeAssumption DEF Root, Objects
  <2>4. Gentle(Nil)
    BY <1>0, <2>2, <2>3, MakingGentle, Constants
  <2>5. "setgid" \in PutPlaces \ {"work", "idle"}
    BY DEF PutPlaces
  <2> QED BY <1>0, <2>2, <2>4, <2>5, BeforeFills
<1> QED BY <1>1, <1>2

LEMMA OpenRootFills ==
  ASSUME Inv, Filling, GoalAfter, OpenRoot
  PROVE  Filling'
<1>1. put.pc = "open" /\ UNCHANGED <<kids, attr, fresh, body>> /\ body' \in [Files -> Files]
  BY DEF OpenRoot, Filling
<1>2. CASE Fail
  BY <1>1, <1>2, FailFills DEF Fail
<1>3. CASE ~Fail
  <2>1. PICK T, o, p, target, copies :
          /\ T = MkdirAll(put.dest) \o <<Item("source", put.src, Target)>>
          /\ o = Root /\ p = put' /\ target = Target /\ copies = goal.copies
    OBVIOUS
  <2>2. put' = [put EXCEPT !.pc = "work", !.root = o, !.todo = T]
    BY <1>3, <2>1 DEF OpenRoot
  <2>3. p.pc = "work" /\ p.src = put.src /\ p.dest = put.dest /\ p.todo = T /\ p.ok = put.ok
    BY <2>1, <2>2 DEF Inv, Putter, Puts0
  <2>4. put.src \in Sources /\ put.dest \in Dests
    BY <1>1 DEF Inv, Putter
  <2>5. PICK src, dest : src = put.src /\ dest = put.dest
    OBVIOUS
  <2>6. /\ target \in Seq(Names) /\ target # << >> /\ dest \in Seq(Names) /\ src \in Absolute /\ src \in Seq(Tops \cup Names)
    BY <2>1, <2>4, <2>5, TargetType, SourceType, SourceAbsolute
  <2>7. PICK s, pre : s = Item("source", src, target) /\ pre = MkdirAll(dest)
    OBVIOUS
  <2>8. s \in Items /\ s.from = src /\ s.to = target /\ Copier(s)
    BY <2>6, <2>7, ItemType DEF Item, Kinds, Copier
  <2>9. pre \in Seq(Items) /\ \A j \in 1..Len(pre) : ~Copier(pre[j])
    BY <2>6, <2>7, MkdirAllType, MkdirAllNoCopier
  <2>10. Along(src, target, src, target)
    <3>1. Len(src) \in Nat /\ Len(target) \in Nat
      BY <2>6 DEF Absolute
    <3> QED BY <2>6, <3>1 DEF Along, Begins
  <2>11. Follows(pre \o <<s>>, s, src, target)
    BY <2>8, <2>9, <2>10, OneCopier
  <2>12. T = pre \o <<s>>
    BY <2>1, <2>5, <2>7
  <2>13. Laid(T, src, target) /\ Passes(T, s, src, target)
    BY <2>11, <2>12 DEF Follows, Spreads
  <2>14. ASSUME goal.calm PROVE FillAt(p, copies, target)'
    <3>1. FillAt(put, copies, target)
      BY <2>1, <2>14 DEF Filling
    <3>2. ASSUME ~IsPrefix(In(target), src), NEW c \in copies PROVE c.to \in Seq(Names) /\ Due(c, T, src, target)'
      <4>1. c.to \in Seq(Names) /\ Waiting(c, src, target)
        BY <1>1, <2>5, <3>1, <3>2 DEF FillAt
      <4>2. Gentle(Nil) /\ Nil \notin Files
        BY <1>1, QuietGentle, TreeAssumption DEF Objects
      <4>3. Waiting(c, src, target)'
        BY <4>1, <4>2, WaitingKept
      <4>4. ~Settled(T, c.to)
        BY <2>8, <2>13, <4>1 DEF Waiting, Passes, Along
      <4> QED BY <4>1, <4>3, <4>4 DEF Due
    <3> QED BY <2>3, <2>5, <2>13, <3>2 DEF FillAt
  <2>15. goal' = goal
    BY <2>1, <2>3 DEF GoalAfter
  <2> QED BY <1>1, <2>1, <2>3, <2>14, <2>15, FillsAfter DEF Filling
<1> QED BY <1>2, <1>3

LEMMA WorkFills ==
  ASSUME Inv, Copying, Filling, goal.calm, put.pc = "work", PutStep, put' # NoPut,
         NEW L, L = put.todo, NEW copies, copies = goal.copies, NEW src, src = put.src, NEW target,
         target = Target
  PROVE  StepFills(L, copies, src, target) /\ src \in Absolute /\ target \in Seq(Names) /\ L \in Seq(Items)
<1>1. src \in Absolute /\ target \in Seq(Names) /\ L \in Seq(Items)
  BY AtWork, Working DEF Inv
<1>2. CopyAt(put, target) /\ FillAt(put, copies, target) /\ body \in [Files -> Files]
  BY DEF Copying, Filling
<1>3. Fits(it, src, target) /\ put.root = Root /\ Root \in Dirs
  BY <1>2, AtWork DEF CopyAt
<1>4. FillsOn(L, copies, src, target)
  BY <1>2 DEF FillAt, FillsOn
<1>5. CASE FindCubby \/ CopySetgid \/ CheckCubby \/ OpenRoot
  BY <1>5 DEF FindCubby, CopySetgid, CheckCubby, OpenRoot
<1>6. CASE StatDir \/ PutSource \/ CopyInto \/ CopyDir
  BY <1>1, <1>3, <1>4, <1>6, QuietFills
<1>7. CASE \E d \in Dirs : MakeCubby(d) \/ MkdirExistOK(d)
  <2>1. PICK d \in Dirs : MakeCubby(d) \/ MkdirExistOK(d)
    BY <1>7
  <2>2. MkdirExistOK(d)
    BY <2>1 DEF MakeCubby
  <2> QED BY <1>1, <1>3, <1>4, <2>2, MkdirFills
<1>8. CASE \E f \in Files : CopyFile(f)
  BY <1>1, <1>2, <1>3, <1>4, <1>8, CopyFileFills
<1> QED BY <1>5, <1>6, <1>7, <1>8 DEF PutStep

LEMMA BodiesKept ==
  ASSUME body \in [Files -> Files], PutStep
  PROVE  body' \in [Files -> Files]
<1>1. CASE \E f \in Files : CopyFile(f)
  <2>1. PICK f \in Files : CopyFile(f)
    BY <1>1
  <2>2. PICK o : o = SourceAt(it.from)
    OBVIOUS
  <2>3. UNCHANGED body \/ (o \in Files /\ body' = [body EXCEPT ![f] = body[o]])
    BY <2>1, <2>2 DEF CopyFile
  <2> QED BY <2>3
<1>2. CASE \E d \in Dirs : MakeCubby(d) \/ MkdirExistOK(d)
  BY <1>2 DEF MakeCubby, MkdirExistOK
<1>3. CASE StatDir \/ PutSource \/ CopyInto \/ CopyDir
  BY <1>3 DEF StatDir, PutSource, CopyInto, CopyDir
<1>4. CASE FindCubby \/ CopySetgid \/ CheckCubby \/ OpenRoot
  BY <1>4 DEF FindCubby, CopySetgid, CheckCubby, OpenRoot
<1> QED BY <1>1, <1>2, <1>3, <1>4 DEF PutStep

\* Only a put that goes on keeps what it had.
LEMMA MoreEnds ==
  ASSUME Inv, put.pc = "work", ~put.ok, NEW m \in SUBSET Objects, NEW items, NEW p,
         p = More([put EXCEPT !.made = m], items)
  PROVE  /\ p.pc = "idle" => items \o Tail(put.todo) = << >>
         /\ p.pc # "idle" => ~p.ok /\ CopiesOn(p, m, items)
<1>1. PICK r, T : r = [put EXCEPT !.made = m] /\ T = items \o Tail(r.todo)
  OBVIOUS
<1>2. r.pc = "work" /\ r.todo = put.todo /\ r.ok = put.ok /\ r \in Puts0
  BY <1>1 DEF Inv, Putter, Puts0
<1>3. CASE T = << >>
  <2>1. p = [NoPut EXCEPT !.ok = TRUE]
    BY <1>1, <1>3 DEF More
  <2>2. p.pc = "idle"
    BY <2>1 DEF NoPut
  <2> QED BY <1>1, <1>2, <1>3, <2>2
<1>4. CASE T # << >>
  <2>1. p = [r EXCEPT !.todo = T]
    BY <1>1, <1>4 DEF More
  <2>2. p.pc = "work" /\ p.ok = put.ok
    BY <1>2, <2>1 DEF Puts0
  <2> QED BY <2>2, MoreFacts DEF Inv
<1> QED BY <1>3, <1>4

\* It ends the same way whether or not it is watched.
LEMMA WorkMore ==
  ASSUME Inv, put.pc = "work", PutStep, put' # NoPut
  PROVE  \E m \in SUBSET Objects : \E items : put' = More([put EXCEPT !.made = m], items)
<1>0. PICK m \in SUBSET Objects : m = put.made /\ put = [put EXCEPT !.made = m]
  BY DEF Inv, Putter, Puts0
<1>1. CASE FindCubby \/ CopySetgid \/ CheckCubby \/ OpenRoot
  BY <1>1 DEF FindCubby, CopySetgid, CheckCubby, OpenRoot
<1>2. CASE StatDir \/ PutSource \/ CopyInto \/ CopyDir
  <2>1. \E items : put' = More(put, items)
    BY <1>2 DEF StatDir, PutSource, CopyInto, CopyDir, Fail
  <2> QED BY <1>0, <2>1
<1>3. CASE \E d \in Dirs : MakeCubby(d) \/ MkdirExistOK(d)
  <2>1. PICK d \in Dirs : MkdirExistOK(d)
    BY <1>3 DEF MakeCubby
  <2>2. PICK m2 \in SUBSET Objects : m2 = put.made \cup {d}
    BY <1>0 DEF Objects
  <2>3. (\E items : put' = More(put, items)) \/ \E items : put' = More([put EXCEPT !.made = m2], items)
    BY <2>1, <2>2 DEF MkdirExistOK, Fail
  <2> QED BY <1>0, <2>3
<1>4. CASE \E f \in Files : CopyFile(f)
  <2>1. PICK f \in Files : CopyFile(f)
    BY <1>4
  <2>2. PICK m2 \in SUBSET Objects : m2 = put.made \cup {f}
    BY <1>0 DEF Objects
  <2>3. \E items : put' = More([put EXCEPT !.made = m2], items)
    BY <2>1, <2>2 DEF CopyFile, Fail
  <2> QED BY <2>3
<1> QED BY <1>1, <1>2, <1>3, <1>4 DEF PutStep

LEMMA PutFills ==
  ASSUME Inv, Copying, Filling, PutStep, GoalAfter
  PROVE  Filling'
<1>0. body' \in [Files -> Files]
  BY BodiesKept DEF Filling
<1>1. CASE put.pc # "work"
  <2>1. CASE FindCubby \/ CopySetgid \/ CheckCubby \/ OpenRoot
    BY <2>1, FindCubbyFills, CopySetgidFills, CheckCubbyFills, OpenRootFills
  <2>2. CASE StatDir \/ PutSource \/ CopyInto \/ CopyDir
    BY <1>1, <2>2 DEF StatDir, PutSource, CopyInto, CopyDir, Work
  <2>3. CASE \E d \in Dirs : MakeCubby(d) \/ MkdirExistOK(d)
    <3>1. PICK d \in Dirs : MakeCubby(d)
      BY <1>1, <2>3 DEF MkdirExistOK, Work
    <3> QED BY <3>1, MakeCubbyFills
  <2>4. CASE \E f \in Files : CopyFile(f)
    BY <1>1, <2>4 DEF CopyFile, Work
  <2> QED BY <2>1, <2>2, <2>3, <2>4 DEF PutStep
<1>2. CASE put' = NoPut
  BY <1>0, <1>2, FailFills
<1>3. CASE put.pc = "work" /\ put' # NoPut
  <2>1. PICK p, L, copies, src, target : p = put' /\ L = put.todo /\ copies = goal.copies /\ src = put.src /\ target = Target
    OBVIOUS
  <2>2. ~put.ok
    BY <1>3 DEF Filling
  <2>3. PICK m \in SUBSET Objects : \E items : p = More([put EXCEPT !.made = m], items)
    BY <1>3, <2>1, WorkMore
  <2>4. PICK items : p = More([put EXCEPT !.made = m], items)
    BY <2>3
  <2>5. p.pc # "idle" => ~p.ok /\ p.src = put.src /\ p.dest = put.dest
    <3>1. p.pc # "idle" => ~p.ok /\ CopiesOn(p, m, items)
      BY <1>3, <2>2, <2>4, MoreEnds
    <3> QED BY <3>1 DEF CopiesOn
  <2>6. CASE p.pc = "idle"
    BY <1>0, <2>1, <2>6, FillOver DEF GoalAfter
  <2>7. CASE p.pc # "idle"
    <3>1. goal' = goal
      BY <2>1, <2>7 DEF GoalAfter
    <3>2. ASSUME goal.calm PROVE FillAt(p, copies, target)'
      <4>1. StepFills(L, copies, src, target)
        BY <1>3, <2>1, <3>2, WorkFills
      <4>2. PICK m2 \in SUBSET Objects, more \in Seq(Items) :
              put' = More([put EXCEPT !.made = m2], more) /\ FillsOn(more \o Tail(L), copies, src, target)'
        BY <4>1 DEF StepFills
      <4>3. p.pc = "work" /\ p.src = src /\ p.todo = more \o Tail(L)
        <5>1. p = More([put EXCEPT !.made = m2], more)
          BY <2>1, <4>2
        <5>2. p.pc # "idle" => ~p.ok /\ CopiesOn(p, m2, more)
          BY <1>3, <2>2, <5>1, MoreEnds
        <5> QED BY <2>1, <2>7, <5>2 DEF CopiesOn
      <4>4. PICK M : M = more \o Tail(L)
        OBVIOUS
      <4>5. FillsOn(M, copies, src, target)'
        BY <4>2, <4>4
      <4> QED BY <4>3, <4>4, <4>5 DEF FillAt, FillsOn
    <3> QED BY <1>0, <2>1, <2>5, <2>7, <3>1, <3>2, FillsAfter
  <2> QED BY <2>6, <2>7
<1> QED BY <1>1, <1>2, <1>3

-----------------------------------------------------------------------------
(* The steps of the others *)

LEMMA FillStill ==
  ASSUME Inv, Copying, Filling, UNCHANGED <<put, body>>, goal' = goal, goal.calm => KeepsOpen,
         \/ UNCHANGED kids
         \/ \E v : Root = Nil /\ kids' = [kids EXCEPT ![Parent][Cubby] = v]
  PROVE  Filling'
<1>1. PICK p, L, copies, src, target : p = put /\ L = put.todo /\ copies = goal.copies /\ src = put.src /\ target = Target
  OBVIOUS
<1>2. ASSUME goal.calm PROVE FillAt(p, copies, target)'
  <2>1. FillAt(put, copies, target) /\ CopyAt(put, target)
    BY <1>1, <1>2 DEF Filling, Copying
  <2>2. Nil \notin Dirs /\ Nil \notin Files
    BY TreeAssumption DEF Objects
  <2>3. Gentle(Nil)
    <3>1. CASE UNCHANGED kids
      BY <1>2, <3>1 DEF Gentle, KeepsTo
    <3>2. CASE ~UNCHANGED kids
      <4>1. PICK v : Root = Nil /\ kids' = [kids EXCEPT ![Parent][Cubby] = v]
        BY <3>2
      <4>2. \A o \in Files : o # Nil => KeepsTo(o)
        BY <2>2, <4>1, ReplaceKeeps, Constants DEF Inv, Root
      <4> QED BY <1>2, <4>2 DEF Gentle
    <3> QED BY <3>1, <3>2
  <2>4. CASE p.pc # "work"
    BY <1>1, <2>1, <2>3, <2>4, WaitsOn
  <2>5. CASE p.pc = "work"
    <3>1. Root \in Dirs /\ Root' = Root
      BY <1>1, <2>1, <2>2, <2>5 DEF CopyAt, Root
    <3>2. Laid(L, src, target)
      BY <1>1, <2>1 DEF FillAt
    <3>3. ASSUME ~IsPrefix(In(target), src), NEW c \in copies PROVE c.to \in Seq(Names) /\ Due(c, L, src, target)'
      <4>1. c.to \in Seq(Names) /\ Due(c, L, src, target)
        BY <1>1, <2>1, <2>5, <3>3 DEF FillAt
      <4>2. CASE Settled(L, c.to)
        <5>1. Arrived(c) /\ Lookup(Root, c.to) # Nil
          BY <2>2, <4>1, <4>2 DEF Due, Arrived
        <5>2. Arrived(c)'
          BY <2>3, <3>1, <4>1, <5>1, ArrivedKept
        <5> QED BY <4>1, <4>2, <5>2 DEF Due
      <4>3. CASE ~Settled(L, c.to)
        <5>1. Waiting(c, src, target)
          BY <4>1, <4>3 DEF Due
        <5>2. Waiting(c, src, target)'
          BY <2>2, <2>3, <5>1, WaitingKept
        <5> QED BY <4>1, <4>3, <5>2 DEF Due
      <4> QED BY <4>2, <4>3
    <3> QED BY <1>1, <2>5, <3>2, <3>3 DEF FillAt
  <2> QED BY <2>4, <2>5
<1> QED BY <1>1, <1>2, FillsAfter DEF Filling

\* The source and the target with the same names after them.
LEMMA AlongJoined ==
  ASSUME NEW src \in Absolute, NEW target \in Seq(Names), NEW r \in Seq(Names)
  PROVE  src \o r \in Absolute /\ target \o r \in Seq(Names) /\ Along(src \o r, target \o r, src, target)
<1>1. PICK s, to, k, m, n : s = src \o r /\ to = target \o r /\ k = Len(r) /\ m = Len(src) /\ n = Len(target)
  OBVIOUS
<1>2. src \in Seq(Tops \cup Names) /\ r \in Seq(Tops \cup Names) /\ k \in Nat /\ m \in Nat \ {0} /\ n \in Nat
  BY <1>1 DEF Absolute
<1>3. /\ s \in Seq(Tops \cup Names) /\ Len(s) = m + k
      /\ (\A i \in 1..m : s[i] = src[i]) /\ \A i \in 1..k : s[m + i] = r[i]
  BY <1>1, <1>2
<1>4. /\ to \in Seq(Names) /\ Len(to) = n + k
      /\ (\A i \in 1..n : to[i] = target[i]) /\ \A i \in 1..k : to[n + i] = r[i]
  BY <1>1, <1>2
<1>5. s \in Absolute
  <2>1. src[1] \in Tops /\ \A i \in 2..m : src[i] \in Names
    BY <1>1 DEF Absolute
  <2>2. ASSUME NEW i \in 2..Len(s) PROVE s[i] \in Names
    <3>1. CASE i <= m
      BY <1>2, <1>3, <2>1, <3>1
    <3>2. CASE ~(i <= m)
      <4>1. PICK j : j = i - m
        OBVIOUS
      <4>2. j \in 1..k /\ m + j = i
        BY <1>2, <1>3, <3>2, <4>1
      <4>3. r[j] \in Names
        BY <1>1, <4>2
      <4> QED BY <1>3, <4>2, <4>3
    <3> QED BY <3>1, <3>2
  <2> QED BY <1>2, <1>3, <2>1, <2>2 DEF Absolute
<1>6. Begins(src, s) /\ Begins(target, to)
  BY <1>1, <1>2, <1>3, <1>4 DEF Begins
<1>7. Len(s) - m = k /\ Len(to) - n = k
  BY <1>2, <1>3, <1>4
<1>8. Along(s, to, src, target)
  BY <1>1, <1>3, <1>4, <1>5, <1>6, <1>7 DEF Along
<1> QED BY <1>1, <1>4, <1>5, <1>8

LEMMA BeginFills ==
  ASSUME Inv, Filling, BeginPut
  PROVE  Filling'
<1>1. PICK src \in Sources, dest \in Dests :
        PutBegin(src, dest) /\ goal'.copies = Copies(src, dest \o <<Last(src)>>)
  BY DEF BeginPut
<1>2. PICK p, target, copies : p = put' /\ target = Target' /\ copies = goal'.copies
  OBVIOUS
<1>3. p = [NoPut EXCEPT !.pc = "find", !.src = src, !.dest = dest] /\ UNCHANGED <<kids, attr, body>>
  BY <1>1, <1>2 DEF PutBegin
<1>4. p.pc = "find" /\ p.todo = << >> /\ p.src = src /\ p.dest = dest /\ ~p.ok
  BY <1>3 DEF NoPut
<1>5. target = dest \o <<Last(src)>>
  BY <1>2, <1>4 DEF Target
<1>6. target \in Seq(Names) /\ src \in Absolute
  <2>1. dest \in Seq(Names) /\ Last(src) \in Names
    BY SourceType
  <2> QED BY <1>5, <2>1, SourceAbsolute
<1>7. ASSUME NEW c \in copies PROVE c.to \in Seq(Names) /\ Waiting(c, src, target)'
  <2>1. c \in Copies(src, target)
    BY <1>1, <1>2, <1>5
  <2>2. PICK k \in 0..Cardinality(Dirs) : \E r \in [1..k -> Names] :
          SourceAt(src \o r) \in Files /\ c = [to |-> target \o r, body |-> body[SourceAt(src \o r)]]
    BY <2>1 DEF Copies
  <2>21. PICK r \in [1..k -> Names] :
          SourceAt(src \o r) \in Files /\ c = [to |-> target \o r, body |-> body[SourceAt(src \o r)]]
    BY <2>2
  <2>3. r \in Seq(Names)
    <3>1. Cardinality(Dirs) \in Nat
      BY SomeDirs, FS_CardinalityType
    <3>2. k \in Nat
      BY <3>1
    <3> QED BY <3>2
  <2>4. PICK s, to : s = src \o r /\ to = target \o r /\ s \in Absolute /\ to \in Seq(Names) /\ Along(s, to, src, target)
    BY <1>6, <2>3, AlongJoined
  <2>5. c.to = to /\ c.body = body[SourceAt(s)] /\ SourceAt(s) \in Files
    BY <2>21, <2>4
  <2>6. Waiting(c, src, target)
    BY <2>4, <2>5 DEF Waiting
  <2>7. Gentle(Nil) /\ Nil \notin Files
    BY <1>3, QuietGentle, TreeAssumption DEF Objects
  <2>8. Waiting(c, src, target)'
    BY <2>6, <2>7, WaitingKept
  <2> QED BY <2>4, <2>5, <2>8
<1>8. Laid(p.todo, p.src, target)
  <2>1. Len(p.todo) = 0
    BY <1>4
  <2> QED BY <2>1 DEF Laid
<1>9. FillAt(p, copies, target)'
  BY <1>4, <1>7, <1>8 DEF FillAt
<1>10. body' \in [Files -> Files]
  BY <1>3 DEF Filling
<1> QED BY <1>2, <1>4, <1>9, <1>10 DEF Filling

LEMMA NextFills == Inv /\ Copying /\ Filling /\ [Next]_vars => Filling'
<1> SUFFICES ASSUME Inv, Copying, Filling, [Next]_vars PROVE Filling'
  OBVIOUS
<1>0. UNCHANGED attr => KeepsOpen
  BY DEF KeepsOpen, Searches, Allowed
<1>1. CASE \E p \in Procs : BeginRepair(p)
  BY <1>0, <1>1, FillStill DEF BeginRepair, Begin
<1>2. CASE \E p \in Procs : Repairs(p)
  <2>1. PICK p \in Procs : Repairs(p)
    BY <1>2
  <2>2. UNCHANGED <<put, body>> /\ RepairStep(p)
    BY <2>1 DEF Repairs
  <2>3. CASE goal' = NoGoal
    BY <2>2, <2>3, FillOver DEF Filling
  <2>4. CASE goal' # NoGoal
    <3>1. goal' = goal /\ KeepsOpen
      BY <2>1, <2>4 DEF Repairs, ShutsOut, KeepsOpen
    <3>2. UNCHANGED kids \/ \E v : Root = Nil /\ kids' = [kids EXCEPT ![Parent][Cubby] = v]
      BY <2>2, RepairEntries
    <3> QED BY <2>2, <3>1, <3>2, FillStill
  <2> QED BY <2>3, <2>4
<1>3. CASE BeginPut
  BY <1>3, BeginFills
<1>4. CASE Puts
  BY <1>4, PutFills DEF Puts, GoalAfter
<1>5. CASE Shell
  <2>1. goal' = NoGoal /\ UNCHANGED <<put, body>>
    BY <1>5 DEF Shell
  <2> QED BY <2>1, FillOver DEF Filling
<1>6. CASE Crash
  BY <1>0, <1>6, FillStill DEF Crash, Kill
<1>7. CASE UNCHANGED vars
  BY <1>0, <1>7, FillStill DEF vars
<1>8. CASE \E p \in Procs : Fails(p) \/ Blocks(p)
  BY <1>0, <1>8, AsideSame, FillStill
<1> QED BY <1>1, <1>2, <1>3, <1>4, <1>5, <1>6, <1>7, <1>8 DEF Next

\* What every put that nobody disturbs has copied and has left to copy.
THEOREM FillInvariance == Spec => [](Inv /\ Copying /\ Filling)
<1>1. Init => Filling
  <2> SUFFICES ASSUME Init PROVE Filling
    OBVIOUS
  <2>1. ~goal.calm /\ put.pc = "idle" /\ body = [f \in Files |-> f]
    BY DEF Init, NoGoal, PutInit, NoPut
  <2>2. body \in [Files -> Files]
    BY <2>1
  <2> QED BY <2>1, <2>2 DEF Filling
<1>2. (Inv /\ Copying /\ Filling) /\ [Next]_vars => Filling'
  BY NextFills
<1> QED BY <1>1, <1>2, CopyInvariance, PTL DEF Spec

-----------------------------------------------------------------------------
\* A put that succeeds undisturbed has copied every file that was below the source when
\* it began, for any tree, source and destination, unless it copied over the source's own
\* parents: what is not copied yet can still be found at its path and is below an item
\* that is left, and what nothing is left for is there.
THEOREM PutCopiesHolds == Spec => PutCopies
<1> DEFINE A == PutEnds /\ ~OverParents =>
                  \A c \in goal.copies :
                    LET f == Lookup(Root, c.to)' IN f \in Files /\ body'[f] = c.body
<1>1. Inv /\ Copying /\ Filling /\ [Next]_vars => [A]_vars
  <2> SUFFICES ASSUME Inv, Copying, Filling, [Next]_vars, PutEnds, ~OverParents, NEW e \in goal.copies
               PROVE  Lookup(Root, e.to)' \in Files /\ body'[Lookup(Root, e.to)'] = e.body
    OBVIOUS
  <2>1. goal.calm /\ put.pc = "work" /\ put'.ok /\ ~put.ok
    BY DEF PutEnds, Filling
  <2>2. PICK p, L, copies, src, target : p = put' /\ L = put.todo /\ copies = goal.copies /\ src = put.src /\ target = Target
    OBVIOUS
  <2>3. PutStep /\ put' # NoPut
    <3>1. put' # put
      BY <2>1
    <3>2. put' # NoPut
      BY <2>1 DEF NoPut
    <3>3. ~BeginPut
      BY <2>1 DEF BeginPut, PutBegin
    <3> QED BY <3>1, <3>2, <3>3 DEF Next, BeginRepair, Repairs, Fails, Blocks, Puts, Shell, Crash, vars
  <2>4. StepFills(L, copies, src, target)
    BY <2>1, <2>2, <2>3, WorkFills
  <2>5. PICK m \in SUBSET Objects, items \in Seq(Items) :
          put' = More([put EXCEPT !.made = m], items) /\ FillsOn(items \o Tail(L), copies, src, target)'
    BY <2>4 DEF StepFills
  <2>6. items \o Tail(L) = << >>
    <3>1. p = More([put EXCEPT !.made = m], items)
      BY <2>2, <2>5
    <3>2. /\ p.pc = "idle" => items \o Tail(put.todo) = << >>
          /\ p.pc # "idle" => ~p.ok
      BY <2>1, <3>1, MoreEnds
    <3> QED BY <2>1, <2>2, <3>2
  <2>7. PICK M : M = items \o Tail(L) /\ M = << >> /\ Len(M) = 0
    <3>1. Len(<< >>) = 0
      OBVIOUS
    <3> QED BY <2>6, <3>1
  <2>8. FillsOn(M, copies, src, target)'
    BY <2>5, <2>7
  <2>9. ~IsPrefix(In(target), src) /\ e \in copies
    BY <2>2 DEF OverParents, In
  <2>10. Due(e, M, src, target)'
    BY <2>8, <2>9 DEF FillsOn
  <2>11. Settled(M, e.to)
    BY <2>7 DEF Settled
  <2>12. Arrived(e)'
    BY <2>10, <2>11 DEF Due
  <2> QED BY <2>12 DEF Arrived
<1> QED BY <1>1, FillInvariance, PTL DEF Spec, PutCopies

-----------------------------------------------------------------------------
(* What an undisturbed put has made in an orderly cubby *)

\* A repair in home/ makes no cubby, and only files have their mode read first.
Steady(r) ==
  /\ kind = "home" => r.pc \notin {"check", "mkdirat", "openat", "chown", "chmod"}
  /\ r.pc = "perm" => r.fd \notin Dirs

\* Before the copy only a directory was made, and what the put has open exists.
Sound(p) == (p.pc # "work" => p.made \subseteq Dirs) /\ p.root \notin fresh

NewEmpty == \A d \in Dirs \cap fresh, n \in Names : kids[d][n] = Nil

\* The layout, what the repairs leave out, and that a new directory is empty.
Given ==
  /\ kind \in {"users", "home"} /\ attr[Parent] = Layout
  /\ \A p \in Procs : Steady(fix[p])
  /\ Sound(put) /\ NewEmpty

Orderly == \A d \in Inside \cap Dirs : Proper(d)

\* The daemon may read the file.
Legible(o) == attr[o].grp /\ "gr" \in attr[o].mode

\* What was made has its place in the cubby and keeps it.
ServedAt(L, made) ==
  \A o \in made : /\ o \in Dirs \cup Files
                  /\ \E to \in Seq(Names) : Leads(In(to), o) /\ (o \in Files => Legible(o) /\ Settled(L, to))

Serving ==
  /\ Given
  /\ goal.calm /\ goal.tidy =>
       (kind = "users" => Root \in Dirs) /\ Orderly /\ ServedAt(put.todo, put.made)

-----------------------------------------------------------------------------
(* The directories of the cubby *)

\* They are in every set that has the cubby and their own directories.
InsideWithin ==
  \A C :
    (Root \in Dirs => Root \in C) /\ (\A d \in Dirs \cap C, n \in Names : kids[d][n] \in Dirs => kids[d][n] \in C)
      => Inside \cap Dirs \subseteq C

LEMMA InsideLeast == InsideWithin
<1> SUFFICES ASSUME NEW C, Root \in Dirs => Root \in C,
                    \A d \in Dirs \cap C, n \in Names : kids[d][n] \in Dirs => kids[d][n] \in C
             PROVE  Inside \cap Dirs \subseteq C
  BY DEF InsideWithin
<1>1. CASE Root \notin Dirs
  BY <1>1 DEF Inside, Under
<1>2. CASE Root \in Dirs
  <2> DEFINE next == [e \in Dirs |-> Dirs \cap Children(e)]
  <2>1. {Root} \subseteq C /\ \A d \in Dirs \cap C : next[d] \subseteq C
    BY <1>2 DEF Children
  <2>2. Reachable({Root}, next) \subseteq C
    <3> HIDE DEF next
    <3> QED BY <2>1, SomeDirs, ReachableLeast
  <2>3. Below(Root) \subseteq C
    BY <2>2 DEF Below
  <2> QED BY <1>2, <2>3, Constants DEF Inside, Under
<1> QED BY <1>1, <1>2

LEMMA InsideLeastNext == InsideWithin'
BY InsideLeast, PTL

\* Everything on the way to a place in an orderly cubby can be reached.
LeadsReached ==
  attr[Parent] = Layout /\ Orderly /\ Root \in Dirs =>
    \A to \in Seq(Names), o \in Dirs \cup Files : Leads(In(to), o) /\ (o \in Files => Legible(o)) => o \in Reach /\ (o \in Dirs => Proper(o))

LEMMA LeadsReach == LeadsReached
<1> SUFFICES ASSUME attr[Parent] = Layout, Orderly, Root \in Dirs, NEW to \in Seq(Names), NEW o \in Dirs \cup Files,
                    Leads(In(to), o), o \in Files => Legible(o)
             PROVE  o \in Reach /\ (o \in Dirs => Proper(o))
  BY DEF LeadsReached
<1>1. PICK a, n : a = In(to) /\ n = Len(to) /\ n \in Nat
  OBVIOUS
<1>2. Len(a) = n + 2 /\ a[1] = Parent /\ a[2] = Cubby /\ \A i \in 1..n : a[i + 2] = to[i]
  BY <1>1, InFacts
<1>3. PICK c : /\ c[1] = a[1] /\ c[Len(a)] = o
               /\ \A i \in 1..(Len(a) - 1) : c[i] \in Dirs /\ c[i + 1] = kids[c[i]][a[i + 1]]
  BY <1>1 DEF Leads
<1>4. c[n + 2] = o /\ c[2] = Root
  <2>1. 1 \in 1..(Len(a) - 1) /\ 1 + 1 = 2
    BY <1>1, <1>2
  <2> QED BY <1>2, <1>3, <2>1 DEF Root
<1>5. ASSUME NEW j \in Nat, j < n
      PROVE  c[j + 2] \in Dirs /\ to[j + 1] \in Names /\ c[(j + 1) + 2] = kids[c[j + 2]][to[j + 1]]
  <2>1. j + 2 \in 1..(Len(a) - 1) /\ (j + 2) + 1 = (j + 1) + 2 /\ j + 1 \in 1..n
    BY <1>1, <1>2, <1>5
  <2>2. c[j + 2] \in Dirs /\ c[(j + 2) + 1] = kids[c[j + 2]][a[(j + 2) + 1]]
    BY <1>3, <2>1
  <2>3. a[(j + 1) + 2] = to[j + 1] /\ to[j + 1] \in Names
    BY <1>1, <1>2, <2>1
  <2> QED BY <2>1, <2>2, <2>3
<1>6. \A d \in Dirs \cap Inside : Proper(d) /\ Reads("daemon", d) /\ Searches("daemon", d)
  BY DEF Orderly, Proper, Reads, Searches, Allowed, CubbyMode, Mode0770
<1>7. Searches("daemon", Parent)
  BY DEF Searches, Allowed, Layout
<1>8. /\ Root \in Inside
      /\ \A d \in Dirs \cap Inside, x \in Names : kids[d][x] \in Dirs \cup Files => kids[d][x] \in Inside
  BY UnderClosed DEF Inside
<1>9. /\ Enters({}, Parent, Root) => Root \in Reach
      /\ \A d \in Dirs \cap Reach, x \in Names : Enters({}, d, kids[d][x]) => kids[d][x] \in Reach
  BY ExcusedClosed, ReachExcused DEF ExcusedUp, ReachIs
<1>10. \A j \in Nat : j <= n => c[j + 2] \in Dirs \cup Files
  <2> SUFFICES ASSUME NEW j \in Nat, j <= n PROVE c[j + 2] \in Dirs \cup Files
    OBVIOUS
  <2>1. CASE j = n
    BY <1>4, <2>1
  <2>2. CASE j # n
    <3>1. j < n
      BY <1>1, <2>2
    <3> QED BY <1>5, <3>1
  <2> QED BY <2>1, <2>2
<1> DEFINE S == {j \in Nat : j <= n => c[j + 2] \in Inside /\ c[j + 2] \in Reach}
<1>11. 0 \in S
  <2>1. Enters({}, Parent, Root)
    BY <1>6, <1>7, <1>8 DEF Enters
  <2>2. Root \in Inside /\ Root \in Reach
    BY <1>8, <1>9, <2>1
  <2>3. 0 + 2 = 2
    OBVIOUS
  <2> QED BY <1>4, <2>2, <2>3
<1>12. ASSUME NEW j \in Nat, j \in S PROVE j + 1 \in S
  <2> SUFFICES ASSUME j + 1 <= n PROVE c[(j + 1) + 2] \in Inside /\ c[(j + 1) + 2] \in Reach
    OBVIOUS
  <2>1. j < n /\ j <= n /\ j + 1 \in Nat
    BY <1>1
  <2>2. PICK d, x, e : d = c[j + 2] /\ x = to[j + 1] /\ e = c[(j + 1) + 2]
    OBVIOUS
  <2>3. d \in Dirs /\ x \in Names /\ e = kids[d][x] /\ d \in Inside /\ d \in Reach /\ e \in Dirs \cup Files
    BY <1>5, <1>10, <1>12, <2>1, <2>2
  <2>4. e \in Inside
    BY <1>8, <2>3
  <2>5. Reads("daemon", e)
    <3>1. CASE e \in Dirs
      BY <1>6, <2>4, <3>1
    <3>2. CASE e \notin Dirs
      <4>1. e = o
        <5>1. ~(j + 1 < n)
          BY <1>5, <2>1, <2>2, <3>2
        <5>2. j + 1 = n
          BY <1>1, <2>1, <5>1
        <5> QED BY <1>4, <2>2, <5>2
      <4>2. Legible(e)
        BY <2>3, <3>2, <4>1
      <4> QED BY <4>2 DEF Legible, Reads, Allowed
    <3> QED BY <3>1, <3>2
  <2>6. Enters({}, d, e)
    BY <1>6, <2>3, <2>5 DEF Enters
  <2>7. e \in Reach
    BY <1>9, <2>3, <2>6
  <2> QED BY <2>2, <2>4, <2>7
<1> HIDE DEF S
<1>13. n \in S
  BY <1>1, <1>11, <1>12, NatSets
<1>14. o \in Inside /\ o \in Reach
  BY <1>1, <1>4, <1>13 DEF S
<1> QED BY <1>14 DEF Orderly

LEMMA LeadsReachNext == LeadsReached'
BY LeadsReach, PTL

-----------------------------------------------------------------------------
(* What the repairs leave to the put *)

\* No directory or file of the cubby is taken from the daemon.
Better ==
  \A o \in Objects : /\ Proper(o) /\ o \in Dirs => Proper(o)'
                     /\ Legible(o) /\ o \in Files => Legible(o)'

LEMMA SameBetter == UNCHANGED attr => Better
BY DEF Better, Proper, Legible

LEMMA ModeBetter ==
  ASSUME Attributes, NEW x \in Objects, NEW m, attr' = [attr EXCEPT ![x].mode = m],
         x \in Dirs /\ Proper(x) => m = CubbyMode, x \in Files /\ Legible(x) => "gr" \in m
  PROVE  Better
BY ModeOnly DEF Better, Proper, Legible

LEMMA RepairBetter ==
  ASSUME Inv, Given, NEW p \in Procs, RepairStep(p), ~(fix[p].pc = "chown" /\ ~fix[p].gid),
         kind = "users" => Root \in Dirs
  PROVE  Better /\ UNCHANGED <<kids, fresh>>
<1>1. PICK r \in Fix : r = fix[p] /\ Handy(r) /\ (r.pc = "perm" => r.fd \notin Dirs)
  BY DEF Inv, Repairers, Given, Steady
<1>2. r.pc \in Holding => r.fd \in Opened0 /\ r.fd \in Objects
  BY <1>1, Constants DEF Handy, Fix
<1>3. CASE \E d \in Dirs : Mkdirat(p, d)
  <2>1. kind = "users"
    BY <1>3 DEF Given, Steady, Mkdirat, At
  <2>2. Root # Nil
    BY <2>1, TreeAssumption DEF Objects
  <2>3. UNCHANGED <<kids, fresh, attr>>
    BY <1>3, <2>2 DEF Mkdirat
  <2> QED BY <2>3, SameBetter
<1>4. CASE Check(p) \/ OpenCubby(p) \/ ChownFails(p)
  BY <1>4, SameBetter DEF Check, OpenCubby, ChownFails
<1>5. CASE Open(p) \/ Descend(p) \/ List(p) \/ Up(p)
  BY <1>5, SameBetter DEF Open, Descend, List, Up
<1>6. CASE \E e \in [name : Names, dir : BOOLEAN] : Visit(p, e)
  BY <1>6, SameBetter DEF Visit
<1>7. CASE ChownCubby(p)
  <2>1. /\ r.pc = "chown" /\ r.gid = TRUE /\ UNCHANGED <<kids, fresh>>
        /\ attr' = [attr EXCEPT ![r.fd].own = "user", ![r.fd].grp = r.gid]
    BY <1>1, <1>7 DEF ChownCubby, At, Fix
  <2>2. PICK x \in Objects : x = r.fd
    BY <1>2, <2>1 DEF Holding
  <2>3. attr[x] \in Attr /\ attr \in [Objects -> Attr]
    BY <2>2 DEF Inv, Attributes
  <2>4. attr'[x] = [[attr[x] EXCEPT !.own = "user"] EXCEPT !.grp = TRUE] /\ \A o \in Objects \ {x} : attr'[o] = attr[o]
    BY <2>1, <2>2, <2>3
  <2>5. attr'[x].grp /\ attr'[x].mode = attr[x].mode
    BY <2>3, <2>4 DEF Attr
  <2>6. Better
    BY <2>4, <2>5 DEF Better, Proper, Legible
  <2> QED BY <2>1, <2>6
<1>8. CASE ChmodCubby(p)
  <2>1. r.pc = "chmod" /\ UNCHANGED <<kids, fresh>> /\ attr' = [attr EXCEPT ![r.fd].mode = CubbyMode]
    BY <1>1, <1>8 DEF ChmodCubby, At
  <2>2. PICK x \in Objects : x = r.fd
    BY <1>2, <2>1 DEF Holding
  <2>3. "gr" \in CubbyMode
    BY DEF CubbyMode, Mode0770
  <2>4. Better
    BY <2>1, <2>2, <2>3, ModeBetter DEF Inv
  <2> QED BY <2>1, <2>4
<1>9. CASE FixFD(p)
  <2>1. r.pc = "fix" /\ UNCHANGED <<kids, fresh>>
    BY <1>1, <1>9 DEF FixFD, At
  <2>2. PICK x \in Objects : x = r.fd
    BY <1>2, <2>1 DEF Holding
  <2>3. CASE x \in Dirs
    <3>1. attr' = [attr EXCEPT ![x].mode = CubbyMode] /\ x \notin Files
      BY <1>1, <1>9, <2>2, <2>3, Constants DEF FixFD
    <3>2. Better
      BY <3>1, ModeBetter DEF Inv
    <3> QED BY <2>1, <3>2
  <2>4. CASE x \notin Dirs
    <3>1. attr' = [attr EXCEPT ![x].grp = Group(attr[x].grp, r.gid)]
      BY <1>1, <1>9, <2>2, <2>4 DEF FixFD
    <3>2. attr[x] \in Attr /\ attr \in [Objects -> Attr]
      BY DEF Inv, Attributes
    <3>3. attr'[x] = [attr[x] EXCEPT !.grp = Group(attr[x].grp, r.gid)] /\ \A o \in Objects \ {x} : attr'[o] = attr[o]
      BY <3>1, <3>2
    <3>4. (attr[x].grp => attr'[x].grp) /\ attr'[x].mode = attr[x].mode
      BY <3>2, <3>3 DEF Attr, Group
    <3>5. Better
      BY <3>3, <3>4 DEF Better, Proper, Legible
    <3> QED BY <2>1, <3>5
  <2> QED BY <2>3, <2>4
<1>10. CASE ChmodFile(p)
  <2>1. r.pc = "perm" /\ UNCHANGED <<kids, fresh>> /\ attr' = [attr EXCEPT ![r.fd].mode = Want(r.perm)]
    BY <1>1, <1>10 DEF ChmodFile, At
  <2>2. PICK x \in Objects : x = r.fd /\ x \notin Dirs
    BY <1>1, <1>2, <2>1 DEF Holding
  <2>3. "gr" \in Want(r.perm)
    BY DEF Want
  <2>4. Better
    BY <2>1, <2>2, <2>3, ModeBetter DEF Inv
  <2> QED BY <2>1, <2>4
<1> QED BY <1>3, <1>4, <1>5, <1>6, <1>7, <1>8, <1>9, <1>10 DEF RepairStep

\* The directories are where they were, and none is worse.
LEMMA OrderlyStill ==
  ASSUME Inv, UNCHANGED kids, Better, Orderly
  PROVE  Orderly'
<1>1. Inside' = Inside
  BY DEF Inside, Under, Below, Children, Reachable, Root
<1>2. \A d \in Dirs : d \in Objects
  BY DEF Objects
<1> QED BY <1>1, <1>2 DEF Orderly, Better

LEMMA ServedStill ==
  ASSUME Inv, NEW made, NEW L, NEW M, ServedAt(L, made), Better,
         \A o \in made \cap Dirs, to \in Seq(Names) : Leads(In(to), o) => Leads(In(to), o)',
         \A o \in made \cap Files, to \in Seq(Names) : Leads(In(to), o) /\ Settled(L, to) => Leads(In(to), o)' /\ Settled(M, to)
  PROVE  ServedAt(M, made)'
<1> SUFFICES ASSUME NEW o \in made
             PROVE  /\ o \in Dirs \cup Files
                    /\ \E to \in Seq(Names) : Leads(In(to), o)' /\ (o \in Files => Legible(o)' /\ Settled(M, to))
  BY DEF ServedAt
<1>1. PICK to \in Seq(Names) : Leads(In(to), o) /\ (o \in Files => Legible(o) /\ Settled(L, to))
  BY DEF ServedAt
<1>2. o \in Dirs \cup Files
  BY DEF ServedAt
<1>3. CASE o \in Dirs
  BY <1>1, <1>2, <1>3, Constants
<1>4. CASE o \in Files
  <2>1. Leads(In(to), o)' /\ Settled(M, to)
    BY <1>1, <1>4
  <2>2. Legible(o)'
    BY <1>1, <1>4 DEF Better, Objects
  <2> QED BY <1>2, <2>1, <2>2
<1> QED BY <1>2, <1>3, <1>4

LEMMA KindKept ==
  ASSUME [Next]_vars
  PROVE  UNCHANGED kind
<1>1. CASE \E p \in Procs : BeginRepair(p)
  BY <1>1 DEF BeginRepair, Begin
<1>2. CASE \E p \in Procs : Repairs(p)
  BY <1>2, NotStuck DEF Repairs
<1>3. CASE BeginPut
  BY <1>3 DEF BeginPut, PutBegin
<1>4. CASE Puts
  <2>1. CASE FindCubby \/ CopySetgid \/ CheckCubby \/ OpenRoot
    BY <2>1 DEF FindCubby, CopySetgid, CheckCubby, OpenRoot
  <2>2. CASE StatDir \/ PutSource \/ CopyInto \/ CopyDir
    BY <2>2 DEF StatDir, PutSource, CopyInto, CopyDir, Work
  <2>3. CASE \E d \in Dirs : MakeCubby(d) \/ MkdirExistOK(d)
    BY <2>3 DEF MakeCubby, MkdirExistOK, Work
  <2>4. CASE \E f \in Files : CopyFile(f)
    BY <2>4 DEF CopyFile, Work
  <2> QED BY <1>4, <2>1, <2>2, <2>3, <2>4 DEF Puts, PutStep
<1>5. CASE Shell
  BY <1>5 DEF Shell, Move, Chmod
<1>6. CASE Crash
  BY <1>6 DEF Crash, Kill
<1>7. CASE UNCHANGED vars
  BY <1>7 DEF vars
<1>8. CASE \E p \in Procs : Fails(p) \/ Blocks(p)
  BY <1>8, AsideSame
<1> QED BY <1>1, <1>2, <1>3, <1>4, <1>5, <1>6, <1>7, <1>8 DEF Next

LEMMA NoFixSteady == Steady(NoFix)'
BY DEF Steady, NoFix

LEMMA RepairSteady ==
  ASSUME Inv, NEW p \in Procs, Steady(fix[p]), RepairStep(p), UNCHANGED kind
  PROVE  Steady(fix[p])'
<1>1. Shared
  BY InvShared
<1>2. PICK r, q : r = fix[p] /\ q = fix'[p] /\ r \in Fix /\ Steady(r)
  BY DEF Inv, Repairers
<1> SUFFICES Steady(q)'
  BY <1>2
<1>3. CASE Check(p) \/ (\E d \in Dirs : Mkdirat(p, d)) \/ ChownCubby(p) \/ ChownFails(p)
  <2>1. kind # "home"
    BY <1>2, <1>3 DEF Steady, Check, Mkdirat, ChownCubby, ChownFails, At
  <2>2. q = NoFix \/ \E pc \in {"mkdirat", "openat", "chmod"} : GoesTo(r, q, pc)
    BY <1>1, <1>2, <1>3, GotoFacts DEF Check, Mkdirat, ChownCubby, ChownFails, End, Inv, Repairers
  <2> QED BY <2>1, <2>2, NoFixSteady DEF Steady, GoesTo
<1>4. CASE OpenCubby(p) \/ ChmodCubby(p)
  <2>1. kind # "home"
    BY <1>2, <1>4 DEF Steady, OpenCubby, ChmodCubby, At
  <2>2. q = NoFix \/ q.pc \in {"chown", "open"}
    BY <1>1, <1>2, <1>4, OpenCubbyFacts, ChmodCubbyFacts
  <2> QED BY <2>1, <2>2, NoFixSteady DEF Steady
<1>5. CASE Open(p) \/ Descend(p)
  <2>1. q = NoFix \/ q.pc \in {"fix", "path"}
    BY <1>1, <1>2, <1>5, OpenFacts, DescendFacts
  <2> QED BY <2>1, NoFixSteady DEF Steady
<1>6. CASE List(p) \/ Up(p)
  <2>1. q = NoFix \/ q.pc = "children"
    BY <1>1, <1>2, <1>6, ListFacts, UpFacts DEF ListsTo, UpTo
  <2> QED BY <2>1, NoFixSteady DEF Steady
<1>7. CASE \E e \in [name : Names, dir : BOOLEAN] : Visit(p, e)
  <2>1. q.pc \in {"fix", "children"}
    BY <1>1, <1>2, <1>7, VisitFacts DEF VisitsTo, Found
  <2> QED BY <2>1 DEF Steady
<1>8. CASE (FixFD(p) /\ r.fd \in Dirs) \/ ChmodFile(p)
  <2>1. q = After(r)
    BY <1>2, <1>8 DEF FixFD, ChmodFile, Inv, Repairers
  <2>2. q = NoFix \/ q.pc \in {"path", "list", "children"}
    BY <1>2, <2>1, AfterFacts DEF GoesTo
  <2> QED BY <2>2, NoFixSteady DEF Steady
<1>9. CASE FixFD(p) /\ r.fd \notin Dirs
  <2>1. q.pc = "perm" /\ q.fd = r.fd
    BY <1>2, <1>9 DEF FixFD, Inv, Repairers, Fix
  <2> QED BY <1>9, <2>1 DEF Steady
<1> QED BY <1>3, <1>4, <1>5, <1>6, <1>7, <1>8, <1>9 DEF RepairStep

LEMMA FailSteady ==
  ASSUME Inv, NEW p \in Procs, Steady(fix[p]), CallFails(p), UNCHANGED kind
  PROVE  Steady(fix[p])'
<1>1. PICK r, q : r = fix[p] /\ q = fix'[p] /\ r \in Fix
  BY DEF Inv, Repairers
<1> SUFFICES Steady(q)'
  BY <1>1
<1>2. \/ q = NoFix
      \/ r.fd \notin Dirs /\ q = PermNext(r)
      \/ q = After(r)
  BY <1>1, InvShared, CallFailsFacts DEF Inv, Repairers
<1>3. CASE r.fd \notin Dirs /\ q = PermNext(r)
  <2>1. q.pc = "perm" /\ q.fd = r.fd
    BY <1>1, <1>3 DEF PermNext, Fix
  <2> QED BY <1>3, <2>1 DEF Steady
<1>4. CASE q = After(r)
  <2>1. q = NoFix \/ q.pc \in {"path", "list", "children"}
    BY <1>1, <1>4, AfterFacts DEF GoesTo
  <2> QED BY <2>1, NoFixSteady DEF Steady
<1> QED BY <1>2, <1>3, <1>4, NoFixSteady

\* An entry made elsewhere than in a new directory.
LEMMA EmptyAfter ==
  ASSUME Inv, NewEmpty, NEW p \in Dirs, p \notin fresh, NEW n \in Names, NEW v,
         kids' = [kids EXCEPT ![p][n] = v], fresh' \subseteq fresh
  PROVE  NewEmpty'
<1> SUFFICES ASSUME NEW d \in Dirs, d \in fresh', NEW m \in Names PROVE kids'[d][m] = Nil
  BY DEF NewEmpty
<1>1. d \in fresh /\ d # p
  OBVIOUS
<1>2. kids'[d] = kids[d]
  BY <1>1 DEF Inv, Entries
<1> QED BY <1>1, <1>2 DEF NewEmpty

\* Nobody moves anything into a directory that does not exist.
LEMMA MoveEmpty ==
  ASSUME Inv, NewEmpty, NEW a \in Dirs, NEW b \in Dirs, NEW x \in Names, NEW y \in Names, Move(a, x, b, y)
  PROVE  NewEmpty'
<1>1. PICK v, w : kids' = [kids EXCEPT ![a][x] = v, ![b][y] = w] /\ UNCHANGED fresh
  BY DEF Move, Exchange
<1>2. Slots = Names
  BY CubbyAssumption DEF Slots
<1>3. \A d \in Dirs : Linked(d) => d \notin fresh
  BY <1>2, TreeAssumption DEF Linked, Holders, Inv, Inodes, Opened0
<1>4. a \notin fresh /\ b \notin fresh
  BY <1>3 DEF Move, Exchange
<1> SUFFICES ASSUME NEW d \in Dirs, d \in fresh, NEW m \in Names PROVE kids'[d][m] = Nil
  BY <1>1 DEF NewEmpty
<1>5. d # a /\ d # b
  BY <1>4
<1>6. kids'[d] = kids[d]
  BY <1>1, <1>5 DEF Inv, Entries
<1> QED BY <1>6 DEF NewEmpty

LEMMA NoPutSound ==
  ASSUME Inodes', put' = NoPut \/ put' = [NoPut EXCEPT !.ok = TRUE]
  PROVE  Sound(put)'
<1>1. put'.made = {} /\ put'.root = Nil
  BY DEF NoPut
<1> QED BY <1>1, Constants DEF Sound, Inodes

\* The put goes on without another root.
LEMMA SoundOn ==
  ASSUME Sound(put), fresh' \subseteq fresh, put'.root = put.root,
         put'.pc # "work" => put'.made \subseteq Dirs
  PROVE  Sound(put)'
BY DEF Sound

LEMMA PutSound ==
  ASSUME Inv, Inv', Sound(put), PutStep
  PROVE  Sound(put)' /\ fresh' \subseteq fresh
<1>0. Inodes' /\ put \in Puts0
  BY DEF Inv, Putter
<1>1. CASE put' = NoPut
  <2>1. fresh' \subseteq fresh
    BY DEF PutStep, FindCubby, CopySetgid, CheckCubby, OpenRoot, StatDir, PutSource, CopyInto, CopyDir, MakeCubby, MkdirExistOK, CopyFile
  <2> QED BY <1>0, <1>1, <2>1, NoPutSound
<1>2. CASE put' # NoPut /\ put.pc = "work"
  <2>1. fresh' \subseteq fresh
    <3>1. CASE FindCubby \/ CopySetgid \/ CheckCubby \/ OpenRoot \/ StatDir \/ PutSource \/ CopyInto \/ CopyDir
      BY <3>1 DEF FindCubby, CopySetgid, CheckCubby, OpenRoot, StatDir, PutSource, CopyInto, CopyDir
    <3>2. CASE \E d \in Dirs : MakeCubby(d) \/ MkdirExistOK(d)
      BY <3>2 DEF MakeCubby, MkdirExistOK
    <3>3. CASE \E f \in Files : CopyFile(f)
      BY <3>3 DEF CopyFile
    <3> QED BY <3>1, <3>2, <3>3 DEF PutStep
  <2>2. PICK m \in SUBSET Objects : \E items : put' = More([put EXCEPT !.made = m], items)
    BY <1>2, WorkMore
  <2>3. PICK items : put' = More([put EXCEPT !.made = m], items)
    BY <2>2
  <2>4. PICK r, T : r = [put EXCEPT !.made = m] /\ T = items \o Tail(r.todo)
    OBVIOUS
  <2>5. r \in Puts0 /\ r.pc = "work" /\ r.root = put.root
    BY <1>0, <1>2, <2>4 DEF Puts0
  <2>6. put' = [NoPut EXCEPT !.ok = TRUE] \/ put' = [r EXCEPT !.todo = T]
    BY <2>3, <2>4 DEF More
  <2>7. CASE put' = [r EXCEPT !.todo = T]
    <3>1. put'.pc = "work" /\ put'.root = put.root
      BY <2>5, <2>7 DEF Puts0
    <3> QED BY <2>1, <3>1, SoundOn
  <2> QED BY <1>0, <2>1, <2>6, <2>7, NoPutSound
<1>3. CASE put' # NoPut /\ put.pc # "work"
  <2>1. CASE FindCubby \/ CopySetgid \/ CheckCubby
    <3>1. UNCHANGED fresh /\ \E pc \in {"mkdir", "open", "check"} : put' = [put EXCEPT !.pc = pc]
      BY <1>3, <2>1 DEF FindCubby, CopySetgid, CheckCubby, Fail
    <3>2. put'.root = put.root /\ put'.made = put.made
      BY <1>0, <3>1 DEF Puts0
    <3> QED BY <1>3, <3>1, <3>2, SoundOn DEF Sound
  <2>2. CASE OpenRoot
    <3>1. PICK o, T : put' = [put EXCEPT !.pc = "work", !.root = o, !.todo = T] /\ o = Root /\ UNCHANGED fresh
      BY <1>3, <2>2 DEF OpenRoot, Fail
    <3>2. put'.root = o /\ put'.pc = "work"
      BY <1>0, <3>1 DEF Puts0
    <3>3. o \notin fresh'
      BY <3>1, Constants DEF Inv, Inodes, Root
    <3> QED BY <3>1, <3>2, <3>3 DEF Sound
  <2>3. CASE \E d \in Dirs : MakeCubby(d)
    <3>1. PICK d \in Dirs : put' = [put EXCEPT !.pc = "setgid", !.made = {d}] /\ fresh' \subseteq fresh
      BY <1>3, <2>3 DEF MakeCubby, Fail
    <3>2. put'.root = put.root /\ put'.made = {d}
      BY <1>0, <3>1 DEF Puts0
    <3> QED BY <3>1, <3>2, SoundOn
  <2> QED BY <1>3, <2>1, <2>2, <2>3 DEF PutStep, StatDir, PutSource, CopyInto, CopyDir, MkdirExistOK, CopyFile, Work
<1> QED BY <1>1, <1>2, <1>3

\* A put makes nothing in a directory that does not exist.
LEMMA PutEmpty ==
  ASSUME Inv, Sound(put), NewEmpty, PutStep, fresh' \subseteq fresh
  PROVE  NewEmpty'
<1>1. CASE UNCHANGED kids
  BY <1>1 DEF NewEmpty
<1>2. CASE ~UNCHANGED kids
  <2>1. CASE FindCubby \/ CopySetgid \/ CheckCubby \/ OpenRoot \/ StatDir \/ PutSource \/ CopyInto \/ CopyDir
    BY <1>2, <2>1 DEF FindCubby, CopySetgid, CheckCubby, OpenRoot, StatDir, PutSource, CopyInto, CopyDir
  <2>2. CASE \E d \in Dirs : MakeCubby(d)
    <3>1. PICK d \in Dirs : kids' = [kids EXCEPT ![Parent][Cubby] = d]
      BY <1>2, <2>2 DEF MakeCubby
    <3>2. Parent \notin fresh
      BY AccessAssumption DEF Inv, Inodes, Opened0
    <3> QED BY <3>1, <3>2, EmptyAfter, Constants
  <2>3. CASE (\E d \in Dirs : MkdirExistOK(d)) \/ (\E f \in Files : CopyFile(f))
    <3>1. PICK p, n, i : p = Dest /\ n = Last(it.to) /\ i = it
      OBVIOUS
    <3>2. put.pc = "work" /\ p \in Dirs /\ \E v : kids' = [kids EXCEPT ![p][n] = v]
      BY <1>2, <2>3, <3>1 DEF MkdirExistOK, CopyFile, Work
    <3>3. i \in Items /\ n \in Names /\ Front(i.to) \in Seq(Names)
      BY <3>1, <3>2, Working, LastType DEF Inv
    <3>4. PICK top, t : top = put.root /\ t = Front(i.to) /\ t \in Seq(Names) /\ p = Lookup(top, t)
      BY <3>1, <3>3 DEF Dest, it
    <3>5. p # Nil
      BY <3>2, TreeAssumption DEF Objects
    <3>6. PICK g : /\ g[0] = top /\ g[Len(t)] = p
                   /\ \A j \in 1..Len(t) : g[j - 1] \in Dirs /\ g[j] = kids[g[j - 1]][t[j]]
      BY <3>4, <3>5, LookupChain
    <3>7. p \notin fresh
      <4>1. CASE Len(t) = 0
        BY <3>4, <3>6, <4>1 DEF Sound
      <4>2. CASE Len(t) # 0
        <5>1. Len(t) \in 1..Len(t) /\ t[Len(t)] \in Names
          BY <3>4, <4>2
        <5>2. PICK e \in Dirs, y \in Names : p = kids[e][y]
          BY <3>6, <5>1
        <5> QED BY <5>2 DEF Inv, Inodes
      <4> QED BY <4>1, <4>2
    <3> QED BY <3>2, <3>3, <3>7, EmptyAfter
  <2> QED BY <2>1, <2>2, <2>3 DEF PutStep
<1> QED BY <1>1, <1>2

LEMMA NextGiven == Inv /\ Given /\ [Next]_vars => Given'
<1> SUFFICES ASSUME Inv, Given, [Next]_vars PROVE Given'
  OBVIOUS
<1>1. UNCHANGED kind /\ Inv'
  BY KindKept, InvStep
<1>2. attr'[Parent] = Layout' /\ kind' \in {"users", "home"}
  <2>1. attr'[Parent] = attr[Parent]
    <3>1. CASE Next
      BY <3>1, NextInv, AccessAssumption DEF Kept
    <3>2. CASE UNCHANGED vars
      BY <3>2 DEF vars
    <3> QED BY <3>1, <3>2
  <2> QED BY <1>1, <2>1 DEF Given, Layout
<1>3. \A p \in Procs : Steady(fix[p])
  BY DEF Given
<1>4. Sound(put) /\ NewEmpty
  BY DEF Given
<1>5. UNCHANGED fix => \A p \in Procs : Steady(fix[p])'
  BY <1>1, <1>3 DEF Steady
<1>6. UNCHANGED <<put, fresh>> => Sound(put)'
  BY <1>4 DEF Sound
<1>7. UNCHANGED <<kids, fresh>> => NewEmpty'
  BY <1>4 DEF NewEmpty
<1>8. CASE \E p \in Procs : BeginRepair(p)
  <2>1. PICK p \in Procs, op \in {"start", "read", "login", "mkdir"}, rel \in Rels, gid \in BOOLEAN : Begin(p, op, rel, gid)
    BY <1>8 DEF BeginRepair
  <2>2. UNCHANGED <<kids, fresh, put>>
    BY <1>8, <2>1 DEF BeginRepair, Begin
  <2>3. fix'[p] = [NoFix EXCEPT !.op = op, !.rel = rel, !.gid = gid,
                     !.pc = CASE kind = "home" -> "open" [] op = "mkdir" -> "check" [] OTHER -> "mkdirat"]
    BY <2>1 DEF Begin, Inv, Repairers
  <2>4. fix'[p].pc = (CASE kind = "home" -> "open" [] op = "mkdir" -> "check" [] OTHER -> "mkdirat")
    BY <2>3 DEF NoFix
  <2>5. Steady(fix[p])'
    <3>0. kind = "home" => op # "mkdir"
      BY <2>1 DEF Begin
    <3>1. kind = "home" => fix'[p].pc = "open"
      BY <2>4, <3>0
    <3>2. fix'[p].pc \in {"open", "check", "mkdirat"}
      BY <2>4
    <3> QED BY <1>1, <3>1, <3>2 DEF Steady
  <2>6. \A q \in Procs \ {p} : fix'[q] = fix[q]
    BY <2>1 DEF Begin, Inv, Repairers
  <2>7. \A q \in Procs : Steady(fix[q])'
    <3>1. \A q \in Procs \ {p} : Steady(fix[q])'
      BY <1>1, <1>3, <2>6 DEF Steady
    <3> QED BY <2>5, <3>1
  <2> QED BY <1>2, <1>6, <1>7, <2>2, <2>7 DEF Given
<1>9. CASE \E p \in Procs : Repairs(p)
  <2>1. PICK p \in Procs : RepairStep(p) /\ UNCHANGED put
    BY <1>9 DEF Repairs
  <2>2. \A q \in Procs \ {p} : fix'[q] = fix[q]
    BY <2>1, OwnStep, InvShared
  <2>3. Steady(fix[p])'
    BY <1>1, <1>3, <2>1, RepairSteady
  <2>4. \A q \in Procs : Steady(fix[q])'
    <3>1. \A q \in Procs \ {p} : Steady(fix[q])'
      BY <1>1, <1>3, <2>2 DEF Steady
    <3> QED BY <2>3, <3>1
  <2>5. fresh' \subseteq fresh /\ (UNCHANGED <<kids, fresh>> \/ \E v : kids' = [kids EXCEPT ![Parent][Cubby] = v])
    BY <2>1, RepairEntries
  <2>6. NewEmpty'
    <3>1. Parent \notin fresh
      BY AccessAssumption DEF Inv, Inodes, Opened0
    <3> QED BY <1>4, <1>7, <2>5, <3>1, EmptyAfter, Constants
  <2>7. Sound(put)'
    BY <1>4, <2>1, <2>5 DEF Sound
  <2> QED BY <1>2, <2>4, <2>6, <2>7 DEF Given
<1>10. CASE BeginPut
  <2>1. PICK src \in Sources, dest \in Dests : PutBegin(src, dest)
    BY <1>10 DEF BeginPut
  <2>2. put' = [NoPut EXCEPT !.pc = "find", !.src = src, !.dest = dest] /\ UNCHANGED <<kids, fresh>>
    BY <2>1 DEF PutBegin
  <2>3. put'.made = {} /\ put'.root = Nil
    BY <2>2 DEF NoPut
  <2>4. Sound(put)'
    BY <1>1, <2>3, Constants DEF Sound, Inv, Inodes
  <2>5. UNCHANGED fix
    BY <1>10 DEF BeginPut
  <2> QED BY <1>2, <1>5, <1>7, <2>2, <2>4, <2>5 DEF Given
<1>11. CASE Puts
  <2>1. PutStep /\ UNCHANGED fix
    BY <1>11 DEF Puts
  <2>2. Sound(put)' /\ fresh' \subseteq fresh
    BY <1>1, <1>4, <2>1, PutSound
  <2>3. NewEmpty'
    BY <1>4, <2>1, <2>2, PutEmpty
  <2> QED BY <1>2, <1>5, <2>1, <2>2, <2>3 DEF Given
<1>12. CASE Shell
  <2>1. UNCHANGED <<fix, put>>
    BY <1>12 DEF Shell
  <2>2. UNCHANGED fresh /\ NewEmpty'
    <3>1. CASE \E a, b \in Dirs, x, y \in Names : Move(a, x, b, y)
      <4>1. UNCHANGED fresh
        BY <3>1 DEF Move
      <4> QED BY <1>4, <3>1, <4>1, MoveEmpty
    <3>2. CASE \E o \in Inside, m \in {{"ux"}} : Chmod(o, m)
      BY <1>7, <3>2 DEF Chmod
    <3> QED BY <1>12, <3>1, <3>2 DEF Shell
  <2> QED BY <1>2, <1>5, <1>6, <2>1, <2>2 DEF Given
<1>13. CASE Crash
  <2>1. UNCHANGED <<kids, fresh, put>>
    BY <1>13 DEF Crash, Kill
  <2>2. \A q \in Procs : fix'[q] = NoFix \/ fix'[q] = fix[q]
    BY <1>13 DEF Crash, Kill
  <2>3. \A q \in Procs : Steady(fix[q])'
    <3>1. ASSUME NEW q \in Procs, fix'[q] = NoFix PROVE Steady(fix[q])'
      BY <3>1, NoFixSteady
    <3>2. ASSUME NEW q \in Procs, fix'[q] = fix[q] PROVE Steady(fix[q])'
      BY <1>1, <1>3, <3>2 DEF Steady
    <3> QED BY <2>2, <3>1, <3>2
  <2> QED BY <1>2, <1>6, <1>7, <2>1, <2>3 DEF Given
<1>14. CASE UNCHANGED vars
  BY <1>2, <1>5, <1>6, <1>7, <1>14 DEF Given, vars
<1>15. CASE \E p \in Procs : Fails(p)
  <2>1. PICK p \in Procs : CallFails(p) /\ UNCHANGED <<kids, fresh, put>>
    BY <1>15, AsideSame DEF Fails
  <2>2. Steady(fix[p])' /\ \A q \in Procs \ {p} : fix'[q] = fix[q]
    BY <1>1, <1>3, <2>1, FailSteady, InvShared, CallFailsFacts
  <2>3. \A q \in Procs : Steady(fix[q])'
    <3>1. \A q \in Procs \ {p} : Steady(fix[q])'
      BY <1>1, <1>3, <2>2 DEF Steady
    <3> QED BY <2>2, <3>1
  <2> QED BY <1>2, <1>6, <1>7, <2>1, <2>3 DEF Given
<1>16. CASE \E p \in Procs : Blocks(p)
  <2>1. UNCHANGED <<kids, fresh, put, fix>>
    BY <1>16 DEF Blocks, Block
  <2> QED BY <1>2, <1>5, <1>6, <1>7, <2>1 DEF Given
<1> QED BY <1>8, <1>9, <1>10, <1>11, <1>12, <1>13, <1>14, <1>15, <1>16 DEF Next

LEMMA InitGiven == Init => Given
<1> SUFFICES ASSUME Init PROVE Given
  OBVIOUS
<1>1. PICK s \in Starts : /\ kind = s.kind /\ kids = s.kids /\ attr = [s.attr EXCEPT ![Parent] = Layout]
                          /\ fresh = {o \in (Dirs \cup Files) \ (Tops \cup Fixed) : \A d \in Dirs, n \in Names : s.kids[d][n] # o}
  BY DEF Init
<1>2. StartOK(s)
  BY CubbyAssumption
<1>3. kind \in {"users", "home"} /\ attr[Parent] = Layout
  BY <1>1, <1>2, Constants DEF StartOK, Objects
<1>4. NewEmpty
  BY <1>1, <1>2 DEF StartOK, NewEmpty
<1>5. put = NoPut /\ fix = [p \in Procs |-> NoFix]
  BY DEF Init, PutInit, RepairInit
<1>6. Sound(put)
  <2>1. put.made = {} /\ put.root = Nil
    BY <1>5 DEF NoPut
  <2>2. Nil \notin fresh
    BY <1>1, Constants DEF Opened0
  <2> QED BY <2>1, <2>2 DEF Sound
<1>7. \A p \in Procs : Steady(fix[p])
  BY <1>5 DEF Steady, NoFix
<1> QED BY <1>3, <1>4, <1>6, <1>7 DEF Given

-----------------------------------------------------------------------------
(* What the steps of the put make *)

\* A new directory is empty, and as orderly as the one it is made in.
LEMMA MakesOrderly ==
  ASSUME Inv, NewEmpty, Orderly, NEW p \in Dirs, NEW n \in Names, NEW v \in fresh,
         kids' = [kids EXCEPT ![p][n] = v],
         NEW a, attr' = [attr EXCEPT ![v] = a], v \in Dirs => a.grp /\ a.mode = CubbyMode
  PROVE  Orderly'
<1> DEFINE C == (Inside \cap Dirs) \cup {v}
<1>1. \A d \in Dirs, m \in Names : kids'[d][m] = kids[d][m] \/ kids'[d][m] = v
  BY DEF Inv, Entries
<1>2. Root \in Dirs => Root \in Inside /\ \A d \in Dirs \cap Inside, m \in Names : kids[d][m] \in Dirs => kids[d][m] \in Inside
  BY UnderClosed DEF Inside
<1>3. Root \notin Dirs => Inside = {}
  BY DEF Inside, Under
<1>4. Root' \in Dirs => Root' \in C
  <2>1. Root' = Root \/ Root' = v
    BY <1>1, Constants DEF Root
  <2> QED BY <1>2, <2>1
<1>5. ASSUME NEW d \in Dirs \cap C, NEW m \in Names, kids'[d][m] \in Dirs PROVE kids'[d][m] \in C
  <2>1. CASE d \in Inside
    BY <1>1, <1>2, <1>3, <1>5, <2>1
  <2>2. CASE d = v
    <3>1. kids[d][m] = Nil /\ Nil \notin Dirs
      BY <2>2, TreeAssumption DEF NewEmpty, Objects
    <3> QED BY <1>1, <1>5, <3>1
  <2> QED BY <2>1, <2>2
<1>6. (Inside \cap Dirs)' \subseteq C
  <2> HIDE DEF C
  <2> QED BY <1>4, <1>5, InsideLeastNext DEF InsideWithin
<1>7. v \in Objects /\ attr'[v] = a /\ \A o \in Objects \ {v} : attr'[o] = attr[o]
  BY DEF Inv, Attributes, Inodes, Opened0, Objects
<1>8. ASSUME NEW d \in Dirs, d \in Inside' PROVE Proper(d)'
  <2>1. CASE d = v
    BY <1>7, <2>1 DEF Proper
  <2>2. CASE d # v
    <3>1. d \in Inside /\ attr'[d] = attr[d]
      BY <1>6, <1>7, <1>8, <2>2 DEF Objects
    <3> QED BY <3>1 DEF Orderly, Proper
  <2> QED BY <2>1, <2>2
<1> QED BY <1>8 DEF Orderly

\* What was made before keeps its place, and what is made has one.
LEMMA MakesServed ==
  ASSUME Inv, NEW p \in Dirs, NEW n \in Names, NEW x, x = kids[p][n], x \notin Dirs, NEW v \in fresh,
         kids' = [kids EXCEPT ![p][n] = v],
         NEW a, attr' = [attr EXCEPT ![v] = a], v \in Dirs => a.grp /\ a.mode = CubbyMode,
         v \in Files => a.grp /\ "gr" \in a.mode,
         NEW made, NEW L, NEW M, ServedAt(L, made), NEW to \in Seq(Names), Leads(In(to), v)',
         v \in Files => Settled(M, to),
         \A t \in Seq(Names) : Settled(L, t) => Settled(M, t),
         \A t \in Seq(Names) : x # Nil /\ Leads(In(t), x) => ~Settled(L, t)
  PROVE  ServedAt(M, made \cup {v})'
<1>1. v \in Dirs \cup Files /\ attr'[v] = a /\ \A o \in Objects \ {v} : attr'[o] = attr[o]
  BY DEF Inv, Attributes, Inodes, Opened0, Objects
<1>2. Better
  BY <1>1 DEF Better, Proper, Legible
<1>3. ASSUME NEW o, NEW t \in Seq(Names), Leads(In(t), o), o # x PROVE Leads(In(t), o)'
  <2>1. PICK b \in Absolute : b = In(t)
    BY InFacts
  <2>2. Leads(b, o)'
    BY <1>3, <2>1, LeadsKept DEF Inv
  <2> QED BY <2>1, <2>2
<1>4. \A o \in made \cap Dirs, t \in Seq(Names) : Leads(In(t), o) => Leads(In(t), o)'
  BY <1>3
<1>5. \A o \in made \cap Files, t \in Seq(Names) : Leads(In(t), o) /\ Settled(L, t) => Leads(In(t), o)' /\ Settled(M, t)
  <2>1. Nil \notin Files
    BY TreeAssumption DEF Objects
  <2> QED BY <1>3, <2>1
<1>6. ServedAt(M, made)'
  BY <1>2, <1>4, <1>5, ServedStill
<1>7. v \in Files => Legible(v)'
  BY <1>1 DEF Legible
<1> QED BY <1>1, <1>6, <1>7 DEF ServedAt

\* The directory an item is about is one of the cubby.
LEMMA DestProper ==
  ASSUME Inv, Given, Orderly, Root \in Dirs, NEW to \in Seq(Names) \ {<< >>}, NEW p \in Dirs,
         p = Lookup(Root, Front(to))
  PROVE  Proper(p)
<1>1. PICK t \in Seq(Names) : t = Front(to)
  BY FrontFacts
<1>2. p # Nil /\ p \notin Files
  BY TreeAssumption DEF Objects
<1>3. Leads(In(t), p)
  BY <1>1, <1>2, LookupLeads
<1>4. attr[Parent] = Layout
  BY DEF Given
<1> QED BY <1>2, <1>3, <1>4, LeadsReach DEF LeadsReached

\* What is left after a step of the copy, what it made, and that it is served.
StepServes(L) ==
  \E m \in SUBSET Objects, items \in Seq(Items) :
    /\ put' = More([put EXCEPT !.made = m], items) /\ put.made \cup (fresh \ fresh') \subseteq m
    /\ Root' = Root /\ Orderly' /\ ServedAt(items \o Tail(L), m)'

LEMMA LookServes ==
  ASSUME Inv, put.pc = "work", NEW L, L = put.todo, Orderly, ServedAt(L, put.made), UNCHANGED <<kids, attr,
         fresh>>,
         NEW items \in Seq(Items), put' = More(put, items), NEW src, NEW target,
         Spreads(items, it, src, target)
  PROVE  StepServes(L)
<1>1. L \in Seq(Items) /\ L # << >> /\ it = L[1]
  <2>1. put.todo \in Seq(Items) /\ put.todo # << >>
    BY Working DEF Inv
  <2> QED BY <2>1 DEF it
<1>2. PICK h, M : h = it /\ M = items \o Tail(L) /\ Joined(M, L, items)
  BY <1>1, Joins
<1>3. PICK m \in SUBSET Objects : m = put.made /\ put = [put EXCEPT !.made = m]
  BY DEF Inv, Putter, Puts0
<1>4. Better /\ Root' = Root
  BY SameBetter DEF Root
<1>5. Orderly'
  BY <1>4, OrderlyStill
<1>6. \A b, o : Leads(b, o)' = Leads(b, o)
  BY DEF Leads
<1>7. \A t \in Seq(Names) : Settled(L, t) => Settled(M, t)
  BY <1>1, <1>2, StaysSettled
<1>8. ServedAt(M, m)'
  <2>1. ServedAt(L, m)
    BY <1>3
  <2>2. \A o \in m \cap Dirs, t \in Seq(Names) : Leads(In(t), o) => Leads(In(t), o)'
    BY <1>6
  <2>3. \A o \in m \cap Files, t \in Seq(Names) : Leads(In(t), o) /\ Settled(L, t) => Leads(In(t), o)' /\ Settled(M, t)
    BY <1>6, <1>7
  <2> QED BY <1>4, <2>1, <2>2, <2>3, ServedStill
<1>9. put' = More([put EXCEPT !.made = m], items) /\ put.made \cup (fresh \ fresh') \subseteq m
  BY <1>3
<1>10. ServedAt(items \o Tail(L), m)'
  BY <1>2, <1>8
<1> QED BY <1>4, <1>5, <1>9, <1>10 DEF StepServes

LEMMA MakeServes ==
  ASSUME Inv, Given, put.pc = "work", put.root = Root, Root \in Dirs, NEW L, L = put.todo, NEW src,
         NEW target, Laid(L, src, target),
         Orderly, ServedAt(L, put.made), NEW i, i = it, NEW p \in Dirs, p = Dest, NEW n, n = Last(i.to),
         kids[p][n] \notin Dirs,
         NEW v \in fresh, kids' = [kids EXCEPT ![p][n] = v], fresh' = fresh \ {v}, NEW a,
         attr' = [attr EXCEPT ![v] = a],
         \/ v \in Dirs /\ a = MadeDir("user", p, Mode0770) /\ kids[p][n] = Nil
         \/ v \in Files /\ a = MadeFile("user", p, {"gr", "gw"}) /\ Copier(i),
         NEW none, none = << >>, put' = More([put EXCEPT !.made = put.made \cup {v}], none)
  PROVE  StepServes(L)
<1>1. i \in Items /\ i.to \in Seq(Names) \ {<< >>} /\ i = L[1] /\ L \in Seq(Items) /\ L # << >>
  <2>1. i \in Items /\ put.todo \in Seq(Items) /\ put.todo # << >>
    BY Working DEF Inv
  <2>2. i = L[1]
    BY <2>1 DEF it
  <2> QED BY <2>1, <2>2 DEF Items
<1>2. PICK to \in Seq(Names) \ {<< >>} : to = i.to
  BY <1>1
<1>3. n \in Names /\ n = Last(to) /\ p = Lookup(Root, Front(to))
  BY <1>1, <1>2, LastType DEF Dest, it
<1>4. Proper(p) /\ v \notin Dirs \cap Files
  BY <1>2, <1>3, DestProper, Constants
<1>5. (v \in Dirs => a.grp /\ a.mode = CubbyMode) /\ (v \in Files => a.grp /\ "gr" \in a.mode)
  <2>1. attr[p].mode \cap {"sg"} = {"sg"} /\ attr[p].grp
    BY <1>4 DEF Proper, CubbyMode
  <2>2. CASE v \in Dirs /\ a = MadeDir("user", p, Mode0770)
    BY <1>4, <2>1, <2>2 DEF MadeDir, CubbyMode
  <2>3. CASE v \in Files /\ a = MadeFile("user", p, {"gr", "gw"})
    BY <1>4, <2>1, <2>3 DEF MadeDir, MadeFile
  <2> QED BY <2>2, <2>3
<1>6. Orderly'
  BY <1>3, <1>5, MakesOrderly DEF Given
<1>7. Leads(In(to), v)'
  <2>1. kids' = [kids EXCEPT ![p][Last(to)] = v] /\ kids[p][Last(to)] \notin Dirs
    BY <1>3
  <2> QED BY <1>3, <2>1, MadeLeads DEF Inv
<1>8. PICK items \in Seq(Items) : items = << >> /\ Len(items) = 0 /\ \A j \in 1..Len(items) : ~Copier(items[j])
  BY NoneLeft
<1>9. PICK M : M = items \o Tail(L) /\ Joined(M, L, items)
  BY <1>1, Joins
<1>10. \A t \in Seq(Names) : Settled(L, t) => Settled(M, t)
  <2>1. Spreads(items, L[1], src, target)
    BY <1>8, NoCopiers
  <2> QED BY <1>1, <1>9, <2>1, StaysSettled
<1>11. v \in Files => Settled(M, to)
  <2>1. v \in Files => Copier(L[1])
    BY <1>1, <1>4
  <2>2. Copier(L[1]) => Settled(M, L[1].to)
    BY <1>8, <1>9, HeadSettled
  <2> QED BY <1>1, <1>2, <2>1, <2>2
<1>12. PICK x : x = kids[p][n]
  OBVIOUS
<1>13. ASSUME NEW t \in Seq(Names), x # Nil, Leads(In(t), x) PROVE ~Settled(L, t)
  <2>1. Copier(L[1])
    BY <1>1, <1>12, <1>13
  <2>2. Leads(In(to), x)
    BY <1>3, <1>12, EntryLeads
  <2>3. PICK b, e : b = In(t) /\ e = In(to) /\ b \in Absolute /\ e \in Absolute
    BY InFacts
  <2>4. Len(e) = Len(b) /\ \A j \in 1..Len(e) : e[j] = b[j]
    BY <1>13, <2>2, <2>3, OnePath DEF Inv
  <2>5. Begins(to, t)
    BY <2>3, <2>4, InSame
  <2>6. 1 \in 1..Len(L)
    BY <1>9 DEF Joined
  <2> QED BY <1>1, <1>2, <2>1, <2>5, <2>6 DEF Settled
<1>14. PICK made, m : made = put.made /\ m = made \cup {v} /\ m \in SUBSET Objects
  <2>1. put.made \in SUBSET Objects
    BY DEF Inv, Putter, Puts0
  <2>2. v \in Objects
    BY DEF Inv, Inodes, Opened0, Objects
  <2>3. put.made \cup {v} \in SUBSET Objects
    BY <2>1, <2>2
  <2> QED BY <2>3
<1>15. ServedAt(M, made \cup {v})'
  <2>1. ServedAt(L, made) /\ x \notin Dirs
    BY <1>12, <1>14
  <2> QED BY <1>3, <1>5, <1>7, <1>10, <1>11, <1>12, <1>13, <2>1, MakesServed
<1>16. Root' = Root
  <2>1. p # Parent \/ n # Cubby
    BY DEF Root
  <2> QED BY <1>3, <2>1, Constants DEF Root, Inv, Entries
<1>17. put' = More([put EXCEPT !.made = m], items) /\ put.made \cup (fresh \ fresh') \subseteq m
  BY <1>8, <1>14
<1>18. ServedAt(items \o Tail(L), m)'
  BY <1>9, <1>14, <1>15
<1> QED BY <1>6, <1>14, <1>16, <1>17, <1>18 DEF StepServes

LEMMA QuietServes ==
  ASSUME Inv, put.pc = "work", NEW L, L = put.todo, NEW src \in Absolute, NEW target \in Seq(Names),
         Laid(L, src, target),
         Orderly, ServedAt(L, put.made), put' # NoPut, StatDir \/ PutSource \/ CopyInto \/ CopyDir
  PROVE  StepServes(L)
<1>1. PICK items \in Seq(Items) : put' = More(put, items) /\ Follows(items, it, src, target)
  BY StatDirFollows, PutSourceFollows, CopyIntoFollows, CopyDirFollows
<1>2. Spreads(items, it, src, target)
  BY <1>1 DEF Follows
<1>3. UNCHANGED <<kids, attr, fresh>>
  BY DEF StatDir, PutSource, CopyInto, CopyDir
<1> QED BY <1>1, <1>2, <1>3, LookServes

LEMMA MkdirServes ==
  ASSUME Inv, Given, put.pc = "work", put.root = Root, Root \in Dirs, NEW L, L = put.todo, NEW src,
         NEW target, Laid(L, src, target),
         Orderly, ServedAt(L, put.made), put' # NoPut, NEW d \in Dirs, MkdirExistOK(d)
  PROVE  StepServes(L)
<1>1. PICK p, n, i : p = Dest /\ n = Last(i.to) /\ i = it
  OBVIOUS
<1>2. PICK x, none, a : x = Item("stat", << >>, i.to) /\ none = << >> /\ a = MadeDir("user", p, Mode0770)
  OBVIOUS
<1>3. CASE UNCHANGED <<kids, attr, fresh>> /\ put' = More(put, <<x>>)
  <2>1. i \in Items
    BY <1>1, Working DEF Inv
  <2>2. << >> \in Seq(Tops \cup Names) /\ i.to \in Seq(Names) /\ i.to # << >>
    BY <2>1 DEF Items
  <2>3. x \in Items /\ x.k = "stat"
    BY <1>2, <2>2, ItemType DEF Kinds, Item
  <2>4. PICK items \in Seq(Items) : items = <<x>> /\ Len(items) = 1 /\ items[1] = x
    <3>1. <<x>> \in Seq(Items) /\ Len(<<x>>) = 1 /\ <<x>>[1] = x
      BY <2>3
    <3> QED BY <3>1
  <2>5. \A j \in 1..Len(items) : ~Copier(items[j])
    BY <2>3, <2>4 DEF Copier
  <2>6. Spreads(items, it, src, target)
    BY <2>5, NoCopiers
  <2> QED BY <1>3, <2>4, <2>6, LookServes
<1>4. CASE /\ p \in Dirs /\ kids[p][n] = Nil /\ d \in Fresh(Dirs) /\ fresh' = fresh \ {d}
           /\ kids' = [kids EXCEPT ![p][n] = d] /\ attr' = [attr EXCEPT ![d] = a]
           /\ put' = More([put EXCEPT !.made = put.made \cup {d}], none)
  <2>1. d \in fresh /\ kids[p][n] \notin Dirs
    BY <1>4, FreshIn, TreeAssumption DEF Objects
  <2> QED BY <1>1, <1>2, <1>4, <2>1, MakeServes
<1> QED BY <1>1, <1>2, <1>3, <1>4 DEF MkdirExistOK, Fail, PutDirMode

LEMMA CopyFileServes ==
  ASSUME Inv, Given, put.pc = "work", put.root = Root, Root \in Dirs, NEW L, L = put.todo, NEW src,
         NEW target, Laid(L, src, target),
         Orderly, ServedAt(L, put.made), put' # NoPut, NEW f \in Files, CopyFile(f)
  PROVE  StepServes(L)
<1>1. PICK p, n, i : p = Dest /\ n = Last(i.to) /\ i = it
  OBVIOUS
<1>2. PICK none, a : none = << >> /\ a = MadeFile("user", p, {"gr", "gw"})
  OBVIOUS
<1>3. /\ p \in Dirs /\ kids[p][n] \notin Dirs /\ f \in Fresh(Files) /\ fresh' = fresh \ {f}
      /\ kids' = [kids EXCEPT ![p][n] = f] /\ attr' = [attr EXCEPT ![f] = a]
      /\ put' = More([put EXCEPT !.made = put.made \cup {f}], none)
  BY <1>1, <1>2 DEF CopyFile, Fail
<1>4. f \in fresh /\ Copier(i)
  <2>1. i.k = "file"
    BY <1>1 DEF CopyFile, Work, it
  <2> QED BY <1>3, <2>1, FreshIn DEF Copier
<1> QED BY <1>1, <1>2, <1>3, <1>4, MakeServes

LEMMA WorkServes ==
  ASSUME Inv, Copying, Filling, Serving, goal.calm, goal.tidy, put.pc = "work", PutStep, put' # NoPut, NEW L,
         L = put.todo
  PROVE  StepServes(L)
<1>1. PICK src, target : src = put.src /\ target = Target
  OBVIOUS
<1>2. src \in Absolute /\ target \in Seq(Names)
  BY <1>1, AtWork
<1>3. put.root = Root /\ Root \in Dirs
  BY <1>1 DEF Copying, CopyAt
<1>4. Laid(L, src, target)
  BY <1>1 DEF Filling, FillAt
<1>5. Given /\ Orderly /\ ServedAt(L, put.made)
  BY DEF Serving
<1>6. CASE FindCubby \/ CopySetgid \/ CheckCubby \/ OpenRoot
  BY <1>6 DEF FindCubby, CopySetgid, CheckCubby, OpenRoot
<1>7. CASE StatDir \/ PutSource \/ CopyInto \/ CopyDir
  BY <1>2, <1>4, <1>5, <1>7, QuietServes
<1>8. CASE \E d \in Dirs : MakeCubby(d) \/ MkdirExistOK(d)
  <2>1. PICK d \in Dirs : MkdirExistOK(d)
    BY <1>8 DEF MakeCubby
  <2> QED BY <1>3, <1>4, <1>5, <2>1, MkdirServes
<1>9. CASE \E f \in Files : CopyFile(f)
  BY <1>3, <1>4, <1>5, <1>9, CopyFileServes
<1> QED BY <1>6, <1>7, <1>8, <1>9 DEF PutStep

-----------------------------------------------------------------------------
(* Every step leaves it served *)

LEMMA ServeOver ==
  ASSUME Given', goal' = NoGoal
  PROVE  Serving'
BY DEF Serving, NoGoal

LEMMA ServesAfter ==
  ASSUME Given', NEW p, p = put', NEW L, L = p.todo, NEW m, m = p.made,
         goal'.calm /\ goal'.tidy => (kind' = "users" => Root' \in Dirs) /\ Orderly' /\ ServedAt(L, m)'
  PROVE  Serving'
BY DEF Serving

\* A step that changes no entry and takes nothing from the daemon.
LEMMA ServeStill ==
  ASSUME Inv, Serving, Given', UNCHANGED <<kids, kind>>, goal' = goal, goal.calm /\ goal.tidy => Better,
         put'.made = put.made, put'.todo = put.todo \/ put.made \subseteq Dirs
  PROVE  Serving'
<1>1. PICK p, L, M, m : p = put' /\ L = put.todo /\ M = p.todo /\ m = put.made /\ m = p.made
  OBVIOUS
<1>2. ASSUME goal.calm, goal.tidy PROVE (kind' = "users" => Root' \in Dirs) /\ Orderly' /\ ServedAt(M, m)'
  <2>1. (kind = "users" => Root \in Dirs) /\ Orderly /\ ServedAt(L, m) /\ Better
    BY <1>1, <1>2 DEF Serving
  <2>2. Orderly' /\ Root' = Root
    BY <2>1, OrderlyStill DEF Root
  <2>3. \A b, o : Leads(b, o)' = Leads(b, o)
    BY DEF Leads
  <2>4. \A o \in m \cap Dirs, t \in Seq(Names) : Leads(In(t), o) => Leads(In(t), o)'
    BY <2>3
  <2>5. \A o \in m \cap Files, t \in Seq(Names) : Leads(In(t), o) /\ Settled(L, t) => Leads(In(t), o)' /\ Settled(M, t)
    BY <1>1, <2>3, Constants
  <2>6. ServedAt(M, m)'
    BY <2>1, <2>4, <2>5, ServedStill
  <2> QED BY <2>1, <2>2, <2>6
<1> QED BY <1>1, <1>2, ServesAfter

LEMMA FailServes ==
  ASSUME Given', GoalAfter, put' = NoPut
  PROVE  Serving'
<1>1. put'.pc = "idle"
  BY DEF NoPut
<1> QED BY <1>1, ServeOver DEF GoalAfter

LEMMA BeforeServes ==
  ASSUME Inv, Serving, Given', GoalAfter, put.pc # "work", FindCubby \/ CopySetgid \/ CheckCubby \/ OpenRoot
  PROVE  Serving'
<1>1. UNCHANGED <<kids, kind>>
  BY DEF FindCubby, CopySetgid, CheckCubby, OpenRoot
<1>2. CASE put' # NoPut
  <2>1. put'.made = put.made /\ put'.pc # "idle"
    <3>1. put \in Puts0
      BY DEF Inv, Putter
    <3>2. CASE FindCubby \/ CopySetgid \/ CheckCubby
      <4>1. \E pc \in {"mkdir", "open", "check"} : put' = [put EXCEPT !.pc = pc]
        BY <1>2, <3>2 DEF FindCubby, CopySetgid, CheckCubby, Fail
      <4> QED BY <3>1, <4>1 DEF Puts0
    <3>3. CASE OpenRoot
      <4>1. PICK o, T : o = Root /\ T = MkdirAll(put.dest) \o <<Item("source", put.src, Target)>>
        OBVIOUS
      <4>2. put' = [put EXCEPT !.pc = "work", !.root = o, !.todo = T]
        BY <1>2, <3>3, <4>1 DEF OpenRoot, Fail
      <4> QED BY <3>1, <4>2 DEF Puts0
    <3> QED BY <3>2, <3>3
  <2>2. put'.made = put.made /\ put'.pc # "idle" /\ put.made \subseteq Dirs
    BY <2>1 DEF Serving, Given, Sound
  <2>3. goal' = goal
    BY <2>2 DEF GoalAfter
  <2>4. ASSUME goal.calm, goal.tidy PROVE Better
    <3>1. CASE UNCHANGED attr
      BY <3>1, SameBetter
    <3>2. CASE ~UNCHANGED attr
      <4>1. attr' = [attr EXCEPT ![Root].mode = IF attr[Root].grp THEN @ ELSE @ \cup {"sg"}] /\ Root # Nil
        BY <3>2 DEF FindCubby, CopySetgid, CheckCubby, OpenRoot
      <4>2. PICK r \in Objects : r = Root
        BY <4>1, Constants DEF Inv, Entries, Root, Theirs
      <4>3. PICK m : m = IF attr[r].grp THEN attr[r].mode ELSE attr[r].mode \cup {"sg"}
        OBVIOUS
      <4>4. attr' = [attr EXCEPT ![r].mode = m]
        BY <4>1, <4>2, <4>3
      <4>5. (r \in Dirs /\ Proper(r) => m = CubbyMode) /\ (r \in Files /\ Legible(r) => "gr" \in m)
        BY <4>3 DEF Proper, Legible
      <4> QED BY <4>4, <4>5, ModeBetter DEF Inv
    <3> QED BY <3>1, <3>2
  <2> QED BY <1>1, <2>2, <2>3, <2>4, ServeStill
<1> QED BY <1>2, FailServes

\* A cubby in home/, which hands on its group.
LEMMA MakeCubbyServes ==
  ASSUME Inv, Serving, Given', GoalAfter, NEW d \in Dirs, MakeCubby(d)
  PROVE  Serving'
<1>1. CASE Root # Nil
  BY <1>1, FailServes DEF MakeCubby, Fail
<1>2. CASE Root = Nil
  <2>1. PICK a : a = MadeDir("user", Parent, Mode0770)
    OBVIOUS
  <2>2. /\ d \in fresh /\ kids' = [kids EXCEPT ![Parent][Cubby] = d] /\ attr' = [attr EXCEPT ![d] = a]
        /\ put' = [put EXCEPT !.pc = "setgid", !.made = {d}] /\ UNCHANGED kind
    BY <1>2, <2>1, FreshIn DEF MakeCubby
  <2>3. PICK p, L, m : p = put' /\ L = p.todo /\ m = p.made /\ m = {d} /\ p.pc = "setgid"
    <3>1. put'.made = {d} /\ put'.pc = "setgid"
      BY <2>2 DEF Inv, Putter, Puts0
    <3> QED BY <3>1
  <2>4. goal' = goal
    BY <2>3 DEF GoalAfter
  <2>5. Root' = d
    BY <2>2, Constants DEF Inv, Entries, Root
  <2>6. ASSUME goal.calm, goal.tidy PROVE Orderly' /\ ServedAt(L, m)'
    <3>1. (kind = "users" => Root \in Dirs) /\ Orderly /\ Given
      BY <2>6 DEF Serving
    <3>2. kind = "home"
      BY <1>2, <3>1, TreeAssumption DEF Given, Objects
    <3>3. attr[Parent].mode \cap {"sg"} = {"sg"} /\ attr[Parent].grp
      <4>1. attr[Parent] = Layout
        BY <3>1 DEF Given
      <4>2. attr[Parent].grp /\ attr[Parent].mode = CubbyMode \cup {"o"}
        BY <3>2, <4>1 DEF Layout
      <4> QED BY <4>2 DEF CubbyMode
    <3>4. a.grp /\ a.mode = CubbyMode
      BY <2>1, <3>3 DEF MadeDir, CubbyMode
    <3>5. Orderly'
      BY <2>2, <3>1, <3>4, MakesOrderly, Constants DEF Given
    <3>6. PICK e \in Seq(Names) : e = << >>
      <4>1. << >> \in Seq(Names)
        OBVIOUS
      <4> QED BY <4>1
    <3>7. Leads(In(e), d)'
      BY <2>5, <3>6, RootLeads
    <3>8. ServedAt(L, m)'
      BY <2>3, <3>7, Constants DEF ServedAt
    <3> QED BY <3>5, <3>8
  <2> QED BY <2>3, <2>4, <2>5, <2>6, ServesAfter
<1> QED BY <1>1, <1>2

LEMMA PutServes ==
  ASSUME Inv, Copying, Filling, Serving, Given', UNCHANGED kind, PutStep, GoalAfter
  PROVE  Serving'
<1>1. CASE put' = NoPut
  BY <1>1, FailServes
<1>2. CASE put.pc # "work"
  <2>1. CASE FindCubby \/ CopySetgid \/ CheckCubby \/ OpenRoot
    BY <1>2, <2>1, BeforeServes
  <2>2. CASE StatDir \/ PutSource \/ CopyInto \/ CopyDir
    BY <1>2, <2>2 DEF StatDir, PutSource, CopyInto, CopyDir, Work
  <2>3. CASE \E d \in Dirs : MakeCubby(d) \/ MkdirExistOK(d)
    <3>1. PICK d \in Dirs : MakeCubby(d)
      BY <1>2, <2>3 DEF MkdirExistOK, Work
    <3> QED BY <3>1, MakeCubbyServes
  <2>4. CASE \E f \in Files : CopyFile(f)
    BY <1>2, <2>4 DEF CopyFile, Work
  <2> QED BY <2>1, <2>2, <2>3, <2>4 DEF PutStep
<1>3. CASE put.pc = "work" /\ put' # NoPut
  <2>1. PICK p, L, M, made : p = put' /\ L = put.todo /\ M = p.todo /\ made = p.made
    OBVIOUS
  <2>2. CASE p.pc = "idle"
    BY <2>1, <2>2, ServeOver DEF GoalAfter
  <2>3. CASE p.pc # "idle"
    <3>1. goal' = goal
      BY <2>1, <2>3 DEF GoalAfter
    <3>2. ASSUME goal.calm, goal.tidy PROVE Root' \in Dirs /\ Orderly' /\ ServedAt(M, made)'
      <4>1. StepServes(L)
        BY <1>3, <2>1, <3>2, WorkServes
      <4>2. PICK m \in SUBSET Objects, items \in Seq(Items) :
              /\ put' = More([put EXCEPT !.made = m], items) /\ put.made \cup (fresh \ fresh') \subseteq m
              /\ Root' = Root /\ Orderly' /\ ServedAt(items \o Tail(L), m)'
        BY <4>1 DEF StepServes
      <4>3. p = More([put EXCEPT !.made = m], items)
        BY <2>1, <4>2
      <4>4. CopiesOn(p, m, items)
        BY <1>3, <2>3, <4>3, MoreFacts DEF Inv
      <4>5. M = items \o Tail(L) /\ made = m
        BY <2>1, <4>4 DEF CopiesOn
      <4>6. ServedAt(M, made)'
        BY <4>2, <4>5
      <4>7. Root \in Dirs
        BY <1>3, <3>2 DEF Copying, CopyAt
      <4> QED BY <4>2, <4>6, <4>7
    <3> QED BY <2>1, <3>1, <3>2, ServesAfter
  <2> QED BY <2>2, <2>3
<1> QED BY <1>1, <1>2, <1>3

LEMMA BeginServes ==
  ASSUME Inv, Given', BeginPut
  PROVE  Serving'
<1>1. PICK src \in Sources, dest \in Dests : PutBegin(src, dest)
  BY DEF BeginPut
<1>2. UNCHANGED <<kids, attr, kind>> /\ put' = [NoPut EXCEPT !.pc = "find", !.src = src, !.dest = dest]
  BY <1>1 DEF PutBegin
<1>3. PICK p, L, m : p = put' /\ L = p.todo /\ m = p.made /\ m = {}
  <2>1. put'.made = {}
    BY <1>2 DEF NoPut
  <2> QED BY <2>1
<1>4. ASSUME goal'.tidy PROVE (kind' = "users" => Root' \in Dirs) /\ Orderly'
  <2>1. (kind = "users" => OwnedCubby(Root)) /\ \A o \in Inside : o \in Dirs => Proper(o)
    <3>1. PICK src2 \in Sources, dest2 \in Dests :
            goal' = [calm |-> TRUE, copies |-> Copies(src2, dest2 \o <<Last(src2)>>),
                     tidy |-> (kind = "users" => OwnedCubby(Root)) /\ \A o \in Inside : o \in Dirs => Proper(o)]
      BY DEF BeginPut
    <3>2. goal'.tidy = ((kind = "users" => OwnedCubby(Root)) /\ \A o \in Inside : o \in Dirs => Proper(o))
      BY <3>1
    <3> QED BY <1>4, <3>2
  <2>2. Orderly /\ Better
    BY <1>2, <2>1, SameBetter DEF Orderly
  <2>3. Orderly'
    BY <1>2, <2>2, OrderlyStill
  <2> QED BY <1>2, <2>1, <2>3 DEF OwnedCubby, Root
<1>5. ServedAt(L, m)'
  BY <1>3 DEF ServedAt
<1> QED BY <1>3, <1>4, <1>5, ServesAfter

LEMMA NextServes == Inv /\ Copying /\ Filling /\ Serving /\ [Next]_vars => Serving'
<1> SUFFICES ASSUME Inv, Copying, Filling, Serving, [Next]_vars PROVE Serving'
  OBVIOUS
<1>0. UNCHANGED kind /\ Given'
  BY KindKept, NextGiven DEF Serving
<1>1. CASE \E p \in Procs : BeginRepair(p)
  BY <1>0, <1>1, SameBetter, ServeStill DEF BeginRepair, Begin
<1>2. CASE \E p \in Procs : Repairs(p)
  <2>1. PICK p \in Procs : Repairs(p)
    BY <1>2
  <2>2. UNCHANGED put /\ RepairStep(p)
    BY <2>1 DEF Repairs
  <2>3. CASE goal' = NoGoal
    BY <1>0, <2>3, ServeOver
  <2>4. CASE goal' # NoGoal
    <3>1. goal' = goal /\ ~(fix[p].pc = "chown" /\ ~fix[p].gid)
      BY <2>1, <2>4 DEF Repairs
    <3>2. goal.calm /\ goal.tidy => Better /\ UNCHANGED kids
      BY <2>2, <3>1, RepairBetter DEF Serving
    <3>3. CASE goal.calm /\ goal.tidy
      BY <1>0, <2>2, <3>1, <3>2, <3>3, ServeStill
    <3>4. CASE ~(goal.calm /\ goal.tidy)
      BY <1>0, <3>1, <3>4 DEF Serving
    <3> QED BY <3>3, <3>4
  <2> QED BY <2>3, <2>4
<1>3. CASE BeginPut
  BY <1>0, <1>3, BeginServes
<1>4. CASE Puts
  BY <1>0, <1>4, PutServes DEF Puts, GoalAfter
<1>5. CASE Shell
  BY <1>0, <1>5, ServeOver DEF Shell
<1>6. CASE Crash
  BY <1>0, <1>6, SameBetter, ServeStill DEF Crash, Kill
<1>7. CASE UNCHANGED vars
  BY <1>0, <1>7, SameBetter, ServeStill DEF vars
<1>8. CASE \E p \in Procs : Fails(p) \/ Blocks(p)
  BY <1>0, <1>8, AsideSame, SameBetter, ServeStill
<1> QED BY <1>1, <1>2, <1>3, <1>4, <1>5, <1>6, <1>7, <1>8 DEF Next

\* Where everything is that a put in an orderly cubby has made, and that the daemon can
\* use it.
THEOREM ServeInvariance == Spec => [](Inv /\ Copying /\ Filling /\ Serving)
<1>1. Init => Serving
  <2> SUFFICES ASSUME Init PROVE Serving
    OBVIOUS
  <2>1. ~goal.calm
    BY DEF Init, NoGoal
  <2> QED BY <2>1, InitGiven DEF Serving
<1>2. (Inv /\ Copying /\ Filling /\ Serving) /\ [Next]_vars => Serving'
  BY NextServes
<1> QED BY <1>1, <1>2, FillInvariance, PTL DEF Spec

\* In a cubby whose directories all have the cubby's group and mode, the daemon can list,
\* extend and serve whatever a put adds, for any tree, source and destination and any
\* number of repairs meanwhile: every directory hands on its group and setgid bit, and no
\* item replaces what an earlier one made.
THEOREM PutServedHolds == Spec => PutServed
<1> DEFINE A == PutEnds /\ goal.tidy => \A o \in put.made \cup (fresh \ fresh') : o \in Reach' /\ (o \in Dirs => Proper(o)')
<1>1. Inv /\ Copying /\ Filling /\ Serving /\ [Next]_vars => [A]_vars
  <2> SUFFICES ASSUME Inv, Copying, Filling, Serving, [Next]_vars, PutEnds, goal.tidy, NEW o \in put.made \cup (fresh \ fresh')
               PROVE  o \in Reach' /\ (o \in Dirs => Proper(o)')
    OBVIOUS
  <2>1. goal.calm /\ put.pc = "work" /\ put'.ok /\ ~put.ok
    BY DEF PutEnds, Filling
  <2>2. PutStep /\ put' # NoPut
    <3>1. put' # put
      BY <2>1
    <3>2. put' # NoPut
      BY <2>1 DEF NoPut
    <3>3. ~BeginPut
      BY <2>1 DEF BeginPut, PutBegin
    <3> QED BY <3>1, <3>2, <3>3 DEF Next, BeginRepair, Repairs, Fails, Blocks, Puts, Shell, Crash, vars
  <2>3. PICK L : L = put.todo
    OBVIOUS
  <2>4. StepServes(L)
    BY <2>1, <2>2, <2>3, WorkServes
  <2>5. PICK m \in SUBSET Objects, items \in Seq(Items) :
          /\ put.made \cup (fresh \ fresh') \subseteq m
          /\ Root' = Root /\ Orderly' /\ ServedAt(items \o Tail(L), m)'
    BY <2>4 DEF StepServes
  <2>6. o \in Dirs \cup Files
    BY <2>5 DEF ServedAt
  <2>7. PICK to \in Seq(Names) : Leads(In(to), o)' /\ (o \in Files => Legible(o)')
    BY <2>5 DEF ServedAt
  <2>8. Root' \in Dirs
    BY <2>1, <2>5 DEF Copying, CopyAt
  <2>9. attr'[Parent] = Layout'
    BY NextGiven DEF Serving, Given
  <2> QED BY <2>5, <2>6, <2>7, <2>8, <2>9, LeadsReachNext DEF LeadsReached
<1> QED BY <1>1, ServeInvariance, PTL DEF Spec, PutServed

-----------------------------------------------------------------------------
(* What a repair changes *)

\* In users/, which is not the owner's, a cubby that is there stays: what MkdirOwner has
\* opened and is about to chown is the cubby still.
Chowning == \A p \in Procs : fix[p].pc = "chown" => fix[p].fd = Root

LEMMA RootStays ==
  ASSUME Inv, Given, Next, kind = "users", Root # Nil
  PROVE  Root' = Root
<1>1. ~Writes(Parent) /\ kids \in [Dirs -> [Names -> Theirs \cup {Nil}]]
  BY DEF Given, Layout, Writes, Inv, Entries
<1>2. CASE UNCHANGED kids
  BY <1>2 DEF Root
<1>3. ASSUME NEW p \in Procs, RepairStep(p) PROVE UNCHANGED kids
  BY <1>3, RepairEntries
<1>4. ASSUME NEW d, NEW n, NEW v, d # Parent, kids' = [kids EXCEPT ![d][n] = v] PROVE Root' = Root
  BY <1>1, <1>4, Constants DEF Root
<1>5. CASE Puts
  <2>1. CASE FindCubby \/ CopySetgid \/ CheckCubby \/ OpenRoot \/ StatDir \/ PutSource \/ CopyInto \/ CopyDir
    BY <1>2, <2>1 DEF FindCubby, CopySetgid, CheckCubby, OpenRoot, StatDir, PutSource, CopyInto, CopyDir
  <2>2. CASE \E d \in Dirs : MakeCubby(d)
    BY <1>2, <2>2 DEF MakeCubby
  <2>3. CASE (\E d \in Dirs : MkdirExistOK(d)) \/ (\E f \in Files : CopyFile(f))
    <3>1. PICK d, n : d = Dest /\ n = Last(it.to)
      OBVIOUS
    <3>2. UNCHANGED kids \/ (Writes(d) /\ \E v : kids' = [kids EXCEPT ![d][n] = v])
      BY <2>3, <3>1 DEF MkdirExistOK, CopyFile
    <3>3. CASE Writes(d) /\ \E v : kids' = [kids EXCEPT ![d][n] = v]
      <4>1. d # Parent
        BY <1>1, <3>3
      <4> QED BY <1>4, <3>3, <4>1
    <3> QED BY <1>2, <3>2, <3>3
  <2> QED BY <1>5, <2>1, <2>2, <2>3 DEF Puts, PutStep
<1>6. CASE Shell
  <2>1. ASSUME NEW a \in Dirs, NEW b \in Dirs, NEW x \in Names, NEW y \in Names, Move(a, x, b, y)
        PROVE  Root' = Root
    <3>1. a # Parent /\ b # Parent /\ kids' = [kids EXCEPT ![a][x] = kids[b][y], ![b][y] = kids[a][x]]
      BY <1>1, <2>1 DEF Move, Exchange
    <3>2. kids'[Parent] = kids[Parent]
      BY <1>1, <3>1, Constants
    <3> QED BY <3>2 DEF Root
  <2>2. ASSUME NEW o, NEW m, Chmod(o, m) PROVE UNCHANGED kids
    BY <2>2 DEF Chmod
  <2> QED BY <1>2, <1>6, <2>1, <2>2 DEF Shell
<1>7. CASE BeginPut \/ Crash \/ \E p \in Procs : BeginRepair(p) \/ Fails(p) \/ Blocks(p)
  BY <1>2, <1>7, AsideSame DEF BeginPut, PutBegin, Crash, Kill, BeginRepair, Begin
<1> QED BY <1>2, <1>3, <1>5, <1>6, <1>7 DEF Next, Repairs

\* Only the openat of the cubby comes before its Fchown.
LEMMA ChownAfterOpen ==
  ASSUME Inv, NEW p \in Procs, RepairStep(p), fix'[p].pc = "chown"
  PROVE  fix'[p].fd = Root /\ UNCHANGED kids
<1>1. PICK r, q : r = fix[p] /\ q = fix'[p] /\ r \in Fix /\ q.pc = "chown" /\ q # NoFix
  BY NoFixFacts DEF Inv, Repairers
<1>2. Shared
  BY InvShared
<1>3. CASE OpenCubby(p)
  <2>1. fix'[p] = [r EXCEPT !.pc = "chown", !.fd = Root] /\ UNCHANGED kids
    BY <1>1, <1>3 DEF OpenCubby, Inv, Repairers
  <2> QED BY <1>1, <2>1 DEF Fix
<1>4. CASE Check(p) \/ (\E d \in Dirs : Mkdirat(p, d)) \/ ChownCubby(p) \/ ChownFails(p)
  <2>1. q = NoFix \/ \E pc \in {"mkdirat", "openat", "chmod"} : GoesTo(r, q, pc)
    BY <1>1, <1>2, <1>4, GotoFacts DEF Check, Mkdirat, ChownCubby, ChownFails, End, Inv, Repairers
  <2> QED BY <1>1, <2>1 DEF GoesTo
<1>5. CASE ChmodCubby(p) \/ Open(p) \/ Descend(p)
  <2>1. q = NoFix \/ q.pc \in {"open", "fix", "path"}
    BY <1>1, <1>2, <1>5, ChmodCubbyFacts, OpenFacts, DescendFacts
  <2> QED BY <1>1, <2>1
<1>6. CASE List(p) \/ Up(p)
  <2>1. q = NoFix \/ q.pc = "children"
    BY <1>1, <1>2, <1>6, ListFacts, UpFacts DEF ListsTo, UpTo
  <2> QED BY <1>1, <2>1
<1>7. CASE \E e \in [name : Names, dir : BOOLEAN] : Visit(p, e)
  <2>1. q.pc \in {"fix", "children"}
    BY <1>1, <1>2, <1>7, VisitFacts DEF VisitsTo, Found
  <2> QED BY <1>1, <2>1
<1>8. CASE (FixFD(p) /\ r.fd \in Dirs) \/ ChmodFile(p)
  <2>1. q = After(r)
    BY <1>1, <1>8 DEF FixFD, ChmodFile, Inv, Repairers
  <2>2. q = NoFix \/ q.pc \in {"path", "list", "children"}
    BY <1>1, <2>1, AfterFacts DEF GoesTo
  <2> QED BY <1>1, <2>2
<1>9. CASE FixFD(p) /\ r.fd \notin Dirs
  <2>1. q.pc = "perm"
    BY <1>1, <1>9 DEF FixFD, Inv, Repairers, Fix
  <2> QED BY <1>1, <2>1
<1> QED BY <1>3, <1>4, <1>5, <1>6, <1>7, <1>8, <1>9, <1>1 DEF RepairStep

LEMMA NextChowning == Inv /\ Given /\ Chowning /\ [Next]_vars => Chowning'
<1> SUFFICES ASSUME Inv, Given, Chowning, [Next]_vars, NEW q \in Procs, fix'[q].pc = "chown"
             PROVE  fix'[q].fd = Root'
  BY DEF Chowning
<1>1. ASSUME fix'[q] = fix[q], Next PROVE fix'[q].fd = Root'
  <2>1. fix[q].fd = Root /\ fix[q].pc = "chown"
    BY <1>1 DEF Chowning
  <2>2. kind = "users" /\ Root # Nil
    BY <2>1 DEF Given, Steady, Inv, Repairers, Handy, Holding
  <2> QED BY <1>1, <2>1, <2>2, RootStays
<1>2. CASE UNCHANGED vars
  BY <1>2 DEF vars, Chowning, Root
<1>3. ASSUME NEW p \in Procs, BeginRepair(p), Next PROVE fix'[q] = fix[q]
  <2>1. fix'[p].pc \in {"open", "check", "mkdirat"} /\ \A u \in Procs \ {p} : fix'[u] = fix[u]
    BY <1>3 DEF BeginRepair, Begin, NoFix, Inv, Repairers
  <2> QED BY <2>1
<1>4. ASSUME NEW p \in Procs, Repairs(p), Next PROVE fix'[q].fd = Root'
  <2>1. RepairStep(p) /\ \A u \in Procs \ {p} : fix'[u] = fix[u]
    BY <1>4, InvShared, OwnStep DEF Repairs
  <2>2. CASE q = p
    BY <2>1, <2>2, ChownAfterOpen DEF Root
  <2> QED BY <1>1, <1>4, <2>1, <2>2
<1>5. ASSUME NEW p \in Procs, Fails(p), Next PROVE fix'[q] = fix[q]
  <2>1. PICK r, v : r = fix[p] /\ v = fix'[p] /\ r \in Fix
    BY DEF Inv, Repairers
  <2>2. /\ \A u \in Procs \ {p} : fix'[u] = fix[u]
        /\ v = NoFix \/ v = PermNext(r) \/ v = After(r)
    BY <1>5, <2>1, InvShared, CallFailsFacts DEF Fails, Inv, Repairers
  <2>3. v.pc # "chown"
    <3>1. PermNext(r).pc = "perm"
      BY <2>1 DEF PermNext, Fix
    <3>2. After(r) = NoFix \/ After(r).pc \in {"path", "list", "children"}
      BY <2>1, AfterFacts DEF GoesTo
    <3> QED BY <2>2, <3>1, <3>2, NoFixFacts
  <2> QED BY <2>1, <2>2, <2>3
<1>6. ASSUME BeginPut \/ Puts \/ Shell \/ \E p \in Procs : Blocks(p) PROVE fix'[q] = fix[q]
  BY <1>6 DEF BeginPut, Puts, Shell, Blocks, Block
<1>7. ASSUME Crash PROVE fix'[q] = fix[q]
  <2>1. fix'[q] = NoFix \/ fix'[q] = fix[q]
    BY <1>7 DEF Crash, Kill
  <2> QED BY <2>1, NoFixFacts
<1> QED BY <1>1, <1>2, <1>3, <1>4, <1>5, <1>6, <1>7 DEF Next

\* A step of a repair changes a cubby it makes, or what it has open, and the owner of that
\* only by the Fchown of MkdirOwner.
LEMMA RepairTouches ==
  ASSUME Inv, NEW p \in Procs, RepairStep(p), NEW o \in Objects, attr'[o] # attr[o]
  PROVE  \/ o \in Dirs /\ o = Root'
         \/ /\ UNCHANGED kids /\ fix[p].pc \in Holding /\ o = fix[p].fd
            /\ fix[p].pc # "chown" => attr'[o].own = attr[o].own
<1>1. attr \in [Objects -> Attr] /\ attr[o] \in Attr
  BY DEF Inv, Attributes
<1>2. CASE \E d \in Dirs : Mkdirat(p, d)
  <2>1. PICK d \in Dirs : kids' = [kids EXCEPT ![Parent][Cubby] = d] /\ \E v : attr' = [attr EXCEPT ![d] = v]
    BY <1>2 DEF Mkdirat
  <2>2. o = d
    BY <1>1, <2>1
  <2>3. Root' = d
    BY <2>1, Constants DEF Root, Inv, Entries
  <2> QED BY <2>2, <2>3
<1>3. CASE Check(p) \/ OpenCubby(p) \/ ChownFails(p) \/ Open(p) \/ Descend(p) \/ List(p) \/ Up(p)
  BY <1>3 DEF Check, OpenCubby, ChownFails, Open, Descend, List, Up
<1>4. CASE \E e \in [name : Names, dir : BOOLEAN] : Visit(p, e)
  BY <1>4 DEF Visit
<1>5. PICK x : x = fix[p].fd
  OBVIOUS
<1>6. CASE ChownCubby(p)
  <2>1. attr' = [attr EXCEPT ![x].own = "user", ![x].grp = fix[p].gid] /\ UNCHANGED kids /\ fix[p].pc = "chown"
    BY <1>5, <1>6 DEF ChownCubby, At
  <2>2. o = x
    BY <1>1, <2>1
  <2> QED BY <1>5, <2>1, <2>2 DEF Holding
<1>7. ASSUME NEW m, attr' = [attr EXCEPT ![x].mode = m] PROVE o = x /\ attr'[o].own = attr[o].own
  <2>1. o = x /\ attr'[o] = [attr[o] EXCEPT !.mode = m]
    BY <1>1, <1>7
  <2> QED BY <1>1, <2>1 DEF Attr
<1>8. ASSUME NEW g, attr' = [attr EXCEPT ![x].grp = g] PROVE o = x /\ attr'[o].own = attr[o].own
  <2>1. o = x /\ attr'[o] = [attr[o] EXCEPT !.grp = g]
    BY <1>1, <1>8
  <2> QED BY <1>1, <2>1 DEF Attr
<1>9. CASE ChmodCubby(p) \/ ChmodFile(p)
  <2>1. /\ UNCHANGED kids /\ fix[p].pc \in {"chmod", "perm"}
        /\ \E m : attr' = [attr EXCEPT ![x].mode = m]
    BY <1>5, <1>9 DEF ChmodCubby, ChmodFile, At
  <2> QED BY <1>5, <1>7, <2>1 DEF Holding
<1>10. CASE FixFD(p)
  <2>1. /\ UNCHANGED kids /\ fix[p].pc = "fix"
        /\ (\E m : attr' = [attr EXCEPT ![x].mode = m]) \/ (\E g : attr' = [attr EXCEPT ![x].grp = g])
    BY <1>5, <1>10 DEF FixFD, At
  <2> QED BY <1>5, <1>7, <1>8, <2>1 DEF Holding
<1> QED BY <1>2, <1>3, <1>4, <1>6, <1>9, <1>10 DEF RepairStep

RootIn == Root \in Dirs => Root \in Inside

LEMMA RootInNow == RootIn
BY RootInside DEF RootIn

LEMMA RootInNext == RootIn'
BY RootInNow, PTL

\* For any tree and any number of repairs, wherever the owner moves directories and links
\* meanwhile: fixCubbyFD and MkdirOwner never change the directories around the cubby nor
\* what only a link leads to, and the owner of nothing but the cubby itself; and a repair
\* that nobody disturbs changes nothing that is not in the cubby.  Every descriptor came
\* from an openat of an entry (Inv), in the cubby while the tree stays (Calm), and the
\* one that is chowned is the cubby's (Chowning).
THEOREM RepairLocalHolds == Spec => RepairLocal
<1> DEFINE A == \A p \in Procs, o \in Objects : Repairs(p) /\ attr'[o] # attr[o] =>
                  /\ o \notin Tops \cup Fixed
                  /\ attr'[o].own # attr[o].own => o = Root'
                  /\ since[p].calm /\ fix[p].gid => o \in Inside'
           I == Inv /\ Calm /\ Given /\ Chowning
<1>1. Init => I
  <2>1. Init => Chowning
    BY NoFixFacts DEF Init, RepairInit, Chowning
  <2> QED BY <2>1, InitInv, InitCalm, InitGiven
<1>2. I /\ [Next]_vars => I'
  BY InvStep, NextCalm, NextGiven, NextChowning
<1>3. I /\ [Next]_vars => [A]_vars
  <2> SUFFICES ASSUME I, [Next]_vars, NEW p \in Procs, NEW o \in Objects, Repairs(p), attr'[o] # attr[o]
               PROVE  /\ o \notin Tops \cup Fixed
                      /\ attr'[o].own # attr[o].own => o = Root'
                      /\ since[p].calm /\ fix[p].gid => o \in Inside'
    OBVIOUS
  <2>1. RepairStep(p) /\ Kept
    BY NextInv DEF Repairs, Next
  <2>2. o \notin Tops \cup Fixed
    BY <2>1 DEF Kept
  <2>3. CASE o \in Dirs /\ o = Root'
    BY <2>2, <2>3, RootInNext DEF RootIn
  <2>4. CASE /\ UNCHANGED kids /\ fix[p].pc \in Holding /\ o = fix[p].fd
             /\ fix[p].pc # "chown" => attr'[o].own = attr[o].own
    <3>1. Inside' = Inside /\ Root' = Root
      BY <2>4, SameTree
    <3>2. since[p].calm /\ fix[p].gid => o \in Inside
      BY <2>4 DEF Calm, Held
    <3>3. fix[p].pc = "chown" => o = Root
      BY <2>4 DEF Chowning
    <3> QED BY <2>2, <2>4, <3>1, <3>2, <3>3
  <2> QED BY <2>1, <2>3, <2>4, RepairTouches
<1> QED BY <1>1, <1>2, <1>3, PTL DEF Spec, RepairLocal
===============================================================================
