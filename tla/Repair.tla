-------------------------------- MODULE Repair --------------------------------
(***************************************************************************)
(* How a cubby gets and keeps its owner, group and mode: MkdirOwner behind *)
(* login, start and `bootstash mkdir`, and prepareExistingCubby, which     *)
(* walks down from the cubby with one openat per name and repairs what it  *)
(* opens, at start, on SIGHUP and on every GET of /home/.                  *)
(***************************************************************************)
EXTENDS Access, Sequences

CONSTANTS
  Procs,         \* goroutines and commands that repair
  Rels,          \* paths below the cubby of GET requests
  Fifos          \* of Links, which lead out: those that are FIFOs instead

ASSUME RepairAssumption == Rels \subseteq Seq(Names) /\ Fifos \subseteq Links

VARIABLES
  fix,     \* what each of them is doing
  stuck    \* who waits in the openat of a FIFO for its writer

\* gid: the group was found.  rel: what is left of the path.  fd: the descriptor being
\* repaired; deep: its children are next.  perm: the mode of the first Fstat.
\* stack: the directories being listed, with the entries not visited yet.
NoFix == [op |-> "none", pc |-> "idle", gid |-> TRUE, rel |-> << >>, fd |-> Nil,
          deep |-> FALSE, perm |-> {}, stack |-> << >>]

RepairInit == fix = [p \in Procs |-> NoFix] /\ stuck = {}

Who(p) == IF fix[p].op = "mkdir" THEN "root" ELSE "daemon"

\* Process p goes on at pc.
Goto(p, pc) == fix' = [fix EXCEPT ![p].pc = pc]

End(p) == fix' = [fix EXCEPT ![p] = NoFix]

At(p, pc) == fix[p].pc = pc /\ p \notin stuck /\ UNCHANGED <<kind, stuck>>

\* "start" is fixCubbies for one name, at start and on SIGHUP; "read" prepareSessionCubby
\* of a GET; "login" the cubby of a password login; "mkdir" gives up when the group is unknown.
Begin(p, op, rel, gid) ==
  /\ fix[p].pc = "idle"
  /\ op # "read" => rel = << >>
  /\ op \in {"login", "mkdir"} => kind = "users"
  /\ op = "mkdir" => gid
  /\ fix' = [fix EXCEPT ![p] = [NoFix EXCEPT !.op = op, !.rel = rel, !.gid = gid,
       !.pc = CASE kind = "home" -> "open" [] op = "mkdir" -> "check" [] OTHER -> "mkdirat"]]
  /\ UNCHANGED <<kids, kind, attr, fresh, stuck>>

-----------------------------------------------------------------------------
(* MkdirOwner *)

\* mkdirUser: what is there must be a directory of the user.
Check(p) ==
  /\ At(p, "check")
  /\ IF Root = Nil \/ (Root \in Dirs /\ attr[Root].own = "user") THEN Goto(p, "mkdirat")
     ELSE End(p)
  /\ UNCHANGED <<kids, attr, fresh>>

\* Mkdirat 0770 less the umask, 007 of the daemon or 022 of root; EEXIST is fine.
Mkdirat(p, d) ==
  /\ At(p, "mkdirat")
  /\ Goto(p, "openat")
  /\ IF Root = Nil
       THEN /\ d \in Fresh(Dirs)
            /\ fresh' = fresh \ {d}
            /\ kids' = [kids EXCEPT ![Parent][Cubby] = d]
            /\ attr' = [attr EXCEPT ![d] = MadeDir(Who(p), Parent,
                 IF Who(p) = "root" THEN Mode0770 \ {"gw"} ELSE Mode0770)]
       ELSE UNCHANGED <<kids, attr, fresh>>

OpenCubby(p) ==
  /\ At(p, "openat")
  /\ fix' = [fix EXCEPT ![p] =
       IF Opens(Who(p), Parent, Root, TRUE) THEN [fix[p] EXCEPT !.pc = "chown", !.fd = Root] ELSE NoFix]
  /\ UNCHANGED <<kids, attr, fresh>>

\* Fchown to the user and UNIX_GROUP, or the user's own group when that is unknown.
ChownCubby(p) ==
  /\ At(p, "chown")
  /\ attr' = [attr EXCEPT ![fix[p].fd].own = "user", ![fix[p].fd].grp = fix[p].gid]
  /\ Goto(p, "chmod")
  /\ UNCHANGED <<kids, fresh>>

\* The account is unknown, or Fchown fails: only logged.
ChownFails(p) == At(p, "chown") /\ Goto(p, "chmod") /\ UNCHANGED <<kids, attr, fresh>>

ChmodCubby(p) ==
  /\ At(p, "chmod")
  /\ attr' = [attr EXCEPT ![fix[p].fd].mode = CubbyMode]
  /\ IF fix[p].op \in {"login", "mkdir"} THEN End(p)
     ELSE fix' = [fix EXCEPT ![p].pc = "open", ![p].fd = Nil]
  /\ UNCHANGED <<kids, fresh>>

-----------------------------------------------------------------------------
(* prepareExistingCubby *)

\* Lstat and the Openat of the cubby.
Open(p) ==
  /\ At(p, "open")
  /\ fix' = [fix EXCEPT ![p] =
       IF Opens("daemon", Parent, Root, TRUE)
         THEN [fix[p] EXCEPT !.fd = Root, !.deep = TRUE, !.pc = IF fix[p].rel = << >> THEN "fix" ELSE "path"]
         ELSE NoFix]
  /\ UNCHANGED <<kids, attr, fresh>>

\* Mutant: the Openat follows links.
OpenedFollowing(d, n, dir) ==
  LET o == IF kids[d][n] \in Links THEN CHOOSE f \in Fixed : TRUE ELSE kids[d][n]
  IN  IF Opens("daemon", d, o, dir) THEN o ELSE Nil

\* Openat of a name in d without following a link; Nil is an error, or a FIFO that somebody
\* writes to, which is neither directory nor file to fixCubbyFD.
Opened(d, n, dir) == IF Opens("daemon", d, kids[d][n], dir) THEN kids[d][n] ELSE Nil

\* The next component of the path.
Descend(p) ==
  LET r == fix[p]
      o == Opened(r.fd, Head(r.rel), FALSE) IN
  /\ At(p, "path")
  /\ fix' = [fix EXCEPT ![p] = IF r.fd \in Dirs /\ o # Nil
       THEN [r EXCEPT !.fd = o, !.rel = Tail(r.rel), !.pc = "fix"] ELSE NoFix]
  /\ UNCHANGED <<kids, attr, fresh>>

\* What follows once r.fd is repaired.
After(r) ==
  IF r.rel # << >> THEN [r EXCEPT !.pc = "path"]
  ELSE IF r.deep /\ r.fd \in Dirs THEN [r EXCEPT !.pc = "list"]
  ELSE IF r.stack # << >> THEN [r EXCEPT !.pc = "children"]
  ELSE NoFix

\* Mutant: the Fchown is missing.
GroupLeft(grp, gid) == grp

\* The Fchown of a file, left out when the group is unknown.
Group(grp, gid) == grp \/ gid

\* fixCubbyFD: the mode of a directory, or the group of a file.
FixFD(p) ==
  LET r == fix[p] IN
  /\ At(p, "fix")
  /\ IF r.fd \in Dirs
       THEN /\ attr' = [attr EXCEPT ![r.fd].mode = CubbyMode]
            /\ fix' = [fix EXCEPT ![p] = After(@)]
       ELSE /\ attr' = [attr EXCEPT ![r.fd].grp = Group(@, r.gid)]
            /\ fix' = [fix EXCEPT ![p].pc = "perm", ![p].perm = attr[r.fd].mode \ {"sg"}]
  /\ UNCHANGED <<kids, fresh>>

Want(perm) == (perm \cup {"gr"} \cup (IF "ux" \in perm THEN {"gx"} ELSE {})) \ {"o"}

\* fixCubbyFD: the Fchmod of a file, from the mode of the Fstat before.
ChmodFile(p) ==
  LET r == fix[p] IN
  /\ At(p, "perm")
  /\ attr' = [attr EXCEPT ![r.fd].mode = Want(r.perm)]
  /\ fix' = [fix EXCEPT ![p] = After(@)]
  /\ UNCHANGED <<kids, fresh>>

\* Mutant: only the files of a directory.
EntriesFiles(d) == {[name |-> n, dir |-> FALSE] : n \in {m \in Names : kids[d][m] \in Files}}

\* Entries as ReadDir has them, without links.
EntriesOf(d) ==
  {[name |-> n, dir |-> kids[d][n] \in Dirs] :
     n \in {m \in Names : kids[d][m] \in Dirs \cup Files \cup Fifos}}

\* fixCubbyDirChildren: ReadDir.
List(p) ==
  /\ At(p, "list")
  /\ fix' = [fix EXCEPT ![p].pc = "children",
       ![p].stack = <<[fd |-> fix[p].fd, left |-> EntriesOf(fix[p].fd)]>> \o @]
  /\ UNCHANGED <<kids, attr, fresh>>

\* Mutant: an entry that cannot be opened is tried again.
LeftAfterRetry(left, e, o) == IF o = Nil THEN left ELSE left \ {e}

\* Each entry is opened once: an error goes on to the next.
LeftAfter(left, e, o) == left \ {e}

\* The next entry, in the order ReadDir gave: it is opened, repaired and, if it was a
\* directory, listed.
Visit(p, e) ==
  LET top == Head(fix[p].stack)
      o == Opened(top.fd, e.name, e.dir) IN
  /\ At(p, "children")
  /\ e \in top.left
  /\ fix' = [fix EXCEPT ![p].stack[1].left = LeftAfter(@, e, o),
                        ![p].pc = IF o = Nil THEN "children" ELSE "fix",
                        ![p].fd = IF o = Nil THEN @ ELSE o,
                        ![p].deep = e.dir]
  /\ UNCHANGED <<kids, attr, fresh>>

\* All entries of the directory are visited.
Up(p) ==
  LET r == fix[p] IN
  /\ At(p, "children")
  /\ Head(r.stack).left = {}
  /\ fix' = [fix EXCEPT ![p] = IF Tail(r.stack) = << >> THEN NoFix
                               ELSE [r EXCEPT !.stack = Tail(r.stack)]]
  /\ UNCHANGED <<kids, attr, fresh>>

\* The openat of a FIFO that nobody writes to does not return: there is no O_NONBLOCK.
Block(p, d, n) ==
  /\ \/ fix[p].pc = "path" /\ d = fix[p].fd /\ n = Head(fix[p].rel)
     \/ /\ fix[p].pc = "children" /\ d = Head(fix[p].stack).fd
        /\ [name |-> n, dir |-> FALSE] \in Head(fix[p].stack).left
  /\ kids[d][n] \in Fifos
  /\ Searches("daemon", d) /\ Reads("daemon", kids[d][n])
  /\ p \notin stuck
  /\ stuck' = stuck \cup {p}
  /\ UNCHANGED <<kids, kind, attr, fresh, fix>>

\* An Fchown or Fchmod fails: MkdirOwner returns the error of its Fchmod, fixCubbyFD only
\* logs and goes on.
CallFails(p) ==
  LET r == fix[p] IN
  /\ r.pc \in {"chmod", "fix", "perm"}
  /\ fix' = [fix EXCEPT ![p] =
       IF r.pc = "chmod" THEN NoFix
       ELSE IF r.pc = "fix" /\ r.fd \notin Dirs
         THEN [r EXCEPT !.pc = "perm", !.perm = attr[r.fd].mode \ {"sg"}]
       ELSE After(r)]
  /\ UNCHANGED <<kids, kind, attr, fresh, stuck>>

\* The daemon is killed, or the command.
Kill(who) ==
  /\ \E p \in Procs : Who(p) = who /\ fix[p].pc # "idle"
  /\ fix' = [p \in Procs |-> IF Who(p) = who THEN NoFix ELSE fix[p]]
  /\ stuck' = {p \in stuck : Who(p) # who}
  /\ UNCHANGED <<kids, kind, attr, fresh>>

RepairStep(p) ==
  \/ Check(p) \/ (\E d \in Dirs : Mkdirat(p, d)) \/ OpenCubby(p)
  \/ ChownCubby(p) \/ ChownFails(p) \/ ChmodCubby(p)
  \/ Open(p) \/ Descend(p) \/ FixFD(p) \/ ChmodFile(p) \/ List(p) \/ Up(p)
  \/ \E e \in [name : Names, dir : BOOLEAN] : Visit(p, e)
===============================================================================
