--------------------------------- MODULE Jail ---------------------------------
(***************************************************************************)
(* internal/jail and the handlers of /home/ in internal/web/files.go: GET, *)
(* PUT and POST, mkdir and DELETE under one cubby.  A path is walked one   *)
(* component and one openat at a time, while other requests and the        *)
(* cubby's owner, who has a shell, change the tree.                        *)
(*                                                                         *)
(* The kernel is modelled by what the system calls do to the tree.  The    *)
(* owner moves own objects anywhere, into the directory around the cubby   *)
(* too, but neither the cubby itself, nor files of others, nor the         *)
(* temporary files of an upload.                                           *)
(***************************************************************************)
EXTENDS Tree, Naturals, Sequences, SequencesExt, FiniteSets

CONSTANTS
  Workers,       \* requests in flight
  Ops,           \* kinds of request: "get", "put", "mkdir", "delete"
  Paths,         \* request paths, as sequences of names and ".."
  Root,          \* the cubby
  Outside,       \* the directory around it
  Secret,        \* a file of somebody else in Outside
  Target,        \* what each link holds: [abs, path]
  Starts,        \* trees to start from: the entries of each directory
  MaxSymlinks    \* maxSymlinks

ASSUME JailAssumption ==
  /\ Tops = {Root, Outside} /\ Root # Outside
  /\ Fixed = {Secret} /\ Secret \in Files
  /\ Paths \subseteq Seq(Names \cup {".."})
  /\ Target \in [Links -> [abs : BOOLEAN, path : Seq(Names \cup {".."})]]
  /\ Starts \subseteq [Dirs -> [Names -> (Objects \cup {Nil}) \ Tops]]
  /\ \A s \in Starts : {d \in Dirs : \E n \in Names : s[d][n] = Secret} = {Outside}
  /\ MaxSymlinks \in Nat \ {0}

VARIABLES
  body,    \* what each file holds: a complete body, or the start of one
  req,     \* what each request is doing
  killed   \* history: temporary names of uploads that were killed

vars == <<kids, body, req, killed>>

\* rel: the components of the path.  parts, i, fd, hops: walk, at component i with
\* directory descriptor fd, after hops links.  then: what the descriptor is for.
Idle == [op |-> "none", rel |-> << >>, pc |-> "idle", then |-> "none", parts |-> << >>,
         i |-> 1, fd |-> Root, hops |-> 0, new |-> Nil, tmp |-> Nil, dir |-> FALSE]

Init ==
  /\ \E s \in Starts : kids = [d \in Dirs |-> [n \in Slots |-> IF n \in Names THEN s[d][n] ELSE Nil]]
  /\ body = [f \in Files |-> "whole"]
  /\ req = [w \in Workers |-> Idle]
  /\ killed = {}

-----------------------------------------------------------------------------
(* The kernel's tree *)

\* What openat finds; ".." is the directory that holds d now.
Child(d, n) ==
  IF n = ".."
    THEN IF d = Root \/ Holders(d) = {} THEN Outside ELSE CHOOSE p \in Dirs : p \in Holders(d)
    ELSE kids[d][n]

\* Objects that no entry and no descriptor names.
Free(S) ==
  {o \in S \ Tops :
     Holders(o) = {} /\ \A w \in Workers : o \notin {req[w].fd, req[w].new}}

\* The owner moves an object, or exchanges two.
Owner(a, x, b, y) ==
  /\ Exchange(a, x, b, y)
  /\ UNCHANGED <<body, req, killed>>

-----------------------------------------------------------------------------
(* Walking a path *)

\* One step of components: ".." takes the last name back, or leaves the jail.
Push(c, n) ==
  IF ~c.ok THEN c
  ELSE IF n # ".." THEN [c EXCEPT !.parts = Append(c.parts, n)]
  ELSE IF c.parts = << >> THEN [c EXCEPT !.ok = FALSE]
  ELSE [c EXCEPT !.parts = Front(c.parts)]

Start == [ok |-> TRUE, parts |-> << >>]

Components(rel) ==
  LET after[k \in 0..Len(rel)] == IF k = 0 THEN Start ELSE Push(after[k - 1], rel[k])
  IN  after[Len(rel)]

\* Mutant: the target is taken from the root of the jail.
JoinAtRoot(base, target) == Components(target)

\* Mutant: ".." is left to the kernel.
JoinRaw(base, target) == [ok |-> TRUE, parts |-> base \o target]

JoinComponents(base, target) == Components(base \o target)

\* Calls that resolve the parent of the path and act on its last name.
Parents == {"tmp", "mkdir", "lstat"}

Name(r) == Last(r.rel)

\* resolve, from the root of the jail, for the purpose t.
Resolve(r, t) ==
  [r EXCEPT !.pc = "walk", !.then = t, !.i = 1, !.fd = Root, !.hops = 0,
            !.parts = IF t \in Parents THEN Front(r.rel) ELSE r.rel]

\* resolve has returned the descriptor.
Resolved(w, t) == req[w].pc = "walk" /\ req[w].i > Len(req[w].parts) /\ req[w].then = t

\* O_NOFOLLOW throughout; O_DIRECTORY except at the end of an Open.
Opens(r, o) ==
  \/ o \in Dirs
  \/ o \in Files /\ r.i = Len(r.parts) /\ r.then \notin Parents

\* One openat of walk.
Openat(w) ==
  LET r == req[w]
      o == Child(r.fd, r.parts[r.i]) IN
  /\ r.pc = "walk" /\ r.i <= Len(r.parts)
  /\ req' = [req EXCEPT ![w] = IF Opens(r, o) THEN [r EXCEPT !.fd = o, !.i = r.i + 1]
                               ELSE [r EXCEPT !.pc = "link"]]
  /\ UNCHANGED <<kids, body, killed>>

\* Mutant: links are followed without end, and counted.
TooManyNever(r) == FALSE

TooMany(r) == r.hops + 1 >= MaxSymlinks

\* Mutant: links are not counted.
AgainUncounted(r, parts) == [r EXCEPT !.pc = "walk", !.parts = parts, !.i = 1, !.fd = Root]

\* The next round of resolve.
Again(r, parts) ==
  [r EXCEPT !.pc = "walk", !.parts = parts, !.i = 1, !.fd = Root, !.hops = r.hops + 1]

\* The path after the link l at component i.
Joined(r, l) == JoinComponents(SubSeq(r.parts, 1, r.i - 1), Target[l].path)

\* What ends resolve with an error after a failed openat: no link there (by now), a link
\* that leads out, or too many.
Refused(r) ==
  LET l == Child(r.fd, r.parts[r.i]) IN
  l \notin Links \/ Target[l].abs \/ ~Joined(r, l).ok \/ TooMany(r)

\* openat has failed: isSymlinkAt, Readlinkat, and the walk again from the root, or the
\* error to the client.
Follow(w) ==
  LET r == req[w]
      l == Child(r.fd, r.parts[r.i]) IN
  /\ r.pc = "link"
  /\ req' = [req EXCEPT ![w] =
       IF Refused(r) THEN Idle
       ELSE Again(r, Joined(r, l).parts \o SubSeq(r.parts, r.i + 1, Len(r.parts)))]
  /\ UNCHANGED <<kids, body, killed>>

-----------------------------------------------------------------------------
(* Requests *)

\* The handler of op has the jail open and resolves the path, or its parent, for t.
Begin(w, op, path, t) ==
  /\ op \in Ops /\ req[w].pc = "idle"
  /\ Components(path).ok
  /\ req' = [req EXCEPT ![w] = Resolve([Idle EXCEPT !.op = op, !.rel = Components(path).parts], t)]
  /\ UNCHANGED <<kids, body, killed>>

\* Only a GET may name the cubby itself.
InCubby(path) == Components(path).parts # << >>

Get(w, path) == Begin(w, "get", path, "stat")

\* PUT of the path, or POST of a form to its parent.
Put(w, path) == InCubby(path) /\ Begin(w, "put", path, "tmp")

DoMkdir(w, path) == InCubby(path) /\ Begin(w, "mkdir", path, "mkdir")

Delete(w, path) == InCubby(path) /\ Begin(w, "delete", path, "lstat")

\* serveGet: the path is resolved again for the listing or the content.
Stat(w) ==
  /\ Resolved(w, "stat")
  /\ req' = [req EXCEPT ![w] = Resolve(@, IF req[w].fd \in Dirs THEN "list" ELSE "read")]
  /\ UNCHANGED <<kids, body, killed>>

Finish(w, t) ==
  Resolved(w, t) /\ req' = [req EXCEPT ![w] = Idle] /\ UNCHANGED <<kids, body, killed>>

\* The listing, or ErrNotDir when the path leads to a file by now.
List(w) == Finish(w, "list")

\* The content of the file, or a read error when it is a directory by now.
Serve(w) == Finish(w, "read")

\* The owner of what the path leads to by now is set; an error is only logged.
Chown(w) == Finish(w, "chown")

\* chownRel: no chown for an account that cannot be linked.
ChownRel(r) == {Resolve(r, "chown"), Idle}

\* Replace: the temporary file beside the destination.
CreateTemp(w, t, f) ==
  LET d == req[w].fd IN
  /\ Resolved(w, "tmp")
  /\ IF Linked(d)
       THEN /\ t \in Temps /\ \A e \in Dirs : kids[e][t] = Nil
            /\ f \in Free(Files)
            /\ kids' = [kids EXCEPT ![d][t] = f]
            /\ body' = [body EXCEPT ![f] = "partial"]
            /\ req' = [req EXCEPT ![w].pc = "copy", ![w].tmp = t, ![w].new = f]
       ELSE req' = [req EXCEPT ![w] = Idle] /\ UNCHANGED <<kids, body>>
  /\ UNCHANGED killed

\* io.Copy has read the body to its end.
Copy(w) ==
  /\ req[w].pc = "copy"
  /\ body' = [body EXCEPT ![req[w].new] = "whole"]
  /\ req' = [req EXCEPT ![w].pc = "rename"]
  /\ UNCHANGED <<kids, killed>>

\* Mutant: the temporary file stays.
AbandonTemp(w) == req' = [req EXCEPT ![w] = Idle] /\ UNCHANGED <<kids, body, killed>>

\* Replace fails: the deferred Unlinkat of the temporary file.
DropTemp(w) ==
  /\ kids' = [kids EXCEPT ![req[w].fd][req[w].tmp] = Nil]
  /\ req' = [req EXCEPT ![w] = Idle]
  /\ UNCHANGED <<body, killed>>

\* Mutant: the error of io.Copy is not looked at.
CopyIgnoringErrors(w) ==
  /\ req[w].pc = "copy"
  /\ req' = [req EXCEPT ![w].pc = "rename"]
  /\ UNCHANGED <<kids, body, killed>>

\* The client is gone, the body is over MAX_UPLOAD, or the disk is full.
CopyFails(w) == req[w].pc = "copy" /\ DropTemp(w)

\* Renameat over the destination, which is not a directory.
Rename(w) ==
  LET r == req[w] IN
  /\ r.pc = "rename"
  /\ kids[r.fd][Name(r)] \notin Dirs
  /\ kids' = [kids EXCEPT ![r.fd][Name(r)] = r.new, ![r.fd][r.tmp] = Nil]
  /\ \E next \in ChownRel(r) :
       req' = [req EXCEPT ![w] = [next EXCEPT !.new = Nil, !.tmp = Nil]]
  /\ UNCHANGED <<body, killed>>

\* chmod, close or rename fails.
RenameFails(w) == req[w].pc = "rename" /\ DropTemp(w)

\* Mkdirat.
Mkdir(w, d) ==
  LET r == req[w] IN
  /\ Resolved(w, "mkdir")
  /\ IF Linked(r.fd) /\ kids[r.fd][Name(r)] = Nil
       THEN /\ d \in Free(Dirs)
            /\ kids' = [kids EXCEPT ![r.fd][Name(r)] = d]
            /\ req' = [req EXCEPT ![w].pc = "setgid"]
       ELSE req' = [req EXCEPT ![w] = Idle] /\ UNCHANGED kids
  /\ UNCHANGED <<body, killed>>

\* keepSetgid looks the name up again; on Linux it changes nothing.
KeepSetgid(w) ==
  LET r == req[w] IN
  /\ r.pc = "setgid"
  /\ \E next \in ChownRel(r) :
       /\ kids[r.fd][Name(r)] \notin Dirs => next = Idle
       /\ req' = [req EXCEPT ![w] = next]
  /\ UNCHANGED <<kids, body, killed>>

\* Remove: Fstatat decides between file and directory.
Lstat(w) ==
  LET r == req[w]
      o == kids[r.fd][Name(r)] IN
  /\ Resolved(w, "lstat")
  /\ req' = [req EXCEPT ![w] = IF o = Nil THEN Idle
                               ELSE [r EXCEPT !.pc = "unlink", !.dir = o \in Dirs]]
  /\ UNCHANGED <<kids, body, killed>>

\* Unlinkat: of a file or link, or of an empty directory.
Unlink(w) ==
  LET r == req[w]
      o == kids[r.fd][Name(r)] IN
  /\ r.pc = "unlink"
  /\ kids' = IF /\ o # Nil /\ (o \in Dirs) = r.dir
                /\ o \in Dirs => \A n \in Slots : kids[o][n] = Nil
             THEN [kids EXCEPT ![r.fd][Name(r)] = Nil]
             ELSE kids
  /\ req' = [req EXCEPT ![w] = Idle]
  /\ UNCHANGED <<body, killed>>

\* The daemon is killed.
Kill ==
  /\ killed' = killed \cup {req[w].tmp : w \in {v \in Workers : req[v].tmp # Nil}}
  /\ req' = [w \in Workers |-> Idle]
  /\ UNCHANGED <<kids, body>>

\* What a handler does by itself, without its client.
Step(w) ==
  \/ Openat(w) \/ Follow(w) \/ Stat(w) \/ List(w) \/ Serve(w) \/ Chown(w)
  \/ KeepSetgid(w) \/ Lstat(w) \/ Unlink(w)
  \/ \E d \in Dirs : Mkdir(w, d)

Next ==
  \/ \E w \in Workers :
       \/ \E path \in Paths : Get(w, path) \/ Put(w, path) \/ DoMkdir(w, path) \/ Delete(w, path)
       \/ Step(w)
       \/ \E t \in Temps, f \in Files : CreateTemp(w, t, f)
       \/ Copy(w) \/ CopyFails(w) \/ Rename(w) \/ RenameFails(w)
  \/ \E a, b \in Dirs, x, y \in Names : Owner(a, x, b, y)
  \/ Kill

\* A handler that needs nothing from its client goes on.
Fairness == \A w \in Workers : WF_vars(Step(w))

Spec == Init /\ [][Next]_vars /\ Fairness

-----------------------------------------------------------------------------
(* Properties *)

\* Every variable keeps its type, and resolve follows fewer than maxSymlinks links.
TypeOK ==
  /\ kids \in [Dirs -> [Slots -> Objects \cup {Nil}]]
  /\ body \in [Files -> {"whole", "partial"}]
  /\ killed \subseteq Temps
  /\ \A w \in Workers :
       /\ req[w].op \in {"none"} \cup Ops
       /\ req[w].pc \in {"idle", "walk", "link", "copy", "rename", "setgid", "unlink"}
       /\ req[w].i \in 1..(Len(req[w].parts) + 1)
       /\ req[w].fd \in Dirs \cup Files
       /\ req[w].hops \in 0..(MaxSymlinks - 1)

\* "Every file open/create/unlink is openat from the jail root" (DEVELOPERS.md:174):
\* whatever the owner moves or links while walk is under way, out of the cubby and back
\* included, no request gets a descriptor of the directory around the cubby or of
\* somebody else's file there.
Confined ==
  /\ \A w \in Workers : req[w].fd \notin {Outside, Secret}
  /\ Holders(Secret) = {Outside}

\* "A failed copy leaves the old file" (Replace): a name never leads to the start of a
\* body, and no GET has one open, with two uploads of a name, failed copies and kills.
WholeBodies ==
  /\ \A d \in Dirs, n \in Names : kids[d][n] \in Files => body[kids[d][n]] = "whole"
  /\ \A w \in Workers : req[w].fd \in Files => body[req[w].fd] = "whole"

\* Replace's cleanup: a temporary file in the tree belongs to an upload in flight, also
\* when its directory was moved meanwhile, unless the daemon was killed.
NoLitter ==
  \A d \in Dirs, t \in Temps : kids[d][t] # Nil =>
    t \in killed \/ \E w \in Workers : req[w].tmp = t /\ req[w].fd = d

\* resolve has not returned.
Walking(w) == req[w].pc = "link" \/ (req[w].pc = "walk" /\ req[w].i <= Len(req[w].parts))

\* maxSymlinks: resolve ends, though the owner may go on moving links in its way.
WalkEnds == \A w \in Workers : Walking(w) ~> ~Walking(w)
===============================================================================
