-------------------------------- MODULE MCJail --------------------------------
(* Jail on two small trees: one with links, which one GET or DELETE walks, and *)
(* one without, where two uploads meet in a directory that other requests make *)
(* and remove.  With it a reference for what resolve opens: the kernel's own   *)
(* resolution beneath a directory, which keeps the directories it passed and   *)
(* never starts again.                                                         *)
EXTENDS Jail, TLC

Ways == {<<"x">>, <<"x", "y">>, <<"y", "..", "x", "y">>}

\* A link up, a link to its neighbour or itself, and an absolute one.
Pointers == [l \in Links |-> [abs |-> l = "abs",
               path |-> IF l = "up" THEN <<"..", "y">> ELSE <<"x">>]]

\* The entries of the cubby, of the directory around it and of the one in it.
TreeOf(top, out, dir) ==
  [d \in Dirs |-> [n \in Names |->
     LET e == CASE d = Root -> top [] d = Outside -> out [] OTHER -> dir IN e[n]]]

LinkTree == TreeOf([x |-> "d", y |-> "at"], [x |-> Secret, y |-> "abs"], [x |-> "f", y |-> "up"])

PlainTree == TreeOf([x |-> "d", y |-> Nil], [x |-> Secret, y |-> Nil], [x |-> Nil, y |-> Nil])

Trees == {LinkTree, PlainTree}

VARIABLES
  links,   \* the tree has links
  calm     \* history: the requests during which the tree has not changed

-----------------------------------------------------------------------------

RECURSIVE Beneath(_, _, _)

\* The object that names leads to below the last directory of stack, within hops links.
Beneath(stack, names, hops) ==
  IF names = << >> THEN Last(stack)
  ELSE LET o == IF Head(names) = ".." THEN Nil ELSE kids[Last(stack)][Head(names)]
           rest == Tail(names)
       IN  CASE Head(names) = ".." /\ Len(stack) > 1 -> Beneath(Front(stack), rest, hops)
             [] o \in Dirs -> Beneath(Append(stack, o), rest, hops)
             [] o \in Files /\ rest = << >> -> o
             [] o \in Links /\ hops > 0 /\ ~Target[o].abs ->
                  Beneath(stack, Target[o].path \o rest, hops - 1)
             [] OTHER -> Nil

Wanted(r) ==
  Beneath(<<Root>>, IF r.then \in Parents THEN Front(r.rel) ELSE r.rel, MaxSymlinks - 1)

\* In a tree that does not change, and whose links have ".." only at the start of their
\* targets (joinComponents takes a name back before it could turn out to be a link),
\* resolve opens what the kernel would have opened beneath the cubby, and refuses only
\* what leads out of it, nowhere, or through maxSymlinks links.
SameObject ==
  \A w \in Workers : LET r == req[w] IN
    calm[w] =>
      /\ \A t \in {"stat", "list", "read", "lstat"} : Resolved(w, t) => r.fd = Wanted(r)
      /\ r.pc = "link" /\ Refused(r) =>
           IF r.then \in Parents THEN Wanted(r) \notin Dirs ELSE Wanted(r) = Nil

-----------------------------------------------------------------------------

Watch == calm' = [w \in Workers |-> links /\ (calm[w] \/ req[w].pc = "idle") /\ kids' = kids]

\* In the tree with links one request at a time, and no uploads.
OneWalk == req'["w2"].pc = "idle" /\ req'["w1"].op \in {"none", "get", "delete"}

\* Temporary names and new files are interchangeable: the first one is taken.
FirstFree ==
  \A w \in Workers : req'[w].tmp \notin {Nil, req[w].tmp} =>
    /\ req'[w].tmp = CHOOSE t \in Temps : \A e \in Dirs : kids[e][t] = Nil
    /\ req'[w].new = CHOOSE f \in Files : f \in Free(Files)

\* In the other one an upload beside a request of any kind, and the owner moves the
\* directory, not the files.
UploadBeside ==
  /\ req'["w2"].op \in {"none", "put"}
  /\ UNCHANGED req => \A d \in Dirs, n \in Names : kids[d][n] \in Files => kids'[d][n] = kids[d][n]

\* One kill takes uploads with it.
OneKill == killed # {} => UNCHANGED killed

MCInit ==
  /\ Init
  /\ links = (\E d \in Dirs, n \in Names : kids[d][n] \in Links)
  /\ calm = [w \in Workers |-> links]

MCNext == Next /\ Watch /\ FirstFree /\ OneKill /\ (IF links THEN OneWalk ELSE UploadBeside) /\ UNCHANGED links

MCSpec == MCInit /\ [][MCNext]_<<vars, links, calm>> /\ Fairness
===============================================================================
