-------------------------------- MODULE Access --------------------------------
(***************************************************************************)
(* Owners, groups and modes on the tree around one cubby, as the kernel    *)
(* judges them.  The daemon is in group bootstash, the cubby's owner is    *)
(* not.  The layout of DATA is ensureLayout's: users/ is 0711, so only the *)
(* daemon makes and moves cubbies there; home/ is 03773, so users do.      *)
(***************************************************************************)
EXTENDS Tree

CONSTANTS
  Parent,        \* users/ or home/
  Cubby,         \* the cubby's name in it
  Home           \* a directory of the owner elsewhere

VARIABLES
  kind,    \* which of the two Parent is: "users" or "home"
  attr,    \* owner, group and mode of each object
  fresh    \* objects that do not exist yet

\* ux: x for the owner; gr, gw, gx: for the group; o: r, and x on directories, for
\* others; sg: setgid.  The owner's own r and w are taken to be set.
Bits == {"ux", "gr", "gw", "gx", "o", "sg"}

\* grp: the group is bootstash.
Attr == [own : {"daemon", "user", "root", "other"}, grp : BOOLEAN, mode : SUBSET Bits]

Mode0770 == {"ux", "gr", "gw", "gx"}

CubbyMode == Mode0770 \cup {"sg"}

\* ensureLayout.
Layout == [own |-> "daemon", grp |-> TRUE,
           mode |-> IF kind = "home" THEN CubbyMode \cup {"o"} ELSE {"ux", "o"}]

ASSUME AccessAssumption ==
  /\ {Parent, Home} = Tops /\ Parent # Home
  /\ Cubby \in Names

\* What the cubby's name leads to.
Root == kids[Parent][Cubby]

-----------------------------------------------------------------------------
(* The kernel's judgement *)

Allowed(who, o, bit) ==
  \/ who \in {"root", attr[o].own}
  \/ IF who = "daemon" /\ attr[o].grp THEN bit \in attr[o].mode ELSE "o" \in attr[o].mode

Reads(who, o) == Allowed(who, o, "gr")

Searches(who, d) == Allowed(who, d, "gx")

\* Attributes of what who makes in d: setgid hands the group down, and itself.
MadeDir(who, d, mode) ==
  LET sg == attr[d].mode \cap {"sg"} IN
  [own |-> who, grp |-> IF sg # {} THEN attr[d].grp ELSE who = "daemon", mode |-> mode \cup sg]

MadeFile(who, d, mode) == [MadeDir(who, d, mode) EXCEPT !.mode = mode]

\* openat(d, o, O_NOFOLLOW), and with O_DIRECTORY when dir.
Opens(who, d, o, dir) ==
  /\ Searches(who, d)
  /\ o \in Dirs \/ (o \in Files /\ ~dir)
  /\ Reads(who, o)

\* The files and directories in the cubby that the daemon can open without a link.
Reach == Reachable({o \in {Root} : Opens("daemon", Parent, o, TRUE)},
                   [d \in Dirs |-> {o \in Children(d) : Opens("daemon", d, o, FALSE)}])

\* The next inode: which one it is does not matter.
Fresh(S) == IF fresh \cap S = {} THEN {} ELSE {CHOOSE o \in fresh \cap S : TRUE}

-----------------------------------------------------------------------------
(* The owner in a shell *)

Writes(d) == attr[d].own = "user" \/ (d = Parent /\ kind = "home")

\* In home/, which is sticky, only own entries.
Own(d, o) == d = Parent /\ o # Nil => attr[o].own = "user"

Move(a, x, b, y) ==
  /\ Writes(a) /\ Writes(b)
  /\ Own(a, kids[a][x]) /\ Own(b, kids[b][y])
  /\ Exchange(a, x, b, y)
  /\ UNCHANGED <<kind, attr, fresh>>

\* chmod by the owner, who is not in bootstash: S_ISGID goes.
Chmod(o, m) ==
  /\ attr[o].own = "user" /\ o \notin Links
  /\ attr[o].mode # m /\ "sg" \notin m
  /\ attr' = [attr EXCEPT ![o].mode = m]
  /\ UNCHANGED <<kids, kind, fresh>>
===============================================================================
