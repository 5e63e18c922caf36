--------------------------------- MODULE Tree ---------------------------------
(***************************************************************************)
(* The kernel's directory tree, and how a user with a shell rearranges it. *)
(* None of this is code of the repository: it is what its system calls     *)
(* find and change.                                                        *)
(***************************************************************************)
EXTENDS Naturals, FiniteSets

CONSTANTS
  Names,         \* file names of requests, users and links
  Temps,         \* names .bootstash-<random>
  Dirs, Files, Links,
  Tops,          \* directories that stay where they are
  Fixed,         \* objects of somebody else, which the user cannot move
  Nil

Objects == Dirs \cup Files \cup Links
Slots == Names \cup Temps

ASSUME TreeAssumption ==
  /\ Tops \subseteq Dirs /\ Fixed \subseteq Objects
  /\ Dirs \cap (Files \cup Links) = {} /\ Files \cap Links = {}
  /\ Nil \notin Objects \cup Slots
  /\ ".." \notin Slots /\ Names \cap Temps = {}

VARIABLE kids    \* the entries of each directory

Holders(o) == {d \in Dirs : \E n \in Slots : kids[d][n] = o}

\* A directory that was removed takes no new entries.
Linked(d) == d \in Tops \/ Holders(d) # {}

Children(d) == {kids[d][n] : n \in Names}

\* What is reached from S when next[d] is one step from a directory d, in as many steps
\* as there are directories.
Reachable(S, next) ==
  LET reach[k \in 0..Cardinality(Dirs)] ==
        IF k = 0 THEN S ELSE S \cup UNION {next[d] : d \in Dirs \cap reach[k - 1]}
  IN  reach[Cardinality(Dirs)]

\* The directories at and below d.
Below(d) == Reachable({d}, [e \in Dirs |-> Dirs \cap Children(e)])

\* An object can be moved anywhere but a directory below itself.
Movable(o, d) == o \notin Fixed /\ (o \in Dirs => d \notin Below(o))

\* rename(2), or RENAME_EXCHANGE when both names are taken.
Exchange(a, x, b, y) ==
  /\ kids[a][x] # kids[b][y]
  /\ Linked(a) /\ Linked(b)
  /\ Movable(kids[a][x], b) /\ Movable(kids[b][y], a)
  /\ kids' = [kids EXCEPT ![a][x] = kids[b][y], ![b][y] = kids[a][x]]
===============================================================================
