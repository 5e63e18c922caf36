---------------------------------- MODULE Put ----------------------------------
(***************************************************************************)
(* `bootstash put`, run by the cubby's owner: it finds or makes the cubby, *)
(* opens it as a jail and copies sources into it, one jail call at a time  *)
(* (module Jail has the steps inside a call).  It is a depth-first walk    *)
(* over the sources, written here as a list of what is left to do.  Links  *)
(* lead to files of others: the jail refuses them as leading out, and the  *)
(* owner cannot read them as sources.                                      *)
(***************************************************************************)
EXTENDS Access, SequencesExt

CONSTANTS
  Order,         \* the names, sorted
  Sources,       \* absolute paths: a directory of Tops and names
  Dests          \* directories in the cubby given with -t

VARIABLES
  put,     \* the command
  body     \* whose contents each file has

ASSUME PutAssumption ==
  /\ Order \in Seq(Names) /\ ToSet(Order) = Names
  /\ \A i, j \in DOMAIN Order : Order[i] = Order[j] => i = j
  /\ Sources \subseteq Seq(Tops \cup Names)
  /\ \A s \in Sources : Len(s) > 1 /\ Head(s) \in Tops /\ Tail(s) \in Seq(Names)
  /\ Dests \subseteq Seq(Names)

\* made: what it has created.  ok: the last one ended without an error.
NoPut == [pc |-> "idle", ok |-> FALSE, src |-> << >>, dest |-> << >>, root |-> Nil,
          todo |-> << >>, made |-> {}]

PutInit == put = NoPut /\ body = [f \in Files |-> f]

\* An Lstat along a path, by the owner.
Lookup(top, path) ==
  LET at[i \in 0..Len(path)] ==
        IF i = 0 THEN top
        ELSE IF at[i - 1] \in Dirs /\ Searches("user", at[i - 1]) THEN kids[at[i - 1]][path[i]]
        ELSE Nil
  IN  at[Len(path)]

SourceAt(from) == Lookup(Head(from), Tail(from))

Fail == put' = NoPut

PutBegin(src, dest) ==
  /\ put.pc = "idle"
  /\ put' = [NoPut EXCEPT !.pc = "find", !.src = src, !.dest = dest]
  /\ UNCHANGED <<kids, kind, attr, fresh, body>>

-----------------------------------------------------------------------------
(* cubbyDir *)

OwnedCubby(o) == o \in Dirs /\ attr[o].own = "user"

\* pamCubby and the first Lstat of emailCubby.
FindCubby ==
  /\ put.pc = "find"
  /\ \/ Root = Nil /\ kind = "home" /\ put' = [put EXCEPT !.pc = "mkdir"]
     \/ OwnedCubby(Root) /\ put' = [put EXCEPT !.pc = "open"]
     \/ ~OwnedCubby(Root) /\ (Root = Nil => kind = "users") /\ Fail
  /\ UNCHANGED <<kids, kind, attr, fresh, body>>

\* emailCubby: Mkdir with umask 0.
MakeCubby(d) ==
  /\ put.pc = "mkdir"
  /\ IF Root # Nil THEN Fail /\ UNCHANGED <<kids, attr, fresh>>
     ELSE /\ d \in Fresh(Dirs)
          /\ fresh' = fresh \ {d}
          /\ kids' = [kids EXCEPT ![Parent][Cubby] = d]
          /\ attr' = [attr EXCEPT ![d] = MadeDir("user", Parent, Mode0770)]
          /\ put' = [put EXCEPT !.pc = "setgid", !.made = {d}]
  /\ UNCHANGED <<kind, body>>

\* copySetgid: a chmod by the owner keeps the bit only on a group of his own.
CopySetgid ==
  /\ put.pc = "setgid"
  /\ IF Root = Nil \/ ("sg" \notin attr[Root].mode /\ ~OwnedCubby(Root))
       THEN Fail /\ UNCHANGED attr
       ELSE /\ put' = [put EXCEPT !.pc = "check"]
            /\ attr' = [attr EXCEPT ![Root].mode =
                 IF attr[Root].grp THEN @ ELSE @ \cup {"sg"}]
  /\ UNCHANGED <<kids, kind, fresh, body>>

\* The second Lstat.
CheckCubby ==
  /\ put.pc = "check"
  /\ IF Root # Nil /\ {"sg", "gr", "gw", "gx"} \subseteq attr[Root].mode
       THEN put' = [put EXCEPT !.pc = "open"] ELSE Fail
  /\ UNCHANGED <<kids, kind, attr, fresh, body>>

-----------------------------------------------------------------------------
(* The copy *)

Item(k, from, to) == [k |-> k, from |-> from, to |-> to]

\* mkdirAll: every prefix of a path.
MkdirAll(rel) == [i \in 1..Len(rel) |-> Item("mkdir", << >>, SubSeq(rel, 1, i))]

\* Mutant: nothing is refused.
RefuseNothing(src, target) == FALSE

\* refuseSelfCopy compares the paths.
RefuseSelfCopy(src, target) == IsPrefix(src, <<Parent, Cubby>> \o target)

\* putTarget.
Target == put.dest \o <<Last(put.src)>>

OpenRoot ==
  /\ put.pc = "open"
  /\ IF Opens("user", Parent, Root, TRUE)
       THEN put' = [put EXCEPT !.pc = "work", !.root = Root,
              !.todo = MkdirAll(put.dest) \o <<Item("source", put.src, Target)>>]
       ELSE Fail
  /\ UNCHANGED <<kids, kind, attr, fresh, body>>

Work(k) == put.pc = "work" /\ Head(put.todo).k = k /\ UNCHANGED kind

it == Head(put.todo)

\* Mutant: the end is not noticed.
MoreForEver(p, items) == [p EXCEPT !.todo = items \o Tail(p.todo)]

\* The item is done; new ones come before the rest.
More(p, items) ==
  LET todo == items \o Tail(p.todo)
  IN  IF todo = << >> THEN [NoPut EXCEPT !.ok = TRUE] ELSE [p EXCEPT !.todo = todo]

Dest == Lookup(put.root, Front(it.to))

\* Mutant: the umask 022 is left in force.
PutDirMasked == Mode0770 \ {"gw"}

\* putWith clears the umask.
PutDirMode == Mode0770

\* jail.Mkdir; EEXIST leads to a Stat.
MkdirExistOK(d) ==
  /\ Work("mkdir")
  /\ LET p == Dest
         n == Last(it.to) IN
     IF p \notin Dirs \/ ~Searches("user", p) THEN Fail /\ UNCHANGED <<kids, attr, fresh>>
     ELSE IF kids[p][n] # Nil
       THEN put' = More(put, <<Item("stat", << >>, it.to)>>) /\ UNCHANGED <<kids, attr, fresh>>
     ELSE IF ~Writes(p) THEN Fail /\ UNCHANGED <<kids, attr, fresh>>
     ELSE /\ d \in Fresh(Dirs)
          /\ fresh' = fresh \ {d}
          /\ kids' = [kids EXCEPT ![p][n] = d]
          /\ attr' = [attr EXCEPT ![d] = MadeDir("user", p, PutDirMode)]
          /\ put' = More([put EXCEPT !.made = @ \cup {d}], << >>)
  /\ UNCHANGED body

StatDir ==
  /\ Work("stat")
  /\ IF Dest \in Dirs /\ Opens("user", Dest, Lookup(put.root, it.to), TRUE)
       THEN put' = More(put, << >>) ELSE Fail
  /\ UNCHANGED <<kids, attr, fresh, body>>

PutSource ==
  /\ Work("source")
  /\ IF RefuseSelfCopy(it.from, it.to) THEN Fail
     ELSE put' = More(put, <<Item("into", it.from, it.to)>>)
  /\ UNCHANGED <<kids, attr, fresh, body>>

\* copyInto: the Lstat of the source.
CopyInto ==
  /\ Work("into")
  /\ LET o == SourceAt(it.from) IN
     CASE o \in Dirs -> put' = More(put, MkdirAll(it.to) \o <<Item("list", it.from, it.to)>>)
       [] o \in Files -> put' = More(put, MkdirAll(Front(it.to)) \o <<Item("file", it.from, it.to)>>)
       [] OTHER -> Fail
  /\ UNCHANGED <<kids, attr, fresh, body>>

\* Mutant: the directory is left out of the destination.
EntryFlat(i, n) == Item("into", Append(i.from, n), <<n>>)

Entry(i, n) == Item("into", Append(i.from, n), Append(i.to, n))

\* copyDir: ReadDir, which sorts.  first[i] has the names in d among the first i.
ReadDir(d) ==
  LET first[i \in 0..Len(Order)] ==
        IF i = 0 THEN << >>
        ELSE IF kids[d][Order[i]] = Nil THEN first[i - 1] ELSE Append(first[i - 1], Order[i])
  IN  first[Len(Order)]

CopyDir ==
  /\ Work("list")
  /\ LET o == SourceAt(it.from)
         names == ReadDir(o) IN
     IF o \in Dirs /\ Reads("user", o)
       THEN put' = More(put, [i \in DOMAIN names |-> Entry(it, names[i])])
       ELSE Fail
  /\ UNCHANGED <<kids, attr, fresh, body>>

\* copyFile: Open and jail.Replace.
CopyFile(f) ==
  /\ Work("file")
  /\ LET o == SourceAt(it.from)
         p == Dest
         n == Last(it.to) IN
     IF o \in Files /\ Reads("user", o) /\ p \in Dirs /\ Writes(p) /\ kids[p][n] \notin Dirs
       THEN /\ f \in Fresh(Files)
            /\ fresh' = fresh \ {f}
            /\ kids' = [kids EXCEPT ![p][n] = f]
            /\ attr' = [attr EXCEPT ![f] = MadeFile("user", p, {"gr", "gw"})]
            /\ body' = [body EXCEPT ![f] = body[o]]
            /\ put' = More([put EXCEPT !.made = @ \cup {f}], << >>)
       ELSE Fail /\ UNCHANGED <<kids, attr, fresh, body>>

PutStep ==
  \/ FindCubby \/ CopySetgid \/ CheckCubby \/ OpenRoot
  \/ StatDir \/ PutSource \/ CopyInto \/ CopyDir
  \/ \E d \in Dirs : MakeCubby(d) \/ MkdirExistOK(d)
  \/ \E f \in Files : CopyFile(f)
===============================================================================
