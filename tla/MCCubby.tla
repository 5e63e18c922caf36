-------------------------------- MODULE MCCubby --------------------------------
(* A cubby with a directory, a file and a link or a FIFO, which may also be   *)
(* in the owner's home or made by hand.                                       *)
EXTENDS Cubby

CONSTANTS c, d, doc, l, q, key, n1, n2, g, r1

MCOrder == <<"a", "b">>

MCRels == {<< >>, <<"a">>}

MCSources == {<<Home, "a">>, <<Parent, "a", "a">>}

MCDests == {<< >>, <<"b">>, <<"a">>}

Grown(root, up) ==
  [x \in Dirs |-> [n \in Names |->
     CASE x = Parent /\ n = "a" -> root
       [] x = up /\ n = "a" -> d
       [] x = c /\ n = "b" /\ root = c -> IF up = c THEN l ELSE q
       [] x = d /\ n = "a" -> doc
       [] OTHER -> Nil]]

A(own, grp, mode) == [own |-> own, grp |-> grp, mode |-> mode]

ByHand == A("user", FALSE, {"ux", "gr", "gx", "o"})

Cubbied == A("user", TRUE, CubbyMode)

MCStarts ==
  {[kind |-> t[1], kids |-> Grown(t[2], t[3]),
    attr |-> [x \in Objects |->
      CASE x = c -> t[4] [] x = d -> t[5] [] x = doc -> t[6]
        [] x = key -> A("root", TRUE, {"ux", "gr"})
        [] x = l -> A("user", FALSE, {}) [] x = q -> A("user", FALSE, {"gr", "o"})
        [] OTHER -> ByHand]] :
   t \in {<<"users", c, c, Cubbied, Cubbied, A("user", FALSE, {"ux", "gr", "gx", "o"})>>,
          <<"home", c, c, ByHand, Cubbied, A("user", FALSE, {"gr", "o"})>>,
          <<"home", c, Home, Cubbied, ByHand, A("user", TRUE, {"ux"})>>,
          <<"home", Nil, Home, ByHand, ByHand, A("user", FALSE, {"gr", "o"})>>,
          <<"users", Nil, Home, ByHand, ByHand, A("user", FALSE, {"gr", "o"})>>}}
===============================================================================
