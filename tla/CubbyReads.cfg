SPECIFICATION Spec
CONSTANTS
  c = c
  d = d
  doc = doc
  l = l
  q = q
  key = key
  n1 = n1
  n2 = n2
  g = g
  r1 = r1
  Parent = Parent
  Home = Home
  Nil = Nil
  Names = {"a", "b"}
  Temps = {}
  Cubby = "a"
  Dirs = {Parent, Home, c, d, n1, n2}
  Files = {doc, g, key}
  Links = {l, q}
  Fifos = {q}
  Tops = {Parent, Home}
  Fixed = {key}
  Procs = {r1}
  Rels <- MCRels
  Order <- MCOrder
  Sources <- MCSources
  Dests <- MCDests
  Starts <- MCStarts
  MaxMoves = 0
PROPERTY ReadShallow
CHECK_DEADLOCK FALSE
