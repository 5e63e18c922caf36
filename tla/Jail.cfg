SPECIFICATION MCSpec
CONSTANTS
  Workers = {"w1", "w2"}
  Ops = {"get", "put", "mkdir", "delete"}
  Paths <- Ways
  Names = {"x", "y"}
  Temps = {"t1", "t2"}
  Dirs = {"root", "out", "d"}
  Files = {"secret", "f", "g"}
  Links = {"up", "at", "abs"}
  Root = "root"
  Outside = "out"
  Secret = "secret"
  Target <- Pointers
  Starts <- Trees
  Tops = {"root", "out"}
  Fixed = {"secret"}
  Nil = "nil"
  MaxSymlinks = 3
INVARIANTS TypeOK Confined SameObject WholeBodies NoLitter
PROPERTY WalkEnds
