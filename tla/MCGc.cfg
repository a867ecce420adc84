SPECIFICATION Spec
CONSTANTS
  s1 = s1
  s2 = s2
  ary = ary
  lit = lit
  x = x
  y = y
  p = p
  Str = {s1, s2}
  Ary = {ary}
  Lit = {lit}
  Var = {x, y, p}
  Parm = p
  None = None
  Shares = TRUE
  MaxRc = 2
  MaxLen = 2
  MaxDepth = 1
VIEW View
SYMMETRY Renamed
CONSTRAINT OneOfBoth
INVARIANTS
  
  CountsMatch
  ListedOnce
PROPERTIES
  SweepsLeaveNothing
CHECK_DEADLOCK FALSE
