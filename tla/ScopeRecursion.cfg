SPECIFICATION Spec
CONSTANTS
  main = main
  f = f
  g = g
  f_if = f_if
  f_begin = f_begin
  p = p
  x = x
  v = v
  Thread = {main, f, g, f_if, f_begin}
  Main = main
  Method = {f, g}
  Nobody = Nobody
  Parent <- MCParent
  Shares = {f_if}
  Name = {p, x}
  Val = {v, Nil}
  Parm <- MCParm
  Args <- MCArgs
  Nil = Nil
  Unset = Unset
  NumTables = 6
  MaxDepth = 3
VIEW View
PROPERTIES
  RecursionKeepsLocals
