SPECIFICATION Spec
CONSTANTS
  c1 = c1
  c2 = c2
  Builtin = {"Object", "Kernel", "Thread", "String"}
  Made = {c1, c2}
  Name = {"A", "B", "String", "Object"}
  Sym = {"up", "new", "call", "method_missing"}
  Missing = "method_missing"
  BuiltinSuper <- MCSuper
  NativeIm <- MCIm
  NativeSm <- MCSm
  Asked = {"up"}
  Selves = {"Kernel", "Thread", "String"}
  None = None
  MaxTokens = 6
VIEW View
SYMMETRY MadeAlike
INVARIANTS
  DefinedWhereWritten
  NearestAnswers
  CacheTransparent
CHECK_DEADLOCK FALSE
