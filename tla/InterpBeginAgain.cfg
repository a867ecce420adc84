SPECIFICATION Spec
CONSTANTS
  m = m
  Name = {m}
  Scripts <- MCScripts
  MaxTokens = 5
  MaxFrames = 14
INVARIANT
  BeginsStay
