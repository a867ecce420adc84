SPECIFICATION ParseSpec
CONSTANTS
  Name = {m}
  Scripts <- MCScripts
  MaxTokens = 6
  MaxAny = 4
INVARIANTS
  EndReturnsToOpener
  BuildsTheScript
  HandlersInPlace
  AcceptsWellFormed
