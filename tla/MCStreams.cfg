SPECIFICATION Spec
CONSTANTS
  Char = {"a", "A", "n", "junk"}
  Newline = "n"
  Return = "r"
  Upper <- MCUpper
  NUL = "nul"
  Junk = "junk"
  DefaultSize = 2
  BufSize = 5
  FileId = {1, 2}
  Stream = {1, 2}
  Mode = {"r", "r+", "w", "a"}
  Literal <- MCLiteral
  None = None
  Chunk = 2
  MaxText = 4
  MaxDisk = 3
INVARIANTS
  BuffersTerminated
  FilesOwned
  NothingLost
PROPERTIES
  ReadGivesFile
CHECK_DEADLOCK FALSE
