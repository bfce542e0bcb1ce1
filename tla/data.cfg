SPECIFICATION Spec
CONSTANTS
  hash = hash
  RawFile <- AllFiles
  PartCount = {1, 3, 4}
  Word = 64
  Half = 11
  Comment = hash
  NoFile = NoFile
INVARIANTS TypeOK HashKeepsGraph EachVertexOnce EdgesKept
CHECK_DEADLOCK FALSE
