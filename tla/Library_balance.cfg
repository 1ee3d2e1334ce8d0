SPECIFICATION Spec
CONSTANTS
  MapKinds <- MCMapKinds
  Keys <- MCKeys
  Node <- MCNode
  NodeKey <- MCNodeKey
  Twin = 100
  Twins = {3}
  Values <- MCValues
  HashOf <- MCHashOf
  Nbkts = 2
  ObjKinds <- MCObjKinds
  Cell <- MCCell
  ElemKey <- MCElemKey
  Slots = 4
  First = 3
  SizeMax = 7
  MinGrow = 2
  Bits = 2
  Vertex = {1, 2, 3}
  Edge = {1, 2, 3}
  InitLen = 1
  Elem = {1, 2, 3, 4, 5}
  HeapElem = {1, 2, 3, 4, 5, 6, 7}
  HeapKey <- MCHeapKey
  HeadA = 101
  HeadB = 102
  Chunk <- MCChunk
  Piece <- MCPiece
  MaxRing = 6
  NbitsA = 3
  NbitsB = 4
  IntMax = 7
  MaxVars = 2
  MaxName = 3
  MaxArgs = 3
  DigitAs <- MCDigitAs
  Names <- MCNames
  Lines <- MCLines
  Thresh = 2
  Many = 9
  MaxDepth = 5
  Letters <- MCLetters
  Number <- MCNumber
  StrMax = 2
  NMatch = 2
  Quote = "q"
  Comma = ","
  Newline = "nl"
  ReadError = "err"
  Options <- MCOptions
  Digits = {"1"}
  Arrays <- MCArrays
  MaxPermuted = 5
  Texts <- MCTexts
  Patterns <- MCPatterns
  RexPatterns <- MCRexPatterns
  RexTexts <- MCRexTexts
  CsvTexts <- MCCsvTexts
  CsvSizes <- MCCsvSizes
  CommandLines <- MCCommandLines
  Paths <- MCPaths
  PathSizes = {1, 3, 4, 6}
  AddrGroups <- MCAddrGroups
  Codes <- MCCodes
  ByteStrings <- MCByteStrings
  TextSizes = {0, 2, 5, 12}
CHECK_DEADLOCK FALSE
INVARIANT BalanceTrue
