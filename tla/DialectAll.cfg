CONSTANTS
  Words <- MCWords
  Tokens <- MCTokens
  Names <- MCNames
  Keywords <- MCKeywords
  PseudoKeywords <- MCPseudoKeywords
  Contextual = {"ASYNC"}
  StrictReserved = {"LET"}
  Functions <- MCFunctions
  Toplevel = "toplevel"
  Size = 5
  First <- MCFirst
  Last <- MCLast
  NoCode = NoCode
  Sources <- AllSources
SPECIFICATION Spec
INVARIANTS
  DialectInv
  OneDialect
  DialectRecorded
  LaterParsesAgree
PROPERTIES
  EditsKeepCode
