CONSTANTS
  Words <- MCWords
  Tokens <- MCTokens
  Names <- MCNames
  Keywords <- MCKeywords
  PseudoKeywords <- MCPseudoKeywords
  Contextual = {"ASYNC"}
  StrictReserved = {"LET"}
  Functions <- MCFunctions
  Toplevel = "toplevel"
  Size = 5
  First <- MCFirst
  Last <- MCLast
  NoCode = NoCode
  Sources <- EitherSources
SPECIFICATION Spec
INVARIANTS
  CodeMatchesScript
