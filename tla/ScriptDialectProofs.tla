------------------------ MODULE ScriptDialectProofs ------------------------
(***************************************************************************)
(* Proofs that a script is read in one dialect, the one its text declares, *)
(* for all source texts, keyword tables and layouts of functions.          *)
(***************************************************************************)
EXTENDS ScriptDialect, TLAPS

\* The layout: positions of a literal lie in the text.
LEMMA Positions ==
  ASSUME NEW f \in Literals
  PROVE  /\ StartPosition(f) \in 1..(Size + 1) /\ EndPosition(f) \in 0..Size
         /\ StartPosition(f) \in Int /\ EndPosition(f) \in Int
         /\ StartPosition(f) <= EndPosition(f) + 1
         /\ Span(f) \subseteq StartPosition(f)..EndPosition(f)
         /\ Span(f) \subseteq 1..Size
  <1>1. CASE f = Toplevel
    BY <1>1, LayoutAssumption DEF StartPosition, EndPosition, Span
  <1>2. CASE f # Toplevel
    <2>1. f \in Functions
      BY <1>2 DEF Literals
    <2> QED
      BY <1>2, <2>1, LayoutAssumption DEF StartPosition, EndPosition, Span
  <1> QED
    BY <1>1, <1>2

\* The parser makes a reading of every item, in every dialect.
LEMMA ReadingType ==
  ASSUME NEW d \in Dialects, NEW item \in Items
  PROVE  Reading(d, item) \in Readings
  <1>1. CASE item.kind = "word"
    <2>1. item \in WordItems
      BY <1>1 DEF Items, WordItems, CommentItems
    <2>2. KeywordOrIdentifierToken(d, item.word) \in Tokens
      BY TablesAssumption DEF KeywordOrIdentifierToken
    <2>3. ScanIdentifierOrKeyword(d, item) \in Tokens
      BY <2>2, TablesAssumption DEF ScanIdentifierOrKeyword
    <2>4. PseudoKeywordNameOf(d, item.word) \in Names
      BY TablesAssumption DEF PseudoKeywordNameOf
    <2> QED
      BY <1>1, <2>3, <2>4 DEF Reading, Readings
  <1>2. CASE item.kind # "word"
    BY <1>2, TablesAssumption DEF Reading, Readings, NoReading
  <1> QED
    BY <1>1, <1>2

\* An item of a text.
LEMMA ItemType ==
  ASSUME NEW src \in Sources, NEW i \in 1..Size
  PROVE  /\ src[i] \in Items
         /\ src[i].kind \in {"word", "comment"}
         /\ src[i].kind = "comment" => src[i].value \in CommentValues
  BY LayoutAssumption DEF Items, WordItems, CommentItems

\* A scanner that has read nothing.
LEMMA NothingRead ==
  ASSUME NEW s \in Int
  PROVE  [i \in 1..0 |-> NoReading] \in [s..(s - 1) -> Readings]
  <1>1. 1..0 = {} /\ s..(s - 1) = {}
    OBVIOUS
  <1> QED
    BY <1>1

\* The part of TypeOK about the parse under way.
ParseTypes ==
  /\ text \in Sources /\ newSource \in Sources
  /\ parse \in Parses /\ fn \in Literals
  /\ pos \in StartPosition(fn)..(EndPosition(fn) + 1)
  /\ dialect \in Dialects
  /\ sawToken \in BOOLEAN /\ foundComment \in BOOLEAN
  /\ parserError \in BOOLEAN /\ lazy \in BOOLEAN
  /\ out \in [StartPosition(fn)..(pos - 1) -> Readings]

LEMMA InitEstablishes == Init => DialectInv
  <1> SUFFICES ASSUME Init PROVE DialectInv
    OBVIOUS
  <1>1. /\ script \in [source : Sources, dialect : Dialects \union {Undefined},
                       compiled : BOOLEAN]
        /\ text \in Sources /\ newSource \in Sources
    BY DEF Init
  <1>2. fn \in Literals /\ parse \in Parses /\ dialect \in Dialects
    BY DEF Init, Literals, Parses, Dialects
  <1>3. StartPosition(fn) = 1 /\ EndPosition(fn) = Size /\ pos = 1 /\ pos - 1 = 0
    BY DEF Init, StartPosition, EndPosition
  <1>4. /\ pos \in StartPosition(fn)..(EndPosition(fn) + 1)
        /\ out \in [StartPosition(fn)..(pos - 1) -> Readings]
    BY <1>3, LayoutAssumption, NothingRead DEF Init
  <1>5. TypeOK
    BY <1>1, <1>2, <1>4 DEF Init, TypeOK
  <1> QED
    BY <1>5 DEF Init, DialectInv, OneDialect, ScanInv, JobInv, CodeInv,
       DialectRecorded, DialectComments

-----------------------------------------------------------------------------
(* The scanner's steps.                                                    *)

\* Reading one more item keeps the types and the one dialect.
LEMMA AdvanceKeeps ==
  ASSUME TypeOK, OneDialect, Scanning, Advance,
         text' = text, fn' = fn, dialect' = dialect
  PROVE  /\ pos' = pos + 1 /\ pos \in 1..Size
         /\ pos' \in StartPosition(fn)..(EndPosition(fn) + 1)
         /\ out' \in [StartPosition(fn)..(pos' - 1) -> Readings]
         /\ OneDialect'
  <1>1. /\ fn \in Literals /\ text \in Sources /\ dialect \in Dialects
        /\ pos \in StartPosition(fn)..(EndPosition(fn) + 1)
        /\ out \in [StartPosition(fn)..(pos - 1) -> Readings]
    BY DEF TypeOK
  <1>2. /\ StartPosition(fn) \in 1..(Size + 1) /\ EndPosition(fn) \in 0..Size
    BY <1>1, Positions
  <1>3. pos \in Int /\ pos <= EndPosition(fn) /\ Size \in Nat
    BY <1>1, <1>2, LayoutAssumption DEF Scanning
  <1>4. pos' = pos + 1 /\ pos \in 1..Size
        /\ pos' \in StartPosition(fn)..(EndPosition(fn) + 1)
    BY <1>1, <1>2, <1>3 DEF Advance
  <1>5. Reading(dialect, text[pos]) \in Readings
    BY <1>1, <1>4, ItemType, ReadingType
  <1>6. out' = [i \in StartPosition(fn)..pos |->
                  IF i = pos THEN Reading(dialect, text[pos]) ELSE out[i]]
    BY DEF Advance
  <1>7. pos' - 1 = pos
    BY <1>3, <1>4
  <1>8. \A i \in StartPosition(fn)..pos : i = pos \/ i \in StartPosition(fn)..(pos - 1)
    BY <1>2, <1>3
  <1>9. out' \in [StartPosition(fn)..(pos' - 1) -> Readings]
    BY <1>1, <1>5, <1>6, <1>7, <1>8
  <1>10. OneDialect'
    BY <1>1, <1>6, <1>8 DEF OneDialect
  <1> QED
    BY <1>4, <1>9, <1>10

LEMMA ScanPreserves == DialectInv /\ Scan => DialectInv'
  <1> SUFFICES ASSUME DialectInv, Scan PROVE DialectInv'
    OBVIOUS
  <1>1. /\ pos' = pos + 1 /\ pos \in 1..Size
        /\ pos' \in StartPosition(fn)..(EndPosition(fn) + 1)
        /\ out' \in [StartPosition(fn)..(pos' - 1) -> Readings]
        /\ OneDialect'
    BY AdvanceKeeps DEF DialectInv, Scan, jobVars
  <1>2. TypeOK'
    BY <1>1 DEF DialectInv, TypeOK, Scan, scriptVars, jobVars
  <1>3. ScanInv'
    BY <1>1 DEF DialectInv, ScanInv, Scan, DialectComments, jobVars
  <1>4. JobInv' /\ CodeInv' /\ DialectRecorded'
    BY DEF DialectInv, JobInv, CodeInv, DialectRecorded, Declares,
       DialectComments, WellFormed, Scan, scriptVars, jobVars
  <1> QED
    BY <1>1, <1>2, <1>3, <1>4 DEF DialectInv

LEMMA SkipSingleLineCommentPreserves ==
  DialectInv /\ SkipSingleLineComment => DialectInv'
  <1> SUFFICES ASSUME DialectInv, SkipSingleLineComment PROVE DialectInv'
    OBVIOUS
  <1>1. /\ pos' = pos + 1 /\ pos \in 1..Size
        /\ pos' \in StartPosition(fn)..(EndPosition(fn) + 1)
        /\ out' \in [StartPosition(fn)..(pos' - 1) -> Readings]
        /\ OneDialect'
    BY AdvanceKeeps DEF DialectInv, SkipSingleLineComment, jobVars
  <1>2. TypeOK'
    BY <1>1 DEF DialectInv, TypeOK, SkipSingleLineComment, scriptVars, jobVars
  <1>3. ScanInv'
    BY <1>1 DEF DialectInv, ScanInv, SkipSingleLineComment, DialectComments,
       jobVars
  <1>4. JobInv' /\ CodeInv' /\ DialectRecorded'
    BY DEF DialectInv, JobInv, CodeInv, DialectRecorded, Declares,
       DialectComments, WellFormed, SkipSingleLineComment, scriptVars, jobVars
  <1> QED
    BY <1>1, <1>2, <1>3, <1>4 DEF DialectInv

LEMMA TrySetSourceDialectPreserves ==
  DialectInv /\ TrySetSourceDialect => DialectInv'
  <1> SUFFICES ASSUME DialectInv, TrySetSourceDialect PROVE DialectInv'
    OBVIOUS
  <1>1. CASE sawToken \/ foundComment \/ text[pos].value \notin Dialects
    <2>1. TypeOK'
      BY <1>1 DEF DialectInv, TypeOK, TrySetSourceDialect, scriptVars, jobVars
    <2> QED
      BY <1>1, <2>1 DEF DialectInv, OneDialect, ScanInv, JobInv, CodeInv,
         DialectRecorded, Declares, DialectComments, WellFormed,
         TrySetSourceDialect, scriptVars, jobVars
  <1>2. CASE ~(sawToken \/ foundComment \/ text[pos].value \notin Dialects)
    <2>1. /\ fn \in Literals /\ text \in Sources /\ dialect \in Dialects
          /\ pos \in StartPosition(fn)..(EndPosition(fn) + 1)
          /\ out \in [StartPosition(fn)..(pos - 1) -> Readings]
      BY DEF DialectInv, TypeOK
    <2>2. /\ StartPosition(fn) \in 1..(Size + 1) /\ EndPosition(fn) \in 0..Size
          /\ Size \in Nat
      BY <2>1, Positions, LayoutAssumption
    <2>3. pos \in 1..Size /\ pos <= EndPosition(fn) /\ pos \in Int
      BY <2>1, <2>2 DEF TrySetSourceDialect, Scanning
    <2>4. text[pos].kind = "comment" /\ pos \in DialectComments(text)
      BY <2>3 DEF TrySetSourceDialect, DialectComments
    <2>5. (fn = Toplevel /\ parse \notin {"function", "reparse", "editOld"})
            \/ parse \in {"function", "reparse", "editOld"}
      BY <1>2 DEF DialectInv, TypeOK, JobInv, TrySetSourceDialect, Scanning, Parses
    <2>6. parse \in {"function", "reparse", "editOld"} =>
             /\ fn = Toplevel
             /\ Declares(text, text[pos].value)
      <3> SUFFICES ASSUME parse \in {"function", "reparse", "editOld"}
                   PROVE  fn = Toplevel /\ Declares(text, text[pos].value)
        OBVIOUS
      <3>1. WellFormed(text)
        BY DEF DialectInv, JobInv, DialectRecorded
      <3>2. \A j \in 1..pos : text[j].kind = "comment"
        BY <2>4, <3>1 DEF WellFormed
      <3>3. fn = Toplevel
        <4>1. SUFFICES ASSUME fn # Toplevel PROVE FALSE
          OBVIOUS
        <4>2. fn \in Functions /\ StartPosition(fn) = First[fn]
          BY <2>1, <4>1 DEF Literals, StartPosition
        <4>3. text[First[fn]].kind = "word"
          BY <2>1, <4>2, LayoutAssumption
        <4>4. First[fn] \in 1..pos
          BY <2>1, <2>2, <2>3, <4>2
        <4> QED
          BY <3>2, <4>3, <4>4
      <3> QED
        BY <2>4, <3>3 DEF Declares
    <2>7. fn = Toplevel
      BY <2>5, <2>6
    <2>8. StartPosition(fn) = 1
      BY <2>7 DEF StartPosition
    <2>9. \A i \in 1..(pos - 1) : text[i].kind = "comment"
      BY <1>2, <2>7 DEF DialectInv, ScanInv
    <2>10. /\ dialect' = text[pos].value /\ foundComment' = TRUE /\ Advance
           /\ parserError' = parserError
      BY <1>2 DEF TrySetSourceDialect
    <2>11. dialect' \in Dialects
      BY <1>2, <2>10
    <2>12. /\ pos' = pos + 1 /\ pos' - 1 = pos
           /\ pos' \in StartPosition(fn)..(EndPosition(fn) + 1)
      BY <2>1, <2>2, <2>3, <2>10 DEF Advance
    <2>13. out' = [i \in 1..pos |->
                    IF i = pos THEN Reading(dialect, text[pos]) ELSE out[i]]
      BY <2>8, <2>10 DEF Advance
    <2>14. \A i \in 1..pos : i = pos \/ i \in 1..(pos - 1)
      BY <2>3
    <2>15. Reading(dialect, text[pos]) \in Readings
      BY <2>1, <2>3, ItemType, ReadingType
    <2>16. out' \in [StartPosition(fn)..(pos' - 1) -> Readings]
      BY <2>1, <2>8, <2>12, <2>13, <2>14, <2>15
    <2>17. TypeOK'
      BY <2>11, <2>12, <2>16, <2>10 DEF DialectInv, TypeOK, TrySetSourceDialect,
         scriptVars, jobVars
    <2>18. \A i \in 1..pos : text[i].kind = "comment"
      BY <2>4, <2>9, <2>14
    <2>19. \A i \in 1..pos, d \in Dialects : Reading(d, text[i]) = NoReading
      BY <2>18 DEF Reading
    <2>20. OneDialect'
      <3>1. \A i \in 1..(pos - 1) : out[i] = NoReading
        BY <2>1, <2>3, <2>8, <2>19 DEF DialectInv, OneDialect
      <3>2. DOMAIN out' = 1..pos /\ text' = text
        BY <2>13 DEF TrySetSourceDialect, jobVars
      <3>3. \A i \in 1..pos : out'[i] = NoReading
        BY <2>1, <2>3, <2>13, <2>14, <2>19, <3>1
      <3> QED
        BY <2>11, <2>19, <3>2, <3>3 DEF OneDialect
    <2>21. ScanInv'
      <3>1. \A i \in DialectComments(text) : i < pos' => i = pos
        BY <1>2, <2>3, <2>7, <2>12 DEF DialectInv, ScanInv, DialectComments
      <3> QED
        BY <1>2, <2>10, <2>12, <2>18, <3>1
        DEF ScanInv, TrySetSourceDialect, jobVars, DialectComments
    <2>22. JobInv'
      BY <2>4, <2>6, <2>10 DEF DialectInv, JobInv, TrySetSourceDialect,
         scriptVars, jobVars, Declares, DialectComments
    <2>23. CodeInv' /\ DialectRecorded'
      BY DEF DialectInv, CodeInv, DialectRecorded, Declares, DialectComments,
         WellFormed, TrySetSourceDialect, scriptVars
    <2> QED
      BY <2>17, <2>20, <2>21, <2>22, <2>23 DEF DialectInv
  <1> QED
    BY <1>1, <1>2

LEMMA SetParserErrorPreserves == DialectInv /\ SetParserError => DialectInv'
  <1> SUFFICES ASSUME DialectInv, SetParserError PROVE DialectInv'
    OBVIOUS
  <1>1. TypeOK'
    BY DEF DialectInv, TypeOK, SetParserError, scriptVars, jobVars
  <1> QED
    BY <1>1 DEF DialectInv, OneDialect, ScanInv, JobInv, CodeInv,
       DialectRecorded, Declares, DialectComments, WellFormed, SetParserError,
       scriptVars, jobVars

LEMMA ApplyBookmarkPreserves ==
  ASSUME NEW f \in Functions, DialectInv, ApplyBookmark(f)
  PROVE  DialectInv'
  <1>1. /\ fn = Toplevel /\ StartPosition(fn) = 1 /\ EndPosition(fn) = Size
        /\ pos \in 1..(Size + 1) /\ Size \in Nat
        /\ First[f] \in 1..Size /\ First[f] < pos
        /\ out \in [1..(pos - 1) -> Readings]
    BY LayoutAssumption DEF DialectInv, TypeOK, ApplyBookmark, StartPosition,
       EndPosition
  <1>2. /\ pos' = First[f] /\ pos' \in Int
        /\ pos' \in StartPosition(fn)..(EndPosition(fn) + 1)
    BY <1>1 DEF ApplyBookmark
  <1>3. out' = [i \in 1..(First[f] - 1) |-> out[i]]
    BY <1>1 DEF ApplyBookmark
  <1>4. \A i \in 1..(First[f] - 1) : i \in 1..(pos - 1)
    BY <1>1
  <1>5. out' \in [StartPosition(fn)..(pos' - 1) -> Readings]
    BY <1>1, <1>2, <1>3, <1>4
  <1>6. TypeOK'
    BY <1>2, <1>5 DEF DialectInv, TypeOK, ApplyBookmark, scriptVars, jobVars
  <1>7. OneDialect'
    BY <1>1, <1>3, <1>4 DEF DialectInv, OneDialect, ApplyBookmark, jobVars
  <1>8. ScanInv'
    BY <1>1, <1>2, <1>4 DEF DialectInv, ScanInv, ApplyBookmark, jobVars,
       DialectComments
  <1>9. JobInv' /\ CodeInv' /\ DialectRecorded'
    BY DEF DialectInv, JobInv, CodeInv, DialectRecorded, Declares,
       DialectComments, WellFormed, ApplyBookmark, scriptVars, jobVars
  <1> QED
    BY <1>6, <1>7, <1>8, <1>9 DEF DialectInv

-----------------------------------------------------------------------------
(* Beginning and ending a parse.                                           *)

LEMMA TypeParts ==
  TypeOK <=> /\ script \in [source : Sources, dialect : Dialects \union {Undefined},
                            compiled : BOOLEAN]
             /\ DOMAIN code = Literals
             /\ \A f \in Literals : code[f] = NoCode \/ code[f] \in [Span(f) -> Readings]
             /\ flushing \in BOOLEAN
             /\ ParseTypes
  BY DEF TypeOK, ParseTypes

LEMMA InitializeEstablishes ==
  ASSUME NEW kind \in Parses, NEW f \in Literals, NEW src \in Sources,
         NEW d \in Dialects, Initialize(kind, f, src, d), newSource' \in Sources
  PROVE  ParseTypes' /\ OneDialect' /\ ScanInv'
  <1>1. /\ fn' = f /\ pos' = StartPosition(f)
        /\ StartPosition(f) \in Int /\ EndPosition(f) \in Int
        /\ StartPosition(f) <= EndPosition(f) + 1
    BY Positions DEF Initialize
  <1>2. /\ pos' \in StartPosition(fn')..(EndPosition(fn') + 1)
        /\ out' \in [StartPosition(fn')..(pos' - 1) -> Readings]
    BY <1>1, NothingRead DEF Initialize
  <1>3. ParseTypes'
    <2>1. lazy' \in BOOLEAN
      <3>1. lazy' = (kind \in {"compile", "function"})
        BY DEF Initialize
      <3>2. (kind \in {"compile", "function"}) \in BOOLEAN
        OBVIOUS
      <3> QED
        BY <3>1, <3>2, Zenon
    <2> QED
      BY <1>1, <1>2, <2>1 DEF ParseTypes, Initialize
  <1>4. OneDialect'
    BY DEF OneDialect, Initialize
  <1>5. ScanInv'
    BY <1>1 DEF ScanInv, Initialize, StartPosition, DialectComments
  <1> QED
    BY <1>3, <1>4, <1>5

LEMMA StopEstablishes ==
  ASSUME script'.source \in Sources, StopParsing
  PROVE  ParseTypes' /\ OneDialect' /\ ScanInv' /\ JobInv'
  <1>1. /\ fn' = Toplevel /\ pos' = 1 /\ fn' \in Literals
        /\ StartPosition(fn') = 1 /\ EndPosition(fn') = Size /\ Size \in Nat
    BY LayoutAssumption DEF StopParsing, StartPosition, EndPosition, Literals
  <1>2. /\ pos' \in StartPosition(fn')..(EndPosition(fn') + 1)
        /\ out' \in [StartPosition(fn')..(pos' - 1) -> Readings]
    BY <1>1, NothingRead DEF StopParsing
  <1>3. ParseTypes'
    BY <1>1, <1>2 DEF ParseTypes, StopParsing, Parses, Dialects
  <1>4. OneDialect' /\ ScanInv' /\ JobInv'
    BY <1>1 DEF OneDialect, ScanInv, JobInv, StopParsing, DialectComments
  <1> QED
    BY <1>3, <1>4

\* The dialect the flags take from a script that records its dialect.
LEMMA FlagsDialect ==
  ASSUME DialectInv, script.compiled
  PROVE  /\ SetFlagsForFunctionFromScript(script) \in Dialects
         /\ SetFlagsForFunctionFromScript(script) = script.dialect
         /\ Declares(script.source, script.dialect)
  <1>1. Declares(script.source, script.dialect) /\ WellFormed(script.source)
    BY DEF DialectInv, DialectRecorded
  <1>2. script.dialect \in Dialects
    BY <1>1 DEF Declares, WellFormed, Dialects
  <1> QED
    BY <1>1, <1>2 DEF SetFlagsForFunctionFromScript, Dialects

LEMMA CompileToplevelPreserves ==
  ASSUME NEW src \in Sources, DialectInv, CompileToplevel(src)
  PROVE  DialectInv'
  <1>1. ParseTypes' /\ OneDialect' /\ ScanInv'
    BY InitializeEstablishes DEF CompileToplevel, Parses, Dialects, Literals
  <1>2. TypeOK'
    BY <1>1, TypeParts DEF DialectInv, CompileToplevel, TypeOK, ParseTypes
  <1>3. JobInv' /\ CodeInv' /\ DialectRecorded'
    BY DEF JobInv, CodeInv, DialectRecorded, CompileToplevel, Initialize
  <1> QED
    BY <1>1, <1>2, <1>3 DEF DialectInv

LEMMA CompilePreserves ==
  ASSUME NEW f \in Literals, DialectInv, Compile(f)
  PROVE  DialectInv'
  <1>1. script.compiled /\ scriptVars' = scriptVars
    BY DEF Compile
  <1>2. script.source \in Sources /\ newSource \in Sources
    BY DEF DialectInv, TypeOK
  <1>3. ParseTypes' /\ OneDialect' /\ ScanInv'
    BY <1>1, <1>2, FlagsDialect, InitializeEstablishes
    DEF Compile, Parses, scriptVars
  <1>4. TypeOK'
    BY <1>1, <1>3 DEF DialectInv, TypeOK, ParseTypes, scriptVars
  <1>5. JobInv'
    BY <1>1, FlagsDialect DEF JobInv, Compile, Initialize, scriptVars, Declares,
       DialectComments
  <1>6. CodeInv' /\ DialectRecorded'
    BY <1>1 DEF DialectInv, CodeInv, DialectRecorded, scriptVars, WellFormed,
       Declares, DialectComments
  <1> QED
    BY <1>3, <1>4, <1>5, <1>6 DEF DialectInv

LEMMA ReparsePreserves ==
  ASSUME NEW f \in Literals, DialectInv, Reparse(f)
  PROVE  DialectInv'
  <1>1. script.compiled /\ scriptVars' = scriptVars
    BY DEF Reparse
  <1>2. script.source \in Sources /\ newSource \in Sources
    BY DEF DialectInv, TypeOK
  <1>3. PICK whole \in BOOLEAN :
          Initialize("reparse", IF whole THEN Toplevel ELSE f, script.source,
                     SetFlagsForFunctionFromScript(script))
    BY DEF Reparse
  <1>4. (IF whole THEN Toplevel ELSE f) \in Literals /\ "reparse" \in Parses
    BY DEF Literals, Parses
  <1>5. ParseTypes' /\ OneDialect' /\ ScanInv'
    BY <1>1, <1>2, <1>3, <1>4, FlagsDialect, InitializeEstablishes DEF scriptVars
  <1>6. TypeOK'
    BY <1>1, <1>5 DEF DialectInv, TypeOK, ParseTypes, scriptVars
  <1>7. JobInv'
    BY <1>1, <1>3, FlagsDialect DEF JobInv, Initialize, scriptVars, Declares,
       DialectComments
  <1>8. CodeInv' /\ DialectRecorded'
    BY <1>1 DEF DialectInv, CodeInv, DialectRecorded, scriptVars, WellFormed,
       Declares, DialectComments
  <1> QED
    BY <1>5, <1>6, <1>7, <1>8 DEF DialectInv

LEMMA PatchScriptPreserves ==
  ASSUME NEW src \in Sources, DialectInv, PatchScript(src)
  PROVE  DialectInv'
  <1>1. script.compiled /\ script' = script /\ code' = code /\ flushing' = flushing
    BY DEF PatchScript
  <1>2. script.source \in Sources /\ newSource' \in Sources
    BY DEF DialectInv, TypeOK, PatchScript
  <1>3. ParseTypes' /\ OneDialect' /\ ScanInv'
    BY <1>1, <1>2, FlagsDialect, InitializeEstablishes
    DEF PatchScript, Parses, Literals
  <1>4. TypeOK'
    BY <1>1, <1>3 DEF DialectInv, TypeOK, ParseTypes
  <1>5. JobInv'
    BY <1>1, FlagsDialect DEF JobInv, PatchScript, Initialize, Declares,
       DialectComments
  <1>6. CodeInv' /\ DialectRecorded'
    BY <1>1 DEF DialectInv, CodeInv, DialectRecorded, WellFormed,
       Declares, DialectComments
  <1> QED
    BY <1>3, <1>4, <1>5, <1>6 DEF DialectInv

LEMMA FlushBytecodePreserves ==
  ASSUME NEW f \in Literals, DialectInv, FlushBytecodeFromSFI(f)
  PROVE  DialectInv'
  <1>1. TypeOK'
    BY DEF DialectInv, TypeOK, FlushBytecodeFromSFI, jobVars, scanVars
  <1> QED
    BY <1>1 DEF DialectInv, TypeOK, OneDialect, ScanInv, JobInv, CodeInv,
       DialectRecorded, Declares, DialectComments, WellFormed,
       FlushBytecodeFromSFI, jobVars, scanVars

\* A finished scan has found out all that the text says about its dialect.
LEMMA FinishedScript ==
  ASSUME DialectInv, Finished, ~parserError, parse \in {"compile", "editNew"}
  PROVE  WellFormed(text) /\ Declares(text, dialect) /\ fn = Toplevel
  <1>1. fn = Toplevel /\ pos > Size /\ pos \in Int /\ Size \in Nat
    BY LayoutAssumption
    DEF DialectInv, TypeOK, JobInv, Finished, EndPosition, StartPosition
  <1>2. \A i \in DialectComments(text) : i < pos
    BY <1>1 DEF DialectComments
  <1>3. WellFormed(text)
    BY <1>1, <1>2 DEF DialectInv, ScanInv, WellFormed
  <1>4. Declares(text, dialect)
    BY <1>1, <1>2 DEF DialectInv, ScanInv, JobInv, Declares
  <1> QED
    BY <1>1, <1>3, <1>4

\* The readings of a literal are complete when the scan is.
LEMMA FinishedReadings ==
  ASSUME TypeOK, Finished, ~parserError,
         NEW f \in Literals, f = fn \/ fn = Toplevel
  PROVE  /\ ReadingsOf(f) \in [Span(f) -> Readings]
         /\ \A i \in Span(f) : i \in DOMAIN out /\ ReadingsOf(f)[i] = out[i]
  <1>1. /\ fn \in Literals
        /\ pos \in StartPosition(fn)..(EndPosition(fn) + 1) /\ pos > EndPosition(fn)
        /\ out \in [StartPosition(fn)..(pos - 1) -> Readings]
    BY DEF TypeOK, Finished
  <1>2. /\ StartPosition(fn) \in Int /\ EndPosition(fn) \in Int
        /\ Span(fn) \subseteq StartPosition(fn)..EndPosition(fn)
        /\ Span(f) \subseteq 1..Size
    BY <1>1, Positions
  <1>3. pos - 1 = EndPosition(fn)
    BY <1>1, <1>2
  <1>4. Span(f) \subseteq StartPosition(fn)..EndPosition(fn)
    BY <1>2 DEF StartPosition, EndPosition
  <1>5. \A i \in Span(f) : i \in DOMAIN out /\ out[i] \in Readings
    BY <1>1, <1>3, <1>4
  <1> QED
    BY <1>5 DEF ReadingsOf

\* Bytecode emitted from a finished scan has its type.
LEMMA EmitTypes ==
  ASSUME TypeOK, Finished, ~parserError, NEW eager \in SUBSET Functions,
         EmitBytecode(eager)
  PROVE  /\ DOMAIN code' = Literals
         /\ \A f \in Literals : code'[f] = NoCode \/ code'[f] \in [Span(f) -> Readings]
  <1>1. DOMAIN code' = Literals
    BY DEF EmitBytecode
  <1>2. ASSUME NEW f \in Literals
        PROVE  code'[f] = NoCode \/ code'[f] \in [Span(f) -> Readings]
    <2>1. CASE code[f] = NoCode /\ (f = fn \/ (fn = Toplevel /\ f \in eager))
      BY <2>1, FinishedReadings DEF EmitBytecode
    <2>2. CASE ~(code[f] = NoCode /\ (f = fn \/ (fn = Toplevel /\ f \in eager)))
      BY <2>2 DEF EmitBytecode, TypeOK
    <2> QED
      BY <2>1, <2>2
  <1> QED
    BY <1>1, <1>2

LEMMA FinishToplevelPreserves == DialectInv /\ FinishToplevel => DialectInv'
  <1> SUFFICES ASSUME DialectInv, FinishToplevel PROVE DialectInv'
    OBVIOUS
  <1>1. /\ script \in [source : Sources, dialect : Dialects \union {Undefined},
                       compiled : BOOLEAN]
        /\ dialect \in Dialects /\ parserError \in BOOLEAN
        /\ text = script.source /\ ~script.compiled
    BY DEF DialectInv, TypeOK, JobInv, FinishToplevel
  <1>2. /\ script' \in [source : Sources, dialect : Dialects \union {Undefined},
                        compiled : BOOLEAN]
        /\ script'.source = script.source /\ script'.dialect = dialect
        /\ script'.compiled = ~parserError
    BY <1>1 DEF FinishToplevel, HandleSourceURLComments
  <1>3. ParseTypes' /\ OneDialect' /\ ScanInv' /\ JobInv'
    BY <1>1, <1>2, StopEstablishes DEF FinishToplevel
  <1>4. /\ DOMAIN code' = Literals
        /\ \A f \in Literals : code'[f] = NoCode \/ code'[f] \in [Span(f) -> Readings]
        /\ CodeInv'
    <2>1. CASE parserError
      BY <1>1, <2>1 DEF DialectInv, TypeOK, CodeInv, FinishToplevel
    <2>2. CASE ~parserError
      BY <1>2, <2>2, EmitTypes DEF DialectInv, CodeInv, FinishToplevel
    <2> QED
      BY <2>1, <2>2
  <1>5. TypeOK'
    BY <1>2, <1>3, <1>4 DEF DialectInv, TypeOK, ParseTypes, FinishToplevel
  <1>6. DialectRecorded'
    <2> SUFFICES ASSUME ~parserError
                 PROVE  WellFormed(script'.source)
                        /\ Declares(script'.source, script'.dialect)
      BY <1>2 DEF DialectRecorded, WellFormed, Declares, DialectComments
    <2> QED
      BY <1>1, <1>2, FinishedScript DEF FinishToplevel
  <1> QED
    BY <1>3, <1>4, <1>5, <1>6 DEF DialectInv

\* What recording the dialect again does to a compiled script: nothing.
LEMMA RecordedAgain ==
  ASSUME DialectInv, parse \in {"function", "reparse", "editOld"},
         script' = HandleSourceURLComments(script) \/ script' = script
  PROVE  /\ script' \in [source : Sources, dialect : Dialects \union {Undefined},
                         compiled : BOOLEAN]
         /\ script'.source = script.source /\ script'.compiled
         /\ script'.source \in Sources
         /\ DialectRecorded'
  <1>1. /\ script \in [source : Sources, dialect : Dialects \union {Undefined},
                       compiled : BOOLEAN]
        /\ dialect \in Dialects /\ script.compiled /\ text = script.source
        /\ Declares(text, dialect)
    BY DEF DialectInv, TypeOK, JobInv
  <1>2. /\ script' \in [source : Sources, dialect : Dialects \union {Undefined},
                        compiled : BOOLEAN]
        /\ script'.source = script.source /\ script'.compiled
        /\ script'.dialect = dialect \/ script'.dialect = script.dialect
    BY <1>1 DEF HandleSourceURLComments
  <1>3. WellFormed(script.source) /\ Declares(script.source, script.dialect)
    BY <1>1 DEF DialectInv, DialectRecorded
  <1>4. WellFormed(script'.source) /\ Declares(script'.source, script'.dialect)
    BY <1>1, <1>2, <1>3
  <1> QED
    BY <1>1, <1>2, <1>4 DEF DialectRecorded, WellFormed, Declares, DialectComments

LEMMA FinishCompilePreserves == DialectInv /\ FinishCompile => DialectInv'
  <1> SUFFICES ASSUME DialectInv, FinishCompile PROVE DialectInv'
    OBVIOUS
  <1>1. /\ script' \in [source : Sources, dialect : Dialects \union {Undefined},
                         compiled : BOOLEAN]
        /\ script'.compiled /\ script'.source \in Sources /\ DialectRecorded'
    BY RecordedAgain DEF FinishCompile
  <1>2. ParseTypes' /\ OneDialect' /\ ScanInv' /\ JobInv'
    BY <1>1, StopEstablishes DEF FinishCompile
  <1>3. /\ DOMAIN code' = Literals
        /\ \A f \in Literals : code'[f] = NoCode \/ code'[f] \in [Span(f) -> Readings]
    <2>1. CASE parserError
      BY <2>1 DEF DialectInv, TypeOK, FinishCompile
    <2>2. CASE ~parserError
      BY <2>2, EmitTypes DEF DialectInv, FinishCompile
    <2> QED
      BY <2>1, <2>2
  <1>4. TypeOK'
    BY <1>1, <1>2, <1>3 DEF DialectInv, TypeOK, ParseTypes, FinishCompile
  <1> QED
    BY <1>1, <1>2, <1>4 DEF DialectInv, CodeInv

LEMMA FinishReparsePreserves == DialectInv /\ FinishReparse => DialectInv'
  <1> SUFFICES ASSUME DialectInv, FinishReparse PROVE DialectInv'
    OBVIOUS
  <1>1. /\ script' \in [source : Sources, dialect : Dialects \union {Undefined},
                         compiled : BOOLEAN]
        /\ script'.compiled /\ script'.source \in Sources /\ DialectRecorded'
    BY RecordedAgain DEF FinishReparse
  <1>2. ParseTypes' /\ OneDialect' /\ ScanInv' /\ JobInv'
    BY <1>1, StopEstablishes DEF FinishReparse
  <1>3. TypeOK'
    BY <1>1, <1>2 DEF DialectInv, TypeOK, ParseTypes, FinishReparse
  <1> QED
    BY <1>1, <1>2, <1>3 DEF DialectInv, CodeInv

LEMMA CloneScriptPreserves == DialectInv /\ CloneScript => DialectInv'
  <1> SUFFICES ASSUME DialectInv, CloneScript PROVE DialectInv'
    OBVIOUS
  <1>1. /\ script' \in [source : Sources, dialect : Dialects \union {Undefined},
                         compiled : BOOLEAN]
        /\ script'.compiled /\ script'.source \in Sources /\ DialectRecorded'
    BY RecordedAgain DEF CloneScript
  <1>2. CASE parserError
    <2>1. ParseTypes' /\ OneDialect' /\ ScanInv' /\ JobInv'
      BY <1>1, <1>2, StopEstablishes DEF CloneScript
    <2>2. TypeOK'
      BY <1>1, <2>1 DEF DialectInv, TypeOK, ParseTypes, CloneScript
    <2> QED
      BY <1>1, <2>1, <2>2 DEF DialectInv, CodeInv
  <1>3. CASE ~parserError
    <2>1. SetFlagsForFunctionFromScript([dialect |-> Undefined]) = "js-eng"
      BY DEF SetFlagsForFunctionFromScript, Undefined
    <2>2. /\ Initialize("editNew", Toplevel, newSource, "js-eng")
          /\ newSource' = newSource /\ newSource \in Sources
      BY <1>3, <2>1 DEF CloneScript, DialectInv, TypeOK
    <2>3. ParseTypes' /\ OneDialect' /\ ScanInv'
      BY <2>2, InitializeEstablishes DEF Parses, Dialects, Literals
    <2>4. TypeOK'
      BY <1>1, <2>3 DEF DialectInv, TypeOK, ParseTypes, CloneScript
    <2>5. JobInv'
      BY <1>1, <2>2 DEF JobInv, Initialize
    <2> QED
      BY <1>1, <2>3, <2>4, <2>5 DEF DialectInv, CodeInv
  <1> QED
    BY <1>2, <1>3

LEMMA AbandonPatchPreserves == DialectInv /\ AbandonPatch => DialectInv'
  <1> SUFFICES ASSUME DialectInv, AbandonPatch PROVE DialectInv'
    OBVIOUS
  <1>1. script'.source \in Sources
    BY DEF DialectInv, TypeOK, AbandonPatch
  <1>2. ParseTypes' /\ OneDialect' /\ ScanInv' /\ JobInv'
    BY <1>1, StopEstablishes DEF AbandonPatch
  <1>3. TypeOK'
    BY <1>2 DEF DialectInv, TypeOK, ParseTypes, AbandonPatch
  <1> QED
    BY <1>2, <1>3 DEF DialectInv, CodeInv, DialectRecorded, Declares, WellFormed,
       DialectComments, AbandonPatch

\* The script that a finished patch installs.
LEMMA PatchedScript ==
  ASSUME DialectInv, FinishPatch
  PROVE  /\ script' = [source |-> text, dialect |-> dialect, compiled |-> TRUE]
         /\ text = newSource /\ text \in Sources /\ dialect \in Dialects
         /\ script.compiled /\ fn = Toplevel
         /\ WellFormed(text) /\ Declares(text, dialect)
  <1>1. parse = "editNew" /\ Finished /\ ~parserError
    BY DEF FinishPatch
  <1>2. /\ text = newSource /\ text \in Sources /\ dialect \in Dialects
        /\ script.compiled /\ fn = Toplevel
    BY <1>1 DEF DialectInv, TypeOK, JobInv
  <1>3. WellFormed(text) /\ Declares(text, dialect)
    BY <1>1, FinishedScript
  <1> QED
    BY <1>2, <1>3 DEF FinishPatch, HandleSourceURLComments

LEMMA FinishPatchPreserves == DialectInv /\ FinishPatch => DialectInv'
  <1> SUFFICES ASSUME DialectInv, FinishPatch PROVE DialectInv'
    OBVIOUS
  <1>1. /\ script' = [source |-> text, dialect |-> dialect, compiled |-> TRUE]
        /\ text \in Sources /\ dialect \in Dialects /\ fn = Toplevel
        /\ WellFormed(text) /\ Declares(text, dialect)
    BY PatchedScript
  <1>2. ParseTypes' /\ OneDialect' /\ ScanInv' /\ JobInv'
    BY <1>1, StopEstablishes DEF FinishPatch
  <1>3. /\ DOMAIN code' = Literals
        /\ \A f \in Literals : code'[f] = NoCode \/ code'[f] \in [Span(f) -> Readings]
    <2>1. PICK damaged \in SUBSET Functions : MapLiterals(damaged)
      BY DEF FinishPatch
    <2>2. TypeOK /\ Finished /\ ~parserError
      BY DEF DialectInv, FinishPatch
    <2>3. ASSUME NEW f \in Literals
          PROVE  code'[f] = ReadingsOf(f) \/ code'[f] = code[f]
      BY <2>1 DEF MapLiterals
    <2>4. DOMAIN code' = Literals
      BY <2>1 DEF MapLiterals
    <2> QED
      BY <1>1, <2>2, <2>3, <2>4, FinishedReadings DEF TypeOK
  <1>4. script' \in [source : Sources, dialect : Dialects \union {Undefined},
                     compiled : BOOLEAN]
    BY <1>1
  <1>5. flushing' \in BOOLEAN
    BY DEF FinishPatch
  <1>6. TypeOK'
    BY <1>2, <1>3, <1>4, <1>5 DEF TypeOK, ParseTypes
  <1>7. script'.source = text /\ script'.dialect = dialect /\ script'.compiled
    BY <1>1
  <1>8. WellFormed(script'.source) /\ Declares(script'.source, script'.dialect)
    BY <1>1, <1>7
  <1> QED
    BY <1>2, <1>6, <1>7, <1>8 DEF DialectInv, CodeInv, DialectRecorded, WellFormed,
       Declares, DialectComments

-----------------------------------------------------------------------------
LEMMA NextPreserves == DialectInv /\ [Next]_vars => DialectInv'
  <1> SUFFICES ASSUME DialectInv, [Next]_vars PROVE DialectInv'
    OBVIOUS
  <1>1. CASE UNCHANGED vars
    BY <1>1 DEF DialectInv, TypeOK, OneDialect, ScanInv, JobInv, CodeInv,
       DialectRecorded, Declares, DialectComments, WellFormed, vars, scriptVars,
       jobVars, scanVars
  <1>2. CASE Next
    BY <1>2, CompileToplevelPreserves, PatchScriptPreserves, CompilePreserves,
       ReparsePreserves, FlushBytecodePreserves, ApplyBookmarkPreserves,
       ScanPreserves, SkipSingleLineCommentPreserves,
       TrySetSourceDialectPreserves, SetParserErrorPreserves,
       FinishToplevelPreserves, FinishCompilePreserves, FinishReparsePreserves,
       CloneScriptPreserves, AbandonPatchPreserves, FinishPatchPreserves
    DEF Next
  <1> QED
    BY <1>1, <1>2

\* DialectInv, the inductive invariant of the scanner and of the parses that
\* write and read Script::source_dialect, holds in every reachable state.
THEOREM DialectInvariant == Spec => []DialectInv
  <1>1. Init => DialectInv
    BY InitEstablishes
  <1>2. DialectInv /\ [Next]_vars => DialectInv'
    BY NextPreserves
  <1> QED
    BY <1>1, <1>2, PTL DEF Spec

\* The scanner's position, dialect and flags, the Script's dialect and the code
\* of its functions stay within their types through every parse.
THEOREM TypeCorrect == Spec => []TypeOK
  <1>1. DialectInv => TypeOK
    BY DEF DialectInv
  <1> QED
    BY <1>1, DialectInvariant, PTL

\* No text is ever read in two dialects (Scanner::TrySetSourceDialect and
\* BookmarkScope::Apply).
THEOREM NeverTwoDialects == Spec => []OneDialect
  <1>1. DialectInv => OneDialect
    BY DEF DialectInv
  <1> QED
    BY <1>1, DialectInvariant, PTL

\* Script::source_dialect of a compiled script is what its text declares
\* (Parser::HandleSourceURLComments).
THEOREM RecordedIsDeclared == Spec => []DialectRecorded
  <1>1. DialectInv => DialectRecorded
    BY DEF DialectInv
  <1> QED
    BY <1>1, DialectInvariant, PTL

\* Lazy compilations and reparses read every word in the dialect that the text
\* of the script declares (SetFlagsForFunctionFromScript).
THEOREM LaterParsesReadTheSame == Spec => []LaterParsesAgree
  <1>1. DialectInv => LaterParsesAgree
    <2> SUFFICES ASSUME DialectInv, parse \in {"function", "reparse"},
                        NEW i \in DOMAIN out
                 PROVE  \E d \in Dialects :
                          Declares(script.source, d)
                          /\ out[i] = Reading(d, script.source[i])
      BY DEF LaterParsesAgree
    <2>1. Declares(script.source, dialect) /\ text = script.source
      BY DEF DialectInv, JobInv
    <2>2. out[i] = Reading(dialect, text[i]) /\ dialect \in Dialects
      BY DEF DialectInv, OneDialect, TypeOK
    <2> QED
      BY <2>1, <2>2
  <1> QED
    BY <1>1, DialectInvariant, PTL

-----------------------------------------------------------------------------
(* Bytecode, when every edit keeps the dialect.                            *)

\* The texts that are compiled or edited in all declare one dialect.
SourcesAgree ==
  \A s, t \in Sources : WellFormed(s) /\ WellFormed(t) =>
    \A d \in Dialects : Declares(s, d) => Declares(t, d)

\* A literal's bytecode is right for a text.
Matches(c, f, src) ==
  c # NoCode => \A i \in Span(f) : \E d \in Dialects :
                  Declares(src, d) /\ c[i] = Reading(d, src[i])

\* A finished scan yields the right bytecode for the text it read.
LEMMA ReadingsMatch ==
  ASSUME DialectInv, Finished, ~parserError, Declares(text, dialect),
         NEW f \in Literals, f = fn \/ fn = Toplevel
  PROVE  Matches(ReadingsOf(f), f, text)
  <1>1. \A i \in Span(f) : i \in DOMAIN out /\ ReadingsOf(f)[i] = out[i]
    BY FinishedReadings DEF DialectInv
  <1>2. dialect \in Dialects
    BY DEF DialectInv, TypeOK
  <1>3. \A i \in Span(f) : ReadingsOf(f)[i] = Reading(dialect, text[i])
    BY <1>1 DEF DialectInv, OneDialect
  <1> QED
    BY <1>2, <1>3 DEF Matches

LEMMA EmitMatches ==
  ASSUME DialectInv, CodeMatchesScript, Finished, ~parserError,
         Declares(text, dialect), text = script.source,
         script'.source = script.source,
         NEW eager \in SUBSET Functions, EmitBytecode(eager)
  PROVE  CodeMatchesScript'
  <1> SUFFICES ASSUME NEW f \in Literals
               PROVE  Matches(code'[f], f, script.source)
    BY DEF CodeMatchesScript, Matches, Declares, DialectComments
  <1>1. CASE code[f] = NoCode /\ (f = fn \/ (fn = Toplevel /\ f \in eager))
    BY <1>1, ReadingsMatch DEF EmitBytecode
  <1>2. CASE ~(code[f] = NoCode /\ (f = fn \/ (fn = Toplevel /\ f \in eager)))
    BY <1>2 DEF EmitBytecode, CodeMatchesScript, Matches
  <1> QED
    BY <1>1, <1>2

\* A step that leaves source and bytecode alone.
LEMMA SameCode ==
  ASSUME CodeMatchesScript, script'.source = script.source, code' = code
  PROVE  CodeMatchesScript'
  BY DEF CodeMatchesScript, Declares, DialectComments

LEMMA CodeStep ==
  ASSUME DialectInv, CodeMatchesScript, [Next]_vars,
         FinishPatch =>
           \A d \in Dialects : Declares(script.source, d) => Declares(text, d)
  PROVE  CodeMatchesScript'
  <1>1. ASSUME NEW src \in Sources, CompileToplevel(src) PROVE CodeMatchesScript'
    BY <1>1 DEF CompileToplevel, CodeMatchesScript
  <1>2. ASSUME NEW src \in Sources, PatchScript(src) PROVE CodeMatchesScript'
    BY <1>2, SameCode DEF PatchScript
  <1>3. ASSUME NEW f \in Literals, Compile(f) \/ Reparse(f)
        PROVE  CodeMatchesScript'
    BY <1>3, SameCode DEF Compile, Reparse, scriptVars
  <1>4. ASSUME NEW f \in Literals, FlushBytecodeFromSFI(f)
        PROVE  CodeMatchesScript'
    BY <1>4 DEF FlushBytecodeFromSFI, CodeMatchesScript, Declares,
       DialectComments, DialectInv, TypeOK
  <1>5. ASSUME NEW f \in Functions, ApplyBookmark(f) PROVE CodeMatchesScript'
    BY <1>5, SameCode DEF ApplyBookmark, scriptVars
  <1>6. CASE \/ Scan \/ SkipSingleLineComment \/ TrySetSourceDialect
             \/ SetParserError \/ UNCHANGED vars
    BY <1>6, SameCode DEF Scan, SkipSingleLineComment, TrySetSourceDialect,
       SetParserError, vars, scriptVars
  <1>7. CASE FinishToplevel
    <2>1. script'.source = script.source /\ text = script.source
      BY <1>7 DEF DialectInv, TypeOK, JobInv, FinishToplevel,
         HandleSourceURLComments
    <2>2. CASE parserError
      BY <1>7, <2>1, <2>2, SameCode DEF FinishToplevel
    <2>3. CASE ~parserError
      BY <1>7, <2>1, <2>3, FinishedScript, EmitMatches DEF FinishToplevel
    <2> QED
      BY <2>2, <2>3
  <1>8. CASE FinishCompile
    <2>1. script'.source = script.source
      BY <1>8, RecordedAgain DEF FinishCompile
    <2>2. text = script.source /\ Declares(text, dialect)
      BY <1>8 DEF DialectInv, JobInv, FinishCompile
    <2>3. CASE parserError
      BY <1>8, <2>1, <2>3, SameCode DEF FinishCompile
    <2>4. CASE ~parserError
      BY <1>8, <2>1, <2>2, <2>4, EmitMatches DEF FinishCompile
    <2> QED
      BY <2>3, <2>4
  <1>9. CASE FinishReparse \/ CloneScript
    BY <1>9, RecordedAgain, SameCode DEF FinishReparse, CloneScript
  <1>10. CASE AbandonPatch
    BY <1>10, SameCode DEF AbandonPatch
  <1>11. CASE FinishPatch
    <2>1. /\ script'.source = text /\ text = newSource /\ text \in Sources
          /\ script.compiled /\ fn = Toplevel
          /\ WellFormed(text) /\ Declares(text, dialect)
      BY <1>11, PatchedScript
    <2>2. PICK damaged \in SUBSET Functions : MapLiterals(damaged)
      BY <1>11 DEF FinishPatch
    <2> SUFFICES ASSUME NEW f \in Literals
                 PROVE  Matches(code'[f], f, text)
      BY <2>1 DEF CodeMatchesScript, Matches, Declares, DialectComments
    <2>4. CASE HasChanges(f) \/ f \in damaged \/ (f = Toplevel /\ damaged # {})
      <3>1. code'[f] = ReadingsOf(f)
        BY <2>2, <2>4 DEF MapLiterals
      <3> QED
        BY <1>11, <2>1, <3>1, ReadingsMatch DEF FinishPatch
    <2>5. CASE ~(HasChanges(f) \/ f \in damaged \/ (f = Toplevel /\ damaged # {}))
      <3>1. code'[f] = code[f]
        BY <2>2, <2>5 DEF MapLiterals
      <3>2. \A i \in Span(f) : script.source[i] = text[i]
        BY <2>1, <2>5 DEF HasChanges
      <3>3. \A d \in Dialects : Declares(script.source, d) => Declares(text, d)
        BY <1>11
      <3> QED
        BY <3>1, <3>2, <3>3 DEF CodeMatchesScript, Matches
    <2> QED
      BY <2>4, <2>5
  <1> QED
    BY <1>1, <1>2, <1>3, <1>4, <1>5, <1>6, <1>7, <1>8, <1>9, <1>10, <1>11
    DEF Next

\* A step that does not change what the script declares, a live edit or any
\* other, leaves every function with the bytecode of its text
\* (LiveEdit::PatchScript, Compiler::Compile, FlushBytecodeFromSFI).
THEOREM CodeOnlyLostByDialect == Spec => EditsKeepCode
  <1>1. ASSUME DialectInv, [Next]_vars, CodeMatchesScript,
               \A d \in Dialects :
                 Declares(script.source, d) => Declares(script'.source, d)
        PROVE  CodeMatchesScript'
    <2>1. FinishPatch =>
            \A d \in Dialects : Declares(script.source, d) => Declares(text, d)
      <3> SUFFICES ASSUME FinishPatch
                   PROVE  \A d \in Dialects :
                            Declares(script.source, d) => Declares(text, d)
        OBVIOUS
      <3>1. script'.source = text
        BY <1>1, PatchedScript
      <3> QED
        BY <1>1, <3>1
    <2> QED
      BY <1>1, <2>1, CodeStep
  <1>2. DialectInv /\ [Next]_vars =>
          [/\ CodeMatchesScript
           /\ \A d \in Dialects :
                Declares(script.source, d) => Declares(script'.source, d)
           => CodeMatchesScript']_vars
    BY <1>1
  <1> QED
    BY <1>2, DialectInvariant, PTL DEF Spec, EditsKeepCode

\* If all texts of a script declare one dialect, the bytecode of every function
\* is what its text says, through flushing, recompilation and live edits that
\* move unchanged functions to a new script (LiveEdit::PatchScript).
THEOREM EditsInOneDialect ==
  ASSUME SourcesAgree
  PROVE  Spec => []CodeMatchesScript
  <1>1. Init => CodeMatchesScript
    BY DEF Init, CodeMatchesScript
  <1>2. DialectInv /\ CodeMatchesScript /\ [Next]_vars => CodeMatchesScript'
    <2> SUFFICES ASSUME DialectInv, CodeMatchesScript, [Next]_vars
                 PROVE  CodeMatchesScript'
      OBVIOUS
    <2>1. ASSUME FinishPatch
          PROVE  \A d \in Dialects : Declares(script.source, d) => Declares(text, d)
      <3>1. text \in Sources /\ script.compiled /\ WellFormed(text)
        BY <2>1, PatchedScript
      <3>2. script.source \in Sources /\ WellFormed(script.source)
        BY <3>1 DEF DialectInv, TypeOK, DialectRecorded
      <3> QED
        BY <3>1, <3>2 DEF SourcesAgree
    <2> QED
      BY <2>1, CodeStep
  <1> QED
    BY <1>1, <1>2, DialectInvariant, PTL DEF Spec
=============================================================================
