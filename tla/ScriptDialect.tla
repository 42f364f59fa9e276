--------------------------- MODULE ScriptDialect ---------------------------
(***************************************************************************)
(* The dialect of a script, from the magic comment in its text to the      *)
(* bytecode of its functions.  The scanner (parsing/scanner) finds the     *)
(* comment "sourceDialect=..." and reads every later word with the keyword *)
(* table of that dialect; the parser records the dialect in the Script     *)
(* (Script::source_dialect); every later parse of a part of the script, in *)
(* which the comment is not seen any more, takes the dialect from there    *)
(* (UnoptimizedCompileFlags::SetFlagsForFunctionFromScript).               *)
(*                                                                         *)
(* A source text is a row of Size items, words and comments.  All texts    *)
(* have one layout: function literal f is the items First[f] .. Last[f],   *)
(* the first of which is a token (the parenthesis of its parameters).      *)
(* One parse is under way at a time, and it is scanned item by item.       *)
(***************************************************************************)
EXTENDS Integers

CONSTANTS
  Words, Tokens, Names,  \* spellings; Token::Value; PseudoKeywordName
  Keywords,              \* keywords-<dialect>-gen.h: dialect -> word -> token
  PseudoKeywords,        \* pseudokeywords-gen.h: dialect -> word -> name
  Contextual,            \* the tokens from ASYNC to YIELD
  StrictReserved,        \* LET, STATIC and FUTURE_STRICT_RESERVED_WORD
  Functions, Toplevel,   \* the function literals of a script
  Size, First, Last,     \* the layout of the source texts
  Sources,               \* the source texts that are compiled or edited in
  NoCode                 \* of a SharedFunctionInfo that is not compiled

Dialects == {"js-eng", "js-spa"}
Literals == Functions \union {Toplevel}

\* What a comment says: nothing, a dialect, something else, or a value with
\* two-byte characters.
CommentValues == Dialects \union {"plain", "unknown", "wide"}
WordItems == [kind : {"word"}, word : Words, escaped : BOOLEAN]
CommentItems == [kind : {"comment"}, value : CommentValues]
Items == WordItems \union CommentItems

ASSUME TablesAssumption ==
  /\ \A d \in Dialects :
       /\ \A w \in DOMAIN Keywords[d] : Keywords[d][w] \in Tokens
       /\ \A w \in DOMAIN PseudoKeywords[d] : PseudoKeywords[d][w] \in Names
  /\ {"IDENTIFIER", "ESCAPED_KEYWORD", "ESCAPED_STRICT_RESERVED_WORD"}
       \subseteq Tokens
  /\ "none" \in Names

ASSUME LayoutAssumption ==
  /\ Size \in Nat
  /\ Toplevel \notin Functions
  /\ First \in [Functions -> 1..Size] /\ Last \in [Functions -> 1..Size]
  /\ \A f \in Functions : First[f] <= Last[f]
  /\ \A f, g \in Functions : f # g => First[f] > Last[g] \/ First[g] > Last[f]
  /\ Sources \subseteq [1..Size -> Items]
  /\ \A src \in Sources, f \in Functions : src[First[f]].kind = "word"

StartPosition(f) == IF f = Toplevel THEN 1 ELSE First[f]
EndPosition(f) == IF f = Toplevel THEN Size ELSE Last[f]

\* The items of a literal that are not items of a literal inside it.
Span(f) == IF f = Toplevel
             THEN {i \in 1..Size : \A g \in Functions : i \notin First[g]..Last[g]}
             ELSE First[f]..Last[f]

VARIABLES
  script,       \* the Script: source, source_dialect, and if it has functions
  newSource,    \* the source text of the Script that PatchScript clones
  code,         \* bytecode of the SharedFunctionInfo of each literal
  flushing,     \* ~isolate->disable_bytecode_flushing()
  \* the parse under way: who asked for it, the literal and the source text
  parse, fn, text,
  \* its Scanner
  pos,          \* the next item
  dialect,      \* source_dialect_
  sawToken,     \* saw_non_comment_token_
  foundComment, \* found_source_dialect_comment_
  parserError,  \* source_->has_parser_error()
  lazy,         \* Parser::allow_lazy_
  out           \* what the parser has made of the items before pos

scriptVars == <<script, newSource, code, flushing>>
jobVars == <<parse, fn, text>>
scanVars == <<pos, dialect, sawToken, foundComment, parserError, lazy, out>>
vars == <<scriptVars, jobVars, scanVars>>

Undefined == "undefined"
NoReading == [token |-> "none", name |-> "none"]

-----------------------------------------------------------------------------
(* The scanner.                                                            *)

KeywordOrIdentifierToken(d, w) ==
  IF w \in DOMAIN Keywords[d] THEN Keywords[d][w] ELSE "IDENTIFIER"

\* A word with unicode escapes is never an ordinary keyword.
ScanIdentifierOrKeyword(d, item) ==
  LET token == KeywordOrIdentifierToken(d, item.word)
  IN IF ~item.escaped \/ token \in Contextual \union {"IDENTIFIER"} THEN token
     ELSE IF token \in StrictReserved THEN "ESCAPED_STRICT_RESERVED_WORD"
     ELSE "ESCAPED_KEYWORD"

PseudoKeywordNameOf(d, w) ==
  IF w \in DOMAIN PseudoKeywords[d] THEN PseudoKeywords[d][w] ELSE "none"

\* What the parser makes of an item under dialect d.
Reading(d, item) ==
  IF item.kind = "word"
    THEN [token |-> ScanIdentifierOrKeyword(d, item),
          name |-> PseudoKeywordNameOf(d, item.word)]
    ELSE NoReading

\* Scanner::Initialize, with the dialect of the compile flags.
Initialize(kind, f, src, flagsDialect) ==
  /\ parse' = kind /\ fn' = f /\ text' = src
  /\ pos' = StartPosition(f) /\ dialect' = flagsDialect
  /\ sawToken' = FALSE /\ foundComment' = FALSE
  /\ parserError' = FALSE
  /\ lazy' = (kind \in {"compile", "function"})
  /\ out' = [i \in 1..0 |-> NoReading]

Scanning == parse # "idle" /\ ~parserError /\ pos <= EndPosition(fn)

Advance ==
  /\ pos' = pos + 1
  /\ out' = [i \in StartPosition(fn)..pos |->
               IF i = pos THEN Reading(dialect, text[pos]) ELSE out[i]]

Scan ==
  /\ Scanning
  /\ text[pos].kind = "word"
  /\ Advance
  /\ sawToken' = TRUE
  /\ UNCHANGED <<scriptVars, jobVars, dialect, foundComment, parserError, lazy>>

\* A comment that is no magic comment, or whose value is not one-byte.
SkipSingleLineComment ==
  /\ Scanning
  /\ text[pos].kind = "comment" /\ text[pos].value \in {"plain", "wide"}
  /\ Advance
  /\ UNCHANGED <<scriptVars, jobVars, dialect, sawToken, foundComment,
                 parserError, lazy>>

\* Mutant: a dialect comment is accepted after the first token.
TrySetDialectAnywhere ==
  /\ Scanning
  /\ text[pos].kind = "comment" /\ text[pos].value \notin {"plain", "wide"}
  /\ IF foundComment \/ text[pos].value \notin Dialects
       THEN /\ parserError' = TRUE
            /\ UNCHANGED <<pos, dialect, foundComment, out>>
       ELSE /\ dialect' = text[pos].value
            /\ foundComment' = TRUE
            /\ Advance
            /\ UNCHANGED parserError
  /\ UNCHANGED <<scriptVars, jobVars, sawToken, lazy>>

\* Mutant: a second dialect comment replaces the first.
TrySetDialectAgain ==
  /\ Scanning
  /\ text[pos].kind = "comment" /\ text[pos].value \notin {"plain", "wide"}
  /\ IF sawToken \/ text[pos].value \notin Dialects
       THEN /\ parserError' = TRUE
            /\ UNCHANGED <<pos, dialect, foundComment, out>>
       ELSE /\ dialect' = text[pos].value
            /\ foundComment' = TRUE
            /\ Advance
            /\ UNCHANGED parserError
  /\ UNCHANGED <<scriptVars, jobVars, sawToken, lazy>>

TrySetSourceDialect ==
  /\ Scanning
  /\ text[pos].kind = "comment" /\ text[pos].value \notin {"plain", "wide"}
  /\ IF sawToken \/ foundComment \/ text[pos].value \notin Dialects
       THEN /\ parserError' = TRUE
            /\ UNCHANGED <<pos, dialect, foundComment, out>>
       ELSE /\ dialect' = text[pos].value
            /\ foundComment' = TRUE
            /\ Advance
            /\ UNCHANGED parserError
  /\ UNCHANGED <<scriptVars, jobVars, sawToken, lazy>>

\* Any other syntax error, or a stack overflow.  Initialize has scanned the
\* first token before the parser can meet one.
SetParserError ==
  /\ parse # "idle" /\ ~parserError
  /\ sawToken \/ pos > EndPosition(fn)
  /\ parserError' = TRUE
  /\ UNCHANGED <<scriptVars, jobVars, pos, dialect, sawToken, foundComment,
                 lazy, out>>

\* SkipFunction: the preparser met an error it cannot identify, such as the
\* illegal token after a misplaced dialect comment.  The error is dropped, and
\* function f is scanned again from its start, this time by the parser.
ApplyBookmark(f) ==
  /\ parse # "idle" /\ fn = Toplevel /\ lazy
  /\ pos - 1 \in First[f]..Last[f] /\ (parserError => pos <= Last[f])
  /\ pos' = First[f]
  /\ out' = [i \in StartPosition(fn)..(First[f] - 1) |-> out[i]]
  /\ lazy' = FALSE /\ parserError' = FALSE
  /\ UNCHANGED <<scriptVars, jobVars, dialect, sawToken, foundComment>>

-----------------------------------------------------------------------------
(* Who parses, and what becomes of the result.                             *)

\* Mutant: the dialect is recorded only when this parse met the comment.
RecordIfCommented(s) == IF foundComment THEN [s EXCEPT !.dialect = dialect] ELSE s

\* Parser::HandleSourceURLComments, whether the parse succeeded or not.
HandleSourceURLComments(s) == [s EXCEPT !.dialect = dialect]

\* Mutant: the flags keep their default dialect.
DefaultFlags(s) == "js-eng"

SetFlagsForFunctionFromScript(s) ==
  IF s.dialect = "js-spa" THEN "js-spa" ELSE "js-eng"

Finished == parse # "idle" /\ (parserError \/ pos > EndPosition(fn))

\* The parser and its scanner are destroyed.
StopParsing ==
  /\ parse' = "idle" /\ fn' = Toplevel /\ text' = script'.source
  /\ newSource' = script'.source
  /\ pos' = 1 /\ dialect' = "js-eng" /\ sawToken' = FALSE
  /\ foundComment' = FALSE /\ parserError' = FALSE /\ lazy' = FALSE
  /\ out' = [i \in 1..0 |-> NoReading]

ReadingsOf(f) == [i \in Span(f) |-> out[i]]

\* The literals that get bytecode from this parse: the one it was for and,
\* when that is the script, the functions that are compiled eagerly.
EmitBytecode(eager) ==
  code' = [f \in Literals |->
             IF code[f] = NoCode /\ (f = fn \/ (fn = Toplevel /\ f \in eager))
               THEN ReadingsOf(f) ELSE code[f]]

CompileToplevel(src) ==
  /\ parse = "idle" /\ ~script.compiled
  /\ script' = [source |-> src, dialect |-> Undefined, compiled |-> FALSE]
  /\ newSource' = src
  /\ code' = [f \in Literals |-> NoCode]
  /\ Initialize("compile", Toplevel, src, "js-eng")
  /\ UNCHANGED flushing

FinishToplevel ==
  /\ parse = "compile" /\ Finished
  /\ script' = [HandleSourceURLComments(script) EXCEPT !.compiled = ~parserError]
  /\ IF parserError THEN UNCHANGED code
                    ELSE \E eager \in SUBSET Functions : EmitBytecode(eager)
  /\ StopParsing
  /\ UNCHANGED flushing

\* Compiler::Compile of a literal without bytecode.
Compile(f) ==
  /\ parse = "idle" /\ script.compiled /\ code[f] = NoCode
  /\ Initialize("function", f, script.source,
                SetFlagsForFunctionFromScript(script))
  /\ UNCHANGED scriptVars

\* The parse of the toplevel function is a ParseProgram, which records the
\* dialect again.
FinishCompile ==
  /\ parse = "function" /\ Finished
  /\ script' = IF fn = Toplevel THEN HandleSourceURLComments(script) ELSE script
  /\ IF parserError THEN UNCHANGED code
                    ELSE \E eager \in SUBSET Functions : EmitBytecode(eager)
  /\ StopParsing
  /\ UNCHANGED flushing

\* A parse for scopes, messages or source positions of compiled code: of the
\* function alone, or of the whole script.
Reparse(f) ==
  /\ parse = "idle" /\ script.compiled /\ code[f] # NoCode
  /\ \E whole \in BOOLEAN :
       Initialize("reparse", IF whole THEN Toplevel ELSE f, script.source,
                  SetFlagsForFunctionFromScript(script))
  /\ UNCHANGED scriptVars

FinishReparse ==
  /\ parse = "reparse" /\ Finished
  /\ script' = IF fn = Toplevel THEN HandleSourceURLComments(script) ELSE script
  /\ StopParsing
  /\ UNCHANGED <<code, flushing>>

\* A garbage collection throws away the bytecode of an old function.
FlushBytecodeFromSFI(f) ==
  /\ flushing /\ parse = "idle"
  /\ code[f] # NoCode
  /\ code' = [code EXCEPT ![f] = NoCode]
  /\ UNCHANGED <<script, newSource, flushing, jobVars, scanVars>>

-----------------------------------------------------------------------------
(* LiveEdit::PatchScript.                                                  *)

PatchScript(src) ==
  /\ parse = "idle" /\ script.compiled /\ src # script.source
  /\ newSource' = src
  /\ Initialize("editOld", Toplevel, script.source,
                SetFlagsForFunctionFromScript(script))
  /\ UNCHANGED <<script, code, flushing>>

\* The old text is parsed; clone the script, whose source_dialect is not
\* copied, and compile the new text.
CloneScript ==
  /\ parse = "editOld" /\ Finished
  /\ script' = HandleSourceURLComments(script)
  /\ IF parserError
       THEN StopParsing
       ELSE /\ Initialize("editNew", Toplevel, newSource,
                          SetFlagsForFunctionFromScript([dialect |-> Undefined]))
            /\ UNCHANGED newSource
  /\ UNCHANGED <<code, flushing>>

\* A compile error, a preview, or a changed function that is active.
AbandonPatch ==
  /\ parse = "editNew" /\ Finished
  /\ UNCHANGED <<script, code, flushing>>
  /\ StopParsing

\* Mutant: a difference at the end of the literal is missed.
HasChangesBeforeEnd(f) ==
  \E i \in Span(f) \ {EndPosition(f)} : script.source[i] # newSource[i]

\* CalculateFunctionLiteralChanges: whether a difference lies in the literal.
HasChanges(f) == \E i \in Span(f) : script.source[i] # newSource[i]

\* A literal whose outer scope has changed is damaged and has no counterpart,
\* which makes its outer literal a changed one.  The functions that have not
\* changed move with their bytecode to the new script.
MapLiterals(damaged) ==
  code' = [f \in Literals |->
             IF HasChanges(f) \/ f \in damaged \/ (f = Toplevel /\ damaged # {})
               THEN ReadingsOf(f) ELSE code[f]]

FinishPatch ==
  /\ parse = "editNew" /\ Finished /\ ~parserError
  /\ script' = HandleSourceURLComments(
                 [source |-> newSource, dialect |-> Undefined, compiled |-> TRUE])
  /\ flushing' = FALSE
  /\ \E damaged \in SUBSET Functions : MapLiterals(damaged)
  /\ StopParsing

-----------------------------------------------------------------------------
Init ==
  /\ \E src \in Sources :
       /\ script = [source |-> src, dialect |-> Undefined, compiled |-> FALSE]
       /\ newSource = src /\ text = src
  /\ code = [f \in Literals |-> NoCode]
  /\ flushing = TRUE
  /\ parse = "idle" /\ fn = Toplevel
  /\ pos = 1 /\ dialect = "js-eng" /\ sawToken = FALSE /\ foundComment = FALSE
  /\ parserError = FALSE /\ lazy = FALSE
  /\ out = [i \in 1..0 |-> NoReading]

Next ==
  \/ \E src \in Sources : CompileToplevel(src) \/ PatchScript(src)
  \/ \E f \in Literals : Compile(f) \/ Reparse(f) \/ FlushBytecodeFromSFI(f)
  \/ \E f \in Functions : ApplyBookmark(f)
  \/ Scan \/ SkipSingleLineComment \/ TrySetSourceDialect \/ SetParserError
  \/ FinishToplevel \/ FinishCompile \/ FinishReparse
  \/ CloneScript \/ AbandonPatch \/ FinishPatch

Spec == Init /\ [][Next]_vars

-----------------------------------------------------------------------------
(* What a text says about its dialect, without scanning it.                *)

DialectComments(src) ==
  {i \in 1..Size : src[i].kind = "comment" /\ src[i].value \notin {"plain", "wide"}}

\* At most one dialect comment, of a known dialect, before all words.
WellFormed(src) ==
  /\ \A i \in DialectComments(src) :
       /\ src[i].value \in Dialects
       /\ \A j \in 1..i : src[j].kind = "comment"
       /\ \A j \in DialectComments(src) : i = j

\* d is the dialect of src: the one its comment names, by default js-eng.
Declares(src, d) ==
  IF DialectComments(src) = {} THEN d = "js-eng"
  ELSE \E i \in DialectComments(src) : d = src[i].value

-----------------------------------------------------------------------------
(* Properties.                                                             *)

Readings == [token : Tokens \union {"none"}, name : Names]
Parses == {"idle", "compile", "function", "reparse", "editOld", "editNew"}

\* Every variable holds a value of its C++ type, and the parser has made
\* something of exactly the items before the scanner's position.
TypeOK ==
  /\ script \in [source : Sources, dialect : Dialects \union {Undefined},
                compiled : BOOLEAN]
  /\ newSource \in Sources /\ text \in Sources
  /\ DOMAIN code = Literals
  /\ \A f \in Literals : code[f] = NoCode \/ code[f] \in [Span(f) -> Readings]
  /\ flushing \in BOOLEAN
  /\ parse \in Parses /\ fn \in Literals
  /\ pos \in StartPosition(fn)..(EndPosition(fn) + 1)
  /\ dialect \in Dialects
  /\ sawToken \in BOOLEAN /\ foundComment \in BOOLEAN
  /\ parserError \in BOOLEAN /\ lazy \in BOOLEAN
  /\ out \in [StartPosition(fn)..(pos - 1) -> Readings]

\* TrySetSourceDialect accepts a comment in the middle of a scan, and a bookmark
\* takes the scanner back without resetting its dialect; still no text is ever
\* read in two dialects: what the parser has made of each item is what the
\* scanner's present dialect makes of it.
OneDialect == \A i \in DOMAIN out : out[i] = Reading(dialect, text[i])

\* HandleSourceURLComments runs after every parse of a whole script, also after
\* one that fails.  A script that has been compiled has no misplaced, second or
\* unknown dialect comment, and its source_dialect is the one its text
\* declares, whatever has been parsed since.
DialectRecorded ==
  script.compiled => /\ WellFormed(script.source)
                     /\ Declares(script.source, script.dialect)

\* A lazy compilation or a reparse starts after the dialect comment and knows
\* the dialect only from the Script (SetFlagsForFunctionFromScript).  It reads
\* each word as the dialect that the text declares says.
LaterParsesAgree ==
  parse \in {"function", "reparse"} =>
    \A i \in DOMAIN out : \E d \in Dialects :
      Declares(script.source, d) /\ out[i] = Reading(d, script.source[i])

\* The bytecode of a function is what compiling its text in its script yields,
\* however often it is flushed, compiled again or moved to an edited script.
CodeMatchesScript ==
  \A f \in Literals : code[f] # NoCode =>
    \A i \in Span(f) : \E d \in Dialects :
      Declares(script.source, d) /\ code[f][i] = Reading(d, script.source[i])

\* LiveEdit compares texts and not dialects, so that an edit of the dialect
\* comment may leave bytecode of the old dialect behind.  Nothing else does: a
\* step after which the script declares what it declared before, an edit that
\* moves unchanged functions to the new script included, keeps all bytecode
\* right.
EditsKeepCode ==
  [][/\ CodeMatchesScript
     /\ \A d \in Dialects : Declares(script.source, d) => Declares(script'.source, d)
     => CodeMatchesScript']_vars

-----------------------------------------------------------------------------
(* The inductive invariant behind these properties.                        *)

\* What the scanner knows of the part of a script that it has read.
ScanInv ==
  fn = Toplevel =>
    /\ ~sawToken => \A i \in 1..(pos - 1) : text[i].kind = "comment"
    /\ \A i \in DialectComments(text) : i < pos =>
         /\ foundComment
         /\ text[i].value \in Dialects /\ text[i].value = dialect
         /\ \A j \in 1..i : text[j].kind = "comment"
         /\ \A j \in DialectComments(text) : j < pos => i = j

\* Which text each kind of parse reads, and where its dialect comes from.
JobInv ==
  /\ parse \in {"compile", "editNew"} =>
       /\ fn = Toplevel
       /\ IF foundComment
            THEN \E i \in DialectComments(text) : dialect = text[i].value
            ELSE dialect = "js-eng"
  /\ parse = "compile" => ~script.compiled /\ text = script.source
  /\ parse = "editNew" => script.compiled /\ text = newSource
  /\ parse \in {"function", "reparse", "editOld"} =>
       /\ script.compiled /\ text = script.source
       /\ Declares(text, dialect)
  /\ parse = "editOld" => fn = Toplevel

CodeInv == ~script.compiled => \A f \in Literals : code[f] = NoCode

\* TypeOK, OneDialect and DialectRecorded with what they rest on: how far the
\* scanner's flags reflect the text before its position, and which text and
\* which dialect each parse of a script works with.
DialectInv ==
  /\ TypeOK
  /\ OneDialect
  /\ ScanInv
  /\ JobInv
  /\ CodeInv
  /\ DialectRecorded
=============================================================================
