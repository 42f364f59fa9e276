-------------------------- MODULE MCScriptDialect --------------------------
(***************************************************************************)
(* Instances of ScriptDialect: five items, of which 3 and 4 are function f *)
(* and 5 is function g.  "if" is a keyword of js-eng, "si" the same keyword*)
(* of js-spa, "sea" is LET of js-spa, and "of" and "de" are the spellings  *)
(* of one pseudo-keyword.                                                  *)
(***************************************************************************)
EXTENDS ScriptDialect, TLC

MCWords == {"if", "si", "sea", "de", "of", "x"}
MCTokens == {"IF", "LET", "ASYNC", "IDENTIFIER", "ESCAPED_KEYWORD",
             "ESCAPED_STRICT_RESERVED_WORD"}
MCNames == {"none", "kOf"}
MCKeywords == ("js-eng" :> ("if" :> "IF"))
              @@ ("js-spa" :> ("si" :> "IF" @@ "sea" :> "LET"))
MCPseudoKeywords == ("js-eng" :> ("of" :> "kOf")) @@ ("js-spa" :> ("de" :> "kOf"))

MCFunctions == {"f", "g"}
MCFirst == "f" :> 3 @@ "g" :> 5
MCLast == "f" :> 4 @@ "g" :> 5

Word(w) == [kind |-> "word", word |-> w, escaped |-> FALSE]
Escaped(w) == [kind |-> "word", word |-> w, escaped |-> TRUE]
Comment(v) == [kind |-> "comment", value |-> v]

Texts(a, b, c, d, e) ==
  {<<i1, i2, i3, i4, i5>> : i1 \in a, i2 \in b, i3 \in c, i4 \in d, i5 \in e}

\* Every kind of comment at the head of the text and in the function.
AllSources ==
  Texts({Comment(v) : v \in CommentValues} \union {Word("si")},
        {Comment("plain"), Comment("js-eng"), Comment("js-spa"), Word("x")},
        {Word("si")},
        {Comment("plain"), Comment("js-spa"), Word("de")},
        {Escaped("sea")})

\* Texts of one dialect, some of them rejected.
SpaSources ==
  Texts({Comment("js-spa")},
        {Comment("plain"), Comment("js-eng"), Word("x")},
        {Word("si"), Word("if"), Word("de")},
        {Word("of"), Comment("js-spa"), Word("de")},
        {Escaped("sea"), Word("sea")})

\* Texts of either dialect that differ in the dialect comment or in g.
EitherSources ==
  Texts({Comment("js-spa"), Comment("js-eng")}, {Comment("plain")},
        {Word("si")}, {Word("de")}, {Word("x"), Word("sea")})
=============================================================================
