--------------------------- MODULE MCParserLexer ---------------------------
(***************************************************************************)
(* Instances of the parser on the lexer: a document, perhaps a broken one, *)
(* and what may follow it.                                                 *)
(***************************************************************************)
EXTENDS ParserLexer

MCDocuments == {
  <<"1","0">>, <<"-","1",".","0">>, <<"n","u","l","l">>, <<"quote","bslash","n","quote">>,
  <<"[","1",",","0","]">>, <<"{","quote","x","quote",":","1","}">>,
  <<"/","*","*","/","1">> }

Broken == {
  <<"{","quote","quote",":","1","quote","x","quote">>,
  <<"{","quote","quote",":","0","space","1">>, <<"[","1","quote">> }

Followers == { <<>>, <<"space","1">>, <<"space","]">>, <<"/","*","*","/","x">> }

MCInputs == {d \o f : d \in MCDocuments \cup Broken, f \in Followers}

Numbers == {"jhn_integer", "jhn_double"}
Extents == {"jhn_allow_trailing_garbage", "jhn_allow_comments"}
=============================================================================
