--------------------------- MODULE ParserGrammar ---------------------------
(***************************************************************************)
(* What the parser accepts, against the grammar of JSON.                   *)
(***************************************************************************)
EXTENDS Parser, JsonGrammar

Documents == Values(MaxTokens)
Viable == Beginnings(MaxTokens)

(* The parser complains of the JSON exactly when the words read so far are  *)
(* not the beginning of any document: never early, never late.              *)
ErrorsAreExact ==
  /\ parse_error \in SyntaxErrors \/ Top = "lexical_error" => seen \notin Viable
  /\ ~Failed => seen \in Viable

(* jhn_parser_finish() returns ok, partial values not being allowed, only   *)
(* after complete documents, and at least one of them.                      *)
FinishMeansDocument ==
  returned = <<"finish", "ok">> /\ "jhn_allow_partial_values" \notin flags =>
    completed /\ (seen = <<>> \/ seen \in Documents)

(* johanson.h:283 "By default, upon calls to jhn_parser_finish(), jhn will  *)
(* ensure the entire input text was consumed and will raise an error        *)
(* otherwise": with no option set, it does not return ok on half a string.  *)
FinishConsumesAll ==
  returned = <<"finish", "ok">> /\ flags = {} => kind # "string"

(* johanson.h:305 "allow the modification of parser options (any of the     *)
(* options mentioned before)": the option in force is the one last set.  It *)
(* is not once the lexer is there, and no run checks this.                  *)
OptionsTakeEffect ==
  InParse => (lexer.comments <=> "jhn_allow_comments" \in flags)

(* johanson.h:275 on jhn_dont_validate_strings: "When set the parser will   *)
(* verify that all strings in JSON input are valid UTF8".  It does the      *)
(* opposite, and no run checks this.                                        *)
VerifiesUtf8WhenSet ==
  InParse /\ "jhn_dont_validate_strings" \in flags => lexer.utf8
=============================================================================
