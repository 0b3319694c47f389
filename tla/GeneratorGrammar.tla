-------------------------- MODULE GeneratorGrammar --------------------------
(***************************************************************************)
(* What the generator prints, against the grammar of JSON.                 *)
(***************************************************************************)
EXTENDS Generator, JsonGrammar

Documents == Values(MaxWords)
Viable == Beginnings(MaxWords)

(* What a disciplined client's calls have printed can always be completed   *)
(* to a document, even after a call that printed its separator and was then *)
(* refused for depth; and the generator knows exactly when it is complete.  *)
OutputIsJson ==
  /\ printed \in Viable
  /\ state[0] = "complete" <=> printed \in Documents

(* johanson.h:79 "A complete JSON document has been generated."             *)
GenerationCompleteMeansDocument ==
  status = "generation_complete" => printed \in Documents

(* A value is refused for not being a string only where nothing else could  *)
(* follow what is printed, a document is called complete only when it is,   *)
(* and depth is complained of only when state[] is full.                    *)
RefusalsAreExact ==
  /\ status = "keys_must_be_strings" =>
       \A separator \in {<<>>, <<"comma">>, <<"colon">>},
          word \in {"scalar", "left_bracket", "left_brace"} :
         printed \o separator \o <<word>> \notin Viable
  /\ GenerationCompleteMeansDocument
  /\ status = "max_depth_exceeded" => Len(open) = JHN_MAX_DEPTH - 1
=============================================================================
