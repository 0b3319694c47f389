------------------------------ MODULE Prettify ------------------------------
(***************************************************************************)
(* example.c: a file is parsed chunk by chunk, and every callback of the   *)
(* parser makes one call of the generator, whose answer nobody looks at.   *)
(* Composes Parser and Generator: a token is taken and what it means is    *)
(* printed in one step.                                                    *)
(***************************************************************************)
EXTENDS Parser

CONSTANTS JHN_MAX_DEPTH, UINT_MAX

ASSUME DepthAssumption ==
  JHN_MAX_DEPTH \in Nat \ {0} /\ UINT_MAX \in Nat /\ UINT_MAX > JHN_MAX_DEPTH

VARIABLES depth, state, validate_utf8, printed, gen_open, owes, status,
          refused,   \* history: a generator call did not return ok
          deepest    \* history: how many containers were open at once

G == INSTANCE Generator WITH
       open <- gen_open, MaxWords <- 2 * MaxTokens + 2, Disciplined <- FALSE

generator == <<depth, state, validate_utf8, printed, gen_open, owes, status>>
pretty == <<vars, generator, refused, deepest>>

(* main() up to its loop: the print callback, beautify and the indent      *)
(* string are set; the parser allows comments.                             *)
PrettyInit ==
  /\ Init /\ G!Init
  /\ refused = FALSE /\ deepest = 0

(* The one option main() sets. *)
Setup ==
  /\ ~lexer.made /\ flags = {}
  /\ Config("jhn_allow_comments") /\ flags' # {}
  /\ UNCHANGED <<generator, refused, deepest>>

(* A chunk that fread() has filled, and the end of the file. *)
Feed ==
  /\ flags # {} /\ caller # "finish"
  /\ Start("parse", FALSE) \/ Finish
  /\ UNCHANGED <<generator, refused, deepest>>

(* Mutant: keys are reported to nobody. *)
OnTokenNoKeys(tok) ==
  CASE tok \in {"string", "string_with_escapes"} /\ Top' = "map_sep" -> UNCHANGED generator
    [] tok \in {"string", "string_with_escapes"} /\ Top' # "map_sep" -> G!String(TRUE)
    [] tok \in {"bool", "null", "integer"} -> G!Scalar
    [] tok = "double" -> G!Double(TRUE)
    [] tok = "left_bracket" -> G!OpenContainer("map")
    [] tok = "left_brace" -> G!OpenContainer("array")
    [] tok = "right_bracket" -> G!CloseContainer("map")
    [] tok = "right_brace" -> G!CloseContainer("array")
    [] OTHER -> UNCHANGED generator

(* on_null() to on_end_array(). *)
OnToken(tok) ==
  CASE tok \in {"string", "string_with_escapes"} -> G!String(TRUE)
    [] tok \in {"bool", "null", "integer"} -> G!Scalar
    [] tok = "double" -> G!Double(TRUE)
    [] tok = "left_bracket" -> G!OpenContainer("map")
    [] tok = "left_brace" -> G!OpenContainer("array")
    [] tok = "right_bracket" -> G!CloseContainer("map")
    [] tok = "right_brace" -> G!CloseContainer("array")
    [] OTHER -> UNCHANGED generator

(* The callbacks return 1 whatever the generator says. *)
Pass(call) ==
  /\ Take(call)
  /\ parse_error' # "client cancelled"
  /\ IF Failed' THEN UNCHANGED generator ELSE OnToken(call.tok)
  /\ refused' = (refused \/ status' # "ok")
  /\ deepest' = IF Len(open') > deepest THEN Len(open') ELSE deepest

Run == Tokenless /\ UNCHANGED <<generator, refused, deepest>>

PrettyNext == Setup \/ Feed \/ Run \/ \E call \in Lexed : Pass(call)

PrettySpec == PrettyInit /\ [][PrettyNext]_pretty
-----------------------------------------------------------------------------
(* The words of which the generator can know: it prints a comma or a colon *)
(* with what follows it.                                                   *)
Known(words) ==
  IF words # <<>> /\ words[Len(words)] \in {"comma", "colon"}
  THEN SubSeq(words, 1, Len(words) - 1) ELSE words

BeforeLast(words) == IF words = <<>> THEN <<>> ELSE SubSeq(words, 1, Len(words) - 1)

(* The file comes out word by word as it was read, up to the first error,  *)
(* in any chunks: parser and generator, which keep their own books on what *)
(* is open and due, agree about where commas and colons belong, and when   *)
(* jhn_parser_finish() is content, so is the generator.                    *)
PrintsWhatIsParsed ==
  ~refused =>
    /\ printed \in {Known(seen)} \cup
                      IF Failed THEN {Known(BeforeLast(seen))} ELSE {}
    /\ returned = <<"finish", "ok">> => state[0] = "complete"

(* A generator call is refused for the one reason that the file is nested  *)
(* too deeply, and then always: keys are strings, values come where they   *)
(* may, and the document is not complete before its end.                   *)
RefusedOnlyForDepth == refused <=> deepest >= JHN_MAX_DEPTH

(* "a simple example application that parses and prettyfies JSON"          *)
(* (example.c:1): what is printed is what was parsed, at any depth.  It    *)
(* does not hold of what is nested as deeply as the generator can go, and  *)
(* no run checks it.                                                       *)
PrettyIsTheSame ==
  returned = <<"finish", "ok">> => printed = seen
=============================================================================
