---------------------------- MODULE TokenSource ----------------------------
(***************************************************************************)
(* What the parser may assume of one call of jhn_lexer_lex(), without      *)
(* characters: which tokens can come back, what unfinished text the lexer  *)
(* may be holding afterwards, and whether the chunk is then used up.       *)
(*                                                                         *)
(* Module Parser draws its tokens from here; the property KeepsContract of *)
(* module LexerRefinement checks that the lexer delivers nothing else.     *)
(***************************************************************************)
EXTENDS LexTable

(* Kinds of held text, by what could follow: "prefix" is the beginning of a *)
(* number that is not a number yet ("-", "1.", "1e"), "escape" a string     *)
(* broken off inside an escape or a UTF-8 sequence, "slash" a single '/'.   *)
HeldKinds == {"none", "int", "double", "prefix", "word", "string", "escape",
              "comment", "slash"}

CommentKinds == {"comment", "slash"}

KindOf(point) ==
  CASE point \in LiteralPoints -> "word"
    [] point \in {"scan", "str"} -> "string"
    [] point \in StringPoints \ {"str"} -> "escape"
    [] point \in {"zero", "int"} -> "int"
    [] point \in {"frac", "expdig"} -> "double"
    [] point \in NumberPoints \ {"zero", "int", "frac", "expdig"} -> "prefix"
    [] point = "slash" -> "slash"
    [] point \in CommentPoints \ {"slash"} -> "comment"
    [] OTHER -> "none"

Punctuation == {"colon", "comma", "left_brace", "left_bracket", "right_brace", "right_bracket"}

(* The tokens a call can return when it starts on held text of kind k. *)
Yields(k) ==
  CASE k \in {"int", "prefix"} -> {"integer", "double", "error", "eof"}
    [] k = "double" -> {"double", "error", "eof"}
    [] k = "word" -> {"bool", "null", "error", "eof"}
    [] k \in {"string", "escape"} -> {"string", "string_with_escapes", "error", "eof"}
    [] OTHER -> Tokens

(* What can be held after a call that started on held text of kind k and    *)
(* ran into the end of the chunk.                                           *)
Holds(k, comments) ==
  CASE k \in {"int", "prefix"} -> {"int", "double", "prefix"}
    [] k = "double" -> {"double", "prefix"}
    [] k = "word" -> {"word"}
    [] k \in {"string", "escape"} -> {"string", "escape"}
    [] OTHER -> IF comments THEN HeldKinds ELSE HeldKinds \ CommentKinds

(* A call: the token, the kind of text held afterwards, and whether the     *)
(* chunk is used up.  A number is only known to be over when the character  *)
(* after it has been seen, and that character stays in the chunk.           *)
Call(tok, kind, end) == [tok |-> tok, kind |-> kind, end |-> end]

OnChunk(k, comments) ==
  {Call("eof", h, TRUE) : h \in Holds(k, comments)}
    \cup {Call(t, "none", FALSE) : t \in Yields(k) \ {"eof"}}
    \cup {Call(t, "none", TRUE) : t \in Yields(k) \ {"eof", "integer", "double"}}

(* On the blank that finishes the input. *)
OnBlank(k) ==
  CASE k = "none" -> {Call("eof", "none", TRUE)}
    [] k = "int" -> {Call("integer", "none", FALSE)}
    [] k = "double" -> {Call("double", "none", FALSE)}
    [] k \in {"string", "comment"} -> {Call("eof", k, TRUE)}
    [] k \in {"escape", "slash"} -> {Call("error", "none", end) : end \in BOOLEAN}
    [] OTHER -> {Call("error", "none", FALSE)}

(* The calls possible on a chunk, used up or not, or on the blank. *)
Calls(k, comments, used_up, blank) ==
  CASE used_up -> {Call("eof", k, TRUE)}
    [] ~used_up /\ blank -> OnBlank(k)
    [] OTHER -> OnChunk(k, comments)
=============================================================================
