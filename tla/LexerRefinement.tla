-------------------------- MODULE LexerRefinement --------------------------
(***************************************************************************)
(* The lexer with its chunks and its held text implements the scanner of   *)
(* one unbroken stream.  While held text is being read again the scanner   *)
(* stands still, at the point where the last chunk ended.                  *)
(***************************************************************************)
EXTENDS Lexer, LexGrammar, TokenSource

(* Held text that has not been read again yet: the scanner is past it. *)
Behind == buf_in_use /\ (pc = "idle" \/ Replaying)

PointNow == CASE Behind -> held.point
              [] ~Behind /\ pc = "idle" -> "lex"
              [] OTHER -> pc

EscNow == IF Behind THEN held.esc ELSE pc \in StringPoints \cup {"scan"} /\ has_escapes

StartNow == IF pc = "idle"
              THEN Base + offset - (IF buf_in_use THEN Len(buf) ELSE 0)
              ELSE Base + start_off - (IF buf_in_use THEN Len(buf) ELSE 0)

PointOf(p) == IF p = "scan" THEN "str" ELSE p

Scanner == INSTANCE LexStream WITH
  pos <- Base + offset,
  at <- PointOf(PointNow),
  start <- StartNow,
  esc <- EscNow,
  result <- IF result.tok = "error" THEN Result("error", <<>>) ELSE result

(* The tokens, their text, their errors and the eof reports are those of    *)
(* the unbroken input: no chunk boundary is ever visible to the client.     *)
ImplementsStream == Scanner!Spec

(* What a token carries is a lexeme of its kind in the JSON grammar, however *)
(* many calls and re-readings it took to collect it; a string is flagged     *)
(* with_escapes exactly when it has one to decode.                           *)
TokensAreLexemes ==
  LET s == result.lexeme IN
    CASE result.tok = "integer" -> IsInteger(s)
      [] result.tok = "double" -> IsDouble(s)
      [] result.tok = "string" -> IsString(s, validate_utf8) /\ ~Contains(s, "bslash")
      [] result.tok = "string_with_escapes" -> IsString(s, validate_utf8) /\ Contains(s, "bslash")
      [] result.tok = "bool" -> s \in {<<"t","r","u","e">>, <<"f","a","l","s","e">>}
      [] result.tok = "null" -> s = <<"n","u","l","l">>
      [] result.tok \in {"none", "eof", "error"} -> TRUE
      [] OTHER -> Len(s) = 1

(* Every return of jhn_lexer_lex() is one the parser expects: the token, the *)
(* kind of text now held and the end of the chunk are those of a call that   *)
(* starts on the kind of text held so far.                                   *)
HeldKind == IF buf_in_use THEN KindOf(held.point) ELSE "none"

KeepsContract ==
  [][pc # "idle" /\ pc' = "idle" =>
       Call(result'.tok, HeldKind', offset' = Len(text))
         \in Calls(HeldKind, allow_comments, start_off = Len(text), Finalized)]_vars

(* lex.c:160 "on error the offset will point to the first char of the       *)
(* invalid utf-8": the byte the lexer stands at cannot then be plain ASCII. *)
Utf8ErrorAtOffender ==
  result.tok = "error" /\ error = "string_invalid_utf8" =>
    Base + offset < Len(Stream) /\ Stream[Base + offset + 1] \in HighBytes
=============================================================================
