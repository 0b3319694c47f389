------------------------------ MODULE LexTable ------------------------------
(***************************************************************************)
(* The character level of src/src/lex.c: what the lexer does with the next *)
(* character at each of the points of its C functions where it calls       *)
(* read_chr().  A byte is represented by its class: two bytes are in one   *)
(* class exactly when no branch of lex.c tells them apart.                 *)
(*                                                                         *)
(* A "point" names the place in the C code that waits for a character; it  *)
(* is what the machine keeps in its program counter.  Nothing here depends *)
(* on where the character comes from: module Lexer supplies it from the    *)
(* held buffer or the current chunk, module LexStream from an unbroken     *)
(* stream.                                                                 *)
(***************************************************************************)
EXTENDS Naturals, Sequences

-----------------------------------------------------------------------------
(* Classes of bytes. "0" is the digit zero, "1" any other digit, "c" a hex  *)
(* letter with no other role, "x" any other printable byte or DEL, "tab"    *)
(* one of \t \v \f \r, "ctl" a control byte that is not white space,        *)
(* "cont", "lead2".."lead4" and "bad8" the bytes with the top bit set.      *)

Digits     == {"0", "1"}
Whitespace == {"tab", "nl", "space"}
Controls   == {"tab", "nl", "ctl"}
HighBytes  == {"cont", "lead2", "lead3", "lead4", "bad8"}

VEC == {"quote", "bslash", "/", "b", "f", "n", "r", "t"}
VHC == Digits \cup {"a", "b", "c", "e", "f", "E"}
NFP == {"quote", "bslash"}
IJC == Controls \cup NFP
NUC == HighBytes

Chars == {"{", "}", "[", "]", ",", ":", "l", "s", "u", "+", "-", ".", "*", "x", "space"}
           \cup VEC \cup VHC \cup IJC \cup NUC

(* The characters jhn_string_scan() steps over without looking closer. *)
Plain(utf8check) == Chars \ (IJC \cup NFP \cup (IF utf8check THEN NUC ELSE {}))

-----------------------------------------------------------------------------
Tokens ==
  {"bool", "colon", "comma", "eof", "error", "left_brace", "left_bracket",
   "null", "right_brace", "right_bracket", "integer", "double", "string",
   "string_with_escapes"}

Errors ==
  {"e_ok", "string_invalid_utf8", "string_invalid_escaped_char",
   "string_invalid_json_char", "string_invalid_hex_char", "invalid_char",
   "invalid_string", "missing_integer_after_decimal",
   "missing_integer_after_exponent", "missing_integer_after_minus",
   "unallowed_comment"}

LiteralPoints == {"t1", "t2", "t3", "f1", "f2", "f3", "f4", "n1", "n2", "n3"}
Utf8Points    == {"utf8_1", "utf8_2", "utf8_3"}
StringPoints  == {"str", "esc", "hex4", "hex3", "hex2", "hex1"} \cup Utf8Points
NumberPoints  == {"number", "minus", "zero", "int", "dot", "frac", "exp",
                  "expsign", "expdig"}
CommentPoints == {"slash", "line", "block", "star"}

(* The points that read a character.  "lex" is the dispatching switch.     *)
ReadPoints == {"lex"} \cup LiteralPoints \cup StringPoints \cup NumberPoints
                      \cup CommentPoints

(* "scan" is the call of jhn_string_scan() at the top of the string loop.  *)
Points == ReadPoints \cup {"scan"}

-----------------------------------------------------------------------------
(* What reading one character leads to: another point, or the end of the    *)
(* call with a token; with or without the character being unread.           *)

Outcome(to, tok, back, err) == [to |-> to, tok |-> tok, back |-> back, err |-> err]

Go(p)       == Outcome(p, "none", FALSE, "e_ok")
GoBack(p)   == Outcome(p, "none", TRUE, "e_ok")
Tok(t)      == Outcome("lex", t, FALSE, "e_ok")
TokBack(t)  == Outcome("lex", t, TRUE, "e_ok")
Fail(e)     == Outcome("lex", "error", FALSE, e)
FailBack(e) == Outcome("lex", "error", TRUE, e)

Outcomes == [to : Points, tok : Tokens \cup {"none"}, back : BOOLEAN, err : Errors]

-----------------------------------------------------------------------------
(* The switch of jhn_lexer_lex(). *)
Dispatch(c, comments) ==
  CASE c = "{" -> Tok("left_bracket")
    [] c = "}" -> Tok("right_bracket")
    [] c = "[" -> Tok("left_brace")
    [] c = "]" -> Tok("right_brace")
    [] c = "," -> Tok("comma")
    [] c = ":" -> Tok("colon")
    [] c \in Whitespace -> Go("lex")
    [] c = "t" -> Go("t1")
    [] c = "f" -> Go("f1")
    [] c = "n" -> Go("n1")
    [] c = "quote" -> Go("scan")
    [] c = "-" \/ c \in Digits -> GoBack("number")
    [] c = "/" -> IF comments THEN Go("slash") ELSE FailBack("unallowed_comment")
    [] OTHER -> Fail("invalid_char")

(* The loops over "rue", "alse" and "ull": the letter wanted at a point and *)
(* the point after it.                                                      *)
Want == [t1 |-> "r", t2 |-> "u", t3 |-> "e",
         f1 |-> "a", f2 |-> "l", f3 |-> "s", f4 |-> "e",
         n1 |-> "u", n2 |-> "l", n3 |-> "l"]

LiteralNext == [t1 |-> "t2", t2 |-> "t3", f1 |-> "f2", f2 |-> "f3", f3 |-> "f4",
                n1 |-> "n2", n2 |-> "n3"]

Literal(q, c) ==
  IF c # Want[q] THEN FailBack("invalid_string")
  ELSE CASE q \in {"t3", "f4"} -> Tok("bool")
         [] q = "n3" -> Tok("null")
         [] OTHER -> Go(LiteralNext[q])

(* jhn_lexer_utf8_char(): entered with the lead byte already read, then one *)
(* point per continuation byte still missing.                               *)
Utf8Lead(c) ==
  CASE c = "lead2" -> Go("utf8_1")
    [] c = "lead3" -> Go("utf8_2")
    [] c = "lead4" -> Go("utf8_3")
    [] c \in {"cont", "bad8"} -> Fail("string_invalid_utf8")
    [] OTHER -> Go("scan")

Utf8Next == [utf8_3 |-> "utf8_2", utf8_2 |-> "utf8_1", utf8_1 |-> "scan"]

Utf8Char(q, c) == IF c = "cont" THEN Go(Utf8Next[q]) ELSE Fail("string_invalid_utf8")

(* The loop of jhn_lexer_string(), after the skipping scan. *)
HexNext == [hex4 |-> "hex3", hex3 |-> "hex2", hex2 |-> "hex1", hex1 |-> "scan"]

StringChar(q, c, utf8) ==
  CASE q \in Utf8Points -> Utf8Char(q, c)
    [] q = "str" ->
         CASE c = "quote"  -> Tok("string")
           [] c = "bslash" -> Go("esc")
           [] c \in Controls -> FailBack("string_invalid_json_char")
           [] OTHER -> IF utf8 THEN Utf8Lead(c) ELSE Go("scan")
    [] q = "esc" ->
         CASE c = "u" -> Go("hex4")
           [] c \in VEC -> Go("scan")
           [] OTHER -> FailBack("string_invalid_escaped_char")
    [] OTHER ->
         IF c \in VHC THEN Go(HexNext[q]) ELSE FailBack("string_invalid_hex_char")

(* jhn_lexer_number().  After the integer part "zero"/"int" an optional     *)
(* fraction, after either an optional exponent, and one character too far.  *)
(* Mutant: the character after the number becomes part of it.               *)
NumberTailTooFar(c, tok) == IF c \in {"e", "E"} THEN Go("exp") ELSE Tok(tok)
NumberTail(c, tok) == IF c \in {"e", "E"} THEN Go("exp") ELSE TokBack(tok)

NumberChar(q, c) ==
  CASE q = "number" ->
         CASE c = "-" -> Go("minus") [] c = "0" -> Go("zero") [] OTHER -> Go("int")
    [] q = "minus" ->
         CASE c = "0" -> Go("zero")
           [] c = "1" -> Go("int")
           [] OTHER -> FailBack("missing_integer_after_minus")
    [] q \in {"zero", "int"} ->
         CASE q = "int" /\ c \in Digits -> Go("int")
           [] c = "." -> Go("dot")
           [] OTHER -> NumberTail(c, "integer")
    [] q = "dot" ->
         IF c \in Digits THEN Go("frac") ELSE FailBack("missing_integer_after_decimal")
    [] q = "frac" -> IF c \in Digits THEN Go("frac") ELSE NumberTail(c, "double")
    [] q = "expdig" -> IF c \in Digits THEN Go("expdig") ELSE TokBack("double")
    [] OTHER ->
         CASE c \in Digits -> Go("expdig")
           [] q = "exp" /\ c \in {"+", "-"} -> Go("expsign")
           [] OTHER -> FailBack("missing_integer_after_exponent")

(* jhn_lexer_comment(), entered with the first slash read.  A completed     *)
(* comment goes back to the switch.                                         *)
CommentChar(q, c) ==
  CASE q = "slash" ->
         CASE c = "/" -> Go("line")
           [] c = "*" -> Go("block")
           [] OTHER -> Fail("invalid_char")
    [] q = "line"  -> IF c = "nl" THEN Go("lex") ELSE Go("line")
    [] q = "block" -> IF c = "*" THEN Go("star") ELSE Go("block")
    [] OTHER -> IF c = "/" THEN Go("lex") ELSE GoBack("block")

-----------------------------------------------------------------------------
(* One character c read at point q. *)
ScanChr(q, c, comments, utf8) ==
  CASE q = "lex" -> Dispatch(c, comments)
    [] q \in LiteralPoints -> Literal(q, c)
    [] q \in StringPoints -> StringChar(q, c, utf8)
    [] q \in NumberPoints -> NumberChar(q, c)
    [] OTHER -> CommentChar(q, c)

(* The n characters of s after its first k are plain, and the next is not.  *)
PlainRun(s, k, n, utf8check) ==
  /\ \A i \in 1..n : s[k + i] \in Plain(utf8check)
  /\ k + n < Len(s) => s[k + n + 1] \notin Plain(utf8check)
=============================================================================
