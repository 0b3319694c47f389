----------------------------- MODULE LexStream -----------------------------
(***************************************************************************)
(* What jhn_lexer_lex() promises a client (the comments on jhn_tok_eof and *)
(* on jhn_lexer_lex() in src/include/johanson.h): the tokens are those of  *)
(* the unbroken input, whatever chunks it arrives in.  Here there are no   *)
(* chunks, no held text and nothing is ever read twice: one scanner walks  *)
(* one stream and waits when the stream has not arrived yet.               *)
(***************************************************************************)
EXTENDS Integers, Sequences, LexTable

CONSTANT Inputs

VARIABLES
  input, avail,                     \* the stream, and how much has arrived
  allow_comments, validate_utf8,
  pos, at, start, esc,              \* the scanner: position, point, token start
  error, result

config == <<allow_comments, validate_utf8>>
vars == <<input, avail, config, pos, at, start, esc, error, result>>

Stream == Append(input, "space")
Result(tok, lexeme) == [tok |-> tok, lexeme |-> lexeme]
Unquoted(tok, s) ==
  IF tok \in {"string", "string_with_escapes"} THEN SubSeq(s, 2, Len(s) - 1) ELSE s

Init ==
  /\ input \in Inputs /\ avail = 0
  /\ allow_comments \in BOOLEAN /\ validate_utf8 \in BOOLEAN
  /\ pos = 0 /\ at = "lex" /\ start = 0 /\ esc = FALSE
  /\ error = "e_ok" /\ result = Result("none", <<>>)

Arrive(n) ==
  /\ n > 0 /\ avail + n <= Len(Stream)
  /\ avail' = avail + n
  /\ UNCHANGED <<input, config, pos, at, start, esc, error, result>>

(* Only a scanner that has read everything that arrived reports eof. *)
Suspend ==
  /\ pos = avail
  /\ result' = Result("eof", <<>>)
  /\ UNCHANGED <<input, avail, config, pos, at, start, esc, error>>

(* A run of plain characters inside a string. *)
Skip(n) ==
  /\ at = "str" /\ n > 0 /\ pos + n <= avail
  /\ \A i \in 1..n : Stream[pos + i] \in Plain(validate_utf8)
  /\ pos' = pos + n
  /\ UNCHANGED <<input, avail, config, at, start, esc, error, result>>

(* One character; "scan" is the same place as "str" for a scanner that      *)
(* need not look for the end of a buffer.                                   *)
Read ==
  /\ pos < avail
  /\ LET c == Stream[pos + 1]
         out == ScanChr(at, c, allow_comments, validate_utf8)
         there == IF out.back THEN pos ELSE pos + 1
         esc_now == at # "lex" /\ (esc \/ (at = "str" /\ c = "bslash"))
         tok == IF out.tok = "string" /\ esc THEN "string_with_escapes" ELSE out.tok
     IN /\ pos' = there
        /\ at' = IF out.to = "scan" THEN "str" ELSE out.to
        /\ esc' = (out.tok = "none" /\ out.to # "lex" /\ esc_now)
        /\ start' = IF out.to = "lex" THEN there ELSE start
        /\ error' = IF out.err = "e_ok" THEN error ELSE out.err
        /\ result' = CASE tok = "none" -> result
                       [] tok = "error" -> Result("error", <<>>)
                       [] OTHER -> Result(tok, Unquoted(tok, SubSeq(Stream, start + 1, there)))
  /\ UNCHANGED <<input, avail, config>>

Next == (\E n \in 1..Len(Stream) : Arrive(n) \/ Skip(n)) \/ Suspend \/ Read

Spec == Init /\ [][Next]_vars
=============================================================================
