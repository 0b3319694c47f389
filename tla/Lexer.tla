------------------------------- MODULE Lexer -------------------------------
(***************************************************************************)
(* jhn_lexer_lex() of src/src/lex.c, driven by a client that hands over    *)
(* its input in chunks.  One action is one pass of the loop that calls     *)
(* read_chr(); a chunk can end between any two of them, which is where the *)
(* hold-and-relex buffer of the lexer comes in: at the end of a chunk the  *)
(* unfinished token is appended to buf and the next call reads it again    *)
(* from its first character before it touches the new chunk.               *)
(*                                                                         *)
(* Sequences are indexed from 1: the C expression text[off++] reads        *)
(* text[offset + 1] and then advances offset.                              *)
(***************************************************************************)
EXTENDS Integers, Sequences, LexTable

CONSTANT Inputs    \* the whole inputs a client may feed, in any chunking

ASSUME InputsAssumption == Inputs \subseteq Seq(Chars)

VARIABLES
  \* struct jhn_lexer_s
  buf, buf_off, buf_in_use, error, allow_comments, validate_utf8,
  \* arguments and locals of the call of jhn_lexer_lex() in progress
  text, offset, pc, start_off, has_escapes,
  \* what the last call returned: its token and the bytes of *out_buf
  result,
  \* the client: the whole input and how much of it has been handed over
  input, avail,
  \* history: the point, and has_escapes, at which the held text broke off
  held

config == <<allow_comments, validate_utf8>>
holding == <<buf, buf_off, buf_in_use>>
client == <<input, avail, text>>
vars == <<holding, error, config, offset, pc, start_off, has_escapes, result, client, held>>

Break(p, esc) == [point |-> p, esc |-> esc]
Result(tok, lexeme) == [tok |-> tok, lexeme |-> lexeme]
Nothing == Result("none", <<>>)

(* Everything the lexer is given: jhn_lexer_finalize() ends it with a blank. *)
Stream == Append(input, "space")
Base == avail - Len(text)            \* where the current chunk begins in it
Finalized == avail = Len(Stream)

-----------------------------------------------------------------------------
(* read_chr: the held text comes before the chunk. *)
Replaying == buf_in_use /\ buf_off < Len(buf)
Chr == IF Replaying THEN buf[buf_off + 1] ELSE text[offset + 1]

ReadOff == IF Replaying THEN offset ELSE offset + 1
ReadBufOff == IF Replaying THEN buf_off + 1 ELSE buf_off

(* read_chr, followed by unread_chr when back holds.  Mutants: no test of   *)
(* offset; the character stays read.                                        *)
NewOffUntested(back) == IF back THEN ReadOff - 1 ELSE ReadOff
NewOffStaysRead(back) == ReadOff
NewOff(back) == IF back /\ ReadOff > 0 THEN ReadOff - 1 ELSE ReadOff
NewBufOff(back) == IF back /\ ReadOff = 0 THEN ReadBufOff - 1 ELSE ReadBufOff

(* What the chunk's part of the token is appended to.  Mutant: the held text *)
(* of an earlier token is not cleared.                                      *)
HeldPartUncleared == buf
HeldPart == IF buf_in_use THEN buf ELSE <<>>

(* The label "lexed": the call ends with tok.  A string is reported without  *)
(* its quotes; an error reports text only when it was being held.           *)
Lexeme(tok, s) ==
  IF tok \in {"string", "string_with_escapes"} THEN SubSeq(s, 2, Len(s) - 1) ELSE s

Lexed(tok, off, boff) ==
  LET chunk_part == SubSeq(text, start_off + 1, off)
  IN /\ pc' = "idle"
     /\ offset' = off
     /\ IF tok = "eof" \/ buf_in_use
          THEN /\ buf' = HeldPart \o chunk_part
               /\ buf_off' = 0
               /\ buf_in_use' = (tok = "eof")
          ELSE buf_off' = boff /\ UNCHANGED <<buf, buf_in_use>>
     /\ result' = Result(tok, CASE tok = "eof" -> <<>>
                                [] tok = "error" /\ ~buf_in_use -> <<>>
                                [] OTHER -> Lexeme(tok, HeldPart \o chunk_part))
     /\ UNCHANGED start_off

(* The effect of one character: stay in the call at another point or return. *)
Read(out, tok) ==
  /\ error' = IF out.err = "e_ok" THEN error ELSE out.err
  /\ IF tok = "none"
       THEN /\ pc' = out.to
            /\ offset' = NewOff(out.back)
            /\ buf_off' = NewBufOff(out.back)
            /\ UNCHANGED <<buf, buf_in_use, start_off, result>>
       ELSE Lexed(tok, NewOff(out.back), NewBufOff(out.back))
  /\ UNCHANGED <<config, client, held>>

-----------------------------------------------------------------------------
Init ==
  /\ buf = <<>> /\ buf_off = 0 /\ buf_in_use = FALSE /\ error = "e_ok"
  /\ allow_comments \in BOOLEAN /\ validate_utf8 \in BOOLEAN
  /\ text = <<>> /\ offset = 0 /\ pc = "idle" /\ start_off = 0
  /\ has_escapes = FALSE /\ result = Nothing
  /\ input \in Inputs /\ avail = 0
  /\ held = Break("lex", FALSE)

(* The client supplies the next n characters, the chunk being used up. *)
NextChunk(n) ==
  /\ pc = "idle" /\ offset = Len(text)
  /\ avail + n <= Len(input)
  /\ text' = SubSeq(input, avail + 1, avail + n)
  /\ avail' = avail + n
  /\ offset' = 0 /\ start_off' = 0
  /\ UNCHANGED <<holding, error, config, pc, has_escapes, result, input, held>>

(* The client calls jhn_lexer_lex() on what is left of the chunk. *)
Lex ==
  /\ pc = "idle"
  /\ pc' = "lex" /\ start_off' = offset
  /\ UNCHANGED <<holding, error, config, offset, has_escapes, result, client, held>>

(* jhn_lexer_finalize(): a call on the one-character chunk " ".     *)
Finalize ==
  /\ pc = "idle" /\ offset = Len(text)
  /\ avail = Len(input)
  /\ text' = <<"space">> /\ avail' = avail + 1
  /\ offset' = 0 /\ start_off' = 0 /\ pc' = "lex"
  /\ UNCHANGED <<holding, error, config, has_escapes, result, input, held>>

(* Mutant: the comment loop does not look for the end of the chunk after a  *)
(* star.                                                                    *)
EndOfChunkButStar ==
  /\ pc \in ReadPoints \ {"star"} /\ offset >= Len(text)
  /\ Lexed("eof", offset, buf_off)
  /\ held' = IF Replaying THEN held ELSE Break(pc, pc \in StringPoints /\ has_escapes)
  /\ UNCHANGED <<error, config, client, has_escapes>>

(* "offset >= length" before any read_chr: the call ends with eof and the   *)
(* text of the unfinished token is held for the next call.                  *)
EndOfChunk ==
  /\ pc \in ReadPoints /\ offset >= Len(text)
  /\ Lexed("eof", offset, buf_off)
  /\ held' = IF Replaying THEN held ELSE Break(pc, pc \in StringPoints /\ has_escapes)
  /\ UNCHANGED <<error, config, client, has_escapes>>

(* The switch of jhn_lexer_lex(); leading white space moves start_off. *)
LexSwitch ==
  /\ pc = "lex" /\ offset < Len(text)
  /\ has_escapes' = FALSE
  /\ LET out == Dispatch(Chr, allow_comments)
     IN IF Chr \in Whitespace
          THEN /\ offset' = ReadOff /\ buf_off' = ReadBufOff
               /\ start_off' = start_off + 1
               /\ UNCHANGED <<buf, buf_in_use, error, config, pc, result, client, held>>
          ELSE Read(out, out.tok)

LexLiteral ==
  /\ pc \in LiteralPoints /\ offset < Len(text)
  /\ LET out == Literal(pc, Chr) IN Read(out, out.tok)
  /\ UNCHANGED has_escapes

(* jhn_string_scan() at the top of the string loop: skips in the held text  *)
(* or in the chunk, never in both.                                          *)
StringScan ==
  /\ pc = "scan" /\ pc' = "str"
  /\ IF Replaying
       THEN \E n \in 0..(Len(buf) - buf_off) :
              /\ PlainRun(buf, buf_off, n, validate_utf8)
              /\ buf_off' = buf_off + n /\ UNCHANGED offset
       ELSE \E n \in 0..(Len(text) - offset) :
              /\ PlainRun(text, offset, n, validate_utf8)
              /\ offset' = offset + n /\ UNCHANGED buf_off
  /\ UNCHANGED <<buf, buf_in_use, error, config, start_off, has_escapes, result, client, held>>

LexString ==
  /\ pc \in StringPoints /\ offset < Len(text)
  /\ has_escapes' = (has_escapes \/ (pc = "str" /\ Chr = "bslash"))
  /\ LET out == StringChar(pc, Chr, validate_utf8)
         tok == IF out.tok = "string" /\ has_escapes THEN "string_with_escapes" ELSE out.tok
     IN Read(out, tok)

LexNumber ==
  /\ pc \in NumberPoints /\ offset < Len(text)
  /\ LET out == NumberChar(pc, Chr) IN Read(out, out.tok)
  /\ UNCHANGED has_escapes

(* A completed comment drops the held text and starts the token afresh.     *)
(* Mutants: the held text stays in use; the token starts with the comment.  *)
DropCommentInUse ==
  /\ pc' = "lex" /\ offset' = ReadOff /\ start_off' = ReadOff
  /\ buf' = <<>> /\ buf_off' = ReadBufOff /\ UNCHANGED buf_in_use

DropCommentKeepsStart ==
  /\ pc' = "lex" /\ offset' = ReadOff /\ UNCHANGED start_off
  /\ buf' = <<>> /\ buf_off' = ReadBufOff /\ buf_in_use' = FALSE

DropComment ==
  /\ pc' = "lex" /\ offset' = ReadOff /\ start_off' = ReadOff
  /\ buf' = <<>> /\ buf_off' = ReadBufOff /\ buf_in_use' = FALSE

LexComment ==
  /\ pc \in CommentPoints /\ offset < Len(text)
  /\ LET out == CommentChar(pc, Chr)
     IN IF out.to = "lex" /\ out.tok = "none"
          THEN DropComment /\ UNCHANGED <<error, config, result, client, held>>
          ELSE Read(out, out.tok)
  /\ UNCHANGED has_escapes

Step == EndOfChunk \/ LexSwitch \/ LexLiteral \/ StringScan \/ LexString
          \/ LexNumber \/ LexComment

Next == (\E n \in 0..Len(input) : NextChunk(n)) \/ Lex \/ Finalize \/ Step

(* Fair: a call, once made, is executed; the client may stop calling. *)
Spec == Init /\ [][Next]_vars /\ WF_vars(Step)

-----------------------------------------------------------------------------
(* Every variable keeps its type; in particular neither offset nor buf_off, *)
(* both size_t, is ever decremented below zero by unread_chr.               *)
TypeOK ==
  /\ buf \in Seq(Chars) /\ buf_off \in Nat /\ buf_in_use \in BOOLEAN
  /\ error \in Errors /\ allow_comments \in BOOLEAN /\ validate_utf8 \in BOOLEAN
  /\ text \in Seq(Chars) /\ offset \in Nat /\ pc \in Points \cup {"idle"}
  /\ start_off \in Nat /\ has_escapes \in BOOLEAN
  /\ result \in [tok : Tokens \cup {"none"}, lexeme : Seq(Chars)]
  /\ input \in Inputs /\ avail \in Nat
  /\ held \in [point : Points, esc : BOOLEAN]

(* No index leaves its buffer: read_chr stays inside the chunk and inside   *)
(* the held text, the length offset - start_off that is appended to the     *)
(* held text does not wrap, and unread_chr, which looks only at offset to   *)
(* decide where a character came from, is right because the chunk is        *)
(* untouched, or used up, while there is held text to read again.           *)
IndexSafe ==
  /\ offset <= Len(text)
  /\ start_off <= offset
  /\ buf_in_use => buf_off <= Len(buf)
  /\ Replaying => offset \in {0, Len(text)}

(* Between two calls the held text is exactly what has been read of one     *)
(* unfinished token: a piece of the input that ends where the lexer stands, *)
(* begins with no white space and is read again from its start.             *)
HeldIsUnfinished ==
  pc = "idle" /\ buf_in_use =>
    /\ buf_off = 0
    /\ Len(buf) <= Base + offset
    /\ buf = SubSeq(Stream, Base + offset - Len(buf) + 1, Base + offset)
    /\ buf # <<>> => Head(buf) \notin Whitespace

(* The switch is only ever entered at the first character of a token, held  *)
(* or not, and what is held never starts with white space: the switch steps *)
(* over white space by moving start_off, which counts characters of the     *)
(* chunk and must not move for a character of the held text.                *)
NothingHeld == buf_in_use => buf = <<>>

TokenStart ==
  /\ pc = "lex" => start_off = offset
  /\ pc \in {"idle", "lex"} /\ buf_in_use => buf_off = 0
  /\ pc = "number" /\ offset < Len(text) => Chr \notin Whitespace
  /\ buf_in_use /\ buf # <<>> => Head(buf) \notin Whitespace
  /\ pc \notin {"idle", "lex"} /\ NothingHeld =>
       IF pc = "number" THEN start_off = offset
       ELSE start_off < offset /\ text[start_off + 1] \notin Whitespace

(* Every call of jhn_lexer_lex() returns. *)
CallReturns == pc # "idle" ~> pc = "idle"
=============================================================================
