---------------------------- MODULE ParserLexer ----------------------------
(***************************************************************************)
(* The parser on top of the lexer, on characters: src/src/parser.c with    *)
(* src/src/lex.c under it.  The parser's turns are those of module Parser, *)
(* the lexer's steps those of module Lexer; what is added is the calls     *)
(* between them, and hand->bytes_consumed, which is the offset the lexer   *)
(* advances.                                                               *)
(***************************************************************************)
EXTENDS TokenSource, Integers

CONSTANTS
  Inputs,        \* the inputs the client may feed, in any chunks
  Documents,     \* the JSON documents that an input can begin with
  Handled, Configurable, MaxTokens, MaxChunk    \* as in module Parser

ASSUME InputsAssumption == Inputs \subseteq Seq(Chars)

VARIABLES
  (* struct jhn_parser_s and the call in progress, as in module Parser *)
  state_stack, flags, parse_error, lexer, pc, caller, kind, used_up, rest,
  returned, open, seen, completed,
  (* struct jhn_lexer_s and the call in progress, as in module Lexer; offset *)
  (* is hand->bytes_consumed, and the options are those kept in lexer        *)
  buf, buf_off, buf_in_use, error, text, offset, lex_pc, start_off, has_escapes,
  result, input, avail, held,
  asked,        \* the parser waits for jhn_lexer_lex() to return
  given,        \* history: the held text and the chunk, all this call can read
  first         \* history: where in the chunk the switch of the lexer was last
                \* entered; 0 if it had held text to read again

P == INSTANCE Parser
L == INSTANCE Lexer WITH
       pc <- lex_pc, allow_comments <- lexer.comments, validate_utf8 <- lexer.utf8

ASSUME ParserLexerAssumption ==
  Handled \subseteq P!Callbacks /\ Configurable \subseteq P!Options
    /\ MaxTokens \in Nat /\ MaxChunk \in Nat \ {0}

(* The parser's part, what neither the parser nor the hand-over of a chunk  *)
(* changes in the lexer, and what only the hand-over changes besides calls. *)
parsing == <<state_stack, flags, parse_error, lexer, pc, caller, kind, used_up, rest,
             returned, open, seen, completed>>
inside == <<buf, buf_off, buf_in_use, error, has_escapes, result, input, held>>
chunk == <<text, avail, start_off, given>>
vars == <<parsing, inside, chunk, offset, lex_pc, asked, first>>

-----------------------------------------------------------------------------
(* jhn_parser_parse() with the next n characters; do_parse() starts at      *)
(* offset 0, so that what a failed call left of its chunk is dropped.       *)
Parse(n) ==
  /\ P!Start("parse", n = 0)
  /\ avail + n <= Len(input)
  /\ text' = SubSeq(input, avail + 1, avail + n) /\ avail' = avail + n
  /\ offset' = 0 /\ start_off' = 0 /\ given' = L!HeldPart \o text'
  /\ UNCHANGED <<inside, lex_pc, asked, first>>

(* jhn_parser_finish(): do_parse() on a blank; the client calls it at the   *)
(* end of its input, or when it gives up.  Bound: a blank is added to a held *)
(* string only while the text held is no longer than the input.             *)
Finish ==
  /\ avail = Len(input) \/ P!Failed
  /\ Len(buf) <= Len(input)
  /\ P!Start("finish", FALSE)
  /\ text' = <<"space">>
  /\ offset' = 0 /\ start_off' = 0 /\ given' = L!HeldPart \o text'
  /\ UNCHANGED <<inside, avail, lex_pc, asked, first>>

Config(option) ==
  /\ P!Config(option)
  /\ UNCHANGED <<inside, chunk, offset, lex_pc, asked, first>>

(* The states in which do_parse() calls jhn_lexer_lex(). *)
WantsToken ==
  /\ P!InParse /\ ~P!Failed
  /\ P!Top = "parse_complete" => P!MustBeBlank

Ask ==
  /\ WantsToken /\ ~asked
  /\ asked' = TRUE
  /\ UNCHANGED <<parsing, given, first>>
  /\ L!Lex

(* The kind of text the lexer holds, as the parser is told of it. *)
HeldKind == IF buf_in_use THEN KindOf(held.point) ELSE "none"

(* "try to restore error offset": *offset less the length of the token,     *)
(* which for a string leaves out the quotes.                                *)
Restores(message) == message \in {"integer overflow", "double overflow", "after map value"}

Restored == IF offset >= Len(result.lexeme) THEN offset - Len(result.lexeme) ELSE 0

(* jhn_lexer_lex() has returned: the parser's turn goes on with the token.  *)
Answer ==
  /\ asked /\ lex_pc = "idle"
  /\ asked' = FALSE
  /\ P!Take(Call(result.tok, HeldKind, offset = Len(text)))
  /\ offset' = IF parse_error' # parse_error /\ Restores(parse_error') THEN Restored ELSE offset
  /\ UNCHANGED <<inside, chunk, lex_pc, first>>

Turn ==
  /\ P!Tokenless
  /\ UNCHANGED <<inside, chunk, offset, lex_pc, asked, first>>

Lexing ==
  /\ UNCHANGED <<parsing, asked, given>>
  /\ L!Step
  /\ first' = IF lex_pc = "lex" THEN (IF L!Replaying THEN 0 ELSE offset) ELSE first

-----------------------------------------------------------------------------
Init ==
  /\ P!Init
  /\ buf = <<>> /\ buf_off = 0 /\ buf_in_use = FALSE /\ error = "e_ok"
  /\ text = <<>> /\ offset = 0 /\ lex_pc = "idle" /\ start_off = 0
  /\ has_escapes = FALSE /\ result = L!Nothing
  /\ input \in Inputs /\ avail = 0
  /\ held = L!Break("lex", FALSE)
  /\ asked = FALSE /\ given = <<>> /\ first = 0

Step == Ask \/ Answer \/ Turn \/ Lexing

Next == \/ \E n \in 0..Len(input) : Parse(n)
        \/ Finish
        \/ \E option \in Configurable : Config(option)
        \/ Step

(* Fair: a call, once made, is executed; the client may stop calling. *)
Spec == Init /\ [][Next]_vars /\ WF_vars(Step)

-----------------------------------------------------------------------------
(* The types of the two structs; hand->bytes_consumed stays inside the      *)
(* chunk, restored or not.                                                  *)
TypeOK ==
  /\ P!TypeOK
  /\ buf \in Seq(Chars) /\ buf_off \in Nat /\ buf_in_use \in BOOLEAN
  /\ error \in Errors /\ lex_pc \in Points \cup {"idle"} /\ start_off \in Nat
  /\ offset \in 0..Len(text)
  /\ asked \in BOOLEAN /\ (asked => WantsToken) /\ (lex_pc # "idle" => asked)

(* The parser, driven by the real lexer, behaves as it does on the tokens   *)
(* of module TokenSource, whatever the input and its chunks; and its calls  *)
(* return.                                                                  *)
ImplementsParser == P!Spec

Base == avail - Len(text)

(* johanson.h:346 bytes_consumed tells the client "if the entire buffer was *)
(* consumed (which will allow you to handle 'junk at end of input')": where *)
(* trailing garbage is allowed, a call that returned ok has consumed its    *)
(* whole chunk, or, at and after the end of the document, exactly what      *)
(* belongs to the document.                                                 *)
DocumentEnd ==
  LET ends == {n \in 0..Len(input) : SubSeq(input, 1, n) \in Documents}
  IN CHOOSE n \in ends : \A m \in ends : m <= n

JunkIsLeft ==
  returned = <<"parse", "ok">> /\ "jhn_allow_trailing_garbage" \in flags =>
    IF completed
      THEN Base + offset = (IF Base > DocumentEnd THEN Base ELSE DocumentEnd)
      ELSE offset = Len(text)

(* A call that returned ok has read its whole chunk: nothing is left unread *)
(* but behind a document that was parsed to its end, where the client       *)
(* allowed trailing garbage.  How much bytes_consumed says was read is the  *)
(* offset of the lexer; whether the chunk is used up is what the parser     *)
(* remembers of it.                                                         *)
ChunkIsRead ==
  returned = <<"parse", "ok">> /\ offset # Len(text) =>
    completed /\ P!Top = "parse_complete" /\ "jhn_allow_trailing_garbage" \in flags

(* An error that is said of a token, other than a string, is said of the    *)
(* character where the lexer's switch began that token, or of the beginning *)
(* of the chunk if it began in an earlier one: the offset is counted back   *)
(* over the whole token, held text included, and over nothing but it.       *)
Strings == {"string", "string_with_escapes"}

ErrorAtOffender ==
  [][parse_error' # parse_error /\ Restores(parse_error') /\ result.tok \notin Strings =>
       offset' = first]_vars

(* parser.c:454 "try to restore error offset": what follows a value in a    *)
(* map and should not is complained of at its first character.  It is not,  *)
(* if that is a string, and no run checks this.                             *)
OffenderAfterMapValue ==
  [][parse_error' # parse_error /\ parse_error' = "after map value" => offset' = first]_vars

(* johanson.h:350 "In the event an error is encountered during parsing,     *)
(* this function affords the client a way to get the offset into the most   *)
(* recent chunk where the error occured": as long as no other chunk is      *)
(* handed over, the offset of the error stays.  It does not when the client *)
(* calls jhn_parser_finish() all the same, and no run checks this.          *)
ErrorOffsetStays ==
  [][P!Failed /\ UNCHANGED avail /\ caller' = "finish" => UNCHANGED offset]_vars
=============================================================================
