---------------------------- MODULE LexerProofs ----------------------------
(***************************************************************************)
(* Proofs about module Lexer for every set of inputs: type correctness and *)
(* the safety of its indices, under every chunking.                        *)
(***************************************************************************)
EXTENDS Lexer, SequenceTheorems, TLAPS

-----------------------------------------------------------------------------
(* Facts about the switch tables: where a character leads.                  *)

LEMMA DispatchOutcome ==
  ASSUME NEW c \in Chars \ Whitespace, NEW comments \in BOOLEAN
  PROVE  LET out == Dispatch(c, comments) IN
           /\ out \in Outcomes
           /\ out.tok = "none" => out.to # "lex" /\ (out.to = "number" <=> out.back)
<1> USE DEF Dispatch, Outcomes, Outcome, Go, GoBack, Tok, Fail, FailBack, Points,
        ReadPoints, LiteralPoints, StringPoints, Utf8Points, NumberPoints, CommentPoints,
        Tokens, Errors, Whitespace
<1>1. CASE c = "/"
  BY <1>1
<1>2. CASE c \in Digits \cup {"-"}
  BY <1>2 DEF Digits
<1>3. CASE c \notin Digits \cup {"-", "/"}
  BY <1>3
<1> QED BY <1>1, <1>2, <1>3

LEMMA LiteralOutcome ==
  ASSUME NEW q \in LiteralPoints, NEW c \in Chars
  PROVE  LET out == Literal(q, c) IN
           out \in Outcomes /\ (out.tok = "none" => out.to \notin {"lex", "number"})
BY DEF Literal, LiteralNext, Outcomes, Outcome, Go, Tok, FailBack, Points, ReadPoints,
       LiteralPoints, Tokens, Errors

LEMMA StringOutcome ==
  ASSUME NEW q \in StringPoints, NEW c \in Chars, NEW utf8 \in BOOLEAN
  PROVE  LET out == StringChar(q, c, utf8) IN
           out \in Outcomes /\ (out.tok = "none" => out.to \notin {"lex", "number"})
BY DEF StringChar, Utf8Char, Utf8Lead, Utf8Next, HexNext, Outcomes, Outcome, Go, Tok, Fail,
       FailBack, Points, ReadPoints, StringPoints, Utf8Points, Tokens, Errors

LEMMA NumberOutcome ==
  ASSUME NEW q \in NumberPoints, NEW c \in Chars
  PROVE  LET out == NumberChar(q, c) IN
           out \in Outcomes /\ (out.tok = "none" => out.to \notin {"lex", "number"} /\ ~out.back)
BY DEF NumberChar, NumberTail, Outcomes, Outcome, Go, TokBack, FailBack, Points, ReadPoints,
       NumberPoints, Tokens, Errors

LEMMA CommentOutcome ==
  ASSUME NEW q \in CommentPoints, NEW c \in Chars
  PROVE  LET out == CommentChar(q, c) IN out \in Outcomes /\ out.to # "number"
BY DEF CommentChar, Outcomes, Outcome, Go, GoBack, Fail, Points, ReadPoints,
       CommentPoints, Tokens, Errors

-----------------------------------------------------------------------------
(* The inductive invariant: the indices are safe because a token is always  *)
(* read again from its first character, which is not white space.           *)
IInv == TypeOK /\ IndexSafe /\ TokenStart

LEMMA InitIInv == Init => IInv
<1> SUFFICES ASSUME Init PROVE IInv
  OBVIOUS
<1> USE DEF Init
<1>1. /\ buf \in Seq(Chars) /\ buf_off \in Nat /\ error \in Errors
      /\ text \in Seq(Chars) /\ offset \in Nat /\ pc \in Points \cup {"idle"}
      /\ start_off \in Nat /\ input \in Inputs /\ avail \in Nat
  BY DEF Errors
<1>2. /\ buf_in_use \in BOOLEAN /\ has_escapes \in BOOLEAN
      /\ allow_comments \in BOOLEAN /\ validate_utf8 \in BOOLEAN
  OBVIOUS
<1>3. result \in [tok : Tokens \cup {"none"}, lexeme : Seq(Chars)]
  BY DEF Nothing, Result
<1>4. held \in [point : Points, esc : BOOLEAN]
  BY DEF Break, Points, ReadPoints
<1>5. IndexSafe /\ TokenStart
  BY DEF IndexSafe, TokenStart, Replaying
<1> QED BY <1>1, <1>2, <1>3, <1>4, <1>5 DEF IInv, TypeOK

(* The character read is one of the chunk or of the held text. *)
LEMMA ChrType ==
  ASSUME IInv, offset < Len(text)
  PROVE  Chr \in Chars
<1>1. CASE Replaying
  BY <1>1, ElementOfSeq, LenProperties DEF Chr, Replaying, IInv, TypeOK
<1>2. CASE ~Replaying
  BY <1>2, ElementOfSeq, LenProperties DEF Chr, IInv, TypeOK
<1> QED BY <1>1, <1>2

(* Where read_chr, and then perhaps unread_chr, leave the two indices. *)
LEMMA ReadIndices ==
  ASSUME IInv, offset < Len(text), NEW back \in BOOLEAN
  PROVE  /\ NewOff(back) \in offset..Len(text) /\ NewBufOff(back) \in Nat
         /\ Replaying => NewOff(back) = 0 /\ offset = 0
         /\ buf_in_use => NewBufOff(back) <= Len(buf)
         /\ ~Replaying => NewBufOff(back) = buf_off
         /\ ~Replaying => NewOff(back) = IF back THEN offset ELSE offset + 1
         /\ Replaying => NewBufOff(back) = IF back THEN buf_off ELSE buf_off + 1
BY LenProperties DEF IInv, TypeOK, IndexSafe, Replaying, NewOff, NewBufOff, ReadOff, ReadBufOff

(* What the label "lexed" does: the call ends, and held text starts with the *)
(* first character of the token.                                            *)
LEMMA LexedIInv ==
  ASSUME IInv, pc \in ReadPoints, NEW tok \in Tokens,
         NEW off \in offset..Len(text), NEW boff \in Nat,
         tok = "eof" => off = offset /\ offset = Len(text),
         Lexed(tok, off, boff), error' \in Errors, has_escapes' \in BOOLEAN,
         held' \in [point : Points, esc : BOOLEAN],
         UNCHANGED <<config, client>>
  PROVE  IInv'
<1> DEFINE part == SubSeq(text, start_off + 1, off)
           heldPart == IF buf_in_use THEN buf ELSE <<>>
<1> USE DEF IInv
<1>1. /\ start_off \in Nat /\ off \in Nat /\ start_off <= off
      /\ off <= Len(text) /\ Len(text) \in Nat
  BY LenProperties DEF TypeOK, IndexSafe
<1>2. /\ part \in Seq(Chars)
      /\ Len(part) = off - start_off
      /\ part # <<>> => Head(part) = text[start_off + 1]
  <2>1. \A i \in (start_off + 1)..off : text[i] \in Chars
    BY <1>1, ElementOfSeq DEF TypeOK
  <2>2. /\ part \in Seq(Chars)
        /\ Len(part) = IF start_off + 1 <= off THEN off - (start_off + 1) + 1 ELSE 0
        /\ \A i \in 1..(off - (start_off + 1) + 1) : part[i] = text[start_off + 1 + i - 1]
    BY <1>1, <2>1, SubSeqProperties
  <2>3. part # <<>> => Head(part) = part[1] /\ Len(part) > 0
    BY <2>2, EmptySeq, LenProperties
  <2> QED BY <1>1, <2>2, <2>3
<1>3. heldPart \in Seq(Chars) /\ heldPart \o part \in Seq(Chars)
  BY <1>2, EmptySeq, ConcatProperties DEF TypeOK
<1>4. \A s \in Seq(Chars) : Lexeme(tok, s) \in Seq(Chars)
  <2> TAKE s \in Seq(Chars)
  <2>1. \A i \in 2..(Len(s) - 1) : s[i] \in Chars
    BY LenProperties
  <2>2. SubSeq(s, 2, Len(s) - 1) \in Seq(Chars)
    BY <2>1, LenProperties, SubSeqProperties
  <2> QED BY <2>2 DEF Lexeme
<1>5. /\ pc' = "idle" /\ offset' = off /\ start_off' = start_off /\ text' = text
      /\ buf_off' \in Nat /\ buf' \in Seq(Chars) /\ buf_in_use' \in BOOLEAN
      /\ buf_in_use' => tok = "eof" /\ buf_off' = 0 /\ buf' = heldPart \o part
  <2>1. pc' = "idle" /\ offset' = off /\ start_off' = start_off /\ text' = text
    BY DEF Lexed, client
  <2>2. CASE tok = "eof" \/ buf_in_use
    <3>1. buf' = heldPart \o part /\ buf_off' = 0 /\ buf_in_use' = (tok = "eof")
      BY <2>2 DEF Lexed, HeldPart
    <3> HIDE DEF heldPart, part
    <3> QED BY <1>3, <2>1, <3>1
  <2>3. CASE ~(tok = "eof" \/ buf_in_use)
    <3>1. buf' = buf /\ buf_off' = boff /\ buf_in_use' = buf_in_use
      BY <2>3 DEF Lexed
    <3> QED BY <2>1, <2>3, <3>1 DEF TypeOK
  <2> QED BY <2>2, <2>3
<1>6. result' \in [tok : Tokens \cup {"none"}, lexeme : Seq(Chars)]
  <2>1. \/ result' = Result(tok, <<>>)
        \/ result' = Result(tok, Lexeme(tok, heldPart \o part))
    BY DEF Lexed, HeldPart
  <2>2. Lexeme(tok, heldPart \o part) \in Seq(Chars) /\ <<>> \in Seq(Chars)
    BY <1>3, <1>4, EmptySeq
  <2>3. \A s \in Seq(Chars) : Result(tok, s) \in [tok : Tokens \cup {"none"}, lexeme : Seq(Chars)]
    BY DEF Result
  <2> HIDE DEF heldPart, part
  <2> QED BY <2>1, <2>2, <2>3
<1>7. TypeOK'
  BY <1>1, <1>5, <1>6 DEF TypeOK, config, client
<1>8. IndexSafe'
  <2>1. Len(text') = Len(text) /\ Len(buf') \in Nat
    BY <1>5, LenProperties
  <2>2. start_off' <= offset' /\ offset' <= Len(text')
    BY <1>1, <1>5
  <2>3. buf_in_use' => buf_off' = 0 /\ offset' = Len(text')
    BY <1>5, <2>1
  <2> QED BY <2>1, <2>2, <2>3 DEF IndexSafe, Replaying
<1>9. TokenStart'
  <2>1. buf_in_use' /\ buf' # <<>> => Head(buf') \notin Whitespace
    <3> SUFFICES ASSUME tok = "eof", heldPart \o part # <<>>
                 PROVE  Head(heldPart \o part) \notin Whitespace
      <4> HIDE DEF heldPart, part
      <4> QED BY <1>5
    <3> HIDE DEF part
    <3>1. CASE heldPart # <<>>
      <4>1. Head(heldPart \o part) = Head(heldPart)
        BY <1>2, <1>3, <3>1, ConcatProperties, EmptySeq, LenProperties
      <4> QED BY <3>1, <4>1 DEF TokenStart
    <3>2. CASE heldPart = <<>>
      <4>1. NothingHeld /\ heldPart \o part = part
        BY <1>2, <3>2, ConcatEmptySeq DEF NothingHeld
      <4>2. part # <<>> /\ start_off < off
        BY <1>1, <1>2, <4>1, EmptySeq
      <4>3. text[start_off + 1] \notin Whitespace
        BY <1>1, <4>1, <4>2 DEF TokenStart, TypeOK, ReadPoints, LiteralPoints,
             StringPoints, Utf8Points, NumberPoints, CommentPoints
      <4> QED BY <1>2, <4>1, <4>2, <4>3
    <3> QED BY <3>1, <3>2
  <2> QED BY <1>5, <2>1 DEF TokenStart
<1> QED BY <1>7, <1>8, <1>9

(* One character read, with any outcome that is not a return to the switch. *)
LEMMA ReadIInv ==
  ASSUME IInv, pc \in ReadPoints, offset < Len(text), Chr \notin Whitespace \/ pc # "lex",
         NEW out \in Outcomes, NEW tok \in Tokens \cup {"none"}, tok # "eof",
         tok = "none" => out.to # "lex" /\ (out.to = "number" <=> pc = "lex" /\ out.back),
         tok = "none" /\ pc = "number" => ~out.back,
         Read(out, tok), has_escapes' \in BOOLEAN
  PROVE  IInv'
<1> DEFINE off == NewOff(out.back)
           boff == NewBufOff(out.back)
<1>1. /\ out.back \in BOOLEAN /\ out.to \in Points /\ out.err \in Errors
      /\ out.to \in Points
  BY DEF Outcomes
<1>2. /\ off \in offset..Len(text) /\ boff \in Nat
      /\ Replaying => off = 0 /\ offset = 0
      /\ buf_in_use => boff <= Len(buf)
      /\ ~Replaying => boff = buf_off
      /\ ~Replaying => off = IF out.back THEN offset ELSE offset + 1
      /\ Replaying => boff = IF out.back THEN buf_off ELSE buf_off + 1
  BY <1>1, ReadIndices
<1>3. error' \in Errors
  BY <1>1 DEF Read, IInv, TypeOK
<1>4. UNCHANGED <<config, client>> /\ held' = held
  BY DEF Read
<1>5. CASE tok # "none"
  <2>1. tok \in Tokens /\ Lexed(tok, off, boff)
    BY <1>5 DEF Read
  <2>2. held' \in [point : Points, esc : BOOLEAN]
    BY <1>4 DEF IInv, TypeOK
  <2> HIDE DEF off, boff
  <2> QED BY <1>2, <1>3, <1>4, <2>1, <2>2, LexedIInv
<1>6. CASE tok = "none"
  <2>1. /\ pc' = out.to /\ offset' = off /\ buf_off' = boff
        /\ UNCHANGED <<buf, buf_in_use, start_off, result>>
    BY <1>6 DEF Read
  <2>2. UNCHANGED <<allow_comments, validate_utf8, input, avail, text, held>>
    BY <1>4 DEF config, client
  <2> HIDE DEF off, boff
  <2>3. TypeOK'
    <3>1. offset \in Nat /\ Len(text) \in Nat
      BY LenProperties DEF IInv, TypeOK
    <3> QED BY <1>1, <1>2, <1>3, <2>1, <2>2, <3>1 DEF IInv, TypeOK
  <2>4. IndexSafe'
    <3>1. offset \in Nat /\ Len(text) \in Nat /\ start_off \in Nat /\ start_off <= offset
      BY LenProperties DEF IInv, TypeOK, IndexSafe
    <3>2. buf_off \in Nat /\ Len(buf) \in Nat /\ (buf_in_use => buf_off <= Len(buf))
      BY LenProperties DEF IInv, TypeOK, IndexSafe
    <3>3. Replaying' => Replaying
      BY <1>2, <2>1, <3>2 DEF Replaying
    <3> QED BY <1>2, <2>1, <2>2, <3>1, <3>2, <3>3 DEF IndexSafe
  <2>5. TokenStart'
    <3>1. pc' \notin {"idle", "lex"}
      BY <1>1, <1>6, <2>1 DEF Points, ReadPoints, LiteralPoints, StringPoints, Utf8Points,
         NumberPoints, CommentPoints
    <3>2. pc' = "number" => Chr' \notin Whitespace
      <4> SUFFICES ASSUME pc' = "number" PROVE Chr' = Chr
        BY <1>6, <2>1
      <4>1. offset' = offset /\ buf_off' = buf_off
        BY <1>2, <1>6, <2>1
      <4> QED BY <2>1, <2>2, <4>1 DEF Chr, Replaying
    <3>3. buf_in_use' /\ buf' # <<>> => Head(buf') \notin Whitespace
      BY <2>1 DEF IInv, TokenStart
    <3>4. ASSUME NothingHeld'
          PROVE  IF pc' = "number" THEN start_off' = offset'
                 ELSE start_off' < offset' /\ text'[start_off' + 1] \notin Whitespace
      <4>1. NothingHeld /\ ~Replaying
        BY <2>1, <3>4, EmptySeq DEF NothingHeld, Replaying, IInv, TypeOK
      <4>2. Chr = text[offset + 1] /\ offset \in Nat /\ start_off \in Nat
        BY <4>1 DEF Chr, IInv, TypeOK
      <4>3. CASE pc \in {"lex", "number"}
        <5>1. start_off = offset
          BY <4>1, <4>3 DEF IInv, TokenStart
        <5>2. Chr \notin Whitespace
          BY <4>3 DEF IInv, TokenStart
        <5> QED BY <1>1, <1>2, <1>6, <2>1, <2>2, <4>1, <4>2, <4>3, <5>1, <5>2
      <4>4. CASE pc \notin {"lex", "number"}
        <5>1. pc # "idle"
          BY DEF ReadPoints, LiteralPoints, StringPoints, Utf8Points, NumberPoints, CommentPoints
        <5>2. start_off < offset /\ text[start_off + 1] \notin Whitespace
          BY <4>1, <4>4, <5>1 DEF IInv, TokenStart
        <5>3. pc' # "number" /\ offset <= offset' /\ offset' \in Int
          BY <1>2, <1>6, <2>1, <4>2, <4>4
        <5> QED BY <2>1, <2>2, <4>2, <5>2, <5>3
      <4> QED BY <4>3, <4>4
    <3> QED BY <3>1, <3>2, <3>3, <3>4 DEF TokenStart
  <2> QED BY <2>3, <2>4, <2>5 DEF IInv
<1> QED BY <1>5, <1>6

-----------------------------------------------------------------------------
(* One lemma per action of the call. *)

LEMMA EndOfChunkIInv == IInv /\ EndOfChunk => IInv'
<1> SUFFICES ASSUME IInv, EndOfChunk PROVE IInv'
  OBVIOUS
<1>1. pc \in ReadPoints /\ Lexed("eof", offset, buf_off) /\ "eof" \in Tokens
  BY DEF EndOfChunk, Tokens
<1>2. offset = Len(text) /\ offset \in offset..Len(text) /\ buf_off \in Nat
  BY LenProperties DEF EndOfChunk, IInv, TypeOK, IndexSafe
<1>3. error' \in Errors /\ has_escapes' \in BOOLEAN /\ UNCHANGED <<config, client>>
  BY DEF EndOfChunk, IInv, TypeOK
<1>4. held' \in [point : Points, esc : BOOLEAN]
  BY DEF EndOfChunk, Break, Points, IInv, TypeOK
<1> QED BY <1>1, <1>2, <1>3, <1>4, LexedIInv

LEMMA LexSwitchIInv == IInv /\ LexSwitch => IInv'
<1> SUFFICES ASSUME IInv, LexSwitch PROVE IInv'
  OBVIOUS
<1>1. /\ pc = "lex" /\ pc \in ReadPoints /\ offset < Len(text) /\ Chr \in Chars
      /\ has_escapes' = FALSE
  BY ChrType DEF LexSwitch, ReadPoints
<1>2. CASE Chr \in Whitespace
  <2>1. /\ offset' = ReadOff /\ buf_off' = ReadBufOff /\ start_off' = start_off + 1
        /\ UNCHANGED <<buf, buf_in_use, error, config, pc, result, client, held>>
    BY <1>2 DEF LexSwitch
  <2>2. ~Replaying
    <3> SUFFICES ASSUME Replaying PROVE FALSE
      OBVIOUS
    <3>1. buf_off = 0 /\ buf # <<>> /\ Chr = Head(buf)
      BY <1>1 DEF Replaying, Chr, IInv, TypeOK, TokenStart
    <3> QED BY <1>2, <3>1 DEF Replaying, IInv, TokenStart
  <2>3. offset' = offset + 1 /\ buf_off' = buf_off /\ start_off = offset
    BY <1>1, <2>1, <2>2 DEF ReadOff, ReadBufOff, IInv, TokenStart
  <2>4. Len(text) \in Nat /\ offset \in Nat /\ UNCHANGED <<input, avail, text>>
        /\ UNCHANGED <<allow_comments, validate_utf8>>
    BY <2>1, LenProperties DEF client, config, IInv, TypeOK
  <2>5. TypeOK'
    <3>1. has_escapes' \in BOOLEAN /\ start_off' \in Nat /\ offset' \in Nat
      <4>1. has_escapes' \in BOOLEAN
        BY <1>1
      <4>2. start_off' \in Nat /\ offset' \in Nat
        BY <2>1, <2>3, <2>4
      <4> QED BY <4>1, <4>2
    <3>2. buf_off' \in Nat /\ UNCHANGED <<buf, buf_in_use, error, pc, result, held>>
      BY <2>1, <2>3 DEF IInv, TypeOK
    <3> QED BY <2>4, <3>1, <3>2 DEF IInv, TypeOK
  <2>6. IndexSafe' /\ TokenStart'
    BY <1>1, <2>1, <2>2, <2>3, <2>4 DEF IInv, IndexSafe, TokenStart, Replaying
  <2> QED BY <2>5, <2>6 DEF IInv
<1>3. CASE Chr \notin Whitespace
  <2> DEFINE out == Dispatch(Chr, allow_comments)
  <2>1. Read(out, out.tok)
    BY <1>3 DEF LexSwitch
  <2>2. out \in Outcomes /\ (out.tok = "none" => out.to # "lex" /\ (out.to = "number" <=> out.back))
    BY <1>1, <1>3, DispatchOutcome DEF IInv, TypeOK
  <2>3. out.tok \in Tokens \cup {"none"} /\ out.tok # "eof"
    <3>1. out.tok # "eof"
      BY DEF Dispatch, Outcome, Go, GoBack, Tok, Fail, FailBack
    <3> QED BY <2>2, <3>1 DEF Outcomes
  <2> HIDE DEF out
  <2> QED BY <1>1, <1>3, <2>1, <2>2, <2>3, ReadIInv
<1> QED BY <1>2, <1>3

LEMMA LexLiteralIInv == IInv /\ LexLiteral => IInv'
<1> SUFFICES ASSUME IInv, LexLiteral PROVE IInv'
  OBVIOUS
<1> DEFINE out == Literal(pc, Chr)
<1>1. pc \in LiteralPoints /\ offset < Len(text) /\ Chr \in Chars /\ Read(out, out.tok)
  BY ChrType DEF LexLiteral
<1>2. pc \in ReadPoints /\ pc # "lex"
  BY <1>1 DEF ReadPoints, LiteralPoints
<1>3. /\ out \in Outcomes
      /\ out.tok = "none" => out.to \notin {"lex", "number"}
      /\ out.tok = "none" /\ pc = "number" => ~out.back
  BY <1>1, LiteralOutcome DEF LiteralPoints
<1>4. out.tok \in Tokens \cup {"none"} /\ out.tok # "eof"
  <2>1. out.tok # "eof"
    BY DEF Literal, Outcome, Go, Tok, FailBack
  <2> QED BY <1>3, <2>1 DEF Outcomes
<1>5. has_escapes' \in BOOLEAN
  BY DEF LexLiteral, IInv, TypeOK
<1> HIDE DEF out
<1> QED BY <1>1, <1>2, <1>3, <1>4, <1>5, ReadIInv

LEMMA LexNumberIInv == IInv /\ LexNumber => IInv'
<1> SUFFICES ASSUME IInv, LexNumber PROVE IInv'
  OBVIOUS
<1> DEFINE out == NumberChar(pc, Chr)
<1>1. pc \in NumberPoints /\ offset < Len(text) /\ Chr \in Chars /\ Read(out, out.tok)
  BY ChrType DEF LexNumber
<1>2. pc \in ReadPoints /\ pc # "lex"
  BY <1>1 DEF ReadPoints, NumberPoints
<1>3. /\ out \in Outcomes
      /\ out.tok = "none" => out.to \notin {"lex", "number"}
      /\ out.tok = "none" /\ pc = "number" => ~out.back
  BY <1>1, NumberOutcome DEF NumberPoints
<1>4. out.tok \in Tokens \cup {"none"} /\ out.tok # "eof"
  <2>1. out.tok # "eof"
    BY DEF NumberChar, NumberTail, Outcome, Go, TokBack, FailBack
  <2> QED BY <1>3, <2>1 DEF Outcomes
<1>5. has_escapes' \in BOOLEAN
  BY DEF LexNumber, IInv, TypeOK
<1> HIDE DEF out
<1> QED BY <1>1, <1>2, <1>3, <1>4, <1>5, ReadIInv

LEMMA LexStringIInv == IInv /\ LexString => IInv'
<1> SUFFICES ASSUME IInv, LexString PROVE IInv'
  OBVIOUS
<1> DEFINE out == StringChar(pc, Chr, validate_utf8)
           tok == IF out.tok = "string" /\ has_escapes THEN "string_with_escapes" ELSE out.tok
<1>1. pc \in StringPoints /\ offset < Len(text) /\ Chr \in Chars /\ Read(out, tok)
  BY ChrType DEF LexString
<1>2. pc \in ReadPoints /\ pc # "lex" /\ pc # "number"
  BY <1>1 DEF ReadPoints, StringPoints, Utf8Points
<1>3. out \in Outcomes /\ (out.tok = "none" => out.to \notin {"lex", "number"})
  BY <1>1, StringOutcome DEF IInv, TypeOK
<1>4. out.tok # "eof"
  BY DEF StringChar, Utf8Char, Utf8Lead, Outcome, Go, Tok, Fail, FailBack
<1> HIDE DEF out
<1>5. tok \in Tokens \cup {"none"} /\ tok # "eof" /\ (tok = "none" => out.tok = "none")
  BY <1>3, <1>4 DEF Outcomes, Tokens
<1>6. has_escapes' \in BOOLEAN
  BY DEF LexString, IInv, TypeOK
<1> HIDE DEF tok
<1> QED BY <1>1, <1>2, <1>3, <1>5, <1>6, ReadIInv

LEMMA LexCommentIInv == IInv /\ LexComment => IInv'
<1> SUFFICES ASSUME IInv, LexComment PROVE IInv'
  OBVIOUS
<1> DEFINE out == CommentChar(pc, Chr)
<1>1. /\ pc \in CommentPoints /\ offset < Len(text) /\ Chr \in Chars
      /\ has_escapes' = has_escapes
  BY ChrType DEF LexComment
<1>2. pc \in ReadPoints /\ pc # "lex" /\ pc # "number"
  BY <1>1 DEF ReadPoints, CommentPoints
<1>3. out \in Outcomes /\ out.to # "number"
  BY <1>1, CommentOutcome
<1>4. out.tok # "eof"
  BY DEF CommentChar, Outcome, Go, GoBack, Fail
<1>5. CASE out.to = "lex" /\ out.tok = "none"
  <2>1. /\ pc' = "lex" /\ offset' = ReadOff /\ start_off' = ReadOff
        /\ buf' = <<>> /\ buf_off' = ReadBufOff /\ buf_in_use' = FALSE
        /\ UNCHANGED <<error, config, result, client, held>>
    BY <1>5 DEF LexComment, DropComment
  <2>2. offset \in Nat /\ ReadOff \in offset..Len(text) /\ ReadBufOff \in Nat /\ ReadOff \in Nat
    BY <1>1, LenProperties DEF ReadOff, ReadBufOff, IInv, TypeOK, IndexSafe
  <2>3. UNCHANGED <<input, avail, text, allow_comments, validate_utf8>>
    BY <2>1 DEF client, config
  <2>4. TypeOK'
    <3>1. buf' \in Seq(Chars) /\ pc' \in Points \cup {"idle"} /\ buf_in_use' \in BOOLEAN
      BY <2>1, EmptySeq DEF Points, ReadPoints
    <3> QED BY <1>1, <2>1, <2>2, <2>3, <3>1 DEF IInv, TypeOK
  <2>5. IndexSafe' /\ TokenStart'
    BY <2>1, <2>2, <2>3 DEF IndexSafe, TokenStart, Replaying
  <2> QED BY <2>4, <2>5 DEF IInv
<1>6. CASE ~(out.to = "lex" /\ out.tok = "none")
  <2>1. Read(out, out.tok)
    BY <1>6 DEF LexComment
  <2>2. out.tok \in Tokens \cup {"none"} /\ has_escapes' \in BOOLEAN
    BY <1>1, <1>3 DEF Outcomes, IInv, TypeOK
  <2> HIDE DEF out
  <2> QED BY <1>1, <1>2, <1>3, <1>4, <1>6, <2>1, <2>2, ReadIInv
<1> QED BY <1>5, <1>6

LEMMA StringScanIInv == IInv /\ StringScan => IInv'
<1> SUFFICES ASSUME IInv, StringScan PROVE IInv'
  OBVIOUS
<1>1. /\ pc = "scan" /\ pc' = "str"
      /\ UNCHANGED <<buf, buf_in_use, error, start_off, has_escapes, result, held>>
      /\ UNCHANGED <<allow_comments, validate_utf8, input, avail, text>>
  BY DEF StringScan, config, client
<1>2. /\ offset \in Nat /\ buf_off \in Nat /\ start_off \in Nat /\ start_off <= offset
      /\ Len(buf) \in Nat /\ Len(text) \in Nat /\ offset <= Len(text)
  BY LenProperties DEF IInv, TypeOK, IndexSafe
<1>3. /\ offset' \in offset..Len(text) /\ buf_off' \in Nat
      /\ Replaying => offset' = offset /\ buf_off' \in buf_off..Len(buf)
      /\ ~Replaying => buf_off' = buf_off
  <2>1. CASE Replaying
    <3>1. PICK n \in 0..(Len(buf) - buf_off) : buf_off' = buf_off + n /\ offset' = offset
      BY <2>1 DEF StringScan
    <3> QED BY <1>2, <2>1, <3>1
  <2>2. CASE ~Replaying
    <3>1. PICK n \in 0..(Len(text) - offset) : offset' = offset + n /\ buf_off' = buf_off
      BY <2>2 DEF StringScan
    <3> QED BY <1>2, <2>2, <3>1
  <2> QED BY <2>1, <2>2
<1>4. TypeOK'
  <2>1. pc' \in Points \cup {"idle"} /\ offset' \in Nat
    BY <1>1, <1>2, <1>3 DEF Points, ReadPoints, StringPoints
  <2> QED BY <1>1, <1>3, <2>1 DEF IInv, TypeOK
<1>5. IndexSafe'
  <2>1. Replaying' => Replaying
    BY <1>1, <1>3 DEF Replaying
  <2> QED BY <1>1, <1>2, <1>3, <2>1 DEF IInv, IndexSafe, Replaying
<1>6. TokenStart'
  <2>1. NothingHeld' => start_off' < offset' /\ text'[start_off' + 1] \notin Whitespace
    BY <1>1, <1>2, <1>3 DEF IInv, TokenStart, NothingHeld
  <2> QED BY <1>1, <2>1 DEF IInv, TokenStart
<1> QED BY <1>4, <1>5, <1>6 DEF IInv

(* The client's moves: a new chunk is read from its start. *)
LEMMA ClientIInv ==
  ASSUME IInv, (\E n \in 0..Len(input) : NextChunk(n)) \/ Lex \/ Finalize
  PROVE  IInv'
<1>1. /\ offset \in Nat /\ Len(text) \in Nat /\ input \in Seq(Chars) /\ Len(input) \in Nat
      /\ offset <= Len(text)
  BY InputsAssumption, LenProperties DEF IInv, TypeOK, IndexSafe
<1>2. /\ pc = "idle" /\ pc' \in {"idle", "lex"} /\ start_off' = offset'
      /\ UNCHANGED <<buf, buf_off, buf_in_use, error, has_escapes, result, input, held>>
      /\ UNCHANGED <<allow_comments, validate_utf8>>
      /\ offset' = 0 \/ (offset' = offset /\ text' = text)
      /\ pc' = "idle" => offset' = 0
  BY DEF NextChunk, Lex, Finalize, holding, config, client
<1>3. text' \in Seq(Chars) /\ avail' \in Nat
  <2>1. ASSUME NEW n \in 0..Len(input), NextChunk(n) PROVE text' \in Seq(Chars) /\ avail' \in Nat
    <3>1. avail \in Nat /\ avail + n <= Len(input) /\ n \in Nat
      BY <1>1, <2>1 DEF NextChunk, IInv, TypeOK
    <3>2. \A i \in (avail + 1)..(avail + n) : input[i] \in Chars
      BY <1>1, <3>1, ElementOfSeq
    <3>3. SubSeq(input, avail + 1, avail + n) \in Seq(Chars)
      BY <3>1, <3>2, SubSeqProperties
    <3> QED BY <2>1, <3>1, <3>3 DEF NextChunk
  <2>2. CASE Lex
    BY <2>2 DEF Lex, client, IInv, TypeOK
  <2>3. CASE Finalize
    <3>1. "space" \in Chars /\ avail \in Nat
      BY DEF Chars, IInv, TypeOK
    <3>2. text' = <<"space">> /\ avail' = avail + 1
      BY <2>3 DEF Finalize
    <3>3. <<"space">> \in Seq(Chars)
      BY <3>1
    <3>4. avail' \in Nat
      BY <3>1, <3>2
    <3> QED BY <3>2, <3>3, <3>4
  <2> QED BY <2>1, <2>2, <2>3
<1>4. TypeOK'
  BY <1>1, <1>2, <1>3 DEF IInv, TypeOK, Points, ReadPoints
<1>5. IndexSafe'
  <2>1. Len(text') \in Nat
    BY <1>3, LenProperties
  <2> QED BY <1>1, <1>2, <2>1 DEF IInv, IndexSafe, Replaying
<1>6. TokenStart'
  BY <1>2 DEF IInv, TokenStart
<1> QED BY <1>4, <1>5, <1>6 DEF IInv

-----------------------------------------------------------------------------
(* IInv is inductive. *)
LEMMA NextIInv == IInv /\ [Next]_vars => IInv'
<1> SUFFICES ASSUME IInv, [Next]_vars PROVE IInv'
  OBVIOUS
<1>1. CASE (\E n \in 0..Len(input) : NextChunk(n)) \/ Lex \/ Finalize
  BY <1>1, ClientIInv
<1>2. CASE Step
  BY <1>2, EndOfChunkIInv, LexSwitchIInv, LexLiteralIInv, StringScanIInv, LexStringIInv,
     LexNumberIInv, LexCommentIInv DEF Step
<1>3. CASE UNCHANGED vars
  BY <1>3 DEF vars, holding, config, client, IInv, TypeOK, IndexSafe, TokenStart,
     NothingHeld, Replaying, Chr
<1> QED BY <1>1, <1>2, <1>3 DEF Next

-----------------------------------------------------------------------------
(* What a step of the call does to the token: it is begun, or begun afresh, *)
(* in the switch; it goes on; or the call ends.                             *)
TokenGoesOn ==
  /\ pc' \notin {"idle", "lex"}
  /\ pc = "lex" => offset < Len(text)
  /\ UNCHANGED <<buf, buf_in_use, start_off>>

CallEnds ==
  \E tok, off, boff : /\ Lexed(tok, off, boff)
                      /\ tok # "eof" => offset < Len(text)

LEMMA ReadShape ==
  ASSUME offset < Len(text), NEW out, out.to \in Points, NEW tok, Read(out, tok)
  PROVE  pc' = "lex" \/ TokenGoesOn \/ CallEnds
<1>1. CASE tok = "none"
  <2>1. pc' = out.to /\ UNCHANGED <<buf, buf_in_use, start_off>>
    BY <1>1 DEF Read
  <2>2. pc' # "idle"
    BY <2>1 DEF Points, ReadPoints, LiteralPoints, StringPoints, Utf8Points, NumberPoints,
       CommentPoints
  <2> QED BY <2>1, <2>2 DEF TokenGoesOn
<1>2. CASE tok # "none"
  <2>1. Lexed(tok, NewOff(out.back), NewBufOff(out.back))
    BY <1>2 DEF Read
  <2> QED BY <2>1 DEF CallEnds
<1> QED BY <1>1, <1>2

LEMMA StepShape ==
  ASSUME IInv, Step
  PROVE  pc' = "lex" \/ TokenGoesOn \/ CallEnds
<1>1. CASE EndOfChunk
  <2>1. Lexed("eof", offset, buf_off)
    BY <1>1 DEF EndOfChunk
  <2> QED BY <2>1 DEF CallEnds
<1>2. CASE LexSwitch
  <2>1. pc = "lex" /\ offset < Len(text) /\ Chr \in Chars
    BY <1>2, ChrType DEF LexSwitch
  <2>2. CASE Chr \in Whitespace
    BY <1>2, <2>1, <2>2 DEF LexSwitch
  <2>3. CASE Chr \notin Whitespace
    <3> DEFINE out == Dispatch(Chr, allow_comments)
    <3>1. Read(out, out.tok)
      BY <1>2, <2>3 DEF LexSwitch
    <3>2. out.to \in Points
      BY <2>1, <2>3, DispatchOutcome DEF IInv, TypeOK, Outcomes
    <3> HIDE DEF out
    <3> QED BY <2>1, <3>1, <3>2, ReadShape
  <2> QED BY <2>2, <2>3
<1>3. CASE LexLiteral
  <2>1. /\ pc \in LiteralPoints /\ offset < Len(text) /\ Chr \in Chars
        /\ Read(Literal(pc, Chr), Literal(pc, Chr).tok)
    BY <1>3, ChrType DEF LexLiteral
  <2>2. Literal(pc, Chr).to \in Points
    BY <2>1, LiteralOutcome DEF Outcomes
  <2> QED BY <2>1, <2>2, ReadShape
<1>4. CASE StringScan
  BY <1>4 DEF StringScan, TokenGoesOn
<1>5. CASE LexString
  <2> DEFINE out == StringChar(pc, Chr, validate_utf8)
  <2>1. /\ pc \in StringPoints /\ offset < Len(text) /\ Chr \in Chars
        /\ \E tok : Read(out, tok)
    BY <1>5, ChrType DEF LexString
  <2>2. out.to \in Points
    BY <2>1, StringOutcome DEF IInv, TypeOK, Outcomes
  <2> HIDE DEF out
  <2> QED BY <2>1, <2>2, ReadShape
<1>6. CASE LexNumber
  <2>1. /\ pc \in NumberPoints /\ offset < Len(text) /\ Chr \in Chars
        /\ Read(NumberChar(pc, Chr), NumberChar(pc, Chr).tok)
    BY <1>6, ChrType DEF LexNumber
  <2>2. NumberChar(pc, Chr).to \in Points
    BY <2>1, NumberOutcome DEF Outcomes
  <2> QED BY <2>1, <2>2, ReadShape
<1>7. CASE LexComment
  <2> DEFINE out == CommentChar(pc, Chr)
  <2>1. /\ pc \in CommentPoints /\ offset < Len(text) /\ Chr \in Chars
        /\ DropComment \/ Read(out, out.tok)
    BY <1>7, ChrType DEF LexComment
  <2>2. out.to \in Points
    BY <2>1, CommentOutcome DEF Outcomes
  <2> HIDE DEF out
  <2> QED BY <2>1, <2>2, ReadShape DEF DropComment
<1> QED BY <1>1, <1>2, <1>3, <1>4, <1>5, <1>6, <1>7 DEF Step

(* The bytes of a token, other than a string, are what was held of it and   *)
(* what the call has read from start_off on.                                *)
LEMMA LexemeLength ==
  ASSUME IInv, IInv', UNCHANGED text, NEW tok, NEW off, NEW boff, Lexed(tok, off, boff),
         tok \notin {"eof", "error", "string", "string_with_escapes"}
  PROVE  /\ start_off' \in Nat /\ offset' \in Nat /\ Len(HeldPart) \in Nat
         /\ start_off' = start_off /\ start_off <= offset'
         /\ Len(result'.lexeme) = Len(HeldPart) + (offset' - start_off)
<1> DEFINE part == SubSeq(text, start_off + 1, off)
<1>1. /\ start_off \in Nat /\ off \in Nat /\ Len(text) \in Nat
      /\ start_off <= off /\ off <= Len(text) /\ offset' = off /\ start_off' = start_off
  BY LenProperties DEF Lexed, IInv, TypeOK, IndexSafe
<1>2. part \in Seq(Chars) /\ Len(part) = off - start_off
  <2>1. \A i \in (start_off + 1)..off : text[i] \in Chars
    BY <1>1, ElementOfSeq DEF IInv, TypeOK
  <2> QED BY <1>1, <2>1, SubSeqProperties
<1>3. HeldPart \in Seq(Chars)
  BY EmptySeq DEF HeldPart, IInv, TypeOK
<1>4. result'.lexeme = HeldPart \o part
  BY DEF Lexed, Lexeme, Result
<1> HIDE DEF part
<1>5. Len(HeldPart \o part) = Len(HeldPart) + Len(part) /\ Len(HeldPart) \in Nat
  BY <1>2, <1>3, ConcatProperties, LenProperties
<1> QED BY <1>1, <1>2, <1>4, <1>5

-----------------------------------------------------------------------------
(* Every variable keeps its type under every input and chunking: offset and *)
(* buf_off, which are size_t, never go below zero when unread_chr           *)
(* decrements one of them.                                                  *)
THEOREM TypeCorrect == Spec => []TypeOK
<1>1. IInv => TypeOK
  BY DEF IInv
<1> QED BY <1>1, InitIInv, NextIInv, PTL DEF Spec

(* No read of lex.c leaves the chunk or the held text, the appended length  *)
(* never wraps, and unread_chr puts a character back where it came from.    *)
THEOREM IndicesAreSafe == Spec => []IndexSafe
<1>1. IInv => IndexSafe
  BY DEF IInv
<1> QED BY <1>1, InitIInv, NextIInv, PTL DEF Spec

(* Held text is read again only through the switch, from a first character  *)
(* that is not white space.                                                 *)
THEOREM TokensStartClean == Spec => []TokenStart
<1>1. IInv => TokenStart
  BY DEF IInv
<1> QED BY <1>1, InitIInv, NextIInv, PTL DEF Spec
=============================================================================
