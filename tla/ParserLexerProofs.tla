-------------------------- MODULE ParserLexerProofs --------------------------
(***************************************************************************)
(* Proofs about the parser on top of the lexer, for any input in any       *)
(* chunks.  Module ParserProofs proves the parser right on the tokens of   *)
(* module TokenSource, module LexerRefinementProofs that the lexer         *)
(* delivers such tokens on one input; here the two are put together.       *)
(*                                                                         *)
(* do_parse() starts every chunk at offset 0, and after an error the       *)
(* parser may drop what is left of one, so that the chunks of two calls    *)
(* need not be parts of one unbroken input.  What the lexer can read       *)
(* during one call always is: the text it holds and the chunk of the call, *)
(* which is what the variable given records.  So every call of the client  *)
(* begins a stream of its own, on which the lexer's invariant holds anew   *)
(* (LexerBeginsAnew), and is kept until the next.                          *)
(***************************************************************************)
EXTENDS ParserLexer, SequenceTheorems, TLAPS

(* The lexer's stream is its input and the blank of jhn_lexer_finalize();   *)
(* when the parser finishes, the blank it hands over is that one.           *)
FeedOf(g, who) == IF who = "finish" THEN SubSeq(g, 1, Len(g) - 1) ELSE g
Fed(g, who) == Append(FeedOf(g, who), "space")
Feed == FeedOf(given, caller)

(* The two developments, on the state of this module. *)
LP == INSTANCE LexerRefinementProofs WITH
       Inputs <- Seq(Chars), input <- Feed, avail <- Len(given), pc <- lex_pc,
       allow_comments <- lexer.comments, validate_utf8 <- lexer.utf8,
       PeekComments <- FALSE, saved <- 0, told <- 0, stopped <- FALSE
PP == INSTANCE ParserProofs

-----------------------------------------------------------------------------
(* The parser of module ParserLexer and that of ParserProofs are one, and   *)
(* so are the lexers, which differ in what they call their input.           *)

LEMMA SameTake == \A call : P!Take(call) <=> PP!Take(call)
BY Zenon DEF P!Take, PP!Take, P!Top, PP!Top, P!Below, PP!Below, P!SetTop, PP!SetTop, P!InParse,
   PP!InParse, P!Failed, PP!Failed, P!Again, PP!Again, P!Return, PP!Return, P!Lex, PP!Lex,
   P!Call, PP!Call, P!Word, PP!Word, P!EndOfInput, PP!EndOfInput, P!LexFail, PP!LexFail,
   P!FailWith, PP!FailWith, P!Cancel, PP!Cancel, P!Close, PP!Close, P!Value, PP!Value,
   P!ValueStates, PP!ValueStates, P!Overflow, PP!Overflow, P!CallbackFor, PP!CallbackFor,
   P!Scalar, PP!Scalar, P!Open, PP!Open, P!EndsEmptyArray, PP!EndsEmptyArray, P!Advance,
   PP!Advance, P!Key, PP!Key, P!EndsEmptyMap, PP!EndsEmptyMap, P!Punctuated, PP!Punctuated,
   P!MapSep, PP!MapSep, P!MapGotVal, PP!MapGotVal, P!ArrayGotVal, PP!ArrayGotVal, P!Trailing,
   PP!Trailing, P!MustBeBlank, PP!MustBeBlank

LEMMA SameCalls == P!Lexed = PP!Lexed
BY Zenon DEF P!Lexed, PP!Lexed, P!Calls, PP!Calls, P!OnBlank, PP!OnBlank, P!OnChunk, PP!OnChunk,
   P!Call, PP!Call, P!Holds, PP!Holds, P!Yields, PP!Yields, P!Tokens, PP!Tokens, P!HeldKinds,
   PP!HeldKinds, P!CommentKinds, PP!CommentKinds

LEMMA SameTokenless == P!Tokenless <=> PP!Tokenless
BY Zenon DEF P!Tokenless, PP!Tokenless, P!NextValue, PP!NextValue, P!Done, PP!Done, P!Refuse,
   PP!Refuse, P!DoFinish, PP!DoFinish, P!MayEnd, PP!MayEnd, P!MustBeBlank, PP!MustBeBlank,
   P!source, PP!source, P!history, PP!history, P!Top, PP!Top, P!Below, PP!Below, P!SetTop,
   PP!SetTop, P!InParse, PP!InParse, P!Failed, PP!Failed, P!Again, PP!Again, P!Return,
   PP!Return

LEMMA SameStart == \A who, empty : P!Start(who, empty) <=> PP!Start(who, empty)
BY Zenon DEF P!Start, PP!Start, P!NoReturn, PP!NoReturn, P!history, PP!history

LEMMA SameConfig == \A option : P!Config(option) <=> PP!Config(option)
BY Zenon DEF P!Config, PP!Config, P!NoReturn, PP!NoReturn, P!source, PP!source, P!history, PP!history

LEMMA SameInit == P!Init <=> PP!Init
BY Zenon DEF P!Init, PP!Init, P!NoReturn, PP!NoReturn, P!NoLexer, PP!NoLexer

LEMMA SameVars == UNCHANGED P!vars <=> UNCHANGED PP!vars
BY Zenon DEF P!vars, PP!vars, P!source, PP!source, P!history, PP!history

LEMMA SameTypes == P!TypeOK <=> PP!TypeOK
BY Zenon DEF P!TypeOK, PP!TypeOK, P!States, PP!States, P!Options, PP!Options, P!SyntaxErrors,
   PP!SyntaxErrors, P!OtherErrors, PP!OtherErrors, P!HeldKinds, PP!HeldKinds, P!Status,
   PP!Status, P!NoReturn, PP!NoReturn, P!Containers, PP!Containers, P!Words, PP!Words,
   P!Punctuation, PP!Punctuation

LEMMA SameNext == P!Next <=> PP!Next
<1>1. P!Step <=> PP!Step
  BY SameTake, SameCalls, SameTokenless, Zenon DEF P!Step, PP!Step
<1>2. P!Parse <=> PP!Parse
  BY SameStart, Zenon DEF P!Parse, PP!Parse
<1>3. P!Finish <=> PP!Finish
  BY SameStart, Zenon DEF P!Finish, PP!Finish
<1> QED BY <1>1, <1>2, <1>3, SameConfig, Zenon DEF P!Next, PP!Next

LEMMA SameClasses ==
  /\ LP!Chars = Chars /\ L!Chars = Chars /\ L!Whitespace = LP!Whitespace
  /\ L!ReadPoints = LP!ReadPoints /\ L!LiteralPoints = LP!LiteralPoints
  /\ L!StringPoints = LP!StringPoints /\ L!NumberPoints = LP!NumberPoints
  /\ L!CommentPoints = LP!CommentPoints
BY DEF L!Chars, LP!Chars, L!VEC, LP!VEC, L!VHC, LP!VHC, L!IJC, LP!IJC, L!NUC, LP!NUC, L!Digits,
   LP!Digits, L!Controls, LP!Controls, L!NFP, LP!NFP, L!HighBytes, LP!HighBytes,
   L!Whitespace, LP!Whitespace, L!ReadPoints, LP!ReadPoints, L!LiteralPoints,
   LP!LiteralPoints, L!StringPoints, LP!StringPoints, L!NumberPoints, LP!NumberPoints,
   L!CommentPoints, LP!CommentPoints, L!Utf8Points, LP!Utf8Points,
   Chars, VEC, VHC, IJC, NUC, Digits, Controls, NFP, HighBytes

LEMMA SameTables ==
  /\ \A c, comments : L!Dispatch(c, comments) = LP!Dispatch(c, comments)
  /\ \A q, c : L!Literal(q, c) = LP!Literal(q, c)
  /\ \A q, c, utf8 : L!StringChar(q, c, utf8) = LP!StringChar(q, c, utf8)
  /\ \A q, c : L!NumberChar(q, c) = LP!NumberChar(q, c)
  /\ \A q, c : L!CommentChar(q, c) = LP!CommentChar(q, c)
BY Zenon DEF L!Dispatch, LP!Dispatch, L!Literal, LP!Literal, L!StringChar, LP!StringChar, L!NumberChar,
   LP!NumberChar, L!CommentChar, LP!CommentChar, L!Whitespace, LP!Whitespace, L!Digits,
   LP!Digits, L!Controls, LP!Controls, L!VEC, LP!VEC, L!VHC, LP!VHC, L!Want, LP!Want,
   L!LiteralNext, LP!LiteralNext, L!Utf8Points, LP!Utf8Points, L!Utf8Char, LP!Utf8Char,
   L!Utf8Lead, LP!Utf8Lead, L!Utf8Next, LP!Utf8Next, L!HexNext, LP!HexNext, L!NumberTail,
   LP!NumberTail, L!Go, LP!Go, L!GoBack, LP!GoBack, L!Tok, LP!Tok, L!TokBack, LP!TokBack,
   L!Fail, LP!Fail, L!FailBack, LP!FailBack, L!Outcome, LP!Outcome

LEMMA SameLexed == \A tok, off, boff : L!Lexed(tok, off, boff) <=> LP!Lexed(tok, off, boff)
BY Zenon DEF L!Lexed, LP!Lexed, L!HeldPart, LP!HeldPart, L!Result, LP!Result, L!Lexeme, LP!Lexeme

LEMMA SameChr ==
  /\ L!Replaying <=> LP!Replaying
  /\ L!Chr = LP!Chr /\ L!ReadOff = LP!ReadOff /\ L!ReadBufOff = LP!ReadBufOff
  /\ \A back : L!NewOff(back) = LP!NewOff(back) /\ L!NewBufOff(back) = LP!NewBufOff(back)
BY Zenon DEF L!Chr, LP!Chr, L!Replaying, LP!Replaying, L!ReadOff, LP!ReadOff, L!ReadBufOff,
   LP!ReadBufOff, L!NewOff, LP!NewOff, L!NewBufOff, LP!NewBufOff

LEMMA Kept ==
  ASSUME UNCHANGED <<given, caller, lexer>>
  PROVE  /\ UNCHANGED L!client => UNCHANGED LP!client
         /\ UNCHANGED LP!config
BY DEF L!client, LP!client, LP!config, Feed

LEMMA SameRead ==
  ASSUME UNCHANGED <<given, caller, lexer>>, NEW out, NEW tok, L!Read(out, tok)
  PROVE  LP!Read(out, tok)
BY SameLexed, SameChr, Kept DEF L!Read, LP!Read

LEMMA SameStep ==
  ASSUME UNCHANGED <<given, caller, lexer>>, L!Step
  PROVE  LP!Step
<1>1. L!EndOfChunk => LP!EndOfChunk
  BY SameClasses, SameLexed, SameChr, Kept DEF L!EndOfChunk, LP!EndOfChunk, L!Break, LP!Break
<1>2. L!LexSwitch => LP!LexSwitch
  BY SameClasses, SameTables, SameRead, SameChr, Kept DEF L!LexSwitch, LP!LexSwitch
<1>3. L!LexLiteral => LP!LexLiteral
  BY SameClasses, SameTables, SameRead, SameChr DEF L!LexLiteral, LP!LexLiteral
<1>4. L!StringScan => LP!StringScan
  <2>1. \A s, k, n, utf8 : L!PlainRun(s, k, n, utf8) <=> LP!PlainRun(s, k, n, utf8)
    BY Zenon DEF L!PlainRun, LP!PlainRun, L!Plain, LP!Plain, L!Chars, LP!Chars, L!VEC, LP!VEC,
       L!VHC, LP!VHC, L!IJC, LP!IJC, L!NUC, LP!NUC, L!Digits, LP!Digits, L!Controls, LP!Controls,
       L!NFP, LP!NFP, L!HighBytes, LP!HighBytes
  <2> QED BY <2>1, SameChr, Kept DEF L!StringScan, LP!StringScan
<1>5. L!LexString => LP!LexString
  BY SameClasses, SameTables, SameRead, SameChr DEF L!LexString, LP!LexString
<1>6. L!LexNumber => LP!LexNumber
  BY SameClasses, SameTables, SameRead, SameChr DEF L!LexNumber, LP!LexNumber
<1>7. L!LexComment => LP!LexComment
  BY SameClasses, SameTables, SameRead, SameChr, Kept
  DEF L!LexComment, LP!LexComment, L!DropComment, LP!DropComment
<1> QED BY <1>1, <1>2, <1>3, <1>4, <1>5, <1>6, <1>7 DEF L!Step, LP!Step

LEMMA SameCall ==
  ASSUME UNCHANGED <<given, caller, lexer>>, L!Lex
  PROVE  LP!Lex
BY Kept DEF L!Lex, LP!Lex, L!holding, LP!holding

LEMMA SameHeld == LP!HeldKind = HeldKind /\ LP!HeldKind' = HeldKind'
BY Zenon DEF LP!HeldKind, HeldKind, LP!KindOf, KindOf, LP!LiteralPoints, LiteralPoints,
   LP!StringPoints, StringPoints, LP!Utf8Points, Utf8Points, LP!NumberPoints, NumberPoints,
   LP!CommentPoints, CommentPoints

LEMMA SameListed ==
  /\ \A k, comments, end, blank : LP!Calls(k, comments, end, blank) = P!Calls(k, comments, end, blank)
  /\ \A tok, k, end : LP!Call(tok, k, end) = Call(tok, k, end)
BY Zenon DEF LP!Calls, P!Calls, LP!OnBlank, P!OnBlank, LP!OnChunk, P!OnChunk, LP!Call, P!Call, Call,
   LP!Holds, P!Holds, LP!Yields, P!Yields, LP!Tokens, P!Tokens, LP!HeldKinds, P!HeldKinds,
   LP!CommentKinds, P!CommentKinds

-----------------------------------------------------------------------------
(* What the two developments say, in terms of this module.                  *)

LEMMA Allowed ==
  /\ Handled \subseteq PP!Callbacks /\ Configurable \subseteq PP!Options
  /\ MaxTokens \in Nat /\ MaxChunk \in Nat \ {0}
BY ParserLexerAssumption DEF P!Callbacks, P!Options, PP!Callbacks, PP!Options

LEMMA ParserStays ==
  /\ P!Init => PP!GInv
  /\ PP!GInv /\ [P!Next]_(P!vars) => PP!GInv'
  /\ PP!GInv => P!TypeOK
<1>1. P!Init => PP!GInv
  BY PP!InitGInv, SameInit, Allowed
<1>2. PP!GInv /\ [P!Next]_(P!vars) => PP!GInv'
  BY PP!NextGInv, SameNext, SameVars, Allowed
<1>3. PP!GInv => P!TypeOK
  BY SameTypes DEF PP!GInv, PP!IInv
<1> QED BY <1>1, <1>2, <1>3

LexerWell == LP!RInv /\ LP!BlankIsLast

LEMMA LexerStays ==
  ASSUME LexerWell, UNCHANGED <<given, caller, lexer>>, L!Step \/ L!Lex
  PROVE  LexerWell' /\ UNCHANGED text
<1>1. LP!Step \/ LP!Lex
  BY SameStep, SameCall
<1>2. LP!RInv'
  BY <1>1, LP!NextRefines, SameClasses DEF LexerWell, LP!Next
<1>3. UNCHANGED text
  BY <1>1, LP!StepLeaves, SameClasses DEF LP!client, LP!Lex
<1>4. LP!BlankIsLast'
  BY <1>3 DEF LexerWell, LP!BlankIsLast, LP!Finalized, LP!Stream, Feed
<1> QED BY <1>2, <1>3, <1>4 DEF LexerWell

LexerTyped ==
  /\ buf \in Seq(Chars) /\ buf_off \in Nat /\ buf_in_use \in BOOLEAN
  /\ error \in Errors /\ lex_pc \in Points \cup {"idle"} /\ start_off \in Nat
  /\ offset \in 0..Len(text) /\ result.lexeme \in Seq(Chars)

LEMMA LexerTypes == LexerWell => LexerTyped
<1> SUFFICES ASSUME LexerWell PROVE LexerTyped
  OBVIOUS
<1>1. LP!TypeOK /\ LP!IndexSafe
  BY DEF LexerWell, LP!RInv, LP!IInv
<1>2. LP!Errors = Errors /\ LP!Points = Points
  BY DEF LP!Errors, Errors, LP!Points, Points, LP!ReadPoints, ReadPoints, LP!LiteralPoints,
     LiteralPoints, LP!StringPoints, StringPoints, LP!NumberPoints, NumberPoints,
     LP!CommentPoints, CommentPoints, LP!Utf8Points, Utf8Points
<1>3. Len(text) \in Nat
  BY <1>1, SameClasses, LenProperties DEF LP!TypeOK
<1> QED BY <1>1, <1>2, <1>3, SameClasses DEF LP!TypeOK, LP!IndexSafe, LexerTyped

-----------------------------------------------------------------------------
(* The invariant that composes the two. *)

(* The texts of the call. *)
FedWell ==
  /\ input \in Inputs /\ avail \in Nat /\ text \in Seq(Chars) /\ given \in Seq(Chars)
  /\ caller = "finish" => text = <<"space">> /\ given # <<>> /\ given[Len(given)] = "space"

(* What jhn_lexer_lex() has returned is what the parser may expect. *)
Answers == Call(result.tok, HeldKind, offset = Len(text)) \in P!Lexed

(* The lexer only runs for a parser that waits for it, and what the parser  *)
(* knows of it, the kind of held text and whether the chunk is used up, is  *)
(* what it was when the lexer was called.                                   *)
Turns ==
  /\ asked => WantsToken
  /\ lex_pc # "idle" => asked /\ LP!StartedOn(kind, used_up)
  /\ asked /\ lex_pc = "idle" => Answers
  /\ ~asked /\ ~P!Failed => kind = HeldKind
  /\ P!InParse /\ ~P!Failed /\ ~asked => (used_up <=> offset = Len(text))
  /\ buf_in_use => lexer.made

(* A failed parser never calls the lexer again. *)
CInv == TypeOK /\ PP!GInv /\ FedWell /\ (~P!Failed => LexerWell) /\ Turns

LEMMA Feeding ==
  ASSUME NEW g \in Seq(Chars), NEW who, who = "finish" => g # <<>> /\ g[Len(g)] = "space"
  PROVE  /\ FeedOf(g, who) \in Seq(Chars) /\ Fed(g, who) \in Seq(Chars)
         /\ Len(g) <= Len(Fed(g, who)) /\ (Len(g) = Len(Fed(g, who)) <=> who = "finish")
         /\ \A i \in 1..Len(g) : Fed(g, who)[i] = g[i]
<1> DEFINE s == Fed(g, who)
<1> HIDE DEF s
<1>1. "space" \in Chars /\ Len(g) \in Nat
  BY LenProperties DEF Chars
<1>2. CASE who = "finish"
  <2> DEFINE n == Len(g) - 1
             f == SubSeq(g, 1, n)
  <2>1. n \in Nat /\ n + 1 = Len(g) /\ g[n + 1] = "space"
    <3>1. Len(g) # 0
      BY <1>2, EmptySeq
    <3> QED BY <1>1, <1>2, <3>1
  <2>2. f \in Seq(Chars) /\ Len(f) = n /\ \A i \in 1..n : f[i] = g[i]
    <3>1. \A i \in 1..n : g[i] \in Chars
      BY <2>1, ElementOfSeq
    <3> QED BY <2>1, <3>1, SubSeqProperties
  <2>3. FeedOf(g, who) = f
    BY <1>2 DEF FeedOf
  <2> HIDE DEF f, n
  <2>4. s = Append(f, "space")
    BY <2>3 DEF s, Fed
  <2>5. /\ s \in Seq(Chars) /\ Len(s) = n + 1 /\ s[n + 1] = "space"
        /\ \A i \in 1..n : s[i] = f[i]
    <3>1. /\ Append(f, "space") \in Seq(Chars) /\ Len(Append(f, "space")) = Len(f) + 1
          /\ Append(f, "space")[Len(f) + 1] = "space"
          /\ \A i \in 1..Len(f) : Append(f, "space")[i] = f[i]
      BY <1>1, <2>2, AppendProperties, Zenon
    <3> QED BY <2>2, <2>4, <3>1
  <2>6. ASSUME NEW i \in 1..Len(g) PROVE s[i] = g[i]
    <3>1. i \in 1..n \/ i = n + 1
      BY <2>1
    <3> QED BY <2>1, <2>2, <2>5, <3>1
  <2> QED BY <1>2, <2>1, <2>2, <2>3, <2>5, <2>6 DEF s
<1>3. CASE who # "finish"
  <2>1. s = Append(g, "space")
    BY <1>3 DEF FeedOf, Fed, s
  <2>2. s \in Seq(Chars) /\ Len(s) = Len(g) + 1 /\ \A i \in 1..Len(g) : s[i] = g[i]
    <3>1. /\ Append(g, "space") \in Seq(Chars) /\ Len(Append(g, "space")) = Len(g) + 1
          /\ \A i \in 1..Len(g) : Append(g, "space")[i] = g[i]
      BY <1>1, AppendProperties, Zenon
    <3> QED BY <2>1, <3>1
  <2> QED BY <1>1, <1>3, <2>2 DEF FeedOf, s
<1> QED BY <1>2, <1>3

LEMMA FinalizedOnFinish == FedWell => (LP!Finalized <=> caller = "finish")
<1> SUFFICES ASSUME FedWell PROVE LP!Finalized <=> caller = "finish"
  OBVIOUS
<1>1. Len(given) = Len(Fed(given, caller)) <=> caller = "finish"
  <2>1. given \in Seq(Chars) /\ (caller = "finish" => given # <<>> /\ given[Len(given)] = "space")
    BY DEF FedWell
  <2> QED BY <2>1, Feeding
<1> QED BY <1>1 DEF LP!Finalized, LP!Stream, Feed, Fed

LEMMA InitCInv == Init => CInv
<1> SUFFICES ASSUME Init PROVE CInv
  OBVIOUS
<1> USE DEF Init
<1>1. PP!GInv /\ P!TypeOK
  BY ParserStays
<1>2. /\ pc = "idle" /\ caller = "none" /\ kind = "none" /\ lexer = P!NoLexer
      /\ ~P!Failed /\ ~P!InParse
  BY DEF P!Init, P!Failed, P!Top, P!InParse
<1>3. Feed = <<>> /\ lexer.comments \in BOOLEAN /\ lexer.utf8 \in BOOLEAN
  BY <1>2 DEF Feed, FeedOf, P!NoLexer
<1>4. LP!Init
  BY <1>3, SameClasses DEF LP!Init, LP!Nothing, LP!Result, LP!Break, L!Nothing, L!Result, L!Break
<1>5. LP!RInv
  BY <1>4, LP!InitRefines, SameClasses
<1>6. FedWell
  BY <1>2, InputsAssumption DEF FedWell
<1>7. LexerWell
  BY <1>2, <1>5, <1>6, FinalizedOnFinish DEF LexerWell, LP!BlankIsLast
<1>8. TypeOK
  BY <1>1, <1>7, LexerTypes DEF TypeOK, LexerTyped
<1>9. Turns
  BY <1>2 DEF Turns, HeldKind
<1> QED BY <1>1, <1>6, <1>7, <1>8, <1>9 DEF CInv

-----------------------------------------------------------------------------
(* A call of the client begins. *)

Hands(who, n) ==
  /\ CInv /\ P!Start(who, n = 0)
  /\ text' \in Seq(Chars) /\ avail' \in Nat /\ Len(text') = n
  /\ who \in {"parse", "finish"} /\ (who = "finish" => text' = <<"space">>)
  /\ offset' = 0 /\ start_off' = 0 /\ given' = L!HeldPart \o text'
  /\ UNCHANGED <<inside, lex_pc, asked>>

LEMMA HandedOver ==
  ASSUME NEW who, NEW n, Hands(who, n)
  PROVE  /\ P!Next /\ PP!GInv' /\ P!TypeOK'
         /\ ~asked /\ lex_pc = "idle" /\ ~asked' /\ lex_pc' = "idle"
         /\ caller' = who /\ (used_up' <=> n = 0) /\ lexer'.made /\ (lexer.made => lexer' = lexer)
         /\ (P!Failed' <=> P!Failed) /\ kind' = kind
<1>1. P!Next
  <2>1. P!Start(who, n = 0) /\ who \in {"parse", "finish"}
    BY DEF Hands
  <2>2. CASE who = "parse"
    <3>1. (n = 0) \in BOOLEAN /\ P!Start("parse", n = 0)
      BY <2>1, <2>2
    <3>2. P!Parse
      BY <3>1 DEF P!Parse
    <3> QED BY <3>2 DEF P!Next
  <2>3. CASE who = "finish"
    <3>1. n = 1
      BY <2>3 DEF Hands
    <3>2. (n = 0) = FALSE
      BY <3>1
    <3>3. P!Start("finish", FALSE)
      BY <2>1, <2>3, <3>2
    <3> QED BY <3>3 DEF P!Next, P!Finish
  <2> QED BY <2>1, <2>2, <2>3
<1>2. PP!GInv' /\ P!TypeOK'
  <2>1. PP!GInv'
    BY <1>1, ParserStays DEF Hands, CInv
  <2>2. PP!GInv' => P!TypeOK'
    BY ParserStays, PTL
  <2> QED BY <2>1, <2>2
<1>3. pc = "idle" /\ caller' = who /\ used_up' = (n = 0) /\ UNCHANGED <<state_stack, kind>>
  BY DEF Hands, P!Start
<1>4. ~asked /\ lex_pc = "idle"
  BY <1>3 DEF Hands, CInv, Turns, WantsToken, P!InParse
<1>5. lexer'.made /\ (lexer.made => lexer' = lexer)
  BY DEF Hands, P!Start
<1>6. P!Failed' <=> P!Failed
  BY <1>3 DEF P!Failed, P!Top
<1> QED BY <1>1, <1>2, <1>3, <1>4, <1>5, <1>6 DEF Hands

LEMMA GivenNow ==
  ASSUME NEW who, NEW n, Hands(who, n)
  PROVE  /\ FedWell' \/ input' \notin Inputs
         /\ L!HeldPart \in Seq(Chars) /\ given' \in Seq(Chars)
         /\ Len(given') = Len(L!HeldPart) + Len(text')
         /\ \A i \in 1..Len(L!HeldPart) : given'[i] = L!HeldPart[i]
         /\ \A i \in 1..Len(text') : given'[Len(L!HeldPart) + i] = text'[i]
<1> DEFINE part == L!HeldPart
<1>1. buf \in Seq(Chars)
  BY DEF Hands, CInv, TypeOK
<1>2. part \in Seq(Chars)
  BY <1>1, EmptySeq DEF L!HeldPart
<1>3. text' \in Seq(Chars) /\ avail' \in Nat /\ given' = part \o text' /\ (who = "finish" => text' = <<"space">>)
  BY DEF Hands
<1> HIDE DEF part
<1>4. /\ given' \in Seq(Chars) /\ Len(given') = Len(part) + Len(text')
      /\ \A i \in 1..Len(part) : given'[i] = part[i]
      /\ \A i \in 1..Len(text') : given'[Len(part) + i] = text'[i]
  <2>1. part \o text' \in Seq(Chars) /\ Len(part \o text') = Len(part) + Len(text')
    BY <1>2, <1>3, ConcatProperties
  <2>2. Len(part) \in Nat /\ Len(text') \in Nat
    BY <1>2, <1>3, LenProperties
  <2>3. \A i \in 1..(Len(part) + Len(text')) :
          (part \o text')[i] = IF i <= Len(part) THEN part[i] ELSE text'[i - Len(part)]
    BY <1>2, <1>3, ConcatProperties
  <2> QED BY <1>3, <2>1, <2>2, <2>3
<1>5. who = "finish" => given' # <<>> /\ given'[Len(given')] = "space"
  <2> SUFFICES ASSUME who = "finish" PROVE given' # <<>> /\ given'[Len(given')] = "space"
    OBVIOUS
  <2>1. Len(text') = 1 /\ text'[1] = "space" /\ Len(part) \in Nat
    BY <1>2, <1>3, LenProperties
  <2> QED BY <1>4, <2>1, EmptySeq
<1>6. caller' = who
  BY HandedOver
<1> QED BY <1>2, <1>3, <1>4, <1>5, <1>6 DEF FedWell, part

LEMMA LexerBeginsAnew ==
  ASSUME NEW who, NEW n, Hands(who, n), LexerWell
  PROVE  LexerWell'
<1>1. /\ lex_pc = "idle" /\ lex_pc' = "idle" /\ offset' = 0 /\ start_off' = 0 /\ caller' = who
      /\ UNCHANGED <<buf, buf_off, buf_in_use, error, has_escapes, result, held>>
      /\ who \in {"parse", "finish"} /\ (who = "finish" => text' = <<"space">>)
  BY HandedOver DEF Hands, inside
<1>2. input' = input /\ input \in Inputs
  BY DEF Hands, CInv, FedWell, inside
<1>3. FedWell'
  BY <1>2, GivenNow
<1>4. /\ Fed(given', caller') \in Seq(Chars) /\ FeedOf(given', caller') \in Seq(Chars)
      /\ Len(given') <= Len(Fed(given', caller'))
      /\ Len(given') = Len(Fed(given', caller')) <=> caller' = "finish"
      /\ \A i \in 1..Len(given') : Fed(given', caller')[i] = given'[i]
  BY <1>3, Feeding DEF FedWell
<1>5. LP!Stream' = Fed(given', caller') /\ Feed' = FeedOf(given', caller')
  BY DEF LP!Stream, Fed, Feed, FeedOf
<1>6. LP!HeldPart = L!HeldPart /\ LP!HeldLen = Len(L!HeldPart)
  BY DEF LP!HeldLen, LP!HeldPart, L!HeldPart
<1>7. /\ Len(given') = LP!HeldLen + Len(text') /\ text' \in Seq(Chars)
      /\ \A i \in 1..LP!HeldLen : LP!Stream'[i] = LP!HeldPart[i]
      /\ \A i \in 1..Len(text') : LP!Stream'[LP!HeldLen + i] = text'[i]
  <2>1. /\ given' \in Seq(Chars) /\ L!HeldPart \in Seq(Chars)
        /\ Len(given') = Len(L!HeldPart) + Len(text')
        /\ \A i \in 1..Len(L!HeldPart) : given'[i] = L!HeldPart[i]
        /\ \A i \in 1..Len(text') : given'[Len(L!HeldPart) + i] = text'[i]
    BY GivenNow
  <2>2. text' \in Seq(Chars)
    BY DEF Hands
  <2>3. Len(L!HeldPart) \in Nat /\ Len(text') \in Nat
    BY <2>1, <2>2, LenProperties
  <2>4. \A i \in 1..Len(given') : LP!Stream'[i] = given'[i]
    BY <1>4, <1>5
  <2>5. \A i \in 1..Len(L!HeldPart) : LP!Stream'[i] = L!HeldPart[i]
    BY <2>1, <2>3, <2>4
  <2>6. \A i \in 1..Len(text') : LP!Stream'[Len(L!HeldPart) + i] = text'[i]
    BY <2>1, <2>3, <2>4
  <2> QED BY <1>6, <2>1, <2>2, <2>5, <2>6
<1>8. /\ lexer'.comments \in BOOLEAN /\ lexer'.utf8 \in BOOLEAN
      /\ buf_in_use => lexer' = lexer
  <2>1. P!TypeOK' /\ (lexer.made => lexer' = lexer)
    BY HandedOver
  <2>2. buf_in_use => lexer.made
    BY DEF Hands, CInv, Turns
  <2> QED BY <2>1, <2>2 DEF P!TypeOK
<1>9. LP!RInv'
  BY <1>1, <1>4, <1>5, <1>7, <1>8, LP!StreamAnew, SameClasses DEF LexerWell, LP!holding, LP!config
<1>10. LP!BlankIsLast'
  <2>1. LP!Finalized' <=> caller' = "finish"
    BY <1>4, <1>5 DEF LP!Finalized
  <2> QED BY <1>1, <2>1 DEF LP!BlankIsLast
<1> QED BY <1>9, <1>10 DEF LexerWell

LEMMA HandsCInv ==
  ASSUME NEW who, NEW n, Hands(who, n), input' = input
  PROVE  CInv'
<1>1. /\ P!Next /\ PP!GInv' /\ P!TypeOK'
      /\ ~asked /\ lex_pc = "idle" /\ ~asked' /\ lex_pc' = "idle"
      /\ caller' = who /\ (used_up' <=> n = 0) /\ lexer'.made /\ (lexer.made => lexer' = lexer)
      /\ (P!Failed' <=> P!Failed) /\ kind' = kind
  BY HandedOver
<1>2. /\ offset' = 0 /\ start_off' = 0 /\ Len(text') = n /\ text' \in Seq(Chars)
      /\ UNCHANGED <<buf, buf_off, buf_in_use, error, held>>
  BY DEF Hands, inside
<1>3. FedWell'
  BY GivenNow DEF Hands, CInv, FedWell
<1>4. P!Failed' \/ LexerWell'
  BY <1>1, LexerBeginsAnew DEF Hands, CInv
<1>5. TypeOK'
  <2>1. Len(text') \in Nat
    BY <1>2, LenProperties
  <2> QED BY <1>1, <1>2, <2>1 DEF Hands, CInv, TypeOK
<1>6. Turns'
  <2>1. ~P!Failed' => kind' = HeldKind'
    BY <1>1, <1>2 DEF Hands, CInv, Turns, HeldKind
  <2> QED BY <1>1, <1>2, <2>1 DEF Turns
<1> QED BY <1>1, <1>3, <1>4, <1>5, <1>6 DEF CInv

-----------------------------------------------------------------------------
(* The parser's turns. *)

LEMMA TopIs ==
  ASSUME PP!GInv, NEW s \in {"parse_error", "lexical_error", "got_value"},
         state_stack' = P!SetTop(s)
  PROVE  P!Top' = s
<1>1. P!Top' = PP!Top' /\ P!SetTop(s) = PP!SetTop(s)
  BY DEF P!Top, PP!Top, P!SetTop, PP!SetTop
<1>2. s \in PP!States
  BY DEF PP!States
<1> QED BY <1>1, <1>2, PP!TopSet, Allowed DEF PP!GInv

(* A turn without a token leaves the lexer's affairs alone. *)
LEMMA TurnLeaves ==
  ASSUME PP!GInv, P!Tokenless
  PROVE  /\ ~WantsToken /\ UNCHANGED <<kind, used_up, lexer, caller>>
         /\ (P!InParse' => P!InParse) /\ (P!Failed => P!Failed')
<1>1. CASE P!NextValue
  <2>1. /\ P!Top = "parse_complete" /\ "jhn_allow_multiple_values" \in flags
        /\ UNCHANGED <<lexer, caller, P!source>> /\ P!InParse
    BY <1>1 DEF P!NextValue
  <2> QED BY <2>1 DEF WantsToken, P!MustBeBlank, P!source, P!Failed
<1>2. CASE P!Done
  <2>1. /\ P!Top = "parse_complete" /\ ~P!MustBeBlank
        /\ UNCHANGED <<lexer, caller, P!source>> /\ P!InParse
    BY <1>2 DEF P!Done
  <2> QED BY <2>1 DEF WantsToken, P!source, P!Failed
<1>3. CASE P!Refuse
  BY <1>3 DEF P!Refuse, WantsToken, P!source, P!Failed, P!Top
<1>4. CASE P!DoFinish
  <2>1. pc = "do_finish" /\ pc' = "idle" /\ UNCHANGED <<lexer, caller, P!source>>
        /\ (P!Failed => UNCHANGED state_stack)
    BY <1>4 DEF P!DoFinish, P!MayEnd
  <2> QED BY <2>1 DEF WantsToken, P!InParse, P!source, P!Failed, P!Top
<1> QED BY <1>1, <1>2, <1>3, <1>4 DEF P!Tokenless

(* A turn with a token: the parser knows what the call said, and a new      *)
(* message means that it has failed.                                        *)
LEMMA TakeTells ==
  ASSUME PP!GInv, NEW call, P!Take(call)
  PROVE  /\ kind' = call.kind /\ used_up' = call.end /\ UNCHANGED <<lexer, caller>>
         /\ parse_error' = parse_error \/ P!Failed'
<1>1. P!Lex(call)
  BY DEF P!Take, P!Trailing, P!Value, P!Key, P!MapSep, P!MapGotVal, P!ArrayGotVal, P!Punctuated
<1>2. ASSUME NEW s \in {"parse_error", "lexical_error"}, NEW m, P!FailWith(s, m) PROVE P!Failed'
  BY <1>2, TopIs DEF P!FailWith, P!Failed
<1>3. ASSUME NEW callback, P!Cancel(callback) PROVE P!Failed'
  BY <1>3, TopIs DEF P!Cancel, P!Failed
<1>4. ASSUME NEW state, NEW sep, NEW next, NEW closer, NEW callback, NEW m,
             P!Punctuated(call, state, sep, next, closer, callback, m)
      PROVE  parse_error' = parse_error \/ P!Failed'
  BY <1>2, <1>3, <1>4 DEF P!Punctuated, P!EndOfInput, P!LexFail, P!Close
<1>5. P!Value(call) => parse_error' = parse_error \/ P!Failed'
  BY <1>2, <1>3 DEF P!Value, P!EndOfInput, P!LexFail, P!Scalar, P!Open, P!Close, P!Overflow
<1>6. P!Key(call) => parse_error' = parse_error \/ P!Failed'
  BY <1>2, <1>3 DEF P!Key, P!EndOfInput, P!LexFail, P!Close
<1>7. P!Trailing(call) => parse_error' = parse_error \/ P!Failed'
  BY <1>2 DEF P!Trailing
<1> QED BY <1>1, <1>4, <1>5, <1>6, <1>7
        DEF P!Lex, P!Take, P!MapSep, P!MapGotVal, P!ArrayGotVal

LEMMA ParserStep ==
  ASSUME PP!GInv, P!Next \/ UNCHANGED P!vars
  PROVE  PP!GInv' /\ P!TypeOK'
<1>1. PP!GInv'
  BY ParserStays
<1>2. PP!GInv' => P!TypeOK'
  BY ParserStays, PTL
<1> QED BY <1>1, <1>2

-----------------------------------------------------------------------------
(* The invariant is kept, and every step is one of the parser on tokens.    *)

LEMMA ParseKeeps ==
  ASSUME CInv, NEW n \in 0..Len(input), Parse(n)
  PROVE  CInv' /\ P!Next
<1>1. input \in Seq(Chars) /\ avail \in Nat /\ Len(input) \in Nat /\ avail + n <= Len(input)
  BY InputsAssumption, LenProperties DEF CInv, FedWell, Parse
<1>2. text' = SubSeq(input, avail + 1, avail + n) /\ avail' = avail + n
  BY DEF Parse
<1>3. text' \in Seq(Chars) /\ Len(text') = n
  <2> DEFINE a == avail + 1
             b == avail + n
  <2>1. /\ a \in Int /\ b \in Int /\ (a <= b <=> n # 0)
        /\ b - a + 1 = n
    BY <1>1
  <2>2. \A i \in a..b : input[i] \in Chars
    BY <1>1, ElementOfSeq
  <2> HIDE DEF a, b
  <2>3. SubSeq(input, a, b) \in Seq(Chars)
        /\ Len(SubSeq(input, a, b)) = IF a <= b THEN b - a + 1 ELSE 0
    BY <2>1, <2>2, SubSeqProperties
  <2>4. text' = SubSeq(input, a, b)
    BY <1>2 DEF a, b
  <2> QED BY <2>1, <2>3, <2>4
<1>4. Hands("parse", n)
  BY <1>1, <1>2, <1>3 DEF Parse, Hands
<1> QED BY <1>4, HandsCInv, HandedOver DEF Parse, inside

LEMMA FinishKeeps ==
  ASSUME CInv, Finish
  PROVE  CInv' /\ P!Next
<1>1. text' = <<"space">> /\ avail' = avail /\ P!Start("finish", FALSE)
  BY DEF Finish
<1>2. text' \in Seq(Chars) /\ Len(text') = 1
  BY <1>1 DEF Chars
<1>3. (1 = 0) = FALSE
  OBVIOUS
<1>4. Hands("finish", 1)
  BY <1>1, <1>2, <1>3 DEF Finish, Hands, CInv, FedWell
<1> QED BY <1>4, HandsCInv, HandedOver DEF Finish, inside

(* The lexer's state does not change while its client's does not. *)
LEMMA LexerWaits ==
  ASSUME LexerWell, UNCHANGED <<inside, text, start_off, given, offset, lex_pc, caller, lexer>>
  PROVE  LexerWell'
<1>1. UNCHANGED LP!vars
  BY DEF LP!vars, LP!holding, LP!config, LP!client, Feed, inside
<1>2. LP!RInv'
  BY <1>1, LP!NextRefines, SameClasses DEF LexerWell
<1>3. LP!BlankIsLast'
  BY DEF LexerWell, LP!BlankIsLast, LP!Finalized, LP!Stream, Feed
<1> QED BY <1>2, <1>3 DEF LexerWell

LEMMA TurnKeeps ==
  ASSUME CInv, \/ Turn
               \/ \E option \in Configurable : Config(option)
               \/ UNCHANGED vars
  PROVE  CInv' /\ [P!Next]_(P!vars)
<1>1. P!Tokenless \/ (\E option \in Configurable : P!Config(option)) \/ UNCHANGED parsing
  BY DEF Turn, Config, vars
<1>2. UNCHANGED <<inside, chunk, offset, lex_pc, asked>>
  BY DEF Turn, Config, vars
<1>3. P!Next \/ UNCHANGED P!vars
  BY <1>1 DEF P!Next, P!Step, parsing, P!vars, P!source, P!history
<1>4. PP!GInv' /\ P!TypeOK'
  BY <1>3, ParserStep DEF CInv
<1>5. /\ UNCHANGED <<kind, used_up, lexer, caller>> /\ (P!InParse' => P!InParse)
      /\ (P!Failed => P!Failed') /\ (asked => WantsToken' /\ UNCHANGED P!Lexed)
  <2>1. CASE P!Tokenless
    BY <2>1, TurnLeaves DEF CInv, Turns
  <2>2. CASE \E option \in Configurable : P!Config(option)
    <3>1. pc = "idle" /\ UNCHANGED <<state_stack, pc, lexer, caller, kind, used_up>>
      BY <2>2 DEF P!Config, P!source
    <3> QED BY <3>1 DEF CInv, Turns, WantsToken, P!InParse, P!Failed, P!Top
  <2>3. CASE UNCHANGED parsing
    BY <2>3 DEF parsing, CInv, Turns, WantsToken, P!InParse, P!Failed, P!Top, P!MustBeBlank,
       P!Lexed
  <2> QED BY <1>1, <2>1, <2>2, <2>3
<1>6. FedWell'
  BY <1>2, <1>5 DEF CInv, FedWell, inside, chunk
<1>7. P!Failed' \/ LexerWell'
  BY <1>2, <1>5, LexerWaits DEF CInv, chunk
<1>8. TypeOK'
  BY <1>2, <1>4, <1>5 DEF CInv, TypeOK, Turns, inside, chunk
<1>9. Turns'
  BY <1>2, <1>5 DEF CInv, Turns, HeldKind, Answers, inside, chunk, LP!StartedOn, LP!HeldKind,
     LP!Finalized, LP!Stream, Feed
<1> QED BY <1>3, <1>4, <1>6, <1>7, <1>8, <1>9 DEF CInv

LEMMA AskKeeps ==
  ASSUME CInv, Ask
  PROVE  CInv' /\ UNCHANGED P!vars
<1>1. WantsToken /\ ~asked /\ asked' /\ UNCHANGED <<parsing, given>> /\ L!Lex
  BY DEF Ask
<1>2. UNCHANGED P!vars /\ UNCHANGED <<pc, kind, used_up, lexer, caller, state_stack, flags>>
  BY <1>1 DEF parsing, P!vars, P!source, P!history
<1>3. ~P!Failed /\ P!InParse /\ LexerWell
  BY <1>1 DEF WantsToken, CInv
<1>4. LexerWell' /\ UNCHANGED <<text, input, avail, buf_in_use, held, offset>> /\ lex_pc' = "lex"
  BY <1>1, <1>2, <1>3, LexerStays DEF L!Lex, L!client, L!holding
<1>5. PP!GInv' /\ P!TypeOK'
  BY <1>2, ParserStep DEF CInv
<1>6. WantsToken' /\ ~P!Failed'
  BY <1>1, <1>2, <1>3 DEF WantsToken, P!InParse, P!Failed, P!Top, P!MustBeBlank
<1>7. FedWell'
  BY <1>1, <1>2, <1>4 DEF CInv, FedWell
<1>8. LP!StartedOn(kind, used_up)'
  <2>1. LP!Lex
    BY <1>1, <1>2, SameCall
  <2>2. LP!StartedOn(LP!HeldKind, offset = Len(text))'
    BY <1>3, <2>1, LP!CallStarts, SameClasses DEF LexerWell, LP!RInv
  <2>3. LP!HeldKind' = kind' /\ (used_up' <=> offset' = Len(text'))
    <3>1. HeldKind = kind /\ (used_up <=> offset = Len(text))
      BY <1>1, <1>3 DEF CInv, Turns
    <3>2. LP!HeldKind' = HeldKind'
      BY SameHeld
    <3> QED BY <1>2, <1>4, <3>1, <3>2 DEF HeldKind
  <2> QED BY <2>2, <2>3 DEF LP!StartedOn
<1>9. buf_in_use' => lexer'.made
  BY <1>2, <1>4 DEF CInv, Turns
<1>10. TypeOK'
  <2>1. LexerWell' => LexerTyped'
    BY LexerTypes, PTL
  <2> QED BY <1>1, <1>4, <1>5, <1>6, <2>1 DEF TypeOK, LexerTyped
<1>11. Turns'
  BY <1>1, <1>4, <1>6, <1>8, <1>9 DEF Turns
<1> QED BY <1>2, <1>4, <1>5, <1>7, <1>10, <1>11 DEF CInv

LEMMA LexingKeeps ==
  ASSUME CInv, Lexing
  PROVE  CInv' /\ UNCHANGED P!vars
<1>1. UNCHANGED <<parsing, asked, given>> /\ L!Step
  BY DEF Lexing
<1>2. UNCHANGED P!vars /\ UNCHANGED <<pc, kind, used_up, lexer, caller, state_stack, flags, asked, given>>
  BY <1>1 DEF parsing, P!vars, P!source, P!history
<1>3. LP!Step /\ lex_pc # "idle"
  BY <1>1, <1>2, SameStep, LP!StepLeaves, SameClasses
<1>4. asked /\ WantsToken /\ ~P!Failed /\ P!InParse /\ LexerWell /\ LP!StartedOn(kind, used_up)
  BY <1>3 DEF CInv, Turns, WantsToken
<1>5. LexerWell' /\ UNCHANGED text
  BY <1>1, <1>2, <1>4, LexerStays
<1>6. UNCHANGED <<input, avail>>
  BY <1>1 DEF L!Step, L!EndOfChunk, L!LexSwitch, L!LexLiteral, L!StringScan, L!LexString,
     L!LexNumber, L!LexComment, L!Read, L!client
<1>7. PP!GInv' /\ P!TypeOK'
  BY <1>2, ParserStep DEF CInv
<1>8. asked' /\ WantsToken' /\ ~P!Failed'
  BY <1>2, <1>4 DEF WantsToken, P!InParse, P!Failed, P!Top, P!MustBeBlank
<1>9. FedWell'
  BY <1>2, <1>5, <1>6 DEF CInv, FedWell
<1>10. used_up \in BOOLEAN /\ lexer.made
  BY <1>4 DEF CInv, TypeOK, P!TypeOK, P!InParse
<1>11. lex_pc' # "idle" => LP!StartedOn(kind, used_up)'
  <2> SUFFICES ASSUME lex_pc' # "idle" PROVE LP!StartedOn(kind, used_up)'
    OBVIOUS
  <2>1. LP!StartedOn(kind, used_up) /\ kind' = kind /\ used_up' = used_up
    BY <1>2, <1>4
  <2>2. ASSUME NEW k, NEW end \in BOOLEAN, LP!StartedOn(k, end) PROVE LP!StartedOn(k, end)'
    BY <1>3, <1>4, <2>2, LP!StaysStarted, SameClasses DEF LexerWell
  <2>3. ASSUME NEW k, NEW end \in BOOLEAN, k = kind, end = used_up PROVE LP!StartedOn(k, end)'
    BY <2>1, <2>2, <2>3
  <2> QED BY <1>10, <2>1, <2>3 DEF LP!StartedOn
<1>12. lex_pc' = "idle" => Answers'
  <2> SUFFICES ASSUME lex_pc' = "idle" PROVE Answers'
    OBVIOUS
  <2>1. \A k, end : end \in BOOLEAN /\ LP!StartedOn(k, end) =>
          LP!Call(result'.tok, LP!HeldKind', offset' = Len(text))
            \in LP!Calls(k, lexer.comments, end, LP!Finalized)
    <3> SUFFICES ASSUME NEW k, NEW end \in BOOLEAN, LP!StartedOn(k, end)
                 PROVE  LP!Call(result'.tok, LP!HeldKind', offset' = Len(text))
                          \in LP!Calls(k, lexer.comments, end, LP!Finalized)
      OBVIOUS
    <3> QED BY <1>3, <1>4, LP!CallReturnsListed, SameClasses DEF LexerWell
  <2>2. LP!Call(result'.tok, LP!HeldKind', offset' = Len(text))
          \in LP!Calls(kind, lexer.comments, used_up, LP!Finalized)
    BY <1>4, <1>10, <2>1
  <2>3. LP!Finalized = (caller = "finish")
    <3>1. LP!Finalized <=> caller = "finish"
      BY FinalizedOnFinish DEF CInv
    <3>2. LP!Finalized \in BOOLEAN
      BY DEF LP!Finalized
    <3> QED BY <3>1, <3>2
  <2>4. LP!HeldKind' = HeldKind'
    BY SameHeld
  <2>5. Call(result'.tok, HeldKind', offset' = Len(text))
          \in P!Calls(kind, lexer.comments, used_up, caller = "finish")
    BY <2>2, <2>3, <2>4, SameListed, Zenon
  <2> QED BY <1>2, <1>5, <2>5 DEF Answers, P!Lexed
<1>13. TypeOK'
  <2>1. LexerWell' => LexerTyped'
    BY LexerTypes, PTL
  <2> QED BY <1>4, <1>5, <1>7, <1>8, <2>1 DEF TypeOK, LexerTyped
<1>14. Turns'
  BY <1>2, <1>8, <1>10, <1>11, <1>12 DEF Turns
<1> QED BY <1>2, <1>5, <1>7, <1>9, <1>13, <1>14 DEF CInv

LEMMA AnswerKeeps ==
  ASSUME CInv, Answer
  PROVE  CInv' /\ P!Next
<1> DEFINE call == Call(result.tok, HeldKind, offset = Len(text))
<1>1. /\ asked /\ lex_pc = "idle" /\ asked' = FALSE /\ P!Take(call)
      /\ offset' = IF parse_error' # parse_error /\ Restores(parse_error') THEN Restored ELSE offset
      /\ UNCHANGED <<inside, chunk, lex_pc>>
  BY DEF Answer
<1>2. ~P!Failed /\ P!InParse /\ LexerWell /\ call \in P!Lexed
  BY <1>1 DEF CInv, Turns, WantsToken, Answers
<1>3. call.kind = HeldKind /\ call.end = (offset = Len(text))
  BY DEF Call
<1> HIDE DEF call
<1>4. P!Next
  BY <1>1, <1>2 DEF P!Next, P!Step
<1>5. PP!GInv' /\ P!TypeOK'
  BY <1>4, ParserStep DEF CInv
<1>6. /\ kind' = call.kind /\ used_up' = call.end /\ UNCHANGED <<lexer, caller>>
      /\ parse_error' = parse_error \/ P!Failed'
  BY <1>1, TakeTells DEF CInv
<1>7. ~P!Failed' => offset' = offset
  BY <1>1, <1>6
<1>8. offset' \in 0..Len(text)
  <2>1. offset \in 0..Len(text) /\ Len(result.lexeme) \in Nat
    BY <1>2, LexerTypes, LenProperties DEF LexerTyped
  <2>2. Len(text) \in Nat
    BY LenProperties DEF CInv, FedWell
  <2> QED BY <1>1, <2>1, <2>2 DEF Restored
<1>9. FedWell'
  BY <1>1, <1>6 DEF CInv, FedWell, inside, chunk
<1>10. P!Failed' \/ LexerWell'
  BY <1>1, <1>2, <1>6, <1>7, LexerWaits DEF chunk
<1>11. TypeOK'
  BY <1>1, <1>5, <1>8 DEF CInv, TypeOK, inside, chunk
<1>12. Turns'
  BY <1>1, <1>3, <1>6, <1>7 DEF CInv, Turns, HeldKind, inside, chunk
<1> QED BY <1>4, <1>5, <1>9, <1>10, <1>11, <1>12 DEF CInv

LEMMA NextCInv == CInv /\ [Next]_vars => CInv' /\ [P!Next]_(P!vars)
<1> SUFFICES ASSUME CInv, [Next]_vars PROVE CInv' /\ [P!Next]_(P!vars)
  OBVIOUS
<1>1. CASE \E n \in 0..Len(input) : Parse(n)
  BY <1>1, ParseKeeps
<1>2. CASE Finish
  BY <1>2, FinishKeeps
<1>3. CASE Ask
  BY <1>3, AskKeeps
<1>4. CASE Answer
  BY <1>4, AnswerKeeps
<1>5. CASE Lexing
  BY <1>5, LexingKeeps
<1>6. CASE Turn \/ (\E option \in Configurable : Config(option)) \/ UNCHANGED vars
  BY <1>6, TurnKeeps
<1> QED BY <1>1, <1>2, <1>3, <1>4, <1>5, <1>6 DEF Next, Step

-----------------------------------------------------------------------------
(* The parser and the lexer keep their types together, and the offset the   *)
(* client can ask for (jhn_parser_get_bytes_consumed()) stays in the chunk. *)
THEOREM ParserLexerTypes == Spec => []TypeOK
<1>1. CInv => TypeOK
  BY DEF CInv
<1> QED BY InitCInv, NextCInv, <1>1, PTL DEF Spec

(* The parser of parser.c, driven by the lexer of lex.c on any input in any *)
(* chunks, takes no step that module Parser does not take on the tokens of  *)
(* module TokenSource: what is proved of module Parser holds of the code's  *)
(* two halves put together.                                                 *)
THEOREM ParserRunsOnLexer == Spec => P!Init /\ [][P!Next]_(P!vars)
<1>1. Init => P!Init
  BY DEF Init
<1> QED BY InitCInv, NextCInv, <1>1, PTL DEF Spec

-----------------------------------------------------------------------------
(* What is proved of module Parser, of the two halves put together.         *)

(* The parser on the lexer mirrors the containers in its stack, complains   *)
(* of the syntax exactly when the tokens read no longer begin a document,   *)
(* and finishes with ok only on complete documents, whatever characters     *)
(* arrive in whatever chunks.                                               *)
THEOREM JsonOnLexer ==
  Spec => [](PP!StackMirrorsNesting /\ PP!ErrorsAreExact /\ PP!FinishMeansDocument)
<1> DEFINE Json == PP!StackMirrorsNesting /\ PP!ErrorsAreExact /\ PP!FinishMeansDocument
<1>1. CInv => Json
  <2> SUFFICES ASSUME CInv PROVE Json
    OBVIOUS
  <2>1. PP!GInv
    BY DEF CInv
  <2>2. PP!ErrorsAreExact
    BY <2>1, PP!TrackedExactly, Allowed
  <2>3. PP!StackMirrorsNesting /\ PP!FinishMeansDocument
    BY <2>1 DEF PP!GInv, PP!IInv
  <2> QED BY <2>2, <2>3
<1> HIDE DEF Json
<1>2. Spec => []Json
  BY InitCInv, NextCInv, <1>1, PTL DEF Spec
<1> QED BY <1>2 DEF Json

(* A parser that has failed stays failed, the lexer is not called again.    *)
THEOREM FailureOnLexer == Spec => P!StaysFailed
<1> DEFINE Dead == /\ P!Failed' /\ UNCHANGED <<open, seen, completed, kind>>
                   /\ returned' \notin {<<"parse", "ok">>, <<"finish", "ok">>}
<1>1. ASSUME P!Failed, P!Next PROVE Dead
  <2>1. PP!Failed /\ PP!Next
    BY <1>1, SameNext, Zenon DEF P!Failed, PP!Failed, P!Top, PP!Top
  <2>2. /\ PP!Failed' /\ UNCHANGED <<open, seen, completed, kind>>
        /\ returned' \notin {<<"parse", "ok">>, <<"finish", "ok">>}
    BY <2>1, PP!FailedStays, Allowed
  <2> QED BY <2>2, Zenon DEF P!Failed, PP!Failed, P!Top, PP!Top
<1> HIDE DEF Dead
<1>2. CInv /\ [Next]_vars => [P!Failed => Dead]_(P!vars)
  BY <1>1, NextCInv
<1>3. Spec => [][P!Failed => Dead]_(P!vars)
  BY InitCInv, NextCInv, <1>2, PTL DEF Spec
<1> QED BY <1>3 DEF P!StaysFailed, Dead

(* The parser on the lexer keeps the promise of module ParserEvents: the    *)
(* callbacks of the client nest, a value in a map follows its key, and      *)
(* after a failure there are none, on any characters in any chunks.         *)
THEOREM EventsOnLexer == Spec => PP!ImplementsEvents
<1>1. Init => PP!Promise!Init
  BY PP!PromiseInit, SameInit, Allowed DEF Init
<1>2. CInv /\ [Next]_vars => [PP!Promise!Next]_(PP!Promise!vars)
  <2>1. CInv /\ [Next]_vars => [PP!Next]_(PP!vars)
    BY NextCInv, SameNext, SameVars
  <2>2. CInv => PP!IInv
    BY DEF CInv, PP!GInv
  <2> QED BY <2>1, <2>2, PP!StepKeepsPromise, Allowed
<1> QED BY InitCInv, NextCInv, <1>1, <1>2, PTL DEF Spec, PP!ImplementsEvents, PP!Promise!Spec

-----------------------------------------------------------------------------
(* hand->bytes_consumed. *)

(* Only a token that was read is complained of at its beginning. *)
LEMMA RestoresForToken ==
  ASSUME NEW call, P!Take(call), parse_error' # parse_error, Restores(parse_error')
  PROVE  call.tok \notin {"eof", "error"}
<1>1. ASSUME NEW s, NEW m, P!FailWith(s, m) PROVE parse_error' = m
  BY <1>1 DEF P!FailWith
<1>2. ASSUME NEW callback, P!Cancel(callback) PROVE FALSE
  BY <1>2 DEF P!Cancel, Restores
<1>3. CASE P!Value(call)
  BY <1>1, <1>2, <1>3 DEF P!Value, P!EndOfInput, P!LexFail, P!Scalar, P!Open, P!Close, P!Overflow,
     Restores
<1>4. CASE P!Key(call)
  BY <1>1, <1>2, <1>4 DEF P!Key, P!EndOfInput, P!LexFail, P!Close, Restores
<1>5. CASE P!Trailing(call)
  BY <1>1, <1>5 DEF P!Trailing, Restores
<1>6. ASSUME NEW state, NEW sep, NEW next, NEW closer, NEW callback, NEW m,
             P!Punctuated(call, state, sep, next, closer, callback, m)
      PROVE  call.tok \notin {"eof", "error"}
  BY <1>1, <1>2, <1>6 DEF P!Punctuated, P!EndOfInput, P!LexFail, P!Close
<1> QED BY <1>3, <1>4, <1>5, <1>6 DEF P!Take, P!MapSep, P!MapGotVal, P!ArrayGotVal

(* While the call runs, first is where the chunk's part of the token begins *)
(* or, if some of the token was held, the beginning of the chunk, which is  *)
(* then all read for this token; and when the call has returned a token, it *)
(* is where counting back over the token leads.                             *)
Counted == {"eof", "error"} \cup Strings

FirstWell ==
  /\ lex_pc \notin {"idle", "lex"} =>
       IF L!HeldPart = <<>> THEN first = start_off ELSE first = 0 /\ start_off = 0
  /\ asked /\ lex_pc = "idle" /\ result.tok \notin Counted => first = Restored

LEMMA SwitchAt ==
  ASSUME LexerWell, lex_pc = "lex", offset < Len(text)
  PROVE  /\ L!HeldPart = <<>> => ~L!Replaying /\ start_off = offset
         /\ L!HeldPart # <<>> => L!Replaying /\ start_off = 0
<1>1. LP!TypeOK /\ LP!IndexSafe /\ LP!TokenStart
  BY DEF LexerWell, LP!RInv, LP!IInv
<1>2. /\ start_off = offset /\ (buf_in_use => buf_off = 0)
      /\ LP!Replaying => offset \in {0, Len(text)}
      /\ buf \in Seq(LP!Chars) /\ Len(buf) \in Nat /\ offset \in Nat /\ Len(text) \in Nat
  BY <1>1, LenProperties DEF LP!TypeOK, LP!IndexSafe, LP!TokenStart
<1>3. buf # <<>> <=> Len(buf) > 0
  BY <1>2, EmptySeq, LenProperties
<1>4. L!Replaying <=> L!HeldPart # <<>>
  BY <1>2, <1>3 DEF L!Replaying, L!HeldPart
<1> QED BY <1>2, <1>4, SameChr

LEMMA LexingFirst ==
  ASSUME CInv, FirstWell, Lexing
  PROVE  FirstWell'
<1>1. UNCHANGED <<parsing, asked, given>> /\ L!Step /\ UNCHANGED <<given, caller, lexer>>
  BY DEF Lexing, parsing
<1>2. LP!Step /\ lex_pc # "idle"
  BY <1>1, SameStep, LP!StepLeaves, SameClasses
<1>3. asked /\ LexerWell
  BY <1>2 DEF CInv, Turns, WantsToken
<1>4. LexerWell' /\ UNCHANGED text
  BY <1>1, <1>3, LexerStays
<1>5. LP!IInv /\ LP!IInv'
  BY <1>3, <1>4 DEF LexerWell, LP!RInv
<1>6. lex_pc' = "lex" \/ LP!TokenGoesOn \/ LP!CallEnds
  BY <1>2, <1>5, LP!StepShape, SameClasses
<1>7. ASSUME lex_pc = "lex" => offset < Len(text)
      PROVE  IF L!HeldPart = <<>> THEN first' = start_off ELSE first' = 0 /\ start_off = 0
  <2>1. CASE lex_pc = "lex"
    <3>1. first' = IF L!Replaying THEN 0 ELSE offset
      BY <2>1 DEF Lexing
    <3> QED BY <1>3, <1>7, <2>1, <3>1, SwitchAt
  <2>2. CASE lex_pc # "lex"
    <3>1. first' = first
      BY <2>2 DEF Lexing
    <3> QED BY <1>2, <2>2, <3>1 DEF FirstWell
  <2> QED BY <2>1, <2>2
<1>8. CASE lex_pc' = "lex"
  BY <1>8 DEF FirstWell
<1>9. CASE LP!TokenGoesOn
  <2>1. /\ lex_pc' # "idle" /\ (lex_pc = "lex" => offset < Len(text))
        /\ UNCHANGED <<buf, buf_in_use, start_off>>
    BY <1>9 DEF LP!TokenGoesOn
  <2>2. L!HeldPart' = L!HeldPart
    BY <2>1 DEF L!HeldPart
  <2> QED BY <1>7, <2>1, <2>2 DEF FirstWell
<1>10. CASE LP!CallEnds
  <2>1. PICK tok, off, boff : /\ LP!Lexed(tok, off, boff)
                              /\ tok # "eof" => offset < Len(text)
    BY <1>10 DEF LP!CallEnds
  <2>2. lex_pc' = "idle" /\ result'.tok = tok
    BY <2>1 DEF LP!Lexed, LP!Result
  <2>3. SUFFICES ASSUME tok \notin Counted PROVE first' = Restored'
    BY <2>2 DEF FirstWell
  <2>4. tok \notin {"eof", "error", "string", "string_with_escapes"}
    BY <2>3 DEF Counted, Strings
  <2>5. IF L!HeldPart = <<>> THEN first' = start_off ELSE first' = 0 /\ start_off = 0
    BY <1>7, <2>1, <2>4
  <2>6. LP!HeldPart = L!HeldPart
    BY DEF LP!HeldPart, L!HeldPart
  <2>7. /\ start_off \in Nat /\ offset' \in Nat /\ Len(L!HeldPart) \in Nat
        /\ start_off <= offset'
        /\ Len(result'.lexeme) = Len(L!HeldPart) + (offset' - start_off)
    BY <1>4, <1>5, <2>1, <2>4, <2>6, LP!LexemeLength, SameClasses
  <2>8. CASE L!HeldPart = <<>>
    <3> DEFINE n == Len(result'.lexeme)
    <3>1. Len(L!HeldPart) = 0 /\ first' = start_off
      BY <2>5, <2>8
    <3>2. n = offset' - start_off
      BY <2>7, <3>1
    <3> HIDE DEF n
    <3>3. \A a, b \in Nat : a <= b => b >= b - a /\ b - (b - a) = a
      OBVIOUS
    <3>4. offset' >= n /\ offset' - n = start_off
      BY <2>7, <3>2, <3>3
    <3> QED BY <3>1, <3>4 DEF Restored, n
  <2>9. CASE L!HeldPart # <<>>
    <3>1. L!HeldPart \in Seq(Chars)
      BY EmptySeq DEF CInv, TypeOK, L!HeldPart
    <3>2. Len(L!HeldPart) # 0
      BY <2>9, <3>1, EmptySeq
    <3> QED BY <2>5, <2>7, <2>9, <3>2 DEF Restored
  <2> QED BY <2>8, <2>9
<1> QED BY <1>6, <1>8, <1>9, <1>10

LEMMA NextFirst == CInv /\ FirstWell /\ [Next]_vars => FirstWell'
<1> SUFFICES ASSUME CInv, FirstWell, [Next]_vars PROVE FirstWell'
  OBVIOUS
<1>1. ASSUME NEW who, NEW empty, P!Start(who, empty), UNCHANGED <<asked, lex_pc>>
      PROVE  FirstWell'
  <2>1. ~asked /\ lex_pc = "idle"
    BY <1>1 DEF P!Start, CInv, Turns, WantsToken, P!InParse
  <2> QED BY <1>1, <2>1 DEF FirstWell
<1>2. CASE (\E n \in 0..Len(input) : Parse(n)) \/ Finish
  BY <1>1, <1>2 DEF Parse, Finish
<1>3. CASE Ask
  BY <1>3 DEF Ask, L!Lex, FirstWell
<1>4. CASE Answer
  BY <1>4 DEF Answer, FirstWell
<1>5. CASE Lexing
  BY <1>5, LexingFirst
<1>6. CASE Turn \/ (\E option \in Configurable : Config(option)) \/ UNCHANGED vars
  <2>1. UNCHANGED <<inside, chunk, offset, lex_pc, asked, first>>
    BY <1>6 DEF Turn, Config, vars
  <2> QED BY <2>1 DEF FirstWell, inside, chunk, L!HeldPart, Restored
<1> QED BY <1>2, <1>3, <1>4, <1>5, <1>6 DEF Next, Step

(* Whatever was held and whatever comments were dropped, an error said of a *)
(* token that is no string is said of the character where the lexer began   *)
(* the token, or of the beginning of the chunk if it began in an earlier    *)
(* one: for any input in any chunks.                                        *)
THEOREM OffsetAtOffender == Spec => ErrorAtOffender
<1> DEFINE Said == parse_error' # parse_error /\ Restores(parse_error')
                     /\ result.tok \notin Strings
<1>1. ASSUME CInv, FirstWell, [Next]_vars, Said PROVE offset' = first
  <2>1. ~P!Tokenless
    BY <1>1 DEF P!Tokenless, P!NextValue, P!Done, P!Refuse, P!DoFinish, Restores
  <2>2. \A who, empty : ~P!Start(who, empty)
    BY <1>1 DEF P!Start
  <2>3. \A option : ~P!Config(option)
    BY <1>1 DEF P!Config
  <2>4. ~UNCHANGED parsing
    BY <1>1 DEF parsing
  <2>5. Answer
    BY <1>1, <2>1, <2>2, <2>3, <2>4 DEF Next, Step, Parse, Finish, Config, Turn, Ask, Lexing, vars
  <2> DEFINE call == Call(result.tok, HeldKind, offset = Len(text))
  <2>6. P!Take(call) /\ asked /\ lex_pc = "idle" /\ offset' = Restored
    BY <1>1, <2>5 DEF Answer
  <2>7. call.tok = result.tok
    BY DEF Call
  <2> HIDE DEF call
  <2>8. result.tok \notin {"eof", "error"}
    BY <1>1, <2>6, <2>7, RestoresForToken
  <2> QED BY <1>1, <2>6, <2>8 DEF FirstWell, Counted
<1> HIDE DEF Said
<1>2. Init => FirstWell
  BY DEF Init, FirstWell
<1>3. CInv /\ FirstWell /\ [Next]_vars => [Said => offset' = first]_vars
  BY <1>1
<1>4. Spec => [][Said => offset' = first]_vars
  BY InitCInv, NextCInv, NextFirst, <1>2, <1>3, PTL DEF Spec
<1> QED BY <1>4 DEF ErrorAtOffender, Said

-----------------------------------------------------------------------------
(* A call that returns ok. *)

(* The lexer has run out of characters when it has no token. *)
LEMMA EofIsEnd ==
  ASSUME NEW call \in P!Lexed, call.tok = "eof"
  PROVE  call.end = TRUE
BY DEF P!Lexed, P!Calls, P!OnBlank, P!OnChunk, P!Call

(* A turn with a token ends the call with ok only where there is none. *)
LEMMA OkOnEof ==
  ASSUME NEW call, P!Take(call), returned' # returned, returned' = <<"parse", "ok">>
  PROVE  call.tok = "eof" /\ parse_error' = parse_error
<1>1. ASSUME NEW s, NEW m, P!FailWith(s, m) PROVE FALSE
  BY <1>1 DEF P!FailWith, P!Again
<1>2. ASSUME NEW callback, P!Cancel(callback) PROVE FALSE
  BY <1>2 DEF P!Cancel, P!Return
<1>3. ~P!Scalar /\ ~P!Close /\ ~P!Again /\ \A c : ~P!Open(c)
  BY DEF P!Scalar, P!Close, P!Open, P!Again
<1>4. CASE P!Value(call)
  BY <1>1, <1>2, <1>3, <1>4 DEF P!Value, P!EndOfInput, P!LexFail, P!Overflow
<1>5. CASE P!Key(call)
  BY <1>1, <1>2, <1>3, <1>5 DEF P!Key, P!EndOfInput, P!LexFail
<1>6. CASE P!Trailing(call)
  BY <1>1, <1>3, <1>6 DEF P!Trailing
<1>7. ASSUME NEW state, NEW sep, NEW next, NEW closer, NEW callback, NEW m,
             P!Punctuated(call, state, sep, next, closer, callback, m)
      PROVE  call.tok = "eof" /\ parse_error' = parse_error
  BY <1>1, <1>2, <1>3, <1>7 DEF P!Punctuated, P!EndOfInput, P!LexFail
<1> QED BY <1>4, <1>5, <1>6, <1>7 DEF P!Take, P!MapSep, P!MapGotVal, P!ArrayGotVal

LEMMA NothingYet ==
  ASSUME PP!GInv, pc # "idle"
  PROVE  returned = <<"none", "none">>
BY DEF PP!GInv, PP!Unanswered, PP!NoReturn

LEMMA ChunkStaysRead ==
  ASSUME CInv, ChunkIsRead, [Next]_vars
  PROVE  ChunkIsRead'
<1> SUFFICES ASSUME returned' = <<"parse", "ok">>, offset' # Len(text')
             PROVE  completed' /\ P!Top' = "parse_complete" /\ "jhn_allow_trailing_garbage" \in flags'
  BY DEF ChunkIsRead
<1>1. \A who, empty : ~P!Start(who, empty)
  BY DEF P!Start, P!NoReturn
<1>2. \A option : ~P!Config(option)
  BY DEF P!Config, P!NoReturn
<1>3. asked => pc # "idle"
  BY DEF CInv, Turns, WantsToken, P!InParse
<1>4. pc # "idle" => returned # returned'
  BY NothingYet DEF CInv
<1>5. CASE Answer
  <2> DEFINE call == Call(result.tok, HeldKind, offset = Len(text))
  <2>1. /\ asked /\ lex_pc = "idle" /\ P!Take(call) /\ UNCHANGED text
        /\ parse_error' = parse_error => offset' = offset
    BY <1>5 DEF Answer, chunk
  <2>2. call.end = (offset = Len(text)) /\ call \in P!Lexed
    BY <2>1 DEF Call, CInv, Turns, Answers
  <2> HIDE DEF call
  <2>3. call.tok = "eof" /\ parse_error' = parse_error
    BY <1>3, <1>4, <2>1, OkOnEof
  <2>4. call.end = TRUE
    BY <2>2, <2>3, EofIsEnd
  <2> QED BY <2>1, <2>2, <2>3, <2>4
<1>6. CASE Turn
  <2>1. P!Tokenless /\ UNCHANGED <<offset, text>>
    BY <1>6 DEF Turn, chunk
  <2>2. ~asked
    BY <2>1, TurnLeaves DEF CInv, Turns
  <2>3. ~P!DoFinish /\ ~P!Refuse /\ ~P!NextValue
    BY <1>4 DEF P!DoFinish, P!Refuse, P!NextValue, P!Return, P!Again, P!InParse
  <2>4. P!Done
    BY <2>1, <2>3 DEF P!Tokenless
  <2>5. /\ P!InParse /\ P!Top = "parse_complete" /\ ~P!MustBeBlank
        /\ "jhn_allow_multiple_values" \notin flags
        /\ UNCHANGED <<state_stack, flags, completed>>
    BY <2>4 DEF P!Done, P!history
  <2>6. ~used_up
    BY <2>1, <2>2, <2>5 DEF CInv, Turns, P!Failed
  <2>7. "jhn_allow_trailing_garbage" \in flags
    BY <2>5, <2>6 DEF P!MustBeBlank
  <2>8. completed
    BY <2>5 DEF CInv, PP!GInv, PP!Matched, P!Top, PP!Top
  <2> QED BY <2>5, <2>7, <2>8 DEF P!Top
<1>7. CASE Ask \/ Lexing
  <2>1. UNCHANGED parsing /\ pc # "idle"
    <3>1. CASE Ask
      BY <3>1 DEF Ask, WantsToken, P!InParse
    <3>2. CASE Lexing
      <4>1. UNCHANGED parsing /\ UNCHANGED <<given, caller, lexer>> /\ L!Step
        BY <3>2 DEF Lexing, parsing
      <4>2. lex_pc # "idle"
        BY <4>1, SameStep, LP!StepLeaves, SameClasses
      <4> QED BY <1>3, <4>1, <4>2 DEF CInv, Turns
    <3> QED BY <1>7, <3>1, <3>2
  <2> QED BY <1>4, <2>1 DEF parsing
<1>8. CASE UNCHANGED vars
  BY <1>8 DEF vars, parsing, chunk, ChunkIsRead, P!Top
<1> QED BY <1>1, <1>2, <1>5, <1>6, <1>7, <1>8 DEF Next, Step, Parse, Finish, Config

(* A call of jhn_parser_parse() that returns ok has read its whole chunk,   *)
(* but for what follows a complete document where that is allowed.          *)
THEOREM ChunkRead == Spec => []ChunkIsRead
<1>1. Init => ChunkIsRead
  BY DEF Init, P!Init, P!NoReturn, ChunkIsRead
<1> QED BY InitCInv, NextCInv, ChunkStaysRead, <1>1, PTL DEF Spec
=============================================================================
