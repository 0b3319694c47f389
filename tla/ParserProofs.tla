---------------------------- MODULE ParserProofs ----------------------------
(***************************************************************************)
(* Proofs about module Parser for every set of callbacks and options and   *)
(* every bound: the state stack mirrors the nesting of the document, a     *)
(* failure is final, and the callbacks are those of module ParserEvents.   *)
(***************************************************************************)
EXTENDS ParserRefinement, ParserGrammar, GrammarProofs

LexReturns == [tok : Tokens, kind : HeldKinds, end : BOOLEAN]

LEMMA LexedType ==
  ASSUME TypeOK
  PROVE  Lexed \subseteq LexReturns
<1>1. /\ kind \in HeldKinds /\ used_up \in BOOLEAN /\ lexer.comments \in BOOLEAN
  BY DEF TypeOK
<1>2. ASSUME NEW k \in HeldKinds, NEW c \in BOOLEAN, NEW call \in OnChunk(k, c)
      PROVE  call \in LexReturns
  <2>1. ASSUME NEW h \in Holds(k, c) PROVE h \in HeldKinds
    BY DEF Holds, HeldKinds, CommentKinds
  <2>2. /\ \A t \in Yields(k) : t \in Tokens
        /\ "eof" \in Tokens /\ "none" \in HeldKinds
    BY DEF Yields, Tokens, HeldKinds
  <2>3. CASE \E h \in Holds(k, c) : call = Call("eof", h, TRUE)
    BY <2>1, <2>2, <2>3 DEF Call, LexReturns
  <2>4. CASE \E t \in Yields(k), end \in BOOLEAN : call = Call(t, "none", end)
    BY <2>2, <2>4 DEF Call, LexReturns
  <2>5. \/ \E h \in Holds(k, c) : call = Call("eof", h, TRUE)
        \/ \E t \in Yields(k), end \in BOOLEAN : call = Call(t, "none", end)
    <3>1. \/ call \in {Call("eof", h, TRUE) : h \in Holds(k, c)}
          \/ call \in {Call(t, "none", FALSE) : t \in Yields(k) \ {"eof"}}
          \/ call \in {Call(t, "none", TRUE) : t \in Yields(k) \ {"eof", "integer", "double"}}
      BY DEF OnChunk
    <3> QED BY <3>1
  <2> QED BY <2>3, <2>4, <2>5
<1>3. ASSUME NEW k \in HeldKinds, NEW call \in OnBlank(k)
      PROVE  call \in LexReturns
  <2>1. \A t \in {"eof", "integer", "double", "error"}, h \in HeldKinds, end \in BOOLEAN :
          Call(t, h, end) \in LexReturns
    BY DEF Call, LexReturns, Tokens
  <2>2. \E t \in {"eof", "integer", "double", "error"}, h \in HeldKinds, end \in BOOLEAN :
          call = Call(t, h, end)
    BY Zenon DEF OnBlank, HeldKinds
  <2> QED BY <2>1, <2>2
<1>4. \A k \in HeldKinds : {Call("eof", k, TRUE)} \subseteq LexReturns
  BY DEF Call, LexReturns, Tokens
<1> QED BY <1>1, <1>2, <1>3, <1>4 DEF Lexed, Calls

(* What a call of the lexer does to the variables it touches. *)
LEMMA LexType ==
  ASSUME TypeOK, NEW call \in Lexed, Lex(call)
  PROVE  /\ call \in LexReturns
         /\ kind' \in HeldKinds /\ used_up' \in BOOLEAN /\ rest' \in Nat
         /\ seen' \in Seq(Words)
         /\ UNCHANGED <<flags, lexer, caller>>
<1>1. call \in LexReturns
  BY LexedType
<1>2. kind' \in HeldKinds /\ used_up' \in BOOLEAN
  BY <1>1 DEF Lex, LexReturns
<1>3. rest' \in Nat
  BY DEF Lex, TypeOK
<1>4. call.tok # "eof" => Word(call.tok) \in Words
  BY <1>1 DEF LexReturns, Word, Words, Tokens, Punctuation
<1>5. seen' \in Seq(Words)
  BY <1>4, AppendProperties DEF Lex, TypeOK
<1> QED BY <1>1, <1>2, <1>3, <1>5 DEF Lex

-----------------------------------------------------------------------------
(* The three things that happen to the state stack. *)

(* Its depth is never zero. *)
LEMMA StackDepth ==
  ASSUME TypeOK, StackMirrorsNesting
  PROVE  /\ Len(state_stack) \in Nat /\ Len(open) \in Nat
         /\ Len(state_stack) >= 1 /\ Len(state_stack) = Len(open) + 1
         /\ Top \in States
BY LenProperties, ElementOfSeq DEF TypeOK, StackMirrorsNesting, Top

(* A state fits a nesting when it can be on top of it. *)
Fits(s, nesting) ==
  \/ s \in {"parse_error", "lexical_error"}
  \/ IF nesting = <<>> THEN s \in {"start", "parse_complete", "got_value"}
     ELSE s \in StatesOf(nesting[Len(nesting)])

LEMMA SetShape ==
  ASSUME TypeOK, StackMirrorsNesting, NEW s \in States,
         state_stack' = SetTop(s), open' = open, Fits(s, open)
  PROVE  state_stack' \in Seq(States) /\ StackMirrorsNesting'
<1> DEFINE n == Len(state_stack)
<1>1. n \in Nat /\ Len(open) \in Nat /\ n >= 1 /\ n = Len(open) + 1
  BY StackDepth
<1>2. /\ state_stack' \in Seq(States) /\ Len(state_stack') = n
      /\ \A j \in 1..n : state_stack'[j] = IF j = n THEN s ELSE state_stack[j]
  BY <1>1, ExceptSeq DEF SetTop, TypeOK
<1>3. Top' = s
  BY <1>1, <1>2 DEF Top
<1>4. /\ Len(open) > 0 => state_stack'[1] = "parse_complete"
      /\ \A i \in 1..(Len(open) - 1) : state_stack'[i + 1] = WaitsIn(open[i])
  BY <1>1, <1>2 DEF StackMirrorsNesting
<1> HIDE DEF n
<1> QED BY <1>1, <1>2, <1>3, <1>4 DEF StackMirrorsNesting, Failed, Fits

LEMMA PushShape ==
  ASSUME TypeOK, StackMirrorsNesting, NEW container \in Containers, NEW s \in States,
         ~Failed, Top \in ValueStates, s \in StatesOf(container),
         state_stack' = Append(SetTop(Advance(Top)), s),
         open' = Append(open, container)
  PROVE  /\ state_stack' \in Seq(States) /\ open' \in Seq(Containers)
         /\ StackMirrorsNesting'
<1> DEFINE n == Len(state_stack)
           below == SetTop(Advance(Top))
<1>1. n \in Nat /\ Len(open) \in Nat /\ n >= 1 /\ n = Len(open) + 1
  BY StackDepth
<1>2. Advance(Top) \in States
  BY DEF Advance, States
<1>3. /\ below \in Seq(States) /\ Len(below) = n
      /\ \A j \in 1..n : below[j] = IF j = n THEN Advance(Top) ELSE state_stack[j]
  BY <1>1, <1>2, ExceptSeq DEF SetTop, TypeOK
<1>4. /\ state_stack' \in Seq(States) /\ Len(state_stack') = n + 1
      /\ \A j \in 1..n : state_stack'[j] = below[j]
      /\ state_stack'[n + 1] = s
  <2>1. state_stack' = Append(below, s)
    OBVIOUS
  <2> HIDE DEF n, below
  <2> QED BY <1>1, <1>3, <2>1, AppendProperties
<1>5. /\ open' \in Seq(Containers) /\ Len(open') = n
      /\ \A j \in 1..(n - 1) : open'[j] = open[j]
      /\ open'[n] = container
  BY <1>1, AppendProperties DEF TypeOK
<1>6. state_stack'[n] = Advance(Top)
  BY <1>1, <1>3, <1>4
<1>7. state_stack'[1] = "parse_complete"
  <2>1. CASE n = 1
    <3>1. Top \in {"start", "got_value"}
      BY <1>1, <2>1, EmptySeq DEF StackMirrorsNesting, ValueStates, TypeOK
    <3> QED BY <1>6, <2>1, <3>1 DEF Advance
  <2>2. CASE n > 1
    BY <1>1, <1>3, <1>4, <2>2 DEF StackMirrorsNesting
  <2> QED BY <1>1, <2>1, <2>2
<1>8. \A i \in 1..(n - 1) : state_stack'[i + 1] = WaitsIn(open'[i])
  <2> SUFFICES ASSUME NEW i \in 1..(n - 1) PROVE state_stack'[i + 1] = WaitsIn(open[i])
    BY <1>1, <1>5
  <2>1. CASE i + 1 = n
    <3>1. Top \in StatesOf(open[i]) /\ open[i] \in Containers
      BY <1>1, <2>1, ElementOfSeq, EmptySeq DEF StackMirrorsNesting, TypeOK
    <3>2. Advance(Top) = WaitsIn(open[i])
      BY <3>1 DEF Advance, WaitsIn, StatesOf, ValueStates, Containers
    <3> QED BY <1>6, <2>1, <3>2
  <2>2. CASE i + 1 < n
    BY <1>1, <1>3, <1>4, <2>2 DEF StackMirrorsNesting
  <2>3. i + 1 = n \/ i + 1 < n
    <3> HIDE DEF n
    <3> QED BY <1>1
  <2> QED BY <2>1, <2>2, <2>3
<1>9. Top' = s /\ open' # <<>>
  BY <1>1, <1>4, <1>5, EmptySeq DEF Top
<1> HIDE DEF n, below
<1> QED BY <1>1, <1>4, <1>5, <1>7, <1>8, <1>9 DEF StackMirrorsNesting

LEMMA CloseShape ==
  ASSUME TypeOK, StackMirrorsNesting, open # <<>>, Close
  PROVE  /\ state_stack' \in Seq(States) /\ open' \in Seq(Containers)
         /\ StackMirrorsNesting'
<1> DEFINE n == Len(state_stack)
<1>1. n \in Nat /\ Len(open) \in Nat /\ n = Len(open) + 1 /\ n >= 2
  BY StackDepth, EmptySeq DEF TypeOK
<1>2. /\ state_stack' \in Seq(States) /\ Len(state_stack') = n - 1
      /\ \A j \in 1..(n - 1) : state_stack'[j] = state_stack[j]
  <2>1. \A j \in 1..(n - 1) : state_stack[j] \in States
    BY <1>1, ElementOfSeq DEF TypeOK
  <2>2. state_stack' = SubSeq(state_stack, 1, n - 1)
    BY DEF Close, Below
  <2> HIDE DEF n
  <2> QED BY <1>1, <2>1, <2>2, SubSeqProperties
<1>3. /\ open' \in Seq(Containers) /\ Len(open') = n - 2
      /\ \A j \in 1..(n - 2) : open'[j] = open[j]
  <2>1. \A j \in 1..(n - 2) : open[j] \in Containers
    BY <1>1, ElementOfSeq DEF TypeOK
  <2>2. open' = SubSeq(open, 1, n - 2)
    BY <1>1 DEF Close
  <2>3. n - 2 \in Int /\ (n - 2) - 1 + 1 = n - 2 /\ \A j \in 1..(n - 2) : 1 + j - 1 = j
    <3> HIDE DEF n
    <3> QED BY <1>1
  <2>4. /\ open' \in Seq(Containers)
        /\ Len(open') = IF 1 <= n - 2 THEN (n - 2) - 1 + 1 ELSE 0
        /\ \A j \in 1..((n - 2) - 1 + 1) : open'[j] = open[1 + j - 1]
    <3> HIDE DEF n
    <3> QED BY <2>1, <2>2, <2>3, SubSeqProperties
  <2> HIDE DEF n
  <2>5. Len(open') = n - 2
    <3>1. \A a \in Nat : a >= 2 => (IF 1 <= a - 2 THEN (a - 2) - 1 + 1 ELSE 0) = a - 2
      OBVIOUS
    <3> QED BY <1>1, <2>4, <3>1, Zenon
  <2>6. \A j \in 1..(n - 2) : open'[j] = open[j]
    BY <2>3, <2>4
  <2> QED BY <2>4, <2>5, <2>6
<1>4. Top' = state_stack[n - 1]
  BY <1>1, <1>2 DEF Top
<1>5. CASE n = 2
  <2>1. Top' = "parse_complete"
    <3>1. Len(open) > 0 /\ n - 1 = 1
      <4>1. \A a, b \in Nat : a = b + 1 /\ a = 2 => b > 0 /\ a - 1 = 1
        OBVIOUS
      <4> HIDE DEF n
      <4> QED BY <1>1, <1>5, <4>1, Zenon
    <3>2. state_stack[1] = "parse_complete"
      BY <3>1 DEF StackMirrorsNesting
    <3> HIDE DEF n
    <3> QED BY <1>4, <3>1, <3>2
  <2>2. open' = <<>>
    BY <1>3, <1>5, EmptySeq
  <2> QED BY <1>1, <1>2, <1>3, <1>5, <2>1, <2>2 DEF StackMirrorsNesting
<1>6. CASE n > 2
  <2>1. Top' = WaitsIn(open[n - 2])
    BY <1>1, <1>4, <1>6 DEF StackMirrorsNesting
  <2>2. Top' \in StatesOf(open'[Len(open')])
    BY <1>1, <1>3, <1>6, <2>1 DEF WaitsIn, StatesOf
  <2>3. state_stack'[1] = "parse_complete" /\ open' # <<>>
    BY <1>1, <1>2, <1>3, <1>6, EmptySeq DEF StackMirrorsNesting
  <2>4. \A i \in 1..(n - 3) : state_stack'[i + 1] = WaitsIn(open'[i])
    BY <1>1, <1>2, <1>3, <1>6 DEF StackMirrorsNesting
  <2> HIDE DEF n
  <2> QED BY <1>1, <1>2, <1>3, <2>2, <2>3, <2>4 DEF StackMirrorsNesting
<1> QED BY <1>1, <1>5, <1>6

-----------------------------------------------------------------------------
(* The inductive invariant: StackMirrorsNesting needs the types of the two  *)
(* sequences, and a pop keeps the type of the stack only because of it.     *)
IInv == TypeOK /\ StackMirrorsNesting

(* The part of it that what follows a token decides. *)
Settled ==
  /\ state_stack \in Seq(States) /\ open \in Seq(Containers)
  /\ StackMirrorsNesting
  /\ parse_error \in SyntaxErrors \cup OtherErrors \cup {"none"}
  /\ completed \in BOOLEAN
  /\ pc \in {"idle", "do_parse", "do_finish"}
  /\ returned \in ({"parse", "finish"} \X Status) \cup {NoReturn}

LEMMA ReturnSettled ==
  ASSUME IInv, pc # "idle", NEW stat \in Status, Return(stat)
  PROVE  /\ pc' \in {"idle", "do_parse", "do_finish"}
         /\ returned' \in ({"parse", "finish"} \X Status) \cup {NoReturn}
<1>1. caller \in {"parse", "finish"}
  BY DEF IInv, TypeOK
<1>2. CASE caller = "finish" /\ stat = "ok"
  BY <1>2 DEF Return, IInv, TypeOK
<1>3. CASE ~(caller = "finish" /\ stat = "ok")
  <2>1. pc' = "idle" /\ returned' = <<caller, stat>>
    BY <1>3 DEF Return
  <2> QED BY <1>1, <2>1
<1> QED BY <1>2, <1>3

LEMMA AgainSettled ==
  ASSUME IInv, Again
  PROVE  /\ pc' \in {"idle", "do_parse", "do_finish"}
         /\ returned' \in ({"parse", "finish"} \X Status) \cup {NoReturn}
BY DEF Again, IInv, TypeOK

(* The top of the stack is replaced by a state that fits there. *)
LEMMA SetTopSettled ==
  ASSUME IInv, NEW s \in States, state_stack' = SetTop(s), open' = open, Fits(s, open),
         parse_error' \in SyntaxErrors \cup OtherErrors \cup {"none"},
         completed' \in BOOLEAN,
         pc' \in {"idle", "do_parse", "do_finish"},
         returned' \in ({"parse", "finish"} \X Status) \cup {NoReturn}
  PROVE  Settled'
<1>1. state_stack' \in Seq(States) /\ StackMirrorsNesting'
  BY SetShape DEF IInv
<1>2. open' \in Seq(Containers)
  BY DEF IInv, TypeOK
<1> QED BY <1>1, <1>2 DEF Settled

LEMMA FailWithSettled ==
  ASSUME IInv, NEW state \in {"parse_error", "lexical_error"},
         NEW message \in SyntaxErrors \cup OtherErrors \cup {"none"},
         FailWith(state, message)
  PROVE  Settled'
<1>1. state \in States /\ Fits(state, open)
  BY DEF States, Fits
<1>2. /\ state_stack' = SetTop(state) /\ open' = open
      /\ parse_error' = message /\ completed' \in BOOLEAN /\ Again
  BY DEF FailWith, IInv, TypeOK
<1> QED BY <1>1, <1>2, AgainSettled, SetTopSettled

LEMMA CancelSettled ==
  ASSUME IInv, InParse, NEW callback, Cancel(callback)
  PROVE  Settled'
<1>1. "parse_error" \in States /\ Fits("parse_error", open)
  BY DEF States, Fits
<1>2. /\ state_stack' = SetTop("parse_error") /\ open' = open
      /\ parse_error' \in SyntaxErrors \cup OtherErrors \cup {"none"}
      /\ completed' \in BOOLEAN /\ Return("client_cancelled")
  BY DEF Cancel, IInv, TypeOK, OtherErrors
<1>3. pc # "idle" /\ "client_cancelled" \in Status
  BY DEF InParse, Status
<1> QED BY <1>1, <1>2, <1>3, ReturnSettled, SetTopSettled

LEMMA UntouchedSettled ==
  ASSUME IInv, InParse, NEW stat \in Status, Return(stat),
         UNCHANGED <<state_stack, open, parse_error, completed>>
  PROVE  Settled'
<1>1. StackMirrorsNesting'
  BY DEF IInv, StackMirrorsNesting, Failed, Top
<1>2. pc # "idle"
  BY DEF InParse
<1> QED BY <1>1, <1>2, ReturnSettled DEF Settled, IInv, TypeOK

LEMMA ScalarSettled ==
  ASSUME IInv, ~Failed, Top \in ValueStates, Scalar
  PROVE  Settled'
<1>1. Advance(Top) \in States
  BY DEF Advance, States
<1>2. Fits(Advance(Top), open)
  <2>1. CASE open = <<>>
    <3>1. Top \in {"start", "got_value"}
      BY <2>1 DEF IInv, StackMirrorsNesting, ValueStates
    <3> QED BY <2>1, <3>1 DEF Fits, Advance
  <2>2. CASE open # <<>>
    <3>1. Top \in StatesOf(open[Len(open)])
      BY <2>2 DEF IInv, StackMirrorsNesting
    <3>2. Advance(Top) \in StatesOf(open[Len(open)])
      BY <3>1 DEF StatesOf, Advance, ValueStates
    <3> QED BY <2>2, <3>2 DEF Fits
  <2> QED BY <2>1, <2>2
<1>3. /\ state_stack' = SetTop(Advance(Top)) /\ open' = open
      /\ parse_error' \in SyntaxErrors \cup OtherErrors \cup {"none"}
      /\ completed' \in BOOLEAN /\ Again
  BY DEF Scalar, IInv, TypeOK
<1> QED BY <1>1, <1>2, <1>3, AgainSettled, SetTopSettled

LEMMA OpenSettled ==
  ASSUME IInv, ~Failed, Top \in ValueStates, NEW container \in Containers, Open(container)
  PROVE  Settled'
<1> DEFINE s == IF container = "map" THEN "map_start" ELSE "array_start"
<1>1. s \in States /\ s \in StatesOf(container)
  BY DEF States, StatesOf, Containers
<1>2. /\ state_stack' = Append(SetTop(Advance(Top)), s)
      /\ open' = Append(open, container)
      /\ parse_error' = parse_error /\ completed' = completed /\ Again
  BY DEF Open
<1>3. /\ state_stack' \in Seq(States) /\ open' \in Seq(Containers)
      /\ StackMirrorsNesting'
  <2> HIDE DEF s
  <2> QED BY <1>1, <1>2, PushShape DEF IInv
<1> QED BY <1>2, <1>3, AgainSettled DEF Settled, IInv, TypeOK

LEMMA CloseSettled ==
  ASSUME IInv, ~Failed, Top \notin {"start", "parse_complete", "got_value"}, Close
  PROVE  Settled'
<1>1. open # <<>>
  BY DEF IInv, StackMirrorsNesting
<1>2. /\ state_stack' \in Seq(States) /\ open' \in Seq(Containers)
      /\ StackMirrorsNesting'
  BY <1>1, CloseShape DEF IInv
<1>3. parse_error' = parse_error /\ completed' \in BOOLEAN /\ Again
  BY DEF Close, IInv, TypeOK
<1> QED BY <1>2, <1>3, AgainSettled DEF Settled, IInv, TypeOK

(* A parser that is in one of its working states has not failed. *)
LEMMA Working ==
  ASSUME Top \notin {"parse_error", "lexical_error"}
  PROVE  ~Failed
BY DEF Failed

(* The bottom of the stack is never popped. *)
LEMMA SettledDepth ==
  ASSUME Settled'
  PROVE  state_stack' # <<>>
<1>1. Len(open') \in Nat /\ Len(state_stack') = Len(open') + 1
  BY LenProperties DEF Settled, StackMirrorsNesting
<1> QED BY <1>1, EmptySeq

(* The whole invariant, from its part and from what the lexer left. *)
LEMMA FromSettled ==
  ASSUME IInv, Settled',
         kind' \in HeldKinds, used_up' \in BOOLEAN, rest' \in Nat, seen' \in Seq(Words),
         UNCHANGED <<flags, lexer, caller>>, pc # "idle"
  PROVE  IInv'
<1>1. lexer.made /\ caller # "none"
  BY DEF IInv, TypeOK
<1>2. state_stack' # <<>>
  BY SettledDepth
<1> QED BY <1>1, <1>2 DEF IInv, TypeOK, Settled

-----------------------------------------------------------------------------
(* One lemma per action. *)

(* A token was read, and what followed settled the rest. *)
LEMMA TokenStep ==
  ASSUME IInv, InParse, NEW call \in Lexed, Lex(call), Settled'
  PROVE  IInv'
<1>1. /\ kind' \in HeldKinds /\ used_up' \in BOOLEAN /\ rest' \in Nat
      /\ seen' \in Seq(Words) /\ UNCHANGED <<flags, lexer, caller>>
  BY LexType DEF IInv
<1> QED BY <1>1, FromSettled DEF InParse

LEMMA EndOfInputSettled ==
  ASSUME IInv, InParse, EndOfInput
  PROVE  Settled'
<1>1. "ok" \in Status
  BY DEF Status
<1> QED BY <1>1, UntouchedSettled DEF EndOfInput

LEMMA LexFailSettled ==
  ASSUME IInv, LexFail
  PROVE  Settled'
<1>1. parse_error \in SyntaxErrors \cup OtherErrors \cup {"none"}
  BY DEF IInv, TypeOK
<1> QED BY <1>1, FailWithSettled DEF LexFail

LEMMA NextValuePreserves ==
  ASSUME IInv, NextValue
  PROVE  IInv'
<1>1. /\ state_stack' = SetTop("got_value") /\ seen' = <<>> /\ Again /\ InParse
      /\ UNCHANGED <<flags, parse_error, lexer, caller, source, open, completed>>
  BY DEF NextValue
<1>2. "got_value" \in States /\ Fits("got_value", open)
  <2>1. open = <<>>
    <3>1. Top = "parse_complete"
      BY DEF NextValue
    <3>2. ~Failed /\ \A container \in Containers : Top \notin StatesOf(container)
      BY <3>1 DEF Failed, StatesOf
    <3>3. ASSUME open # <<>> PROVE FALSE
      <4>1. open[Len(open)] \in Containers
        BY <3>3, EmptySeq, ElementOfSeq DEF IInv, TypeOK
      <4> QED BY <3>2, <3>3, <4>1 DEF IInv, StackMirrorsNesting
    <3> QED BY <3>3
  <2> QED BY <2>1 DEF States, Fits
<1>3. Settled'
  BY <1>1, <1>2, AgainSettled, SetTopSettled DEF IInv, TypeOK
<1>4. /\ kind' \in HeldKinds /\ used_up' \in BOOLEAN /\ rest' \in Nat /\ seen' \in Seq(Words)
  BY <1>1, EmptySeq DEF IInv, TypeOK, source
<1> QED BY <1>1, <1>3, <1>4, FromSettled DEF InParse

LEMMA TrailingPreserves ==
  ASSUME IInv, NEW call \in Lexed, Trailing(call)
  PROVE  IInv'
<1>1. InParse /\ Lex(call)
  BY DEF Trailing
<1>2. CASE call.tok = "eof"
  <2>1. UNCHANGED <<state_stack, parse_error, open, completed>> /\ Again
    BY <1>2 DEF Trailing
  <2>2. StackMirrorsNesting'
    BY <2>1 DEF IInv, StackMirrorsNesting, Failed, Top
  <2>3. Settled'
    BY <2>1, <2>2, AgainSettled DEF Settled, IInv, TypeOK
  <2> QED BY <1>1, <2>3, TokenStep
<1>3. CASE call.tok # "eof"
  <2>1. FailWith("parse_error", "trailing garbage")
    BY <1>3 DEF Trailing
  <2>2. Settled'
    BY <2>1, FailWithSettled DEF SyntaxErrors
  <2> QED BY <1>1, <2>2, TokenStep
<1> QED BY <1>2, <1>3

LEMMA DonePreserves ==
  ASSUME IInv, Done
  PROVE  IInv'
<1>1. /\ Return("ok") /\ InParse
      /\ UNCHANGED <<state_stack, flags, parse_error, lexer, caller, source, history>>
  BY DEF Done
<1>2. Settled'
  BY <1>1, UntouchedSettled DEF Status, history
<1>3. kind' \in HeldKinds /\ used_up' \in BOOLEAN /\ rest' \in Nat /\ seen' \in Seq(Words)
  BY <1>1 DEF IInv, TypeOK, source, history
<1> QED BY <1>1, <1>2, <1>3, FromSettled DEF InParse

LEMMA RefusePreserves ==
  ASSUME IInv, Refuse
  PROVE  IInv'
<1>1. /\ Return("error") /\ InParse
      /\ UNCHANGED <<state_stack, flags, parse_error, lexer, caller, source, history>>
  BY DEF Refuse
<1>2. Settled'
  BY <1>1, UntouchedSettled DEF Status, history
<1>3. kind' \in HeldKinds /\ used_up' \in BOOLEAN /\ rest' \in Nat /\ seen' \in Seq(Words)
  BY <1>1 DEF IInv, TypeOK, source, history
<1> QED BY <1>1, <1>2, <1>3, FromSettled DEF InParse

LEMMA ValuePreserves ==
  ASSUME IInv, NEW call \in Lexed, Value(call)
  PROVE  IInv'
<1>1. InParse /\ Top \in ValueStates /\ ~Failed
  BY Working DEF Value, ValueStates
<1>2. /\ Lex(call)
      /\ \/ EndOfInput
         \/ LexFail
         \/ Scalar
         \/ \E callback \in Callbacks : Cancel(callback)
         \/ \E container \in Containers : Open(container)
         \/ Top = "array_start" /\ Close
         \/ \E message \in SyntaxErrors \cup OtherErrors : FailWith("parse_error", message)
  <2>1. \A tok \in Tokens : CallbackFor(tok) \in Callbacks
    BY DEF CallbackFor, Callbacks
  <2>2. /\ {"jhn_start_map", "jhn_start_array", "jhn_end_array"} \subseteq Callbacks
        /\ "map" \in Containers /\ "array" \in Containers
        /\ "unallowed token" \in SyntaxErrors
        /\ {"integer overflow", "double overflow"} \subseteq OtherErrors
    BY DEF Callbacks, Containers, SyntaxErrors, OtherErrors
  <2>3. call.tok \in Tokens
    BY LexedType DEF IInv, LexReturns
  <2> QED BY <2>1, <2>2, <2>3 DEF Value, Overflow, Tokens, EndsEmptyArray
<1>3. CASE EndOfInput
  BY <1>1, <1>2, <1>3, EndOfInputSettled, TokenStep
<1>4. CASE LexFail
  BY <1>1, <1>2, <1>4, LexFailSettled, TokenStep
<1>5. CASE Scalar
  BY <1>1, <1>2, <1>5, ScalarSettled, TokenStep
<1>6. ASSUME NEW callback \in Callbacks, Cancel(callback) PROVE IInv'
  BY <1>1, <1>2, <1>6, CancelSettled, TokenStep
<1>7. ASSUME NEW container \in Containers, Open(container) PROVE IInv'
  BY <1>1, <1>2, <1>7, OpenSettled, TokenStep
<1>8. CASE Top = "array_start" /\ Close
  BY <1>1, <1>2, <1>8, CloseSettled, TokenStep
<1>9. ASSUME NEW message \in SyntaxErrors \cup OtherErrors, FailWith("parse_error", message)
      PROVE  IInv'
  BY <1>1, <1>2, <1>9, FailWithSettled, TokenStep
<1> QED BY <1>2, <1>3, <1>4, <1>5, <1>6, <1>7, <1>8, <1>9

(* The state that follows a punctuation mark fits wherever the one before did. *)
LEMMA PunctuatedPreserves ==
  ASSUME IInv, NEW state, NEW separator, NEW next_state \in States,
         NEW closer, NEW callback, NEW message \in SyntaxErrors, NEW call \in Lexed,
         \A container \in Containers :
           state \in StatesOf(container) => next_state \in StatesOf(container),
         state \notin {"start", "parse_complete", "got_value", "parse_error", "lexical_error"},
         Punctuated(call, state, separator, next_state, closer, callback, message)
  PROVE  IInv'
<1>1. InParse /\ Top = state /\ ~Failed
  BY Working DEF Punctuated
<1>2. /\ Lex(call)
      /\ \/ EndOfInput
         \/ LexFail
         \/ /\ state_stack' = SetTop(next_state)
            /\ Again /\ UNCHANGED <<parse_error, open, completed>>
         \/ Cancel(callback)
         \/ Close
         \/ FailWith("parse_error", message)
  BY DEF Punctuated
<1>3. CASE EndOfInput
  BY <1>1, <1>2, <1>3, EndOfInputSettled, TokenStep
<1>4. CASE LexFail
  BY <1>1, <1>2, <1>4, LexFailSettled, TokenStep
<1>5. CASE /\ state_stack' = SetTop(next_state)
           /\ Again /\ UNCHANGED <<parse_error, open, completed>>
  <2>1. open # <<>> /\ state \in StatesOf(open[Len(open)])
    BY <1>1 DEF IInv, StackMirrorsNesting
  <2>2. open[Len(open)] \in Containers
    BY <2>1, EmptySeq, ElementOfSeq DEF IInv, TypeOK
  <2>3. Fits(next_state, open)
    BY <2>1, <2>2 DEF Fits
  <2>4. Settled'
    BY <1>5, <2>3, AgainSettled, SetTopSettled DEF IInv, TypeOK
  <2> QED BY <1>1, <1>2, <2>4, TokenStep
<1>6. CASE Cancel(callback)
  BY <1>1, <1>2, <1>6, CancelSettled, TokenStep
<1>7. CASE Close
  BY <1>1, <1>2, <1>7, CloseSettled, TokenStep
<1>8. CASE FailWith("parse_error", message)
  BY <1>1, <1>2, <1>8, FailWithSettled, TokenStep
<1> QED BY <1>2, <1>3, <1>4, <1>5, <1>6, <1>7, <1>8

LEMMA MapSepPreserves ==
  ASSUME IInv, NEW call \in Lexed, MapSep(call)
  PROVE  IInv'
<1>1. /\ "map_need_val" \in States /\ "no colon" \in SyntaxErrors
      /\ \A container \in Containers :
           "map_sep" \in StatesOf(container) => "map_need_val" \in StatesOf(container)
  BY DEF States, SyntaxErrors, StatesOf
<1> QED BY <1>1, PunctuatedPreserves DEF MapSep

LEMMA MapGotValPreserves ==
  ASSUME IInv, NEW call \in Lexed, MapGotVal(call)
  PROVE  IInv'
<1>1. /\ "map_need_key" \in States /\ "after map value" \in SyntaxErrors
      /\ \A container \in Containers :
           "map_got_val" \in StatesOf(container) => "map_need_key" \in StatesOf(container)
  BY DEF States, SyntaxErrors, StatesOf
<1> QED BY <1>1, PunctuatedPreserves DEF MapGotVal

LEMMA ArrayGotValPreserves ==
  ASSUME IInv, NEW call \in Lexed, ArrayGotVal(call)
  PROVE  IInv'
<1>1. /\ "array_need_val" \in States /\ "after array element" \in SyntaxErrors
      /\ \A container \in Containers :
           "array_got_val" \in StatesOf(container) => "array_need_val" \in StatesOf(container)
  BY DEF States, SyntaxErrors, StatesOf
<1> QED BY <1>1, PunctuatedPreserves DEF ArrayGotVal

LEMMA KeyPreserves ==
  ASSUME IInv, NEW call \in Lexed, Key(call)
  PROVE  IInv'
<1>1. InParse /\ Top \in {"map_start", "map_need_key"} /\ ~Failed
  BY Working DEF Key
<1>2. /\ Lex(call)
      /\ \/ EndOfInput
         \/ LexFail
         \/ /\ state_stack' = SetTop("map_sep")
            /\ Again /\ UNCHANGED <<parse_error, open, completed>>
         \/ \E callback \in Callbacks : Cancel(callback)
         \/ Close
         \/ FailWith("parse_error", "invalid key")
  <2>1. {"jhn_map_key", "jhn_end_map"} \subseteq Callbacks
    BY DEF Callbacks
  <2> QED BY <2>1 DEF Key
<1>3. CASE EndOfInput
  BY <1>1, <1>2, <1>3, EndOfInputSettled, TokenStep
<1>4. CASE LexFail
  BY <1>1, <1>2, <1>4, LexFailSettled, TokenStep
<1>5. CASE /\ state_stack' = SetTop("map_sep")
           /\ Again /\ UNCHANGED <<parse_error, open, completed>>
  <2>1. open # <<>> /\ Top \in StatesOf(open[Len(open)])
    BY <1>1 DEF IInv, StackMirrorsNesting
  <2>2. "map_sep" \in States /\ "map_sep" \in StatesOf(open[Len(open)])
    BY <1>1, <2>1 DEF States, StatesOf
  <2>3. Fits("map_sep", open)
    BY <2>1, <2>2 DEF Fits
  <2>4. Settled'
    BY <1>5, <2>2, <2>3, AgainSettled, SetTopSettled DEF IInv, TypeOK
  <2> QED BY <1>1, <1>2, <2>4, TokenStep
<1>6. ASSUME NEW callback \in Callbacks, Cancel(callback) PROVE IInv'
  BY <1>1, <1>2, <1>6, CancelSettled, TokenStep
<1>7. CASE Close
  BY <1>1, <1>2, <1>7, CloseSettled, TokenStep
<1>8. CASE FailWith("parse_error", "invalid key")
  <2>1. "invalid key" \in SyntaxErrors
    BY DEF SyntaxErrors
  <2> QED BY <1>1, <1>2, <1>8, <2>1, FailWithSettled, TokenStep
<1> QED BY <1>2, <1>3, <1>4, <1>5, <1>6, <1>7, <1>8

LEMMA DoFinishPreserves ==
  ASSUME IInv, DoFinish
  PROVE  IInv'
<1>1. /\ pc' = "idle"
      /\ returned' \in {<<"finish", "ok">>, <<"finish", "error">>}
      /\ UNCHANGED <<flags, lexer, caller, source, history>>
  BY DEF DoFinish
<1>2. /\ pc' \in {"idle", "do_parse", "do_finish"}
      /\ returned' \in ({"parse", "finish"} \X Status) \cup {NoReturn}
  BY <1>1 DEF Status
<1>3. Settled'
  <2>1. CASE UNCHANGED <<state_stack, parse_error>>
    <3>1. StackMirrorsNesting'
      BY <1>1, <2>1 DEF IInv, StackMirrorsNesting, Failed, Top, history
    <3> QED BY <1>1, <1>2, <2>1, <3>1 DEF Settled, IInv, TypeOK, history
  <2>2. CASE state_stack' = SetTop("parse_error") /\ parse_error' = "premature EOF"
    <3>1. /\ "parse_error" \in States /\ Fits("parse_error", open)
          /\ parse_error' \in SyntaxErrors \cup OtherErrors \cup {"none"}
      BY <2>2 DEF States, Fits, OtherErrors
    <3>2. completed' \in BOOLEAN /\ open' = open
      BY <1>1 DEF IInv, TypeOK, history
    <3> QED BY <1>2, <2>2, <3>1, <3>2, SetTopSettled
  <2> QED BY <2>1, <2>2 DEF DoFinish
<1> QED BY <1>1, <1>3, SettledDepth DEF IInv, TypeOK, Settled, source, history

LEMMA StartPreserves ==
  ASSUME IInv, NEW who \in {"parse", "finish"}, NEW empty \in BOOLEAN, Start(who, empty)
  PROVE  IInv'
<1>1. lexer' \in [made : BOOLEAN, comments : BOOLEAN, utf8 : BOOLEAN] /\ lexer'.made
  <2>1. CASE lexer.made
    BY <2>1 DEF Start, IInv, TypeOK
  <2>2. CASE ~lexer.made
    BY <2>2 DEF Start
  <2> QED BY <2>1, <2>2
<1>2. StackMirrorsNesting'
  BY DEF Start, history, IInv, StackMirrorsNesting, Failed, Top
<1>3. rest' \in Nat
  BY ParserAssumption DEF Start
<1> QED BY <1>1, <1>2, <1>3 DEF Start, history, IInv, TypeOK

LEMMA ConfigPreserves ==
  ASSUME IInv, NEW option \in Options, Config(option)
  PROVE  IInv'
<1>1. flags' \subseteq Options
  BY DEF Config, IInv, TypeOK
<1>2. StackMirrorsNesting'
  BY DEF Config, history, IInv, StackMirrorsNesting, Failed, Top
<1> QED BY <1>1, <1>2 DEF Config, history, source, IInv, TypeOK

-----------------------------------------------------------------------------
LEMMA InitIInv == Init => IInv
<1> SUFFICES ASSUME Init PROVE IInv
  OBVIOUS
<1>1. state_stack \in Seq(States) /\ Len(state_stack) = 1 /\ state_stack[1] = "start"
  BY DEF Init, States
<1>2. open \in Seq(Containers) /\ seen \in Seq(Words) /\ open = <<>> /\ Len(open) = 0
  BY EmptySeq DEF Init
<1>3. TypeOK
  BY <1>1, <1>2 DEF Init, TypeOK, NoLexer, NoReturn, HeldKinds
<1>4. StackMirrorsNesting
  BY <1>1, <1>2 DEF StackMirrorsNesting, Top
<1> QED BY <1>3, <1>4 DEF IInv

LEMMA NextIInv == IInv /\ [Next]_vars => IInv'
<1> SUFFICES ASSUME IInv, [Next]_vars PROVE IInv'
  OBVIOUS
<1>1. CASE Parse
  BY <1>1, StartPreserves DEF Parse
<1>2. CASE Finish
  BY <1>2, StartPreserves DEF Finish
<1>3. ASSUME NEW option \in Configurable, Config(option) PROVE IInv'
  BY <1>3, ConfigPreserves, ParserAssumption
<1>4. CASE Tokenless
  BY <1>4, NextValuePreserves, DonePreserves, RefusePreserves, DoFinishPreserves DEF Tokenless
<1>5. ASSUME NEW call \in Lexed, Take(call) PROVE IInv'
  BY <1>5, TrailingPreserves, ValuePreserves, KeyPreserves, MapSepPreserves,
     MapGotValPreserves, ArrayGotValPreserves DEF Take
<1>6. CASE UNCHANGED vars
  BY <1>6 DEF vars, source, history, IInv, TypeOK, StackMirrorsNesting, Failed, Top
<1> QED BY <1>1, <1>2, <1>3, <1>4, <1>5, <1>6 DEF Next, Step

(* Every field of the parser keeps its type: in particular the state stack  *)
(* is never popped below its bottom (bytestack.h), at any nesting depth.    *)
THEOREM TypeCorrect == Spec => []TypeOK
<1>1. IInv => TypeOK
  BY DEF IInv
<1> QED BY InitIInv, NextIInv, <1>1, PTL DEF Spec

(* The state stack of jhn_parser_s mirrors the containers reported to the   *)
(* client, for documents of any length and depth, any chunks, any set of    *)
(* callbacks, any cancellation and any configuration.                       *)
THEOREM StackMirrors == Spec => []StackMirrorsNesting
<1>1. IInv => StackMirrorsNesting
  BY DEF IInv
<1> QED BY InitIInv, NextIInv, <1>1, PTL DEF Spec

(* A step of a parser that has failed. *)
LEMMA FailedStays ==
  ASSUME Failed, Next
  PROVE  /\ Failed' /\ UNCHANGED <<open, seen, completed, kind>>
         /\ returned' \notin {<<"parse", "ok">>, <<"finish", "ok">>}
<1> DEFINE Dead == /\ Failed' /\ UNCHANGED <<open, seen, completed, kind>>
                   /\ returned' \notin {<<"parse", "ok">>, <<"finish", "ok">>}
<1>1. Top \in {"parse_error", "lexical_error"}
  BY DEF Failed
<1>2. ASSUME Refuse PROVE Dead
  <2>1. returned' = <<caller, "error">> /\ state_stack' = state_stack
    BY <1>2 DEF Refuse, Return
  <2> QED BY <1>2, <2>1 DEF Refuse, Failed, Top, source, history
<1>3. ASSUME DoFinish PROVE Dead
  <2>1. returned' = <<"finish", "error">> /\ state_stack' = state_stack
    BY <1>3 DEF DoFinish, MayEnd
  <2> QED BY <1>3, <2>1 DEF DoFinish, Failed, Top, source, history
<1>4. ASSUME NEW who, NEW empty, Start(who, empty) PROVE Dead
  BY <1>4 DEF Start, Failed, Top, NoReturn, history
<1>5. ASSUME NEW option, Config(option) PROVE Dead
  BY <1>5 DEF Config, Failed, Top, NoReturn, source, history
<1>6. ~NextValue /\ ~Done /\ \A call : ~Take(call)
  BY <1>1 DEF NextValue, Done, Take, Trailing, Value, ValueStates, Key, MapSep, MapGotVal,
              ArrayGotVal, Punctuated
<1> HIDE DEF Dead
<1>7. Dead
  BY <1>2, <1>3, <1>4, <1>5, <1>6 DEF Next, Step, Tokenless, Parse, Finish
<1> QED BY <1>7 DEF Dead

(* After a parse error, a lexical error or a cancelled callback nothing     *)
(* revives the parser: no token is read, no callback is made, no call       *)
(* returns jhn_parser_status_ok.                                            *)
THEOREM FailureIsFinal == Spec => StaysFailed
<1> DEFINE Dead == /\ Failed' /\ UNCHANGED <<open, seen, completed, kind>>
                   /\ returned' \notin {<<"parse", "ok">>, <<"finish", "ok">>}
<1>1. [Next]_vars => [Failed => Dead]_vars
  BY FailedStays
<1> QED BY <1>1, PTL DEF Spec, StaysFailed

-----------------------------------------------------------------------------
(* The refinement: what becomes of the promise when the stack changes.      *)

(* The top of the stack is replaced. *)
LEMMA TopSet ==
  ASSUME IInv, NEW s \in States, state_stack' = SetTop(s)
  PROVE  Top' = s
<1>1. Len(state_stack) \in 1..Len(state_stack)
  BY StackDepth DEF IInv
<1>2. Len(state_stack') = Len(state_stack) /\ state_stack'[Len(state_stack)] = s
  BY <1>1, ExceptSeq DEF SetTop, IInv, TypeOK
<1> QED BY <1>2 DEF Top

(* Nothing the client is told of. *)
LEMMA SilentStep ==
  ASSUME UNCHANGED <<state_stack, open>>
  PROVE  UNCHANGED Promise!vars
BY DEF Promise!vars, OwesValue, Ready, Failed, Top

(* The top changes between states that promise the same. *)
LEMMA SilentMove ==
  ASSUME IInv, NEW s \in States, state_stack' = SetTop(s), UNCHANGED open, ~Failed,
         s \notin {"parse_error", "lexical_error"},
         s \in {"map_sep", "map_need_val"} <=> OwesValue,
         s \in {"start", "got_value"} <=> Ready
  PROVE  UNCHANGED Promise!vars
<1>1. Top' = s
  BY TopSet
<1> QED BY <1>1 DEF Promise!vars, OwesValue, Ready, Failed

(* A failure or a cancellation. *)
LEMMA StopStep ==
  ASSUME IInv, NEW s \in {"parse_error", "lexical_error"}, state_stack' = SetTop(s),
         UNCHANGED open
  PROVE  Promise!Next
<1>1. Top' = s
  BY TopSet DEF States
<1>2. Promise!Stop
  BY <1>1 DEF Promise!Stop, OwesValue, Ready, Failed
<1> QED BY <1>2 DEF Promise!Next

(* Where a value is read the client expects one. *)
LEMMA ValueExpected ==
  ASSUME IInv, Top \in ValueStates
  PROVE  Promise!Expected /\ ~Failed
<1>1. ~Failed
  BY DEF Failed, ValueStates
<1>2. CASE Top \in {"start", "got_value", "map_need_val"}
  BY <1>1, <1>2 DEF Promise!Expected, Ready, OwesValue
<1>3. CASE Top \in {"array_start", "array_need_val"}
  <2>1. open # <<>> /\ Top \in StatesOf(open[Len(open)])
    BY <1>1, <1>3 DEF IInv, StackMirrorsNesting
  <2>2. open[Len(open)] \in Containers
    BY <2>1, EmptySeq, ElementOfSeq DEF IInv, TypeOK
  <2>3. open[Len(open)] = "array"
    BY <1>3, <2>1, <2>2 DEF StatesOf, Containers
  <2> QED BY <1>1, <2>1, <2>3 DEF Promise!Expected, Promise!In
<1> QED BY <1>1, <1>2, <1>3 DEF ValueStates

LEMMA ScalarStep ==
  ASSUME IInv, Top \in ValueStates, Scalar
  PROVE  Promise!Next
<1>1. Top' = Advance(Top)
  <2>1. Advance(Top) \in States /\ state_stack' = SetTop(Advance(Top))
    BY DEF Scalar, Advance, States
  <2> QED BY <2>1, TopSet
<1>2. Promise!Expected /\ UNCHANGED open
  BY ValueExpected DEF Scalar
<1>3. OwesValue' = FALSE /\ Ready' = FALSE /\ Failed' = Failed
  BY <1>1, ValueExpected DEF OwesValue, Ready, Failed, Advance
<1>4. Promise!Value
  BY <1>2, <1>3, Zenon DEF Promise!Value
<1> QED BY <1>4 DEF Promise!Next

LEMMA OpenStep ==
  ASSUME IInv, Top \in ValueStates, NEW container \in Containers, Open(container)
  PROVE  Promise!Next
<1> DEFINE s == IF container = "map" THEN "map_start" ELSE "array_start"
           below == SetTop(Advance(Top))
<1>1. Top' = s
  <2>1. Advance(Top) \in States /\ s \in States
    BY DEF Advance, States
  <2>2. Len(state_stack) \in 1..Len(state_stack)
    BY StackDepth DEF IInv
  <2>3. below \in Seq(States)
    BY <2>1, <2>2, ExceptSeq DEF SetTop, IInv, TypeOK
  <2>4. state_stack' = Append(below, s)
    BY DEF Open
  <2> HIDE DEF below, s
  <2> QED BY <2>1, <2>3, <2>4, AppendProperties DEF Top
<1>2. Promise!Expected /\ open' = Append(open, container)
  BY ValueExpected DEF Open
<1>3. OwesValue' = FALSE /\ Ready' = FALSE /\ Failed' = Failed
  BY <1>1, ValueExpected DEF OwesValue, Ready, Failed
<1>4. Promise!Begin(container)
  BY <1>2, <1>3, Zenon DEF Promise!Begin
<1> QED BY <1>4 DEF Promise!Next, Promise!Containers, Containers

(* The state that a pop uncovers has moved past its value; the bottom is    *)
(* uncovered when the document is complete.                                 *)
LEMMA Uncovered ==
  ASSUME IInv, ~Failed, Top \notin {"start", "parse_complete", "got_value"}, Close
  PROVE  /\ open # <<>> /\ open[Len(open)] \in Containers
         /\ Top' \in {"parse_complete", "map_got_val", "array_got_val"}
         /\ Top' = "parse_complete" => completed'
<1> DEFINE n == Len(open)
<1>1. open # <<>>
  BY DEF IInv, StackMirrorsNesting
<1>2. n \in Nat /\ n >= 1 /\ Len(state_stack) = n + 1 /\ open[n] \in Containers
  BY <1>1, StackDepth, EmptySeq, ElementOfSeq DEF IInv, TypeOK
<1>3. Top' = state_stack[n]
  <2>1. \A j \in 1..n : state_stack[j] \in States
    BY <1>2, ElementOfSeq DEF IInv, TypeOK
  <2>2. state_stack' = SubSeq(state_stack, 1, n)
    BY <1>2 DEF Close, Below
  <2>3. Len(state_stack') = n /\ state_stack'[n] = state_stack[n]
    <3> HIDE DEF n
    <3> QED BY <1>2, <2>1, <2>2, SubSeqProperties
  <2> QED BY <2>3 DEF Top
<1>4. /\ state_stack[n] \in {"parse_complete", "map_got_val", "array_got_val"}
      /\ state_stack[n] = "parse_complete" => n = 1
  <2>1. CASE n = 1
    BY <1>2, <2>1 DEF IInv, StackMirrorsNesting
  <2>2. CASE n > 1
    <3>1. n - 1 \in 1..(n - 1) /\ (n - 1) + 1 = n
      BY <1>2, <2>2
    <3>2. state_stack[n] = WaitsIn(open[n - 1])
      BY <3>1 DEF IInv, StackMirrorsNesting
    <3> QED BY <3>2 DEF WaitsIn
  <2> QED BY <1>2, <2>1, <2>2
<1>5. n = 1 => completed'
  BY DEF Close
<1> QED BY <1>1, <1>2, <1>3, <1>4, <1>5

LEMMA CloseStep ==
  ASSUME IInv, ~Failed,
         Top \notin {"start", "parse_complete", "got_value", "map_sep", "map_need_val"}, Close
  PROVE  Promise!Next
<1>1. /\ open # <<>> /\ open[Len(open)] \in Containers
      /\ Top' \in {"parse_complete", "map_got_val", "array_got_val"}
  BY Uncovered
<1>2. OwesValue' = OwesValue /\ Ready' = Ready /\ Failed' = Failed /\ ~OwesValue
  BY <1>1 DEF OwesValue, Ready, Failed
<1>3. open' = SubSeq(open, 1, Len(open) - 1)
  BY DEF Close, Below
<1>4. Promise!End(open[Len(open)])
  BY <1>1, <1>2, <1>3, Zenon DEF Promise!End, Promise!In
<1> QED BY <1>1, <1>4 DEF Promise!Next, Promise!Containers, Containers

(* Outside of all containers. *)
LEMMA BottomIsOutside ==
  ASSUME IInv, ~Failed, Top \in {"start", "parse_complete", "got_value"}
  PROVE  open = <<>>
<1>1. ASSUME open # <<>> PROVE FALSE
  <2>1. open[Len(open)] \in Containers
    BY <1>1, EmptySeq, ElementOfSeq DEF IInv, TypeOK
  <2> QED BY <1>1, <2>1 DEF IInv, StackMirrorsNesting, StatesOf
<1> QED BY <1>1

LEMMA FailWithStep ==
  ASSUME IInv, NEW state \in {"parse_error", "lexical_error"}, NEW message,
         FailWith(state, message)
  PROVE  Promise!Next
BY StopStep DEF FailWith

LEMMA CancelStep ==
  ASSUME IInv, NEW callback, Cancel(callback)
  PROVE  Promise!Next
BY StopStep DEF Cancel

(* A separator is consumed, or the container is closed. *)
LEMMA PunctuatedStep ==
  ASSUME IInv, NEW call \in Lexed, NEW state, NEW separator, NEW next_state \in States,
         NEW closer, NEW callback, NEW message,
         state \notin {"start", "parse_complete", "got_value", "map_need_val", "parse_error",
                      "lexical_error"},
         next_state \notin {"start", "got_value", "map_sep", "parse_error", "lexical_error"},
         state = "map_sep" <=> next_state = "map_need_val",
         state = "map_sep" => closer \notin Tokens,
         Punctuated(call, state, separator, next_state, closer, callback, message)
  PROVE  Promise!Next \/ UNCHANGED Promise!vars
<1>1. Top = state /\ ~Failed
  BY DEF Punctuated, Failed
<1>2. call.tok \in Tokens
  BY LexedType DEF IInv, LexReturns
<1>3. \/ EndOfInput
      \/ LexFail
      \/ state_stack' = SetTop(next_state) /\ UNCHANGED open
      \/ Cancel(callback)
      \/ closer \in Tokens /\ Close
      \/ FailWith("parse_error", message)
  BY <1>2 DEF Punctuated
<1>4. CASE EndOfInput
  BY <1>4, SilentStep DEF EndOfInput
<1>5. CASE LexFail
  BY <1>5, FailWithStep DEF LexFail
<1>6. CASE state_stack' = SetTop(next_state) /\ UNCHANGED open
  <2>1. /\ next_state \notin {"parse_error", "lexical_error"}
        /\ next_state \in {"map_sep", "map_need_val"} <=> OwesValue
        /\ next_state \in {"start", "got_value"} <=> Ready
    BY <1>1 DEF OwesValue, Ready
  <2> QED BY <1>1, <1>6, <2>1, SilentMove
<1>7. CASE closer \in Tokens /\ Close
  BY <1>1, <1>7, CloseStep
<1> QED BY <1>3, <1>4, <1>5, <1>6, <1>7, CancelStep, FailWithStep

(* Whatever the parser does is one callback of the promise, or none.        *)
LEMMA StepKeepsPromise ==
  ASSUME IInv, [Next]_vars
  PROVE  [Promise!Next]_(Promise!vars)
<1>1. CASE NextValue
  <2>1. Top = "parse_complete" /\ state_stack' = SetTop("got_value") /\ UNCHANGED open
    BY <1>1 DEF NextValue
  <2>2. Top' = "got_value"
    BY <2>1, TopSet DEF States
  <2>3. open = <<>>
    <3>1. ASSUME open # <<>> PROVE FALSE
      <4>1. open[Len(open)] \in Containers
        BY <3>1, EmptySeq, ElementOfSeq DEF IInv, TypeOK
      <4> QED BY <2>1, <3>1, <4>1 DEF IInv, StackMirrorsNesting, Failed, StatesOf
    <3> QED BY <3>1
  <2>4. Promise!NextDocument
    BY <2>1, <2>2, <2>3 DEF Promise!NextDocument, OwesValue, Ready, Failed
  <2> QED BY <2>4 DEF Promise!Next
<1>2. CASE Done \/ Refuse
  BY <1>2, SilentStep DEF Done, Refuse, history
<1>3. CASE DoFinish
  <2>1. CASE UNCHANGED state_stack
    BY <1>3, <2>1, SilentStep DEF DoFinish, history
  <2>2. CASE state_stack' = SetTop("parse_error")
    BY <1>3, <2>2, StopStep DEF DoFinish, history
  <2> QED BY <1>3, <2>1, <2>2 DEF DoFinish
<1>4. ASSUME NEW call \in Lexed, Trailing(call) PROVE [Promise!Next]_(Promise!vars)
  <2>1. CASE call.tok = "eof"
    BY <1>4, <2>1, SilentStep DEF Trailing
  <2>2. CASE call.tok # "eof"
    BY <1>4, <2>2, FailWithStep DEF Trailing
  <2> QED BY <2>1, <2>2
<1>5. ASSUME NEW call \in Lexed, Value(call) PROVE [Promise!Next]_(Promise!vars)
  <2>1. Top \in ValueStates
    BY <1>5 DEF Value
  <2>2. \/ EndOfInput
        \/ LexFail
        \/ Scalar
        \/ \E callback : Cancel(callback)
        \/ \E container \in Containers : Open(container)
        \/ Top = "array_start" /\ Close
        \/ \E message : FailWith("parse_error", message)
    <3>1. "map" \in Containers /\ "array" \in Containers
      BY DEF Containers
    <3> QED BY <1>5, <3>1 DEF Value, Overflow, EndsEmptyArray
  <2>3. CASE EndOfInput
    BY <2>3, SilentStep DEF EndOfInput
  <2>4. CASE LexFail
    BY <2>4, FailWithStep DEF LexFail
  <2>5. CASE Top = "array_start" /\ Close
    BY <2>5, CloseStep DEF Failed
  <2> QED BY <2>1, <2>2, <2>3, <2>4, <2>5, ScalarStep, CancelStep, OpenStep, FailWithStep
<1>6. ASSUME NEW call \in Lexed, Key(call) PROVE [Promise!Next]_(Promise!vars)
  <2>1. Top \in {"map_start", "map_need_key"} /\ ~Failed
    BY <1>6 DEF Key, Failed
  <2>2. \/ EndOfInput
        \/ LexFail
        \/ state_stack' = SetTop("map_sep") /\ UNCHANGED open
        \/ \E callback : Cancel(callback)
        \/ Close
        \/ \E message : FailWith("parse_error", message)
    BY <1>6 DEF Key
  <2>3. CASE EndOfInput
    BY <2>3, SilentStep DEF EndOfInput
  <2>4. CASE LexFail
    BY <2>4, FailWithStep DEF LexFail
  <2>5. CASE state_stack' = SetTop("map_sep") /\ UNCHANGED open
    <3>1. Top' = "map_sep"
      BY <2>5, TopSet DEF States
    <3>2. open # <<>> /\ Top \in StatesOf(open[Len(open)])
      BY <2>1 DEF IInv, StackMirrorsNesting
    <3>3. open[Len(open)] = "map"
      BY <2>1, <3>2 DEF StatesOf
    <3>4. Promise!Key
      BY <2>1, <2>5, <3>1, <3>2, <3>3 DEF Promise!Key, Promise!In, OwesValue, Ready, Failed
    <3> QED BY <3>4 DEF Promise!Next
  <2>6. CASE Close
    BY <2>1, <2>6, CloseStep
  <2> QED BY <2>2, <2>3, <2>4, <2>5, <2>6, CancelStep, FailWithStep
<1>7. ASSUME NEW call \in Lexed, MapSep(call) PROVE [Promise!Next]_(Promise!vars)
  <2>1. "map_need_val" \in States /\ "none" \notin Tokens
    BY DEF States, Tokens
  <2>2. Promise!Next \/ UNCHANGED Promise!vars
    BY <1>7, <2>1, PunctuatedStep DEF MapSep
  <2> QED BY <2>2
<1>8. ASSUME NEW call \in Lexed, MapGotVal(call) \/ ArrayGotVal(call)
      PROVE  [Promise!Next]_(Promise!vars)
  <2>1. /\ "map_need_key" \in States /\ "array_need_val" \in States
    BY DEF States
  <2>2. CASE MapGotVal(call)
    <3>1. Promise!Next \/ UNCHANGED Promise!vars
      BY <2>1, <2>2, PunctuatedStep DEF MapGotVal
    <3> QED BY <3>1
  <2>3. CASE ArrayGotVal(call)
    <3>1. Promise!Next \/ UNCHANGED Promise!vars
      BY <2>1, <2>3, PunctuatedStep DEF ArrayGotVal
    <3> QED BY <3>1
  <2> QED BY <1>8, <2>2, <2>3
<1>9. CASE (\E option \in Configurable : Config(option)) \/ UNCHANGED vars
  BY <1>9, SilentStep DEF Config, vars, history
<1>10. CASE Parse \/ Finish
  BY <1>10, SilentStep DEF Parse, Finish, Start, history
<1> QED BY <1>1, <1>2, <1>3, <1>4, <1>5, <1>6, <1>7, <1>8, <1>9, <1>10
       DEF Next, Step, Tokenless, Take

LEMMA PromiseInit == Init => Promise!Init
BY DEF Init, Promise!Init, OwesValue, Ready, Failed, Top

(* Whatever tokens arrive, in whatever chunks, to any depth, and whatever   *)
(* the client configures or cancels, the callbacks are those that module    *)
(* ParserEvents promises: containers nest, a value in a map follows its     *)
(* key, and after a failure there are none.                                 *)
THEOREM ParserImplementsEvents == Spec => ImplementsEvents
<1>1. IInv /\ [Next]_vars => [Promise!Next]_(Promise!vars)
  BY StepKeepsPromise
<1> QED BY InitIInv, NextIInv, PromiseInit, <1>1, PTL DEF Spec, ImplementsEvents, Promise!Spec

-----------------------------------------------------------------------------
(* The grammar: the state stack tracks the words read so far.              *)

(* The stack, as the stages of module GrammarProofs. *)
LEMMA StackSplit ==
  ASSUME IInv
  PROVE  /\ state_stack = Append(Below, Top) /\ Below \in Seq(Stages)
         /\ \A s \in States : SetTop(s) = Append(Below, s)
         /\ ~Failed => Top \in Stages
         /\ Top = "parse_complete" => Below = <<>>
<1> DEFINE n == Len(state_stack)
<1>1. /\ n \in Nat /\ n >= 1 /\ Len(open) \in Nat /\ n = Len(open) + 1 /\ Top \in States
      /\ state_stack \in Seq(States) /\ Top = state_stack[n]
  BY StackDepth DEF IInv, TypeOK, Top
<1>2. ASSUME NEW j \in 1..(n - 1) PROVE state_stack[j] \in Stages
  <2>1. CASE j = 1
    BY <1>1, <2>1 DEF IInv, StackMirrorsNesting, Stages, OtherStages
  <2>2. CASE j # 1
    <3>1. j - 1 \in 1..(Len(open) - 1) /\ (j - 1) + 1 = j
      BY <1>1, <2>2
    <3>2. state_stack[j] = WaitsIn(open[j - 1])
      BY <3>1 DEF IInv, StackMirrorsNesting
    <3> QED BY <3>2 DEF WaitsIn, Stages, OtherStages
  <2> QED BY <2>1, <2>2
<1>3. /\ Below \in Seq(Stages) /\ Len(Below) = n - 1
      /\ \A j \in 1..(n - 1) : Below[j] = state_stack[j]
  <2>1. Below = SubSeq(state_stack, 1, n - 1) /\ n - 1 \in Nat
    BY <1>1 DEF Below
  <2> HIDE DEF n
  <2> QED BY <1>1, <1>2, <2>1, SubSeqProperties
<1> HIDE DEF n
<1>4. ASSUME NEW s \in States, NEW q \in Seq(States), Len(q) = n, q[n] = s,
             \A j \in 1..(n - 1) : q[j] = state_stack[j]
      PROVE  q = Append(Below, s)
  <2> DEFINE r == Append(Below, s)
  <2>1. Stages \subseteq States
    BY DEF Stages, ValueStages, OtherStages, States
  <2>2. Below \in Seq(States)
    <3>1. \A j \in 1..Len(Below) : Below[j] \in States
      BY <1>3, <2>1, ElementOfSeq
    <3> QED BY <1>1, <1>3, <3>1, SeqDef
  <2>3. /\ r \in Seq(States) /\ Len(r) = n /\ r[n] = s
        /\ \A j \in 1..(n - 1) : r[j] = Below[j]
    <3>1. (n - 1) + 1 = n
      BY <1>1
    <3> QED BY <1>1, <1>3, <2>2, <3>1, AppendProperties
  <2> HIDE DEF r
  <2>4. \A j \in 1..n : q[j] = r[j]
    <3>1. \A j \in 1..n : j = n \/ j \in 1..(n - 1)
      BY <1>1
    <3> QED BY <1>3, <1>4, <2>3, <3>1
  <2>5. q = r
    BY <1>4, <2>3, <2>4, SeqEqual
  <2> QED BY <2>5 DEF r
<1>5. state_stack = Append(Below, Top)
  <2>1. Len(state_stack) = n
    BY DEF n
  <2> QED BY <1>1, <1>4, <2>1
<1>6. ASSUME NEW s \in States PROVE SetTop(s) = Append(Below, s)
  <2> DEFINE q == SetTop(s)
  <2>1. /\ q \in Seq(States) /\ Len(q) = n
        /\ \A j \in 1..n : q[j] = IF j = n THEN s ELSE state_stack[j]
    BY <1>1, ExceptSeq DEF SetTop, n
  <2>2. n \in 1..n /\ \A j \in 1..(n - 1) : j \in 1..n /\ j # n
    BY <1>1
  <2> HIDE DEF q
  <2>3. q[n] = s /\ \A j \in 1..(n - 1) : q[j] = state_stack[j]
    BY <2>1, <2>2
  <2>4. q = Append(Below, s)
    BY <1>4, <2>1, <2>3
  <2> QED BY <2>4 DEF q
<1>7. ~Failed => Top \in Stages
  BY <1>1 DEF Failed, States, Stages, ValueStages, OtherStages
<1>8. Top = "parse_complete" => Below = <<>>
  <2>1. ASSUME Top = "parse_complete" PROVE open = <<>>
    <3>1. ASSUME open # <<>> PROVE FALSE
      <4>1. open[Len(open)] \in Containers
        BY <3>1, EmptySeq, ElementOfSeq DEF IInv, TypeOK
      <4> QED BY <2>1, <3>1, <4>1 DEF IInv, StackMirrorsNesting, Failed, StatesOf
    <3> QED BY <3>1
  <2>2. open = <<>> => n = 1
    BY <1>1
  <2>3. n = 1 => Below = <<>>
    BY <1>1, <1>3, EmptySeq
  <2> QED BY <2>1, <2>2, <2>3
<1> QED BY <1>3, <1>5, <1>6, <1>7, <1>8

(* The words the lexer reports. *)
LEMMA WordRead ==
  ASSUME IInv, NEW call \in Lexed, Lex(call)
  PROVE  /\ call.tok = "eof" => seen' = seen
         /\ call.tok # "eof" => seen' = Append(seen, Word(call.tok)) /\ Len(seen') <= MaxTokens
         /\ call.tok \notin {"eof", "error"} => Word(call.tok) \in Letters
         /\ call.tok \in Tokens /\ seen \in Seq(Words) /\ Word("error") = "error"
<1>1. call.tok \in Tokens /\ seen \in Seq(Words)
  BY LexedType DEF IInv, TypeOK, LexReturns
<1>2. call.tok \notin {"eof", "error"} => Word(call.tok) \in Letters
  BY <1>1 DEF Word, Letters, Tokens
<1>3. Word("error") = "error"
  BY DEF Word
<1>4. ASSUME call.tok # "eof"
      PROVE  seen' = Append(seen, Word(call.tok)) /\ Len(seen') <= MaxTokens
  <2>1. call # Call("eof", "none", TRUE)
    BY <1>4 DEF Call
  <2>2. Len(seen) < MaxTokens /\ seen' = Append(seen, Word(call.tok))
    BY <1>4, <2>1 DEF Lex
  <2>3. Word(call.tok) \in Words
    BY <1>1, <1>4 DEF Word, Words, Tokens, Punctuation
  <2>4. Len(seen') = Len(seen) + 1 /\ Len(seen) \in Nat
    BY <1>1, <2>2, <2>3, AppendProperties, LenProperties
  <2> QED BY <2>2, <2>4, ParserAssumption
<1> QED BY <1>1, <1>2, <1>3, <1>4 DEF Lex

(* No document has an error in it. *)
LEMMA ErrorIsNoWord ==
  ASSUME NEW s \in Seq(Words)
  PROVE  Append(s, "error") \notin Openings("value")
<1> DEFINE u == Append(s, "error")
<1>1. "error" \in Words
  BY DEF Words
<1>2. Len(u) = Len(s) + 1 /\ u[Len(s) + 1] = "error" /\ Len(s) \in Nat
  BY <1>1, AppendProperties, LenProperties
<1>3. "error" \notin Letters
  BY DEF Letters
<1> HIDE DEF u
<1>4. u \notin Seq(Letters)
  <2>1. ASSUME u \in Seq(Letters) PROVE u[Len(s) + 1] \in Letters
    <3>1. Len(s) + 1 \in 1..Len(u)
      BY <1>2
    <3> QED BY <2>1, <3>1, ElementOfSeq
  <2> QED BY <1>2, <1>3, <2>1
<1>5. u \notin Openings("value")
  BY <1>4, GrammarTypes DEF Language
<1> QED BY <1>5 DEF u

(* What holds of the words read so far: while nothing has failed the stack *)
(* tells exactly what may come, and an error was found in the JSON only    *)
(* where nothing could.                                                    *)
Matched ==
  /\ ~Failed => Tracks(state_stack, seen) /\ parse_error \notin SyntaxErrors
  /\ Failed /\ (parse_error \in SyntaxErrors \/ Top = "lexical_error") =>
       seen \notin Openings("value")
  /\ Top \in {"parse_complete", "got_value"} => completed
  /\ Top = "got_value" => seen = <<>>

LEMMA MatchedUntouched ==
  ASSUME Matched, UNCHANGED <<state_stack, parse_error, seen, completed>>
  PROVE  Matched'
BY DEF Matched, Failed, Top

(* A failure: of the JSON, where no document goes on like this, or of something else. *)
LEMMA MatchedFailure ==
  ASSUME IInv, NEW state \in {"parse_error", "lexical_error"}, state_stack' = SetTop(state),
         \/ seen' \notin Openings("value")
         \/ state = "parse_error" /\ parse_error' \notin SyntaxErrors
  PROVE  Matched'
<1>1. Top' = state
  BY TopSet DEF States
<1> QED BY <1>1 DEF Matched, Failed

LEMMA MatchedError ==
  ASSUME IInv, NEW call \in Lexed, Lex(call), call.tok = "error",
         NEW state \in {"parse_error", "lexical_error"}, state_stack' = SetTop(state)
  PROVE  Matched'
<1>1. seen' = Append(seen, "error") /\ seen \in Seq(Words)
  BY WordRead
<1>2. seen' \notin Openings("value")
  BY <1>1, ErrorIsNoWord
<1> QED BY <1>2, MatchedFailure

(* A word that no document goes on with. *)
LEMMA MatchedRefusal ==
  ASSUME IInv, Matched, ~Failed, NEW w \in Letters, seen' = Append(seen, w),
         ~Accepts(Top, w), ~Opens(Top, w), ~Closes(Top, w), state_stack' = SetTop("parse_error")
  PROVE  Matched'
<1>1. /\ Below \in Seq(Stages) /\ Top \in Stages /\ state_stack = Append(Below, Top)
      /\ Top = "parse_complete" => Below = <<>>
  BY StackSplit
<1>2. Tracks(Append(Below, Top), seen)
  BY <1>1 DEF Matched
<1>3. Append(seen, w) \notin Openings("value")
  BY <1>1, <1>2, TracksNone
<1> QED BY <1>3, MatchedFailure

LEMMA MatchedMove ==
  ASSUME IInv, Matched, ~Failed, NEW w \in Letters, seen' = Append(seen, w),
         Accepts(Top, w), state_stack' = SetTop(Moved(Top)), UNCHANGED parse_error,
         Moved(Top) = "parse_complete" => completed'
  PROVE  Matched'
<1>1. /\ Below \in Seq(Stages) /\ Top \in Stages /\ state_stack = Append(Below, Top)
      /\ \A s \in States : SetTop(s) = Append(Below, s)
  BY StackSplit
<1>2. Moved(Top) \in States \ {"got_value", "parse_error", "lexical_error"}
  BY Zenon DEF Moved, Valued, Followed, States
<1>3. Tracks(Append(Below, Top), seen)
  BY <1>1 DEF Matched
<1>4. Tracks(Append(Below, Moved(Top)), Append(seen, w))
  BY <1>1, <1>3, TracksMove
<1>5. Tracks(state_stack', seen')
  BY <1>1, <1>2, <1>4
<1>6. Top' = Moved(Top)
  BY <1>2, TopSet
<1>7. parse_error' \notin SyntaxErrors
  BY DEF Matched
<1> QED BY <1>2, <1>5, <1>6, <1>7 DEF Matched, Failed

LEMMA MatchedOpen ==
  ASSUME IInv, Matched, ~Failed, NEW w \in Letters, seen' = Append(seen, w), Opens(Top, w),
         NEW container \in Containers, Open(container),
         w = IF container = "map" THEN "left_bracket" ELSE "left_brace"
  PROVE  Matched'
<1>1. /\ Below \in Seq(Stages) /\ Top \in Stages /\ state_stack = Append(Below, Top)
      /\ \A s \in States : SetTop(s) = Append(Below, s)
  BY StackSplit
<1>2. Tracks(Append(Below, Top), seen)
  BY <1>1 DEF Matched
<1>3. Top \in ValueStages
  BY DEF Opens
<1>4. Valued(Top) = Advance(Top) /\ Advance(Top) \in States
  BY <1>3 DEF Valued, Advance, ValueStages, States
<1>5. Opened(w) = (IF container = "map" THEN "map_start" ELSE "array_start")
  BY DEF Opened, Containers
<1>6. state_stack' = Append(Append(Below, Valued(Top)), Opened(w))
  BY <1>1, <1>4, <1>5 DEF Open
<1>7. Tracks(state_stack', seen')
  BY <1>1, <1>2, <1>6, TracksOpen
<1>8. Top' = Opened(w)
  <2> DEFINE q == Append(Below, Valued(Top))
  <2>1. q \in Seq(Stages) /\ Opened(w) \in Stages
    BY <1>1, <1>3, StageSteps, OneMoreStage
  <2>2. state_stack' = Append(q, Opened(w))
    BY <1>6
  <2> HIDE DEF q
  <2> QED BY <2>1, <2>2, OneMoreStage DEF Top
<1>9. parse_error' \notin SyntaxErrors
  BY DEF Matched, Open
<1>10. Opened(w) \in {"map_start", "array_start"}
  BY DEF Opened
<1> QED BY <1>7, <1>8, <1>9, <1>10 DEF Matched, Failed

LEMMA MatchedClose ==
  ASSUME IInv, Matched, ~Failed, NEW w \in Letters, seen' = Append(seen, w), Closes(Top, w), Close
  PROVE  Matched'
<1>1. /\ Below \in Seq(Stages) /\ Top \in Stages /\ state_stack = Append(Below, Top)
  BY StackSplit
<1>2. Tracks(Append(Below, Top), seen)
  BY <1>1 DEF Matched
<1>3. Tracks(Below, Append(seen, w))
  BY <1>1, <1>2, TracksClose
<1>4. Tracks(state_stack', seen')
  BY <1>3 DEF Close
<1>5. /\ Top' \in {"parse_complete", "map_got_val", "array_got_val"}
      /\ Top' = "parse_complete" => completed'
  <2>1. Top \notin {"start", "parse_complete", "got_value"}
    BY DEF Closes
  <2> QED BY <2>1, Uncovered
<1>6. parse_error' \notin SyntaxErrors
  BY DEF Matched, Close
<1> QED BY <1>4, <1>5, <1>6 DEF Matched, Failed

-----------------------------------------------------------------------------
(* One lemma per action. *)
LEMMA ValueMatches ==
  ASSUME IInv, Matched, NEW call \in Lexed, Value(call)
  PROVE  Matched'
<1> DEFINE w == Word(call.tok)
<1>1. Top \in ValueStates /\ ~Failed /\ Lex(call)
  BY Working DEF Value, EndsEmptyArray, ValueStates
<1>2. /\ call.tok = "eof" => seen' = seen
      /\ call.tok # "eof" => seen' = Append(seen, w)
      /\ call.tok \notin {"eof", "error"} => w \in Letters
      /\ call.tok \in Tokens
  BY <1>1, WordRead
<1>3. ValueStates = ValueStages
  BY DEF ValueStates, ValueStages
<1>4. CASE call.tok = "eof"
  <2>1. UNCHANGED <<state_stack, parse_error, completed>>
    BY <1>4 DEF Value, EndsEmptyArray, EndOfInput
  <2> QED BY <1>2, <1>4, <2>1, MatchedUntouched
<1>5. CASE call.tok = "error"
  <2>1. state_stack' = SetTop("lexical_error")
    BY <1>5 DEF Value, EndsEmptyArray, LexFail, FailWith
  <2> QED BY <1>1, <1>5, <2>1, MatchedError
<1>6. CASE call.tok \in {"string", "string_with_escapes", "bool", "null", "integer", "double"}
  <2>1. w \in {"string", "scalar"} /\ Accepts(Top, w) /\ Moved(Top) = Valued(Top)
    BY <1>1, <1>3, <1>6 DEF Word, Accepts, Moved
  <2>2. \/ Overflow(call.tok)
        \/ Cancel(CallbackFor(call.tok))
        \/ Scalar
    BY <1>6 DEF Value, EndsEmptyArray
  <2>3. CASE Overflow(call.tok)
    <3>1. state_stack' = SetTop("parse_error") /\ parse_error' \notin SyntaxErrors
      BY <2>3 DEF Overflow, FailWith, SyntaxErrors
    <3> QED BY <3>1, MatchedFailure
  <2>4. CASE Cancel(CallbackFor(call.tok))
    <3>1. state_stack' = SetTop("parse_error") /\ parse_error' \notin SyntaxErrors
      BY <2>4 DEF Cancel, SyntaxErrors
    <3> QED BY <3>1, MatchedFailure
  <2>5. CASE Scalar
    <3>1. Valued(Top) = Advance(Top)
      BY <1>1 DEF Valued, Advance, ValueStates
    <3>2. state_stack' = SetTop(Moved(Top)) /\ UNCHANGED parse_error
      BY <2>1, <2>5, <3>1 DEF Scalar
    <3>3. Moved(Top) = "parse_complete" => completed'
      <4>1. Moved(Top) = "parse_complete" => Top \in {"start", "got_value"}
        BY <2>1 DEF Valued
      <4>2. Top \in {"start", "got_value"} => open = <<>>
        BY <1>1, BottomIsOutside
      <4> QED BY <2>5, <4>1, <4>2 DEF Scalar
    <3>4. seen' = Append(seen, w) /\ w \in Letters
      BY <1>2, <1>6
    <3> HIDE DEF w
    <3> QED BY <1>1, <2>1, <3>2, <3>3, <3>4, MatchedMove
  <2> QED BY <2>2, <2>3, <2>4, <2>5
<1>7. CASE call.tok \in {"left_bracket", "left_brace"}
  <2> DEFINE container == IF call.tok = "left_bracket" THEN "map" ELSE "array"
  <2>1. /\ w = IF container = "map" THEN "left_bracket" ELSE "left_brace"
        /\ w = call.tok /\ Opens(Top, w) /\ container \in Containers
    BY <1>1, <1>3, <1>7 DEF Word, Opens, Containers
  <2>2. \/ Cancel("jhn_start_map") \/ Cancel("jhn_start_array")
        \/ Open(container)
    BY <1>7 DEF Value, EndsEmptyArray
  <2>3. ASSUME NEW callback, Cancel(callback) PROVE Matched'
    <3>1. state_stack' = SetTop("parse_error") /\ parse_error' \notin SyntaxErrors
      BY <2>3 DEF Cancel, SyntaxErrors
    <3> QED BY <3>1, MatchedFailure
  <2>4. CASE Open(container)
    <3>1. seen' = Append(seen, w) /\ w \in Letters
      BY <1>2, <1>7
    <3> HIDE DEF w, container
    <3> QED BY <1>1, <2>1, <2>4, <3>1, MatchedOpen
  <2> QED BY <2>2, <2>3, <2>4
<1>8. CASE call.tok = "right_brace" /\ Top = "array_start"
  <2>1. w = "right_brace" /\ Closes(Top, w)
    BY <1>8 DEF Word, Closes
  <2>2. Cancel("jhn_end_array") \/ Close
    BY <1>8 DEF Value, EndsEmptyArray
  <2>3. CASE Cancel("jhn_end_array")
    <3>1. state_stack' = SetTop("parse_error") /\ parse_error' \notin SyntaxErrors
      BY <2>3 DEF Cancel, SyntaxErrors
    <3> QED BY <3>1, MatchedFailure
  <2>4. CASE Close
    <3>1. seen' = Append(seen, w) /\ w \in Letters
      BY <1>2, <1>8
    <3> HIDE DEF w
    <3> QED BY <1>1, <2>1, <2>4, <3>1, MatchedClose
  <2> QED BY <2>2, <2>3, <2>4
<1>9. CASE /\ call.tok \in {"right_brace", "right_bracket", "comma", "colon"}
           /\ ~(call.tok = "right_brace" /\ Top = "array_start")
  <2>1. w = call.tok
    BY <1>9 DEF Word
  <2>2. ~Accepts(Top, w) /\ ~Opens(Top, w) /\ ~Closes(Top, w)
    BY <1>1, <1>9, <2>1 DEF Accepts, Opens, Closes, ValueStates, ValueStages, OtherStages
  <2>3. state_stack' = SetTop("parse_error")
    BY <1>9 DEF Value, EndsEmptyArray, FailWith
  <2>4. seen' = Append(seen, w) /\ w \in Letters
    BY <1>2, <1>9
  <2> HIDE DEF w
  <2> QED BY <1>1, <2>2, <2>3, <2>4, MatchedRefusal
<1> QED BY <1>2, <1>4, <1>5, <1>6, <1>7, <1>8, <1>9 DEF Tokens

LEMMA KeyMatches ==
  ASSUME IInv, Matched, NEW call \in Lexed, Key(call)
  PROVE  Matched'
<1> DEFINE w == Word(call.tok)
<1>1. Top \in {"map_start", "map_need_key"} /\ ~Failed /\ Lex(call)
  BY Working DEF Key, EndsEmptyMap
<1>2. /\ call.tok = "eof" => seen' = seen
      /\ call.tok # "eof" => seen' = Append(seen, w)
      /\ call.tok \notin {"eof", "error"} => w \in Letters
      /\ call.tok \in Tokens
  BY <1>1, WordRead
<1>3. ASSUME NEW callback, Cancel(callback) PROVE Matched'
  <2>1. state_stack' = SetTop("parse_error") /\ parse_error' \notin SyntaxErrors
    BY <1>3 DEF Cancel, SyntaxErrors
  <2> QED BY <2>1, MatchedFailure
<1>4. CASE call.tok = "eof"
  <2>1. UNCHANGED <<state_stack, parse_error, completed>>
    BY <1>4 DEF Key, EndsEmptyMap, EndOfInput
  <2> QED BY <1>2, <1>4, <2>1, MatchedUntouched
<1>5. CASE call.tok = "error"
  <2>1. state_stack' = SetTop("lexical_error")
    BY <1>5 DEF Key, EndsEmptyMap, LexFail, FailWith
  <2> QED BY <1>1, <1>5, <2>1, MatchedError
<1>6. CASE call.tok \in {"string", "string_with_escapes"}
  <2>1. w = "string" /\ Accepts(Top, w) /\ Moved(Top) = "map_sep"
    BY <1>1, <1>6 DEF Word, Accepts, Moved, Awaited, Followed, ValueStages, OtherStages
  <2>2. \/ Cancel("jhn_map_key")
        \/ state_stack' = SetTop("map_sep") /\ UNCHANGED parse_error
    BY <1>6 DEF Key, EndsEmptyMap
  <2>3. seen' = Append(seen, w) /\ w \in Letters
    BY <1>2, <1>6
  <2> HIDE DEF w
  <2>4. CASE state_stack' = SetTop("map_sep") /\ UNCHANGED parse_error
    BY <1>1, <2>1, <2>3, <2>4, MatchedMove
  <2> QED BY <1>3, <2>2, <2>4
<1>7. CASE call.tok = "right_bracket" /\ Top = "map_start"
  <2>1. w = "right_bracket" /\ Closes(Top, w)
    BY <1>7 DEF Word, Closes
  <2>2. Cancel("jhn_end_map") \/ Close
    BY <1>7 DEF Key, EndsEmptyMap
  <2>3. seen' = Append(seen, w) /\ w \in Letters
    BY <1>2, <1>7
  <2> HIDE DEF w
  <2>4. CASE Close
    BY <1>1, <2>1, <2>3, <2>4, MatchedClose
  <2> QED BY <1>3, <2>2, <2>4
<1>8. CASE /\ call.tok \notin {"eof", "error", "string", "string_with_escapes"}
           /\ ~(call.tok = "right_bracket" /\ Top = "map_start")
  <2>1. w # "string" /\ (w = "right_bracket" => call.tok = "right_bracket")
    BY <1>2, <1>8 DEF Word, Tokens
  <2>2. ~Accepts(Top, w) /\ ~Opens(Top, w) /\ ~Closes(Top, w)
    BY <1>1, <1>8, <2>1 DEF Accepts, Opens, Closes, Awaited, ValueStages, OtherStages
  <2>3. state_stack' = SetTop("parse_error")
    BY <1>8 DEF Key, EndsEmptyMap, FailWith
  <2>4. seen' = Append(seen, w) /\ w \in Letters
    BY <1>2, <1>8
  <2> HIDE DEF w
  <2> QED BY <1>1, <2>2, <2>3, <2>4, MatchedRefusal
<1> QED BY <1>2, <1>4, <1>5, <1>6, <1>7, <1>8 DEF Tokens

LEMMA PunctuatedMatches ==
  ASSUME IInv, Matched, NEW call \in Lexed,
         NEW state \in {"map_sep", "map_got_val", "array_got_val"},
         NEW closer, NEW callback, NEW message,
         \A w : Closes(state, w) <=> w = closer /\ closer \in Tokens,
         closer \in {"none", "right_brace", "right_bracket"},
         Punctuated(call, state, Awaited(state), Followed(state), closer, callback, message)
  PROVE  Matched'
<1> DEFINE w == Word(call.tok)
<1>1. Top = state /\ ~Failed /\ Lex(call)
  BY Working DEF Punctuated
<1>2. /\ call.tok = "eof" => seen' = seen
      /\ call.tok # "eof" => seen' = Append(seen, w)
      /\ call.tok \notin {"eof", "error"} => w \in Letters
      /\ call.tok \in Tokens
  BY <1>1, WordRead
<1>3. ASSUME NEW cb, Cancel(cb) PROVE Matched'
  <2>1. state_stack' = SetTop("parse_error") /\ parse_error' \notin SyntaxErrors
    BY <1>3 DEF Cancel, SyntaxErrors
  <2> QED BY <2>1, MatchedFailure
<1>s. /\ Awaited(state) \in {"comma", "colon"} /\ state \notin ValueStages
      /\ state \in OtherStages \ {"parse_complete"}
      /\ Moved(state) = Followed(state) /\ Moved(state) # "parse_complete"
  BY DEF Awaited, Followed, Moved, ValueStages, OtherStages
<1>4. CASE call.tok = "eof"
  <2>1. UNCHANGED <<state_stack, parse_error, completed>>
    BY <1>4, <1>s DEF Punctuated, EndOfInput
  <2> QED BY <1>2, <1>4, <2>1, MatchedUntouched
<1>5. CASE call.tok = "error"
  <2>1. state_stack' = SetTop("lexical_error")
    BY <1>5, <1>s DEF Punctuated, LexFail, FailWith
  <2> QED BY <1>1, <1>5, <2>1, MatchedError
<1>6. CASE call.tok = Awaited(state)
  <2>1. w = Awaited(state)
    BY <1>6, <1>s DEF Word
  <2>2. Accepts(Top, w)
    BY <1>1, <1>s, <2>1 DEF Accepts
  <2>3. call.tok \notin {"eof", "error"}
    BY <1>6, <1>s
  <2>4. state_stack' = SetTop(Moved(Top)) /\ UNCHANGED parse_error
    BY <1>1, <1>6, <1>s, <2>3 DEF Punctuated
  <2>5. seen' = Append(seen, w) /\ w \in Letters /\ Moved(Top) # "parse_complete"
    BY <1>1, <1>2, <1>s, <2>3
  <2> HIDE DEF w
  <2> QED BY <1>1, <2>2, <2>4, <2>5, MatchedMove
<1>7. CASE call.tok = closer
  <2>1. call.tok \in {"right_brace", "right_bracket"} /\ call.tok # Awaited(state)
    BY <1>2, <1>7, <1>s DEF Tokens
  <2>2. w = closer /\ Closes(Top, w)
    BY <1>1, <1>2, <1>7, <2>1 DEF Word
  <2>3. Cancel(callback) \/ Close
    BY <1>7, <2>1 DEF Punctuated
  <2>4. seen' = Append(seen, w) /\ w \in Letters
    BY <1>2, <2>1
  <2> HIDE DEF w
  <2>5. CASE Close
    BY <1>1, <2>2, <2>4, <2>5, MatchedClose
  <2> QED BY <1>3, <2>3, <2>5
<1>8. CASE call.tok \notin {"eof", "error", Awaited(state), closer}
  <2>1. w # Awaited(state) /\ ~(w = closer /\ closer \in Tokens)
    BY <1>2, <1>8, <1>s DEF Word, Tokens
  <2>2. ~Accepts(Top, w) /\ ~Opens(Top, w) /\ ~Closes(Top, w)
    BY <1>1, <1>s, <2>1 DEF Accepts, Opens
  <2>3. state_stack' = SetTop("parse_error")
    BY <1>8 DEF Punctuated, FailWith
  <2>4. seen' = Append(seen, w) /\ w \in Letters
    BY <1>2, <1>8
  <2> HIDE DEF w
  <2> QED BY <1>1, <2>2, <2>3, <2>4, MatchedRefusal
<1> QED BY <1>4, <1>5, <1>6, <1>7, <1>8

LEMMA TrailingMatches ==
  ASSUME IInv, Matched, NEW call \in Lexed, Trailing(call)
  PROVE  Matched'
<1> DEFINE w == Word(call.tok)
<1>1. Top = "parse_complete" /\ ~Failed /\ Lex(call)
  BY Working DEF Trailing
<1>2. /\ call.tok = "eof" => seen' = seen
      /\ call.tok # "eof" => seen' = Append(seen, w)
      /\ call.tok \notin {"eof", "error"} => w \in Letters
  BY <1>1, WordRead
<1>3. CASE call.tok = "eof"
  BY <1>2, <1>3, MatchedUntouched DEF Trailing
<1>4. CASE call.tok # "eof"
  <2>1. state_stack' = SetTop("parse_error")
    BY <1>4 DEF Trailing, FailWith
  <2>2. CASE call.tok = "error"
    BY <1>1, <2>1, <2>2, MatchedError
  <2>3. CASE call.tok # "error"
    <3>1. ~Accepts(Top, w) /\ ~Opens(Top, w) /\ ~Closes(Top, w)
      BY <1>1 DEF Accepts, Opens, Closes, ValueStages, OtherStages
    <3>2. seen' = Append(seen, w) /\ w \in Letters
      BY <1>2, <1>4, <2>3
    <3> HIDE DEF w
    <3> QED BY <1>1, <2>1, <3>1, <3>2, MatchedRefusal
  <2> QED BY <2>2, <2>3
<1> QED BY <1>3, <1>4

LEMMA NextValueMatches ==
  ASSUME IInv, Matched, NextValue
  PROVE  Matched'
<1>1. /\ Top = "parse_complete" /\ state_stack' = SetTop("got_value") /\ seen' = <<>>
      /\ UNCHANGED <<parse_error, completed>> /\ ~Failed
  BY Working DEF NextValue
<1>2. Below = <<>> /\ SetTop("got_value") = Append(Below, "got_value")
  BY <1>1, StackSplit DEF States
<1>3. Tracks(Append(<<>>, "got_value"), <<>>)
  BY TracksNothing
<1>4. Tracks(state_stack', seen')
  BY <1>1, <1>2, <1>3
<1>5. Top' = "got_value"
  BY <1>1, TopSet DEF States
<1>6. completed' /\ parse_error' \notin SyntaxErrors
  BY <1>1 DEF Matched
<1> QED BY <1>1, <1>4, <1>5, <1>6 DEF Matched, Failed

-----------------------------------------------------------------------------
(* A call in progress has returned nothing yet. *)
Unanswered == pc # "idle" => returned = NoReturn

(* The inductive invariant of the grammar. *)
GInv ==
  /\ IInv /\ Matched /\ Unanswered
  /\ Len(seen) <= MaxTokens
  /\ FinishMeansDocument

(* What a turn of the loop leaves to the client. *)
Quiet == Again \/ \E stat \in Status : Return(stat)

LEMMA QuietAnswers ==
  ASSUME IInv, Unanswered, InParse, Quiet
  PROVE  Unanswered' /\ FinishMeansDocument'
<1>1. returned = NoReturn
  BY DEF Unanswered, InParse
<1>2. returned' # <<"finish", "ok">> /\ Unanswered'
  <2>1. CASE Again
    BY <1>1, <2>1 DEF Again, NoReturn, Unanswered
  <2>2. ASSUME NEW stat \in Status, Return(stat) PROVE returned' # <<"finish", "ok">> /\ Unanswered'
    BY <1>1, <2>2 DEF Return, NoReturn, Unanswered
  <2> QED BY <2>1, <2>2 DEF Quiet
<1> QED BY <1>2 DEF FinishMeansDocument

LEMMA TakeMatches ==
  ASSUME GInv, NEW call \in Lexed, Take(call)
  PROVE  GInv'
<1> USE DEF GInv
<1>1. /\ InParse /\ Lex(call)
  BY DEF Take, Trailing, Value, Key, MapSep, MapGotVal, ArrayGotVal, Punctuated
<1>2. Quiet
  BY DEF Take, Trailing, Value, Key, MapSep, MapGotVal, ArrayGotVal, Punctuated, EndOfInput,
         LexFail, FailWith, Cancel, Scalar, Overflow, Open, Close, Quiet, Status
<1>3. Unanswered' /\ FinishMeansDocument'
  BY <1>1, <1>2, QuietAnswers
<1>4. IInv'
  BY TrailingPreserves, ValuePreserves, KeyPreserves, MapSepPreserves,
     MapGotValPreserves, ArrayGotValPreserves DEF Take
<1>5. Len(seen') <= MaxTokens
  BY <1>1, WordRead
<1>6. Matched'
  <2>1. CASE MapSep(call)
    <3>1. /\ Awaited("map_sep") = "colon" /\ Followed("map_sep") = "map_need_val"
          /\ \A w : Closes("map_sep", w) <=> w = "none" /\ "none" \in Tokens
      BY DEF Awaited, Followed, Closes, Tokens
    <3>2. Punctuated(call, "map_sep", Awaited("map_sep"), Followed("map_sep"), "none", "none", "no colon")
      BY <2>1, <3>1 DEF MapSep
    <3> QED BY <3>1, <3>2, PunctuatedMatches
  <2>2. CASE MapGotVal(call)
    <3>1. /\ Awaited("map_got_val") = "comma" /\ Followed("map_got_val") = "map_need_key"
          /\ \A w : Closes("map_got_val", w) <=> w = "right_bracket" /\ "right_bracket" \in Tokens
      BY DEF Awaited, Followed, Closes, Tokens
    <3>2. Punctuated(call, "map_got_val", Awaited("map_got_val"), Followed("map_got_val"),
                     "right_bracket", "jhn_end_map", "after map value")
      BY <2>2, <3>1 DEF MapGotVal
    <3> QED BY <3>1, <3>2, PunctuatedMatches
  <2>3. CASE ArrayGotVal(call)
    <3>1. /\ Awaited("array_got_val") = "comma" /\ Followed("array_got_val") = "array_need_val"
          /\ \A w : Closes("array_got_val", w) <=> w = "right_brace" /\ "right_brace" \in Tokens
      BY DEF Awaited, Followed, Closes, Tokens
    <3>2. Punctuated(call, "array_got_val", Awaited("array_got_val"), Followed("array_got_val"),
                     "right_brace", "jhn_end_array", "after array element")
      BY <2>3, <3>1 DEF ArrayGotVal
    <3> QED BY <3>1, <3>2, PunctuatedMatches
  <2> QED BY <2>1, <2>2, <2>3, TrailingMatches, ValueMatches, KeyMatches DEF Take
<1> QED BY <1>3, <1>4, <1>5, <1>6

LEMMA DoFinishMatches ==
  ASSUME GInv, DoFinish
  PROVE  GInv'
<1> USE DEF GInv
<1>1. IInv' /\ UNCHANGED <<flags, seen, completed>> /\ pc' = "idle"
  BY DoFinishPreserves DEF DoFinish, history
<1>2. Matched'
  <2>1. CASE UNCHANGED <<state_stack, parse_error>>
    BY <1>1, <2>1, MatchedUntouched
  <2>2. CASE state_stack' = SetTop("parse_error") /\ parse_error' = "premature EOF"
    <3>1. parse_error' \notin SyntaxErrors
      BY <2>2 DEF SyntaxErrors
    <3> QED BY <2>2, <3>1, MatchedFailure
  <2> QED BY <2>1, <2>2 DEF DoFinish
<1>3. FinishMeansDocument'
  <2>1. SUFFICES ASSUME returned' = <<"finish", "ok">>, "jhn_allow_partial_values" \notin flags
                 PROVE  completed /\ (seen = <<>> \/ seen \in Documents)
    BY <1>1 DEF FinishMeansDocument
  <2>2. ~Failed /\ Top \in {"got_value", "parse_complete"}
    <3>1. MayEnd
      BY <2>1 DEF DoFinish
    <3> QED BY <2>1, <3>1 DEF MayEnd
  <2>3. CASE Top = "got_value"
    BY <2>3 DEF Matched
  <2>4. CASE Top = "parse_complete"
    <3>1. Tracks(Append(Below, Top), seen) /\ Below \in Seq(Stages) /\ Top \in Stages /\ Below = <<>>
      BY <2>2, <2>4, StackSplit DEF Matched
    <3>2. seen \in Phrases("value")
      BY <2>4, <3>1, TracksMeans
    <3>3. seen \in Documents
      BY <3>2, ValuesAre, ParserAssumption DEF Documents
    <3> QED BY <2>4, <3>3 DEF Matched
  <2> QED BY <2>2, <2>3, <2>4
<1>4. Unanswered'
  BY <1>1 DEF Unanswered
<1> QED BY <1>1, <1>2, <1>3, <1>4

LEMMA InitGInv == Init => GInv
<1> SUFFICES ASSUME Init PROVE GInv
  OBVIOUS
<1>1. state_stack = Append(<<>>, "start") /\ seen = <<>>
  BY DEF Init
<1>2. Tracks(state_stack, seen)
  BY <1>1, TracksNothing
<1>3. Top = "start"
  BY DEF Init, Top
<1>4. Matched
  BY <1>2, <1>3 DEF Matched, Failed, Init, SyntaxErrors
<1>5. Len(seen) <= MaxTokens
  BY <1>1, ParserAssumption
<1> QED BY <1>4, <1>5, InitIInv DEF GInv, Init, Unanswered, FinishMeansDocument, NoReturn

LEMMA NextGInv == GInv /\ [Next]_vars => GInv'
<1> SUFFICES ASSUME GInv, [Next]_vars PROVE GInv'
  OBVIOUS
<1>0. IInv'
  BY NextIInv DEF GInv
<1>1. ASSUME NEW who, NEW empty, Start(who, empty) PROVE GInv'
  <2>1. Matched' /\ Len(seen') <= MaxTokens
    BY <1>1, MatchedUntouched DEF GInv, Start, history
  <2> QED BY <1>0, <1>1, <2>1 DEF GInv, Start, Unanswered, FinishMeansDocument, NoReturn
<1>2. ASSUME NEW option, Config(option) PROVE GInv'
  <2>1. Matched' /\ Len(seen') <= MaxTokens
    BY <1>2, MatchedUntouched DEF GInv, Config, history
  <2> QED BY <1>0, <1>2, <2>1 DEF GInv, Config, Unanswered, FinishMeansDocument, NoReturn
<1>3. CASE NextValue
  <2>1. Matched'
    BY <1>3, NextValueMatches DEF GInv
  <2>2. Unanswered' /\ FinishMeansDocument'
    BY <1>3, QuietAnswers DEF GInv, NextValue, Quiet
  <2>3. Len(seen') <= MaxTokens
    BY <1>3, ParserAssumption DEF NextValue
  <2> QED BY <1>0, <2>1, <2>2, <2>3 DEF GInv
<1>4. CASE Done \/ Refuse
  <2>1. Matched' /\ Len(seen') <= MaxTokens
    BY <1>4, MatchedUntouched DEF GInv, Done, Refuse, history
  <2>2. InParse /\ Quiet
    BY <1>4 DEF Done, Refuse, Quiet, Status
  <2>3. Unanswered' /\ FinishMeansDocument'
    BY <2>2, QuietAnswers DEF GInv
  <2> QED BY <1>0, <2>1, <2>3 DEF GInv
<1>5. CASE DoFinish
  BY <1>5, DoFinishMatches
<1>6. ASSUME NEW call \in Lexed, Take(call) PROVE GInv'
  BY <1>6, TakeMatches
<1>7. CASE UNCHANGED vars
  <2>1. Matched' /\ Len(seen') <= MaxTokens
    BY <1>7, MatchedUntouched DEF GInv, vars, history
  <2> QED BY <1>0, <1>7, <2>1 DEF GInv, vars, history, Unanswered, FinishMeansDocument
<1> QED BY <1>1, <1>2, <1>3, <1>4, <1>5, <1>6, <1>7 DEF Next, Step, Parse, Finish, Tokenless

(* Words that are tracked begin a document; words that fail do not. *)
LEMMA TrackedExactly ==
  ASSUME GInv
  PROVE  ErrorsAreExact
<1> USE DEF GInv
<1>1. seen \in Viable <=> seen \in Openings("value")
  BY BeginningsAre, ParserAssumption DEF Viable
<1>2. ASSUME ~Failed PROVE seen \in Openings("value")
  <2>1. Tracks(Append(Below, Top), seen) /\ Below \in Seq(Stages) /\ Top \in Stages
    BY <1>2, StackSplit DEF Matched
  <2> QED BY <2>1, TracksMeans
<1>3. parse_error \in SyntaxErrors \/ Top = "lexical_error" => Failed
  BY DEF Matched, Failed
<1>4. parse_error \in SyntaxErrors \/ Top = "lexical_error" => seen \notin Openings("value")
  BY <1>3 DEF Matched
<1> QED BY <1>1, <1>2, <1>4 DEF ErrorsAreExact

(* do_parse() complains of the JSON, as a syntax error or a lexical error,  *)
(* exactly at the first token with which no document goes on: whatever the  *)
(* document, its nesting, the chunks, the options and the callbacks.        *)
THEOREM ErrorsExact == Spec => []ErrorsAreExact
<1>1. GInv => ErrorsAreExact
  BY TrackedExactly
<1> QED BY InitGInv, NextGInv, <1>1, PTL DEF Spec

(* jhn_parser_finish() returns jhn_parser_status_ok, partial values not     *)
(* being allowed, only when every document was parsed to its end and there  *)
(* was at least one.                                                        *)
THEOREM FinishOnDocument == Spec => []FinishMeansDocument
<1>1. GInv => FinishMeansDocument
  BY DEF GInv
<1> QED BY InitGInv, NextGInv, <1>1, PTL DEF Spec
=============================================================================
