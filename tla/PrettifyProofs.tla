--------------------------- MODULE PrettifyProofs ---------------------------
(***************************************************************************)
(* Proofs about the composition of parser and generator in example.c, for  *)
(* every depth of the generator, every document and every chunking: until  *)
(* the nesting is too deep, state[] of the generator follows the state     *)
(* stack of the parser cell by cell.                                       *)
(***************************************************************************)
EXTENDS Prettify, ParserProofs

-----------------------------------------------------------------------------
(* What the generator's cell is when the parser is in state s on the same   *)
(* level, and the separator the parser has read and the generator has not   *)
(* printed yet.                                                             *)
CellFor(s) ==
  IF s = "start" THEN "start"
  ELSE IF s = "parse_complete" THEN "complete"
  ELSE IF s = "map_start" THEN "map_start"
  ELSE IF s \in {"map_sep", "map_need_val"} THEN "map_val"
  ELSE IF s \in {"map_got_val", "map_need_key"} THEN "map_key"
  ELSE IF s = "array_start" THEN "array_start"
  ELSE "in_array"

Pending(s) ==
  IF s \in {"map_need_key", "array_need_val"} THEN <<"comma">>
  ELSE IF s = "map_need_val" THEN <<"colon">>
  ELSE <<>>

(* On a level that waits for a container inside it to be closed, the parser *)
(* has moved on when the container began, the generator moves on when it    *)
(* ends.                                                                    *)
LevelsAgree ==
  /\ depth = Len(open) /\ Len(open) <= deepest /\ deepest < JHN_MAX_DEPTH
  /\ state \in [0..(JHN_MAX_DEPTH - 1) -> G!States]
  /\ \A i \in 0..(Len(open) - 1) : G!Appended(state[i]) = CellFor(state_stack[i + 1])

TopAgrees ==
  /\ Top # "got_value" /\ state[depth] = CellFor(Top)
  /\ seen = printed \o Pending(Top)
  /\ Pending(Top) = <<>> => Known(seen) = seen

PrintedBeforeError == printed \in {Known(seen), Known(BeforeLast(seen))}

Agree ==
  /\ status = "ok" /\ printed \in Seq(Words)
  /\ LevelsAgree
  /\ IF Failed THEN PrintedBeforeError ELSE TopAgrees

(* The example leaves the options alone that would let the parser read more *)
(* than one document or less.                                               *)
Settings ==
  /\ flags \subseteq {"jhn_allow_comments"}
  /\ pc # "idle" => returned = NoReturn
  /\ deepest \in Nat /\ refused \in BOOLEAN

Finished == returned = <<"finish", "ok">> /\ ~refused => state[0] = "complete"

PrettyInv ==
  /\ IInv /\ Settings /\ Finished
  /\ IF refused THEN deepest >= JHN_MAX_DEPTH ELSE Agree
-----------------------------------------------------------------------------
(* Last words.                                                             *)

LEMMA LastWord ==
  ASSUME NEW words \in Seq(Words), NEW w \in Words, NEW longer, longer = Append(words, w)
  PROVE  /\ longer \in Seq(Words) /\ longer # <<>>
         /\ BeforeLast(longer) = words
         /\ w \in {"comma", "colon"} => Known(longer) = words
         /\ w \notin {"comma", "colon"} => Known(longer) = longer
<1>1. /\ longer \in Seq(Words) /\ Len(longer) = Len(words) + 1
      /\ longer[Len(longer)] = w /\ Len(words) \in Nat
  BY AppendProperties, LenProperties
<1>2. longer # <<>>
  BY <1>1, EmptySeq
<1>3. SubSeq(longer, 1, Len(longer) - 1) = words
  <2>1. \A i \in 1..Len(words) : longer[i] = words[i] /\ longer[i] \in Words
    BY AppendProperties, ElementOfSeq
  <2>2. /\ SubSeq(longer, 1, Len(words)) \in Seq(Words)
        /\ Len(SubSeq(longer, 1, Len(words))) = Len(words)
        /\ \A i \in 1..Len(words) : SubSeq(longer, 1, Len(words))[i] = longer[i]
    BY <1>1, <2>1, SubSeqProperties
  <2>3. SubSeq(longer, 1, Len(words)) = words
    BY <2>1, <2>2, SeqEqual
  <2>4. Len(longer) - 1 = Len(words)
    BY <1>1
  <2> QED BY <2>3, <2>4
<1> QED BY <1>1, <1>2, <1>3 DEF BeforeLast, Known

(* What the generator prints for a token is what the parser has read and    *)
(* the generator has not printed yet.                                       *)
LEMMA SameWords ==
  ASSUME NEW words \in Seq(Words), NEW w \in Words, NEW pending \in Seq(Words)
  PROVE  /\ words \o pending \o <<w>> \in Seq(Words)
         /\ Append(words \o pending, w) = words \o pending \o <<w>>
         /\ words \o <<>> = words
<1>1. words \o pending \in Seq(Words) /\ <<w>> \in Seq(Words)
  BY ConcatProperties
<1> QED BY <1>1, ConcatProperties, AppendIsConcat, ConcatEmptySeq
-----------------------------------------------------------------------------
(* What the generator answers and does in the cell that corresponds to the  *)
(* parser's state: where the parser reads a value the generator takes one,  *)
(* where it reads a key, a string.                                          *)

LEMMA ValueCell ==
  ASSUME NEW s \in ValueStates, s # "got_value"
  PROVE  /\ G!NotKey(CellFor(s)) = "ok" /\ G!Valid(CellFor(s)) = "ok"
         /\ G!Separator(CellFor(s)) = Pending(s)
         /\ G!Appended(CellFor(s)) = CellFor(Advance(s))
         /\ Pending(Advance(s)) = <<>>
         /\ Advance(s) \in {"parse_complete", "map_got_val", "array_got_val"}
         /\ CellFor(Advance(s)) \in G!States
<1> USE DEF G!NotKey, G!Valid, G!Separator, G!Appended, CellFor, Pending, Advance, G!States
<1>1. CASE s = "start"
  BY <1>1
<1>2. CASE s = "map_need_val"
  BY <1>2
<1>3. CASE s = "array_need_val"
  BY <1>3
<1>4. CASE s = "array_start"
  BY <1>4
<1> QED BY <1>1, <1>2, <1>3, <1>4 DEF ValueStates

LEMMA KeyCell ==
  ASSUME NEW s \in {"map_start", "map_need_key"}
  PROVE  /\ G!Valid(CellFor(s)) = "ok"
         /\ G!Separator(CellFor(s)) = Pending(s)
         /\ G!Appended(CellFor(s)) = CellFor("map_sep")
         /\ Pending("map_sep") = <<>> /\ CellFor("map_sep") \in G!States
BY DEF G!Valid, G!Separator, G!Appended, CellFor, Pending, G!States

LEMMA EndCell ==
  ASSUME NEW s \in {"map_start", "map_got_val", "array_start", "array_got_val"}
  PROVE  G!Valid(CellFor(s)) = "ok" /\ Pending(s) = <<>>
BY DEF G!Valid, CellFor, Pending

LEMMA PendingType == \A s : Pending(s) \in Seq(Words)
<1>1. "comma" \in Words /\ "colon" \in Words
  BY DEF Words, Punctuation
<1> QED BY <1>1 DEF Pending

-----------------------------------------------------------------------------
(* What a turn of the parser can do when the callbacks never cancel.        *)

Strings == {"string", "string_with_escapes"}
Scalars == {"bool", "null", "integer", "double"}

ReadsNothing(call) == call.tok = "eof" /\ UNCHANGED <<state_stack, open>>

Fails(call) ==
  /\ call.tok # "eof" /\ UNCHANGED open
  /\ \E s \in {"parse_error", "lexical_error"} : state_stack' = SetTop(s)

TakesValue(call) ==
  /\ call.tok \in Strings \cup Scalars /\ Top \in ValueStates
  /\ state_stack' = SetTop(Advance(Top)) /\ UNCHANGED open

TakesKey(call) ==
  /\ call.tok \in Strings /\ Top \in {"map_start", "map_need_key"}
  /\ state_stack' = SetTop("map_sep") /\ UNCHANGED open

Begins(call, container) ==
  call.tok = G!Opener(container) /\ Top \in ValueStates /\ Open(container)

Ends(call, container) ==
  /\ call.tok = G!Closer(container)
  /\ Top \in IF container = "map" THEN {"map_start", "map_got_val"}
             ELSE {"array_start", "array_got_val"}
  /\ Close

Punctuates(call, from, to) ==
  /\ call.tok = IF from = "map_sep" THEN "colon" ELSE "comma"
  /\ Top = from /\ state_stack' = SetTop(to) /\ UNCHANGED open

TakesMark(call) ==
  \/ Punctuates(call, "map_sep", "map_need_val")
  \/ Punctuates(call, "map_got_val", "map_need_key")
  \/ Punctuates(call, "array_got_val", "array_need_val")

LEMMA PunctuatedTurn ==
  ASSUME NEW call, parse_error' # "client cancelled",
         NEW from, from \notin {"parse_error", "lexical_error"}, NEW mark, NEW to,
         NEW closer, NEW callback, NEW message,
         Punctuated(call, from, mark, to, closer, callback, message)
  PROVE  /\ Lex(call) /\ InParse /\ ~Failed
         /\ UNCHANGED <<pc, returned>> \/ Return("ok")
         /\ \/ ReadsNothing(call) \/ Fails(call)
            \/ call.tok = mark /\ Top = from /\ state_stack' = SetTop(to) /\ UNCHANGED open
            \/ call.tok = closer /\ Top = from /\ Close
<1>1. Lex(call) /\ InParse /\ Top = from /\ ~Failed
  BY Working DEF Punctuated
<1>2. \/ call.tok = "eof" /\ EndOfInput
      \/ /\ call.tok # "eof"
         /\ \E s \in {"parse_error", "lexical_error"} : \E reason : FailWith(s, reason)
      \/ call.tok = mark /\ state_stack' = SetTop(to) /\ Again /\ UNCHANGED open
      \/ call.tok = closer /\ Close
  BY DEF Punctuated, LexFail, Cancel
<1>3. CASE call.tok = "eof" /\ EndOfInput
  BY <1>1, <1>3 DEF EndOfInput, ReadsNothing
<1> QED BY <1>1, <1>2, <1>3 DEF FailWith, Fails, Again, Close

LEMMA Turns ==
  ASSUME IInv, NEW call \in Lexed, Take(call), parse_error' # "client cancelled"
  PROVE  /\ call.tok \in Tokens /\ Lex(call) /\ InParse /\ ~Failed
         /\ UNCHANGED <<pc, returned>> \/ Return("ok")
         /\ \/ ReadsNothing(call) \/ Fails(call) \/ TakesValue(call) \/ TakesKey(call)
            \/ \E container \in Containers : Begins(call, container) \/ Ends(call, container)
            \/ TakesMark(call)
<1>1. call.tok \in Tokens
  BY LexedType DEF IInv, LexReturns
<1>2. \A callback : ~Cancel(callback)
  BY DEF Cancel
<1>3. \A s \in {"parse_error", "lexical_error"} : \A message :
        FailWith(s, message) /\ call.tok # "eof" => Fails(call) /\ UNCHANGED <<pc, returned>>
  BY DEF FailWith, Fails, Again
<1>4. "map" \in Containers /\ "array" \in Containers
  BY DEF Containers
<1>5. EndOfInput /\ call.tok = "eof" => ReadsNothing(call) /\ Return("ok")
  BY DEF EndOfInput, ReadsNothing
<1>6. LexFail => FailWith("lexical_error", parse_error)
  BY DEF LexFail
<1>7. CASE Trailing(call)
  <2>1. Lex(call) /\ InParse /\ ~Failed
    BY <1>7, Working DEF Trailing
  <2>2. CASE call.tok = "eof"
    BY <1>1, <1>7, <2>1, <2>2 DEF Trailing, ReadsNothing, Again
  <2>3. CASE call.tok # "eof"
    BY <1>1, <1>3, <1>7, <2>1, <2>3 DEF Trailing
  <2> QED BY <2>2, <2>3
<1>8. CASE Value(call)
  <2>1. Lex(call) /\ InParse /\ Top \in ValueStates /\ ~Failed
    BY <1>8, Working DEF Value, ValueStates
  <2>2. \/ call.tok = "eof" /\ EndOfInput
        \/ call.tok # "eof" /\ \E s \in {"parse_error", "lexical_error"} : \E message : FailWith(s, message)
        \/ call.tok \in Strings \cup Scalars /\ Scalar
        \/ call.tok = "left_bracket" /\ Open("map")
        \/ call.tok = "left_brace" /\ Open("array")
        \/ call.tok = "right_brace" /\ Top = "array_start" /\ Close
    BY <1>1, <1>2, <1>6, <1>8 DEF Value, Overflow, EndsEmptyArray, Strings, Scalars, Tokens
  <2>3. CASE call.tok \in Strings \cup Scalars /\ Scalar
    <3>1. TakesValue(call) /\ UNCHANGED <<pc, returned>>
      BY <2>1, <2>3 DEF TakesValue, Scalar, Again
    <3> QED BY <1>1, <2>1, <3>1
  <2>4. CASE call.tok = "left_bracket" /\ Open("map")
    <3>1. Begins(call, "map") /\ UNCHANGED <<pc, returned>>
      BY <2>1, <2>4 DEF Begins, G!Opener, Open, Again
    <3> QED BY <1>1, <1>4, <2>1, <3>1
  <2>5. CASE call.tok = "left_brace" /\ Open("array")
    <3>1. Begins(call, "array") /\ UNCHANGED <<pc, returned>>
      BY <2>1, <2>5 DEF Begins, G!Opener, Open, Again
    <3> QED BY <1>1, <1>4, <2>1, <3>1
  <2>6. CASE call.tok = "right_brace" /\ Top = "array_start" /\ Close
    <3>1. Ends(call, "array") /\ UNCHANGED <<pc, returned>>
      BY <2>1, <2>6 DEF Ends, G!Closer, Close, Again
    <3> QED BY <1>1, <1>4, <2>1, <3>1
  <2> QED BY <1>1, <1>3, <1>5, <2>1, <2>2, <2>3, <2>4, <2>5, <2>6
<1>9. CASE Key(call)
  <2>1. Lex(call) /\ InParse /\ Top \in {"map_start", "map_need_key"} /\ ~Failed
    BY <1>9, Working DEF Key
  <2>2. \/ call.tok = "eof" /\ EndOfInput
        \/ call.tok # "eof" /\ \E s \in {"parse_error", "lexical_error"} : \E message : FailWith(s, message)
        \/ call.tok \in Strings /\ state_stack' = SetTop("map_sep") /\ Again /\ UNCHANGED open
        \/ call.tok = "right_bracket" /\ Top = "map_start" /\ Close
    BY <1>1, <1>2, <1>6, <1>9 DEF Key, EndsEmptyMap, Strings
  <2>3. CASE call.tok \in Strings /\ state_stack' = SetTop("map_sep") /\ Again /\ UNCHANGED open
    <3>1. TakesKey(call) /\ UNCHANGED <<pc, returned>>
      BY <2>1, <2>3 DEF TakesKey, Again
    <3> QED BY <1>1, <2>1, <3>1
  <2>4. CASE call.tok = "right_bracket" /\ Top = "map_start" /\ Close
    <3>1. Ends(call, "map") /\ UNCHANGED <<pc, returned>>
      BY <2>1, <2>4 DEF Ends, G!Closer, Close, Again
    <3> QED BY <1>1, <1>4, <2>1, <3>1
  <2> QED BY <1>1, <1>3, <1>5, <2>1, <2>2, <2>3, <2>4
<1>10. CASE MapSep(call)
  <2>1. /\ Lex(call) /\ InParse /\ ~Failed
        /\ UNCHANGED <<pc, returned>> \/ Return("ok")
        /\ \/ ReadsNothing(call) \/ Fails(call)
           \/ /\ call.tok = "colon" /\ Top = "map_sep"
              /\ state_stack' = SetTop("map_need_val") /\ UNCHANGED open
           \/ call.tok = "none" /\ Top = "map_sep" /\ Close
    <3>1. Punctuated(call, "map_sep", "colon", "map_need_val", "none", "none", "no colon")
      BY <1>10 DEF MapSep
    <3> QED BY <3>1, PunctuatedTurn
  <2> QED BY <1>1, <2>1 DEF Punctuates, TakesMark, Tokens
<1>11. CASE MapGotVal(call)
  <2>1. /\ Lex(call) /\ InParse /\ ~Failed
        /\ UNCHANGED <<pc, returned>> \/ Return("ok")
        /\ \/ ReadsNothing(call) \/ Fails(call)
           \/ /\ call.tok = "comma" /\ Top = "map_got_val"
              /\ state_stack' = SetTop("map_need_key") /\ UNCHANGED open
           \/ call.tok = "right_bracket" /\ Top = "map_got_val" /\ Close
    <3>1. Punctuated(call, "map_got_val", "comma", "map_need_key",
                  "right_bracket", "jhn_end_map", "after map value")
      BY <1>11 DEF MapGotVal
    <3> QED BY <3>1, PunctuatedTurn
  <2>2. /\ \/ ReadsNothing(call) \/ Fails(call)
           \/ Punctuates(call, "map_got_val", "map_need_key")
           \/ Ends(call, "map")
    BY <2>1 DEF Punctuates, Ends, G!Closer
  <2> QED BY <1>1, <1>4, <2>1, <2>2 DEF TakesMark
<1>12. CASE ArrayGotVal(call)
  <2>1. /\ Lex(call) /\ InParse /\ ~Failed
        /\ UNCHANGED <<pc, returned>> \/ Return("ok")
        /\ \/ ReadsNothing(call) \/ Fails(call)
           \/ /\ call.tok = "comma" /\ Top = "array_got_val"
              /\ state_stack' = SetTop("array_need_val") /\ UNCHANGED open
           \/ call.tok = "right_brace" /\ Top = "array_got_val" /\ Close
    <3>1. Punctuated(call, "array_got_val", "comma", "array_need_val",
                  "right_brace", "jhn_end_array", "after array element")
      BY <1>12 DEF ArrayGotVal
    <3> QED BY <3>1, PunctuatedTurn
  <2>2. /\ \/ ReadsNothing(call) \/ Fails(call)
           \/ Punctuates(call, "array_got_val", "array_need_val")
           \/ Ends(call, "array")
    BY <2>1 DEF Punctuates, Ends, G!Closer
  <2> QED BY <1>1, <1>4, <2>1, <2>2 DEF TakesMark
<1> QED BY <1>7, <1>8, <1>9, <1>10, <1>11, <1>12 DEF Take
-----------------------------------------------------------------------------
(* The call of the generator that a callback makes, in a known cell.        *)

LEMMA Cell ==
  ASSUME IInv, Settings, LevelsAgree
  PROVE  /\ Len(open) \in Nat /\ depth \in 0..(JHN_MAX_DEPTH - 1) /\ depth < JHN_MAX_DEPTH
         /\ state[depth] \in G!States
         /\ G!Here = {state[depth]}
         /\ \A g : G!Store(depth, g) = [state EXCEPT ![depth] = g]
<1>1. Len(open) \in Nat
  BY StackDepth DEF IInv
<1>2. depth \in 0..(JHN_MAX_DEPTH - 1) /\ depth < JHN_MAX_DEPTH
  <2>1. depth = Len(open) /\ depth <= deepest /\ deepest < JHN_MAX_DEPTH
    BY DEF LevelsAgree
  <2>2. deepest \in Nat
    BY DEF Settings
  <2> QED BY <1>1, <2>1, <2>2, DepthAssumption
<1> QED BY <1>1, <1>2 DEF LevelsAgree, G!Here, G!Store
(* The state stack where only its top changes, and where it grows.         *)
LEMMA TopReplaced ==
  ASSUME IInv, NEW s \in States, state_stack' = SetTop(s)
  PROVE  /\ Top' = s
         /\ \A i \in 0..(Len(open) - 1) : state_stack'[i + 1] = state_stack[i + 1]
<1>1. /\ Len(state_stack) \in Nat /\ Len(open) \in Nat
      /\ Len(state_stack) = Len(open) + 1
  BY StackDepth DEF IInv
<1>2. \A j \in 1..Len(state_stack) :
        state_stack'[j] = IF j = Len(state_stack) THEN s ELSE state_stack[j]
  BY <1>1, ExceptSeq DEF SetTop, IInv, TypeOK
<1> QED BY <1>1, <1>2, TopSet

LEMMA LevelPushed ==
  ASSUME IInv, NEW container \in Containers, Open(container)
  PROVE  /\ Top' = IF container = "map" THEN "map_start" ELSE "array_start"
         /\ Len(open') = Len(open) + 1
         /\ state_stack'[Len(open) + 1] = Advance(Top)
         /\ \A i \in 0..(Len(open) - 1) : state_stack'[i + 1] = state_stack[i + 1]
<1> DEFINE n == Len(state_stack)
           below == SetTop(Advance(Top))
           s == IF container = "map" THEN "map_start" ELSE "array_start"
<1>1. n \in Nat /\ Len(open) \in Nat /\ n = Len(open) + 1
  BY StackDepth DEF IInv
<1>2. Advance(Top) \in States /\ s \in States
  BY DEF Advance, States
<1>3. /\ below \in Seq(States) /\ Len(below) = n
      /\ \A j \in 1..n : below[j] = IF j = n THEN Advance(Top) ELSE state_stack[j]
  BY <1>1, <1>2, ExceptSeq DEF SetTop, IInv, TypeOK
<1>4. state_stack' = Append(below, s) /\ open' = Append(open, container)
  BY DEF Open
<1> HIDE DEF below, s
<1>5. /\ Len(state_stack') = n + 1 /\ state_stack'[n + 1] = s
      /\ \A j \in 1..n : state_stack'[j] = below[j]
  BY <1>2, <1>3, <1>4, AppendProperties
<1>6. Len(open') = Len(open) + 1
  BY <1>4, AppendProperties DEF IInv, TypeOK
<1> HIDE DEF n
<1>7. Top' = s
  BY <1>1, <1>5 DEF Top
<1>8. state_stack'[n] = Advance(Top)
  BY <1>1, <1>3, <1>5
<1>9. \A i \in 0..(Len(open) - 1) : state_stack'[i + 1] = state_stack[i + 1]
  BY <1>1, <1>3, <1>5
<1> QED BY <1>1, <1>6, <1>7, <1>8, <1>9 DEF s

LEMMA LevelPopped ==
  ASSUME IInv, ~Failed, Top \in {"map_start", "map_got_val", "array_start", "array_got_val"},
         Close
  PROVE  /\ Len(open) \in Nat /\ Len(open) > 0 /\ Len(open') = Len(open) - 1
         /\ Top' = state_stack[Len(open)]
         /\ Top' \in {"parse_complete", "map_got_val", "array_got_val"}
         /\ \A i \in 0..(Len(open') - 1) : state_stack'[i + 1] = state_stack[i + 1]
<1> DEFINE n == Len(open)
<1>1. n \in Nat /\ Len(state_stack) = n + 1
  BY StackDepth DEF IInv
<1>2. open # <<>> /\ n > 0
  <2>1. open # <<>>
    BY DEF IInv, StackMirrorsNesting
  <2> QED BY <1>1, <2>1, EmptySeq DEF IInv, TypeOK
<1>3. /\ Len(state_stack') = n
      /\ \A j \in 1..n : state_stack'[j] = state_stack[j]
  <2>1. \A j \in 1..n : state_stack[j] \in States
    BY <1>1, ElementOfSeq DEF IInv, TypeOK
  <2>2. state_stack' = SubSeq(state_stack, 1, n)
    BY <1>1 DEF Close, Below
  <2> HIDE DEF n
  <2> QED BY <1>1, <2>1, <2>2, SubSeqProperties
<1>4. Len(open') = n - 1
  <2>1. StackMirrorsNesting'
    BY <1>2, CloseShape DEF IInv
  <2>2. open' \in Seq(Containers)
    BY <1>2, CloseShape DEF IInv
  <2>3. Len(state_stack') = Len(open') + 1 /\ Len(open') \in Nat
    BY <2>1, <2>2, LenProperties DEF StackMirrorsNesting
  <2> HIDE DEF n
  <2> QED BY <1>1, <1>3, <2>3
<1>5. Top' = state_stack[n]
  <2> HIDE DEF n
  <2> QED BY <1>1, <1>2, <1>3 DEF Top
<1>6. state_stack[n] \in {"parse_complete", "map_got_val", "array_got_val"}
  <2>1. CASE n = 1
    BY <1>2, <2>1 DEF IInv, StackMirrorsNesting
  <2>2. CASE n > 1
    <3>1. \A i \in 1..(n - 1) : state_stack[i + 1] = WaitsIn(open[i])
      BY DEF IInv, StackMirrorsNesting
    <3>2. n - 1 \in 1..(n - 1) /\ (n - 1) + 1 = n
      <4> HIDE DEF n
      <4> QED BY <1>1, <2>2
    <3>3. state_stack[n] = WaitsIn(open[n - 1])
      BY <3>1, <3>2
    <3> QED BY <3>3 DEF WaitsIn
  <2> HIDE DEF n
  <2> QED BY <1>1, <1>2, <2>1, <2>2
<1>7. \A i \in 0..(Len(open') - 1) : state_stack'[i + 1] = state_stack[i + 1]
  <2> HIDE DEF n
  <2> QED BY <1>1, <1>3, <1>4
<1> QED BY <1>1, <1>2, <1>4, <1>5, <1>6, <1>7

-----------------------------------------------------------------------------
(* What a token does to both books.                                        *)

(* The parser moves on on the innermost level, and the generator, if at all. *)
LEMMA LevelsKept ==
  ASSUME IInv, Settings, LevelsAgree, NEW s \in States, state_stack' = SetTop(s),
         UNCHANGED <<open, depth, deepest>>,
         state' \in [0..(JHN_MAX_DEPTH - 1) -> G!States],
         \A i \in 0..(Len(open) - 1) : state'[i] = state[i]
  PROVE  LevelsAgree' /\ Top' = s
BY TopReplaced DEF LevelsAgree

LEMMA WordPrinted ==
  ASSUME IInv, Settings, Agree, ~Failed, UNCHANGED <<open, deepest>>,
         NEW s \in States \ {"parse_error", "lexical_error", "got_value"},
         state_stack' = SetTop(s),
         NEW word \in {"scalar", "string"}, seen' = Append(seen, word),
         G!Append1(word, state[depth]),
         G!Separator(CellFor(Top)) = Pending(Top), G!Appended(CellFor(Top)) = CellFor(s),
         CellFor(s) \in G!States, Pending(s) = <<>>
  PROVE  Agree'
<1>1. /\ status = "ok" /\ printed \in Seq(Words) /\ LevelsAgree /\ TopAgrees
      /\ depth \in 0..(JHN_MAX_DEPTH - 1) /\ depth = Len(open) /\ Len(open) \in Nat
      /\ \A g : G!Store(depth, g) = [state EXCEPT ![depth] = g]
  BY Cell DEF Agree, LevelsAgree
<1>2. /\ state' = [state EXCEPT ![depth] = CellFor(s)]
      /\ printed' = printed \o Pending(Top) \o <<word>>
      /\ status' = "ok" /\ depth' = depth
  BY <1>1 DEF TopAgrees, G!Append1
<1>3. /\ state' \in [0..(JHN_MAX_DEPTH - 1) -> G!States]
      /\ state'[depth] = CellFor(s)
      /\ \A i \in 0..(Len(open) - 1) : state'[i] = state[i]
  BY <1>1, <1>2 DEF LevelsAgree
<1>4. LevelsAgree' /\ Top' = s
  BY <1>1, <1>2, <1>3, LevelsKept
<1>5. word \in Words /\ word \notin {"comma", "colon"}
  BY DEF Words
<1>6. seen = printed \o Pending(Top) /\ seen \in Seq(Words)
  BY <1>1 DEF TopAgrees, IInv, TypeOK
<1>7. seen' = printed' /\ printed' \in Seq(Words)
  <2>1. Append(printed \o Pending(Top), word) = printed \o Pending(Top) \o <<word>>
    BY <1>1, <1>5, PendingType, SameWords
  <2>2. printed \o Pending(Top) \o <<word>> \in Seq(Words)
    BY <1>1, <1>5, PendingType, SameWords
  <2> QED BY <1>2, <1>6, <2>1, <2>2
<1>8. Known(seen') = seen'
  BY <1>5, <1>6, LastWord
<1>9. printed' \o <<>> = printed'
  BY <1>7, ConcatEmptySeq
<1>10. TopAgrees'
  BY <1>2, <1>3, <1>4, <1>7, <1>8, <1>9 DEF TopAgrees, Known
<1>11. ~Failed'
  BY <1>4 DEF Failed
<1> QED BY <1>2, <1>4, <1>7, <1>10, <1>11 DEF Agree
(* A container begins, unless the generator finds itself too deep. *)
LEMMA ContainerBegun ==
  ASSUME IInv, Settings, Agree, ~Failed, Top \in ValueStates,
         NEW container \in Containers, Open(container), G!OpenContainer(container),
         seen' = Append(seen, G!Opener(container)),
         deepest' = IF Len(open') > deepest THEN Len(open') ELSE deepest
  PROVE  IF status' = "ok" THEN Agree' ELSE deepest' >= JHN_MAX_DEPTH
<1> DEFINE first == IF container = "map" THEN "map_start" ELSE "array_start"
<1>1. /\ status = "ok" /\ printed \in Seq(Words) /\ LevelsAgree /\ TopAgrees
      /\ depth \in 0..(JHN_MAX_DEPTH - 1) /\ depth = Len(open) /\ Len(open) \in Nat
      /\ G!Here = {state[depth]} /\ state[depth] = CellFor(Top)
      /\ deepest \in Nat /\ Len(open) <= deepest /\ deepest < JHN_MAX_DEPTH
      /\ state \in [0..(JHN_MAX_DEPTH - 1) -> G!States]
  BY Cell DEF Agree, LevelsAgree, TopAgrees, Settings
<1>2. /\ G!NotKey(state[depth]) = "ok" /\ G!Separator(state[depth]) = Pending(Top)
      /\ G!Appended(state[depth]) = CellFor(Advance(Top))
  BY <1>1, ValueCell DEF TopAgrees
<1>3. G!Incremented = depth + 1
  BY <1>1, DepthAssumption DEF G!Incremented
<1>4. /\ depth' = depth + 1
      /\ IF depth + 1 >= JHN_MAX_DEPTH THEN status' = "max_depth_exceeded"
         ELSE /\ printed' = printed \o Pending(Top) \o <<G!Opener(container)>>
              /\ state' = G!Store(depth + 1, first)
              /\ status' = "ok"
  BY <1>1, <1>2, <1>3 DEF G!OpenContainer, G!TooDeep
<1>5. /\ Top' = first
      /\ Len(open') = Len(open) + 1
      /\ state_stack'[Len(open) + 1] = Advance(Top)
      /\ \A i \in 0..(Len(open) - 1) : state_stack'[i + 1] = state_stack[i + 1]
  BY LevelPushed
<1>6. CASE depth + 1 >= JHN_MAX_DEPTH
  <2>1. deepest' >= JHN_MAX_DEPTH
    BY <1>1, <1>5, <1>6, DepthAssumption
  <2>2. status' # "ok"
    BY <1>4, <1>6
  <2> QED BY <2>1, <2>2
<1>7. CASE ~(depth + 1 >= JHN_MAX_DEPTH)
  <2>1. /\ depth + 1 \in 0..(JHN_MAX_DEPTH - 1) /\ depth + 1 < JHN_MAX_DEPTH
        /\ deepest' < JHN_MAX_DEPTH /\ Len(open') <= deepest'
    BY <1>1, <1>5, <1>7, DepthAssumption
  <2>2. /\ first \in G!States /\ first = CellFor(first) /\ Pending(first) = <<>>
        /\ first # "got_value" /\ first \notin {"parse_error", "lexical_error"}
    BY DEF G!States, CellFor, Pending
  <2>3. state' = [state EXCEPT ![depth + 1] = first]
    BY <1>4, <1>7, <2>1 DEF G!Store
  <2> HIDE DEF first
  <2>4. /\ state' \in [0..(JHN_MAX_DEPTH - 1) -> G!States]
        /\ state'[depth + 1] = first
        /\ \A i \in 0..depth : state'[i] = state[i]
    BY <1>1, <2>1, <2>2, <2>3
  <2>5. LevelsAgree'
    <3>1. ASSUME NEW i \in 0..(Len(open') - 1)
          PROVE  G!Appended(state'[i]) = CellFor(state_stack'[i + 1])
      <4>1. CASE i = depth
        BY <1>1, <1>2, <1>5, <2>4, <4>1
      <4>2. CASE i # depth
        <5>1. i \in 0..(Len(open) - 1) /\ i \in 0..depth
          BY <1>1, <1>5, <4>2
        <5> QED BY <1>1, <1>5, <2>4, <5>1 DEF LevelsAgree
      <4> QED BY <4>1, <4>2
    <3> QED BY <1>1, <1>4, <1>5, <2>1, <2>4, <3>1 DEF LevelsAgree, G!Appended
  <2>6. /\ G!Opener(container) \in Words
        /\ G!Opener(container) \notin {"comma", "colon"}
    BY DEF Words, Punctuation, G!Opener
  <2>7. seen = printed \o Pending(Top) /\ seen \in Seq(Words)
    BY <1>1 DEF TopAgrees, IInv, TypeOK
  <2>8. seen' = printed' /\ printed' \in Seq(Words)
    <3>1. /\ Append(printed \o Pending(Top), G!Opener(container))
               = printed \o Pending(Top) \o <<G!Opener(container)>>
          /\ printed \o Pending(Top) \o <<G!Opener(container)>> \in Seq(Words)
      BY <1>1, <2>6, PendingType, SameWords
    <3> QED BY <1>4, <1>7, <2>7, <3>1
  <2>9. Known(seen') = seen'
    BY <2>6, <2>7, LastWord
  <2>10. printed' \o <<>> = printed'
    BY <2>8, ConcatEmptySeq
  <2>11. TopAgrees'
    BY <1>4, <1>5, <2>2, <2>4, <2>8, <2>9, <2>10 DEF TopAgrees, Known
  <2>12. ~Failed' /\ status' = "ok"
    BY <1>4, <1>5, <1>7, <2>2 DEF Failed
  <2> QED BY <2>5, <2>8, <2>11, <2>12 DEF Agree
<1> QED BY <1>6, <1>7

(* A container ends: the generator's cell below catches up.                *)
LEMMA ContainerEnded ==
  ASSUME IInv, Settings, Agree, ~Failed, NEW call, NEW container \in Containers,
         Ends(call, container), G!CloseContainer(container),
         seen' = Append(seen, G!Closer(container)),
         deepest' = IF Len(open') > deepest THEN Len(open') ELSE deepest
  PROVE  Agree'
<1>1. /\ status = "ok" /\ printed \in Seq(Words) /\ LevelsAgree /\ TopAgrees
      /\ depth \in 0..(JHN_MAX_DEPTH - 1) /\ depth = Len(open) /\ Len(open) \in Nat
      /\ G!Here = {state[depth]} /\ state[depth] = CellFor(Top)
      /\ deepest \in Nat /\ Len(open) <= deepest /\ deepest < JHN_MAX_DEPTH
      /\ state \in [0..(JHN_MAX_DEPTH - 1) -> G!States]
  BY Cell DEF Agree, LevelsAgree, TopAgrees, Settings
<1>2. Close /\ Top \in {"map_start", "map_got_val", "array_start", "array_got_val"}
  BY DEF Ends
<1>3. G!Valid(state[depth]) = "ok" /\ Pending(Top) = <<>>
  BY <1>1, <1>2, EndCell
<1>4. /\ Len(open) > 0 /\ Len(open') = Len(open) - 1
      /\ Top' = state_stack[Len(open)]
      /\ Top' \in {"parse_complete", "map_got_val", "array_got_val"}
      /\ \A i \in 0..(Len(open') - 1) : state_stack'[i + 1] = state_stack[i + 1]
  BY <1>2, LevelPopped
<1> DEFINE d == depth - 1
<1>5. /\ d \in 0..(JHN_MAX_DEPTH - 1) /\ d < JHN_MAX_DEPTH /\ d \in 0..(Len(open) - 1)
      /\ d + 1 = Len(open) /\ d = Len(open') /\ G!Decremented = d
      /\ deepest' = deepest /\ Len(open') <= deepest
  BY <1>1, <1>4, DepthAssumption DEF G!Decremented
<1>6. /\ depth' = d
      /\ printed' = Append(printed, G!Closer(container))
      /\ state' = [state EXCEPT ![d] = G!Appended(state[d])]
      /\ status' = "ok"
  <2> HIDE DEF d
  <2>1. ~(d >= JHN_MAX_DEPTH)
    BY <1>1, <1>5, DepthAssumption
  <2>2. G!Store(d, G!Appended(state[d])) = [state EXCEPT ![d] = G!Appended(state[d])]
    BY <1>5 DEF G!Store
  <2>3. /\ depth' = d
        /\ printed' = Append(printed, G!Closer(container))
        /\ state' = G!Store(d, G!Appended(state[d]))
        /\ status' = "ok"
    BY <1>1, <1>3, <1>5, <2>1 DEF G!CloseContainer
  <2> QED BY <2>2, <2>3
<1> HIDE DEF d
<1>7. G!Appended(state[d]) = CellFor(Top')
  BY <1>1, <1>4, <1>5 DEF LevelsAgree
<1>8. CellFor(Top') \in G!States /\ Pending(Top') = <<>>
  BY <1>4 DEF CellFor, Pending, G!States
<1>9. /\ state' \in [0..(JHN_MAX_DEPTH - 1) -> G!States]
      /\ state'[d] = CellFor(Top')
      /\ \A i \in 0..(Len(open') - 1) : state'[i] = state[i]
  BY <1>1, <1>5, <1>6, <1>7, <1>8
<1>10. LevelsAgree'
  <2>1. ASSUME NEW i \in 0..(Len(open') - 1)
        PROVE  G!Appended(state'[i]) = CellFor(state_stack'[i + 1])
    <3>1. i \in 0..(Len(open) - 1)
      BY <1>1, <1>4
    <3> QED BY <1>1, <1>4, <1>9, <3>1 DEF LevelsAgree
  <2> QED BY <1>1, <1>5, <1>6, <1>9, <2>1 DEF LevelsAgree, G!Appended
<1>11. /\ G!Closer(container) \in Words
       /\ G!Closer(container) \notin {"comma", "colon"}
  BY DEF Words, Punctuation, G!Closer
<1>12. seen = printed
  BY <1>1, <1>3, ConcatEmptySeq DEF TopAgrees
<1>13. seen' = printed' /\ printed' \in Seq(Words) /\ Known(seen') = seen'
  BY <1>1, <1>6, <1>11, <1>12, LastWord
<1>14. printed' \o <<>> = printed'
  BY <1>13, ConcatEmptySeq
<1>15. TopAgrees'
  BY <1>4, <1>6, <1>8, <1>9, <1>13, <1>14 DEF TopAgrees, Known, CellFor, Pending
<1>16. ~Failed'
  BY <1>4 DEF Failed
<1> QED BY <1>6, <1>10, <1>13, <1>15, <1>16 DEF Agree
-----------------------------------------------------------------------------
(* Tokens the generator hears nothing of.                                  *)

LEMMA KnownIsPrinted ==
  ASSUME IInv, printed \in Seq(Words), TopAgrees
  PROVE  Known(seen) = printed
<1>1. seen = printed \o Pending(Top)
  BY DEF TopAgrees
<1>2. CASE Pending(Top) = <<>>
  BY <1>1, <1>2, ConcatEmptySeq DEF TopAgrees
<1>3. ASSUME NEW mark \in {"comma", "colon"}, Pending(Top) = <<mark>>
      PROVE  Known(seen) = printed
  <2>1. mark \in Words
    BY DEF Words, Punctuation
  <2>2. seen = Append(printed, mark)
    BY <1>1, <1>3, <2>1, AppendIsConcat
  <2> QED BY <2>1, <2>2, LastWord
<1> QED BY <1>2, <1>3 DEF Pending

LEMMA ErrorMet ==
  ASSUME IInv, Settings, Agree, ~Failed, UNCHANGED <<open, generator, deepest>>,
         NEW s \in {"parse_error", "lexical_error"}, state_stack' = SetTop(s),
         seen' = seen \/ \E w \in Words : seen' = Append(seen, w)
  PROVE  Agree'
<1>1. LevelsAgree' /\ Top' = s
  BY LevelsKept DEF Agree, LevelsAgree, generator, States
<1>2. Known(seen) = printed
  BY KnownIsPrinted DEF Agree
<1>3. ASSUME NEW w \in Words, seen' = Append(seen, w)
      PROVE  BeforeLast(seen') = seen
  BY <1>3, LastWord DEF IInv, TypeOK
<1>4. printed' \in {Known(seen'), Known(BeforeLast(seen'))}
  BY <1>2, <1>3 DEF generator
<1>5. PrintedBeforeError'
  BY <1>4 DEF PrintedBeforeError, Known, BeforeLast
<1>6. Failed'
  BY <1>1 DEF Failed
<1> QED BY <1>1, <1>5, <1>6 DEF Agree, generator

LEMMA MarkRead ==
  ASSUME IInv, Settings, Agree, ~Failed, UNCHANGED <<generator, deepest>>,
         NEW call, TakesMark(call), seen' = Append(seen, call.tok)
  PROVE  Agree'
<1>1. PICK from \in {"map_sep", "map_got_val", "array_got_val"},
           to \in {"map_need_val", "map_need_key", "array_need_val"} :
        /\ Punctuates(call, from, to)
        /\ Pending(from) = <<>> /\ CellFor(to) = CellFor(from)
        /\ Pending(to) = <<call.tok>> /\ call.tok \in {"comma", "colon"}
  BY DEF TakesMark, Punctuates, Pending, CellFor
<1>2. /\ Top = from /\ state_stack' = SetTop(to) /\ UNCHANGED open
      /\ to \in States \ {"parse_error", "lexical_error", "got_value"}
  BY <1>1 DEF Punctuates, States
<1>3. LevelsAgree' /\ Top' = to
  BY <1>2, LevelsKept DEF Agree, LevelsAgree, generator
<1>4. seen = printed /\ printed \in Seq(Words)
  BY <1>1, <1>2, ConcatEmptySeq DEF Agree, TopAgrees
<1>5. call.tok \in Words
  BY <1>1 DEF Words, Punctuation
<1>6. seen' = printed' \o Pending(to)
  BY <1>1, <1>4, <1>5, AppendIsConcat DEF generator
<1>7. <<call.tok>> # <<>>
  OBVIOUS
<1>8. TopAgrees'
  <2>1. state'[depth'] = CellFor(to)
    BY <1>1, <1>2 DEF Agree, TopAgrees, generator
  <2>2. to # "got_value" /\ Pending(to) # <<>>
    BY <1>1, <1>2, <1>7
  <2> QED BY <1>3, <1>6, <2>1, <2>2 DEF TopAgrees, Pending, CellFor
<1>9. ~Failed'
  BY <1>2, <1>3 DEF Failed
<1> QED BY <1>3, <1>8, <1>9 DEF Agree, generator

LEMMA Untouched ==
  ASSUME Agree, UNCHANGED <<state_stack, open, seen, generator, deepest>>
  PROVE  Agree'
BY DEF Agree, LevelsAgree, TopAgrees, PrintedBeforeError, Failed, Top, Known, BeforeLast, Pending,
       CellFor, G!Appended, generator

-----------------------------------------------------------------------------
(* Which call of the generator a token leads to.                           *)

LEMMA CallbackCalls ==
  ASSUME NEW tok, OnToken(tok)
  PROVE  /\ tok \in Strings => G!String(TRUE)
         /\ tok \in {"bool", "null", "integer"} => G!Scalar
         /\ tok = "double" => G!Double(TRUE)
         /\ \A container \in Containers :
              /\ tok = G!Opener(container) => G!OpenContainer(container)
              /\ tok = G!Closer(container) => G!CloseContainer(container)
         /\ tok \in {"eof", "comma", "colon"} => UNCHANGED generator
<1>1. tok \in Strings => G!String(TRUE)
  BY DEF OnToken, Strings
<1>2. tok \in {"bool", "null", "integer"} => G!Scalar
  BY DEF OnToken
<1>3. tok = "double" => G!Double(TRUE)
  BY DEF OnToken
<1>4. /\ tok = "left_bracket" => G!OpenContainer("map")
      /\ tok = "left_brace" => G!OpenContainer("array")
  BY DEF OnToken
<1>5. /\ tok = "right_bracket" => G!CloseContainer("map")
      /\ tok = "right_brace" => G!CloseContainer("array")
  BY DEF OnToken
<1>6. tok \in {"eof", "comma", "colon"} => UNCHANGED generator
  BY DEF OnToken
<1> QED BY <1>1, <1>2, <1>3, <1>4, <1>5, <1>6 DEF Containers, G!Opener, G!Closer

LEMMA CallPrints ==
  ASSUME IInv, Settings, LevelsAgree
  PROVE  /\ G!Valid(state[depth]) = "ok" /\ G!String(TRUE) => G!Append1("string", state[depth])
         /\ G!NotKey(state[depth]) = "ok" /\ G!Scalar => G!Append1("scalar", state[depth])
         /\ G!NotKey(state[depth]) = "ok" /\ G!Double(TRUE) => G!Append1("scalar", state[depth])
<1>1. G!Here = {state[depth]}
  BY Cell
<1>2. G!Valid(state[depth]) = "ok" /\ G!String(TRUE) => G!Append1("string", state[depth])
  BY <1>1 DEF G!String
<1>3. G!NotKey(state[depth]) = "ok" /\ G!Scalar => G!Append1("scalar", state[depth])
  BY <1>1 DEF G!Scalar
<1>4. G!NotKey(state[depth]) = "ok" /\ G!Double(TRUE) => G!Append1("scalar", state[depth])
  BY <1>1 DEF G!Double
<1> QED BY <1>2, <1>3, <1>4
-----------------------------------------------------------------------------
(* One lemma per action.                                                   *)

(* What was returned, when do_parse() goes on or returns.                   *)
LEMMA Reports ==
  ASSUME IInv, Settings, InParse,
         UNCHANGED <<pc, returned>> \/ Return("ok") \/ Return("error")
  PROVE  /\ pc' # "idle" => returned' = NoReturn
         /\ returned' # <<"finish", "ok">>
<1>1. pc # "idle" /\ returned = NoReturn /\ NoReturn # <<"finish", "ok">>
  BY DEF InParse, Settings, NoReturn
<1>2. CASE UNCHANGED <<pc, returned>>
  BY <1>1, <1>2
<1>3. ASSUME NEW stat \in {"ok", "error"}, Return(stat)
      PROVE  /\ pc' # "idle" => returned' = NoReturn
             /\ returned' # <<"finish", "ok">>
  <2>1. CASE caller = "finish" /\ stat = "ok"
    BY <1>1, <1>3, <2>1 DEF Return
  <2>2. CASE ~(caller = "finish" /\ stat = "ok")
    <3>1. pc' = "idle" /\ returned' = <<caller, stat>>
      BY <1>3, <2>2 DEF Return
    <3> QED BY <2>2, <3>1
  <2> QED BY <2>1, <2>2
<1> QED BY <1>2, <1>3

(* A token is taken where the books agree.                                  *)
LEMMA TokenAgrees ==
  ASSUME PrettyInv, ~refused, NEW call \in Lexed, Pass(call)
  PROVE  IF status' = "ok" THEN Agree' ELSE deepest' >= JHN_MAX_DEPTH
<1>1. /\ Take(call) /\ parse_error' # "client cancelled"
      /\ IF Failed' THEN UNCHANGED generator ELSE OnToken(call.tok)
      /\ deepest' = IF Len(open') > deepest THEN Len(open') ELSE deepest
  BY DEF Pass
<1>2. IInv /\ Settings /\ Agree
  BY DEF PrettyInv
<1>3. /\ call.tok \in Tokens /\ Lex(call) /\ ~Failed
      /\ \/ ReadsNothing(call) \/ Fails(call) \/ TakesValue(call) \/ TakesKey(call)
         \/ \E container \in Containers : Begins(call, container) \/ Ends(call, container)
         \/ TakesMark(call)
  BY <1>1, <1>2, Turns
<1>4. /\ TopAgrees /\ LevelsAgree /\ status = "ok" /\ state[depth] = CellFor(Top)
      /\ Top # "got_value"
  BY <1>2, <1>3 DEF Agree, TopAgrees
<1>5. ASSUME UNCHANGED open PROVE UNCHANGED deepest
  <2>1. Len(open) \in Nat /\ deepest \in Nat /\ Len(open) <= deepest
    BY <1>2, <1>4, Cell DEF Settings, LevelsAgree
  <2>2. ~(Len(open) > deepest)
    BY <2>1
  <2>3. Len(open') = Len(open)
    BY <1>5
  <2> QED BY <1>1, <2>2, <2>3, Zenon
<1>6. seen' = IF call.tok = "eof" THEN seen ELSE Append(seen, Word(call.tok))
  BY <1>3 DEF Lex
<1>7. call.tok # "eof" => Word(call.tok) \in Words
  BY <1>3 DEF Word, Words, Tokens, Punctuation
<1>8. CASE ReadsNothing(call)
  <2>1. call.tok = "eof" /\ UNCHANGED <<state_stack, open>> /\ ~Failed'
    BY <1>3, <1>8 DEF ReadsNothing, Failed, Top
  <2>2. UNCHANGED generator
    BY <1>1, <2>1, CallbackCalls
  <2>3. Agree'
    BY <1>2, <1>5, <1>6, <2>1, <2>2, Untouched
  <2> QED BY <1>4, <2>2, <2>3 DEF generator
<1>9. CASE Fails(call)
  <2>1. PICK s \in {"parse_error", "lexical_error"} : state_stack' = SetTop(s)
    BY <1>9 DEF Fails
  <2>2. UNCHANGED <<open, deepest>> /\ seen' = Append(seen, Word(call.tok))
    BY <1>5, <1>6, <1>9 DEF Fails
  <2>3. Failed'
    BY <1>2, <2>1, TopSet DEF Failed, States
  <2>4. UNCHANGED generator
    BY <1>1, <2>3
  <2>5. Agree'
    BY <1>2, <1>3, <1>7, <1>9, <2>1, <2>2, <2>4, ErrorMet DEF Fails
  <2> QED BY <1>4, <2>4, <2>5 DEF generator
<1>10. CASE TakesValue(call)
  <2> DEFINE word == IF call.tok \in Strings THEN "string" ELSE "scalar"
  <2>1. /\ call.tok \in Strings \cup Scalars /\ Top \in ValueStates
        /\ state_stack' = SetTop(Advance(Top)) /\ UNCHANGED <<open, deepest>>
    BY <1>5, <1>10 DEF TakesValue
  <2>2. /\ Advance(Top) \in States \ {"parse_error", "lexical_error", "got_value"}
        /\ G!NotKey(CellFor(Top)) = "ok" /\ G!Valid(CellFor(Top)) = "ok"
        /\ G!Separator(CellFor(Top)) = Pending(Top)
        /\ G!Appended(CellFor(Top)) = CellFor(Advance(Top))
        /\ CellFor(Advance(Top)) \in G!States /\ Pending(Advance(Top)) = <<>>
    BY <1>4, <2>1, ValueCell DEF States
  <2>3. ~Failed'
    BY <1>2, <2>1, <2>2, TopSet DEF Failed
  <2>4. G!Append1(word, state[depth])
    <3>1. CASE call.tok \in Strings
      BY <1>1, <1>2, <1>4, <2>2, <2>3, <3>1, CallbackCalls, CallPrints
    <3>2. CASE call.tok \in {"bool", "null", "integer"}
      BY <1>1, <1>2, <1>4, <2>2, <2>3, <3>2, CallbackCalls, CallPrints DEF Strings
    <3>3. CASE call.tok = "double"
      BY <1>1, <1>2, <1>4, <2>2, <2>3, <3>3, CallbackCalls, CallPrints DEF Strings
    <3> QED BY <2>1, <3>1, <3>2, <3>3 DEF Scalars
  <2>5. word \in {"scalar", "string"} /\ Word(call.tok) = word /\ call.tok # "eof"
    BY <2>1 DEF Word, Strings, Scalars
  <2> HIDE DEF word
  <2>6. Agree'
    BY <1>2, <1>3, <1>6, <2>1, <2>2, <2>4, <2>5, WordPrinted
  <2> QED BY <2>4, <2>6 DEF G!Append1
<1>11. CASE TakesKey(call)
  <2>1. /\ call.tok \in Strings /\ Top \in {"map_start", "map_need_key"}
        /\ state_stack' = SetTop("map_sep") /\ UNCHANGED <<open, deepest>>
    BY <1>5, <1>11 DEF TakesKey
  <2>2. /\ "map_sep" \in States \ {"parse_error", "lexical_error", "got_value"}
        /\ G!Valid(CellFor(Top)) = "ok"
        /\ G!Separator(CellFor(Top)) = Pending(Top)
        /\ G!Appended(CellFor(Top)) = CellFor("map_sep")
        /\ CellFor("map_sep") \in G!States /\ Pending("map_sep") = <<>>
    BY <2>1, KeyCell DEF States
  <2>3. ~Failed'
    BY <1>2, <2>1, <2>2, TopSet DEF Failed
  <2>4. G!Append1("string", state[depth])
    BY <1>1, <1>2, <1>4, <2>1, <2>2, <2>3, CallbackCalls, CallPrints
  <2>5. Word(call.tok) = "string" /\ call.tok # "eof"
    BY <2>1 DEF Word, Strings
  <2>6. Agree'
    BY <1>2, <1>3, <1>6, <2>1, <2>2, <2>4, <2>5, WordPrinted
  <2> QED BY <2>4, <2>6 DEF G!Append1
<1>12. ASSUME NEW container \in Containers, Begins(call, container)
       PROVE  IF status' = "ok" THEN Agree' ELSE deepest' >= JHN_MAX_DEPTH
  <2>1. call.tok = G!Opener(container) /\ Top \in ValueStates /\ Open(container)
    BY <1>12 DEF Begins
  <2>2. ~Failed'
    BY <1>2, <2>1, LevelPushed DEF Failed
  <2>3. G!OpenContainer(container)
    BY <1>1, <2>1, <2>2, CallbackCalls
  <2>4. seen' = Append(seen, G!Opener(container))
    BY <1>6, <2>1 DEF G!Opener, Word
  <2> QED BY <1>1, <1>2, <1>3, <2>1, <2>3, <2>4, ContainerBegun
<1>13. ASSUME NEW container \in Containers, Ends(call, container)
       PROVE  IF status' = "ok" THEN Agree' ELSE deepest' >= JHN_MAX_DEPTH
  <2>1. call.tok = G!Closer(container) /\ Close
    BY <1>13 DEF Ends
  <2>2. ~Failed'
    BY <1>2, <1>3, <1>13, LevelPopped DEF Failed, Ends
  <2>3. G!CloseContainer(container)
    BY <1>1, <2>1, <2>2, CallbackCalls
  <2>4. seen' = Append(seen, G!Closer(container))
    BY <1>6, <2>1 DEF G!Closer, Word
  <2>5. Agree'
    BY <1>1, <1>2, <1>3, <1>13, <2>3, <2>4, ContainerEnded
  <2> QED BY <2>5 DEF Agree
<1>14. CASE TakesMark(call)
  <2>1. call.tok \in {"comma", "colon"} /\ UNCHANGED open
    BY <1>14 DEF TakesMark, Punctuates
  <2>2. \E to \in {"map_need_val", "map_need_key", "array_need_val"} : state_stack' = SetTop(to)
    BY <1>14 DEF TakesMark, Punctuates
  <2>3. ~Failed'
    BY <1>2, <2>2, TopSet DEF Failed, States
  <2>4. UNCHANGED generator
    BY <1>1, <2>1, <2>3, CallbackCalls
  <2>5. seen' = Append(seen, call.tok)
    BY <1>6, <2>1 DEF Word
  <2>6. Agree'
    BY <1>2, <1>3, <1>5, <1>14, <2>1, <2>4, <2>5, MarkRead
  <2> QED BY <1>4, <2>4, <2>6 DEF generator
<1> QED BY <1>3, <1>8, <1>9, <1>10, <1>11, <1>12, <1>13, <1>14

LEMMA PassPreserves ==
  ASSUME PrettyInv, NEW call \in Lexed, Pass(call)
  PROVE  PrettyInv'
<1>1. /\ Take(call) /\ parse_error' # "client cancelled"
      /\ refused' = (refused \/ status' # "ok")
      /\ deepest' = IF Len(open') > deepest THEN Len(open') ELSE deepest
  BY DEF Pass
<1>2. IInv /\ Settings
  BY DEF PrettyInv
<1>3. Lex(call) /\ InParse /\ (UNCHANGED <<pc, returned>> \/ Return("ok"))
  BY <1>1, <1>2, Turns
<1>4. IInv'
  BY <1>1, <1>2, NextIInv DEF Next, Step
<1>5. /\ pc' # "idle" => returned' = NoReturn
      /\ returned' # <<"finish", "ok">>
  BY <1>2, <1>3, Reports
<1>6. deepest' \in Nat /\ deepest' >= deepest
  <2>1. Len(open') \in Nat
    BY <1>4, LenProperties DEF IInv, TypeOK
  <2>2. deepest \in Nat
    BY <1>2 DEF Settings
  <2>3. \A m, n \in Nat : LET d == IF m > n THEN m ELSE n IN d \in Nat /\ d >= n
    OBVIOUS
  <2> QED BY <1>1, <2>1, <2>2, <2>3, Zenon
<1>7. refused' \in BOOLEAN
  BY <1>1
<1>8. Settings'
  BY <1>2, <1>3, <1>5, <1>6, <1>7 DEF Settings, Lex
<1>9. Finished'
  BY <1>5 DEF Finished
<1>10. IF refused' THEN deepest' >= JHN_MAX_DEPTH ELSE Agree'
  <2>1. CASE refused
    <3>1. refused'
      BY <1>1, <2>1
    <3>2. deepest >= JHN_MAX_DEPTH /\ deepest \in Nat
      BY <2>1 DEF PrettyInv, Settings
    <3>3. deepest' >= JHN_MAX_DEPTH
      BY <1>6, <3>2, DepthAssumption
    <3> QED BY <3>1, <3>3
  <2>2. CASE ~refused
    <3>1. IF status' = "ok" THEN Agree' ELSE deepest' >= JHN_MAX_DEPTH
      BY <2>2, TokenAgrees
    <3>2. refused' <=> status' # "ok"
      BY <1>1, <2>2
    <3> QED BY <3>1, <3>2
  <2> QED BY <2>1, <2>2
<1> QED BY <1>4, <1>8, <1>9, <1>10 DEF PrettyInv
(* Nothing is read: the books stay as they are. *)
LEMMA QuietPreserves ==
  ASSUME PrettyInv, IInv', Settings', Finished',
         UNCHANGED <<state_stack, open, seen, generator, refused, deepest>>
  PROVE  PrettyInv'
<1>1. Agree => Agree'
  BY Untouched
<1> QED BY <1>1 DEF PrettyInv

LEMMA SetupPreserves == ASSUME PrettyInv, Setup PROVE PrettyInv'
<1>1. /\ Config("jhn_allow_comments") /\ "jhn_allow_comments" \in Options
      /\ UNCHANGED <<generator, refused, deepest>>
  BY DEF Setup, Options
<1>2. IInv'
  BY <1>1, ConfigPreserves DEF PrettyInv
<1>3. /\ pc' = "idle" /\ returned' = NoReturn /\ UNCHANGED <<state_stack, open, seen>>
      /\ flags' \subseteq flags \cup {"jhn_allow_comments"}
  BY <1>1 DEF Config, history
<1>4. Settings' /\ Finished'
  BY <1>1, <1>3 DEF PrettyInv, Settings, Finished, NoReturn
<1> QED BY <1>1, <1>2, <1>3, <1>4, QuietPreserves

LEMMA FeedPreserves == ASSUME PrettyInv, Feed PROVE PrettyInv'
<1>1. PICK who \in {"parse", "finish"} :
        Start(who, FALSE) /\ UNCHANGED <<generator, refused, deepest>>
  BY DEF Feed, Finish
<1>2. IInv'
  BY <1>1, StartPreserves DEF PrettyInv
<1>3. returned' = NoReturn /\ UNCHANGED <<flags, state_stack, open, seen>>
  BY <1>1 DEF Start, history
<1>4. Settings' /\ Finished'
  BY <1>1, <1>3 DEF PrettyInv, Settings, Finished, NoReturn
<1> QED BY <1>1, <1>2, <1>3, <1>4, QuietPreserves

(* Where jhn_parser_finish() is content, the generator has printed a whole  *)
(* document.                                                                *)
LEMMA MayEndComplete ==
  ASSUME PrettyInv, ~refused, MayEnd
  PROVE  state[0] = "complete"
<1>1. TopAgrees /\ LevelsAgree /\ ~Failed
  BY DEF PrettyInv, Agree, MayEnd
<1>2. Top = "parse_complete"
  BY <1>1 DEF TopAgrees, MayEnd, PrettyInv, Settings
<1>3. open = <<>>
  <2>1. ASSUME open # <<>> PROVE FALSE
    BY <1>1, <1>2, <2>1 DEF PrettyInv, IInv, StackMirrorsNesting, StatesOf
  <2> QED BY <2>1
<1>4. depth = 0
  BY <1>1, <1>3 DEF LevelsAgree
<1> QED BY <1>1, <1>2, <1>4 DEF TopAgrees, CellFor

LEMMA DoFinishAgrees ==
  ASSUME PrettyInv, DoFinish, UNCHANGED <<generator, refused, deepest>>
  PROVE  PrettyInv'
<1>1. IInv /\ IInv'
  BY DoFinishPreserves DEF PrettyInv
<1>2. /\ pc' = "idle" /\ UNCHANGED <<flags, open, seen>>
      /\ returned' \in {<<"finish", "ok">>, <<"finish", "error">>}
  BY DEF DoFinish, history
<1>3. Settings'
  BY <1>2 DEF PrettyInv, Settings
<1>4. CASE MayEnd
  <2>1. Finished'
    BY <1>4, MayEndComplete DEF Finished, generator
  <2>2. UNCHANGED state_stack
    BY <1>4 DEF DoFinish
  <2> QED BY <1>1, <1>2, <1>3, <2>1, <2>2, QuietPreserves
<1>5. CASE ~MayEnd
  <2>1. /\ returned' = <<"finish", "error">>
        /\ state_stack' = state_stack \/ (~Failed /\ state_stack' = SetTop("parse_error"))
    BY <1>5 DEF DoFinish
  <2>2. Finished'
    BY <2>1 DEF Finished
  <2>3. CASE state_stack' = state_stack
    BY <1>1, <1>2, <1>3, <2>2, <2>3, QuietPreserves
  <2>4. CASE ~Failed /\ state_stack' = SetTop("parse_error")
    <3>1. ASSUME Agree PROVE Agree'
      BY <1>1, <1>2, <2>4, <3>1, ErrorMet DEF PrettyInv
    <3> QED BY <1>1, <1>3, <2>2, <3>1 DEF PrettyInv
  <2> QED BY <2>1, <2>3, <2>4
<1> QED BY <1>4, <1>5

LEMMA RunPreserves == ASSUME PrettyInv, Run PROVE PrettyInv'
<1>1. Tokenless /\ UNCHANGED <<generator, refused, deepest>>
  BY DEF Run
<1>2. IInv /\ IInv' /\ Settings
  BY <1>1, NextIInv DEF PrettyInv, Next, Step
<1>3. ~NextValue
  BY <1>2 DEF NextValue, Settings
<1>4. CASE Done \/ Refuse
  <2>1. /\ InParse /\ (Return("ok") \/ Return("error"))
        /\ UNCHANGED <<flags, state_stack, open, seen>>
    BY <1>4 DEF Done, Refuse, history
  <2>2. /\ pc' # "idle" => returned' = NoReturn
        /\ returned' # <<"finish", "ok">>
    BY <1>2, <2>1, Reports
  <2>3. Settings' /\ Finished'
    BY <1>1, <1>2, <2>1, <2>2 DEF Settings, Finished
  <2> QED BY <1>1, <1>2, <2>1, <2>3, QuietPreserves
<1>5. CASE DoFinish
  BY <1>1, <1>5, DoFinishAgrees
<1> QED BY <1>1, <1>3, <1>4, <1>5 DEF Tokenless

LEMMA PrettyInitInv == PrettyInit => PrettyInv
<1> SUFFICES ASSUME PrettyInit PROVE PrettyInv
  OBVIOUS
<1>1. /\ IInv /\ state_stack = <<"start">> /\ open = <<>> /\ seen = <<>> /\ Top = "start"
      /\ flags = {} /\ pc = "idle" /\ returned = NoReturn
  BY InitIInv DEF PrettyInit, Init, Top
<1>2. /\ depth = 0 /\ state = [d \in 0..(JHN_MAX_DEPTH - 1) |-> "start"]
      /\ printed = <<>> /\ status = "ok" /\ refused = FALSE /\ deepest = 0
  BY DEF PrettyInit, G!Init
<1>3. Settings /\ Finished
  BY <1>1, <1>2 DEF Settings, Finished, NoReturn
<1>4. LevelsAgree
  BY <1>1, <1>2, DepthAssumption DEF LevelsAgree, G!States
<1>5. TopAgrees
  <2>1. 0 \in 0..(JHN_MAX_DEPTH - 1)
    BY DepthAssumption
  <2>2. state[depth] = "start" /\ Pending("start") = <<>> /\ CellFor("start") = "start"
    BY <1>2, <2>1 DEF Pending, CellFor
  <2>3. <<>> \o <<>> = <<>>
    BY EmptySeq, ConcatEmptySeq
  <2>4. Known(<<>>) = <<>>
    BY DEF Known
  <2> QED BY <1>1, <1>2, <2>2, <2>3, <2>4 DEF TopAgrees
<1>6. ~Failed /\ printed \in Seq(Words)
  BY <1>1, <1>2 DEF Failed
<1> QED BY <1>1, <1>2, <1>3, <1>4, <1>5, <1>6 DEF PrettyInv, Agree

LEMMA PrettyNextInv == PrettyInv /\ [PrettyNext]_pretty => PrettyInv'
<1> SUFFICES ASSUME PrettyInv, [PrettyNext]_pretty PROVE PrettyInv'
  OBVIOUS
<1>1. CASE UNCHANGED pretty
  <2>1. UNCHANGED <<vars, generator, refused, deepest>>
    BY <1>1 DEF pretty
  <2>2. UNCHANGED <<state_stack, open, seen, flags, pc, returned>>
    BY <2>1 DEF vars, source, history
  <2>3. IInv'
    BY <2>1, NextIInv DEF PrettyInv
  <2>4. Settings' /\ Finished'
    BY <2>1, <2>2 DEF PrettyInv, Settings, Finished, generator
  <2> QED BY <2>1, <2>2, <2>3, <2>4, QuietPreserves
<1> QED BY <1>1, SetupPreserves, FeedPreserves, RunPreserves, PassPreserves DEF PrettyNext

(* The words printed are the words read, whatever the file, the chunks it   *)
(* comes in and the depth of the generator, until the generator refuses a   *)
(* call; and a file that jhn_parser_finish() accepts is a whole document to *)
(* the generator.                                                           *)
THEOREM FilePrinted == PrettySpec => []PrintsWhatIsParsed
<1>1. PrettyInv => PrintsWhatIsParsed
  <2> SUFFICES ASSUME PrettyInv, ~refused
               PROVE  /\ printed \in {Known(seen)} \cup
                                       IF Failed THEN {Known(BeforeLast(seen))} ELSE {}
                      /\ returned = <<"finish", "ok">> => state[0] = "complete"
    BY DEF PrintsWhatIsParsed
  <2>1. Agree /\ IInv
    BY DEF PrettyInv
  <2>2. Failed => printed \in {Known(seen), Known(BeforeLast(seen))}
    BY <2>1 DEF Agree, PrintedBeforeError
  <2>3. ~Failed => printed = Known(seen)
    BY <2>1, KnownIsPrinted DEF Agree
  <2>4. returned = <<"finish", "ok">> => state[0] = "complete"
    BY DEF PrettyInv, Finished
  <2> QED BY <2>2, <2>3, <2>4
<1> QED BY PrettyInitInv, PrettyNextInv, <1>1, PTL DEF PrettySpec

(* The generator refuses a call exactly when as many containers are open at *)
(* once as it has cells: no key, separator or end of a document is ever     *)
(* refused to the callbacks.                                                *)
THEOREM OnlyDepthRefused == PrettySpec => []RefusedOnlyForDepth
<1>1. PrettyInv => RefusedOnlyForDepth
  <2> SUFFICES ASSUME PrettyInv PROVE refused <=> deepest >= JHN_MAX_DEPTH
    BY DEF RefusedOnlyForDepth
  <2>1. refused => deepest >= JHN_MAX_DEPTH
    BY DEF PrettyInv
  <2>2. ~refused => ~(deepest >= JHN_MAX_DEPTH)
    <3>1. ~refused => deepest < JHN_MAX_DEPTH /\ deepest \in Nat
      BY DEF PrettyInv, Agree, LevelsAgree, Settings
    <3> QED BY <3>1, DepthAssumption
  <2> QED BY <2>1, <2>2
<1> QED BY PrettyInitInv, PrettyNextInv, <1>1, PTL DEF PrettySpec
=============================================================================
