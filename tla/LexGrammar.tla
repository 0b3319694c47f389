---------------------------- MODULE LexGrammar ----------------------------
(***************************************************************************)
(* The lexemes of JSON, defined as sets of character sequences and not as  *)
(* a scan: the reference that what lex.c accepts is compared with.         *)
(***************************************************************************)
EXTENDS Integers, Sequences, LexTable

Contains(s, c) == \E i \in 1..Len(s) : s[i] = c

AllDigits(s) == s # <<>> /\ \A i \in 1..Len(s) : s[i] \in Digits

From(s, i) == SubSeq(s, i, Len(s))

Unsigned(s, signs) == IF s # <<>> /\ Head(s) \in signs THEN Tail(s) ELSE s

IsInteger(s) ==
  LET n == Unsigned(s, {"-"}) IN AllDigits(n) /\ (Head(n) = "0" => Len(n) = 1)

IsFraction(s) == s # <<>> /\ Head(s) = "." /\ AllDigits(Tail(s))

IsExponent(s) ==
  s # <<>> /\ Head(s) \in {"e", "E"} /\ AllDigits(Unsigned(Tail(s), {"+", "-"}))

(* An integer with a fraction, an exponent or both. *)
IsDouble(s) ==
  \E i \in 1..Len(s) :
    /\ IsInteger(SubSeq(s, 1, i - 1))
    /\ \/ IsFraction(From(s, i))
       \/ IsExponent(From(s, i))
       \/ \E j \in i..Len(s) : IsFraction(SubSeq(s, i, j - 1)) /\ IsExponent(From(s, j))

(* Whether the character at i is escaped by the backslash before it. *)
EscapedIn(s) ==
  LET esc[i \in 0..Len(s)] == i > 1 /\ s[i - 1] = "bslash" /\ ~esc[i - 1] IN esc

(* The number of continuation bytes each lead byte announces. *)
Announced == [lead2 |-> 1, lead3 |-> 2, lead4 |-> 3]

IsUtf8(s) ==
  LET lead(i) == s[i] \in DOMAIN Announced
      covers(i, j) == lead(i) /\ i < j /\ j <= i + Announced[s[i]]
  IN \A j \in 1..Len(s) :
       /\ s[j] # "bad8"
       /\ s[j] = "cont" <=> \E i \in 1..Len(s) : covers(i, j)
       /\ lead(j) => j + Announced[s[j]] <= Len(s)

(* The inside of a string, between its quotes. *)
IsString(s, utf8) ==
  LET escaped == EscapedIn(s) IN
    /\ \A i \in 1..Len(s) :
         /\ s[i] \notin Controls
         /\ s[i] = "quote" => escaped[i]
         /\ escaped[i] => s[i] \in VEC \cup {"u"}
         /\ escaped[i] /\ s[i] = "u" =>
              i + 4 <= Len(s) /\ \A j \in 1..4 : s[i + j] \in VHC
         /\ s[i] = "bslash" /\ ~escaped[i] => i < Len(s)
    /\ utf8 => IsUtf8(s)
=============================================================================
