---------------------------- MODULE GrammarProofs ----------------------------
(***************************************************************************)
(* What the two grammars look like to one who reads one symbol at a time:  *)
(* the lexemes of LexGrammar by their characters, the documents of         *)
(* JsonGrammar by their words, with the stack of states that keeps track   *)
(* of them; and the induction on the natural numbers that this and other   *)
(* proofs of the project rest on.                                          *)
(***************************************************************************)
EXTENDS LexGrammar, JsonGrammar, SequenceTheorems, WellFoundedInduction, TLAPS

-----------------------------------------------------------------------------
(* Every set of naturals that is not empty has a least element. *)
LEMMA NaturalOrder ==
  \E R : IsWellFoundedOn(R, Nat) /\ \A m, n \in Nat : n < m => <<n, m>> \in R
<1>1. \A m, n \in Nat : n < m => <<n, m>> \in OpToRel(<, Nat)
  BY DEF OpToRel
<1> QED BY <1>1, NatLessThanWellFounded, Zenon

LEMMA LeastNatural ==
  ASSUME NEW T, T \subseteq Nat, T # {}
  PROVE  \E m \in T : \A n \in T : m <= n
<1>1. PICK R : IsWellFoundedOn(R, Nat) /\ \A m, n \in Nat : n < m => <<n, m>> \in R
  BY NaturalOrder
<1>2. PICK m \in T : \A n \in T : ~ (<<n, m>> \in R)
  BY <1>1, WFMin
<1>3. ASSUME NEW n \in T PROVE m <= n
  <2>1. m \in Nat /\ n \in Nat
    OBVIOUS
  <2>2. ~(n < m)
    BY <1>1, <1>2, <2>1, Zenon
  <2> QED BY <2>1, <2>2
<1> QED BY <1>3

(* A set that has 0, and the successor of each of its elements. *)
LEMMA Induction ==
  ASSUME NEW T, 0 \in T, \A n \in Nat : n \in T => n + 1 \in T
  PROVE  Nat \subseteq T
<1> SUFFICES ASSUME Nat \ T # {} PROVE FALSE
  OBVIOUS
<1>1. PICK m \in Nat \ T : \A n \in Nat \ T : m <= n
  BY LeastNatural
<1>2. m # 0 /\ m - 1 \in Nat /\ m - 1 < m
  BY <1>1
<1>3. m - 1 \in T
  BY <1>1, <1>2
<1> QED BY <1>1, <1>2, <1>3

-----------------------------------------------------------------------------
(* UTF-8, byte by byte. *)
Leads(s, i) == s[i] \in DOMAIN Announced
Covers(s, i, j) == Leads(s, i) /\ i < j /\ j <= i + Announced[s[i]]

(* What is known of the first e bytes while d more are due.                *)
ValidSoFar(s, e, d) ==
  /\ \A j \in 1..e : s[j] # "bad8"
  /\ \A j \in 1..e : s[j] = "cont" <=> \E i \in 1..e : Covers(s, i, j)
  /\ \A j \in 1..e : Leads(s, j) => j + Announced[s[j]] <= e + d
  /\ d # 0 => \E j \in 1..e : Leads(s, j) /\ j + Announced[s[j]] = e + d

LEMMA AnnouncedNumbers ==
  /\ \A c \in DOMAIN Announced : Announced[c] \in 1..3
  /\ "cont" \notin DOMAIN Announced /\ "bad8" \notin DOMAIN Announced
  /\ DOMAIN Announced \subseteq HighBytes
BY DEF Announced, HighBytes

LEMMA Utf8Form ==
  ASSUME NEW s
  PROVE  IsUtf8(s) <=> \A j \in 1..Len(s) :
                          /\ s[j] # "bad8"
                          /\ s[j] = "cont" <=> \E i \in 1..Len(s) : Covers(s, i, j)
                          /\ Leads(s, j) => j + Announced[s[j]] <= Len(s)
BY Zenon DEF IsUtf8, Covers, Leads

(* A byte more. *)
LEMMA ValidByte ==
  ASSUME NEW s, NEW e \in Nat, NEW d \in Nat, NEW n \in Nat, ValidSoFar(s, e, d),
         s[e + 1] # "bad8", s[e + 1] = "cont" <=> d # 0,
         IF d # 0 THEN n = d - 1
         ELSE n = IF Leads(s, e + 1) THEN Announced[s[e + 1]] ELSE 0
  PROVE  ValidSoFar(s, e + 1, n)
<1>1. \A i \in 1..(e + 1) : Leads(s, i) => Announced[s[i]] \in 1..3
  BY AnnouncedNumbers DEF Leads
<1>2. 1..(e + 1) = (1..e) \cup {e + 1} /\ e + 1 \in 1..(e + 1)
  OBVIOUS
<1>3. Leads(s, e + 1) => d = 0
  BY AnnouncedNumbers DEF Leads
<1>4. \A j \in 1..e : Leads(s, j) => j + Announced[s[j]] <= e + d
  BY DEF ValidSoFar
<1>5. ASSUME NEW j \in 1..(e + 1) PROVE s[j] = "cont" <=> \E i \in 1..(e + 1) : Covers(s, i, j)
  <2>1. CASE j \in 1..e
    <3>1. \A i \in 1..(e + 1) : Covers(s, i, j) => i \in 1..e
      BY <1>1, <2>1 DEF Covers
    <3> QED BY <1>2, <2>1, <3>1 DEF ValidSoFar
  <2>2. CASE j = e + 1
    <3>1. CASE d = 0
      <4>1. ASSUME NEW i \in 1..(e + 1), Covers(s, i, j) PROVE FALSE
        BY <1>1, <1>4, <2>2, <3>1, <4>1 DEF Covers
      <4> QED BY <2>2, <3>1, <4>1
    <3>2. CASE d # 0
      <4>1. PICK i \in 1..e : Leads(s, i) /\ i + Announced[s[i]] = e + d
        BY <3>2 DEF ValidSoFar
      <4>2. Covers(s, i, j)
        BY <1>1, <2>2, <3>2, <4>1 DEF Covers
      <4> QED BY <1>2, <2>2, <3>2, <4>2
    <3> QED BY <3>1, <3>2
  <2> QED BY <1>2, <2>1, <2>2
<1>6. ASSUME NEW j \in 1..(e + 1), Leads(s, j) PROVE j + Announced[s[j]] <= (e + 1) + n
  <2>1. Announced[s[j]] \in 1..3
    BY <1>1, <1>6
  <2>2. CASE j = e + 1
    BY <1>3, <1>6, <2>1, <2>2
  <2>3. CASE j \in 1..e
    <3>1. j + Announced[s[j]] <= e + d
      BY <1>4, <1>6, <2>3
    <3> QED BY <2>1, <2>3, <3>1
  <2> QED BY <1>2, <2>2, <2>3
<1>7. ASSUME n # 0
      PROVE  \E j \in 1..(e + 1) : Leads(s, j) /\ j + Announced[s[j]] = (e + 1) + n
  <2>1. CASE d = 0
    <3>1. Leads(s, e + 1) /\ Announced[s[e + 1]] = n
      BY <1>7, <2>1
    <3> QED BY <1>2, <3>1
  <2>2. CASE d # 0
    <3>1. PICK j \in 1..e : Leads(s, j) /\ j + Announced[s[j]] = e + d
      BY <2>2 DEF ValidSoFar
    <3> QED BY <1>2, <2>2, <3>1
  <2> QED BY <2>1, <2>2
<1>8. \A j \in 1..(e + 1) : s[j] # "bad8"
  BY <1>2 DEF ValidSoFar
<1> QED BY <1>5, <1>6, <1>7, <1>8 DEF ValidSoFar

(* A byte that cannot be the next. *)
LEMMA InvalidByte ==
  ASSUME NEW s, Len(s) \in Nat, NEW e \in 0..Len(s), NEW d \in Nat, ValidSoFar(s, e, d),
         \/ d = 0 /\ e < Len(s) /\ s[e + 1] \in {"cont", "bad8"}
         \/ d # 0 /\ (e = Len(s) \/ s[e + 1] # "cont")
  PROVE  ~IsUtf8(s)
<1> SUFFICES ASSUME IsUtf8(s) PROVE FALSE
  OBVIOUS
<1>1. \A i \in 1..Len(s) : Leads(s, i) => Announced[s[i]] \in 1..3
  BY AnnouncedNumbers DEF Leads
<1>2. \A j \in 1..Len(s) : /\ s[j] # "bad8"
                           /\ s[j] = "cont" <=> \E i \in 1..Len(s) : Covers(s, i, j)
                           /\ Leads(s, j) => j + Announced[s[j]] <= Len(s)
  BY Utf8Form
<1>3. CASE d = 0 /\ e < Len(s) /\ s[e + 1] \in {"cont", "bad8"}
  <2>1. e + 1 \in 1..Len(s) /\ s[e + 1] = "cont"
    BY <1>2, <1>3
  <2>2. PICK i \in 1..Len(s) : Covers(s, i, e + 1)
    BY <1>2, <2>1
  <2>3. i \in 1..e /\ Leads(s, i) /\ e + 1 <= i + Announced[s[i]]
    BY <1>1, <2>2 DEF Covers
  <2>4. i + Announced[s[i]] <= e
    BY <1>3, <2>3 DEF ValidSoFar
  <2> QED BY <1>1, <2>3, <2>4
<1>4. CASE d # 0 /\ (e = Len(s) \/ s[e + 1] # "cont")
  <2>1. PICK i \in 1..e : Leads(s, i) /\ i + Announced[s[i]] = e + d
    BY <1>4 DEF ValidSoFar
  <2>2. i \in 1..Len(s) /\ Announced[s[i]] \in 1..3 /\ e + d <= Len(s)
    BY <1>1, <1>2, <2>1
  <2>3. e + 1 \in 1..Len(s) /\ s[e + 1] # "cont"
    BY <1>4, <2>2
  <2>4. Covers(s, i, e + 1)
    BY <1>4, <2>1, <2>2 DEF Covers
  <2> QED BY <1>2, <2>2, <2>3, <2>4
<1> QED BY <1>3, <1>4

-----------------------------------------------------------------------------
(* Escapes. *)

(* The equation that defines EscapedIn. *)
Follows(s, esc) ==
  esc = [i \in 0..Len(s) |-> i > 1 /\ s[i - 1] = "bslash" /\ ~esc[i - 1]]

LEMMA EscapedInFollows ==
  ASSUME NEW s, NEW esc, Follows(s, esc)
  PROVE  Follows(s, EscapedIn(s))
BY DEF Follows, EscapedIn

(* A function that satisfies the equation is the one.                      *)
LEMMA EscapedIs ==
  ASSUME NEW s, Len(s) \in Nat, NEW f \in [0..Len(s) -> BOOLEAN],
         \A i \in 0..Len(s) : f[i] <=> i > 1 /\ s[i - 1] = "bslash" /\ ~f[i - 1]
  PROVE  \A i \in 0..Len(s) : EscapedIn(s)[i] <=> f[i]
<1> DEFINE e == EscapedIn(s)
           T == {n \in Nat : n <= Len(s) => (e[n] <=> f[n])}
<1>1. \A i \in 0..Len(s) : f[i] = (i > 1 /\ s[i - 1] = "bslash" /\ ~f[i - 1])
  <2> SUFFICES ASSUME NEW i \in 0..Len(s)
               PROVE  f[i] = (i > 1 /\ s[i - 1] = "bslash" /\ ~f[i - 1])
    OBVIOUS
  <2>1. f[i] \in BOOLEAN
    OBVIOUS
  <2> QED BY <2>1
<1>2. Follows(s, f)
  <2>1. f = [i \in 0..Len(s) |-> f[i]]
    OBVIOUS
  <2> QED BY <1>1, <2>1, Zenon DEF Follows
<1>3. Follows(s, e)
  BY <1>2, EscapedInFollows
<1>4. \A i \in 0..Len(s) : e[i] = (i > 1 /\ s[i - 1] = "bslash" /\ ~e[i - 1])
  BY <1>3, Zenon DEF Follows
<1> HIDE DEF e
<1>5. 0 \in T
  <2>1. 0 \in 0..Len(s) /\ ~(0 > 1)
    OBVIOUS
  <2> QED BY <1>4, <2>1
<1>6. ASSUME NEW n \in Nat, n \in T PROVE n + 1 \in T
  <2> SUFFICES ASSUME n + 1 <= Len(s) PROVE e[n + 1] <=> f[n + 1]
    OBVIOUS
  <2>1. n + 1 \in 0..Len(s) /\ (n + 1) - 1 = n /\ (e[n] <=> f[n])
    BY <1>6
  <2>2. e[n + 1] = (n + 1 > 1 /\ s[n] = "bslash" /\ ~e[n])
    BY <1>4, <2>1
  <2>3. f[n + 1] <=> n + 1 > 1 /\ s[n] = "bslash" /\ ~f[n]
    BY <2>1
  <2> QED BY <2>1, <2>2, <2>3
<1>7. Nat \subseteq T
  <2> HIDE DEF T
  <2> QED BY <1>5, <1>6, Induction
<1>8. \A i \in 0..Len(s) : e[i] <=> f[i]
  BY <1>7
<1> QED BY <1>8 DEF e

-----------------------------------------------------------------------------
(* Numbers: what has been read up to the m-th character. *)

AreDigits(u, a, m) == a <= m /\ \A j \in a..m : u[j] \in Digits

IntegerTo(u, m) ==
  \E b \in {1, 2} : /\ b = 2 => u[1] = "-"
                    /\ AreDigits(u, b, m)
                    /\ u[b] = "0" => m = b

FractionTo(u, m) ==
  \E i \in 2..m : IntegerTo(u, i - 1) /\ u[i] = "." /\ AreDigits(u, i + 1, m)

MantissaTo(u, m) == m >= 1 /\ (IntegerTo(u, m) \/ FractionTo(u, m))

ExponentTo(u, m) ==
  \E k \in 1..m : /\ MantissaTo(u, k) /\ u[k + 1] \in {"e", "E"}
                  /\ \E b \in {k + 2, k + 3} : /\ b = k + 3 => u[k + 2] \in {"+", "-"}
                                               /\ AreDigits(u, b, m)

(* From the a-th to the m-th character. *)
LEMMA Excerpt ==
  ASSUME NEW u \in Seq(Chars), NEW m \in 0..Len(u), NEW a \in 1..(m + 1)
  PROVE  /\ SubSeq(u, a, m) \in Seq(Chars) /\ Len(SubSeq(u, a, m)) = m - a + 1
         /\ \A i \in 1..(m - a + 1) : SubSeq(u, a, m)[i] = u[a + i - 1]
         /\ SubSeq(u, a, m) = <<>> <=> a = m + 1
         /\ a <= m => /\ Head(SubSeq(u, a, m)) = u[a]
                     /\ Tail(SubSeq(u, a, m)) = SubSeq(u, a + 1, m)
<1> DEFINE p == SubSeq(u, a, m)
<1>1. Len(u) \in Nat /\ a \in Nat /\ m \in Nat
  BY LenProperties
<1>2. \A i \in a..m : u[i] \in Chars
  BY <1>1, ElementOfSeq
<1>3. p \in Seq(Chars) /\ Len(p) = m - a + 1 /\ \A i \in 1..(m - a + 1) : p[i] = u[a + i - 1]
  <2>1. a <= m + 1
    OBVIOUS
  <2> QED BY <1>1, <1>2, <2>1, SubSeqProperties
<1>4. a <= m => Head(p) = u[a] /\ Tail(p) = SubSeq(u, a + 1, m)
  BY <1>1, HeadTailOfSubSeq
<1> HIDE DEF p
<1>5. p = <<>> <=> a = m + 1
  BY <1>1, <1>3, EmptySeq
<1> QED BY <1>3, <1>4, <1>5 DEF p

LEMMA AllDigitsForm ==
  ASSUME NEW u \in Seq(Chars), NEW m \in 1..Len(u), NEW a \in 1..m, AreDigits(u, a, m)
  PROVE  AllDigits(SubSeq(u, a, m))
<1>1. Len(u) \in Nat /\ a \in 1..(m + 1) /\ m \in 0..Len(u)
  BY LenProperties
<1>2. /\ Len(SubSeq(u, a, m)) = m - a + 1 /\ SubSeq(u, a, m) # <<>>
      /\ \A i \in 1..(m - a + 1) : SubSeq(u, a, m)[i] = u[a + i - 1]
  BY <1>1, Excerpt
<1>3. \A i \in 1..(m - a + 1) : a + i - 1 \in a..m
  OBVIOUS
<1> QED BY <1>2, <1>3 DEF AllDigits, AreDigits

LEMMA IntegerForm ==
  ASSUME NEW u \in Seq(Chars), NEW m \in 1..Len(u), IntegerTo(u, m)
  PROVE  IsInteger(SubSeq(u, 1, m))
<1>1. PICK b \in {1, 2} : /\ b = 2 => u[1] = "-"
                          /\ AreDigits(u, b, m)
                          /\ u[b] = "0" => m = b
  BY DEF IntegerTo
<1>2. Len(u) \in Nat /\ m \in 0..Len(u) /\ b \in 1..m /\ b \in 1..(m + 1) /\ 1 \in 1..(m + 1)
  BY <1>1, LenProperties DEF AreDigits
<1>3. Unsigned(SubSeq(u, 1, m), {"-"}) = SubSeq(u, b, m)
  <2>1. /\ SubSeq(u, 1, m) # <<>> /\ Head(SubSeq(u, 1, m)) = u[1]
        /\ Tail(SubSeq(u, 1, m)) = SubSeq(u, 2, m)
    BY <1>2, Excerpt
  <2>2. b = 1 => u[1] # "-"
    <3>1. b = 1 => u[1] \in Digits
      BY <1>1, <1>2 DEF AreDigits
    <3> QED BY <3>1 DEF Digits
  <2> QED BY <1>1, <2>1, <2>2 DEF Unsigned
<1>4. Head(SubSeq(u, b, m)) = u[b] /\ Len(SubSeq(u, b, m)) = m - b + 1
  BY <1>2, Excerpt
<1>5. AllDigits(SubSeq(u, b, m))
  BY <1>1, <1>2, AllDigitsForm
<1>6. u[b] = "0" => m - b + 1 = 1
  BY <1>1, <1>2
<1> QED BY <1>3, <1>4, <1>5, <1>6 DEF IsInteger

LEMMA FractionForm ==
  ASSUME NEW u \in Seq(Chars), NEW m \in 1..Len(u), NEW i \in 1..m, u[i] = ".", AreDigits(u, i + 1, m)
  PROVE  IsFraction(SubSeq(u, i, m))
<1>1. /\ Len(u) \in Nat /\ m \in 0..Len(u) /\ i \in 1..(m + 1) /\ i + 1 \in 1..m /\ i <= m
      /\ i # m + 1
  BY LenProperties DEF AreDigits
<1>2. /\ SubSeq(u, i, m) # <<>> /\ Head(SubSeq(u, i, m)) = "."
      /\ Tail(SubSeq(u, i, m)) = SubSeq(u, i + 1, m)
  BY <1>1, Excerpt
<1>3. AllDigits(SubSeq(u, i + 1, m))
  BY <1>1, AllDigitsForm
<1> QED BY <1>2, <1>3 DEF IsFraction

LEMMA ExponentForm ==
  ASSUME NEW u \in Seq(Chars), NEW m \in 1..Len(u), NEW i \in 1..m, u[i] \in {"e", "E"},
         NEW b \in {i + 1, i + 2}, b = i + 2 => u[i + 1] \in {"+", "-"}, AreDigits(u, b, m)
  PROVE  IsExponent(SubSeq(u, i, m))
<1>1. /\ Len(u) \in Nat /\ m \in 0..Len(u) /\ i \in 1..(m + 1) /\ b \in 1..m /\ i <= m
      /\ i + 1 \in 1..(m + 1) /\ i + 1 <= m /\ i # m + 1 /\ i + 1 # m + 1
  BY LenProperties DEF AreDigits
<1>2. /\ SubSeq(u, i, m) # <<>> /\ Head(SubSeq(u, i, m)) = u[i]
      /\ Tail(SubSeq(u, i, m)) = SubSeq(u, i + 1, m)
  BY <1>1, Excerpt
<1>3. /\ SubSeq(u, i + 1, m) # <<>> /\ Head(SubSeq(u, i + 1, m)) = u[i + 1]
      /\ Tail(SubSeq(u, i + 1, m)) = SubSeq(u, (i + 1) + 1, m)
  BY <1>1, Excerpt
<1>4. Unsigned(SubSeq(u, i + 1, m), {"+", "-"}) = SubSeq(u, b, m)
  <2>1. b = i + 1 => u[i + 1] \notin {"+", "-"}
    <3>1. b = i + 1 => u[i + 1] \in Digits
      BY <1>1 DEF AreDigits
    <3> QED BY <3>1 DEF Digits
  <2>2. (i + 1) + 1 = i + 2
    OBVIOUS
  <2> QED BY <1>3, <2>1, <2>2 DEF Unsigned
<1>5. AllDigits(SubSeq(u, b, m))
  BY <1>1, AllDigitsForm
<1> QED BY <1>2, <1>4, <1>5 DEF IsExponent

(* A piece of a beginning. *)
LEMMA ExcerptOfExcerpt ==
  ASSUME NEW u \in Seq(Chars), NEW m \in 0..Len(u), NEW k \in 0..m, NEW a \in 1..(k + 1)
  PROVE  SubSeq(SubSeq(u, 1, m), a, k) = SubSeq(u, a, k)
<1> DEFINE p == SubSeq(u, 1, m)
<1>1. /\ Len(u) \in Nat /\ k \in 0..Len(u) /\ k \in Nat /\ a \in Nat /\ 1 \in 1..(m + 1)
      /\ m - 1 + 1 = m
  BY LenProperties
<1>2. p \in Seq(Chars) /\ Len(p) = m /\ \A i \in 1..m : p[i] = u[1 + i - 1]
  BY <1>1, Excerpt
<1> HIDE DEF p
<1>3. /\ SubSeq(p, a, k) \in Seq(Chars) /\ Len(SubSeq(p, a, k)) = k - a + 1
      /\ \A i \in 1..(k - a + 1) : SubSeq(p, a, k)[i] = p[a + i - 1]
  BY <1>2, Excerpt
<1>4. /\ SubSeq(u, a, k) \in Seq(Chars) /\ Len(SubSeq(u, a, k)) = k - a + 1
      /\ \A i \in 1..(k - a + 1) : SubSeq(u, a, k)[i] = u[a + i - 1]
  BY <1>1, Excerpt
<1>5. ASSUME NEW i \in 1..(k - a + 1) PROVE SubSeq(p, a, k)[i] = SubSeq(u, a, k)[i]
  <2>1. a + i - 1 \in 1..m /\ 1 + (a + i - 1) - 1 = a + i - 1
    BY <1>1
  <2> QED BY <1>2, <1>3, <1>4, <2>1
<1>6. SubSeq(p, a, k) = SubSeq(u, a, k)
  BY <1>3, <1>4, <1>5, SeqEqual
<1> QED BY <1>6 DEF p

LEMMA DoubleForm ==
  ASSUME NEW u \in Seq(Chars), NEW m \in 1..Len(u), FractionTo(u, m) \/ ExponentTo(u, m)
  PROVE  IsDouble(SubSeq(u, 1, m))
<1> DEFINE p == SubSeq(u, 1, m)
<1>1. Len(u) \in Nat /\ m \in 0..Len(u) /\ Len(p) = m /\ m \in 1..(m + 1)
  BY LenProperties, Excerpt
<1>2. \A k \in 0..m, a \in Nat : a >= 1 /\ a <= k + 1 => SubSeq(p, a, k) = SubSeq(u, a, k)
  BY <1>1, ExcerptOfExcerpt
<1> HIDE DEF p
<1>3. ASSUME NEW k \in 1..m, IntegerTo(u, k) PROVE IsInteger(SubSeq(p, 1, k))
  <2>1. k \in 0..m /\ k \in 1..Len(u) /\ 1 <= k + 1 /\ 1 \in Nat /\ 1 >= 1
    BY <1>1
  <2>2. SubSeq(p, 1, k) = SubSeq(u, 1, k)
    BY <1>2, <2>1
  <2> QED BY <1>3, <2>1, <2>2, IntegerForm
<1>4. ASSUME NEW k \in 1..m, NEW i \in 2..k, IntegerTo(u, i - 1), u[i] = ".", AreDigits(u, i + 1, k)
      PROVE  IsInteger(SubSeq(p, 1, i - 1)) /\ IsFraction(SubSeq(p, i, k))
  <2>1. /\ i - 1 \in 1..m /\ k \in 0..m /\ k \in 1..Len(u) /\ i \in 1..k /\ i \in Nat
        /\ i >= 1 /\ i <= k + 1
    BY <1>1
  <2> QED BY <1>2, <1>3, <1>4, <2>1, FractionForm
<1>5. CASE FractionTo(u, m)
  <2>1. PICK i \in 2..m : IntegerTo(u, i - 1) /\ u[i] = "." /\ AreDigits(u, i + 1, m)
    BY <1>5 DEF FractionTo
  <2>2. m \in 1..m /\ i \in 1..m
    BY <1>1
  <2> QED BY <1>1, <1>4, <2>1, <2>2 DEF IsDouble, From, p
<1>6. CASE ExponentTo(u, m)
  <2>1. PICK k \in 1..m : /\ MantissaTo(u, k) /\ u[k + 1] \in {"e", "E"}
                          /\ \E b \in {k + 2, k + 3} : /\ b = k + 3 => u[k + 2] \in {"+", "-"}
                                                       /\ AreDigits(u, b, m)
    BY <1>6 DEF ExponentTo
  <2>2. PICK b \in {(k + 1) + 1, (k + 1) + 2} :
          /\ b = (k + 1) + 2 => u[(k + 1) + 1] \in {"+", "-"}
          /\ AreDigits(u, b, m)
    <3>1. (k + 1) + 1 = k + 2 /\ (k + 1) + 2 = k + 3
      OBVIOUS
    <3> QED BY <2>1, <3>1
  <2>3. /\ k + 1 \in 1..m /\ m \in 0..m /\ k + 1 \in Nat /\ k + 1 >= 1 /\ k + 1 <= m + 1
        /\ (k + 1) - 1 = k
    BY <2>2 DEF AreDigits
  <2>4. IsExponent(SubSeq(p, k + 1, m))
    <3>1. IsExponent(SubSeq(u, k + 1, m))
      BY <2>1, <2>2, <2>3, ExponentForm
    <3>2. SubSeq(p, k + 1, m) = SubSeq(u, k + 1, m)
      BY <1>2, <2>3
    <3> QED BY <3>1, <3>2
  <2>5. CASE IntegerTo(u, k)
    <3>1. IsInteger(SubSeq(p, 1, (k + 1) - 1))
      BY <1>3, <2>3, <2>5
    <3> QED BY <1>1, <2>3, <2>4, <3>1 DEF IsDouble, From, p
  <2>6. CASE FractionTo(u, k)
    <3>1. PICK i \in 2..k : IntegerTo(u, i - 1) /\ u[i] = "." /\ AreDigits(u, i + 1, k)
      BY <2>6 DEF FractionTo
    <3>2. IsInteger(SubSeq(p, 1, i - 1)) /\ IsFraction(SubSeq(p, i, (k + 1) - 1))
      BY <1>4, <2>3, <3>1
    <3>3. i \in 1..m /\ k + 1 \in i..m
      BY <2>3
    <3> QED BY <1>1, <2>4, <3>2, <3>3 DEF IsDouble, From, p
  <2> QED BY <2>1, <2>5, <2>6 DEF MantissaTo
<1> QED BY <1>5, <1>6

-----------------------------------------------------------------------------
(* The grammar of documents. *)
LEMMA JoinedOut ==
  ASSUME NEW A, NEW B, NEW t \in Joined(A, B)
  PROVE  \E s \in A, r \in B : t = s \o <<"comma">> \o r
BY SMT DEF Joined

LEMMA JoinedIn ==
  ASSUME NEW A, NEW B, NEW s \in A, NEW r \in B
  PROVE  s \o <<"comma">> \o r \in Joined(A, B)
BY SMT DEF Joined

LEMMA ListsAre ==
  ASSUME NEW d, NEW one, NEW e, NEW list, NEW n, NEW t
  PROVE  t \in Lists(d, one, e, list, n) <=>
           \E i \in 1..(n - 1) : t \in Joined(d[i][one], e[n - 1 - i][list])
BY Zenon DEF Lists

LEMMA ListsFromShorter ==
  ASSUME NEW n, NEW d, NEW e, NEW b, NEW c, NEW one, NEW list,
         \A i \in 1..(n - 1) : d[i] = e[i] /\ b[n - 1 - i] = c[n - 1 - i]
  PROVE  Lists(d, one, b, list, n) = Lists(e, one, c, list, n)
<1> SUFFICES ASSUME NEW t
             PROVE  t \in Lists(d, one, b, list, n) <=> t \in Lists(e, one, c, list, n)
  OBVIOUS
<1>1. \A i \in 1..(n - 1) : Joined(d[i][one], b[n - 1 - i][list])
                            = Joined(e[i][one], c[n - 1 - i][list])
  BY Zenon
<1>2. t \in Lists(d, one, b, list, n) <=>
        \E i \in 1..(n - 1) : t \in Joined(d[i][one], b[n - 1 - i][list])
  BY ListsAre, Zenon
<1>3. t \in Lists(e, one, c, list, n) <=>
        \E i \in 1..(n - 1) : t \in Joined(e[i][one], c[n - 1 - i][list])
  BY ListsAre, Zenon
<1> QED BY <1>1, <1>2, <1>3

(* What has n words is made of what has fewer.  *)
LEMMA DerivedFromShorter ==
  ASSUME NEW n \in Nat, NEW d, NEW e, \A i \in 0..(n - 1) : d[i] = e[i]
  PROVE  Derived(d, n) = Derived(e, n)
<1>1. \A i \in 1..(n - 1) : d[i] = e[i] /\ d[n - 1 - i] = e[n - 1 - i]
  OBVIOUS
<1>2. /\ Lists(d, "value", d, "elements", n) = Lists(e, "value", e, "elements", n)
      /\ Lists(d, "member", d, "members", n) = Lists(e, "member", e, "members", n)
  BY <1>1, ListsFromShorter
<1>3. n >= 2 => d[n - 2] = e[n - 2]
  OBVIOUS
<1>4. \A list : Inside(d, list, n) = Inside(e, list, n)
  BY <1>3 DEF Inside
<1>5. Keyed(d, n) = Keyed(e, n)
  <2>1. CASE n < 3
    BY <2>1, Zenon DEF Keyed
  <2>2. CASE ~(n < 3)
    <3>1. d[n - 2] = e[n - 2]
      BY <2>2, <1>3
    <3> QED BY <3>1, Zenon DEF Keyed
  <2> QED BY <2>1, <2>2
<1>8. /\ Inside(d, "elements", n) = Inside(e, "elements", n)
      /\ Inside(d, "members", n) = Inside(e, "members", n)
  BY <1>4, Zenon
<1> DEFINE value(f) ==
             (IF n = 1 THEN {<<"scalar">>, <<"string">>} ELSE {})
               \cup Enclosed("left_brace", Inside(f, "elements", n), "right_brace")
               \cup Enclosed("left_bracket", Inside(f, "members", n), "right_bracket")
<1>9. value(d) = value(e)
  BY <1>8, Zenon
<1>10. \A f : Derived(f, n) = [value |-> value(f), member |-> Keyed(f, n),
                               elements |-> value(f) \cup Lists(f, "value", f, "elements", n),
                               members |-> Keyed(f, n) \cup Lists(f, "member", f, "members", n)]
  BY Zenon DEF Derived
<1> HIDE DEF value
<1> QED BY <1>2, <1>5, <1>9, <1>10, Zenon

DerivesTo(d, bound) == d = [n \in 0..bound |-> Derived(d, n)]

LEMMA DerivableDerives ==
  ASSUME NEW bound \in Nat
  PROVE  DerivesTo(Derivable(bound), bound)
<1> DEFINE T == {n \in Nat : \E d : DerivesTo(d, n)}
<1>1. 0 \in T
  <2> DEFINE d == [n \in 0..0 |-> Derived(<<>>, n)]
  <2>1. \A n \in 0..0 : d[n] = Derived(d, n)
    <3> SUFFICES ASSUME NEW n \in 0..0 PROVE Derived(<<>>, n) = Derived(d, n)
      OBVIOUS
    <3>1. n = 0
      OBVIOUS
    <3>2. \A i \in 0..(0 - 1) : <<>>[i] = d[i]
      OBVIOUS
    <3> HIDE DEF d
    <3> QED BY <3>1, <3>2, DerivedFromShorter
  <2>2. d = [n \in 0..0 |-> d[n]]
    OBVIOUS
  <2> HIDE DEF d
  <2> QED BY <2>1, <2>2 DEF DerivesTo
<1>2. ASSUME NEW n \in Nat, n \in T PROVE n + 1 \in T
  <2>1. PICK d : DerivesTo(d, n)
    BY <1>2
  <2>2. \A k \in 0..n : d[k] = Derived(d, k)
    BY <2>1, Zenon DEF DerivesTo
  <2> DEFINE e == [k \in 0..(n + 1) |-> IF k <= n THEN d[k] ELSE Derived(d, n + 1)]
  <2>3. \A i \in 0..n : e[i] = d[i]
    OBVIOUS
  <2>4. e[n + 1] = Derived(d, n + 1)
    OBVIOUS
  <2>5. e = [k \in 0..(n + 1) |-> e[k]]
    OBVIOUS
  <2> HIDE DEF e
  <2>6. \A k \in 0..(n + 1) : e[k] = Derived(e, k)
    <3> SUFFICES ASSUME NEW k \in 0..(n + 1) PROVE e[k] = Derived(e, k)
      OBVIOUS
    <3>1. k \in Nat /\ \A i \in 0..(k - 1) : d[i] = e[i]
      BY <2>3
    <3>2. Derived(d, k) = Derived(e, k)
      BY <3>1, DerivedFromShorter
    <3>3. CASE k = n + 1
      BY <3>2, <3>3, <2>4
    <3>4. CASE k \in 0..n
      BY <3>2, <3>4, <2>2, <2>3
    <3> QED BY <3>3, <3>4
  <2>7. DerivesTo(e, n + 1)
    BY <2>5, <2>6 DEF DerivesTo
  <2> QED BY <2>7
<1>3. Nat \subseteq T
  <2> HIDE DEF T
  <2> QED BY <1>1, <1>2, Induction
<1>4. PICK d : DerivesTo(d, bound)
  BY <1>3
<1>5. d = [n \in 0..bound |-> Derived(d, n)]
  BY <1>4 DEF DerivesTo
<1> QED BY <1>5, Zenon DEF DerivesTo, Derivable

LEMMA DerivableEquation ==
  ASSUME NEW bound \in Nat, NEW n \in 0..bound
  PROVE  Derivable(bound)[n] = Derived(Derivable(bound), n)
BY DerivableDerives, Zenon DEF DerivesTo

(* The bound matters only for how far the derivation goes. *)
LEMMA DerivableAgrees ==
  ASSUME NEW a \in Nat, NEW b \in Nat
  PROVE  \A n \in Nat : n <= a /\ n <= b => Derivable(a)[n] = Derivable(b)[n]
<1> DEFINE d == Derivable(a)
           e == Derivable(b)
           T == {n \in Nat : \A i \in 0..n : i <= a /\ i <= b => d[i] = e[i]}
<1>0. ASSUME NEW n \in Nat, n <= a, n <= b, \A i \in 0..(n - 1) : d[i] = e[i] PROVE d[n] = e[n]
  <2>1. d[n] = Derived(d, n) /\ e[n] = Derived(e, n)
    BY <1>0, DerivableEquation
  <2> HIDE DEF d, e
  <2> QED BY <2>1, <1>0, DerivedFromShorter
<1> HIDE DEF d, e
<1>1. 0 \in T
  BY <1>0
<1>2. ASSUME NEW n \in Nat, n \in T PROVE n + 1 \in T
  <2>1. \A i \in 0..n : i <= a /\ i <= b => d[i] = e[i]
    BY <1>2
  <2>2. n + 1 <= a /\ n + 1 <= b => \A i \in 0..((n + 1) - 1) : d[i] = e[i]
    BY <2>1
  <2>3. n + 1 <= a /\ n + 1 <= b => d[n + 1] = e[n + 1]
    BY <2>2, <1>0
  <2>4. \A i \in 0..(n + 1) : i \in 0..n \/ i = n + 1
    OBVIOUS
  <2> QED BY <2>1, <2>3, <2>4
<1>3. Nat \subseteq T
  <2> HIDE DEF T
  <2> QED BY <1>1, <1>2, Induction
<1>4. \A n \in Nat : n <= a /\ n <= b => d[n] = e[n]
  BY <1>3
<1> QED BY <1>4 DEF d, e

(* Everything that can be derived, by its length.                          *)
Whole == [n \in Nat |-> Derivable(n)[n]]

LEMMA DerivableIsWhole ==
  ASSUME NEW bound \in Nat, NEW n \in 0..bound
  PROVE  Derivable(bound)[n] = Whole[n]
<1>1. n \in Nat /\ n <= bound /\ n <= n
  OBVIOUS
<1>2. Derivable(bound)[n] = Derivable(n)[n]
  BY <1>1, DerivableAgrees
<1> QED BY <1>1, <1>2, Zenon DEF Whole

LEMMA WholeEquation ==
  ASSUME NEW n \in Nat
  PROVE  Whole[n] = Derived(Whole, n)
<1>1. n \in 0..n /\ \A i \in 0..(n - 1) : i \in 0..n
  OBVIOUS
<1>2. Derivable(n)[n] = Derived(Derivable(n), n)
  BY <1>1, DerivableEquation
<1>3. \A i \in 0..n : Derivable(n)[i] = Whole[i]
  BY DerivableIsWhole
<1>4. Derived(Derivable(n), n) = Derived(Whole, n)
  BY <1>1, <1>3, DerivedFromShorter
<1> QED BY <1>1, <1>2, <1>3, <1>4

LEMMA BegunFromShorter ==
  ASSUME NEW n \in Nat, NEW d, NEW e, \A i \in 0..n : d[i] = e[i],
         NEW b, NEW c, \A i \in 0..(n - 1) : b[i] = c[i]
  PROVE  Begun(d, b, n) = Begun(e, c, n)
<1>1. \A i \in 1..(n - 1) : d[i] = e[i] /\ b[n - 1 - i] = c[n - 1 - i]
  OBVIOUS
<1>2. /\ Lists(d, "value", b, "elements", n) = Lists(e, "value", c, "elements", n)
      /\ Lists(d, "member", b, "members", n) = Lists(e, "member", c, "members", n)
  BY <1>1, ListsFromShorter
<1>5. d[n] = e[n] /\ (n # 0 => b[n - 1] = c[n - 1])
  OBVIOUS
<1>6. n # 0 => BegunKeyed(b, n) = BegunKeyed(c, n)
  <2>1. CASE n = 1
    BY <2>1, Zenon DEF BegunKeyed
  <2>2. CASE n # 0 /\ n # 1
    <3>1. b[n - 2] = c[n - 2]
      BY <2>2
    <3> QED BY <3>1, Zenon DEF BegunKeyed
  <2> QED BY <2>1, <2>2
<1>7. CASE n = 0
  BY <1>7, Zenon DEF Begun
<1>8. CASE n # 0
  <2>1. BegunValue(d, b, n) = BegunValue(e, c, n)
    BY <1>5, <1>8, Zenon DEF BegunValue
  <2> QED BY <2>1, <1>2, <1>6, <1>8, Zenon DEF Begun
<1> QED BY <1>7, <1>8

BeginsTo(b, bound) == b = [n \in 0..bound |-> Begun(Derivable(bound), b, n)]

LEMMA BeginnableBegins ==
  ASSUME NEW bound \in Nat
  PROVE  \A n \in 0..bound : Beginnable(bound)[n] = Begun(Whole, Beginnable(bound), n)
<1> DEFINE T == {n \in Nat : \E b : b = [k \in 0..n |-> Begun(Whole, b, k)]}
<1>0. \A d, b, k : k \in Nat /\ (\A i \in 0..(k - 1) : b[i] = d[i]) => Begun(Whole, b, k) = Begun(Whole, d, k)
  BY BegunFromShorter
<1>1. 0 \in T
  <2> DEFINE d == [n \in 0..0 |-> Begun(Whole, <<>>, n)]
  <2>1. \A n \in 0..0 : d[n] = Begun(Whole, d, n)
    <3> SUFFICES ASSUME NEW n \in 0..0 PROVE Begun(Whole, <<>>, n) = Begun(Whole, d, n)
      OBVIOUS
    <3>1. n \in Nat /\ \A i \in 0..(n - 1) : <<>>[i] = d[i]
      OBVIOUS
    <3> HIDE DEF d
    <3> QED BY <3>1, <1>0
  <2>2. d = [n \in 0..0 |-> d[n]]
    OBVIOUS
  <2> HIDE DEF d
  <2> QED BY <2>1, <2>2
<1>2. ASSUME NEW n \in Nat, n \in T PROVE n + 1 \in T
  <2>1. PICK d : d = [k \in 0..n |-> Begun(Whole, d, k)]
    BY <1>2
  <2>2. \A k \in 0..n : d[k] = Begun(Whole, d, k)
    BY <2>1, Zenon
  <2> DEFINE e == [k \in 0..(n + 1) |-> IF k <= n THEN d[k] ELSE Begun(Whole, d, n + 1)]
  <2>3. \A i \in 0..n : e[i] = d[i]
    OBVIOUS
  <2>4. e[n + 1] = Begun(Whole, d, n + 1)
    OBVIOUS
  <2>5. e = [k \in 0..(n + 1) |-> e[k]]
    OBVIOUS
  <2> HIDE DEF e
  <2>6. \A k \in 0..(n + 1) : e[k] = Begun(Whole, e, k)
    <3> SUFFICES ASSUME NEW k \in 0..(n + 1) PROVE e[k] = Begun(Whole, e, k)
      OBVIOUS
    <3>1. k \in Nat /\ \A i \in 0..(k - 1) : d[i] = e[i]
      BY <2>3
    <3>2. Begun(Whole, d, k) = Begun(Whole, e, k)
      BY <3>1, <1>0
    <3>3. CASE k = n + 1
      BY <3>2, <3>3, <2>4
    <3>4. CASE k \in 0..n
      BY <3>2, <3>4, <2>2, <2>3
    <3> QED BY <3>3, <3>4
  <2>7. e = [k \in 0..(n + 1) |-> Begun(Whole, e, k)]
    BY <2>5, <2>6
  <2> QED BY <2>7
<1>3. Nat \subseteq T
  <2> HIDE DEF T
  <2> QED BY <1>1, <1>2, Induction
<1>4. PICK d : d = [k \in 0..bound |-> Begun(Whole, d, k)]
  BY <1>3
<1>5. \A b : \A k \in 0..bound : Begun(Derivable(bound), b, k) = Begun(Whole, b, k)
  <2> SUFFICES ASSUME NEW b, NEW k \in 0..bound
               PROVE  Begun(Derivable(bound), b, k) = Begun(Whole, b, k)
    OBVIOUS
  <2>1. k \in Nat /\ \A i \in 0..k : i \in 0..bound
    OBVIOUS
  <2>2. \A i \in 0..k : Derivable(bound)[i] = Whole[i]
    BY <2>1, DerivableIsWhole
  <2> QED BY <2>1, <2>2, BegunFromShorter
<1>6. BeginsTo(d, bound)
  <2>1. \A k \in 0..bound : d[k] = Begun(Derivable(bound), d, k)
    BY <1>4, <1>5
  <2>2. d = [k \in 0..bound |-> d[k]]
    BY <1>4
  <2> QED BY <2>1, <2>2 DEF BeginsTo
<1>7. BeginsTo(Beginnable(bound), bound)
  BY <1>6, Zenon DEF BeginsTo, Beginnable
<1>8. \A k \in 0..bound : Beginnable(bound)[k] = Begun(Derivable(bound), Beginnable(bound), k)
  BY <1>7, Zenon DEF BeginsTo
<1> QED BY <1>5, <1>8

(* Everything that can be begun, by its length. *)
Partly == [n \in Nat |-> Beginnable(n)[n]]

LEMMA BeginnableIsPartly ==
  ASSUME NEW bound \in Nat, NEW n \in 0..bound
  PROVE  Beginnable(bound)[n] = Partly[n]
<1> DEFINE T == {k \in Nat : \A a, b \in Nat : \A i \in 0..k :
                   i <= a /\ i <= b => Beginnable(a)[i] = Beginnable(b)[i]}
<1>0. ASSUME NEW k \in Nat, NEW a \in Nat, NEW b \in Nat, k <= a, k <= b,
             \A i \in 0..(k - 1) : Beginnable(a)[i] = Beginnable(b)[i]
      PROVE  Beginnable(a)[k] = Beginnable(b)[k]
  <2>1. k \in 0..a /\ k \in 0..b
    BY <1>0
  <2>2. /\ Beginnable(a)[k] = Begun(Whole, Beginnable(a), k)
        /\ Beginnable(b)[k] = Begun(Whole, Beginnable(b), k)
    BY <2>1, BeginnableBegins
  <2>3. Begun(Whole, Beginnable(a), k) = Begun(Whole, Beginnable(b), k)
    BY <1>0, BegunFromShorter
  <2> QED BY <2>2, <2>3
<1>1. 0 \in T
  BY <1>0
<1>2. ASSUME NEW k \in Nat, k \in T PROVE k + 1 \in T
  <2> SUFFICES ASSUME NEW a \in Nat, NEW b \in Nat, NEW i \in 0..(k + 1), i <= a, i <= b
               PROVE  Beginnable(a)[i] = Beginnable(b)[i]
    OBVIOUS
  <2>1. \A j \in 0..k : j <= a /\ j <= b => Beginnable(a)[j] = Beginnable(b)[j]
    BY <1>2
  <2>2. CASE i \in 0..k
    BY <2>1, <2>2
  <2>3. CASE i = k + 1
    <3>1. \A j \in 0..(i - 1) : j \in 0..k /\ j <= a /\ j <= b
      BY <2>3
    <3> QED BY <3>1, <2>1, <1>0
  <2> QED BY <2>2, <2>3
<1>3. Nat \subseteq T
  <2> HIDE DEF T
  <2> QED BY <1>1, <1>2, Induction
<1>4. n \in Nat /\ n \in 0..n /\ n <= bound
  OBVIOUS
<1>5. Beginnable(bound)[n] = Beginnable(n)[n]
  BY <1>3, <1>4
<1> QED BY <1>4, <1>5, Zenon DEF Partly

LEMMA PartlyEquation ==
  ASSUME NEW n \in Nat
  PROVE  Partly[n] = Begun(Whole, Partly, n)
<1>1. n \in 0..n /\ \A i \in 0..(n - 1) : i \in 0..n
  OBVIOUS
<1>2. Beginnable(n)[n] = Begun(Whole, Beginnable(n), n)
  BY <1>1, BeginnableBegins
<1>3. \A i \in 0..n : Beginnable(n)[i] = Partly[i]
  BY BeginnableIsPartly
<1>4. Begun(Whole, Beginnable(n), n) = Begun(Whole, Partly, n)
  BY <1>1, <1>3, BegunFromShorter
<1> QED BY <1>1, <1>2, <1>3, <1>4

-----------------------------------------------------------------------------
(* The words of the grammar.                                               *)
Letters == {"string", "scalar", "comma", "colon", "left_brace", "right_brace",
            "left_bracket", "right_bracket"}

Sized(A, n) == \A t \in A : t \in Seq(Letters) /\ Len(t) = n

LEMMA LetterSized ==
  ASSUME NEW w \in Letters
  PROVE  <<w>> \in Seq(Letters) /\ Len(<<w>>) = 1
OBVIOUS

LEMMA EnclosedAre ==
  ASSUME NEW left, NEW S, NEW right, NEW t
  PROVE  t \in Enclosed(left, S, right) <=> \E s \in S : t = <<left>> \o s \o <<right>>
BY Zenon DEF Enclosed

LEMMA KeyedAre ==
  ASSUME NEW A, NEW t
  PROVE  t \in {<<"string", "colon">> \o v : v \in A} <=> \E v \in A : t = <<"string", "colon">> \o v
BY Zenon

LEMMA EnclosedSized ==
  ASSUME NEW left \in Letters, NEW right \in Letters, NEW n \in Nat, NEW S, Sized(S, n)
  PROVE  Sized(Enclosed(left, S, right), n + 2)
<1> SUFFICES ASSUME NEW t \in Enclosed(left, S, right)
             PROVE  t \in Seq(Letters) /\ Len(t) = n + 2
  BY DEF Sized
<1>0. PICK s \in S : t = <<left>> \o s \o <<right>>
  BY Zenon DEF Enclosed
<1>1. s \in Seq(Letters) /\ Len(s) = n
  BY DEF Sized
<1>2. <<left>> \o s \in Seq(Letters) /\ Len(<<left>> \o s) = 1 + n
  BY <1>1, LetterSized, ConcatProperties
<1> QED BY <1>0, <1>2, LetterSized, ConcatProperties

LEMMA JoinedSized ==
  ASSUME NEW A, NEW B, NEW m \in Nat, NEW n \in Nat, Sized(A, m), Sized(B, n)
  PROVE  Sized(Joined(A, B), m + 1 + n)
<1> SUFFICES ASSUME NEW t \in Joined(A, B)
             PROVE  t \in Seq(Letters) /\ Len(t) = m + 1 + n
  BY DEF Sized
<1>0. PICK s \in A, r \in B : t = s \o <<"comma">> \o r
  BY JoinedOut
<1>1. s \in Seq(Letters) /\ Len(s) = m /\ r \in Seq(Letters) /\ Len(r) = n
  BY DEF Sized
<1>2. "comma" \in Letters
  BY DEF Letters
<1>3. s \o <<"comma">> \in Seq(Letters) /\ Len(s \o <<"comma">>) = m + 1
  BY <1>1, <1>2, LetterSized, ConcatProperties
<1> QED BY <1>0, <1>1, <1>3, ConcatProperties

LEMMA ListsSized ==
  ASSUME NEW n \in Nat, NEW d, NEW one, NEW e, NEW list,
         \A i \in 0..(n - 1) : Sized(d[i][one], i) /\ Sized(e[i][list], i)
  PROVE  Sized(Lists(d, one, e, list, n), n)
<1> SUFFICES ASSUME NEW i \in 1..(n - 1), NEW t \in Joined(d[i][one], e[n - 1 - i][list])
             PROVE  t \in Seq(Letters) /\ Len(t) = n
  BY ListsAre DEF Sized
<1> DEFINE k == n - 1 - i
<1>1. i \in Nat /\ k \in Nat /\ i \in 0..(n - 1) /\ k \in 0..(n - 1) /\ i + 1 + k = n
  OBVIOUS
<1>2. Sized(d[i][one], i) /\ Sized(e[k][list], k)
  BY <1>1
<1>3. t \in Joined(d[i][one], e[k][list])
  OBVIOUS
<1> HIDE DEF k
<1>4. Sized(Joined(d[i][one], e[k][list]), i + 1 + k)
  BY <1>1, <1>2, JoinedSized
<1> QED BY <1>1, <1>3, <1>4 DEF Sized

LEMMA KeyedSized ==
  ASSUME NEW A, NEW n \in Nat, Sized(A, n)
  PROVE  Sized({<<"string", "colon">> \o v : v \in A}, n + 2)
<1> SUFFICES ASSUME NEW v \in A, NEW t, t = <<"string", "colon">> \o v
             PROVE  t \in Seq(Letters) /\ Len(t) = n + 2
  BY KeyedAre, Zenon DEF Sized
<1>1. v \in Seq(Letters) /\ Len(v) = n
  BY DEF Sized
<1>2. <<"string", "colon">> \in Seq(Letters) /\ Len(<<"string", "colon">>) = 2
  BY DEF Letters
<1> QED BY <1>1, <1>2, ConcatProperties

LEMMA UnionSized ==
  ASSUME NEW n, NEW A, NEW B, Sized(A, n), Sized(B, n)
  PROVE  Sized(A \cup B, n)
BY Zenon DEF Sized

LEMMA NothingSized == \A n : Sized({}, n)
BY DEF Sized

LEMMA EmptySized == Sized({<<>>}, 0)
BY DEF Sized

PhraseKinds == {"value", "member", "elements", "members"}

LEMMA WholeParts ==
  ASSUME NEW n \in Nat
  PROVE  /\ Whole[n]["value"] =
              (IF n = 1 THEN {<<"scalar">>, <<"string">>} ELSE {})
                \cup Enclosed("left_brace", Inside(Whole, "elements", n), "right_brace")
                \cup Enclosed("left_bracket", Inside(Whole, "members", n), "right_bracket")
         /\ Whole[n]["member"] = Keyed(Whole, n)
         /\ Whole[n]["elements"] = Whole[n]["value"] \cup Lists(Whole, "value", Whole, "elements", n)
         /\ Whole[n]["members"] = Keyed(Whole, n) \cup Lists(Whole, "member", Whole, "members", n)
<1> DEFINE value ==
             (IF n = 1 THEN {<<"scalar">>, <<"string">>} ELSE {})
               \cup Enclosed("left_brace", Inside(Whole, "elements", n), "right_brace")
               \cup Enclosed("left_bracket", Inside(Whole, "members", n), "right_bracket")
<1>1. Whole[n] = [value |-> value, member |-> Keyed(Whole, n),
                  elements |-> value \cup Lists(Whole, "value", Whole, "elements", n),
                  members |-> Keyed(Whole, n) \cup Lists(Whole, "member", Whole, "members", n)]
  BY WholeEquation, Zenon DEF Derived
<1> HIDE DEF value
<1>2. /\ Whole[n]["value"] = value /\ Whole[n]["member"] = Keyed(Whole, n)
      /\ Whole[n]["elements"] = value \cup Lists(Whole, "value", Whole, "elements", n)
      /\ Whole[n]["members"] = Keyed(Whole, n) \cup Lists(Whole, "member", Whole, "members", n)
  BY <1>1
<1> QED BY <1>2, Zenon DEF value

LEMMA WholeSized ==
  ASSUME NEW n \in Nat, NEW part \in PhraseKinds
  PROVE  Sized(Whole[n][part], n)
<1> DEFINE T == {k \in Nat : \A i \in 0..k : \A p \in PhraseKinds : Sized(Whole[i][p], i)}
<1>1. ASSUME NEW k \in Nat, \A i \in 0..(k - 1) : \A p \in PhraseKinds : Sized(Whole[i][p], i)
      PROVE  \A p \in PhraseKinds : Sized(Whole[k][p], k)
  <2> USE DEF PhraseKinds
  <2>1. Sized(IF k = 1 THEN {<<"scalar">>, <<"string">>} ELSE {}, k)
    <3>1. \A w \in {"scalar", "string"} : <<w>> \in Seq(Letters) /\ Len(<<w>>) = 1
      BY LetterSized DEF Letters
    <3> QED BY <3>1 DEF Sized
  <2>2. ASSUME NEW list \in PhraseKinds, NEW left \in Letters, NEW right \in Letters
        PROVE  Sized(Enclosed(left, Inside(Whole, list, k), right), k)
    <3>1. CASE k < 2
      <4>1. Enclosed(left, Inside(Whole, list, k), right) = {}
        <5>1. Inside(Whole, list, k) = {}
          BY <3>1 DEF Inside
        <5>2. \A t : t \notin Enclosed(left, {}, right)
          BY Zenon DEF Enclosed
        <5> QED BY <5>1, <5>2
      <4> QED BY <4>1, NothingSized
    <3>2. CASE ~(k < 2)
      <4> DEFINE m == k - 2
      <4>1. m \in Nat /\ m + 2 = k /\ m \in 0..(k - 1) /\ (k = 2 <=> m = 0)
        BY <3>2
      <4>2. Sized(Whole[m][list], m)
        BY <4>1, <1>1
      <4>3. Inside(Whole, list, k) = IF k = 2 THEN {<<>>} ELSE Whole[m][list]
        BY <3>2 DEF Inside
      <4> HIDE DEF m
      <4>4. Sized(Inside(Whole, list, k), m)
        BY <4>1, <4>2, <4>3, EmptySized
      <4>5. Sized(Enclosed(left, Inside(Whole, list, k), right), m + 2)
        BY <4>1, <4>4, EnclosedSized
      <4> QED BY <4>1, <4>5
    <3> QED BY <3>1, <3>2
  <2>3. Sized(Keyed(Whole, k), k)
    <3>1. CASE k < 3
      BY <3>1, NothingSized DEF Keyed
    <3>2. CASE ~(k < 3)
      <4> DEFINE m == k - 2
                 A == Whole[m]["value"]
      <4>1. m \in Nat /\ m + 2 = k /\ m \in 0..(k - 1)
        BY <3>2
      <4>2. Sized(A, m)
        BY <4>1, <1>1
      <4>3. Keyed(Whole, k) = {<<"string", "colon">> \o v : v \in A}
        BY <3>2, Zenon DEF Keyed
      <4> HIDE DEF m, A
      <4>4. Sized({<<"string", "colon">> \o v : v \in A}, m + 2)
        BY <4>1, <4>2, KeyedSized
      <4> QED BY <4>1, <4>3, <4>4
    <3> QED BY <3>1, <3>2
  <2>4. Sized(Lists(Whole, "value", Whole, "elements", k), k)
    BY <1>1, ListsSized
  <2>5. Sized(Lists(Whole, "member", Whole, "members", k), k)
    BY <1>1, ListsSized
  <2>6. /\ Sized(Enclosed("left_brace", Inside(Whole, "elements", k), "right_brace"), k)
        /\ Sized(Enclosed("left_bracket", Inside(Whole, "members", k), "right_bracket"), k)
    BY <2>2 DEF Letters
  <2>7. Sized(Whole[k]["value"], k)
    <3>1. Whole[k]["value"] =
            (IF k = 1 THEN {<<"scalar">>, <<"string">>} ELSE {})
              \cup Enclosed("left_brace", Inside(Whole, "elements", k), "right_brace")
              \cup Enclosed("left_bracket", Inside(Whole, "members", k), "right_bracket")
      BY WholeParts
    <3> QED BY <3>1, <2>1, <2>6, Zenon DEF Sized
  <2>8. Sized(Whole[k]["member"], k)
    BY <2>3, WholeParts, Zenon
  <2>9. Sized(Whole[k]["elements"], k)
    <3>1. Whole[k]["elements"] = Whole[k]["value"] \cup Lists(Whole, "value", Whole, "elements", k)
      BY WholeParts
    <3> QED BY <3>1, <2>7, <2>4, Zenon DEF Sized
  <2>10. Sized(Whole[k]["members"], k)
    <3>1. Whole[k]["members"] = Keyed(Whole, k) \cup Lists(Whole, "member", Whole, "members", k)
      BY WholeParts
    <3> QED BY <3>1, <2>3, <2>5, Zenon DEF Sized
  <2> QED BY <2>7, <2>8, <2>9, <2>10
<1>2. 0 \in T
  BY <1>1
<1>3. ASSUME NEW k \in Nat, k \in T PROVE k + 1 \in T
  <2>1. \A i \in 0..k : \A p \in PhraseKinds : Sized(Whole[i][p], i)
    BY <1>3
  <2>2. \A i \in 0..((k + 1) - 1) : \A p \in PhraseKinds : Sized(Whole[i][p], i)
    BY <2>1
  <2>3. \A p \in PhraseKinds : Sized(Whole[k + 1][p], k + 1)
    BY <2>2, <1>1
  <2>4. \A i \in 0..(k + 1) : i \in 0..k \/ i = k + 1
    OBVIOUS
  <2>5. \A i \in 0..(k + 1) : \A p \in PhraseKinds : Sized(Whole[i][p], i)
    BY <2>1, <2>3, <2>4, Zenon
  <2> QED BY <2>5
<1>4. Nat \subseteq T
  <2> HIDE DEF T
  <2> QED BY <1>2, <1>3, Induction
<1>5. n \in T /\ n \in 0..n
  BY <1>4
<1> QED BY <1>5

LEMMA PartlyParts ==
  ASSUME NEW n \in Nat
  PROVE  /\ n = 0 => /\ Partly[n]["value"] = {<<>>} /\ Partly[n]["elements"] = {<<>>}
                     /\ Partly[n]["members"] = {<<>>}
         /\ n # 0 => /\ Partly[n]["value"] = BegunValue(Whole, Partly, n)
                     /\ Partly[n]["elements"] =
                          BegunValue(Whole, Partly, n) \cup Lists(Whole, "value", Partly, "elements", n)
                     /\ Partly[n]["members"] =
                          BegunKeyed(Partly, n) \cup Lists(Whole, "member", Partly, "members", n)
<1>1. Partly[n] = Begun(Whole, Partly, n)
  BY PartlyEquation
<1>2. CASE n = 0
  <2>1. Partly[n] = [value |-> {<<>>}, elements |-> {<<>>}, members |-> {<<>>}]
    BY <1>1, <1>2, Zenon DEF Begun
  <2> QED BY <2>1, <1>2
<1>3. CASE n # 0
  <2> DEFINE value == BegunValue(Whole, Partly, n)
             members == BegunKeyed(Partly, n) \cup Lists(Whole, "member", Partly, "members", n)
  <2>1. Partly[n] = [value |-> value,
                     elements |-> value \cup Lists(Whole, "value", Partly, "elements", n),
                     members |-> members]
    BY <1>1, <1>3, Zenon DEF Begun
  <2> HIDE DEF value, members
  <2>2. /\ Partly[n]["value"] = value
        /\ Partly[n]["elements"] = value \cup Lists(Whole, "value", Partly, "elements", n)
        /\ Partly[n]["members"] = members
    BY <2>1
  <2> QED BY <2>2, <1>3, Zenon DEF value, members
<1> QED BY <1>2, <1>3

OpeningKinds == {"value", "elements", "members"}

LEMMA LedSized ==
  ASSUME NEW w \in Letters, NEW S, NEW n \in Nat, Sized(S, n)
  PROVE  Sized({<<w>> \o s : s \in S}, n + 1)
<1> SUFFICES ASSUME NEW t \in {<<w>> \o s : s \in S}
             PROVE  t \in Seq(Letters) /\ Len(t) = n + 1
  BY DEF Sized
<1>1. PICK s \in S : t = <<w>> \o s
  BY Zenon
<1>2. s \in Seq(Letters) /\ Len(s) = n
  BY DEF Sized
<1> QED BY <1>1, <1>2, LetterSized, ConcatProperties

LEMMA PartlySized ==
  ASSUME NEW n \in Nat, NEW part \in OpeningKinds
  PROVE  Sized(Partly[n][part], n)
<1> DEFINE T == {k \in Nat : \A i \in 0..k : \A p \in OpeningKinds : Sized(Partly[i][p], i)}
<1>1. ASSUME NEW k \in Nat,
             \A i \in 0..(k - 1) : \A p \in OpeningKinds : Sized(Partly[i][p], i)
      PROVE  \A p \in OpeningKinds : Sized(Partly[k][p], k)
  <2> USE DEF OpeningKinds
  <2>1. CASE k = 0
    BY <2>1, PartlyParts, EmptySized
  <2>2. CASE k # 0
    <3> DEFINE j == k - 1
    <3>0. j \in Nat /\ j + 1 = k /\ j \in 0..(k - 1)
      BY <2>2
    <3>1. Sized(Partly[j]["elements"], j) /\ Sized(Partly[j]["members"], j)
      BY <3>0, <1>1
    <3>2. BegunValue(Whole, Partly, k) =
            Whole[k]["value"] \cup {<<"left_brace">> \o s : s \in Partly[j]["elements"]}
              \cup {<<"left_bracket">> \o s : s \in Partly[j]["members"]}
      BY Zenon DEF BegunValue
    <3> HIDE DEF j
    <3>3. Sized(Whole[k]["value"], k)
      BY WholeSized DEF PhraseKinds
    <3>4. "left_brace" \in Letters /\ "left_bracket" \in Letters
      BY DEF Letters
    <3>5. /\ Sized({<<"left_brace">> \o s : s \in Partly[j]["elements"]}, k)
          /\ Sized({<<"left_bracket">> \o s : s \in Partly[j]["members"]}, k)
      <4>1. /\ Sized({<<"left_brace">> \o s : s \in Partly[j]["elements"]}, j + 1)
            /\ Sized({<<"left_bracket">> \o s : s \in Partly[j]["members"]}, j + 1)
        BY <3>0, <3>1, <3>4, LedSized
      <4> QED BY <4>1, <3>0
    <3>6. Sized(BegunValue(Whole, Partly, k), k)
      BY <3>2, <3>3, <3>5, Zenon DEF Sized
    <3>7. Sized(BegunKeyed(Partly, k), k)
      <4>1. CASE k = 1
        <5>1. Sized({<<"string">>}, 1)
          <6>1. "string" \in Letters
            BY DEF Letters
          <6> QED BY <6>1, LetterSized DEF Sized
        <5>2. BegunKeyed(Partly, k) = {<<"string">>}
          BY <4>1, Zenon DEF BegunKeyed
        <5> QED BY <5>1, <5>2, <4>1
      <4>2. CASE k # 1
        <5> DEFINE m == k - 2
                   A == Partly[m]["value"]
        <5>1. m \in Nat /\ m + 2 = k /\ m \in 0..(k - 1)
          BY <4>2, <2>2
        <5>2. Sized(A, m)
          BY <5>1, <1>1
        <5>3. BegunKeyed(Partly, k) = {<<"string", "colon">> \o v : v \in A}
          BY <4>2, Zenon DEF BegunKeyed
        <5> HIDE DEF m, A
        <5>4. Sized({<<"string", "colon">> \o v : v \in A}, m + 2)
          BY <5>1, <5>2, KeyedSized
        <5> QED BY <5>1, <5>3, <5>4
      <4> QED BY <4>1, <4>2
    <3>8. \A i \in 0..(k - 1) : \A p \in PhraseKinds : Sized(Whole[i][p], i)
      BY WholeSized
    <3>9. Sized(Lists(Whole, "value", Partly, "elements", k), k)
      BY <1>1, <3>8, ListsSized DEF PhraseKinds
    <3>10. Sized(Lists(Whole, "member", Partly, "members", k), k)
      BY <1>1, <3>8, ListsSized DEF PhraseKinds
    <3>11. /\ Partly[k]["value"] = BegunValue(Whole, Partly, k)
           /\ Partly[k]["elements"] =
                BegunValue(Whole, Partly, k) \cup Lists(Whole, "value", Partly, "elements", k)
           /\ Partly[k]["members"] =
                BegunKeyed(Partly, k) \cup Lists(Whole, "member", Partly, "members", k)
      BY <2>2, PartlyParts
    <3>12. /\ Sized(Partly[k]["value"], k) /\ Sized(Partly[k]["elements"], k)
           /\ Sized(Partly[k]["members"], k)
      BY <3>6, <3>7, <3>9, <3>10, <3>11, UnionSized
    <3> QED BY <3>12
  <2> QED BY <2>1, <2>2
<1>2. 0 \in T
  BY <1>1
<1>3. ASSUME NEW k \in Nat, k \in T PROVE k + 1 \in T
  <2>1. \A i \in 0..k : \A p \in OpeningKinds : Sized(Partly[i][p], i)
    BY <1>3
  <2>2. \A i \in 0..((k + 1) - 1) : \A p \in OpeningKinds : Sized(Partly[i][p], i)
    BY <2>1
  <2>3. \A p \in OpeningKinds : Sized(Partly[k + 1][p], k + 1)
    BY <2>2, <1>1
  <2>4. \A i \in 0..(k + 1) : i \in 0..k \/ i = k + 1
    OBVIOUS
  <2>5. \A i \in 0..(k + 1) : \A p \in OpeningKinds : Sized(Partly[i][p], i)
    BY <2>1, <2>3, <2>4, Zenon
  <2> QED BY <2>5
<1>4. Nat \subseteq T
  <2> HIDE DEF T
  <2> QED BY <1>2, <1>3, Induction
<1>5. n \in T /\ n \in 0..n
  BY <1>4
<1> QED BY <1>5

-----------------------------------------------------------------------------
(* Languages: sets of word sequences of any length. *)
Language == SUBSET Seq(Letters)

Alone(w) == {<<w>>}
Empty == {<<>>}
Cat(A, B) == {a \o b : a \in A, b \in B}

OfAnyLength(e, part) == UNION {e[n][part] : n \in Nat}

Phrases(part) == OfAnyLength(Whole, part)
Openings(part) == OfAnyLength(Partly, part)

LEMMA CatIn ==
  ASSUME NEW A, NEW B, NEW a \in A, NEW b \in B
  PROVE  a \o b \in Cat(A, B)
BY SMT DEF Cat

LEMMA CatOut ==
  ASSUME NEW A, NEW B, NEW t \in Cat(A, B)
  PROVE  \E a \in A, b \in B : t = a \o b
BY SMT DEF Cat

LEMMA CatType ==
  ASSUME NEW A \in Language, NEW B \in Language
  PROVE  Cat(A, B) \in Language
<1> SUFFICES ASSUME NEW t \in Cat(A, B) PROVE t \in Seq(Letters)
  BY Zenon DEF Language
<1>1. PICK a \in A, b \in B : t = a \o b
  BY CatOut
<1> QED BY <1>1, ConcatProperties DEF Language

LEMMA CatMonotone ==
  ASSUME NEW A, NEW B, NEW C, NEW D, A \subseteq C, B \subseteq D
  PROVE  Cat(A, B) \subseteq Cat(C, D)
BY SMT DEF Cat

LEMMA CatAssociative ==
  ASSUME NEW A \in Language, NEW B \in Language, NEW C \in Language
  PROVE  Cat(Cat(A, B), C) = Cat(A, Cat(B, C))
<1>0. \A a \in A, b \in B, c \in C : (a \o b) \o c = a \o (b \o c)
  BY ConcatAssociative DEF Language
<1>1. ASSUME NEW t \in Cat(Cat(A, B), C) PROVE t \in Cat(A, Cat(B, C))
  <2>1. PICK u \in Cat(A, B), c \in C : t = u \o c
    BY CatOut
  <2>2. PICK a \in A, b \in B : u = a \o b
    BY CatOut
  <2>3. b \o c \in Cat(B, C)
    BY CatIn
  <2>4. a \o (b \o c) \in Cat(A, Cat(B, C))
    BY <2>3, CatIn
  <2> QED BY <2>1, <2>2, <2>4, <1>0
<1>2. ASSUME NEW t \in Cat(A, Cat(B, C)) PROVE t \in Cat(Cat(A, B), C)
  <2>1. PICK a \in A, u \in Cat(B, C) : t = a \o u
    BY CatOut
  <2>2. PICK b \in B, c \in C : u = b \o c
    BY CatOut
  <2>3. a \o b \in Cat(A, B)
    BY CatIn
  <2>4. (a \o b) \o c \in Cat(Cat(A, B), C)
    BY <2>3, CatIn
  <2> QED BY <2>1, <2>2, <2>4, <1>0
<1> QED BY <1>1, <1>2

LEMMA CatNothing ==
  ASSUME NEW A \in Language
  PROVE  Cat(Empty, A) = A /\ Cat(A, Empty) = A
<1>0. \A a \in A : <<>> \o a = a /\ a \o <<>> = a
  BY ConcatEmptySeq DEF Language
<1>1. Cat(Empty, A) = A
  <2>1. \A t \in A : <<>> \o t \in Cat(Empty, A)
    BY CatIn DEF Empty
  <2>2. ASSUME NEW t \in Cat(Empty, A) PROVE t \in A
    <3>1. PICK n \in Empty, a \in A : t = n \o a
      BY CatOut
    <3> QED BY <3>1, <1>0 DEF Empty
  <2> QED BY <2>1, <2>2, <1>0
<1>2. Cat(A, Empty) = A
  <2>1. \A t \in A : t \o <<>> \in Cat(A, Empty)
    BY CatIn DEF Empty
  <2>2. ASSUME NEW t \in Cat(A, Empty) PROVE t \in A
    <3>1. PICK a \in A, n \in Empty : t = a \o n
      BY CatOut
    <3> QED BY <3>1, <1>0 DEF Empty
  <2> QED BY <2>1, <2>2, <1>0
<1> QED BY <1>1, <1>2

LEMMA CatUnion ==
  ASSUME NEW A, NEW B, NEW C
  PROVE  /\ Cat(A \cup B, C) = Cat(A, C) \cup Cat(B, C)
         /\ Cat(C, A \cup B) = Cat(C, A) \cup Cat(C, B)
<1>1. /\ A \subseteq A \cup B /\ B \subseteq A \cup B /\ C \subseteq C
  OBVIOUS
<1>2. /\ Cat(A, C) \subseteq Cat(A \cup B, C) /\ Cat(B, C) \subseteq Cat(A \cup B, C)
      /\ Cat(C, A) \subseteq Cat(C, A \cup B) /\ Cat(C, B) \subseteq Cat(C, A \cup B)
  BY <1>1, CatMonotone
<1>3. ASSUME NEW t \in Cat(A \cup B, C) PROVE t \in Cat(A, C) \cup Cat(B, C)
  <2>1. PICK a \in A \cup B, c \in C : t = a \o c
    BY CatOut
  <2> QED BY <2>1, CatIn
<1>4. ASSUME NEW t \in Cat(C, A \cup B) PROVE t \in Cat(C, A) \cup Cat(C, B)
  <2>1. PICK c \in C, a \in A \cup B : t = c \o a
    BY CatOut
  <2> QED BY <2>1, CatIn
<1> QED BY <1>2, <1>3, <1>4

LEMMA CatEmpty == ASSUME NEW C PROVE Cat({}, C) = {} /\ Cat(C, {}) = {}
<1>1. \A t : t \notin Cat({}, C)
  BY CatOut
<1>2. \A t : t \notin Cat(C, {})
  BY CatOut
<1> QED BY <1>1, <1>2

LEMMA WordType == ASSUME NEW w \in Letters PROVE Alone(w) \in Language
BY LetterSized DEF Alone, Language

LEMMA PhraseOut ==
  ASSUME NEW part \in PhraseKinds, NEW t \in Phrases(part)
  PROVE  \E n \in Nat : t \in Whole[n][part] /\ t \in Seq(Letters) /\ Len(t) = n
<1>1. PICK n \in Nat : t \in Whole[n][part]
  BY Zenon DEF Phrases, OfAnyLength
<1> QED BY <1>1, WholeSized DEF Sized

LEMMA PhraseIn ==
  ASSUME NEW n \in Nat, NEW part, NEW t \in Whole[n][part]
  PROVE  t \in Phrases(part)
BY Zenon DEF Phrases, OfAnyLength

LEMMA OpeningOut ==
  ASSUME NEW part \in OpeningKinds, NEW t \in Openings(part)
  PROVE  \E n \in Nat : t \in Partly[n][part] /\ t \in Seq(Letters) /\ Len(t) = n
<1>1. PICK n \in Nat : t \in Partly[n][part]
  BY Zenon DEF Openings, OfAnyLength
<1> QED BY <1>1, PartlySized DEF Sized

LEMMA OpeningIn ==
  ASSUME NEW n \in Nat, NEW part, NEW t \in Partly[n][part]
  PROVE  t \in Openings(part)
BY Zenon DEF Openings, OfAnyLength

LEMMA PhrasesType == ASSUME NEW part \in PhraseKinds PROVE Phrases(part) \in Language
BY PhraseOut, Zenon DEF Language

LEMMA OpeningsType == ASSUME NEW part \in OpeningKinds PROVE Openings(part) \in Language
BY OpeningOut, Zenon DEF Language

(* What a container has inside, between its marks. *)
Contained(left, list, right) == Cat(Alone(left), Cat(Empty \cup Phrases(list), Alone(right)))

LEMMA EnclosedCat ==
  ASSUME NEW left \in Letters, NEW right \in Letters, NEW S \in Language
  PROVE  Enclosed(left, S, right) = Cat(Alone(left), Cat(S, Alone(right)))
<1>0. \A s \in S : <<left>> \o s \o <<right>> = <<left>> \o (s \o <<right>>)
  BY LetterSized, ConcatAssociative DEF Language
<1>1. ASSUME NEW t \in Enclosed(left, S, right) PROVE t \in Cat(Alone(left), Cat(S, Alone(right)))
  <2>1. PICK s \in S : t = <<left>> \o s \o <<right>>
    BY Zenon DEF Enclosed
  <2>2. s \o <<right>> \in Cat(S, Alone(right))
    BY CatIn DEF Alone
  <2>3. <<left>> \o (s \o <<right>>) \in Cat(Alone(left), Cat(S, Alone(right)))
    BY <2>2, CatIn DEF Alone
  <2> QED BY <2>1, <2>3, <1>0
<1>2. ASSUME NEW t \in Cat(Alone(left), Cat(S, Alone(right))) PROVE t \in Enclosed(left, S, right)
  <2>1. PICK a \in Alone(left), u \in Cat(S, Alone(right)) : t = a \o u
    BY CatOut
  <2>2. PICK s \in S, b \in Alone(right) : u = s \o b
    BY CatOut
  <2>3. t = <<left>> \o s \o <<right>>
    BY <2>1, <2>2, <1>0 DEF Alone
  <2> QED BY <2>3, Zenon DEF Enclosed
<1> QED BY <1>1, <1>2

LEMMA JoinedCat ==
  ASSUME NEW A \in Language, NEW B \in Language
  PROVE  Joined(A, B) = Cat(A, Cat(Alone("comma"), B))
<1>0. \A s \in A, r \in B : s \o <<"comma">> \o r = s \o (<<"comma">> \o r)
  <2>1. "comma" \in Letters
    BY DEF Letters
  <2> QED BY <2>1, LetterSized, ConcatAssociative DEF Language
<1>1. ASSUME NEW t \in Joined(A, B) PROVE t \in Cat(A, Cat(Alone("comma"), B))
  <2>1. PICK s \in A, r \in B : t = s \o <<"comma">> \o r
    BY JoinedOut
  <2>2. <<"comma">> \o r \in Cat(Alone("comma"), B)
    BY CatIn DEF Alone
  <2>3. s \o (<<"comma">> \o r) \in Cat(A, Cat(Alone("comma"), B))
    BY <2>2, CatIn
  <2> QED BY <2>1, <2>3, <1>0
<1>2. ASSUME NEW t \in Cat(A, Cat(Alone("comma"), B)) PROVE t \in Joined(A, B)
  <2>1. PICK s \in A, u \in Cat(Alone("comma"), B) : t = s \o u
    BY CatOut
  <2>2. PICK a \in Alone("comma"), r \in B : u = a \o r
    BY CatOut
  <2>3. t = s \o <<"comma">> \o r
    BY <2>1, <2>2, <1>0 DEF Alone
  <2> QED BY <2>3, JoinedIn
<1> QED BY <1>1, <1>2

KeyAnd(A) == Cat(Alone("string"), Cat(Alone("colon"), A))

LEMMA KeyedCat ==
  ASSUME NEW A \in Language
  PROVE  {<<"string", "colon">> \o v : v \in A} = KeyAnd(A)
<1>0. \A v \in A : <<"string", "colon">> \o v = <<"string">> \o (<<"colon">> \o v)
  <2>1. "string" \in Letters /\ "colon" \in Letters
    BY DEF Letters
  <2>2. <<"string", "colon">> = <<"string">> \o <<"colon">>
    OBVIOUS
  <2> QED BY <2>1, <2>2, LetterSized, ConcatAssociative DEF Language
<1>1. ASSUME NEW t \in {<<"string", "colon">> \o v : v \in A} PROVE t \in KeyAnd(A)
  <2>1. PICK v \in A : t = <<"string", "colon">> \o v
    BY Zenon
  <2>2. <<"colon">> \o v \in Cat(Alone("colon"), A)
    BY CatIn DEF Alone
  <2>3. <<"string">> \o (<<"colon">> \o v) \in KeyAnd(A)
    BY <2>2, CatIn DEF Alone, KeyAnd
  <2> QED BY <2>1, <2>3, <1>0
<1>2. ASSUME NEW t \in KeyAnd(A) PROVE t \in {<<"string", "colon">> \o v : v \in A}
  <2>0. t \in Cat(Alone("string"), Cat(Alone("colon"), A))
    BY DEF KeyAnd
  <2>1. PICK s \in Alone("string"), u \in Cat(Alone("colon"), A) : t = s \o u
    BY <2>0, CatOut
  <2>2. PICK a \in Alone("colon"), v \in A : u = a \o v
    BY CatOut
  <2>3. t = <<"string", "colon">> \o v
    BY <2>1, <2>2, <1>0 DEF Alone
  <2> QED BY <2>3, Zenon
<1> QED BY <1>1, <1>2

LEMMA InsideOut ==
  ASSUME NEW list \in PhraseKinds, NEW n \in Nat
  PROVE  Inside(Whole, list, n) \subseteq Empty \cup Phrases(list)
<1> SUFFICES ASSUME NEW s \in Inside(Whole, list, n) PROVE s \in Empty \cup Phrases(list)
  OBVIOUS
<1>1. CASE n < 2
  BY <1>1 DEF Inside
<1>2. CASE n = 2
  BY <1>2 DEF Inside, Empty
<1>3. CASE n > 2
  <2>1. n - 2 \in Nat /\ s \in Whole[n - 2][list]
    BY <1>3 DEF Inside
  <2> QED BY <2>1, PhraseIn
<1> QED BY <1>1, <1>2, <1>3

LEMMA InsideIn ==
  ASSUME NEW list \in PhraseKinds, NEW s \in Empty \cup Phrases(list)
  PROVE  \E n \in Nat : s \in Inside(Whole, list, n)
<1>1. CASE s = <<>>
  <2>1. s \in Inside(Whole, list, 2)
    BY <1>1 DEF Inside
  <2> QED BY <2>1
<1>2. CASE s # <<>>
  <2>1. PICK m \in Nat : s \in Whole[m][list] /\ s \in Seq(Letters) /\ Len(s) = m
    BY <1>2, PhraseOut DEF Empty
  <2>2. m # 0
    BY <1>2, <2>1, EmptySeq
  <2> DEFINE n == m + 2
  <2>3. n \in Nat /\ n > 2 /\ n - 2 = m
    BY <2>2
  <2> HIDE DEF n
  <2>4. Inside(Whole, list, n) = Whole[m][list]
    BY <2>3 DEF Inside
  <2> QED BY <2>1, <2>3, <2>4
<1> QED BY <1>1, <1>2

LEMMA NothingType == Empty \in Language
BY DEF Empty, Language

LEMMA PhraseContained ==
  ASSUME NEW list \in PhraseKinds, NEW left \in Letters, NEW right \in Letters
  PROVE  /\ \A n \in Nat : Enclosed(left, Inside(Whole, list, n), right) \subseteq Contained(left, list, right)
         /\ \A t \in Contained(left, list, right) : \E n \in Nat :
              t \in Enclosed(left, Inside(Whole, list, n), right)
<1>0. /\ Phrases(list) \in Language /\ Empty \in Language
      /\ \A n \in Nat : Inside(Whole, list, n) \in Language
  BY PhrasesType, NothingType, InsideOut DEF Language
<1>1. ASSUME NEW n \in Nat
      PROVE  Enclosed(left, Inside(Whole, list, n), right) \subseteq Contained(left, list, right)
  <2> DEFINE I == Inside(Whole, list, n)
  <2>1. I \in Language /\ I \subseteq Empty \cup Phrases(list)
    BY <1>0, InsideOut
  <2> HIDE DEF I
  <2>2. Cat(I, Alone(right)) \subseteq Cat(Empty \cup Phrases(list), Alone(right))
    BY <2>1, CatMonotone
  <2>3. Cat(Alone(left), Cat(I, Alone(right))) \subseteq Contained(left, list, right)
    BY <2>2, CatMonotone DEF Contained
  <2>4. Enclosed(left, I, right) = Cat(Alone(left), Cat(I, Alone(right)))
    BY <2>1, EnclosedCat
  <2> QED BY <2>3, <2>4 DEF I
<1>2. ASSUME NEW t \in Contained(left, list, right)
      PROVE  \E n \in Nat : t \in Enclosed(left, Inside(Whole, list, n), right)
  <2>0. t \in Cat(Alone(left), Cat(Empty \cup Phrases(list), Alone(right)))
    BY DEF Contained
  <2>1. PICK a \in Alone(left), u \in Cat(Empty \cup Phrases(list), Alone(right)) : t = a \o u
    BY <2>0, CatOut
  <2>2. PICK s \in Empty \cup Phrases(list), b \in Alone(right) : u = s \o b
    BY CatOut
  <2>3. PICK n \in Nat : s \in Inside(Whole, list, n)
    BY InsideIn
  <2> DEFINE I == Inside(Whole, list, n)
  <2>4. I \in Language /\ s \in I
    BY <1>0, <2>3
  <2> HIDE DEF I
  <2>5. u \in Cat(I, Alone(right))
    BY <2>2, <2>4, CatIn
  <2>6. t \in Cat(Alone(left), Cat(I, Alone(right)))
    BY <2>1, <2>5, CatIn
  <2>7. t \in Enclosed(left, I, right)
    BY <2>4, <2>6, EnclosedCat
  <2> QED BY <2>7 DEF I
<1> QED BY <1>1, <1>2

LEMMA ValuePhrases ==
  Phrases("value") = (Alone("scalar") \cup Alone("string"))
                       \cup (Contained("left_brace", "elements", "right_brace")
                               \cup Contained("left_bracket", "members", "right_bracket"))
<1> USE DEF PhraseKinds, Letters
<1>1. ASSUME NEW t \in Phrases("value")
      PROVE  t \in (Alone("scalar") \cup Alone("string"))
                       \cup (Contained("left_brace", "elements", "right_brace")
                               \cup Contained("left_bracket", "members", "right_bracket"))
  <2>1. PICK n \in Nat : t \in Whole[n]["value"]
    BY PhraseOut
  <2>2. \/ n = 1 /\ t \in {<<"scalar">>, <<"string">>}
        \/ t \in Enclosed("left_brace", Inside(Whole, "elements", n), "right_brace")
        \/ t \in Enclosed("left_bracket", Inside(Whole, "members", n), "right_bracket")
    BY <2>1, WholeParts
  <2> QED BY <2>2, PhraseContained DEF Alone
<1>2. ASSUME NEW t \in Alone("scalar") \cup Alone("string") PROVE t \in Phrases("value")
  <2>1. t \in Whole[1]["value"]
    BY WholeParts DEF Alone
  <2> QED BY <2>1, PhraseIn
<1>3. ASSUME NEW t \in Contained("left_brace", "elements", "right_brace")
      PROVE  t \in Phrases("value")
  <2>1. PICK n \in Nat : t \in Enclosed("left_brace", Inside(Whole, "elements", n), "right_brace")
    BY PhraseContained
  <2>2. t \in Whole[n]["value"]
    BY <2>1, WholeParts
  <2> QED BY <2>2, PhraseIn
<1>4. ASSUME NEW t \in Contained("left_bracket", "members", "right_bracket")
      PROVE  t \in Phrases("value")
  <2>1. PICK n \in Nat : t \in Enclosed("left_bracket", Inside(Whole, "members", n), "right_bracket")
    BY PhraseContained
  <2>2. t \in Whole[n]["value"]
    BY <2>1, WholeParts
  <2> QED BY <2>2, PhraseIn
<1> QED BY <1>1, <1>2, <1>3, <1>4

LEMMA NoEmptyPhrase == \A t : t \notin Whole[0]["value"] /\ t \notin Whole[0]["member"]
<1>1. Inside(Whole, "elements", 0) = {} /\ Inside(Whole, "members", 0) = {}
  BY DEF Inside
<1>2. \A left, right, t : t \notin Enclosed(left, {}, right)
  BY Zenon DEF Enclosed
<1>3. Keyed(Whole, 0) = {}
  BY DEF Keyed
<1>4. Whole[0]["value"] =
        (IF 0 = 1 THEN {<<"scalar">>, <<"string">>} ELSE {})
          \cup Enclosed("left_brace", Inside(Whole, "elements", 0), "right_brace")
          \cup Enclosed("left_bracket", Inside(Whole, "members", 0), "right_bracket")
  BY WholeParts
<1>5. Whole[0]["member"] = Keyed(Whole, 0)
  BY WholeParts
<1>6. \A t : t \notin Enclosed("left_brace", Inside(Whole, "elements", 0), "right_brace")
             /\ t \notin Enclosed("left_bracket", Inside(Whole, "members", 0), "right_bracket")
  BY <1>1, <1>2, Zenon
<1> QED BY <1>3, <1>4, <1>5, <1>6

LEMMA MemberPhrases == Phrases("member") = KeyAnd(Phrases("value"))
<1> USE DEF PhraseKinds
<1>0. Phrases("value") \in Language
  BY PhrasesType
<1>1. ASSUME NEW t \in Phrases("member") PROVE t \in KeyAnd(Phrases("value"))
  <2>1. PICK n \in Nat : t \in Whole[n]["member"]
    BY PhraseOut
  <2>2. t \in Keyed(Whole, n)
    BY <2>1, WholeParts
  <2>3. n - 2 \in Nat /\ t \in {<<"string", "colon">> \o v : v \in Whole[n - 2]["value"]}
    BY <2>2 DEF Keyed
  <2>4. PICK v \in Whole[n - 2]["value"] : t = <<"string", "colon">> \o v
    BY <2>3, Zenon
  <2>5. v \in Phrases("value")
    BY <2>3, PhraseIn
  <2>6. t \in {<<"string", "colon">> \o x : x \in Phrases("value")}
    BY <2>4, <2>5, Zenon
  <2> QED BY <2>6, <1>0, KeyedCat
<1>2. ASSUME NEW t \in KeyAnd(Phrases("value")) PROVE t \in Phrases("member")
  <2>1. t \in {<<"string", "colon">> \o x : x \in Phrases("value")}
    BY <1>0, KeyedCat
  <2>2. PICK v \in Phrases("value") : t = <<"string", "colon">> \o v
    BY <2>1, Zenon
  <2>3. PICK m \in Nat : v \in Whole[m]["value"] /\ v \in Seq(Letters) /\ Len(v) = m
    BY PhraseOut
  <2>4. m # 0
    BY <2>3, NoEmptyPhrase
  <2> DEFINE n == m + 2
  <2>5. n \in Nat /\ ~(n < 3) /\ n - 2 = m
    BY <2>4
  <2> HIDE DEF n
  <2>6. t \in Keyed(Whole, n)
    <3>1. Keyed(Whole, n) = {<<"string", "colon">> \o x : x \in Whole[n - 2]["value"]}
      BY <2>5, Zenon DEF Keyed
    <3> QED BY <3>1, <2>2, <2>3, <2>5, Zenon
  <2>7. t \in Whole[n]["member"]
    BY <2>5, <2>6, WholeParts
  <2> QED BY <2>5, <2>7, PhraseIn
<1> QED BY <1>1, <1>2

(* A list, of phrases and of what may follow a comma. *)
LEMMA ListOut ==
  ASSUME NEW one \in PhraseKinds, NEW e, NEW list, NEW n \in Nat,
         NEW t \in Lists(Whole, one, e, list, n), OfAnyLength(e, list) \in Language
  PROVE  t \in Cat(Phrases(one), Cat(Alone("comma"), OfAnyLength(e, list)))
<1>1. PICK i \in 1..(n - 1) : t \in Joined(Whole[i][one], e[n - 1 - i][list])
  BY ListsAre, Zenon
<1> DEFINE A == Whole[i][one]
           B == e[n - 1 - i][list]
<1>2. i \in Nat /\ n - 1 - i \in Nat /\ t \in Joined(A, B)
  BY <1>1
<1>3. A \subseteq Phrases(one)
  BY <1>2, PhraseIn
<1>4. B \subseteq OfAnyLength(e, list)
  BY <1>2, Zenon DEF OfAnyLength
<1> HIDE DEF A, B
<1>5. PICK s \in A, r \in B : t = s \o <<"comma">> \o r
  BY <1>2, JoinedOut
<1>6. t \in Joined(Phrases(one), OfAnyLength(e, list))
  BY <1>3, <1>4, <1>5, JoinedIn
<1> QED BY <1>6, PhrasesType, JoinedCat

LEMMA ListIn ==
  ASSUME NEW one \in {"value", "member"}, NEW e, NEW list, OfAnyLength(e, list) \in Language,
         NEW t \in Cat(Phrases(one), Cat(Alone("comma"), OfAnyLength(e, list)))
  PROVE  \E n \in Nat : n # 0 /\ t \in Lists(Whole, one, e, list, n)
<1>0. one \in PhraseKinds
  BY DEF PhraseKinds
<1>1. t \in Joined(Phrases(one), OfAnyLength(e, list))
  BY <1>0, PhrasesType, JoinedCat
<1>2. PICK s \in Phrases(one), r \in OfAnyLength(e, list) : t = s \o <<"comma">> \o r
  BY <1>1, JoinedOut
<1>3. PICK i \in Nat : s \in Whole[i][one]
  BY <1>0, PhraseOut
<1>4. PICK k \in Nat : r \in e[k][list]
  BY Zenon DEF OfAnyLength
<1>5. i # 0
  BY <1>3, NoEmptyPhrase
<1> DEFINE n == i + 1 + k
<1>6. n \in Nat /\ i \in 1..(n - 1) /\ n - 1 - i = k /\ n # 0
  BY <1>5
<1> HIDE DEF n
<1>7. t \in Joined(Whole[i][one], e[k][list])
  BY <1>2, <1>3, <1>4, JoinedIn
<1>8. t \in Joined(Whole[i][one], e[n - 1 - i][list])
  BY <1>6, <1>7
<1>9. t \in Lists(Whole, one, e, list, n)
  BY <1>6, <1>8, ListsAre, Zenon
<1> QED BY <1>6, <1>9

LEMMA ListPhrases ==
  /\ Phrases("elements") = Phrases("value")
                             \cup Cat(Phrases("value"), Cat(Alone("comma"), Phrases("elements")))
  /\ Phrases("members") = Phrases("member")
                             \cup Cat(Phrases("member"), Cat(Alone("comma"), Phrases("members")))
<1> USE DEF PhraseKinds
<1>0. /\ OfAnyLength(Whole, "elements") = Phrases("elements")
      /\ OfAnyLength(Whole, "members") = Phrases("members")
      /\ Phrases("elements") \in Language /\ Phrases("members") \in Language
  BY PhrasesType DEF Phrases
<1>1. ASSUME NEW t \in Phrases("elements")
      PROVE  t \in Phrases("value")
                     \cup Cat(Phrases("value"), Cat(Alone("comma"), Phrases("elements")))
  <2>1. PICK n \in Nat : t \in Whole[n]["elements"]
    BY PhraseOut
  <2>2. t \in Whole[n]["value"] \/ t \in Lists(Whole, "value", Whole, "elements", n)
    BY <2>1, WholeParts
  <2>3. CASE t \in Whole[n]["value"]
    BY <2>3, PhraseIn
  <2>4. CASE t \in Lists(Whole, "value", Whole, "elements", n)
    <3>1. t \in Cat(Phrases("value"), Cat(Alone("comma"), OfAnyLength(Whole, "elements")))
      BY <2>4, <1>0, ListOut
    <3> QED BY <3>1, <1>0
  <2> QED BY <2>2, <2>3, <2>4
<1>2. ASSUME NEW t \in Phrases("members")
      PROVE  t \in Phrases("member")
                     \cup Cat(Phrases("member"), Cat(Alone("comma"), Phrases("members")))
  <2>1. PICK n \in Nat : t \in Whole[n]["members"]
    BY PhraseOut
  <2>2. t \in Whole[n]["member"] \/ t \in Lists(Whole, "member", Whole, "members", n)
    BY <2>1, WholeParts
  <2>3. CASE t \in Whole[n]["member"]
    BY <2>3, PhraseIn
  <2>4. CASE t \in Lists(Whole, "member", Whole, "members", n)
    <3>1. t \in Cat(Phrases("member"), Cat(Alone("comma"), OfAnyLength(Whole, "members")))
      BY <2>4, <1>0, ListOut
    <3> QED BY <3>1, <1>0
  <2> QED BY <2>2, <2>3, <2>4
<1>3. ASSUME NEW t \in Phrases("value") PROVE t \in Phrases("elements")
  <2>1. PICK n \in Nat : t \in Whole[n]["value"]
    BY PhraseOut
  <2>2. t \in Whole[n]["elements"]
    BY <2>1, WholeParts
  <2> QED BY <2>2, PhraseIn
<1>4. ASSUME NEW t \in Phrases("member") PROVE t \in Phrases("members")
  <2>1. PICK n \in Nat : t \in Whole[n]["member"]
    BY PhraseOut
  <2>2. t \in Whole[n]["members"]
    BY <2>1, WholeParts
  <2> QED BY <2>2, PhraseIn
<1>5. ASSUME NEW t \in Cat(Phrases("value"), Cat(Alone("comma"), Phrases("elements")))
      PROVE  t \in Phrases("elements")
  <2>1. t \in Cat(Phrases("value"), Cat(Alone("comma"), OfAnyLength(Whole, "elements")))
    BY <1>0
  <2>2. PICK n \in Nat : n # 0 /\ t \in Lists(Whole, "value", Whole, "elements", n)
    BY <2>1, <1>0, ListIn
  <2>3. t \in Whole[n]["elements"]
    BY <2>2, WholeParts
  <2> QED BY <2>3, PhraseIn
<1>6. ASSUME NEW t \in Cat(Phrases("member"), Cat(Alone("comma"), Phrases("members")))
      PROVE  t \in Phrases("members")
  <2>1. t \in Cat(Phrases("member"), Cat(Alone("comma"), OfAnyLength(Whole, "members")))
    BY <1>0
  <2>2. PICK n \in Nat : n # 0 /\ t \in Lists(Whole, "member", Whole, "members", n)
    BY <2>1, <1>0, ListIn
  <2>3. t \in Whole[n]["members"]
    BY <2>2, WholeParts
  <2> QED BY <2>3, PhraseIn
<1> QED BY <1>1, <1>2, <1>3, <1>4, <1>5, <1>6

LEMMA LedCat ==
  ASSUME NEW w, NEW S
  PROVE  {<<w>> \o s : s \in S} = Cat(Alone(w), S)
<1>1. ASSUME NEW t \in {<<w>> \o s : s \in S} PROVE t \in Cat(Alone(w), S)
  <2>1. PICK s \in S : t = <<w>> \o s
    BY Zenon
  <2> QED BY <2>1, CatIn DEF Alone
<1>2. ASSUME NEW t \in Cat(Alone(w), S) PROVE t \in {<<w>> \o s : s \in S}
  <2>1. PICK a \in Alone(w), s \in S : t = a \o s
    BY CatOut
  <2>2. t = <<w>> \o s
    BY <2>1 DEF Alone
  <2> QED BY <2>2, Zenon
<1> QED BY <1>1, <1>2

(* The beginning of a container. *)
LEMMA LedOpening ==
  ASSUME NEW list \in OpeningKinds, NEW w \in Letters, NEW t
  PROVE  t \in Cat(Alone(w), Openings(list)) <=>
           \E n \in Nat : n # 0 /\ t \in Cat(Alone(w), Partly[n - 1][list])
<1>1. ASSUME t \in Cat(Alone(w), Openings(list))
      PROVE  \E n \in Nat : n # 0 /\ t \in Cat(Alone(w), Partly[n - 1][list])
  <2>1. PICK a \in Alone(w), s \in Openings(list) : t = a \o s
    BY <1>1, CatOut
  <2>2. PICK k \in Nat : s \in Partly[k][list]
    BY OpeningOut
  <2>3. t \in Cat(Alone(w), Partly[k][list])
    BY <2>1, <2>2, CatIn
  <2>4. k + 1 \in Nat /\ k + 1 # 0 /\ (k + 1) - 1 = k
    OBVIOUS
  <2>5. t \in Cat(Alone(w), Partly[(k + 1) - 1][list])
    BY <2>3, <2>4
  <2> QED BY <2>4, <2>5
<1>2. ASSUME NEW n \in Nat, n # 0, t \in Cat(Alone(w), Partly[n - 1][list])
      PROVE  t \in Cat(Alone(w), Openings(list))
  <2>1. PICK a \in Alone(w), s \in Partly[n - 1][list] : t = a \o s
    BY <1>2, CatOut
  <2>2. n - 1 \in Nat
    BY <1>2
  <2>3. s \in Openings(list)
    BY <2>2, OpeningIn
  <2> QED BY <2>1, <2>3, CatIn
<1> QED BY <1>1, <1>2

LEMMA BegunValueIs ==
  ASSUME NEW n \in Nat
  PROVE  BegunValue(Whole, Partly, n) =
           (Whole[n]["value"] \cup Cat(Alone("left_brace"), Partly[n - 1]["elements"]))
             \cup Cat(Alone("left_bracket"), Partly[n - 1]["members"])
<1>1. /\ {<<"left_brace">> \o s : s \in Partly[n - 1]["elements"]}
           = Cat(Alone("left_brace"), Partly[n - 1]["elements"])
      /\ {<<"left_bracket">> \o s : s \in Partly[n - 1]["members"]}
           = Cat(Alone("left_bracket"), Partly[n - 1]["members"])
  BY LedCat
<1> QED BY <1>1, Zenon DEF BegunValue

LEMMA ValueOpenings ==
  Openings("value") = (Empty \cup Phrases("value"))
                        \cup (Cat(Alone("left_brace"), Openings("elements"))
                                \cup Cat(Alone("left_bracket"), Openings("members")))
<1> USE DEF PhraseKinds, OpeningKinds, Letters
<1>1. ASSUME NEW t \in Openings("value")
      PROVE  t \in (Empty \cup Phrases("value"))
                        \cup (Cat(Alone("left_brace"), Openings("elements"))
                                \cup Cat(Alone("left_bracket"), Openings("members")))
  <2>1. PICK n \in Nat : t \in Partly[n]["value"]
    BY OpeningOut
  <2>2. CASE n = 0
    BY <2>1, <2>2, PartlyParts DEF Empty
  <2>3. CASE n # 0
    <3>1. t \in BegunValue(Whole, Partly, n)
      BY <2>1, <2>3, PartlyParts
    <3>2. \/ t \in Whole[n]["value"]
          \/ t \in Cat(Alone("left_brace"), Partly[n - 1]["elements"])
          \/ t \in Cat(Alone("left_bracket"), Partly[n - 1]["members"])
      BY <3>1, BegunValueIs
    <3>3. CASE t \in Whole[n]["value"]
      BY <3>3, PhraseIn
    <3>4. CASE t \in Cat(Alone("left_brace"), Partly[n - 1]["elements"])
      BY <3>4, <2>3, LedOpening
    <3>5. CASE t \in Cat(Alone("left_bracket"), Partly[n - 1]["members"])
      BY <3>5, <2>3, LedOpening
    <3> QED BY <3>2, <3>3, <3>4, <3>5
  <2> QED BY <2>2, <2>3
<1>2. <<>> \in Openings("value")
  <2>1. <<>> \in Partly[0]["value"]
    BY PartlyParts
  <2> QED BY <2>1, OpeningIn
<1>3. ASSUME NEW t \in Phrases("value") PROVE t \in Openings("value")
  <2>1. PICK n \in Nat : t \in Whole[n]["value"]
    BY PhraseOut
  <2>2. n # 0
    BY <2>1, NoEmptyPhrase
  <2>3. t \in BegunValue(Whole, Partly, n)
    BY <2>1, BegunValueIs
  <2>4. t \in Partly[n]["value"]
    BY <2>2, <2>3, PartlyParts
  <2> QED BY <2>4, OpeningIn
<1>4. ASSUME NEW t \in Cat(Alone("left_brace"), Openings("elements")) PROVE t \in Openings("value")
  <2>1. PICK n \in Nat : n # 0 /\ t \in Cat(Alone("left_brace"), Partly[n - 1]["elements"])
    BY LedOpening
  <2>2. t \in BegunValue(Whole, Partly, n)
    BY <2>1, BegunValueIs
  <2>3. t \in Partly[n]["value"]
    BY <2>1, <2>2, PartlyParts
  <2> QED BY <2>3, OpeningIn
<1>5. ASSUME NEW t \in Cat(Alone("left_bracket"), Openings("members")) PROVE t \in Openings("value")
  <2>1. PICK n \in Nat : n # 0 /\ t \in Cat(Alone("left_bracket"), Partly[n - 1]["members"])
    BY LedOpening
  <2>2. t \in BegunValue(Whole, Partly, n)
    BY <2>1, BegunValueIs
  <2>3. t \in Partly[n]["value"]
    BY <2>1, <2>2, PartlyParts
  <2> QED BY <2>3, OpeningIn
<1> QED BY <1>1, <1>2, <1>3, <1>4, <1>5 DEF Empty

LEMMA OpeningsOfAnyLength ==
  /\ OfAnyLength(Partly, "elements") = Openings("elements")
  /\ OfAnyLength(Partly, "members") = Openings("members")
  /\ Openings("elements") \in Language /\ Openings("members") \in Language
BY OpeningsType DEF Openings, OpeningKinds

LEMMA ElementsOpenings ==
  Openings("elements") = Openings("value")
                           \cup Cat(Phrases("value"), Cat(Alone("comma"), Openings("elements")))
<1> USE DEF PhraseKinds, OpeningKinds
<1>1. ASSUME NEW t \in Openings("elements")
      PROVE  t \in Openings("value")
                     \cup Cat(Phrases("value"), Cat(Alone("comma"), Openings("elements")))
  <2>1. PICK n \in Nat : t \in Partly[n]["elements"]
    BY OpeningOut
  <2>2. t \in Partly[n]["value"] \/ t \in Lists(Whole, "value", Partly, "elements", n)
    BY <2>1, PartlyParts
  <2>3. CASE t \in Partly[n]["value"]
    BY <2>3, OpeningIn
  <2>4. CASE t \in Lists(Whole, "value", Partly, "elements", n)
    <3>1. t \in Cat(Phrases("value"), Cat(Alone("comma"), OfAnyLength(Partly, "elements")))
      BY <2>4, OpeningsOfAnyLength, ListOut
    <3> QED BY <3>1, OpeningsOfAnyLength
  <2> QED BY <2>2, <2>3, <2>4
<1>2. ASSUME NEW t \in Openings("value") PROVE t \in Openings("elements")
  <2>1. PICK n \in Nat : t \in Partly[n]["value"]
    BY OpeningOut
  <2>2. t \in Partly[n]["elements"]
    BY <2>1, PartlyParts
  <2> QED BY <2>2, OpeningIn
<1>3. ASSUME NEW t \in Cat(Phrases("value"), Cat(Alone("comma"), Openings("elements")))
      PROVE  t \in Openings("elements")
  <2>1. t \in Cat(Phrases("value"), Cat(Alone("comma"), OfAnyLength(Partly, "elements")))
    BY OpeningsOfAnyLength
  <2>2. PICK n \in Nat : n # 0 /\ t \in Lists(Whole, "value", Partly, "elements", n)
    BY <2>1, OpeningsOfAnyLength, ListIn
  <2>3. t \in Partly[n]["elements"]
    BY <2>2, PartlyParts
  <2> QED BY <2>3, OpeningIn
<1> QED BY <1>1, <1>2, <1>3

LEMMA KeyedOpening ==
  ASSUME NEW t
  PROVE  t \in Alone("string") \cup KeyAnd(Openings("value")) <=>
           \E n \in Nat : n # 0 /\ t \in BegunKeyed(Partly, n)
<1> USE DEF OpeningKinds
<1>0. Openings("value") \in Language
  BY OpeningsType
<1>1. ASSUME t \in Alone("string") PROVE \E n \in Nat : n # 0 /\ t \in BegunKeyed(Partly, n)
  <2>1. BegunKeyed(Partly, 1) = {<<"string">>}
    BY Zenon DEF BegunKeyed
  <2>2. 1 \in Nat /\ 1 # 0 /\ t \in BegunKeyed(Partly, 1)
    BY <1>1, <2>1 DEF Alone
  <2> QED BY <2>2
<1>2. ASSUME t \in KeyAnd(Openings("value"))
      PROVE  \E n \in Nat : n # 0 /\ t \in BegunKeyed(Partly, n)
  <2>1. t \in {<<"string", "colon">> \o v : v \in Openings("value")}
    BY <1>0, <1>2, KeyedCat
  <2>2. PICK v \in Openings("value") : t = <<"string", "colon">> \o v
    BY <2>1, Zenon
  <2>3. PICK m \in Nat : v \in Partly[m]["value"]
    BY OpeningOut
  <2> DEFINE n == m + 2
  <2>4. n \in Nat /\ n # 0 /\ n # 1 /\ n - 2 = m
    OBVIOUS
  <2> HIDE DEF n
  <2>5. BegunKeyed(Partly, n) = {<<"string", "colon">> \o x : x \in Partly[m]["value"]}
    BY <2>4, Zenon DEF BegunKeyed
  <2>6. t \in BegunKeyed(Partly, n)
    BY <2>2, <2>3, <2>5, Zenon
  <2> QED BY <2>4, <2>6
<1>3. ASSUME NEW n \in Nat, n # 0, t \in BegunKeyed(Partly, n)
      PROVE  t \in Alone("string") \cup KeyAnd(Openings("value"))
  <2>1. CASE n = 1
    <3>1. BegunKeyed(Partly, n) = {<<"string">>}
      BY <2>1, Zenon DEF BegunKeyed
    <3> QED BY <3>1, <1>3 DEF Alone
  <2>2. CASE n # 1
    <3>1. n - 2 \in Nat
      BY <1>3, <2>2
    <3>2. BegunKeyed(Partly, n) = {<<"string", "colon">> \o x : x \in Partly[n - 2]["value"]}
      BY <2>2, Zenon DEF BegunKeyed
    <3>3. PICK v \in Partly[n - 2]["value"] : t = <<"string", "colon">> \o v
      BY <1>3, <3>2, Zenon
    <3>4. v \in Openings("value")
      BY <3>1, OpeningIn
    <3>5. t \in {<<"string", "colon">> \o x : x \in Openings("value")}
      BY <3>3, <3>4, Zenon
    <3> QED BY <3>5, <1>0, KeyedCat
  <2> QED BY <2>1, <2>2
<1> QED BY <1>1, <1>2, <1>3

LEMMA MembersOpenings ==
  Openings("members") = (Empty \cup (Alone("string") \cup KeyAnd(Openings("value"))))
                          \cup Cat(Phrases("member"), Cat(Alone("comma"), Openings("members")))
<1> USE DEF PhraseKinds, OpeningKinds
<1>1. ASSUME NEW t \in Openings("members")
      PROVE  t \in (Empty \cup (Alone("string") \cup KeyAnd(Openings("value"))))
                     \cup Cat(Phrases("member"), Cat(Alone("comma"), Openings("members")))
  <2>1. PICK n \in Nat : t \in Partly[n]["members"]
    BY OpeningOut
  <2>2. CASE n = 0
    BY <2>1, <2>2, PartlyParts DEF Empty
  <2>3. CASE n # 0
    <3>1. t \in BegunKeyed(Partly, n) \/ t \in Lists(Whole, "member", Partly, "members", n)
      BY <2>1, <2>3, PartlyParts
    <3>2. CASE t \in BegunKeyed(Partly, n)
      BY <3>2, <2>3, KeyedOpening
    <3>3. CASE t \in Lists(Whole, "member", Partly, "members", n)
      <4>1. t \in Cat(Phrases("member"), Cat(Alone("comma"), OfAnyLength(Partly, "members")))
        BY <3>3, OpeningsOfAnyLength, ListOut
      <4> QED BY <4>1, OpeningsOfAnyLength
    <3> QED BY <3>1, <3>2, <3>3
  <2> QED BY <2>2, <2>3
<1>2. <<>> \in Openings("members")
  <2>1. <<>> \in Partly[0]["members"]
    BY PartlyParts
  <2> QED BY <2>1, OpeningIn
<1>3. ASSUME NEW t \in Alone("string") \cup KeyAnd(Openings("value")) PROVE t \in Openings("members")
  <2>1. PICK n \in Nat : n # 0 /\ t \in BegunKeyed(Partly, n)
    BY KeyedOpening
  <2>2. t \in Partly[n]["members"]
    BY <2>1, PartlyParts
  <2> QED BY <2>2, OpeningIn
<1>4. ASSUME NEW t \in Cat(Phrases("member"), Cat(Alone("comma"), Openings("members")))
      PROVE  t \in Openings("members")
  <2>1. t \in Cat(Phrases("member"), Cat(Alone("comma"), OfAnyLength(Partly, "members")))
    BY OpeningsOfAnyLength
  <2>2. PICK n \in Nat : n # 0 /\ t \in Lists(Whole, "member", Partly, "members", n)
    BY <2>1, OpeningsOfAnyLength, ListIn
  <2>3. t \in Partly[n]["members"]
    BY <2>2, PartlyParts
  <2> QED BY <2>3, OpeningIn
<1> QED BY <1>1, <1>2, <1>3, <1>4 DEF Empty

(* The bounded grammar is what of the language is short enough. *)
LEMMA ValuesAre ==
  ASSUME NEW bound \in Nat, NEW t
  PROVE  t \in Values(bound) <=> t \in Phrases("value") /\ Len(t) <= bound
<1>1. ASSUME t \in Values(bound) PROVE t \in Phrases("value") /\ Len(t) <= bound
  <2>1. PICK n \in 1..bound : t \in Derivable(bound)[n]["value"]
    BY <1>1, Zenon DEF Values
  <2>2. n \in Nat /\ n \in 0..bound
    OBVIOUS
  <2>3. t \in Whole[n]["value"]
    BY <2>1, <2>2, DerivableIsWhole
  <2>4. Len(t) = n
    BY <2>2, <2>3, WholeSized DEF Sized, PhraseKinds
  <2> QED BY <2>2, <2>3, <2>4, PhraseIn
<1>2. ASSUME t \in Phrases("value"), Len(t) <= bound PROVE t \in Values(bound)
  <2>1. PICK n \in Nat : t \in Whole[n]["value"] /\ Len(t) = n
    BY <1>2, PhraseOut DEF PhraseKinds
  <2>2. n # 0
    BY <2>1, NoEmptyPhrase
  <2>3. n \in 1..bound /\ n \in 0..bound
    BY <1>2, <2>1, <2>2
  <2>4. t \in Derivable(bound)[n]["value"]
    BY <2>1, <2>3, DerivableIsWhole
  <2> QED BY <2>3, <2>4, Zenon DEF Values
<1> QED BY <1>1, <1>2

LEMMA BeginningsAre ==
  ASSUME NEW bound \in Nat, NEW t
  PROVE  t \in Beginnings(bound) <=> t \in Openings("value") /\ Len(t) <= bound
<1>1. ASSUME t \in Beginnings(bound) PROVE t \in Openings("value") /\ Len(t) <= bound
  <2>1. PICK n \in 0..bound : t \in Beginnable(bound)[n]["value"]
    BY <1>1, Zenon DEF Beginnings
  <2>2. n \in Nat
    OBVIOUS
  <2>3. t \in Partly[n]["value"]
    BY <2>1, BeginnableIsPartly
  <2>4. Len(t) = n
    BY <2>2, <2>3, PartlySized DEF Sized, OpeningKinds
  <2> QED BY <2>2, <2>3, <2>4, OpeningIn
<1>2. ASSUME t \in Openings("value"), Len(t) <= bound PROVE t \in Beginnings(bound)
  <2>1. PICK n \in Nat : t \in Partly[n]["value"] /\ Len(t) = n
    BY <1>2, OpeningOut DEF OpeningKinds
  <2>2. n \in 0..bound
    BY <1>2, <2>1
  <2>3. t \in Beginnable(bound)[n]["value"]
    BY <2>1, <2>2, BeginnableIsPartly
  <2> QED BY <2>2, <2>3, Zenon DEF Beginnings
<1> QED BY <1>1, <1>2

-----------------------------------------------------------------------------

(* A sequence behind one more word, and what is left of the sequences of a *)
(* language that begin with that word.                                     *)
Prefixed(w, t) == <<w>> \o t
After(w, L) == {t \in Seq(Letters) : Prefixed(w, t) \in L}

LEMMA PrefixedType ==
  ASSUME NEW w \in Letters, NEW t \in Seq(Letters)
  PROVE  /\ Prefixed(w, t) \in Seq(Letters) /\ Len(Prefixed(w, t)) = 1 + Len(t)
         /\ Prefixed(w, t)[1] = w
         /\ \A i \in 1..Len(t) : Prefixed(w, t)[i + 1] = t[i]
<1>1. /\ <<w>> \o t \in Seq(Letters) /\ Len(<<w>> \o t) = 1 + Len(t)
      /\ \A i \in 1..(1 + Len(t)) : (<<w>> \o t)[i] = IF i <= 1 THEN w ELSE t[i - 1]
  BY ConcatProperties, LetterSized
<1>2. Len(t) \in Nat
  BY LenProperties
<1>3. (<<w>> \o t)[1] = w
  <2>1. 1 \in 1..(1 + Len(t))
    BY <1>2
  <2> QED BY <1>1, <2>1
<1>4. ASSUME NEW i \in 1..Len(t) PROVE (<<w>> \o t)[i + 1] = t[i]
  <2>1. i + 1 \in 1..(1 + Len(t)) /\ ~(i + 1 <= 1) /\ (i + 1) - 1 = i
    BY <1>2
  <2> QED BY <1>1, <2>1
<1> QED BY <1>1, <1>3, <1>4 DEF Prefixed

LEMMA PrefixedCat ==
  ASSUME NEW w \in Letters, NEW s \in Seq(Letters), NEW t \in Seq(Letters)
  PROVE  Prefixed(w, s) \o t = Prefixed(w, s \o t)
BY LetterSized, ConcatAssociative DEF Prefixed

LEMMA OneMore ==
  ASSUME NEW v \in Letters, NEW w \in Letters, NEW s \in Seq(Letters), NEW t \in Seq(Letters)
  PROVE  /\ Prefixed(v, s) = Prefixed(w, t) => v = w /\ s = t
         /\ Prefixed(v, s) # <<>>
<1>1. Len(s) \in Nat /\ Len(t) \in Nat
  BY LenProperties
<1>2. ASSUME Prefixed(v, s) = Prefixed(w, t) PROVE v = w /\ s = t
  <2>1. Len(s) = Len(t)
    BY <1>1, <1>2, PrefixedType
  <2>2. v = w
    <3>1. Prefixed(v, s)[1] = v /\ Prefixed(w, t)[1] = w
      BY PrefixedType
    <3> QED BY <3>1, <1>2
  <2>3. ASSUME NEW i \in 1..Len(s) PROVE s[i] = t[i]
    <3>1. Prefixed(v, s)[i + 1] = s[i]
      BY PrefixedType
    <3>2. Prefixed(w, t)[i + 1] = t[i]
      BY <2>1, PrefixedType
    <3> QED BY <3>1, <3>2, <1>2
  <2>4. s = t
    BY <2>1, <2>3, SeqEqual
  <2> QED BY <2>2, <2>4
<1>3. Prefixed(v, s) # <<>>
  BY <1>1, PrefixedType, EmptySeq
<1> QED BY <1>2, <1>3

LEMMA AfterIn ==
  ASSUME NEW w, NEW L, NEW t
  PROVE  t \in After(w, L) <=> t \in Seq(Letters) /\ Prefixed(w, t) \in L
BY Zenon DEF After

LEMMA AfterUnion ==
  ASSUME NEW w, NEW A, NEW B
  PROVE  After(w, A \cup B) = After(w, A) \cup After(w, B)
BY SMT DEF After

LEMMA AfterUnions ==
  ASSUME NEW w, NEW A, NEW B, NEW C, NEW D
  PROVE  After(w, (A \cup B) \cup (C \cup D))
           = (After(w, A) \cup After(w, B)) \cup (After(w, C) \cup After(w, D))
BY SMT DEF After

LEMMA AfterType == ASSUME NEW w, NEW A PROVE After(w, A) \in Language
BY SMT DEF After, Language

LEMMA AfterWordCat ==
  ASSUME NEW v \in Letters, NEW w \in Letters, NEW B \in Language
  PROVE  /\ v = w => After(w, Cat(Alone(v), B)) = B
         /\ v # w => After(w, Cat(Alone(v), B)) = {}
<1>1. ASSUME NEW t \in After(w, Cat(Alone(v), B)) PROVE v = w /\ t \in B
  <2>1. t \in Seq(Letters) /\ Prefixed(w, t) \in Cat(Alone(v), B)
    BY AfterIn
  <2>2. PICK a \in Alone(v), b \in B : Prefixed(w, t) = a \o b
    BY <2>1, CatOut
  <2>3. b \in Seq(Letters) /\ a = <<v>>
    BY <2>2 DEF Alone, Language
  <2>4. Prefixed(w, t) = Prefixed(v, b)
    BY <2>2, <2>3 DEF Prefixed
  <2> QED BY <2>1, <2>3, <2>4, OneMore
<1>2. ASSUME v = w, NEW t \in B PROVE t \in After(w, Cat(Alone(v), B))
  <2>1. t \in Seq(Letters)
    BY DEF Language
  <2>2. <<v>> \in Alone(v)
    BY DEF Alone
  <2>3. Prefixed(w, t) \in Cat(Alone(v), B)
    BY <1>2, <2>2, CatIn DEF Prefixed
  <2> QED BY <2>1, <2>3, AfterIn
<1> QED BY <1>1, <1>2

LEMMA AfterWord ==
  ASSUME NEW v \in Letters, NEW w \in Letters
  PROVE  /\ v = w => After(w, Alone(v)) = Empty
         /\ v # w => After(w, Alone(v)) = {}
<1>1. Alone(v) = Cat(Alone(v), Empty)
  BY CatNothing, WordType
<1> QED BY <1>1, AfterWordCat, NothingType

LEMMA AfterNothing ==
  ASSUME NEW w \in Letters
  PROVE  After(w, Empty) = {}
<1>1. ASSUME NEW t \in After(w, Empty) PROVE FALSE
  <2>1. t \in Seq(Letters) /\ Prefixed(w, t) \in Empty
    BY AfterIn
  <2>2. Prefixed(w, t) = <<>>
    BY <2>1 DEF Empty
  <2> QED BY <2>1, <2>2, OneMore
<1> QED BY <1>1

LEMMA FirstWord ==
  ASSUME NEW t \in Seq(Letters), t # <<>>
  PROVE  \E w \in Letters, s \in Seq(Letters) : t = Prefixed(w, s)
<1>1. Len(t) \in Nat \ {0} /\ Len(t) \in Nat
  BY EmptySeq, LenProperties
<1>2. 1 \in 1..Len(t) /\ Len(t) \in 1..Len(t)
  BY <1>1
<1>3. SubSeq(t, 1, Len(t)) = <<t[1]>> \o SubSeq(t, 1 + 1, Len(t))
  BY <1>1, SubSeqRecursiveFirst
<1>4. SubSeq(t, 1, Len(t)) = t
  BY SubSeqFull
<1>5. t[1] \in Letters
  BY <1>2, ElementOfSeq
<1>6. SubSeq(t, 1 + 1, Len(t)) \in Seq(Letters)
  <2>1. \A i \in (1 + 1)..Len(t) : t[i] \in Letters
    BY <1>1, ElementOfSeq
  <2> QED BY <1>1, <2>1, SubSeqProperties
<1>7. t = Prefixed(t[1], SubSeq(t, 1 + 1, Len(t)))
  BY <1>3, <1>4 DEF Prefixed
<1> QED BY <1>5, <1>6, <1>7

LEMMA AfterCat ==
  ASSUME NEW w \in Letters, NEW A \in Language, NEW B \in Language, <<>> \notin A
  PROVE  After(w, Cat(A, B)) = Cat(After(w, A), B)
<1>1. ASSUME NEW t \in After(w, Cat(A, B)) PROVE t \in Cat(After(w, A), B)
  <2>1. t \in Seq(Letters) /\ Prefixed(w, t) \in Cat(A, B)
    BY AfterIn
  <2>2. PICK a \in A, b \in B : Prefixed(w, t) = a \o b
    BY <2>1, CatOut
  <2>3. a \in Seq(Letters) /\ a # <<>> /\ b \in Seq(Letters)
    BY DEF Language
  <2>4. PICK v \in Letters, s \in Seq(Letters) : a = Prefixed(v, s)
    BY <2>3, FirstWord
  <2> DEFINE sb == s \o b
  <2>5. a \o b = Prefixed(v, sb)
    BY <2>3, <2>4, PrefixedCat
  <2>6. sb \in Seq(Letters)
    BY <2>3, <2>4, ConcatProperties
  <2> HIDE DEF sb
  <2>9. Prefixed(w, t) = Prefixed(v, sb)
    BY <2>2, <2>5
  <2>7. v = w /\ t = sb
    BY <2>1, <2>6, <2>9, OneMore
  <2>8. s \in After(w, A)
    BY <2>4, <2>7, AfterIn
  <2> USE DEF sb
  <2> QED BY <2>7, <2>8, CatIn
<1>2. ASSUME NEW t \in Cat(After(w, A), B) PROVE t \in After(w, Cat(A, B))
  <2>1. PICK s \in After(w, A), b \in B : t = s \o b
    BY CatOut
  <2>2. s \in Seq(Letters) /\ Prefixed(w, s) \in A /\ b \in Seq(Letters)
    BY AfterIn DEF Language
  <2>3. Prefixed(w, s) \o b \in Cat(A, B)
    BY <2>2, CatIn
  <2>4. Prefixed(w, t) \in Cat(A, B)
    BY <2>1, <2>2, <2>3, PrefixedCat
  <2>5. t \in Seq(Letters)
    BY <2>1, <2>2, ConcatProperties
  <2> QED BY <2>4, <2>5, AfterIn
<1> QED BY <1>1, <1>2

LEMMA CatUnionRight ==
  ASSUME NEW A, NEW B, NEW C
  PROVE  Cat(C, A \cup B) = Cat(C, A) \cup Cat(C, B)
<1>1. /\ A \subseteq A \cup B /\ B \subseteq A \cup B /\ C \subseteq C
  OBVIOUS
<1>2. Cat(C, A) \subseteq Cat(C, A \cup B) /\ Cat(C, B) \subseteq Cat(C, A \cup B)
  BY <1>1, CatMonotone
<1>3. ASSUME NEW t \in Cat(C, A \cup B) PROVE t \in Cat(C, A) \cup Cat(C, B)
  <2>1. PICK c \in C, a \in A \cup B : t = c \o a
    BY CatOut
  <2> QED BY <2>1, CatIn
<1> QED BY <1>2, <1>3

LEMMA NotEmptyCat ==
  ASSUME NEW A \in Language, NEW B \in Language
  PROVE  <<>> \in Cat(A, B) => <<>> \in A /\ <<>> \in B
<1> DEFINE e == <<>>
<1>0. \A a, b \in Seq(Letters) : a \o b = e => a = e /\ b = e
  BY ConcatEmptySeq, ConcatProperties, LenProperties, EmptySeq
<1>e. e = <<>>
  OBVIOUS
<1> HIDE DEF e
<1>1. ASSUME e \in Cat(A, B) PROVE e \in A /\ e \in B
  <2>1. PICK a \in A, b \in B : e = a \o b
    BY <1>1, CatOut
  <2>2. a \in Seq(Letters) /\ b \in Seq(Letters)
    BY DEF Language
  <2>3. a = e /\ b = e
    BY <2>1, <2>2, <1>0
  <2> QED BY <2>3
<1> QED BY <1>1, <1>e

-----------------------------------------------------------------------------
(* The stages of a state stack, by the names the parser has for them: what  *)
(* is still to come of the document, the array or the map until it ends,   *)
(* and how that may begin.                                                 *)
ValueStages == {"start", "got_value", "map_need_val", "array_need_val", "array_start"}
OtherStages == {"parse_complete", "map_start", "map_need_key", "map_sep", "map_got_val",
               "array_got_val"}
Stages == ValueStages \cup OtherStages

PastElement == Alone("right_brace")
                 \cup Cat(Alone("comma"), Cat(Phrases("elements"), Alone("right_brace")))
PastMember == Alone("right_bracket")
                \cup Cat(Alone("comma"), Cat(Phrases("members"), Alone("right_bracket")))
DueValue == Cat(Phrases("value"), PastMember)

Remainder(c) ==
  IF c = "parse_complete" THEN Empty
  ELSE IF c \in {"start", "got_value"} THEN Phrases("value")
  ELSE IF c = "array_start" THEN Cat(Empty \cup Phrases("elements"), Alone("right_brace"))
  ELSE IF c = "array_need_val" THEN Cat(Phrases("elements"), Alone("right_brace"))
  ELSE IF c = "array_got_val" THEN PastElement
  ELSE IF c = "map_start" THEN Cat(Empty \cup Phrases("members"), Alone("right_bracket"))
  ELSE IF c = "map_need_key" THEN Cat(Phrases("members"), Alone("right_bracket"))
  ELSE IF c = "map_got_val" THEN PastMember
  ELSE IF c = "map_need_val" THEN DueValue
  ELSE Cat(Alone("colon"), DueValue)

MorePastElement == Empty \cup Cat(Alone("comma"), Openings("elements"))
MorePastMember == Empty \cup Cat(Alone("comma"), Openings("members"))
MoreDueValue == Openings("value") \cup Cat(Phrases("value"), MorePastMember)

Continuation(c) ==
  IF c = "parse_complete" THEN Empty
  ELSE IF c \in {"start", "got_value"} THEN Openings("value")
  ELSE IF c \in {"array_start", "array_need_val"} THEN Openings("elements")
  ELSE IF c = "array_got_val" THEN MorePastElement
  ELSE IF c \in {"map_start", "map_need_key"} THEN Openings("members")
  ELSE IF c = "map_got_val" THEN MorePastMember
  ELSE IF c = "map_need_val" THEN MoreDueValue
  ELSE Empty \cup Cat(Alone("colon"), MoreDueValue)

LEMMA GrammarTypes ==
  /\ Phrases("value") \in Language /\ Phrases("member") \in Language
  /\ Phrases("elements") \in Language /\ Phrases("members") \in Language
  /\ Openings("value") \in Language /\ Openings("elements") \in Language
  /\ Openings("members") \in Language
  /\ Empty \in Language
  /\ \A w \in Letters : Alone(w) \in Language
BY PhrasesType, OpeningsType, NothingType, WordType DEF PhraseKinds, OpeningKinds

LEMMA UnionType ==
  ASSUME NEW A \in Language, NEW B \in Language
  PROVE  A \cup B \in Language
BY DEF Language

LEMMA PastTypes ==
  /\ PastElement \in Language /\ PastMember \in Language /\ DueValue \in Language
  /\ MorePastElement \in Language /\ MorePastMember \in Language /\ MoreDueValue \in Language
<1>1. /\ Alone("right_brace") \in Language /\ Alone("right_bracket") \in Language
      /\ Alone("comma") \in Language
  BY GrammarTypes DEF Letters
<1>2. PastElement \in Language
  BY <1>1, GrammarTypes, CatType, UnionType DEF PastElement
<1>3. PastMember \in Language
  BY <1>1, GrammarTypes, CatType, UnionType DEF PastMember
<1>4. DueValue \in Language
  BY <1>3, GrammarTypes, CatType DEF DueValue
<1>5. MorePastElement \in Language
  BY <1>1, GrammarTypes, CatType, UnionType DEF MorePastElement
<1>6. MorePastMember \in Language
  BY <1>1, GrammarTypes, CatType, UnionType DEF MorePastMember
<1>7. MoreDueValue \in Language
  BY <1>6, GrammarTypes, CatType, UnionType DEF MoreDueValue
<1> QED BY <1>2, <1>3, <1>4, <1>5, <1>6, <1>7

LEMMA StagesType ==
  ASSUME NEW c \in Stages
  PROVE  Remainder(c) \in Language /\ Continuation(c) \in Language
<1>1. /\ Alone("right_brace") \in Language /\ Alone("right_bracket") \in Language
      /\ Alone("colon") \in Language
  BY GrammarTypes DEF Letters
<1>2. /\ Cat(Empty \cup Phrases("elements"), Alone("right_brace")) \in Language
      /\ Cat(Phrases("elements"), Alone("right_brace")) \in Language
      /\ Cat(Empty \cup Phrases("members"), Alone("right_bracket")) \in Language
      /\ Cat(Phrases("members"), Alone("right_bracket")) \in Language
      /\ Cat(Alone("colon"), DueValue) \in Language
      /\ Empty \cup Cat(Alone("colon"), MoreDueValue) \in Language
  BY <1>1, GrammarTypes, PastTypes, CatType, UnionType
<1>3. Remainder(c) \in Language
  BY <1>2, GrammarTypes, PastTypes, Zenon DEF Remainder
<1>4. Continuation(c) \in Language
  BY <1>2, GrammarTypes, PastTypes, Zenon DEF Continuation
<1> QED BY <1>3, <1>4

(* A value that is expected, and what comes behind it. *)
LEMMA ArrayValue ==
  /\ Remainder("array_need_val") = Cat(Phrases("value"), PastElement)
  /\ Remainder("array_start") = Alone("right_brace") \cup Cat(Phrases("value"), PastElement)
  /\ Openings("elements") = Openings("value") \cup Cat(Phrases("value"), MorePastElement)
<1> DEFINE PV == Phrases("value")
           PE == Phrases("elements")
           R == Alone("right_brace")
           C == Alone("comma")
<1>0. PV \in Language /\ PE \in Language /\ R \in Language /\ C \in Language
  BY GrammarTypes DEF Letters
<1>1. PE = PV \cup Cat(PV, Cat(C, PE))
  BY ListPhrases, Zenon
<1>2. PastElement = R \cup Cat(C, Cat(PE, R))
  BY Zenon DEF PastElement
<1>a. /\ Remainder("array_need_val") = Cat(PE, R)
      /\ Remainder("array_start") = Cat(Empty \cup PE, R)
  BY DEF Remainder
<1>b. Openings("elements") = Openings("value") \cup Cat(PV, Cat(C, Openings("elements")))
  BY ElementsOpenings, Zenon
<1>c. MorePastElement = Empty \cup Cat(C, Openings("elements"))
  BY Zenon DEF MorePastElement
<1>d. PV \subseteq Openings("value")
  BY ValueOpenings
<1> HIDE DEF PV, PE, R, C
<1>3. Cat(PE, R) = Cat(PV, R) \cup Cat(Cat(PV, Cat(C, PE)), R)
  <2> DEFINE X == Cat(PV, Cat(C, PE))
  <2>1. PE = PV \cup X
    BY <1>1
  <2> HIDE DEF X
  <2>2. Cat(PV \cup X, R) = Cat(PV, R) \cup Cat(X, R)
    BY CatUnion
  <2>3. Cat(PE, R) = Cat(PV, R) \cup Cat(X, R)
    BY <2>1, <2>2
  <2> QED BY <2>3 DEF X
<1>4. Cat(C, PE) \in Language
  BY <1>0, CatType
<1>5. Cat(Cat(PV, Cat(C, PE)), R) = Cat(PV, Cat(Cat(C, PE), R))
  BY <1>0, <1>4, CatAssociative
<1>6. Cat(Cat(C, PE), R) = Cat(C, Cat(PE, R))
  BY <1>0, CatAssociative
<1>7. Cat(PV, PastElement) = Cat(PV, R) \cup Cat(PV, Cat(C, Cat(PE, R)))
  BY <1>2, CatUnion
<1>8. Cat(PE, R) = Cat(PV, PastElement)
  BY <1>3, <1>5, <1>6, <1>7
<1>9. Cat(Empty \cup PE, R) = R \cup Cat(PE, R)
  BY <1>0, CatUnion, CatNothing
<1>10. Cat(PV, MorePastElement) = PV \cup Cat(PV, Cat(C, Openings("elements")))
  <2> DEFINE X == Cat(C, Openings("elements"))
  <2>1. MorePastElement = Empty \cup X
    BY <1>c
  <2> HIDE DEF X
  <2>2. Cat(PV, Empty \cup X) = Cat(PV, Empty) \cup Cat(PV, X)
    BY CatUnionRight
  <2>3. Cat(PV, MorePastElement) = PV \cup Cat(PV, X)
    BY <1>0, <2>1, <2>2, CatNothing
  <2> QED BY <2>3 DEF X
<1>11. Openings("elements") = Openings("value") \cup Cat(PV, MorePastElement)
  BY <1>10, <1>b, <1>d
<1> QED BY <1>8, <1>9, <1>11, <1>a DEF PV, R

LEMMA KeyAndParts ==
  ASSUME NEW A \in Language, NEW B \in Language
  PROVE  /\ KeyAnd(A) \in Language
         /\ KeyAnd(A \cup B) = KeyAnd(A) \cup KeyAnd(B)
         /\ KeyAnd(Cat(A, B)) = Cat(KeyAnd(A), B)
<1> DEFINE S == Alone("string")
           L == Alone("colon")
<1>1. S \in Language /\ L \in Language
  BY GrammarTypes DEF Letters
<1>2. \A X : KeyAnd(X) = Cat(S, Cat(L, X))
  BY DEF KeyAnd
<1> HIDE DEF S, L
<1>3. Cat(L, A) \in Language /\ Cat(S, Cat(L, A)) \in Language
  BY <1>1, CatType
<1>4. Cat(S, Cat(L, A \cup B)) = Cat(S, Cat(L, A)) \cup Cat(S, Cat(L, B))
  <2>1. Cat(L, A \cup B) = Cat(L, A) \cup Cat(L, B)
    BY CatUnionRight
  <2>2. Cat(S, Cat(L, A) \cup Cat(L, B)) = Cat(S, Cat(L, A)) \cup Cat(S, Cat(L, B))
    BY CatUnionRight
  <2> QED BY <2>1, <2>2
<1>5. Cat(S, Cat(L, Cat(A, B))) = Cat(Cat(S, Cat(L, A)), B)
  <2>1. Cat(L, Cat(A, B)) = Cat(Cat(L, A), B)
    BY <1>1, CatAssociative
  <2>2. Cat(S, Cat(Cat(L, A), B)) = Cat(Cat(S, Cat(L, A)), B)
    BY <1>1, <1>3, CatAssociative
  <2> QED BY <2>1, <2>2
<1> QED BY <1>2, <1>3, <1>4, <1>5

(* A key that is expected, and what comes behind it. *)
LEMMA MapKey ==
  /\ Remainder("map_need_key") = Cat(Alone("string"), Remainder("map_sep"))
  /\ Remainder("map_start") = Alone("right_bracket")
                                 \cup Cat(Alone("string"), Remainder("map_sep"))
  /\ Openings("members") = Empty \cup Cat(Alone("string"), Continuation("map_sep"))
<1> DEFINE PV == Phrases("value")
           OV == Openings("value")
           PM == Phrases("member")
           PMs == Phrases("members")
           OMs == Openings("members")
           R == Alone("right_bracket")
           C == Alone("comma")
           L == Alone("colon")
           S == Alone("string")
<1>0. /\ PV \in Language /\ OV \in Language /\ PM \in Language /\ PMs \in Language
      /\ OMs \in Language /\ R \in Language /\ C \in Language /\ L \in Language /\ S \in Language
  BY GrammarTypes DEF Letters
<1>1. PM = KeyAnd(PV)
  BY MemberPhrases
<1>2. PMs = PM \cup Cat(PM, Cat(C, PMs))
  BY ListPhrases, Zenon
<1>3. OMs = (Empty \cup (S \cup KeyAnd(OV))) \cup Cat(PM, Cat(C, OMs))
  BY MembersOpenings, Zenon
<1>4. PastMember = R \cup Cat(C, Cat(PMs, R))
  BY Zenon DEF PastMember
<1>5. MorePastMember = Empty \cup Cat(C, OMs)
  BY Zenon DEF MorePastMember
<1>6. /\ Remainder("map_need_key") = Cat(PMs, R)
      /\ Remainder("map_start") = Cat(Empty \cup PMs, R)
      /\ Remainder("map_sep") = Cat(L, Cat(PV, PastMember))
      /\ Continuation("map_sep") = Empty \cup Cat(L, MoreDueValue)
  BY DEF Remainder, DueValue, Continuation
<1>7. MoreDueValue = OV \cup Cat(PV, MorePastMember)
  BY Zenon DEF MoreDueValue
<1>8. PV \subseteq OV
  BY ValueOpenings
<1>9. \A X : KeyAnd(X) = Cat(S, Cat(L, X))
  BY DEF KeyAnd
<1> HIDE DEF PV, OV, PM, PMs, OMs, R, C, L, S
<1>10. Cat(PMs, R) = Cat(PM, R) \cup Cat(PM, Cat(C, Cat(PMs, R)))
  <2> DEFINE X == Cat(PM, Cat(C, PMs))
  <2>1. PMs = PM \cup X
    BY <1>2
  <2>2. X \in Language /\ Cat(C, PMs) \in Language
    BY <1>0, CatType
  <2>3. Cat(X, R) = Cat(PM, Cat(Cat(C, PMs), R))
    BY <1>0, <2>2, CatAssociative
  <2>4. Cat(Cat(C, PMs), R) = Cat(C, Cat(PMs, R))
    BY <1>0, CatAssociative
  <2> HIDE DEF X
  <2>5. Cat(PM \cup X, R) = Cat(PM, R) \cup Cat(X, R)
    BY CatUnion
  <2> QED BY <2>1, <2>3, <2>4, <2>5
<1>11. Cat(PMs, R) = Cat(PM, PastMember)
  <2> DEFINE Y == Cat(C, Cat(PMs, R))
  <2>1. Cat(PMs, R) = Cat(PM, R) \cup Cat(PM, Y)
    BY <1>10
  <2>2. PastMember = R \cup Y
    BY <1>4
  <2> HIDE DEF Y
  <2>3. Cat(PM, R \cup Y) = Cat(PM, R) \cup Cat(PM, Y)
    BY CatUnionRight
  <2> QED BY <2>1, <2>2, <2>3
<1>12. Cat(PMs, R) = Cat(S, Cat(L, Cat(PV, PastMember)))
  <2>1. KeyAnd(Cat(PV, PastMember)) = Cat(KeyAnd(PV), PastMember)
    BY <1>0, KeyAndParts, PastTypes
  <2>2. KeyAnd(Cat(PV, PastMember)) = Cat(S, Cat(L, Cat(PV, PastMember)))
    BY <1>9
  <2> QED BY <2>1, <2>2, <1>1, <1>11
<1>13. Cat(Empty \cup PMs, R) = R \cup Cat(PMs, R)
  <2>1. Cat(Empty \cup PMs, R) = Cat(Empty, R) \cup Cat(PMs, R)
    BY CatUnion
  <2> QED BY <2>1, <1>0, CatNothing
<1>14. OMs = Empty \cup Cat(S, Continuation("map_sep"))
  <2> DEFINE Y == Cat(C, OMs)
             D == Cat(PV, Y)
             M == MoreDueValue
  <2>1. Y \in Language /\ D \in Language
    BY <1>0, CatType
  <2>2. MorePastMember = Empty \cup Y
    BY <1>5
  <2>3. OMs = (Empty \cup (S \cup KeyAnd(OV))) \cup Cat(PM, Y)
    BY <1>3
  <2>d. D = Cat(PV, Y)
    OBVIOUS
  <2> HIDE DEF Y, D, M
  <2>4. Cat(PV, Empty \cup Y) = Cat(PV, Empty) \cup Cat(PV, Y)
    BY CatUnionRight
  <2>5. Cat(PV, MorePastMember) = PV \cup D
    BY <1>0, <2>2, <2>4, <2>d, CatNothing
  <2>6. M = OV \cup D
    BY <2>5, <1>7, <1>8 DEF M
  <2>7. Cat(S, Empty \cup Cat(L, M)) = Cat(S, Empty) \cup Cat(S, Cat(L, M))
    BY CatUnionRight
  <2>8. Cat(S, Empty) = S
    BY <1>0, CatNothing
  <2>9. Cat(S, Cat(L, M)) = KeyAnd(OV \cup D)
    BY <1>9, <2>6
  <2>10. KeyAnd(OV \cup D) = KeyAnd(OV) \cup KeyAnd(D)
    BY <1>0, <2>1, KeyAndParts
  <2>11. KeyAnd(D) = Cat(PM, Y)
    BY <1>0, <1>1, <2>1, <2>d, KeyAndParts
  <2>12. Continuation("map_sep") = Empty \cup Cat(L, M)
    BY <1>6 DEF M
  <2>13. Cat(S, Continuation("map_sep")) = S \cup (KeyAnd(OV) \cup Cat(PM, Y))
    BY <2>7, <2>8, <2>9, <2>10, <2>11, <2>12
  <2> QED BY <2>3, <2>13
<1>15. Remainder("map_need_key") = Cat(S, Remainder("map_sep"))
  BY <1>6, <1>12
<1>16. Remainder("map_start") = R \cup Cat(S, Remainder("map_sep"))
  BY <1>6, <1>12, <1>13
<1> QED BY <1>14, <1>15, <1>16 DEF R, S, OMs

(* Only a complete document has nothing left to come; anything may stop.   *)
LEMMA EmptyOrNot ==
  /\ <<>> \notin Phrases("value") /\ <<>> \in Openings("value")
  /\ \A c \in Stages : <<>> \in Continuation(c)
  /\ \A c \in Stages : <<>> \in Remainder(c) <=> c = "parse_complete"
<1> DEFINE e == <<>>
<1>1. e \notin Phrases("value")
  <2>1. ASSUME e \in Phrases("value") PROVE FALSE
    <3>1. PICK n \in Nat : e \in Whole[n]["value"] /\ Len(e) = n
      BY <2>1, PhraseOut DEF PhraseKinds
    <3>2. n = 0
      BY <3>1
    <3> QED BY <3>1, <3>2, NoEmptyPhrase
  <2> QED BY <2>1
<1>2. e \in Empty
  BY DEF Empty
<1>3. \A w \in Letters : e \notin Alone(w)
  <2>1. ASSUME NEW w \in Letters PROVE e \notin Alone(w)
    <3>1. Len(<<w>>) = 1
      OBVIOUS
    <3>2. Len(e) = 0
      OBVIOUS
    <3>3. <<w>> # e
      BY <3>1, <3>2
    <3> QED BY <3>3 DEF Alone
  <2> QED BY <2>1
<1>4. \A A, B \in Language : e \in Cat(A, B) => e \in A /\ e \in B
  BY NotEmptyCat
<1> HIDE DEF e
<1>5. /\ e \notin Alone("right_brace") /\ e \notin Alone("right_bracket")
      /\ e \notin Alone("colon") /\ e \notin Alone("comma")
      /\ Alone("right_brace") \in Language /\ Alone("right_bracket") \in Language
      /\ Alone("colon") \in Language /\ Alone("comma") \in Language
  BY <1>3, GrammarTypes DEF Letters
<1>6. e \in Openings("value") /\ e \in Openings("elements") /\ e \in Openings("members")
  BY <1>2, ValueOpenings, ArrayValue, MapKey
<1>7. /\ e \in MorePastElement /\ e \in MorePastMember /\ e \in MoreDueValue
  BY <1>2, <1>6 DEF MorePastElement, MorePastMember, MoreDueValue
<1>8. ASSUME NEW c \in Stages PROVE e \in Continuation(c)
  BY <1>2, <1>6, <1>7, Zenon DEF Continuation
<1>9. /\ e \notin DueValue
      /\ e \notin Cat(Phrases("elements"), Alone("right_brace"))
      /\ e \notin Cat(Phrases("members"), Alone("right_bracket"))
      /\ e \notin Cat(Empty \cup Phrases("elements"), Alone("right_brace"))
      /\ e \notin Cat(Empty \cup Phrases("members"), Alone("right_bracket"))
  <2>1. e \notin DueValue
    BY <1>1, <1>4, GrammarTypes, PastTypes DEF DueValue
  <2>2. /\ Empty \cup Phrases("elements") \in Language
        /\ Empty \cup Phrases("members") \in Language
    BY GrammarTypes, UnionType
  <2> QED BY <2>1, <2>2, <1>4, <1>5, GrammarTypes
<1>10. /\ e \notin Cat(Alone("colon"), DueValue)
       /\ e \notin Cat(Alone("comma"), Cat(Phrases("elements"), Alone("right_brace")))
       /\ e \notin Cat(Alone("comma"), Cat(Phrases("members"), Alone("right_bracket")))
  <2>1. /\ Cat(Phrases("elements"), Alone("right_brace")) \in Language
        /\ Cat(Phrases("members"), Alone("right_bracket")) \in Language
    BY <1>5, GrammarTypes, CatType
  <2> QED BY <2>1, <1>4, <1>5, PastTypes
<1>11. e \notin PastElement /\ e \notin PastMember
  BY <1>5, <1>10 DEF PastElement, PastMember
<1>12. ASSUME NEW c \in Stages, c # "parse_complete" PROVE e \notin Remainder(c)
  BY <1>1, <1>9, <1>10, <1>11, <1>12, Zenon DEF Remainder
<1>13. e \in Remainder("parse_complete")
  BY <1>2 DEF Remainder
<1> QED BY <1>1, <1>6, <1>8, <1>12, <1>13 DEF e

-----------------------------------------------------------------------------
(* What one word does to a stage. *)
Opened(w) == IF w = "left_brace" THEN "array_start" ELSE "map_start"

Valued(c) ==
  IF c \in {"start", "got_value"} THEN "parse_complete"
  ELSE IF c = "map_need_val" THEN "map_got_val" ELSE "array_got_val"

Awaited(c) ==
  IF c = "map_sep" THEN "colon"
  ELSE IF c \in {"map_start", "map_need_key"} THEN "string" ELSE "comma"

Followed(c) ==
  IF c = "map_sep" THEN "map_need_val"
  ELSE IF c \in {"map_start", "map_need_key"} THEN "map_sep"
  ELSE IF c = "map_got_val" THEN "map_need_key" ELSE "array_need_val"

Closes(c, w) ==
  \/ c \in {"array_start", "array_got_val"} /\ w = "right_brace"
  \/ c \in {"map_start", "map_got_val"} /\ w = "right_bracket"

Accepts(c, w) ==
  \/ c \in ValueStages /\ w \in {"scalar", "string"}
  \/ c \in OtherStages \ {"parse_complete"} /\ w = Awaited(c)

Opens(c, w) == c \in ValueStages /\ w \in {"left_brace", "left_bracket"}

Moved(c) == IF c \in ValueStages THEN Valued(c) ELSE Followed(c)

LEMMA StageSteps ==
  /\ \A c \in ValueStages : Valued(c) \in Stages
  /\ \A c \in Stages : \A w : Accepts(c, w) => Moved(c) \in Stages
  /\ \A w : Opened(w) \in Stages
BY Zenon DEF Stages, ValueStages, OtherStages, Valued, Followed, Moved, Accepts, Opened

(* The array and the map that a value may be. *)
LEMMA ContainerPhrases ==
  /\ Phrases("value") = (Alone("scalar") \cup Alone("string"))
                          \cup (Cat(Alone("left_brace"), Remainder("array_start"))
                                  \cup Cat(Alone("left_bracket"), Remainder("map_start")))
  /\ Openings("value") = (Empty \cup Phrases("value"))
                           \cup (Cat(Alone("left_brace"), Continuation("array_start"))
                                   \cup Cat(Alone("left_bracket"), Continuation("map_start")))
<1>1. /\ Contained("left_brace", "elements", "right_brace")
           = Cat(Alone("left_brace"), Remainder("array_start"))
      /\ Contained("left_bracket", "members", "right_bracket")
           = Cat(Alone("left_bracket"), Remainder("map_start"))
  BY DEF Contained, Remainder
<1>2. /\ Continuation("array_start") = Openings("elements")
      /\ Continuation("map_start") = Openings("members")
  BY DEF Continuation
<1> QED BY <1>1, <1>2, ValuePhrases, ValueOpenings

AfterValue(w) ==
  IF w \in {"scalar", "string"} THEN Empty
  ELSE IF w \in {"left_brace", "left_bracket"} THEN Remainder(Opened(w)) ELSE {}

AfterBegunValue(w) ==
  AfterValue(w) \cup (IF w \in {"left_brace", "left_bracket"} THEN Continuation(Opened(w)) ELSE {})

LEMMA ValueAfter ==
  ASSUME NEW w \in Letters
  PROVE  /\ After(w, Phrases("value")) = AfterValue(w)
         /\ After(w, Openings("value")) = AfterBegunValue(w)
<1> DEFINE A == Cat(Alone("left_brace"), Remainder("array_start"))
           M == Cat(Alone("left_bracket"), Remainder("map_start"))
           AO == Cat(Alone("left_brace"), Continuation("array_start"))
           MO == Cat(Alone("left_bracket"), Continuation("map_start"))
           PV == Phrases("value")
<1>1. /\ Remainder("array_start") \in Language /\ Continuation("array_start") \in Language
      /\ Remainder("map_start") \in Language /\ Continuation("map_start") \in Language
  BY StagesType DEF Stages, ValueStages, OtherStages
<1>2. /\ "left_brace" \in Letters /\ "left_bracket" \in Letters
      /\ "scalar" \in Letters /\ "string" \in Letters
  BY DEF Letters
<1>3. /\ w = "left_brace" => After(w, A) = Remainder("array_start")
      /\ w # "left_brace" => After(w, A) = {}
  BY <1>1, <1>2, AfterWordCat
<1>4. /\ w = "left_bracket" => After(w, M) = Remainder("map_start")
      /\ w # "left_bracket" => After(w, M) = {}
  BY <1>1, <1>2, AfterWordCat
<1>5. /\ w = "left_brace" => After(w, AO) = Continuation("array_start")
      /\ w # "left_brace" => After(w, AO) = {}
  BY <1>1, <1>2, AfterWordCat
<1>6. /\ w = "left_bracket" => After(w, MO) = Continuation("map_start")
      /\ w # "left_bracket" => After(w, MO) = {}
  BY <1>1, <1>2, AfterWordCat
<1>7. /\ w = "scalar" => After(w, Alone("scalar")) = Empty
      /\ w # "scalar" => After(w, Alone("scalar")) = {}
      /\ w = "string" => After(w, Alone("string")) = Empty
      /\ w # "string" => After(w, Alone("string")) = {}
  BY <1>2, AfterWord
<1>8. After(w, Empty) = {}
  BY AfterNothing
<1>9. /\ PV = (Alone("scalar") \cup Alone("string")) \cup (A \cup M)
      /\ Openings("value") = (Empty \cup PV) \cup (AO \cup MO)
  BY ContainerPhrases, Zenon
<1> HIDE DEF A, M, AO, MO, PV
<1>10. After(w, PV) = (After(w, Alone("scalar")) \cup After(w, Alone("string")))
                        \cup (After(w, A) \cup After(w, M))
  BY <1>9, AfterUnions
<1>11. After(w, Openings("value")) = (After(w, Empty) \cup After(w, PV))
                                       \cup (After(w, AO) \cup After(w, MO))
  <2> DEFINE N == Empty
             O == Openings("value")
  <2>1. O = (N \cup PV) \cup (AO \cup MO)
    BY <1>9
  <2> HIDE DEF N, O
  <2>2. After(w, O) = (After(w, N) \cup After(w, PV)) \cup (After(w, AO) \cup After(w, MO))
    BY <2>1, AfterUnions
  <2> QED BY <2>2 DEF N, O
<1>12. After(w, PV) = AfterValue(w)
  BY <1>3, <1>4, <1>7, <1>10 DEF AfterValue, Opened
<1>13. After(w, Openings("value")) = AfterBegunValue(w)
  BY <1>5, <1>6, <1>8, <1>11, <1>12 DEF AfterBegunValue, Opened
<1> QED BY <1>12, <1>13 DEF PV

(* A stage that expects a value, by what comes behind the value. *)
LEMMA ValueStage ==
  ASSUME NEW c \in ValueStages
  PROVE  /\ Remainder(c) = (IF c = "array_start" THEN Alone("right_brace") ELSE {})
                             \cup Cat(Phrases("value"), Remainder(Valued(c)))
         /\ Continuation(c) = Openings("value") \cup Cat(Phrases("value"), Continuation(Valued(c)))
<1>1. CASE c \in {"start", "got_value"}
  <2>1. /\ Remainder(c) = Phrases("value") /\ Remainder(Valued(c)) = Empty
        /\ Continuation(c) = Openings("value") /\ Continuation(Valued(c)) = Empty
    BY <1>1 DEF Remainder, Continuation, Valued
  <2>2. Cat(Phrases("value"), Empty) = Phrases("value")
    BY GrammarTypes, CatNothing
  <2>3. Phrases("value") \subseteq Openings("value")
    BY ValueOpenings
  <2>4. c # "array_start"
    BY <1>1
  <2> QED BY <2>1, <2>2, <2>3, <2>4
<1>2. CASE c = "map_need_val"
  <2>1. /\ Remainder(c) = Cat(Phrases("value"), PastMember) /\ Remainder(Valued(c)) = PastMember
        /\ Continuation(c) = Openings("value") \cup Cat(Phrases("value"), MorePastMember)
        /\ Continuation(Valued(c)) = MorePastMember
    BY <1>2 DEF Remainder, Continuation, Valued, DueValue, MoreDueValue
  <2>2. c # "array_start"
    BY <1>2
  <2> QED BY <2>1, <2>2
<1>3. CASE c \in {"array_start", "array_need_val"}
  <2>1. /\ Remainder(Valued(c)) = PastElement /\ Continuation(Valued(c)) = MorePastElement
        /\ Continuation(c) = Openings("elements")
    BY <1>3 DEF Remainder, Continuation, Valued
  <2> QED BY <1>3, <2>1, ArrayValue
<1> QED BY <1>1, <1>2, <1>3 DEF ValueStages

(* A stage that expects one word, by what comes behind it. *)
LEMMA OtherStage ==
  ASSUME NEW c \in OtherStages, c # "parse_complete"
  PROVE  /\ Remainder(c) = (IF Closes(c, "right_brace") THEN Alone("right_brace") ELSE {})
                             \cup ((IF Closes(c, "right_bracket") THEN Alone("right_bracket") ELSE {})
                                     \cup Cat(Alone(Awaited(c)), Remainder(Followed(c))))
         /\ Continuation(c) = Empty \cup Cat(Alone(Awaited(c)), Continuation(Followed(c)))
<1>1. CASE c \in {"map_start", "map_need_key"}
  <2>1. /\ Awaited(c) = "string" /\ Followed(c) = "map_sep" /\ ~Closes(c, "right_brace")
        /\ Closes(c, "right_bracket") <=> c = "map_start"
        /\ Continuation(c) = Openings("members")
    BY <1>1, Zenon DEF Awaited, Followed, Closes, Continuation
  <2> QED BY <1>1, <2>1, MapKey
<1>2. CASE c = "map_sep"
  <2>1. /\ Awaited(c) = "colon" /\ Followed(c) = "map_need_val"
        /\ ~Closes(c, "right_brace") /\ ~Closes(c, "right_bracket")
    BY <1>2 DEF Awaited, Followed, Closes
  <2>2. /\ Remainder(c) = Cat(Alone("colon"), DueValue) /\ Remainder("map_need_val") = DueValue
        /\ Continuation(c) = Empty \cup Cat(Alone("colon"), MoreDueValue)
        /\ Continuation("map_need_val") = MoreDueValue
    BY <1>2 DEF Remainder, Continuation
  <2> QED BY <2>1, <2>2
<1>3. CASE c = "map_got_val"
  <2>1. /\ Awaited(c) = "comma" /\ Followed(c) = "map_need_key"
        /\ ~Closes(c, "right_brace") /\ Closes(c, "right_bracket")
    BY <1>3 DEF Awaited, Followed, Closes
  <2>2. /\ Remainder(c) = Alone("right_bracket") \cup Cat(Alone("comma"), Remainder("map_need_key"))
        /\ Continuation(c) = Empty \cup Cat(Alone("comma"), Continuation("map_need_key"))
    BY <1>3, Zenon DEF Remainder, Continuation, PastMember, MorePastMember
  <2> QED BY <2>1, <2>2
<1>4. CASE c = "array_got_val"
  <2>1. /\ Awaited(c) = "comma" /\ Followed(c) = "array_need_val"
        /\ Closes(c, "right_brace") /\ ~Closes(c, "right_bracket")
    BY <1>4 DEF Awaited, Followed, Closes
  <2>2. /\ Remainder(c) = Alone("right_brace") \cup Cat(Alone("comma"), Remainder("array_need_val"))
        /\ Continuation(c) = Empty \cup Cat(Alone("comma"), Continuation("array_need_val"))
    BY <1>4, Zenon DEF Remainder, Continuation, PastElement, MorePastElement
  <2> QED BY <2>1, <2>2
<1> QED BY <1>1, <1>2, <1>3, <1>4 DEF OtherStages

LEMMA ValueStageAfter ==
  ASSUME NEW c \in ValueStages, NEW w \in Letters
  PROVE  /\ After(w, Remainder(c)) = (IF c = "array_start" /\ w = "right_brace" THEN Empty ELSE {})
                                       \cup Cat(AfterValue(w), Remainder(Valued(c)))
         /\ After(w, Continuation(c)) = AfterBegunValue(w)
                                          \cup Cat(AfterValue(w), Continuation(Valued(c)))
<1> DEFINE PV == Phrases("value")
           V == Valued(c)
           X == IF c = "array_start" THEN Alone("right_brace") ELSE {}
           R == Cat(PV, Remainder(V))
           K == Cat(PV, Continuation(V))
<1>1. PV \in Language /\ <<>> \notin PV /\ "right_brace" \in Letters
  BY GrammarTypes, EmptyOrNot DEF Letters
<1>2. Remainder(V) \in Language /\ Continuation(V) \in Language
  BY StageSteps, StagesType
<1>3. Remainder(c) = X \cup R /\ Continuation(c) = Openings("value") \cup K
  BY ValueStage, Zenon
<1>4. /\ After(w, PV) = AfterValue(w)
      /\ After(w, Openings("value")) = AfterBegunValue(w)
  BY ValueAfter
<1>5. /\ After(w, R) = Cat(After(w, PV), Remainder(V))
      /\ After(w, K) = Cat(After(w, PV), Continuation(V))
  BY <1>1, <1>2, AfterCat
<1>6. After(w, X) = IF c = "array_start" /\ w = "right_brace" THEN Empty ELSE {}
  <2>1. CASE c = "array_start"
    BY <1>1, <2>1, AfterWord
  <2>2. CASE c # "array_start"
    BY <2>2, AfterIn
  <2> QED BY <2>1, <2>2
<1> HIDE DEF PV, V, X, R, K
<1>7. /\ After(w, X \cup R) = After(w, X) \cup After(w, R)
      /\ After(w, Openings("value") \cup K) = After(w, Openings("value")) \cup After(w, K)
  BY AfterUnion
<1> QED BY <1>3, <1>4, <1>5, <1>6, <1>7 DEF V

LEMMA OtherStageAfter ==
  ASSUME NEW c \in OtherStages, c # "parse_complete", NEW w \in Letters
  PROVE  /\ After(w, Remainder(c)) = (IF Closes(c, w) THEN Empty ELSE {})
                                       \cup (IF w = Awaited(c) THEN Remainder(Followed(c)) ELSE {})
         /\ After(w, Continuation(c)) = IF w = Awaited(c) THEN Continuation(Followed(c)) ELSE {}
<1> DEFINE F == Followed(c)
           X == IF Closes(c, "right_brace") THEN Alone("right_brace") ELSE {}
           Y == IF Closes(c, "right_bracket") THEN Alone("right_bracket") ELSE {}
           R == Cat(Alone(Awaited(c)), Remainder(F))
           K == Cat(Alone(Awaited(c)), Continuation(F))
<1>1. /\ Awaited(c) \in Letters /\ "right_brace" \in Letters /\ "right_bracket" \in Letters
      /\ F \in Stages
  BY Zenon DEF Letters, Awaited, Followed, Stages, ValueStages, OtherStages
<1>2. Remainder(F) \in Language /\ Continuation(F) \in Language
  BY <1>1, StagesType
<1>3. Remainder(c) = X \cup (Y \cup R) /\ Continuation(c) = Empty \cup K
  BY OtherStage, Zenon
<1>4. /\ After(w, R) = IF w = Awaited(c) THEN Remainder(F) ELSE {}
      /\ After(w, K) = IF w = Awaited(c) THEN Continuation(F) ELSE {}
  BY <1>1, <1>2, AfterWordCat
<1>5. After(w, X) \cup After(w, Y) = IF Closes(c, w) THEN Empty ELSE {}
  <2>1. After(w, X) = IF Closes(c, "right_brace") /\ w = "right_brace" THEN Empty ELSE {}
    <3>1. CASE Closes(c, "right_brace")
      BY <1>1, <3>1, AfterWord
    <3>2. CASE ~Closes(c, "right_brace")
      BY <3>2, AfterIn
    <3> QED BY <3>1, <3>2
  <2>2. After(w, Y) = IF Closes(c, "right_bracket") /\ w = "right_bracket" THEN Empty ELSE {}
    <3>1. CASE Closes(c, "right_bracket")
      BY <1>1, <3>1, AfterWord
    <3>2. CASE ~Closes(c, "right_bracket")
      BY <3>2, AfterIn
    <3> QED BY <3>1, <3>2
  <2>3. Closes(c, w) => w \in {"right_brace", "right_bracket"}
    BY DEF Closes
  <2> HIDE DEF X, Y
  <2> QED BY <2>1, <2>2, <2>3
<1> HIDE DEF F, X, Y, R, K
<1>6. After(w, Y \cup R) = After(w, Y) \cup After(w, R)
  BY AfterUnion
<1>7. After(w, X \cup (Y \cup R)) = After(w, X) \cup After(w, Y \cup R)
  BY AfterUnion
<1>8. After(w, Empty \cup K) = After(w, Empty) \cup After(w, K)
  BY AfterUnion
<1>9. After(w, Empty) = {}
  BY AfterNothing
<1>10. After(w, Remainder(c)) = (After(w, X) \cup After(w, Y)) \cup After(w, R)
  BY <1>3, <1>6, <1>7
<1> QED BY <1>3, <1>4, <1>5, <1>8, <1>9, <1>10 DEF F

(* A word that moves a stage on. *)
LEMMA MoveAfter ==
  ASSUME NEW c \in Stages, NEW w \in Letters, Accepts(c, w)
  PROVE  /\ After(w, Remainder(c)) = Remainder(Moved(c))
         /\ After(w, Continuation(c)) = Continuation(Moved(c))
<1>1. CASE c \in ValueStages
  <2>1. w \in {"scalar", "string"}
    BY <1>1, Zenon DEF Accepts, ValueStages, OtherStages
  <2>2. AfterValue(w) = Empty /\ AfterBegunValue(w) = Empty /\ w # "right_brace"
    BY <2>1 DEF AfterValue, AfterBegunValue
  <2>3. Valued(c) \in Stages /\ Moved(c) = Valued(c)
    BY <1>1, StageSteps DEF Moved
  <2> DEFINE R == Remainder(Valued(c))
             K == Continuation(Valued(c))
  <2>4. R \in Language /\ K \in Language /\ <<>> \in K
    BY <2>3, StagesType, EmptyOrNot
  <2>5. After(w, Remainder(c)) = {} \cup Cat(Empty, R)
    BY <1>1, <2>2, ValueStageAfter
  <2>6. After(w, Continuation(c)) = Empty \cup Cat(Empty, K)
    BY <1>1, <2>2, ValueStageAfter
  <2>7. Cat(Empty, R) = R /\ Cat(Empty, K) = K
    BY <2>4, CatNothing
  <2>8. Empty \subseteq K
    BY <2>4 DEF Empty
  <2> HIDE DEF R, K
  <2>9. After(w, Remainder(c)) = R /\ After(w, Continuation(c)) = K
    BY <2>5, <2>6, <2>7, <2>8
  <2> QED BY <2>3, <2>9 DEF R, K
<1>2. CASE c \notin ValueStages
  <2>1. c \in OtherStages /\ c # "parse_complete" /\ w = Awaited(c) /\ Moved(c) = Followed(c)
    BY <1>2 DEF Stages, Accepts, Moved
  <2>2. ~Closes(c, w)
    BY <2>1, Zenon DEF Closes, Awaited
  <2> QED BY <2>1, <2>2, OtherStageAfter
<1> QED BY <1>1, <1>2

(* A word that opens a container in a stage. *)
LEMMA OpenAfter ==
  ASSUME NEW c \in Stages, NEW w \in Letters, Opens(c, w)
  PROVE  /\ After(w, Remainder(c)) = Cat(Remainder(Opened(w)), Remainder(Valued(c)))
         /\ After(w, Continuation(c))
              = Continuation(Opened(w)) \cup Cat(Remainder(Opened(w)), Continuation(Valued(c)))
<1> DEFINE D == Remainder(Opened(w))
           B == Continuation(Opened(w))
           R == Remainder(Valued(c))
           K == Continuation(Valued(c))
<1>1. c \in ValueStages /\ w \in {"left_brace", "left_bracket"}
  BY DEF Opens
<1>2. w # "right_brace" /\ w \notin {"scalar", "string"}
  BY <1>1
<1>3. AfterValue(w) = D
  BY <1>1, <1>2, Zenon DEF AfterValue
<1>d. AfterBegunValue(w) = D \cup B
  BY <1>1, <1>3, Zenon DEF AfterBegunValue
<1>4. /\ D \in Language /\ B \in Language /\ R \in Language /\ K \in Language /\ <<>> \in K
  BY <1>1, StageSteps, StagesType, EmptyOrNot
<1>5. /\ After(w, Remainder(c)) = {} \cup Cat(AfterValue(w), R)
      /\ After(w, Continuation(c)) = AfterBegunValue(w) \cup Cat(AfterValue(w), K)
  BY <1>1, <1>2, ValueStageAfter
<1> HIDE DEF D, B, R, K
<1>6. D \subseteq Cat(D, K)
  <2>1. Empty \subseteq K
    BY <1>4 DEF Empty
  <2>2. Cat(D, Empty) \subseteq Cat(D, K)
    BY <2>1, CatMonotone
  <2> QED BY <2>2, <1>4, CatNothing
<1>7. /\ After(w, Remainder(c)) = Cat(D, R)
      /\ After(w, Continuation(c)) = B \cup Cat(D, K)
  BY <1>3, <1>d, <1>5, <1>6
<1> QED BY <1>7 DEF D, B, R, K

(* A word that closes the container of a stage. *)
LEMMA CloseAfter ==
  ASSUME NEW c \in Stages, NEW w \in Letters, Closes(c, w)
  PROVE  After(w, Remainder(c)) = Empty /\ After(w, Continuation(c)) = {}
<1>1. CASE c = "array_start"
  <2>1. c \in ValueStages /\ w = "right_brace"
    BY <1>1, Zenon DEF Closes, ValueStages
  <2>2. AfterValue(w) = {} /\ AfterBegunValue(w) = {}
    BY <2>1 DEF AfterValue, AfterBegunValue
  <2>3. /\ After(w, Remainder(c)) = Empty \cup Cat({}, Remainder(Valued(c)))
        /\ After(w, Continuation(c)) = {} \cup Cat({}, Continuation(Valued(c)))
    BY <1>1, <2>1, <2>2, ValueStageAfter
  <2> QED BY <2>3, CatEmpty
<1>2. CASE c # "array_start"
  <2>1. c \in OtherStages /\ c # "parse_complete" /\ w # Awaited(c)
    BY <1>2, Zenon DEF Closes, OtherStages, Awaited
  <2> QED BY <2>1, OtherStageAfter
<1> QED BY <1>1, <1>2

(* Any other word leads nowhere. *)
LEMMA NoneAfter ==
  ASSUME NEW c \in Stages, NEW w \in Letters, ~Accepts(c, w), ~Opens(c, w), ~Closes(c, w)
  PROVE  After(w, Remainder(c)) = {} /\ After(w, Continuation(c)) = {}
<1>1. CASE c \in ValueStages
  <2>1. w \notin {"scalar", "string", "left_brace", "left_bracket"}
    BY <1>1, Zenon DEF Accepts, Opens
  <2>2. AfterValue(w) = {} /\ AfterBegunValue(w) = {}
    BY <2>1 DEF AfterValue, AfterBegunValue
  <2>3. ~(c = "array_start" /\ w = "right_brace")
    BY Zenon DEF Closes
  <2>4. /\ After(w, Remainder(c)) = {} \cup Cat({}, Remainder(Valued(c)))
        /\ After(w, Continuation(c)) = {} \cup Cat({}, Continuation(Valued(c)))
    BY <1>1, <2>2, <2>3, ValueStageAfter
  <2> QED BY <2>4, CatEmpty
<1>2. CASE c = "parse_complete"
  <2>1. Remainder(c) = Empty /\ Continuation(c) = Empty
    BY <1>2 DEF Remainder, Continuation
  <2> QED BY <2>1, AfterNothing
<1>3. CASE c \notin ValueStages /\ c # "parse_complete"
  <2>1. c \in OtherStages /\ w # Awaited(c)
    BY <1>3 DEF Stages, Accepts
  <2> QED BY <1>3, <2>1, OtherStageAfter
<1> QED BY <1>1, <1>2, <1>3

-----------------------------------------------------------------------------
(* A whole stack of stages: what is still to come of the document when the  *)
(* stages come to their ends from the top one down, and how that may begin. *)
(* Under what is to come of the first k stages, the others put theirs.     *)
Under(c, u) == Cat(Remainder(c), {u})

Reaches(stack, k, u, t) ==
  \E f \in [0..Len(stack) -> Seq(Letters)] :
    /\ f[k] = u /\ f[Len(stack)] = t
    /\ \A i \in (k + 1)..Len(stack) : f[i] \in Under(stack[i], f[i - 1])

Completions(stack) == {t \in Seq(Letters) : Reaches(stack, 0, <<>>, t)}

Continuations(stack) ==
  {t \in Seq(Letters) : \E k \in 1..Len(stack) : \E u \in Continuation(stack[k]) : Reaches(stack, k, u, t)}

LEMMA CompletionIs ==
  ASSUME NEW stack, NEW t
  PROVE  t \in Completions(stack) <=> t \in Seq(Letters) /\ Reaches(stack, 0, <<>>, t)
BY Zenon DEF Completions

LEMMA ContinuationIs ==
  ASSUME NEW stack, NEW t
  PROVE  t \in Continuations(stack)
           <=> /\ t \in Seq(Letters)
               /\ \E k \in 1..Len(stack) : \E u \in Continuation(stack[k]) : Reaches(stack, k, u, t)
BY Zenon DEF Continuations

LEMMA StacksType ==
  ASSUME NEW stack
  PROVE  Completions(stack) \in Language /\ Continuations(stack) \in Language
BY CompletionIs, ContinuationIs DEF Language

LEMMA OneMoreStage ==
  ASSUME NEW stack \in Seq(Stages), NEW c \in Stages
  PROVE  /\ Append(stack, c) \in Seq(Stages) /\ Len(stack) \in Nat
         /\ Len(Append(stack, c)) = Len(stack) + 1
         /\ \A i \in 1..Len(stack) : Append(stack, c)[i] = stack[i] /\ stack[i] \in Stages
         /\ Append(stack, c)[Len(stack) + 1] = c
BY AppendProperties, LenProperties, ElementOfSeq

LEMMA ReachesItself ==
  ASSUME NEW stack, Len(stack) \in Nat, NEW u \in Seq(Letters), NEW t
  PROVE  Reaches(stack, Len(stack), u, t) <=> u = t
<1> DEFINE n == Len(stack)
           f == [i \in 0..n |-> u]
<1>1. f \in [0..n -> Seq(Letters)] /\ f[n] = u
  OBVIOUS
<1>2. (n + 1)..n = {}
  OBVIOUS
<1> HIDE DEF f
<1>3. Reaches(stack, n, u, u)
  BY <1>1, <1>2 DEF Reaches
<1>4. Reaches(stack, n, u, t) => u = t
  BY DEF Reaches
<1> QED BY <1>3, <1>4

LEMMA EmptyStack == Completions(<<>>) = Empty /\ Continuations(<<>>) = {}
<1> DEFINE e == <<>>
<1>1. Len(e) = 0 /\ Len(e) \in Nat /\ e = <<>> /\ e \in Seq(Letters)
  BY EmptySeq
<1> HIDE DEF e
<1>2. \A t : t \in Completions(e) <=> t = e
  BY <1>1, CompletionIs, ReachesItself
<1>3. ASSUME NEW t \in Continuations(e) PROVE FALSE
  <2>1. 1..Len(e) = {}
    BY <1>1
  <2> QED BY <2>1, ContinuationIs
<1> QED BY <1>1, <1>2, <1>3 DEF Empty

LEMMA ReachesMore ==
  ASSUME NEW stack \in Seq(Stages), NEW c \in Stages, NEW k \in Nat, k <= Len(stack),
         NEW u, NEW v, NEW t \in Seq(Letters),
         Reaches(stack, k, u, v), t \in Under(c, v)
  PROVE  Reaches(Append(stack, c), k, u, t)
<1> DEFINE n == Len(stack)
           longer == Append(stack, c)
<1>1. /\ n \in Nat /\ Len(longer) = n + 1 /\ longer[n + 1] = c
      /\ \A i \in 1..n : longer[i] = stack[i]
  BY OneMoreStage
<1>2. PICK f \in [0..n -> Seq(Letters)] :
         /\ f[k] = u /\ f[n] = v
         /\ \A i \in (k + 1)..n : f[i] \in Under(stack[i], f[i - 1])
  BY Zenon DEF Reaches
<1> DEFINE g == [i \in 0..(n + 1) |-> IF i = n + 1 THEN t ELSE f[i]]
<1> HIDE DEF longer
<1>3. \A i \in 0..n : g[i] = f[i] /\ f[i] \in Seq(Letters)
  BY <1>1, <1>2
<1>4. g[n + 1] = t
  BY <1>1
<1>5. g \in [0..Len(longer) -> Seq(Letters)]
  <2>1. ASSUME NEW i \in 0..(n + 1) PROVE (IF i = n + 1 THEN t ELSE f[i]) \in Seq(Letters)
    <3>1. i # n + 1 => i \in 0..n
      BY <1>1
    <3> QED BY <1>2, <3>1
  <2>2. g \in [0..(n + 1) -> Seq(Letters)]
    BY <2>1
  <2> QED BY <1>1, <2>2
<1> HIDE DEF g
<1>6. ASSUME NEW i \in (k + 1)..Len(longer)
      PROVE  g[i] \in Under(longer[i], g[i - 1])
  <2>1. CASE i = n + 1
    <3>1. i - 1 = n /\ n \in 0..n
      BY <1>1, <2>1
    <3>2. g[i - 1] = v /\ g[i] = t /\ longer[i] = c
      BY <1>1, <1>2, <1>3, <1>4, <2>1, <3>1
    <3> QED BY <3>2
  <2>2. CASE i # n + 1
    <3>1. i \in (k + 1)..n /\ i \in 1..n /\ i \in 0..n /\ i - 1 \in 0..n
      BY <1>1, <2>2
    <3>2. g[i - 1] = f[i - 1] /\ g[i] = f[i] /\ longer[i] = stack[i]
      BY <1>1, <1>3, <3>1
    <3> QED BY <1>2, <3>1, <3>2
  <2> QED BY <2>1, <2>2
<1>7. g[k] = u /\ g[Len(longer)] = t
  BY <1>1, <1>2, <1>3, <1>4
<1>8. Reaches(longer, k, u, t)
  BY <1>5, <1>6, <1>7, Zenon DEF Reaches
<1> QED BY <1>8 DEF longer

LEMMA ReachesLess ==
  ASSUME NEW stack \in Seq(Stages), NEW c \in Stages, NEW k \in Nat, k <= Len(stack),
         NEW u, NEW t, Reaches(Append(stack, c), k, u, t)
  PROVE  \E v \in Seq(Letters) : Reaches(stack, k, u, v) /\ t \in Under(c, v)
<1> DEFINE n == Len(stack)
           longer == Append(stack, c)
<1>1. /\ n \in Nat /\ Len(longer) = n + 1 /\ longer[n + 1] = c
      /\ \A i \in 1..n : longer[i] = stack[i]
  BY OneMoreStage
<1>2. PICK g \in [0..Len(longer) -> Seq(Letters)] :
         /\ g[k] = u /\ g[Len(longer)] = t
         /\ \A i \in (k + 1)..Len(longer) : g[i] \in Under(longer[i], g[i - 1])
  BY Zenon DEF Reaches
<1> DEFINE f == [i \in 0..n |-> g[i]]
<1> HIDE DEF longer
<1>3. \A i \in 0..n : f[i] = g[i] /\ g[i] \in Seq(Letters)
  BY <1>1, <1>2
<1>4. f \in [0..n -> Seq(Letters)]
  BY <1>3
<1> HIDE DEF f
<1>5. ASSUME NEW i \in (k + 1)..n
      PROVE  f[i] \in Under(stack[i], f[i - 1])
  <2>1. i \in (k + 1)..Len(longer) /\ i \in 1..n /\ i \in 0..n /\ i - 1 \in 0..n
    BY <1>1
  <2>2. f[i - 1] = g[i - 1] /\ f[i] = g[i] /\ longer[i] = stack[i]
    BY <1>1, <1>3, <2>1
  <2> QED BY <1>2, <2>1, <2>2
<1>6. f[k] = u /\ n \in 0..n
  BY <1>1, <1>2, <1>3
<1>7. Reaches(stack, k, u, f[n])
  BY <1>4, <1>5, <1>6, Zenon DEF Reaches
<1>8. t \in Under(c, f[n])
  <2>1. n + 1 \in (k + 1)..Len(longer) /\ (n + 1) - 1 = n
    BY <1>1
  <2>2. g[n + 1] \in Under(longer[n + 1], g[n])
    BY <1>2, <2>1
  <2> QED BY <1>1, <1>2, <1>3, <1>6, <2>2
<1>9. f[n] \in Seq(Letters)
  BY <1>3, <1>6
<1> QED BY <1>7, <1>8, <1>9

LEMMA CompletionsPushed ==
  ASSUME NEW stack \in Seq(Stages), NEW c \in Stages
  PROVE  Completions(Append(stack, c)) = Cat(Remainder(c), Completions(stack))
<1> DEFINE longer == Append(stack, c)
           e == <<>>
<1>1. Len(stack) \in Nat /\ 0 \in Nat /\ 0 <= Len(stack)
  BY OneMoreStage
<1>c. \A s, t : t \in Completions(s) <=> t \in Seq(Letters) /\ Reaches(s, 0, e, t)
  BY CompletionIs
<1> HIDE DEF e
<1>2. ASSUME NEW t \in Completions(longer) PROVE t \in Cat(Remainder(c), Completions(stack))
  <2>1. Reaches(longer, 0, e, t)
    BY <1>c
  <2>2. PICK v \in Seq(Letters) : Reaches(stack, 0, e, v) /\ t \in Under(c, v)
    BY <1>1, <2>1, ReachesLess
  <2>3. v \in Completions(stack)
    BY <2>2, <1>c
  <2>4. Under(c, v) \subseteq Cat(Remainder(c), Completions(stack))
    BY <2>3, CatMonotone DEF Under
  <2> QED BY <2>2, <2>4
<1>3. ASSUME NEW t, t \in Cat(Remainder(c), Completions(stack)) PROVE t \in Completions(longer)
  <2>1. PICK r \in Remainder(c), v \in Completions(stack) : t = r \o v
    BY <1>3, CatOut
  <2>2. r \in Seq(Letters) /\ v \in Seq(Letters) /\ Reaches(stack, 0, e, v)
    BY <1>c, StagesType DEF Language
  <2>3. t \in Under(c, v)
    BY <2>1, CatIn DEF Under
  <2>4. t \in Seq(Letters)
    BY <2>1, <2>2, ConcatProperties
  <2>5. Reaches(longer, 0, e, t)
    BY <1>1, <2>2, <2>3, <2>4, ReachesMore
  <2> QED BY <2>4, <2>5, <1>c
<1> QED BY <1>2, <1>3

LEMMA ContinuationsPushed ==
  ASSUME NEW stack \in Seq(Stages), NEW c \in Stages
  PROVE  Continuations(Append(stack, c))
           = Continuation(c) \cup Cat(Remainder(c), Continuations(stack))
<1> DEFINE n == Len(stack)
           longer == Append(stack, c)
<1>1. /\ n \in Nat /\ Len(longer) = n + 1 /\ longer[n + 1] = c
      /\ \A i \in 1..n : longer[i] = stack[i] /\ stack[i] \in Stages
  BY OneMoreStage
<1>2. ASSUME NEW t \in Continuations(longer)
      PROVE  t \in Continuation(c) \cup Cat(Remainder(c), Continuations(stack))
  <2>1. PICK k \in 1..Len(longer) : \E u \in Continuation(longer[k]) : Reaches(longer, k, u, t)
    BY ContinuationIs
  <2>2. PICK u \in Continuation(longer[k]) : Reaches(longer, k, u, t)
    BY <2>1
  <2>3. CASE k = n + 1
    <3>1. u \in Continuation(c) /\ u \in Seq(Letters)
      BY <1>1, <2>3, StagesType DEF Language
    <3>2. Len(longer) \in Nat /\ k = Len(longer)
      BY <1>1, <2>3
    <3>3. u = t
      BY <2>2, <3>1, <3>2, ReachesItself
    <3> QED BY <3>1, <3>3
  <2>4. CASE k # n + 1
    <3>1. k \in 1..n /\ k \in Nat /\ k <= n
      BY <1>1, <2>4
    <3>2. u \in Continuation(stack[k])
      BY <1>1, <3>1
    <3>3. PICK v \in Seq(Letters) : Reaches(stack, k, u, v) /\ t \in Under(c, v)
      BY <2>2, <3>1, ReachesLess
    <3>4. v \in Continuations(stack)
      BY <3>1, <3>2, <3>3, ContinuationIs
    <3>5. Under(c, v) \subseteq Cat(Remainder(c), Continuations(stack))
      BY <3>4, CatMonotone DEF Under
    <3> QED BY <3>3, <3>5
  <2> QED BY <2>3, <2>4
<1>3. ASSUME NEW t \in Continuation(c) PROVE t \in Continuations(longer)
  <2>1. t \in Seq(Letters)
    BY StagesType DEF Language
  <2>2. Len(longer) \in Nat /\ Len(longer) \in 1..Len(longer) /\ t \in Continuation(longer[Len(longer)])
    BY <1>1
  <2>3. Reaches(longer, Len(longer), t, t)
    BY <2>1, <2>2, ReachesItself
  <2> QED BY <2>1, <2>2, <2>3, ContinuationIs
<1>4. ASSUME NEW t, t \in Cat(Remainder(c), Continuations(stack)) PROVE t \in Continuations(longer)
  <2>1. PICK r \in Remainder(c), v \in Continuations(stack) : t = r \o v
    BY <1>4, CatOut
  <2>2. r \in Seq(Letters) /\ v \in Seq(Letters)
    BY StagesType, StacksType DEF Language
  <2>3. PICK k \in 1..n : \E u \in Continuation(stack[k]) : Reaches(stack, k, u, v)
    BY ContinuationIs
  <2>4. PICK u \in Continuation(stack[k]) : Reaches(stack, k, u, v)
    BY <2>3
  <2>5. t \in Under(c, v)
    BY <2>1, CatIn DEF Under
  <2>6. t \in Seq(Letters)
    BY <2>1, <2>2, ConcatProperties
  <2>7. k \in Nat /\ k <= n /\ k \in 1..Len(longer)
    BY <1>1
  <2>8. Reaches(longer, k, u, t)
    BY <2>4, <2>5, <2>6, <2>7, ReachesMore
  <2>9. u \in Continuation(longer[k])
    BY <1>1
  <2> QED BY <2>6, <2>7, <2>8, <2>9, ContinuationIs
<1> QED BY <1>2, <1>3, <1>4

-----------------------------------------------------------------------------
(* A stack tracks the words so far when it tells what may come: its        *)
(* completions are what makes a document of them, its continuations what   *)
(* makes a beginning of one.                                               *)
Rest(s, L) == {t \in Seq(Letters) : s \o t \in L}

Tracks(stack, s) ==
  /\ s \in Seq(Letters)
  /\ Rest(s, Phrases("value")) = Completions(stack)
  /\ Rest(s, Openings("value")) = Continuations(stack)

LEMMA RestIs ==
  ASSUME NEW s, NEW L, NEW t
  PROVE  t \in Rest(s, L) <=> t \in Seq(Letters) /\ s \o t \in L
BY Zenon DEF Rest

LEMMA RestMore ==
  ASSUME NEW s \in Seq(Letters), NEW w \in Letters, NEW L
  PROVE  Append(s, w) \in Seq(Letters) /\ Rest(Append(s, w), L) = After(w, Rest(s, L))
<1>1. Append(s, w) \in Seq(Letters)
  BY AppendProperties
<1>2. Append(s, w) = s \o <<w>> /\ <<w>> \in Seq(Letters)
  BY AppendIsConcat, LetterSized
<1>3. ASSUME NEW t \in Seq(Letters) PROVE Append(s, w) \o t = s \o Prefixed(w, t)
  BY <1>2, ConcatAssociative DEF Prefixed
<1>4. ASSUME NEW t PROVE t \in Rest(Append(s, w), L) <=> t \in After(w, Rest(s, L))
  <2>1. ASSUME t \in Seq(Letters)
        PROVE  t \in Rest(Append(s, w), L) <=> t \in After(w, Rest(s, L))
    <3>1. Append(s, w) \o t = s \o Prefixed(w, t) /\ Prefixed(w, t) \in Seq(Letters)
      BY <1>3, <2>1, PrefixedType
    <3>2. t \in Rest(Append(s, w), L) <=> Append(s, w) \o t \in L
      BY <2>1, RestIs
    <3>3. Prefixed(w, t) \in Rest(s, L) <=> s \o Prefixed(w, t) \in L
      BY <3>1, RestIs
    <3>4. t \in After(w, Rest(s, L)) <=> Prefixed(w, t) \in Rest(s, L)
      BY <2>1, AfterIn
    <3> QED BY <3>1, <3>2, <3>3, <3>4
  <2> QED BY <2>1, RestIs, AfterIn
<1> QED BY <1>1, <1>4

LEMMA TracksNothing ==
  ASSUME NEW c \in {"start", "got_value"}
  PROVE  Tracks(Append(<<>>, c), <<>>)
<1> DEFINE e == <<>>
<1>1. /\ e \in Seq(Letters) /\ e \in Seq(Stages) /\ c \in Stages
  BY Zenon, EmptySeq DEF Stages, ValueStages
<1>2. \A t \in Seq(Letters) : e \o t = t
  BY ConcatEmptySeq
<1>3. Completions(e) = Empty /\ Continuations(e) = {}
  BY EmptyStack
<1>4. Remainder(c) = Phrases("value") /\ Continuation(c) = Openings("value")
  BY DEF Remainder, Continuation
<1> HIDE DEF e
<1>5. Completions(Append(e, c)) = Cat(Phrases("value"), Empty)
  BY <1>1, <1>3, <1>4, CompletionsPushed
<1>6. Continuations(Append(e, c)) = Openings("value") \cup Cat(Phrases("value"), {})
  BY <1>1, <1>3, <1>4, ContinuationsPushed
<1>7. ASSUME NEW L \in Language PROVE Rest(e, L) = L
  <2>1. \A t \in L : t \in Seq(Letters)
    BY DEF Language
  <2>2. ASSUME NEW t PROVE t \in Rest(e, L) <=> t \in L
    <3>1. t \in Rest(e, L) <=> t \in Seq(Letters) /\ e \o t \in L
      BY RestIs
    <3> QED BY <1>2, <2>1, <3>1
  <2> QED BY <2>2
<1>8. /\ Completions(Append(e, c)) = Phrases("value")
      /\ Continuations(Append(e, c)) = Openings("value")
  BY <1>5, <1>6, CatNothing, CatEmpty, GrammarTypes
<1>9. Tracks(Append(e, c), e)
  BY <1>1, <1>7, <1>8, GrammarTypes DEF Tracks
<1> QED BY <1>9 DEF e

(* What a word does to the languages of a stack, by what it does to the    *)
(* languages of its top stage.                                              *)
LEMMA StackAfter ==
  ASSUME NEW stack \in Seq(Stages), NEW c \in Stages, c # "parse_complete", NEW w \in Letters
  PROVE  /\ After(w, Completions(Append(stack, c))) = Cat(After(w, Remainder(c)), Completions(stack))
         /\ After(w, Continuations(Append(stack, c)))
              = After(w, Continuation(c)) \cup Cat(After(w, Remainder(c)), Continuations(stack))
<1> DEFINE R == Remainder(c)
           K == Continuation(c)
           P == Completions(stack)
           B == Continuations(stack)
           X == Cat(R, B)
<1>1. R \in Language /\ K \in Language /\ P \in Language /\ B \in Language /\ <<>> \notin R
  BY StagesType, StacksType, EmptyOrNot
<1>2. Completions(Append(stack, c)) = Cat(R, P) /\ Continuations(Append(stack, c)) = K \cup X
  BY CompletionsPushed, ContinuationsPushed
<1>3. After(w, Cat(R, P)) = Cat(After(w, R), P) /\ After(w, X) = Cat(After(w, R), B)
  BY <1>1, AfterCat
<1> HIDE DEF R, K, P, B, X
<1>4. After(w, K \cup X) = After(w, K) \cup After(w, X)
  BY AfterUnion
<1> QED BY <1>2, <1>3, <1>4 DEF R, K, P, B

LEMMA TracksAfter ==
  ASSUME NEW stack, NEW s, Tracks(stack, s), NEW w \in Letters
  PROVE  /\ Append(s, w) \in Seq(Letters)
         /\ Rest(Append(s, w), Phrases("value")) = After(w, Completions(stack))
         /\ Rest(Append(s, w), Openings("value")) = After(w, Continuations(stack))
<1>1. s \in Seq(Letters)
  BY DEF Tracks
<1>2. /\ Rest(Append(s, w), Phrases("value")) = After(w, Rest(s, Phrases("value")))
      /\ Rest(Append(s, w), Openings("value")) = After(w, Rest(s, Openings("value")))
      /\ Append(s, w) \in Seq(Letters)
  BY <1>1, RestMore
<1> QED BY <1>2 DEF Tracks

LEMMA TracksMove ==
  ASSUME NEW stack \in Seq(Stages), NEW c \in Stages, NEW w \in Letters, Accepts(c, w),
         NEW s, Tracks(Append(stack, c), s)
  PROVE  Tracks(Append(stack, Moved(c)), Append(s, w))
<1>1. c # "parse_complete"
  BY Zenon DEF Accepts, ValueStages
<1>2. /\ After(w, Remainder(c)) = Remainder(Moved(c))
      /\ After(w, Continuation(c)) = Continuation(Moved(c))
  BY MoveAfter
<1>3. Moved(c) \in Stages
  BY StageSteps
<1>4. /\ Completions(Append(stack, Moved(c))) = Cat(Remainder(Moved(c)), Completions(stack))
      /\ Continuations(Append(stack, Moved(c)))
           = Continuation(Moved(c)) \cup Cat(Remainder(Moved(c)), Continuations(stack))
  BY <1>3, CompletionsPushed, ContinuationsPushed
<1>5. /\ After(w, Completions(Append(stack, c))) = Completions(Append(stack, Moved(c)))
      /\ After(w, Continuations(Append(stack, c))) = Continuations(Append(stack, Moved(c)))
  BY <1>1, <1>2, <1>4, StackAfter
<1>6. /\ Append(s, w) \in Seq(Letters)
      /\ Rest(Append(s, w), Phrases("value")) = After(w, Completions(Append(stack, c)))
      /\ Rest(Append(s, w), Openings("value")) = After(w, Continuations(Append(stack, c)))
  BY TracksAfter
<1> QED BY <1>5, <1>6 DEF Tracks

LEMMA TracksOpen ==
  ASSUME NEW stack \in Seq(Stages), NEW c \in Stages, NEW w \in Letters, Opens(c, w),
         NEW s, Tracks(Append(stack, c), s)
  PROVE  Tracks(Append(Append(stack, Valued(c)), Opened(w)), Append(s, w))
<1> DEFINE below == Append(stack, Valued(c))
           D == Remainder(Opened(w))
           DK == Continuation(Opened(w))
           R == Remainder(Valued(c))
           K == Continuation(Valued(c))
           P == Completions(stack)
           B == Continuations(stack)
<1>1. c # "parse_complete" /\ c \in ValueStages
  BY Zenon DEF Opens, ValueStages
<1>2. /\ After(w, Remainder(c)) = Cat(D, R)
      /\ After(w, Continuation(c)) = DK \cup Cat(D, K)
  BY OpenAfter
<1>3. Valued(c) \in Stages /\ Opened(w) \in Stages
  BY <1>1, StageSteps
<1>4. below \in Seq(Stages)
  BY <1>3, OneMoreStage
<1>5. Completions(below) = Cat(R, P) /\ Continuations(below) = K \cup Cat(R, B)
  BY <1>3, CompletionsPushed, ContinuationsPushed
<1>6. /\ Completions(Append(below, Opened(w))) = Cat(D, Completions(below))
      /\ Continuations(Append(below, Opened(w))) = DK \cup Cat(D, Continuations(below))
  BY <1>3, <1>4, CompletionsPushed, ContinuationsPushed
<1>7. /\ D \in Language /\ R \in Language /\ K \in Language /\ P \in Language /\ B \in Language
  BY <1>3, StagesType, StacksType
<1>8. /\ After(w, Completions(Append(stack, c))) = Cat(Cat(D, R), P)
      /\ After(w, Continuations(Append(stack, c))) = (DK \cup Cat(D, K)) \cup Cat(Cat(D, R), B)
  BY <1>1, <1>2, StackAfter
<1>9. /\ Append(s, w) \in Seq(Letters)
      /\ Rest(Append(s, w), Phrases("value")) = After(w, Completions(Append(stack, c)))
      /\ Rest(Append(s, w), Openings("value")) = After(w, Continuations(Append(stack, c)))
  BY TracksAfter
<1> HIDE DEF below, D, DK, R, K, P, B
<1>10. Cat(Cat(D, R), P) = Cat(D, Cat(R, P)) /\ Cat(Cat(D, R), B) = Cat(D, Cat(R, B))
  BY <1>7, CatAssociative
<1>11. Cat(D, Continuations(below)) = Cat(D, K) \cup Cat(D, Cat(R, B))
  <2> DEFINE Y == Cat(R, B)
  <2>1. Continuations(below) = K \cup Y
    BY <1>5
  <2> HIDE DEF Y
  <2>2. Cat(D, K \cup Y) = Cat(D, K) \cup Cat(D, Y)
    BY CatUnionRight
  <2> QED BY <2>1, <2>2 DEF Y
<1>12. /\ After(w, Completions(Append(stack, c))) = Completions(Append(below, Opened(w)))
       /\ After(w, Continuations(Append(stack, c))) = Continuations(Append(below, Opened(w)))
  BY <1>5, <1>6, <1>8, <1>10, <1>11
<1>13. Tracks(Append(below, Opened(w)), Append(s, w))
  BY <1>9, <1>12 DEF Tracks
<1> QED BY <1>13 DEF below

LEMMA TracksClose ==
  ASSUME NEW stack \in Seq(Stages), NEW c \in Stages, NEW w \in Letters, Closes(c, w),
         NEW s, Tracks(Append(stack, c), s)
  PROVE  Tracks(stack, Append(s, w))
<1>1. c # "parse_complete"
  BY Zenon DEF Closes
<1>2. After(w, Remainder(c)) = Empty /\ After(w, Continuation(c)) = {}
  BY CloseAfter
<1>3. /\ After(w, Completions(Append(stack, c))) = Cat(Empty, Completions(stack))
      /\ After(w, Continuations(Append(stack, c))) = {} \cup Cat(Empty, Continuations(stack))
  BY <1>1, <1>2, StackAfter
<1>4. /\ Cat(Empty, Completions(stack)) = Completions(stack)
      /\ Cat(Empty, Continuations(stack)) = Continuations(stack)
  BY StacksType, CatNothing
<1>5. /\ Append(s, w) \in Seq(Letters)
      /\ Rest(Append(s, w), Phrases("value")) = After(w, Completions(Append(stack, c)))
      /\ Rest(Append(s, w), Openings("value")) = After(w, Continuations(Append(stack, c)))
  BY TracksAfter
<1>6. {} \cup Continuations(stack) = Continuations(stack)
  OBVIOUS
<1> QED BY <1>3, <1>4, <1>5, <1>6 DEF Tracks

(* What the words so far are, by the top of the stack that tracks them.    *)
LEMMA TracksMeans ==
  ASSUME NEW stack \in Seq(Stages), NEW c \in Stages, NEW s, Tracks(Append(stack, c), s)
  PROVE  /\ s \in Openings("value")
         /\ s \in Phrases("value") => c = "parse_complete"
         /\ c = "parse_complete" /\ stack = <<>> => s \in Phrases("value")
<1> DEFINE e == <<>>
<1>1. s \in Seq(Letters) /\ e \in Seq(Letters) /\ s \o e = s
  BY ConcatEmptySeq, EmptySeq DEF Tracks
<1>2. /\ s \in Openings("value") <=> e \in Continuations(Append(stack, c))
      /\ s \in Phrases("value") <=> e \in Completions(Append(stack, c))
  BY <1>1, RestIs DEF Tracks
<1>3. /\ e \in Continuation(c) /\ (e \in Remainder(c) <=> c = "parse_complete")
      /\ \A A, B \in Language : e \in Cat(A, B) => e \in A /\ e \in B
  BY EmptyOrNot, NotEmptyCat
<1>4. /\ Continuations(Append(stack, c)) = Continuation(c) \cup Cat(Remainder(c), Continuations(stack))
      /\ Completions(Append(stack, c)) = Cat(Remainder(c), Completions(stack))
  BY CompletionsPushed, ContinuationsPushed
<1>5. Remainder(c) \in Language /\ Completions(stack) \in Language
  BY StagesType, StacksType
<1>6. c = "parse_complete" /\ stack = e => e \in Completions(Append(stack, c))
  <2>1. SUFFICES ASSUME c = "parse_complete", stack = e PROVE e \in Cat(Remainder(c), Completions(stack))
    BY <1>4
  <2>2. Remainder(c) = Empty /\ Completions(stack) = Empty
    BY <2>1, EmptyStack DEF Remainder
  <2>3. Cat(Empty, Empty) = Empty
    BY CatNothing, NothingType
  <2> QED BY <2>2, <2>3 DEF Empty
<1> HIDE DEF e
<1>7. s \in Openings("value")
  BY <1>2, <1>3, <1>4
<1>8. s \in Phrases("value") => c = "parse_complete"
  BY <1>2, <1>3, <1>4, <1>5
<1>9. c = "parse_complete" /\ stack = e => s \in Phrases("value")
  BY <1>2, <1>6
<1> QED BY <1>7, <1>8, <1>9 DEF e

(* After a word that leads nowhere, nothing leads to a document. *)
LEMMA TracksNoMore ==
  ASSUME NEW stack \in Seq(Stages), NEW c \in Stages, NEW w \in Letters,
         ~Accepts(c, w), ~Opens(c, w), ~Closes(c, w),
         c = "parse_complete" => stack = <<>>,
         NEW s, Tracks(Append(stack, c), s)
  PROVE  \A t \in Seq(Letters) : Append(s, w) \o t \notin Openings("value")
<1>1. Rest(Append(s, w), Openings("value")) = After(w, Continuations(Append(stack, c)))
  BY TracksAfter
<1>2. After(w, Remainder(c)) = {} /\ After(w, Continuation(c)) = {}
  BY NoneAfter
<1>3. After(w, Continuations(Append(stack, c))) = {}
  <2>1. CASE c # "parse_complete"
    <3>1. After(w, Continuations(Append(stack, c))) = {} \cup Cat({}, Continuations(stack))
      BY <1>2, <2>1, StackAfter
    <3> QED BY <3>1, CatEmpty
  <2>2. CASE c = "parse_complete"
    <3>1. Continuations(stack) = {}
      BY <2>2, EmptyStack
    <3>2. Continuations(Append(stack, c)) = Continuation(c) \cup Cat(Remainder(c), {})
      BY <3>1, ContinuationsPushed
    <3>3. Cat(Remainder(c), {}) = {}
      BY CatEmpty
    <3>4. Continuations(Append(stack, c)) = Continuation(c)
      BY <3>2, <3>3
    <3> QED BY <3>4, <1>2
  <2> QED BY <2>1, <2>2
<1> DEFINE u == Append(s, w)
<1>4. Rest(u, Openings("value")) = {}
  BY <1>1, <1>3
<1> HIDE DEF u
<1>5. ASSUME NEW t \in Seq(Letters) PROVE u \o t \notin Openings("value")
  <2>1. t \notin Rest(u, Openings("value"))
    BY <1>4
  <2> QED BY <2>1, RestIs, Zenon
<1> QED BY <1>5 DEF u

LEMMA TracksNone ==
  ASSUME NEW stack \in Seq(Stages), NEW c \in Stages, NEW w \in Letters,
         ~Accepts(c, w), ~Opens(c, w), ~Closes(c, w),
         c = "parse_complete" => stack = <<>>,
         NEW s, Tracks(Append(stack, c), s)
  PROVE  Append(s, w) \notin Openings("value")
<1> DEFINE e == <<>>
           u == Append(s, w)
<1>1. u \in Seq(Letters)
  BY TracksAfter
<1>2. u \o e = u /\ e \in Seq(Letters)
  BY <1>1, ConcatEmptySeq, EmptySeq
<1>3. \A t \in Seq(Letters) : u \o t \notin Openings("value")
  BY TracksNoMore
<1> HIDE DEF e, u
<1>4. u \notin Openings("value")
  BY <1>2, <1>3, Zenon
<1> QED BY <1>4 DEF u
=============================================================================
