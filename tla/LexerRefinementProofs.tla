----------------------- MODULE LexerRefinementProofs -----------------------
(***************************************************************************)
(* Proofs, for every set of inputs and under every chunking, that the      *)
(* lexer with its held text implements the scanner of one unbroken stream, *)
(* and that what it holds between two calls is an unfinished token.        *)
(*                                                                         *)
(* The argument is that the lexer can always retrace its steps: the text   *)
(* it holds leads the switch tables from the dispatching switch, character *)
(* by character and without ever completing a token, to the point where    *)
(* the last chunk broke off.                                               *)
(*                                                                         *)
(* Then jhn_lexer_peek(), where no comments are allowed: it leaves the     *)
(* held text as it was and tells the token the next read returns.  And     *)
(* last what a token carries: the steps retraced spell a lexeme of JSON.   *)
(***************************************************************************)
EXTENDS LexerRefinement, LexerPeek, LexerProofs, GrammarProofs

-----------------------------------------------------------------------------
(* The tables of the scanner are those of the lexer.                       *)

LEMMA SameClasses ==
  /\ Scanner!LiteralPoints = LiteralPoints
  /\ Scanner!StringPoints = StringPoints
  /\ Scanner!NumberPoints = NumberPoints
  /\ Scanner!CommentPoints = CommentPoints
  /\ Scanner!Utf8Points = Utf8Points
  /\ Scanner!Digits = Digits
  /\ Scanner!VEC = VEC
  /\ Scanner!VHC = VHC
  /\ Scanner!Controls = Controls
  /\ Scanner!Whitespace = Whitespace
BY DEF Scanner!Digits, Digits, Scanner!VEC, VEC, Scanner!VHC, VHC, Scanner!Controls, Controls,
       Scanner!Whitespace, Whitespace, Scanner!LiteralPoints, LiteralPoints,
       Scanner!StringPoints, StringPoints, Scanner!NumberPoints, NumberPoints,
       Scanner!CommentPoints, CommentPoints, Scanner!Utf8Points, Utf8Points

LEMMA SameOutcomes ==
  /\ \A p : Scanner!Go(p) = Go(p)
  /\ \A p : Scanner!GoBack(p) = GoBack(p)
  /\ \A t : Scanner!Tok(t) = Tok(t)
  /\ \A t : Scanner!TokBack(t) = TokBack(t)
  /\ \A e : Scanner!Fail(e) = Fail(e)
  /\ \A e : Scanner!FailBack(e) = FailBack(e)
BY DEF Scanner!Go, Go, Scanner!GoBack, GoBack, Scanner!Tok, Tok, Scanner!TokBack, TokBack,
       Scanner!Fail, Fail, Scanner!FailBack, FailBack, Scanner!Outcome, Outcome

LEMMA SameScanChr ==
  ASSUME NEW q, NEW c, NEW comments, NEW utf8
  PROVE  Scanner!ScanChr(q, c, comments, utf8) = ScanChr(q, c, comments, utf8)
<1>1. Scanner!Dispatch(c, comments) = Dispatch(c, comments)
  BY SameClasses, SameOutcomes DEF Scanner!Dispatch, Dispatch
<1>2. Scanner!Literal(q, c) = Literal(q, c)
  BY SameOutcomes DEF Scanner!Literal, Literal, Scanner!Want, Want,
     Scanner!LiteralNext, LiteralNext
<1>3. Scanner!StringChar(q, c, utf8) = StringChar(q, c, utf8)
  BY SameClasses, SameOutcomes DEF Scanner!StringChar, StringChar, Scanner!Utf8Char, Utf8Char,
     Scanner!Utf8Lead, Utf8Lead, Scanner!Utf8Next, Utf8Next, Scanner!HexNext, HexNext
<1>4. Scanner!NumberChar(q, c) = NumberChar(q, c)
  BY SameClasses, SameOutcomes DEF Scanner!NumberChar, NumberChar, Scanner!NumberTail, NumberTail
<1>5. Scanner!CommentChar(q, c) = CommentChar(q, c)
  BY SameOutcomes DEF Scanner!CommentChar, CommentChar
<1> QED BY <1>1, <1>2, <1>3, <1>4, <1>5, SameClasses DEF Scanner!ScanChr, ScanChr

LEMMA SamePlain ==
  ASSUME NEW utf8
  PROVE  Scanner!Plain(utf8) = Plain(utf8)
BY SameClasses DEF Scanner!Plain, Plain, Scanner!Chars, Chars, Scanner!IJC, IJC,
   Scanner!NUC, NUC, Scanner!HighBytes, HighBytes, Scanner!NFP, NFP

-----------------------------------------------------------------------------
(* One character read at any point: at most two ways to unread it without   *)
(* ending the call, no way out of a string but its end, no way back to the  *)
(* switch but over white space or a comment.                                *)
LEMMA ScanOutcome ==
  ASSUME NEW q \in ReadPoints, NEW c \in Chars, NEW comments \in BOOLEAN, NEW utf8 \in BOOLEAN
  PROVE  LET out == ScanChr(q, c, comments, utf8) IN
           /\ out \in Outcomes
           /\ out.tok \notin {"eof", "string_with_escapes"}
           /\ out.tok = "string" => q \in StringPoints
           /\ out.tok # "none" => out.to = "lex"
           /\ out.tok = "none" =>
                /\ out.err = "e_ok"
                /\ out.back => \/ q = "lex" /\ out.to = "number" /\ c \in Digits \cup {"-"}
                               \/ q = "star" /\ out.to = "block" /\ c # "/"
                /\ ~out.back => out.to # "number"
                /\ out.to = "lex" => (q = "lex" /\ c \in Whitespace) \/ q \in CommentPoints
                /\ q \in StringPoints => out.to \in StringPoints \cup {"scan"}
                /\ out.to \in StringPoints \cup {"scan"} => q \in StringPoints \cup {"lex"}
<1> USE DEF ScanChr, Outcomes, Outcome, Go, GoBack, Tok, TokBack, Fail, FailBack, Points,
        ReadPoints, LiteralPoints, StringPoints, Utf8Points, NumberPoints, CommentPoints,
        Tokens, Errors
<1>1. CASE q = "lex"
  <2>1. CASE c \in Whitespace
    BY <1>1, <2>1 DEF Dispatch, Whitespace
  <2>2. CASE c \in Digits \cup {"-"}
    BY <1>1, <2>2 DEF Dispatch, Whitespace, Digits
  <2>3. CASE c = "/"
    BY <1>1, <2>3 DEF Dispatch, Whitespace
  <2>4. CASE c \notin Whitespace \cup Digits \cup {"-", "/"}
    BY <1>1, <2>4 DEF Dispatch
  <2> QED BY <2>1, <2>2, <2>3, <2>4
<1>2. CASE q \in LiteralPoints
  BY <1>2 DEF Literal, LiteralNext
<1>3. CASE q \in StringPoints
  BY <1>3 DEF StringChar, Utf8Char, Utf8Lead, Utf8Next, HexNext
<1>4. CASE q \in NumberPoints
  BY <1>4 DEF NumberChar, NumberTail
<1>5. CASE q \in CommentPoints
  BY <1>5 DEF CommentChar
<1> QED BY <1>1, <1>2, <1>3, <1>4, <1>5

-----------------------------------------------------------------------------
(* Retracing.  A state of the scanner is a point and whether an escape has  *)
(* been seen; a character moves it on without ending the token, a character *)
(* that is unread being read once more at the point it leads to.            *)

States == [point : ReadPoints, esc : BOOLEAN]

Settled(q, c, comments, utf8) ==
  LET out == ScanChr(q, c, comments, utf8)
  IN IF out.tok = "none" /\ out.back THEN ScanChr(out.to, c, comments, utf8) ELSE out

EscAfter(q, esc, c) ==
  IF q \in StringPoints /\ (esc \/ (q = "str" /\ c = "bslash")) THEN TRUE ELSE FALSE

Moves(s, c, t, comments, utf8) ==
  LET out == Settled(s.point, c, comments, utf8) IN
    /\ out.tok = "none" /\ out.to # "lex"
    /\ t = Break(PointOf(out.to), EscAfter(s.point, s.esc, c))

(* The n characters after the first ones lead from the switch through run.  *)
Retraces(run, stream, first, n, comments, utf8) ==
  /\ run \in [0..n -> States]
  /\ run[0] = Break("lex", FALSE)
  /\ \A i \in 1..n : Moves(run[i - 1], stream[first + i], run[i], comments, utf8)

(* The lexer is at point q when the scanner is in state s: the same point,  *)
(* or the character that led to q has been unread and comes next.           *)
Stands(s, q, esc, c) ==
  /\ q \notin StringPoints \cup {"scan"} => esc = FALSE
  /\ \/ q # "number" /\ s = Break(PointOf(q), esc)
     \/ q = "number" /\ s = Break("lex", FALSE) /\ c \in Digits \cup {"-"}
     \/ q = "block" /\ s = Break("star", FALSE) /\ c # "/"

LEMMA StandsCases ==
  ASSUME NEW q \in ReadPoints, NEW s \in States, NEW esc \in BOOLEAN, NEW c \in Chars,
         Stands(s, q, esc, c), NEW comments \in BOOLEAN, NEW utf8 \in BOOLEAN
  PROVE  /\ Settled(s.point, c, comments, utf8) = Settled(q, c, comments, utf8)
         /\ EscAfter(s.point, s.esc, c) = EscAfter(q, esc, c)
<1>1. CASE q # "number" /\ s = Break(PointOf(q), esc)
  <2>1. s.point = q /\ s.esc = esc
    BY <1>1 DEF Break, PointOf, ReadPoints, LiteralPoints, StringPoints, Utf8Points,
       NumberPoints, CommentPoints
  <2> QED BY <2>1
<1>2. CASE q = "number" /\ s = Break("lex", FALSE) /\ c \in Digits \cup {"-"}
  <2>1. s.point = "lex" /\ s.esc = FALSE
    BY <1>2 DEF Break
  <2>2. ScanChr("lex", c, comments, utf8) = GoBack("number")
    <3>1. c \in {"-", "0", "1"} /\ c \notin Whitespace /\ (c = "-" \/ c \in Digits)
      BY <1>2 DEF Digits, Whitespace
    <3>2. Dispatch(c, comments) = GoBack("number")
      BY <3>1 DEF Dispatch
    <3> QED BY <3>2 DEF ScanChr, LiteralPoints, StringPoints, Utf8Points, NumberPoints
  <2>3. Settled("lex", c, comments, utf8) = ScanChr("number", c, comments, utf8)
    BY <2>2 DEF Settled, GoBack, Outcome
  <2>4. ~ScanChr("number", c, comments, utf8).back
    BY <1>2 DEF ScanChr, NumberChar, Go, Outcome, LiteralPoints, StringPoints, Utf8Points,
       NumberPoints
  <2>5. EscAfter("lex", FALSE, c) = FALSE /\ EscAfter("number", esc, c) = FALSE
    BY DEF EscAfter, StringPoints, Utf8Points
  <2> QED BY <1>2, <2>1, <2>3, <2>4, <2>5 DEF Settled
<1>3. CASE q = "block" /\ s = Break("star", FALSE) /\ c # "/"
  <2>1. s.point = "star" /\ s.esc = FALSE
    BY <1>3 DEF Break
  <2>2. ScanChr("star", c, comments, utf8) = GoBack("block")
    BY <1>3 DEF ScanChr, CommentChar, LiteralPoints, StringPoints, Utf8Points, NumberPoints
  <2>3. Settled("star", c, comments, utf8) = ScanChr("block", c, comments, utf8)
    BY <2>2 DEF Settled, GoBack, Outcome
  <2>4. ~ScanChr("block", c, comments, utf8).back
    BY DEF ScanChr, CommentChar, Go, Outcome, LiteralPoints, StringPoints, Utf8Points,
       NumberPoints
  <2>5. EscAfter("star", FALSE, c) = FALSE /\ EscAfter("block", esc, c) = FALSE
    BY DEF EscAfter, StringPoints, Utf8Points
  <2> QED BY <1>3, <2>1, <2>3, <2>4, <2>5 DEF Settled
<1> QED BY <1>1, <1>2, <1>3 DEF Stands

(* Reading one character at the lexer's point moves the scanner's state, or *)
(* leaves it where it is when the character is unread; and a character that *)
(* moves the scanner does not end the call of the lexer.                    *)
StateAfter(q, esc, c, to) == Break(PointOf(to), EscAfter(q, esc, c))

ReadsAlong(out, s, q, esc, c, comments, utf8) ==
  /\ out.tok = "none" /\ out.back => Stands(s, out.to, FALSE, c)
  /\ out.tok = "none" /\ ~out.back /\ out.to # "lex" =>
       /\ StateAfter(q, esc, c, out.to) \in States
       /\ Moves(s, c, StateAfter(q, esc, c, out.to), comments, utf8)
  /\ \A t : Moves(s, c, t, comments, utf8) =>
       out.tok = "none" /\ out.to # "lex" /\ (~out.back => t = StateAfter(q, esc, c, out.to))

LEMMA ReadMoves ==
  ASSUME NEW q \in ReadPoints, NEW s \in States, NEW esc \in BOOLEAN, NEW c \in Chars,
         Stands(s, q, esc, c), NEW comments \in BOOLEAN, NEW utf8 \in BOOLEAN,
         NEW out, out = ScanChr(q, c, comments, utf8)
  PROVE  ReadsAlong(out, s, q, esc, c, comments, utf8)
<1>1. /\ out \in Outcomes
      /\ out.tok = "none" /\ out.back => \/ q = "lex" /\ out.to = "number" /\ c \in Digits \cup {"-"}
                                         \/ q = "star" /\ out.to = "block" /\ c # "/"
  BY ScanOutcome
<1>2. /\ Settled(s.point, c, comments, utf8) =
           IF out.tok = "none" /\ out.back THEN ScanChr(out.to, c, comments, utf8) ELSE out
      /\ EscAfter(s.point, s.esc, c) = EscAfter(q, esc, c)
  <2>1. Settled(s.point, c, comments, utf8) = Settled(q, c, comments, utf8)
    BY StandsCases
  <2>2. EscAfter(s.point, s.esc, c) = EscAfter(q, esc, c)
    BY StandsCases
  <2> QED BY <2>1, <2>2 DEF Settled
<1>3. ASSUME out.tok = "none", out.back PROVE Stands(s, out.to, FALSE, c)
  <2>1. q \in {"lex", "star"} /\ esc = FALSE
    BY <1>1, <1>3 DEF StringPoints, Utf8Points, Stands
  <2>2. s = Break(q, FALSE)
    BY <2>1 DEF Stands, PointOf
  <2> QED BY <1>1, <1>3, <2>2 DEF Stands
<1>4. ASSUME out.tok = "none", ~out.back, out.to # "lex"
      PROVE  /\ StateAfter(q, esc, c, out.to) \in States
             /\ Moves(s, c, StateAfter(q, esc, c, out.to), comments, utf8)
  <2>1. PointOf(out.to) \in ReadPoints
    BY <1>1 DEF PointOf, Outcomes, Points, ReadPoints, StringPoints
  <2>2. EscAfter(q, esc, c) \in BOOLEAN
    BY DEF EscAfter
  <2>3. StateAfter(q, esc, c, out.to) \in States
    BY <2>1, <2>2 DEF StateAfter, Break, States
  <2> QED BY <1>2, <1>4, <2>3 DEF Moves, StateAfter
<1>5. ASSUME NEW t, Moves(s, c, t, comments, utf8)
      PROVE  out.tok = "none" /\ out.to # "lex" /\ (~out.back => t = StateAfter(q, esc, c, out.to))
  <2>1. CASE out.tok = "none" /\ out.back
    BY <1>1, <2>1
  <2>2. CASE ~(out.tok = "none" /\ out.back)
    BY <1>2, <1>5, <2>2 DEF Moves, StateAfter
  <2> QED BY <2>1, <2>2
<1> QED BY <1>3, <1>4, <1>5 DEF ReadsAlong

(* A plain character keeps a string where it is. *)
LEMMA PlainMoves ==
  ASSUME NEW esc \in BOOLEAN, NEW comments \in BOOLEAN, NEW utf8 \in BOOLEAN, NEW c \in Plain(utf8)
  PROVE  /\ Break("str", esc) \in States
         /\ \A t : Moves(Break("str", esc), c, t, comments, utf8) <=> t = Break("str", esc)
<1>1. /\ Break("str", esc).point = "str" /\ Break("str", esc).esc = esc
      /\ Break("str", esc) \in States
  BY DEF Break, States, ReadPoints, StringPoints
<1>2. c \in Chars /\ c \notin Controls \cup {"quote", "bslash"} /\ (utf8 => c \notin HighBytes)
  BY DEF Plain, IJC, NFP, NUC
<1>3. StringChar("str", c, utf8) = Go("scan")
  <2>1. utf8 => Utf8Lead(c) = Go("scan")
    BY <1>2 DEF Utf8Lead, HighBytes
  <2> QED BY <1>2, <2>1 DEF StringChar, Utf8Points
<1>4. ScanChr("str", c, comments, utf8) = Go("scan")
  BY <1>3 DEF ScanChr, LiteralPoints, StringPoints, Utf8Points, NumberPoints
<1>5. Settled("str", c, comments, utf8) = Go("scan")
  <2>1. Go("scan").back = FALSE
    BY DEF Go, Outcome
  <2> QED BY <1>4, <2>1 DEF Settled
<1>6. EscAfter("str", esc, c) = esc
  BY <1>2 DEF EscAfter, StringPoints
<1>7. ASSUME NEW t
      PROVE  Moves(Break("str", esc), c, t, comments, utf8) <=> t = Break("str", esc)
  <2>1. Go("scan").tok = "none" /\ Go("scan").to = "scan" /\ PointOf("scan") = "str"
    BY DEF Go, Outcome, PointOf
  <2> QED BY <1>1, <1>5, <1>6, <2>1 DEF Moves
<1> QED BY <1>1, <1>7

-----------------------------------------------------------------------------
(* Runs: one more character, and plain characters ahead and behind.        *)

(* A run of k characters to s that begins as the run of n characters does. *)
Extends(run, stream, first, n, k, s, comments, utf8) ==
  \E r : /\ Retraces(r, stream, first, k, comments, utf8)
         /\ r[k] = s
         /\ \A i \in 0..n : r[i] = run[i]

LEMMA ExtendRun ==
  ASSUME NEW run, NEW stream, NEW first \in Nat, NEW n \in Nat, NEW comments, NEW utf8,
         Retraces(run, stream, first, n, comments, utf8),
         NEW t \in States, Moves(run[n], stream[first + n + 1], t, comments, utf8)
  PROVE  Extends(run, stream, first, n, n + 1, t, comments, utf8)
<1> DEFINE r == [i \in 0..(n + 1) |-> IF i <= n THEN run[i] ELSE t]
<1>1. run \in [0..n -> States] /\ run[0] = Break("lex", FALSE)
      /\ \A i \in 1..n : Moves(run[i - 1], stream[first + i], run[i], comments, utf8)
  BY DEF Retraces
<1>2. r \in [0..(n + 1) -> States] /\ r[n + 1] = t /\ \A i \in 0..n : r[i] = run[i]
  BY <1>1
<1> HIDE DEF r
<1>3. ASSUME NEW i \in 1..(n + 1)
      PROVE  Moves(r[i - 1], stream[first + i], r[i], comments, utf8)
  <2>1. CASE i \in 1..n
    <3>1. i - 1 \in 0..n /\ i \in 0..n
      BY <2>1
    <3> QED BY <1>1, <1>2, <2>1, <3>1
  <2>2. CASE i = n + 1
    <3>1. i - 1 = n /\ first + i = first + n + 1 /\ n \in 0..n
      BY <2>2
    <3> QED BY <1>2, <2>2, <3>1
  <2> QED BY <2>1, <2>2
<1>4. r[0] = Break("lex", FALSE)
  <2>1. 0 \in 0..n
    OBVIOUS
  <2> QED BY <1>1, <1>2, <2>1
<1> QED BY <1>2, <1>3, <1>4 DEF Retraces, Extends

PlainAhead(stream, place, m, utf8) == \A i \in 1..m : stream[place + i] \in Plain(utf8)

LEMMA ExtendPlain ==
  ASSUME NEW run, NEW stream, NEW first \in Nat, NEW n \in Nat, NEW m \in Nat,
         NEW comments \in BOOLEAN, NEW utf8 \in BOOLEAN, NEW esc \in BOOLEAN,
         Retraces(run, stream, first, n, comments, utf8),
         run[n] = Break("str", esc),
         PlainAhead(stream, first + n, m, utf8)
  PROVE  Extends(run, stream, first, n, n + m, Break("str", esc), comments, utf8)
<1> DEFINE r == [i \in 0..(n + m) |-> IF i <= n THEN run[i] ELSE Break("str", esc)]
<1>1. run \in [0..n -> States] /\ run[0] = Break("lex", FALSE)
      /\ \A i \in 1..n : Moves(run[i - 1], stream[first + i], run[i], comments, utf8)
  BY DEF Retraces
<1>2. Break("str", esc) \in States
  BY DEF Break, States, ReadPoints, StringPoints
<1>3. /\ r \in [0..(n + m) -> States]
      /\ \A i \in 0..n : r[i] = run[i]
      /\ \A i \in n..(n + m) : r[i] = Break("str", esc)
  BY <1>1, <1>2
<1> HIDE DEF r
<1>4. ASSUME NEW i \in 1..(n + m)
      PROVE  Moves(r[i - 1], stream[first + i], r[i], comments, utf8)
  <2>1. CASE i \in 1..n
    <3>1. i - 1 \in 0..n /\ i \in 0..n
      BY <2>1
    <3> QED BY <1>1, <1>3, <2>1, <3>1
  <2>2. CASE i \notin 1..n
    <3>1. i - n \in 1..m /\ first + n + (i - n) = first + i
          /\ i - 1 \in n..(n + m) /\ i \in n..(n + m)
      BY <2>2
    <3>2. stream[first + i] \in Plain(utf8)
      BY <3>1 DEF PlainAhead
    <3>3. r[i - 1] = Break("str", esc) /\ r[i] = Break("str", esc)
      BY <1>3, <3>1
    <3> QED BY <3>2, <3>3, PlainMoves
  <2> QED BY <2>1, <2>2
<1>5. r[0] = Break("lex", FALSE) /\ r[n + m] = Break("str", esc)
  <2>1. 0 \in 0..n /\ n + m \in n..(n + m)
    OBVIOUS
  <2> QED BY <1>1, <1>3, <2>1
<1> QED BY <1>3, <1>4, <1>5 DEF Retraces, Extends

(* By induction on the number of plain characters. *)
LEMMA PlainStays ==
  ASSUME NEW run, NEW stream, NEW first \in Nat, NEW n \in Nat, NEW k \in 0..n, NEW m \in 0..(n - k),
         NEW comments \in BOOLEAN, NEW utf8 \in BOOLEAN, NEW esc \in BOOLEAN,
         Retraces(run, stream, first, n, comments, utf8),
         run[k] = Break("str", esc),
         PlainAhead(stream, first + k, m, utf8)
  PROVE  run[k + m] = Break("str", esc)
<1> DEFINE T == {j \in Nat : j <= m => run[k + j] = Break("str", esc)}
<1>1. 0 \in T
  <2>1. k + 0 = k
    OBVIOUS
  <2> QED BY <2>1
<1>2. ASSUME NEW j \in Nat, j \in T PROVE j + 1 \in T
  <2> SUFFICES ASSUME j + 1 <= m PROVE run[k + (j + 1)] = Break("str", esc)
    OBVIOUS
  <2>1. /\ k + (j + 1) \in 1..n /\ (k + (j + 1)) - 1 = k + j /\ j <= m /\ j + 1 \in 1..m
        /\ first + (k + (j + 1)) = first + k + (j + 1)
    OBVIOUS
  <2>2. run[k + j] = Break("str", esc)
    BY <1>2, <2>1
  <2>3. Moves(run[(k + (j + 1)) - 1], stream[first + (k + (j + 1))], run[k + (j + 1)], comments, utf8)
    BY <2>1 DEF Retraces
  <2>4. stream[first + k + (j + 1)] \in Plain(utf8)
    BY <2>1 DEF PlainAhead
  <2> QED BY <2>1, <2>2, <2>3, <2>4, PlainMoves
<1>3. m \in T
  <2> HIDE DEF T
  <2>1. Nat \subseteq T
    BY <1>1, <1>2, Induction
  <2>2. m \in Nat
    OBVIOUS
  <2> QED BY <2>1, <2>2
<1> QED BY <1>3

-----------------------------------------------------------------------------
(* The invariant.                                                          *)

(* The token so far: held text and, from Began on, characters of the chunk. *)
HeldLen == Len(HeldPart)
Began == IF pc = "idle" THEN offset ELSE start_off
Length == HeldLen + (offset - Began)

(* Where the lexer stands in it, which is before its end while it replays. *)
Here == IF Replaying THEN buf_off ELSE Length
EscHere == IF pc \in StringPoints \cup {"scan"} /\ has_escapes THEN TRUE ELSE FALSE

(* Chunk and held text are the pieces of the stream they should be. *)
InStream ==
  /\ Len(text) <= avail /\ avail <= Len(Stream)
  /\ HeldLen <= Base + Began
  /\ \A i \in 1..Len(text) : text[i] = Stream[Base + i]
  /\ \A i \in 1..HeldLen : HeldPart[i] = Stream[StartNow + i]

(* Held text is only read again when there is a chunk to go on with. *)
ReplaysForMore == Replaying /\ pc \notin {"idle", "lex"} => offset < Len(text)

(* The run of the token so far passes through where the lexer stands, and   *)
(* through where the held text broke off.                                   *)
Passes(run) ==
  /\ pc # "idle" =>
       /\ Stands(run[Here], pc, EscHere, Chr)
       /\ run[Here] = Break(PointOf(pc), EscHere) \/ offset < Len(text)
  /\ buf_in_use => run[HeldLen] = held

Retraced ==
  \E run : Retraces(run, Stream, StartNow, Length, allow_comments, validate_utf8) /\ Passes(run)

RInv == IInv /\ InStream /\ ReplaysForMore /\ Retraced

-----------------------------------------------------------------------------
(* Where things are, in numbers. *)
LEMMA Positions ==
  ASSUME IInv, InStream, ReplaysForMore
  PROVE  /\ Base \in Nat /\ avail \in Nat /\ offset \in Nat /\ Len(text) \in Nat
         /\ Base + Len(text) = avail /\ offset <= Len(text)
         /\ Began \in 0..offset /\ HeldLen \in Nat /\ StartNow \in Nat
         /\ StartNow = Base + Began - HeldLen
         /\ Length \in Nat /\ Length = HeldLen + (offset - Began) /\ HeldLen <= Length
         /\ StartNow + Length = Base + offset
         /\ Here \in 0..Length
         /\ Replaying => Here = buf_off /\ buf_off < Length /\ Length = HeldLen /\ offset = Began
         /\ Replaying => HeldPart = buf
         /\ ~Replaying => Here = Length
<1>1. /\ avail \in Nat /\ offset \in Nat /\ start_off \in Nat /\ buf_off \in Nat
      /\ Len(text) \in Nat /\ Len(buf) \in Nat
  BY LenProperties DEF IInv, TypeOK
<1>2. HeldLen \in Nat /\ HeldLen = (IF buf_in_use THEN Len(buf) ELSE 0)
  BY <1>1, EmptySeq DEF HeldLen, HeldPart
<1>3. Base \in Nat /\ Base + Len(text) = avail
  BY <1>1 DEF InStream, Base
<1>4. Began \in 0..offset /\ offset <= Len(text)
  BY <1>1 DEF Began, IInv, IndexSafe
<1>5. HeldLen <= Base + Began
  BY DEF InStream
<1>6. StartNow = Base + Began - HeldLen
  BY <1>2 DEF StartNow, Began
<1>7. Length = HeldLen + (offset - Began)
  BY DEF Length
<1>8. Replaying => offset = Began /\ HeldPart = buf /\ buf_off < HeldLen
  <2> SUFFICES ASSUME Replaying PROVE offset = Began /\ HeldPart = buf /\ buf_off < HeldLen
    OBVIOUS
  <2>1. HeldPart = buf /\ buf_off < HeldLen
    BY <1>2 DEF Replaying, HeldPart
  <2>2. CASE pc \in {"idle", "lex"}
    BY <2>1, <2>2 DEF Began, IInv, TokenStart
  <2>3. CASE pc \notin {"idle", "lex"}
    <3>1. offset \in {0, Len(text)} /\ offset < Len(text)
      BY <2>3 DEF ReplaysForMore, IInv, IndexSafe
    <3>2. offset = 0
      BY <3>1
    <3> QED BY <1>4, <2>1, <3>2
  <2> QED BY <2>2, <2>3
<1>9. Here = (IF Replaying THEN buf_off ELSE Length)
  BY DEF Here
<1> HIDE DEF Base, Began, HeldLen, StartNow, Length, Here
<1>10. StartNow \in Nat /\ Length \in Nat /\ HeldLen <= Length /\ StartNow + Length = Base + offset
  <2>1. Base \in Nat /\ offset \in Nat /\ Began \in 0..offset /\ HeldLen \in Nat
    BY <1>1, <1>2, <1>3, <1>4
  <2> QED BY <2>1, <1>5, <1>6, <1>7
<1>11. Replaying => Length = HeldLen /\ buf_off < Length
  BY <1>1, <1>2, <1>7, <1>8
<1>12. Here \in 0..Length
  BY <1>1, <1>9, <1>10, <1>11
<1> QED BY <1>1, <1>2, <1>3, <1>4, <1>6, <1>7, <1>8, <1>9, <1>10, <1>11, <1>12

LEMMA StreamType ==
  ASSUME IInv
  PROVE  Stream \in Seq(Chars) /\ Len(Stream) = Len(input) + 1 /\ Len(input) \in Nat
<1>1. input \in Seq(Chars) /\ "space" \in Chars
  BY InputsAssumption DEF IInv, TypeOK, Chars
<1> QED BY <1>1, AppendProperties, LenProperties DEF Stream

(* The character read is the one after where the lexer stands in the token. *)
LEMMA ChrInStream ==
  ASSUME IInv, InStream, ReplaysForMore, offset < Len(text)
  PROVE  Chr \in Chars /\ Chr = Stream[StartNow + Here + 1]
<1>1. CASE Replaying
  <2>1. Here = buf_off /\ buf_off + 1 \in 1..HeldLen /\ HeldPart = buf
    BY <1>1, Positions
  <2>2. buf[buf_off + 1] = Stream[StartNow + (buf_off + 1)]
    BY <2>1 DEF InStream
  <2>3. StartNow + (buf_off + 1) = StartNow + Here + 1
    BY <2>1, Positions
  <2> QED BY <1>1, <2>2, <2>3, ChrType DEF Chr
<1>2. CASE ~Replaying
  <2>1. offset + 1 \in 1..Len(text) /\ Base + (offset + 1) = StartNow + Here + 1
    <3>1. /\ Base \in Nat /\ offset \in Nat /\ Len(text) \in Nat /\ StartNow \in Nat
          /\ Here \in Nat /\ StartNow + Here = Base + offset
      BY <1>2, Positions
    <3> QED BY <3>1
  <2>2. text[offset + 1] = Stream[Base + (offset + 1)]
    BY <2>1 DEF InStream
  <2> QED BY <1>2, <2>1, <2>2, ChrType DEF Chr
<1> QED BY <1>1, <1>2

(* The text of the token up to any place of the chunk. *)
LEMMA TokenText ==
  ASSUME IInv, InStream, ReplaysForMore, pc # "idle", NEW off \in offset..Len(text)
  PROVE  LET token == HeldPart \o SubSeq(text, start_off + 1, off) IN
           /\ token \in Seq(Chars)
           /\ Len(token) = Base + off - StartNow
           /\ \A i \in 1..Len(token) : token[i] = Stream[StartNow + i]
           /\ token = SubSeq(Stream, StartNow + 1, Base + off)
<1> DEFINE part == SubSeq(text, start_off + 1, off)
<1>1. /\ start_off \in Nat /\ off \in Nat /\ start_off <= off /\ off <= Len(text)
      /\ Len(text) \in Nat /\ Base \in Nat /\ HeldLen \in Nat /\ StartNow \in Nat
      /\ StartNow = Base + start_off - HeldLen /\ Base + off <= Len(Stream) /\ Len(Stream) \in Nat
  <2>1. Began = start_off
    BY DEF Began
  <2>2. avail <= Len(Stream) /\ Len(Stream) \in Nat
    BY StreamType, LenProperties DEF InStream
  <2>3. start_off \in Nat
    BY DEF IInv, TypeOK
  <2>4. /\ Base \in Nat /\ offset \in Nat /\ Len(text) \in Nat /\ HeldLen \in Nat
        /\ StartNow \in Nat /\ StartNow = Base + Began - HeldLen /\ Base + Len(text) = avail
        /\ Began <= offset
    BY Positions
  <2> HIDE DEF Base, Began, HeldLen, StartNow
  <2> QED BY <2>1, <2>2, <2>3, <2>4
<1>2. HeldPart \in Seq(Chars) /\ HeldLen = Len(HeldPart)
  BY EmptySeq DEF HeldPart, HeldLen, IInv, TypeOK
<1>3. /\ part \in Seq(Chars)
      /\ Len(part) = off - start_off
      /\ \A i \in 1..(off - start_off) : part[i] = text[start_off + i]
  <2>1. \A i \in (start_off + 1)..off : text[i] \in Chars
    BY <1>1, ElementOfSeq DEF IInv, TypeOK
  <2>2. /\ part \in Seq(Chars)
        /\ Len(part) = IF start_off + 1 <= off THEN off - (start_off + 1) + 1 ELSE 0
        /\ \A i \in 1..(off - (start_off + 1) + 1) : part[i] = text[start_off + 1 + i - 1]
    BY <1>1, <2>1, SubSeqProperties
  <2> HIDE DEF part
  <2>3. Len(part) = off - start_off /\ off - (start_off + 1) + 1 = off - start_off
    BY <1>1, <2>2
  <2>4. ASSUME NEW i \in 1..(off - start_off) PROVE part[i] = text[start_off + i]
    <3>1. start_off + 1 + i - 1 = start_off + i
      BY <1>1
    <3> QED BY <2>2, <2>3, <3>1
  <2> QED BY <2>2, <2>3, <2>4
<1> HIDE DEF part
<1> DEFINE token == HeldPart \o part
<1>4. /\ token \in Seq(Chars) /\ Len(token) = HeldLen + (off - start_off)
      /\ \A i \in 1..Len(token) : token[i] = IF i <= HeldLen THEN HeldPart[i] ELSE part[i - HeldLen]
  <2>1. /\ token \in Seq(Chars) /\ Len(token) = Len(HeldPart) + Len(part)
        /\ \A i \in 1..Len(token) :
             token[i] = IF i <= Len(HeldPart) THEN HeldPart[i] ELSE part[i - Len(HeldPart)]
    <3>1. HeldPart \in Seq(Chars) /\ part \in Seq(Chars)
      BY <1>2, <1>3
    <3> QED BY <3>1, ConcatProperties
  <2> QED BY <1>2, <1>3, <2>1
<1> HIDE DEF token
<1>5. ASSUME NEW i \in 1..Len(token) PROVE token[i] = Stream[StartNow + i]
  <2>1. CASE i <= HeldLen
    <3>1. i \in 1..HeldLen
      BY <1>1, <2>1
    <3>2. HeldPart[i] = Stream[StartNow + i]
      BY <3>1 DEF InStream
    <3> QED BY <1>4, <2>1, <3>2
  <2>2. CASE ~(i <= HeldLen)
    <3>1. i - HeldLen \in 1..(off - start_off) /\ start_off + (i - HeldLen) \in 1..Len(text)
          /\ Base + (start_off + (i - HeldLen)) = StartNow + i
      BY <1>1, <1>4, <2>2
    <3>2. part[i - HeldLen] = text[start_off + (i - HeldLen)]
      BY <1>3, <3>1
    <3>3. text[start_off + (i - HeldLen)] = Stream[Base + (start_off + (i - HeldLen))]
      BY <3>1 DEF InStream
    <3> QED BY <1>4, <2>2, <3>1, <3>2, <3>3
  <2> QED BY <2>1, <2>2
<1>6. Len(token) = Base + off - StartNow
  BY <1>1, <1>4
<1>7. token = SubSeq(Stream, StartNow + 1, Base + off)
  <2> DEFINE piece == SubSeq(Stream, StartNow + 1, Base + off)
  <2>1. \A i \in (StartNow + 1)..(Base + off) : Stream[i] \in Chars
    BY <1>1, StreamType, ElementOfSeq
  <2>2. /\ piece \in Seq(Chars)
        /\ Len(piece) = IF StartNow + 1 <= Base + off THEN Base + off - (StartNow + 1) + 1 ELSE 0
        /\ \A i \in 1..(Base + off - (StartNow + 1) + 1) : piece[i] = Stream[StartNow + 1 + i - 1]
    BY <1>1, <2>1, SubSeqProperties
  <2> HIDE DEF piece
  <2>3. Len(piece) = Len(token)
    BY <1>1, <1>6, <2>2
  <2>4. ASSUME NEW i \in 1..Len(token) PROVE piece[i] = token[i]
    <3>1. i \in 1..(Base + off - (StartNow + 1) + 1) /\ StartNow + 1 + i - 1 = StartNow + i
      BY <1>1, <1>6
    <3> QED BY <1>5, <2>2, <3>1
  <2>5. piece = token
    BY <1>4, <2>2, <2>3, <2>4, SeqEqual
  <2> QED BY <2>5 DEF piece
<1> QED BY <1>4, <1>5, <1>6, <1>7 DEF token, part

-----------------------------------------------------------------------------
(* Where the scanner is: past the held text while the lexer replays it, and *)
(* with the lexer otherwise.                                                *)
ScannerPlace ==
  /\ Behind => PointNow = held.point /\ EscNow = held.esc
  /\ ~Behind /\ pc = "idle" => PointNow = "lex" /\ EscNow = FALSE
  /\ ~Behind /\ pc # "idle" => PointNow = pc /\ EscNow = EscHere

LEMMA ScannerAt == ScannerPlace
<1>1. Behind => PointNow = held.point
  BY DEF PointNow
<1>2. Behind => EscNow = held.esc
  BY DEF EscNow
<1>3. ~Behind /\ pc = "idle" => PointNow = "lex"
  BY DEF PointNow
<1>4. ~Behind /\ pc = "idle" => EscNow = FALSE
  BY DEF EscNow, StringPoints, Utf8Points
<1>5. ~Behind /\ pc # "idle" => PointNow = pc
  BY DEF PointNow
<1>6. ~Behind /\ pc # "idle" => EscNow = EscHere
  BY DEF EscNow, EscHere
<1> QED BY <1>1, <1>2, <1>3, <1>4, <1>5, <1>6 DEF ScannerPlace

LEMMA ScannerAtNext == ScannerPlace'
BY ScannerAt, PTL

(* A step that leaves the scanner where it is. *)
Shown == IF result.tok = "error" THEN Result("error", <<>>) ELSE result
Scanned == <<Base + offset, PointOf(PointNow), StartNow, EscNow, Shown>>

LEMMA ScannerWaits ==
  ASSUME UNCHANGED <<input, avail, config, error, Scanned>>
  PROVE  UNCHANGED Scanner!vars
<1>1. /\ Base' + offset' = Base + offset /\ StartNow' = StartNow
      /\ PointOf(PointNow)' = PointOf(PointNow) /\ EscNow' = EscNow /\ Shown' = Shown
  BY DEF Scanned
<1> QED BY <1>1 DEF Scanner!vars, Scanner!config, config, Shown

-----------------------------------------------------------------------------
(* The invariant after a step that ends a token or a comment, when nothing  *)
(* is held and the next token is still to begin.                            *)
LEMMA Restart ==
  ASSUME IInv, InStream, ReplaysForMore, IInv', UNCHANGED <<client, config>>,
         buf_in_use' => buf' = <<>> /\ held' = Break("lex", FALSE),
         pc' \in {"idle", "lex"}, pc' = "lex" => start_off' = offset'
  PROVE  InStream' /\ ReplaysForMore' /\ Retraced'
<1>1. UNCHANGED <<input, avail, text, allow_comments, validate_utf8>>
      /\ Base' = Base /\ Stream' = Stream
  BY DEF client, config, Base, Stream
<1>2. HeldPart' = <<>> /\ HeldLen' = 0 /\ ~Replaying'
  <2>1. HeldPart' = <<>> /\ HeldLen' = 0
    BY EmptySeq DEF HeldPart, HeldLen
  <2>2. buf_off' \in Nat /\ (buf_in_use' => Len(buf') = 0)
    BY EmptySeq DEF IInv, TypeOK
  <2> QED BY <2>1, <2>2 DEF Replaying
<1>3. offset' \in Nat /\ Base' \in Nat
  <2>1. offset' \in Nat
    BY DEF IInv, TypeOK
  <2> QED BY <1>1, <2>1, Positions
<1> DEFINE Fits(b, o) == 0 <= b + o /\ 0 + (o - o) = 0
<1>4. \A b \in Nat, o \in Nat : Fits(b, o)
  OBVIOUS
<1>5. Began' = offset'
  BY DEF Began
<1>6. InStream'
  <2>1. HeldLen' <= Base' + Began'
    BY <1>2, <1>3, <1>4, <1>5, Zenon
  <2>2. \A i \in 1..HeldLen' : HeldPart'[i] = Stream'[StartNow' + i]
    BY <1>2
  <2> QED BY <1>1, <2>1, <2>2 DEF InStream
<1>7. ReplaysForMore'
  BY <1>2 DEF ReplaysForMore
<1>8. Length' = 0 /\ Here' = 0
  <2>1. Length' = 0
    BY <1>2, <1>3, <1>4, <1>5, Zenon DEF Length
  <2> QED BY <1>2, <2>1 DEF Here
<1> DEFINE run == [i \in 0..0 |-> Break("lex", FALSE)]
<1>9. Break("lex", FALSE) \in States
  BY DEF Break, States, ReadPoints
<1>10. run \in [0..0 -> States] /\ run[0] = Break("lex", FALSE)
  <2>1. 0 \in 0..0
    OBVIOUS
  <2> QED BY <1>9, <2>1
<1> HIDE DEF run
<1>11. Retraces(run, Stream', StartNow', Length', allow_comments', validate_utf8')
  <2>1. \A i \in 1..0 : FALSE
    OBVIOUS
  <2> QED BY <1>8, <1>10, <2>1 DEF Retraces
<1>12. Passes(run)'
  <2>1. pc' # "idle" => pc' = "lex" /\ EscHere' = FALSE
    BY DEF EscHere, StringPoints, Utf8Points
  <2>2. pc' # "idle" => Stands(run[Here'], pc', EscHere', Chr')
                        /\ run[Here'] = Break(PointOf(pc'), EscHere')
    BY <1>8, <1>10, <2>1 DEF Stands, PointOf
  <2>3. buf_in_use' => run[HeldLen'] = held'
    BY <1>2, <1>10
  <2> QED BY <2>2, <2>3 DEF Passes
<1> QED BY <1>6, <1>7, <1>11, <1>12 DEF Retraced

(* A step within a token leaves the text and its beginning as they are. *)
LEMMA SameToken ==
  ASSUME InStream, pc # "idle", pc' # "idle",
         UNCHANGED <<client, config, buf, buf_in_use, start_off>>
  PROVE  /\ InStream'
         /\ Base' = Base /\ Stream' = Stream /\ HeldPart' = HeldPart /\ HeldLen' = HeldLen
         /\ Began' = Began /\ Began = start_off /\ StartNow' = StartNow
         /\ UNCHANGED <<input, avail, text, allow_comments, validate_utf8>>
<1>1. /\ UNCHANGED <<input, avail, text, allow_comments, validate_utf8>>
      /\ Base' = Base /\ Stream' = Stream
  BY DEF client, config, Base, Stream
<1>2. HeldPart' = HeldPart /\ HeldLen' = HeldLen
  BY DEF HeldPart, HeldLen
<1>3. Began' = Began /\ Began = start_off
  BY DEF Began
<1>4. StartNow' = StartNow
  BY <1>1 DEF StartNow
<1>5. InStream'
  BY <1>1, <1>2, <1>3, <1>4 DEF InStream
<1> QED BY <1>1, <1>2, <1>3, <1>4, <1>5

-----------------------------------------------------------------------------
(* One character read at a point of the call. *)

(* When the scanner is with the lexer it reads what the lexer reads. *)
FlaggedTok(out) == IF out.tok = "string" /\ EscHere THEN "string_with_escapes" ELSE out.tok

LEMMA ScannerReads ==
  ASSUME IInv, InStream, ReplaysForMore, pc \in ReadPoints, offset < Len(text), ~Replaying,
         NEW out, out = ScanChr(pc, Chr, allow_comments, validate_utf8),
         UNCHANGED <<client, config>>,
         NEW off, off = IF out.back THEN offset ELSE offset + 1, offset' = off,
         PointOf(PointNow') = PointOf(out.to),
         StartNow' = IF out.to = "lex" THEN Base + off ELSE StartNow,
         EscNow' = IF out.tok = "none" /\ out.to # "lex" THEN EscAfter(pc, EscHere, Chr) ELSE FALSE,
         error' = IF out.err = "e_ok" THEN error ELSE out.err,
         Shown' = CASE out.tok = "none" -> Shown
                    [] out.tok = "error" -> Result("error", <<>>)
                    [] OTHER -> LET tok == FlaggedTok(out) IN
                         Result(tok, Lexeme(tok, SubSeq(Stream, StartNow + 1, Base + off)))
  PROVE  Scanner!Read
<1>1. /\ UNCHANGED <<input, avail, text, allow_comments, validate_utf8>>
      /\ Base' = Base /\ Stream' = Stream
  BY DEF client, config, Base, Stream
<1>2. pc # "idle" /\ pc # "scan" /\ PointOf(PointNow) = pc /\ EscNow = EscHere /\ PointNow = pc
  <2>1. pc # "idle" /\ pc # "scan"
    BY DEF ReadPoints, LiteralPoints, StringPoints, Utf8Points, NumberPoints, CommentPoints
  <2>2. ~Behind
    BY <2>1 DEF Behind
  <2> QED BY <2>1, <2>2, ScannerAt DEF ScannerPlace, PointOf
<1>3. Base + offset < avail /\ StartNow + Here + 1 = Base + offset + 1
  <2>1. /\ Base \in Nat /\ avail \in Nat /\ offset \in Nat /\ Len(text) \in Nat
        /\ Base + Len(text) = avail /\ StartNow \in Nat /\ Here \in Nat
        /\ StartNow + Here = Base + offset
    BY Positions
  <2> QED BY <2>1
<1>4. Chr = Stream[Base + offset + 1] /\ Chr \in Chars
  BY <1>3, ChrInStream
<1> DEFINE there == IF out.back THEN Base + offset ELSE Base + offset + 1
<1>5. Base' + offset' = there /\ Base + off = there
  <2>1. Base + off = there
    <3>1. Base \in Nat /\ offset \in Nat
      BY Positions
    <3> QED BY <3>1
  <2> QED BY <1>1, <2>1
<1>6. Scanner!Stream = Stream
  BY DEF Scanner!Stream, Stream
<1>7. Scanner!ScanChr(pc, Chr, allow_comments, validate_utf8) = out
  BY SameScanChr
<1>8. out.tok = "string" => pc \in StringPoints
  <2>1. allow_comments \in BOOLEAN /\ validate_utf8 \in BOOLEAN
    BY DEF IInv, TypeOK
  <2> QED BY <1>4, <2>1, ScanOutcome
<1> DEFINE esc_now == pc # "lex" /\ (EscNow \/ (pc = "str" /\ Chr = "bslash"))
           tok == IF out.tok = "string" /\ EscNow THEN "string_with_escapes" ELSE out.tok
<1>9. EscNow' = (out.tok = "none" /\ out.to # "lex" /\ esc_now)
  <2>1. CASE pc \in StringPoints
    BY <1>2, <2>1 DEF EscAfter, StringPoints, Utf8Points
  <2>2. CASE pc \notin StringPoints
    <3>1. EscHere = FALSE /\ EscNow = FALSE /\ pc # "str"
      BY <1>2, <2>2 DEF EscHere, StringPoints
    <3>2. EscAfter(pc, EscHere, Chr) = FALSE
      BY <2>2 DEF EscAfter
    <3> QED BY <3>1, <3>2
  <2> QED BY <2>1, <2>2
<1>10. Shown' = CASE tok = "none" -> Shown
                  [] tok = "error" -> Scanner!Result("error", <<>>)
                  [] OTHER -> Scanner!Result(tok, Scanner!Unquoted(tok,
                                SubSeq(Scanner!Stream, StartNow + 1, there)))
  <2>1. tok = FlaggedTok(out) /\ (tok = "none" <=> out.tok = "none") /\ (tok = "error" <=> out.tok = "error")
    BY <1>2 DEF FlaggedTok
  <2>2. \A t, x : Scanner!Result(t, x) = Result(t, x)
    BY DEF Scanner!Result, Result
  <2>3. \A t, x : Scanner!Unquoted(t, x) = Lexeme(t, x)
    BY DEF Scanner!Unquoted, Lexeme
  <2> HIDE DEF tok, there
  <2> QED BY <1>5, <1>6, <2>1, <2>2, <2>3
<1>11. PointOf(PointNow)' = IF out.to = "scan" THEN "str" ELSE out.to
  BY DEF PointOf
<1>12. StartNow' = IF out.to = "lex" THEN there ELSE StartNow
  BY <1>5
<1>13. UNCHANGED <<input, avail, Scanner!config>>
  BY <1>1 DEF Scanner!config
<1>14. (Base + offset)' = there
  BY <1>5
<1> HIDE DEF there, tok, esc_now
<1> QED BY <1>2, <1>3, <1>4, <1>6, <1>7, <1>9, <1>10, <1>11, <1>12, <1>13, <1>14
        DEF Scanner!Read, there, tok, esc_now, Shown

(* What the run of the token so far says of the character read now. *)
LEMMA ReadFromRun ==
  ASSUME IInv, InStream, ReplaysForMore, pc \in ReadPoints, offset < Len(text),
         NEW out, out = ScanChr(pc, Chr, allow_comments, validate_utf8),
         NEW run, Retraces(run, Stream, StartNow, Length, allow_comments, validate_utf8),
         Passes(run)
  PROVE  /\ out.tok = "none" /\ out.back => Stands(run[Here], out.to, FALSE, Chr)
         /\ out.tok = "none" /\ ~out.back /\ out.to # "lex" =>
              LET next == Break(PointOf(out.to), EscAfter(pc, EscHere, Chr)) IN
                /\ next \in States
                /\ Moves(run[Here], Chr, next, allow_comments, validate_utf8)
         /\ Replaying =>
              /\ out.tok = "none" /\ out.to # "lex"
              /\ ~out.back => run[Here + 1] = Break(PointOf(out.to), EscAfter(pc, EscHere, Chr))
<1>1. pc # "idle"
  BY DEF ReadPoints, LiteralPoints, StringPoints, Utf8Points, NumberPoints, CommentPoints
<1>2. Stands(run[Here], pc, EscHere, Chr)
  BY <1>1 DEF Passes
<1>3. Chr \in Chars /\ Chr = Stream[StartNow + Here + 1]
  BY ChrInStream
<1>4. Here \in 0..Length /\ Length \in Nat /\ StartNow \in Nat /\ (Replaying => Here < Length)
  BY Positions
<1>5. run[Here] \in States
  BY <1>4 DEF Retraces
<1>6. EscHere \in BOOLEAN /\ allow_comments \in BOOLEAN /\ validate_utf8 \in BOOLEAN
  BY DEF EscHere, IInv, TypeOK
<1>7. ReadsAlong(out, run[Here], pc, EscHere, Chr, allow_comments, validate_utf8)
  BY <1>2, <1>3, <1>5, <1>6, ReadMoves
<1>8. Replaying => Moves(run[Here], Chr, run[Here + 1], allow_comments, validate_utf8)
  <2> SUFFICES ASSUME Replaying
               PROVE  Moves(run[Here], Chr, run[Here + 1], allow_comments, validate_utf8)
    OBVIOUS
  <2>1. Here + 1 \in 1..Length /\ (Here + 1) - 1 = Here /\ StartNow + (Here + 1) = StartNow + Here + 1
    BY <1>4
  <2>2. Moves(run[(Here + 1) - 1], Stream[StartNow + (Here + 1)], run[Here + 1],
              allow_comments, validate_utf8)
    BY <2>1 DEF Retraces
  <2> QED BY <1>3, <2>1, <2>2
<1> QED BY <1>7, <1>8 DEF StateAfter, ReadsAlong

LEMMA ReadOnReplaying ==
  ASSUME RInv, pc \in ReadPoints, offset < Len(text), Replaying,
         NEW out, out = ScanChr(pc, Chr, allow_comments, validate_utf8),
         out.tok = "none", out.to # "lex", Read(out, "none"),
         EscHere' = EscAfter(pc, EscHere, Chr)
  PROVE  InStream' /\ ReplaysForMore' /\ Retraced' /\ UNCHANGED Scanner!vars
<1> USE DEF RInv
<1>1. PICK run : /\ Retraces(run, Stream, StartNow, Length, allow_comments, validate_utf8)
                 /\ Passes(run)
  BY DEF Retraced
<1>2. pc # "idle" /\ allow_comments \in BOOLEAN /\ validate_utf8 \in BOOLEAN
  BY DEF ReadPoints, LiteralPoints, StringPoints, Utf8Points, NumberPoints, CommentPoints,
     IInv, TypeOK
<1>3. Chr \in Chars
  BY ChrInStream
<1>4. /\ out \in Outcomes /\ out.err = "e_ok"
      /\ out.back => pc \in {"lex", "star"} /\ out.to \in {"number", "block"}
      /\ ~out.back => out.to # "number"
  BY <1>2, <1>3, ScanOutcome
<1>5. pc' = out.to /\ pc' # "idle" /\ out.back \in BOOLEAN
  BY <1>4 DEF Read, Outcomes, Points, ReadPoints, LiteralPoints, StringPoints, Utf8Points,
     NumberPoints, CommentPoints
<1>6. /\ offset' = NewOff(out.back) /\ buf_off' = NewBufOff(out.back)
      /\ UNCHANGED <<buf, buf_in_use, start_off, result, config, client, held>>
      /\ error' = error
  BY <1>4 DEF Read
<1>7. /\ InStream'
      /\ Base' = Base /\ Stream' = Stream /\ HeldPart' = HeldPart /\ HeldLen' = HeldLen
      /\ Began' = Began /\ StartNow' = StartNow
      /\ UNCHANGED <<input, avail, text, allow_comments, validate_utf8>>
  BY <1>2, <1>5, <1>6, SameToken
<1>8. /\ offset' = offset /\ buf_off' = IF out.back THEN buf_off ELSE buf_off + 1
      /\ buf_off' <= Len(buf)
  BY <1>5, <1>6, ReadIndices DEF Replaying
<1>9. /\ Here = buf_off /\ buf_off < Length /\ Length = HeldLen /\ HeldPart = buf /\ HeldLen = Len(buf)
      /\ Length \in Nat /\ buf_off \in Nat /\ Here \in Nat
  BY Positions DEF HeldLen
<1>10. Length' = Length
  BY <1>7, <1>8 DEF Length
<1>11. Here' = (IF out.back THEN Here ELSE Here + 1) /\ Here' = buf_off'
  <2>1. Replaying' <=> buf_off' < Length
    BY <1>6, <1>9 DEF Replaying
  <2>2. ~Replaying' => buf_off' = Length
    BY <1>8, <1>9, <2>1
  <2> QED BY <1>8, <1>9, <1>10, <2>2 DEF Here
<1>12. /\ out.back => Stands(run[Here], out.to, FALSE, Chr)
       /\ ~out.back => run[Here + 1] = Break(PointOf(out.to), EscAfter(pc, EscHere, Chr))
  BY <1>1, ReadFromRun
<1>13. out.back => Chr' = Chr /\ Replaying' /\ EscHere' = FALSE
  <2> SUFFICES ASSUME out.back PROVE Chr' = Chr /\ Replaying' /\ EscHere' = FALSE
    OBVIOUS
  <2>1. buf_off' = buf_off
    BY <1>8
  <2>2. Replaying' /\ Chr' = Chr
    BY <1>6, <1>7, <1>8, <2>1 DEF Replaying, Chr
  <2>3. pc \notin StringPoints
    BY <1>4 DEF StringPoints, Utf8Points
  <2> QED BY <2>2, <2>3 DEF EscAfter
<1>14. ~out.back => run[Here'] = Break(PointOf(pc'), EscHere')
  BY <1>5, <1>11, <1>12
<1>15. Passes(run)'
  <2>1. Stands(run[Here'], pc', EscHere', Chr')
    <3>1. CASE out.back
      BY <1>5, <1>11, <1>12, <1>13, <3>1
    <3>2. CASE ~out.back
      <4>1. pc' # "number" /\ (pc' \notin StringPoints \cup {"scan"} => EscHere' = FALSE)
        BY <1>4, <1>5, <3>2 DEF EscHere
      <4> QED BY <1>14, <3>2, <4>1 DEF Stands
    <3> QED BY <3>1, <3>2
  <2>2. offset' < Len(text')
    BY <1>7, <1>8
  <2>3. buf_in_use' => run[HeldLen'] = held'
    BY <1>1, <1>6, <1>7 DEF Passes
  <2> QED BY <2>1, <2>2, <2>3 DEF Passes
<1>16. Retraced'
  BY <1>1, <1>7, <1>10, <1>15 DEF Retraced
<1>17. ReplaysForMore'
  BY <1>7, <1>8 DEF ReplaysForMore
<1>18. UNCHANGED Scanner!vars
  <2>1. Behind /\ buf_in_use /\ buf_in_use' /\ held' = held
    BY <1>6 DEF Behind, Replaying
  <2>2. PointOf(PointNow)' = PointOf(PointNow) /\ EscNow' = EscNow
    <3>1. PointNow = held.point /\ EscNow = held.esc
      BY <2>1, ScannerAt DEF ScannerPlace
    <3>2. CASE Replaying'
      <4>1. Behind'
        BY <2>1, <3>2 DEF Behind
      <4> QED BY <2>1, <3>1, <4>1, ScannerAtNext DEF ScannerPlace
    <3>3. CASE ~Replaying'
      <4>1. ~Behind' /\ ~out.back
        BY <1>5, <1>13, <3>3 DEF Behind
      <4>2. PointNow' = pc' /\ EscNow' = EscHere'
        BY <1>5, <4>1, ScannerAtNext DEF ScannerPlace
      <4>3. held = Break(PointOf(pc'), EscHere')
        <5>1. Here' = HeldLen
          BY <1>9, <1>10, <3>3 DEF Here
        <5>2. run[HeldLen] = held
          BY <1>1, <2>1 DEF Passes
        <5> QED BY <1>14, <4>1, <5>1, <5>2
      <4>4. held.point = PointOf(pc') /\ held.esc = EscHere' /\ PointOf(PointOf(pc')) = PointOf(pc')
        BY <4>3 DEF Break, PointOf
      <4> QED BY <3>1, <4>2, <4>4
    <3> QED BY <3>2, <3>3
  <2>3. (Base + offset)' = Base + offset
    BY <1>7, <1>8
  <2>4. Shown' = Shown
    BY <1>6 DEF Shown
  <2>5. UNCHANGED Scanned
    BY <1>7, <2>2, <2>3, <2>4 DEF Scanned
  <2> QED BY <1>6, <1>7, <2>5, ScannerWaits
<1> QED BY <1>7, <1>16, <1>17, <1>18

LEMMA ReadOnFresh ==
  ASSUME RInv, pc \in ReadPoints, offset < Len(text), ~Replaying,
         NEW out, out = ScanChr(pc, Chr, allow_comments, validate_utf8),
         out.tok = "none", out.to # "lex", Read(out, "none"),
         EscHere' = EscAfter(pc, EscHere, Chr)
  PROVE  InStream' /\ ReplaysForMore' /\ Retraced' /\ Scanner!Read
<1> USE DEF RInv
<1>1. PICK run : /\ Retraces(run, Stream, StartNow, Length, allow_comments, validate_utf8)
                 /\ Passes(run)
  BY DEF Retraced
<1>2. pc # "idle" /\ allow_comments \in BOOLEAN /\ validate_utf8 \in BOOLEAN
  BY DEF ReadPoints, LiteralPoints, StringPoints, Utf8Points, NumberPoints, CommentPoints,
     IInv, TypeOK
<1>3. Chr \in Chars /\ Chr = Stream[StartNow + Here + 1]
  BY ChrInStream
<1>4. /\ out \in Outcomes /\ out.err = "e_ok"
      /\ out.back => pc \in {"lex", "star"} /\ out.to \in {"number", "block"}
      /\ ~out.back => out.to # "number"
  BY <1>2, <1>3, ScanOutcome
<1>5. pc' = out.to /\ pc' # "idle" /\ out.back \in BOOLEAN
  BY <1>4 DEF Read, Outcomes, Points, ReadPoints, LiteralPoints, StringPoints, Utf8Points,
     NumberPoints, CommentPoints
<1>6. /\ offset' = NewOff(out.back) /\ buf_off' = NewBufOff(out.back)
      /\ UNCHANGED <<buf, buf_in_use, start_off, result, config, client, held>>
      /\ error' = error
  BY <1>4 DEF Read
<1>7. /\ InStream'
      /\ Base' = Base /\ Stream' = Stream /\ HeldPart' = HeldPart /\ HeldLen' = HeldLen
      /\ Began' = Began /\ StartNow' = StartNow
      /\ UNCHANGED <<input, avail, text, allow_comments, validate_utf8>>
  BY <1>2, <1>5, <1>6, SameToken
<1>8. offset' = (IF out.back THEN offset ELSE offset + 1) /\ buf_off' = buf_off
  BY <1>5, <1>6, ReadIndices
<1>9. ~Replaying'
  BY <1>6, <1>8 DEF Replaying
<1>10. /\ Here = Length /\ Length \in Nat /\ StartNow \in Nat
       /\ Length = HeldLen + (offset - Began) /\ HeldLen \in 0..Length
       /\ offset \in Nat /\ Began \in Nat /\ HeldLen \in Nat
  BY Positions
<1>11. Length' = (IF out.back THEN Length ELSE Length + 1) /\ Here' = Length'
  <2>1. Length' = HeldLen + (offset' - Began)
    BY <1>7 DEF Length
  <2>2. out.back => Length' = Length
    BY <1>8, <1>10, <2>1
  <2>3. ~out.back => Length' = Length + 1
    BY <1>8, <1>10, <2>1
  <2> QED BY <1>9, <2>2, <2>3 DEF Here
<1>12. /\ out.back => Stands(run[Here], out.to, FALSE, Chr)
       /\ ~out.back =>
            LET next == Break(PointOf(out.to), EscAfter(pc, EscHere, Chr)) IN
              next \in States /\ Moves(run[Here], Chr, next, allow_comments, validate_utf8)
  BY <1>1, ReadFromRun
<1>13. Retraced'
  <2>1. CASE out.back
    <3>1. Length' = Length /\ Here' = Here /\ offset' = offset
      BY <1>8, <1>10, <1>11, <2>1
    <3>2. Chr' = Chr
      BY <1>6, <1>7, <1>8, <1>9, <2>1 DEF Chr
    <3>3. EscHere' = FALSE
      BY <1>4, <2>1 DEF EscAfter, StringPoints, Utf8Points
    <3>4. Stands(run[Here'], pc', EscHere', Chr')
      BY <1>5, <1>12, <2>1, <3>1, <3>2, <3>3
    <3>5. offset' < Len(text')
      BY <1>7, <3>1
    <3>6. buf_in_use' => run[HeldLen'] = held'
      BY <1>1, <1>6, <1>7 DEF Passes
    <3>7. Passes(run)'
      BY <3>4, <3>5, <3>6 DEF Passes
    <3> QED BY <1>1, <1>7, <3>1, <3>7 DEF Retraced
  <2>2. CASE ~out.back
    <3> DEFINE next == Break(PointOf(out.to), EscAfter(pc, EscHere, Chr))
    <3>1. next \in States /\ Moves(run[Length], Stream[StartNow + Length + 1], next,
                                   allow_comments, validate_utf8)
      BY <1>3, <1>10, <1>12, <2>2
    <3>2. next = Break(PointOf(pc'), EscHere')
      BY <1>5
    <3> HIDE DEF next
    <3>3. PICK r : /\ Retraces(r, Stream, StartNow, Length + 1, allow_comments, validate_utf8)
                   /\ r[Length + 1] = next
                   /\ \A i \in 0..Length : r[i] = run[i]
      BY <1>1, <1>10, <3>1, ExtendRun DEF Extends
    <3>4. r[Here'] = Break(PointOf(pc'), EscHere')
      BY <1>11, <2>2, <3>2, <3>3
    <3>5. pc' # "number" /\ (pc' \notin StringPoints \cup {"scan"} => EscHere' = FALSE)
      BY <1>4, <1>5, <2>2 DEF EscHere
    <3>6. buf_in_use' => r[HeldLen'] = held'
      BY <1>1, <1>6, <1>7, <1>10, <3>3 DEF Passes
    <3>7. Passes(r)'
      BY <3>4, <3>5, <3>6 DEF Passes, Stands
    <3>8. Length' = Length + 1
      BY <1>11, <2>2
    <3>9. Retraces(r, Stream', StartNow', Length', allow_comments', validate_utf8')
      BY <1>7, <3>3, <3>8
    <3> QED BY <3>7, <3>9 DEF Retraced
  <2> QED BY <2>1, <2>2
<1>14. ReplaysForMore'
  BY <1>9 DEF ReplaysForMore
<1>15. Scanner!Read
  <2>1. UNCHANGED <<client, config>> /\ out.tok # "error"
    BY <1>6
  <2>2. ~Behind' /\ PointNow' = pc' /\ EscNow' = EscHere'
    <3>1. ~Behind'
      BY <1>5, <1>9 DEF Behind
    <3> QED BY <1>5, <3>1, ScannerAtNext DEF ScannerPlace
  <2>3. PointOf(PointNow') = PointOf(out.to)
    BY <1>5, <2>2
  <2>4. Shown' = Shown
    BY <1>6 DEF Shown
  <2> DEFINE off == IF out.back THEN offset ELSE offset + 1
  <2>5. offset' = off
    BY <1>8
  <2>6. error' = IF out.err = "e_ok" THEN error ELSE out.err
    BY <1>4, <1>6
  <2>7. Shown' = CASE out.tok = "none" -> Shown
                    [] out.tok = "error" -> Result("error", <<>>)
                    [] OTHER -> LET tok == FlaggedTok(out) IN
                         Result(tok, Lexeme(tok, SubSeq(Stream, StartNow + 1, Base + off)))
    BY <2>4
  <2>8. EscNow' = IF out.tok = "none" /\ out.to # "lex" THEN EscAfter(pc, EscHere, Chr) ELSE FALSE
    BY <2>2
  <2>9. StartNow' = IF out.to = "lex" THEN Base + off ELSE StartNow
    BY <1>7
  <2>10. off = IF out.back THEN offset ELSE offset + 1
    OBVIOUS
  <2> HIDE DEF off
  <2> QED BY <2>1, <2>3, <2>5, <2>6, <2>7, <2>8, <2>9, <2>10, ScannerReads
<1> QED BY <1>7, <1>13, <1>14, <1>15

(* A character that ends the token: nothing is held, whatever was. *)
LEMMA ReadEnds ==
  ASSUME RInv, IInv', pc \in ReadPoints, offset < Len(text),
         NEW out, out = ScanChr(pc, Chr, allow_comments, validate_utf8),
         out.tok # "none", Read(out, FlaggedTok(out))
  PROVE  InStream' /\ ReplaysForMore' /\ Retraced' /\ Scanner!Read
<1> USE DEF RInv
<1> DEFINE tok == FlaggedTok(out)
           off == NewOff(out.back)
<1>1. ~Replaying
  <2>1. PICK run : /\ Retraces(run, Stream, StartNow, Length, allow_comments, validate_utf8)
                   /\ Passes(run)
    BY DEF Retraced
  <2> QED BY <2>1, ReadFromRun
<1>2. /\ out \in Outcomes /\ out.to = "lex" /\ out.tok # "eof" /\ out.back \in BOOLEAN
  <2>1. Chr \in Chars /\ allow_comments \in BOOLEAN /\ validate_utf8 \in BOOLEAN
    BY ChrInStream DEF IInv, TypeOK
  <2>2. out \in Outcomes /\ out.to = "lex" /\ out.tok # "eof"
    BY <2>1, ScanOutcome
  <2> QED BY <2>2 DEF Outcomes
<1>3. tok \notin {"none", "eof"} /\ (tok = "error" <=> out.tok = "error")
  BY <1>2 DEF FlaggedTok
<1>4. off \in offset..Len(text) /\ off = IF out.back THEN offset ELSE offset + 1
  BY <1>1, <1>2, ReadIndices
<1> HIDE DEF off, tok
<1>5. /\ Lexed(tok, off, NewBufOff(out.back))
      /\ error' = IF out.err = "e_ok" THEN error ELSE out.err
      /\ UNCHANGED <<config, client, held>>
  BY <1>3 DEF Read, tok, off
<1>6. /\ pc' = "idle" /\ offset' = off /\ buf_in_use' = FALSE /\ UNCHANGED start_off
  BY <1>3, <1>5 DEF Lexed, IInv, TypeOK
<1>7. InStream' /\ ReplaysForMore' /\ Retraced'
  BY <1>5, <1>6, Restart
<1>8. pc # "idle"
  BY DEF ReadPoints, LiteralPoints, StringPoints, Utf8Points, NumberPoints, CommentPoints
<1>9. Shown' = CASE out.tok = "none" -> Shown
                 [] out.tok = "error" -> Result("error", <<>>)
                 [] OTHER -> Result(tok, Lexeme(tok, SubSeq(Stream, StartNow + 1, Base + off)))
  <2>1. result' = Result(tok, IF tok = "error" /\ ~buf_in_use THEN <<>>
                              ELSE Lexeme(tok, HeldPart \o SubSeq(text, start_off + 1, off)))
    BY <1>3, <1>5 DEF Lexed
  <2>2. HeldPart \o SubSeq(text, start_off + 1, off) = SubSeq(Stream, StartNow + 1, Base + off)
    BY <1>4, <1>8, TokenText
  <2>3. result'.tok = tok
    BY <2>1 DEF Result
  <2> QED BY <1>3, <2>1, <2>2, <2>3 DEF Shown
<1>10. ~Behind' /\ PointNow' = "lex" /\ EscNow' = FALSE
  <2>1. ~Behind'
    BY <1>6 DEF Behind
  <2> QED BY <1>6, <2>1, ScannerAtNext DEF ScannerPlace
<1>11. StartNow' = Base + off
  <2>1. Base' = Base
    BY <1>5 DEF client, Base
  <2>2. Base \in Nat /\ off \in Nat
    <3>1. Base \in Nat /\ offset \in Nat
      BY Positions
    <3> QED BY <1>4, <3>1
  <2>3. StartNow' = Base' + offset' - 0
    BY <1>6 DEF StartNow
  <2> QED BY <1>6, <2>1, <2>2, <2>3
<1>12. Scanner!Read
  <2>1. PointOf(PointNow') = PointOf(out.to)
    BY <1>2, <1>10
  <2> QED BY <1>1, <1>2, <1>4, <1>5, <1>6, <1>9, <1>10, <1>11, <2>1, ScannerReads DEF tok
<1> QED BY <1>7, <1>12

(* White space before a token, and a comment, leave nothing of themselves. *)
LEMMA ReadRestarts ==
  ASSUME RInv, IInv', pc \in ReadPoints, offset < Len(text), ~Replaying,
         NEW out, out = ScanChr(pc, Chr, allow_comments, validate_utf8),
         out.tok = "none", out.to = "lex", ~out.back,
         pc' = "lex", offset' = offset + 1, start_off' = offset + 1,
         buf_in_use' => buf' = <<>> /\ held' = Break("lex", FALSE),
         UNCHANGED <<error, result, client, config>>
  PROVE  InStream' /\ ReplaysForMore' /\ Retraced' /\ Scanner!Read
<1> USE DEF RInv
<1>1. InStream' /\ ReplaysForMore' /\ Retraced'
  BY Restart
<1>2. out.err = "e_ok"
  <2>1. Chr \in Chars /\ allow_comments \in BOOLEAN /\ validate_utf8 \in BOOLEAN
    BY ChrInStream DEF IInv, TypeOK
  <2> QED BY <2>1, ScanOutcome
<1>3. ~Behind' /\ PointNow' = "lex" /\ EscNow' = FALSE
  <2>1. ~Behind'
    <3>1. buf_off' \in Nat /\ (buf_in_use' => Len(buf') = 0)
      BY EmptySeq DEF IInv, TypeOK
    <3> QED BY <3>1 DEF Behind, Replaying
  <2>2. EscHere' = FALSE
    BY DEF EscHere, StringPoints, Utf8Points
  <2> QED BY <2>1, <2>2, ScannerAtNext DEF ScannerPlace
<1> DEFINE off == IF out.back THEN offset ELSE offset + 1
<1>4. off = offset + 1
  OBVIOUS
<1>5. StartNow' = Base + off
  <2>1. Base' = Base
    BY DEF client, Base
  <2>2. Base \in Nat /\ offset \in Nat
    BY Positions
  <2>3. StartNow' = Base' + start_off' - 0
    BY EmptySeq DEF StartNow
  <2> QED BY <1>4, <2>1, <2>2, <2>3
<1>6. off = IF out.back THEN offset ELSE offset + 1
  OBVIOUS
<1> HIDE DEF off
<1>7. PointOf(PointNow') = PointOf(out.to)
  BY <1>3
<1>8. Shown' = CASE out.tok = "none" -> Shown
                 [] out.tok = "error" -> Result("error", <<>>)
                 [] OTHER -> LET tok == FlaggedTok(out) IN
                      Result(tok, Lexeme(tok, SubSeq(Stream, StartNow + 1, Base + off)))
  BY DEF Shown
<1>9. error' = IF out.err = "e_ok" THEN error ELSE out.err
  BY <1>2
<1>10. Scanner!Read
  BY <1>3, <1>4, <1>5, <1>6, <1>7, <1>8, <1>9, ScannerReads
<1> QED BY <1>1, <1>10

-----------------------------------------------------------------------------
(* One lemma per action: the lexer can still retrace its steps, and the      *)
(* scanner takes a step of its own or waits.                                 *)
Refines ==
  InStream' /\ ReplaysForMore' /\ Retraced' /\ [Scanner!Next]_(Scanner!vars)

LEMMA ReadRefines ==
  ASSUME RInv, IInv', pc \in ReadPoints, offset < Len(text),
         NEW out, out = ScanChr(pc, Chr, allow_comments, validate_utf8),
         Read(out, FlaggedTok(out)),
         out.tok = "none" => out.to # "lex" /\ EscHere' = EscAfter(pc, EscHere, Chr)
  PROVE  Refines
<1>1. CASE out.tok # "none"
  <2>1. InStream' /\ ReplaysForMore' /\ Retraced' /\ Scanner!Read
    BY <1>1, ReadEnds
  <2> QED BY <2>1 DEF Refines, Scanner!Next
<1>2. CASE out.tok = "none"
  <2>1. Read(out, "none") /\ out.to # "lex" /\ EscHere' = EscAfter(pc, EscHere, Chr)
    BY <1>2 DEF FlaggedTok
  <2>2. CASE Replaying
    <3>1. InStream' /\ ReplaysForMore' /\ Retraced' /\ UNCHANGED Scanner!vars
      BY <1>2, <2>1, <2>2, ReadOnReplaying
    <3> QED BY <3>1 DEF Refines
  <2>3. CASE ~Replaying
    <3>1. InStream' /\ ReplaysForMore' /\ Retraced' /\ Scanner!Read
      BY <1>2, <2>1, <2>3, ReadOnFresh
    <3> QED BY <3>1 DEF Refines, Scanner!Next
  <2> QED BY <2>2, <2>3
<1> QED BY <1>1, <1>2

LEMMA LexSwitchRefines == RInv /\ IInv' /\ LexSwitch => Refines
<1> SUFFICES ASSUME RInv, IInv', LexSwitch PROVE Refines
  OBVIOUS
<1> DEFINE out == Dispatch(Chr, allow_comments)
<1>1. /\ pc = "lex" /\ pc \in ReadPoints /\ offset < Len(text) /\ has_escapes' = FALSE
      /\ Chr \in Chars /\ allow_comments \in BOOLEAN
      /\ out = ScanChr(pc, Chr, allow_comments, validate_utf8)
  <2>1. pc = "lex" /\ pc \in ReadPoints /\ offset < Len(text) /\ has_escapes' = FALSE
    BY DEF LexSwitch, ReadPoints
  <2>2. Chr \in Chars /\ allow_comments \in BOOLEAN
    BY <2>1, ChrType DEF RInv, IInv, TypeOK
  <2>3. out = ScanChr(pc, Chr, allow_comments, validate_utf8)
    BY <2>1 DEF ScanChr, LiteralPoints, StringPoints, Utf8Points, NumberPoints
  <2> QED BY <2>1, <2>2, <2>3
<1>2. EscHere = FALSE /\ EscHere' = FALSE /\ EscAfter(pc, EscHere, Chr) = FALSE
  BY <1>1 DEF EscHere, EscAfter, StringPoints, Utf8Points
<1>3. CASE Chr \in Whitespace
  <2>1. /\ offset' = ReadOff /\ buf_off' = ReadBufOff /\ start_off' = start_off + 1
        /\ UNCHANGED <<buf, buf_in_use, error, config, pc, result, client, held>>
    BY <1>3 DEF LexSwitch
  <2>2. ~Replaying /\ start_off = offset /\ (buf_in_use => buf = <<>>)
    <3>1. start_off = offset /\ (buf_in_use => buf_off = 0)
      BY <1>1 DEF RInv, IInv, TokenStart
    <3>2. ASSUME Replaying PROVE FALSE
      <4>1. buf_off = 0 /\ buf # <<>> /\ Chr = Head(buf)
        BY <3>1, <3>2 DEF Replaying, Chr, RInv, IInv, TypeOK
      <4> QED BY <1>3, <3>2, <4>1 DEF Replaying, RInv, IInv, TokenStart
    <3>3. buf_in_use => buf = <<>>
      BY <3>1, <3>2, EmptySeq, LenProperties DEF Replaying, RInv, IInv, TypeOK
    <3> QED BY <3>1, <3>2, <3>3
  <2>3. out = Go("lex")
    BY <1>1, <1>3 DEF Dispatch, Whitespace, Digits
  <2>4. out.tok = "none" /\ out.to = "lex" /\ ~out.back
    BY <2>3 DEF Go, Outcome
  <2>5. buf_in_use' => buf' = <<>> /\ held' = Break("lex", FALSE)
    <3> SUFFICES ASSUME buf_in_use PROVE buf = <<>> /\ held = Break("lex", FALSE)
      BY <2>1
    <3>1. HeldLen = 0
      BY <2>2, EmptySeq DEF HeldLen, HeldPart
    <3>2. PICK run : /\ Retraces(run, Stream, StartNow, Length, allow_comments, validate_utf8)
                     /\ Passes(run)
      BY DEF RInv, Retraced
    <3> QED BY <2>2, <3>1, <3>2 DEF Retraces, Passes
  <2>6. pc' = "lex" /\ offset' = offset + 1 /\ start_off' = offset + 1
    BY <1>1, <2>1, <2>2 DEF ReadOff
  <2> HIDE DEF out
  <2>7. InStream' /\ ReplaysForMore' /\ Retraced' /\ Scanner!Read
    BY <1>1, <2>1, <2>2, <2>4, <2>5, <2>6, ReadRestarts
  <2> QED BY <2>7 DEF Refines, Scanner!Next
<1>4. CASE Chr \notin Whitespace
  <2>1. Read(out, out.tok)
    BY <1>4 DEF LexSwitch
  <2>2. out.tok = "none" => out.to # "lex"
    BY <1>1, <1>4, DispatchOutcome
  <2>3. FlaggedTok(out) = out.tok
    BY <1>2 DEF FlaggedTok
  <2> HIDE DEF out
  <2> QED BY <1>1, <1>2, <2>1, <2>2, <2>3, ReadRefines
<1> QED BY <1>3, <1>4

LEMMA LexLiteralRefines == RInv /\ IInv' /\ LexLiteral => Refines
<1> SUFFICES ASSUME RInv, IInv', LexLiteral PROVE Refines
  OBVIOUS
<1> DEFINE out == Literal(pc, Chr)
<1>1. pc \in LiteralPoints /\ offset < Len(text) /\ Chr \in Chars /\ Read(out, out.tok)
  BY ChrType DEF LexLiteral, RInv
<1>2. pc \in ReadPoints /\ out = ScanChr(pc, Chr, allow_comments, validate_utf8)
  BY <1>1 DEF ReadPoints, LiteralPoints, StringPoints, Utf8Points, NumberPoints, ScanChr
<1>3. out.tok = "none" => out.to \notin {"lex"} \cup StringPoints \cup {"scan"}
  BY <1>1 DEF Literal, LiteralNext, LiteralPoints, StringPoints, Utf8Points, Go, Tok, FailBack, Outcome
<1>4. EscHere = FALSE /\ EscAfter(pc, EscHere, Chr) = FALSE
  BY <1>1 DEF EscHere, EscAfter, LiteralPoints, StringPoints, Utf8Points
<1> HIDE DEF out
<1>5. FlaggedTok(out) = out.tok
  BY <1>4 DEF FlaggedTok
<1>6. out.tok = "none" => EscHere' = FALSE
  BY <1>1, <1>3 DEF Read, EscHere
<1> QED BY <1>1, <1>2, <1>3, <1>4, <1>5, <1>6, ReadRefines

LEMMA LexNumberRefines == RInv /\ IInv' /\ LexNumber => Refines
<1> SUFFICES ASSUME RInv, IInv', LexNumber PROVE Refines
  OBVIOUS
<1> DEFINE out == NumberChar(pc, Chr)
<1>1. pc \in NumberPoints /\ offset < Len(text) /\ Chr \in Chars /\ Read(out, out.tok)
  BY ChrType DEF LexNumber, RInv
<1>2. pc \in ReadPoints /\ out = ScanChr(pc, Chr, allow_comments, validate_utf8)
  BY <1>1 DEF ReadPoints, LiteralPoints, StringPoints, Utf8Points, NumberPoints, ScanChr
<1>3. out.tok = "none" => out.to \notin {"lex"} \cup StringPoints \cup {"scan"}
  BY <1>1 DEF NumberChar, NumberTail, NumberPoints, StringPoints, Utf8Points, Go, TokBack,
     FailBack, Outcome
<1>4. EscHere = FALSE /\ EscAfter(pc, EscHere, Chr) = FALSE
  BY <1>1 DEF EscHere, EscAfter, NumberPoints, StringPoints, Utf8Points
<1> HIDE DEF out
<1>5. FlaggedTok(out) = out.tok
  BY <1>4 DEF FlaggedTok
<1>6. out.tok = "none" => EscHere' = FALSE
  BY <1>1, <1>3 DEF Read, EscHere
<1> QED BY <1>1, <1>2, <1>3, <1>4, <1>5, <1>6, ReadRefines

LEMMA LexStringRefines == RInv /\ IInv' /\ LexString => Refines
<1> SUFFICES ASSUME RInv, IInv', LexString PROVE Refines
  OBVIOUS
<1> DEFINE out == StringChar(pc, Chr, validate_utf8)
           tok == IF out.tok = "string" /\ has_escapes THEN "string_with_escapes" ELSE out.tok
<1>1. pc \in StringPoints /\ offset < Len(text) /\ Chr \in Chars /\ Read(out, tok)
      /\ has_escapes' = (has_escapes \/ (pc = "str" /\ Chr = "bslash"))
  BY ChrType DEF LexString, RInv
<1>2. pc \in ReadPoints /\ out = ScanChr(pc, Chr, allow_comments, validate_utf8)
  BY <1>1 DEF ReadPoints, LiteralPoints, StringPoints, Utf8Points, NumberPoints, ScanChr
<1>3. out.tok = "none" => out.to \in StringPoints \cup {"scan"}
  <2>1. allow_comments \in BOOLEAN /\ validate_utf8 \in BOOLEAN
    BY DEF RInv, IInv, TypeOK
  <2> QED BY <1>1, <1>2, <2>1, ScanOutcome
<1>4. EscHere = has_escapes
  BY <1>1 DEF EscHere, RInv, IInv, TypeOK
<1> HIDE DEF out
<1>5. FlaggedTok(out) = tok
  BY <1>4 DEF FlaggedTok
<1>6. out.tok = "none" => out.to # "lex" /\ EscHere' = EscAfter(pc, EscHere, Chr)
  <2> SUFFICES ASSUME out.tok = "none"
               PROVE  out.to # "lex" /\ EscHere' = EscAfter(pc, EscHere, Chr)
    OBVIOUS
  <2>1. pc' = out.to
    BY <1>1 DEF Read
  <2>2. out.to # "lex"
    BY <1>3 DEF StringPoints, Utf8Points
  <2> QED BY <1>1, <1>3, <1>4, <2>1, <2>2 DEF EscHere, EscAfter
<1> HIDE DEF tok
<1> QED BY <1>1, <1>2, <1>5, <1>6, ReadRefines

LEMMA LexCommentRefines == RInv /\ IInv' /\ LexComment => Refines
<1> SUFFICES ASSUME RInv, IInv', LexComment PROVE Refines
  OBVIOUS
<1> DEFINE out == CommentChar(pc, Chr)
<1>1. pc \in CommentPoints /\ offset < Len(text) /\ Chr \in Chars
  BY ChrType DEF LexComment, RInv
<1>2. pc \in ReadPoints /\ out = ScanChr(pc, Chr, allow_comments, validate_utf8)
  BY <1>1 DEF ReadPoints, LiteralPoints, StringPoints, Utf8Points, NumberPoints, CommentPoints,
     ScanChr
<1>3. /\ out.tok = "none" => out.to \notin StringPoints \cup {"scan"}
      /\ out.to = "lex" => ~out.back
  BY <1>1 DEF CommentChar, CommentPoints, StringPoints, Utf8Points, Go, GoBack, Fail, Outcome
<1>4. EscHere = FALSE /\ EscAfter(pc, EscHere, Chr) = FALSE
  BY <1>1 DEF EscHere, EscAfter, CommentPoints, StringPoints, Utf8Points
<1>5. CASE out.to = "lex" /\ out.tok = "none"
  <2>1. /\ pc' = "lex" /\ offset' = ReadOff /\ start_off' = ReadOff /\ buf_in_use' = FALSE
        /\ UNCHANGED <<error, config, result, client, held>>
    BY <1>5 DEF LexComment, DropComment
  <2> HIDE DEF out
  <2>2. ~Replaying
    <3>1. PICK run : /\ Retraces(run, Stream, StartNow, Length, allow_comments, validate_utf8)
                     /\ Passes(run)
      BY DEF RInv, Retraced
    <3>2. Replaying => out.to # "lex"
      BY <1>1, <1>2, <3>1, ReadFromRun DEF RInv
    <3> QED BY <1>5, <3>2
  <2>3. offset' = offset + 1 /\ start_off' = offset + 1
    BY <2>1, <2>2 DEF ReadOff
  <2>4. InStream' /\ ReplaysForMore' /\ Retraced' /\ Scanner!Read
    BY <1>1, <1>2, <1>3, <1>5, <2>1, <2>2, <2>3, ReadRestarts
  <2> QED BY <2>4 DEF Refines, Scanner!Next
<1>6. CASE ~(out.to = "lex" /\ out.tok = "none")
  <2>1. Read(out, out.tok)
    BY <1>6 DEF LexComment
  <2> HIDE DEF out
  <2>2. FlaggedTok(out) = out.tok
    BY <1>4 DEF FlaggedTok
  <2>3. out.tok = "none" => EscHere' = FALSE
    BY <1>3, <2>1 DEF Read, EscHere
  <2> QED BY <1>1, <1>2, <1>4, <1>6, <2>1, <2>2, <2>3, ReadRefines
<1> QED BY <1>5, <1>6

(* In the held text the skipped characters are read along the run, which    *)
(* stays where it is; in the chunk they extend it.                          *)
LEMMA StringScanRefines == RInv /\ IInv' /\ StringScan => Refines
<1> SUFFICES ASSUME RInv, IInv', StringScan PROVE Refines
  OBVIOUS
<1> USE DEF RInv
<1>1. PICK run : /\ Retraces(run, Stream, StartNow, Length, allow_comments, validate_utf8)
                 /\ Passes(run)
  BY DEF Retraced
<1>2. /\ pc = "scan" /\ pc' = "str"
      /\ UNCHANGED <<buf, buf_in_use, error, config, start_off, has_escapes, result, client, held>>
  BY DEF StringScan
<1>3. /\ InStream'
      /\ Base' = Base /\ Stream' = Stream /\ HeldPart' = HeldPart /\ HeldLen' = HeldLen
      /\ Began' = Began /\ StartNow' = StartNow
      /\ UNCHANGED <<input, avail, text, allow_comments, validate_utf8>>
  BY <1>2, SameToken
<1>4. EscHere' = EscHere /\ EscHere \in BOOLEAN /\ validate_utf8 \in BOOLEAN
      /\ allow_comments \in BOOLEAN
  BY <1>2 DEF EscHere, StringPoints, IInv, TypeOK
<1>5. run[Here] = Break("str", EscHere)
  BY <1>1, <1>2 DEF Passes, Stands, PointOf
<1>6. /\ Length \in Nat /\ StartNow \in Nat /\ HeldLen \in 0..Length /\ Here \in 0..Length
      /\ offset \in Nat /\ buf_off \in Nat /\ Began \in 0..offset /\ Length = HeldLen + (offset - Began)
      /\ Base \in Nat /\ Len(text) \in Nat /\ offset <= Len(text)
      /\ StartNow + Length = Base + offset /\ Base + Len(text) = avail
      /\ HeldLen = (IF buf_in_use THEN Len(buf) ELSE 0)
  <2>1. /\ Length \in Nat /\ StartNow \in Nat /\ HeldLen \in 0..Length /\ Here \in 0..Length
        /\ offset \in Nat /\ Began \in 0..offset /\ Length = HeldLen + (offset - Began)
        /\ Base \in Nat /\ Len(text) \in Nat /\ offset <= Len(text)
        /\ StartNow + Length = Base + offset /\ Base + Len(text) = avail
    BY Positions
  <2>2. buf_off \in Nat /\ HeldLen = (IF buf_in_use THEN Len(buf) ELSE 0)
    BY EmptySeq DEF HeldLen, HeldPart, IInv, TypeOK
  <2> QED BY <2>1, <2>2
<1>7. \A r : r[Here'] = Break("str", EscHere') /\ (buf_in_use => r[HeldLen] = held) => Passes(r)'
  <2>1. pc' # "number" /\ pc' \in StringPoints \cup {"scan"} /\ PointOf(pc') = "str"
    BY <1>2 DEF PointOf, StringPoints
  <2> QED BY <1>2, <1>3, <2>1 DEF Passes, Stands
<1>8. CASE Replaying
  <2>1. PICK n \in 0..(Len(buf) - buf_off) :
          /\ PlainRun(buf, buf_off, n, validate_utf8)
          /\ buf_off' = buf_off + n /\ offset' = offset
    BY <1>8 DEF StringScan
  <2>2. /\ Here = buf_off /\ buf_off < Length /\ Length = HeldLen /\ HeldPart = buf /\ buf_in_use
        /\ Length = Len(buf)
    BY <1>6, <1>8, Positions DEF Replaying
  <2>3. n \in Nat /\ n \in 0..(Length - Here)
    BY <1>6, <2>2
  <2>4. \A i \in 1..n : Stream[StartNow + Here + i] \in Plain(validate_utf8)
    <3> TAKE i \in 1..n
    <3>1. buf[buf_off + i] \in Plain(validate_utf8)
      BY <2>1 DEF PlainRun
    <3>2. buf_off + i \in 1..HeldLen /\ StartNow + (buf_off + i) = StartNow + Here + i
      BY <1>6, <2>2, <2>3
    <3> QED BY <2>2, <3>1, <3>2 DEF InStream
  <2>5. run[Here + n] = Break("str", EscHere)
    <3>1. StartNow \in Nat /\ Length \in Nat /\ Here \in 0..Length
      BY <1>6
    <3>2. PlainAhead(Stream, StartNow + Here, n, validate_utf8)
      BY <2>4 DEF PlainAhead
    <3>3. Retraces(run, Stream, StartNow, Length, allow_comments, validate_utf8)
      BY <1>1
    <3> HIDE DEF RInv
    <3> QED BY <1>4, <1>5, <2>3, <3>1, <3>2, <3>3, PlainStays, ZenonT(60)
  <2>6. Length' = Length
    BY <1>3, <2>1 DEF Length
  <2>7. Here' = Here + n
    <3>1. Replaying' <=> buf_off' < Length
      BY <1>2, <2>2 DEF Replaying
    <3>2. ~Replaying' => buf_off' = Length
      BY <1>6, <2>1, <2>2, <2>3, <3>1
    <3> QED BY <2>1, <2>2, <2>6, <3>2 DEF Here
  <2>8. Retraced'
    <3>1. Passes(run)'
      BY <1>1, <1>2, <1>4, <1>7, <2>5, <2>7 DEF Passes
    <3> QED BY <1>1, <1>3, <2>6, <3>1 DEF Retraced
  <2>9. ReplaysForMore'
    <3>1. offset < Len(text)
      BY <1>2, <1>8 DEF ReplaysForMore
    <3> QED BY <1>3, <2>1, <3>1 DEF ReplaysForMore
  <2>10. UNCHANGED Scanner!vars
    <3>1. Behind /\ PointNow = held.point /\ EscNow = held.esc
      <4>1. Behind
        BY <1>8, <2>2 DEF Behind
      <4> QED BY <4>1, ScannerAt DEF ScannerPlace
    <3>2. PointOf(PointNow)' = PointOf(PointNow) /\ EscNow' = EscNow
      <4>1. CASE Replaying'
        <5>1. Behind' /\ held' = held
          BY <1>2, <2>2, <4>1 DEF Behind
        <5> QED BY <3>1, <5>1, ScannerAtNext DEF ScannerPlace
      <4>2. CASE ~Replaying'
        <5>1. ~Behind' /\ PointNow' = "str" /\ EscNow' = EscHere
          <6>1. ~Behind'
            BY <1>2, <4>2 DEF Behind
          <6> QED BY <1>2, <1>4, <6>1, ScannerAtNext DEF ScannerPlace
        <5>2. held = Break("str", EscHere)
          <6>1. Here' = HeldLen
            BY <2>2, <2>6, <4>2 DEF Here
          <6> QED BY <1>1, <2>2, <2>5, <2>7, <6>1 DEF Passes
        <5> QED BY <3>1, <5>1, <5>2 DEF Break, PointOf
      <4> QED BY <4>1, <4>2
    <3>3. (Base + offset)' = Base + offset /\ Shown' = Shown
      BY <1>2, <1>3, <2>1 DEF Shown
    <3>4. UNCHANGED Scanned
      BY <1>3, <3>2, <3>3 DEF Scanned
    <3> QED BY <1>2, <1>3, <3>4, ScannerWaits
  <2> QED BY <1>3, <2>8, <2>9, <2>10 DEF Refines
<1>9. CASE ~Replaying
  <2>1. PICK n \in 0..(Len(text) - offset) :
          /\ PlainRun(text, offset, n, validate_utf8)
          /\ offset' = offset + n /\ buf_off' = buf_off
    BY <1>9 DEF StringScan
  <2>2. n \in Nat /\ offset + n <= Len(text) /\ Here = Length
    <3>1. Here = Length
      BY <1>9 DEF Here
    <3> QED BY <1>6, <3>1
  <2>3. \A i \in 1..n : /\ Stream[StartNow + Length + i] \in Plain(validate_utf8)
                        /\ Stream[Base + offset + i] \in Plain(validate_utf8)
    <3> TAKE i \in 1..n
    <3>1. text[offset + i] \in Plain(validate_utf8)
      BY <2>1 DEF PlainRun
    <3>2. /\ offset + i \in 1..Len(text) /\ Base + (offset + i) = StartNow + Length + i
          /\ Base + (offset + i) = Base + offset + i
      BY <1>6, <2>2
    <3>3. text[offset + i] = Stream[Base + (offset + i)]
      BY <3>2 DEF InStream
    <3> QED BY <3>1, <3>2, <3>3
  <2>4. PICK r : /\ Retraces(r, Stream, StartNow, Length + n, allow_comments, validate_utf8)
                 /\ r[Length + n] = Break("str", EscHere)
                 /\ \A i \in 0..Length : r[i] = run[i]
    <3>1. StartNow \in Nat /\ Length \in Nat /\ run[Length] = Break("str", EscHere)
      BY <1>5, <1>6, <2>2
    <3>2. PlainAhead(Stream, StartNow + Length, n, validate_utf8)
      BY <2>3 DEF PlainAhead
    <3>3. Retraces(run, Stream, StartNow, Length, allow_comments, validate_utf8)
      BY <1>1
    <3>4. n \in Nat
      BY <2>2
    <3> HIDE DEF RInv
    <3>5. Extends(run, Stream, StartNow, Length, Length + n, Break("str", EscHere),
                  allow_comments, validate_utf8)
      BY <1>4, <3>1, <3>2, <3>3, <3>4, ExtendPlain, ZenonT(60)
    <3> QED BY <3>5 DEF Extends
  <2>5. ~Replaying'
    BY <1>2, <1>9, <2>1 DEF Replaying
  <2>6. Length' = Length + n /\ Here' = Length'
    <3>1. Length' = HeldLen + (offset' - Began)
      BY <1>3 DEF Length
    <3>2. HeldLen \in Nat /\ offset \in Nat /\ Began \in Nat /\ n \in Nat
      BY <1>6, <2>2
    <3>3. \A h, o, b, k \in Nat : h + ((o + k) - b) = h + (o - b) + k
      OBVIOUS
    <3>4. HeldLen + ((offset + n) - Began) = HeldLen + (offset - Began) + n
      BY <3>2, <3>3
    <3> QED BY <1>6, <2>1, <2>5, <3>1, <3>4 DEF Here
  <2>7. Retraced'
    <3>1. buf_in_use => r[HeldLen] = held
      BY <1>1, <1>6, <2>4 DEF Passes
    <3>2. Passes(r)'
      BY <1>4, <1>7, <2>4, <2>6, <3>1
    <3>3. Retraces(r, Stream', StartNow', Length', allow_comments', validate_utf8')
      BY <1>3, <2>4, <2>6
    <3> QED BY <3>2, <3>3 DEF Retraced
  <2>8. ReplaysForMore'
    BY <2>5 DEF ReplaysForMore
  <2>9. ~Behind /\ PointNow = "scan" /\ EscNow = EscHere
    <3>1. ~Behind
      BY <1>2, <1>9 DEF Behind
    <3> QED BY <1>2, <3>1, ScannerAt DEF ScannerPlace
  <2>10. ~Behind' /\ PointNow' = "str" /\ EscNow' = EscHere
    <3>1. ~Behind'
      BY <1>2, <2>5 DEF Behind
    <3> QED BY <1>2, <1>4, <3>1, ScannerAtNext DEF ScannerPlace
  <2>11. PointOf(PointNow) = "str" /\ PointOf(PointNow)' = "str" /\ EscNow' = EscNow
    BY <2>9, <2>10 DEF PointOf
  <2>12. Base' + offset' = Base + offset + n /\ Shown' = Shown
    <3>1. Base + (offset + n) = Base + offset + n
      BY <1>6, <2>2
    <3> QED BY <1>2, <1>3, <2>1, <3>1 DEF Shown
  <2>13. CASE n = 0
    <3>1. (Base + offset)' = Base + offset
      BY <1>6, <2>12, <2>13
    <3>2. UNCHANGED Scanned
      BY <1>3, <2>11, <2>12, <3>1 DEF Scanned
    <3>3. UNCHANGED Scanner!vars
      BY <1>2, <1>3, <3>2, ScannerWaits
    <3> QED BY <1>3, <2>7, <2>8, <3>3 DEF Refines
  <2>14. CASE n # 0
    <3>1. n > 0 /\ Base + offset + n <= avail /\ n \in 1..Len(Stream)
      <4>1. avail <= Len(Stream) /\ Len(Stream) \in Nat
        BY StreamType, LenProperties DEF InStream
      <4> QED BY <1>6, <2>2, <2>14, <4>1
    <3>2. Scanner!Stream = Stream /\ Scanner!Plain(validate_utf8) = Plain(validate_utf8)
      BY SamePlain DEF Scanner!Stream, Stream
    <3>3. UNCHANGED <<input, avail, Scanner!config>>
      BY <1>3 DEF Scanner!config
    <3>4. Scanner!Skip(n)
      BY <1>2, <1>3, <2>3, <2>11, <2>12, <3>1, <3>2, <3>3 DEF Scanner!Skip, Shown
    <3>5. Scanner!Next
      BY <3>1, <3>2, <3>4 DEF Scanner!Next
    <3> QED BY <1>3, <2>7, <2>8, <3>5 DEF Refines
  <2> QED BY <2>13, <2>14
<1> QED BY <1>8, <1>9

(* What is noted of a token that is broken off is where its run has come to. *)
LEMMA BreaksOff ==
  ASSUME IInv, InStream, ReplaysForMore, EndOfChunk,
         NEW run, Retraces(run, Stream, StartNow, Length, allow_comments, validate_utf8),
         Passes(run)
  PROVE  /\ held' = run[Length]
         /\ Replaying => held' = held
         /\ ~Replaying => held' = Break(pc, EscHere)
<1>1. pc \in ReadPoints /\ pc \notin {"idle", "scan"} /\ offset >= Len(text)
  BY DEF EndOfChunk, ReadPoints, LiteralPoints, StringPoints, Utf8Points, NumberPoints, CommentPoints
<1>2. /\ offset \in Nat /\ Len(text) \in Nat
      /\ ~Replaying => Here = Length
      /\ Replaying => Length = HeldLen
  BY Positions
<1>3. CASE Replaying
  <2>1. held' = held /\ buf_in_use
    BY <1>3 DEF EndOfChunk, Replaying
  <2> QED BY <1>2, <1>3, <2>1 DEF Passes
<1>4. CASE ~Replaying
  <2>1. held' = Break(pc, pc \in StringPoints /\ has_escapes)
    BY <1>4 DEF EndOfChunk
  <2>2. EscHere = (pc \in StringPoints /\ has_escapes)
    BY <1>1 DEF EscHere
  <2>3. held' = Break(pc, EscHere)
    BY <2>1, <2>2
  <2>4. ~(offset < Len(text))
    BY <1>1, <1>2
  <2>5. run[Here] = Break(pc, EscHere)
    BY <1>1, <2>4 DEF Passes, PointOf
  <2> QED BY <1>2, <1>4, <2>3, <2>5
<1> QED BY <1>3, <1>4

(* The chunk is used up: all that was read of the token is now held, and    *)
(* where the run of the token has come to is where it will be resumed.      *)
LEMMA EndOfChunkRefines == RInv /\ IInv' /\ EndOfChunk => Refines
<1> SUFFICES ASSUME RInv, IInv', EndOfChunk PROVE Refines
  OBVIOUS
<1> USE DEF RInv
<1>1. PICK run : /\ Retraces(run, Stream, StartNow, Length, allow_comments, validate_utf8)
                 /\ Passes(run)
  BY DEF Retraced
<1>2. /\ pc \in ReadPoints /\ pc \notin {"idle", "scan"} /\ offset = Len(text)
      /\ Lexed("eof", offset, buf_off)
      /\ UNCHANGED <<error, config, client, has_escapes>>
  <2>1. pc \in ReadPoints /\ offset = Len(text)
    BY LenProperties DEF EndOfChunk, IInv, TypeOK, IndexSafe
  <2> QED BY <2>1 DEF EndOfChunk, ReadPoints, LiteralPoints, StringPoints, Utf8Points,
             NumberPoints, CommentPoints
<1> DEFINE token == HeldPart \o SubSeq(text, start_off + 1, offset)
<1>3. /\ pc' = "idle" /\ offset' = offset /\ buf' = token /\ buf_off' = 0 /\ buf_in_use' = TRUE
      /\ result' = Result("eof", <<>>)
  BY <1>2 DEF Lexed
<1>4. /\ Base \in Nat /\ offset \in Nat /\ Len(text) \in Nat /\ Base + Len(text) = avail
      /\ Length \in Nat /\ StartNow \in Nat /\ StartNow + Length = Base + offset
      /\ ~Replaying => Here = Length
      /\ Replaying => Length = HeldLen
  BY Positions
<1>5. /\ token \in Seq(Chars) /\ Len(token) = Length
      /\ \A i \in 1..Len(token) : token[i] = Stream[StartNow + i]
  <2>1. offset \in offset..Len(text)
    BY <1>2, <1>4
  <2>2. /\ token \in Seq(Chars) /\ Len(token) = Base + offset - StartNow
        /\ \A i \in 1..Len(token) : token[i] = Stream[StartNow + i]
    BY <1>2, <2>1, TokenText
  <2>3. Base + offset - StartNow = Length
    BY <1>4
  <2> QED BY <2>2, <2>3
<1> HIDE DEF token
<1>6. UNCHANGED <<input, avail, text, allow_comments, validate_utf8>>
      /\ Base' = Base /\ Stream' = Stream
  BY <1>2 DEF client, config, Base, Stream
<1>7. HeldPart' = token /\ HeldLen' = Length /\ Began' = offset
  <2>1. HeldPart' = token
    BY <1>3 DEF HeldPart
  <2>2. Began' = offset
    BY <1>3 DEF Began
  <2> QED BY <1>5, <2>1, <2>2 DEF HeldLen
<1>8. StartNow' = StartNow
  <2>1. StartNow' = Base + offset - Length
    BY <1>3, <1>5, <1>6 DEF StartNow
  <2> QED BY <1>4, <2>1
<1>9. Length' = Length
  <2>1. Length' = Length + (offset - offset)
    <3>1. Length' = HeldLen' + (offset' - Began')
      BY DEF Length
    <3> QED BY <1>3, <1>7, <3>1
  <2> QED BY <1>4, <2>1
<1>10. InStream'
  <2>1. HeldLen' <= Base' + Began'
    <3>1. Length <= Base + offset
      BY <1>4
    <3> QED BY <1>6, <1>7, <3>1
  <2>2. Len(text') <= avail' /\ avail' <= Len(Stream') /\ \A i \in 1..Len(text') : text'[i] = Stream'[Base' + i]
    BY <1>6 DEF InStream
  <2>3. \A i \in 1..HeldLen' : HeldPart'[i] = Stream'[StartNow' + i]
    BY <1>5, <1>6, <1>7, <1>8
  <2> QED BY <2>1, <2>2, <2>3 DEF InStream
<1>11. ReplaysForMore'
  BY <1>3 DEF ReplaysForMore
<1>12. held' = run[Length] /\ (Replaying => held' = held) /\ (~Replaying => held' = Break(pc, EscHere))
  BY <1>1, BreaksOff
<1>13. Retraced'
  <2>1. Passes(run)'
    BY <1>3, <1>7, <1>12 DEF Passes
  <2> QED BY <1>1, <1>6, <1>8, <1>9, <2>1 DEF Retraced
<1>14. Scanner!Suspend
  <2>1. PointNow' = held'.point /\ EscNow' = held'.esc
    <3>1. Behind'
      BY <1>3 DEF Behind
    <3> QED BY <3>1, ScannerAtNext DEF ScannerPlace
  <2>2. PointOf(PointNow)' = PointOf(PointNow) /\ EscNow' = EscNow
    <3>1. CASE Replaying
      <4>1. Behind
        BY <3>1 DEF Behind, Replaying
      <4> QED BY <1>12, <2>1, <3>1, <4>1, ScannerAt DEF ScannerPlace
    <3>2. CASE ~Replaying
      <4>1. ~Behind
        BY <1>2, <3>2 DEF Behind
      <4>2. PointNow = pc /\ EscNow = EscHere
        BY <1>2, <4>1, ScannerAt DEF ScannerPlace
      <4> QED BY <1>12, <2>1, <3>2, <4>2 DEF Break
    <3> QED BY <3>1, <3>2
  <2>3. Base + offset = avail /\ (Base + offset)' = Base + offset
    BY <1>2, <1>3, <1>4, <1>6
  <2>4. Shown' = Scanner!Result("eof", <<>>)
    BY <1>3 DEF Shown, Scanner!Result, Result
  <2> QED BY <1>2, <1>6, <1>8, <2>2, <2>3, <2>4 DEF Scanner!Suspend, Scanner!config, Shown
<1> QED BY <1>10, <1>11, <1>13, <1>14 DEF Refines, Scanner!Next

(* A client's move: the held text stays where it is in the stream, and the  *)
(* next call reads it again from its start.                                 *)
LEMMA ClientRefines ==
  ASSUME RInv, IInv', pc = "idle", pc' \in {"idle", "lex"}, pc' = "lex" => start_off' = offset',
         Base' + offset' = Base + offset, offset' \in Nat, Base' \in Nat,
         Len(text') <= avail', avail' <= Len(Stream),
         \A i \in 1..Len(text') : text'[i] = Stream[Base' + i],
         UNCHANGED <<holding, error, config, has_escapes, result, input, held>>
  PROVE  /\ InStream' /\ ReplaysForMore' /\ Retraced'
         /\ UNCHANGED <<input, Scanner!config, error, Scanned>>
<1> USE DEF RInv
<1>1. PICK run : /\ Retraces(run, Stream, StartNow, Length, allow_comments, validate_utf8)
                 /\ Passes(run)
  BY DEF Retraced
<1>2. /\ UNCHANGED <<buf, buf_off, buf_in_use, allow_comments, validate_utf8>>
      /\ Stream' = Stream /\ HeldPart' = HeldPart /\ HeldLen' = HeldLen
  BY DEF holding, config, Stream, HeldPart, HeldLen
<1>3. Began = offset /\ Began' = offset'
  BY DEF Began
<1>4. /\ Base \in Nat /\ offset \in Nat /\ HeldLen \in Nat /\ HeldLen <= Base + Began
      /\ HeldLen = (IF buf_in_use THEN Len(buf) ELSE 0)
      /\ StartNow = Base + Began - HeldLen /\ Length = HeldLen + (offset - Began)
  <2>1. HeldLen <= Base + Began
    BY DEF InStream
  <2>2. HeldLen = (IF buf_in_use THEN Len(buf) ELSE 0)
    BY EmptySeq DEF HeldLen, HeldPart
  <2> QED BY <2>1, <2>2, Positions
<1>5. Length = HeldLen /\ Length' = HeldLen
  <2>1. \A h, o \in Nat : h + (o - o) = h
    OBVIOUS
  <2>2. Length' = HeldLen' + (offset' - Began')
    BY DEF Length
  <2> QED BY <1>2, <1>3, <1>4, <2>1, <2>2
<1>6. StartNow' = StartNow
  <2>1. StartNow' = Base' + offset' - HeldLen
    BY <1>2, <1>4 DEF StartNow
  <2>2. StartNow = Base + offset - HeldLen
    BY <1>3, <1>4
  <2>3. HeldLen \in Nat /\ Base \in Nat /\ offset \in Nat
    BY <1>4
  <2>4. \A h, b, o \in Nat : b + (o - h) = (b + o) - h
    OBVIOUS
  <2>5. /\ Base' + (offset' - HeldLen) = (Base' + offset') - HeldLen
        /\ Base + (offset - HeldLen) = (Base + offset) - HeldLen
    BY <2>3, <2>4, Zenon
  <2> QED BY <2>1, <2>2, <2>5, Zenon
<1>7. InStream'
  <2>1. HeldLen' <= Base' + Began'
    <3>1. HeldLen <= Base + offset
      BY <1>3, <1>4
    <3> QED BY <1>2, <1>3, <3>1
  <2>2. \A i \in 1..HeldLen' : HeldPart'[i] = Stream'[StartNow' + i]
    BY <1>2, <1>6 DEF InStream
  <2> QED BY <1>2, <2>1, <2>2 DEF InStream
<1>8. ReplaysForMore'
  BY DEF ReplaysForMore
<1>9. Here' = 0
  <2>1. buf_in_use => buf_off = 0
    BY DEF IInv, TokenStart
  <2>2. CASE Replaying'
    BY <1>2, <2>1, <2>2 DEF Here, Replaying
  <2>3. CASE ~Replaying'
    <3>1. HeldLen = 0
      BY <1>2, <1>4, <2>1, <2>3 DEF Replaying
    <3> QED BY <1>5, <2>3, <3>1 DEF Here
  <2> QED BY <2>2, <2>3
<1>10. run[0] = Break("lex", FALSE)
  BY <1>1 DEF Retraces
<1>11. Passes(run)'
  <2>1. pc' # "idle" => pc' = "lex" /\ EscHere' = FALSE
    BY DEF EscHere, StringPoints, Utf8Points
  <2>2. pc' # "idle" => Stands(run[Here'], pc', EscHere', Chr')
                        /\ run[Here'] = Break(PointOf(pc'), EscHere')
    BY <1>9, <1>10, <2>1 DEF Stands, PointOf
  <2>3. buf_in_use' => run[HeldLen'] = held'
    BY <1>1, <1>2 DEF Passes
  <2> QED BY <2>2, <2>3 DEF Passes
<1>12. Retraced'
  <2>1. Length' = Length
    BY <1>5
  <2> QED BY <1>1, <1>2, <1>6, <1>11, <2>1 DEF Retraced
<1>13. PointOf(PointNow)' = PointOf(PointNow) /\ EscNow' = EscNow
  <2>1. CASE Behind'
    <3>1. Behind
      BY <1>2, <2>1 DEF Behind
    <3> QED BY <2>1, <3>1, ScannerAt, ScannerAtNext DEF ScannerPlace
  <2>2. CASE ~Behind'
    <3>1. PointNow' = "lex" /\ EscNow' = FALSE
      <4>1. pc' = "lex" => EscHere' = FALSE
        BY DEF EscHere, StringPoints, Utf8Points
      <4> QED BY <2>2, <4>1, ScannerAtNext DEF ScannerPlace
    <3>2. CASE buf_in_use
      <4>1. HeldLen = 0
        <5>1. buf_off = 0 /\ Len(buf) \in Nat
          BY <3>2, LenProperties DEF IInv, TypeOK, TokenStart
        <5> QED BY <1>2, <1>4, <2>2, <3>2, <5>1 DEF Behind, Replaying
      <4>2. held = Break("lex", FALSE)
        BY <1>1, <1>10, <3>2, <4>1 DEF Passes
      <4>3. PointNow = "lex" /\ EscNow = FALSE
        <5>1. Behind
          BY <3>2 DEF Behind
        <5> QED BY <4>2, <5>1, ScannerAt DEF ScannerPlace, Break
      <4> QED BY <3>1, <4>3
    <3>3. CASE ~buf_in_use
      <4>1. ~Behind
        BY <3>3 DEF Behind
      <4> QED BY <3>1, <4>1, ScannerAt DEF ScannerPlace
    <3> QED BY <3>2, <3>3
  <2> QED BY <2>1, <2>2
<1>14. UNCHANGED <<input, Scanner!config, error, Scanned>>
  <2>1. Shown' = Shown
    BY DEF Shown
  <2> QED BY <1>2, <1>6, <1>13, <2>1 DEF Scanned, Scanner!config
<1> QED BY <1>7, <1>8, <1>12, <1>14

LEMMA NextChunkRefines ==
  ASSUME RInv, IInv', NEW n \in 0..Len(input), NextChunk(n)
  PROVE  Refines
<1> USE DEF RInv
<1>1. /\ pc = "idle" /\ pc' = "idle" /\ offset = Len(text) /\ offset' = 0
      /\ avail + n <= Len(input)
      /\ text' = SubSeq(input, avail + 1, avail + n) /\ avail' = avail + n
      /\ UNCHANGED <<holding, error, config, has_escapes, result, input, held>>
  BY DEF NextChunk
<1>2. /\ Base \in Nat /\ offset \in Nat /\ avail \in Nat /\ Base + offset = avail
      /\ n \in Nat /\ Len(input) \in Nat /\ Len(Stream) = Len(input) + 1
  <2>1. Base \in Nat /\ offset \in Nat /\ avail \in Nat /\ Base + Len(text) = avail
    BY Positions
  <2>2. Len(input) \in Nat /\ Len(Stream) = Len(input) + 1
    BY StreamType
  <2> QED BY <1>1, <2>1, <2>2
<1>3. Len(text') = n /\ \A i \in 1..n : text'[i] = Stream[avail + i]
  <2>1. input \in Seq(Chars)
    BY InputsAssumption DEF IInv, TypeOK
  <2>2. \A i \in (avail + 1)..(avail + n) : input[i] \in Chars
    BY <1>1, <1>2, <2>1, ElementOfSeq
  <2>3. /\ Len(text') = IF avail + 1 <= avail + n THEN avail + n - (avail + 1) + 1 ELSE 0
        /\ \A i \in 1..(avail + n - (avail + 1) + 1) : text'[i] = input[avail + 1 + i - 1]
    BY <1>1, <1>2, <2>2, SubSeqProperties
  <2>4. Len(text') = n
    BY <1>2, <2>3
  <2>5. ASSUME NEW i \in 1..n PROVE text'[i] = Stream[avail + i]
    <3>1. /\ i \in 1..(avail + n - (avail + 1) + 1) /\ avail + 1 + i - 1 = avail + i
          /\ avail + i \in 1..Len(input)
      BY <1>1, <1>2
    <3>2. "space" \in Chars
      BY DEF Chars
    <3>3. Stream[avail + i] = input[avail + i]
      BY <2>1, <3>1, <3>2, AppendProperties DEF Stream
    <3> QED BY <2>3, <3>1, <3>3
  <2> QED BY <2>4, <2>5
<1>4. Base' = avail /\ Base' + offset' = Base + offset
  <2>1. Base' = avail' - Len(text')
    BY DEF Base
  <2>2. Base' = avail
    BY <1>1, <1>2, <1>3, <2>1
  <2> QED BY <1>1, <1>2, <2>2
<1>5. Len(text') <= avail' /\ avail' <= Len(Stream)
  BY <1>1, <1>2, <1>3
<1>6. /\ InStream' /\ ReplaysForMore' /\ Retraced'
      /\ UNCHANGED <<input, Scanner!config, error, Scanned>>
  <2>1. \A i \in 1..Len(text') : text'[i] = Stream[Base' + i]
    BY <1>3, <1>4
  <2>2. offset' \in Nat /\ Base' \in Nat
    BY <1>1, <1>2, <1>4
  <2> QED BY <1>1, <1>4, <1>5, <2>1, <2>2, ClientRefines
<1>7. CASE n = 0
  <2>1. avail' = avail
    BY <1>1, <1>2, <1>7
  <2>2. UNCHANGED Scanner!vars
    BY <1>1, <1>6, <2>1, ScannerWaits
  <2> QED BY <1>6, <2>2 DEF Refines
<1>8. CASE n # 0
  <2>1. n > 0 /\ avail + n <= Len(Stream) /\ n \in 1..Len(Stream)
    BY <1>1, <1>2, <1>8
  <2>2. Scanner!Stream = Stream
    BY DEF Scanner!Stream, Stream
  <2>3. Scanner!Arrive(n)
    BY <1>1, <1>6, <2>1, <2>2 DEF Scanner!Arrive, Scanned, Shown
  <2> QED BY <1>6, <2>1, <2>2, <2>3 DEF Refines, Scanner!Next
<1> QED BY <1>7, <1>8

LEMMA FinalizeRefines == RInv /\ IInv' /\ Finalize => Refines
<1> SUFFICES ASSUME RInv, IInv', Finalize PROVE Refines
  OBVIOUS
<1> USE DEF RInv
<1>1. /\ pc = "idle" /\ pc' = "lex" /\ offset = Len(text) /\ offset' = 0 /\ start_off' = 0
      /\ avail = Len(input) /\ text' = <<"space">> /\ avail' = avail + 1
      /\ UNCHANGED <<holding, error, config, has_escapes, result, input, held>>
  BY DEF Finalize
<1>2. /\ Base \in Nat /\ offset \in Nat /\ avail \in Nat /\ Base + offset = avail
      /\ Len(Stream) = avail + 1 /\ Stream[avail + 1] = "space"
  <2>1. Base \in Nat /\ offset \in Nat /\ avail \in Nat /\ Base + Len(text) = avail
    BY Positions
  <2>2. Len(Stream) = Len(input) + 1
    BY StreamType
  <2>3. input \in Seq(Chars) /\ "space" \in Chars
    BY InputsAssumption DEF IInv, TypeOK, Chars
  <2>4. Stream[Len(input) + 1] = "space"
    BY <2>3, AppendProperties DEF Stream
  <2> QED BY <1>1, <2>1, <2>2, <2>4
<1>3. Len(text') = 1 /\ text'[1] = "space"
  BY <1>1
<1>4. Base' = avail /\ Base' + offset' = Base + offset
  <2>1. Base' = avail + 1 - 1
    BY <1>1, <1>3 DEF Base
  <2>2. Base' = avail
    BY <1>2, <2>1
  <2> QED BY <1>1, <1>2, <2>2
<1>5. Len(text') <= avail' /\ avail' <= Len(Stream)
  BY <1>1, <1>2, <1>3
<1>6. /\ InStream' /\ ReplaysForMore' /\ Retraced'
      /\ UNCHANGED <<input, Scanner!config, error, Scanned>>
  <2>1. \A i \in 1..Len(text') : text'[i] = Stream[Base' + i]
    <3>1. \A i \in 1..1 : i = 1
      OBVIOUS
    <3> QED BY <1>2, <1>3, <1>4, <3>1
  <2>2. offset' \in Nat /\ Base' \in Nat
    BY <1>1, <1>2, <1>4
  <2> QED BY <1>1, <1>4, <1>5, <2>1, <2>2, ClientRefines
<1>7. Scanner!Stream = Stream
  BY DEF Scanner!Stream, Stream
<1>8. 1 > 0 /\ avail + 1 <= Len(Stream) /\ 1 \in 1..Len(Stream)
  BY <1>2
<1>9. Scanner!Arrive(1)
  BY <1>1, <1>6, <1>7, <1>8 DEF Scanner!Arrive, Scanned, Shown
<1> QED BY <1>6, <1>7, <1>8, <1>9 DEF Refines, Scanner!Next

LEMMA LexRefines == RInv /\ IInv' /\ Lex => Refines
<1> SUFFICES ASSUME RInv, IInv', Lex PROVE Refines
  OBVIOUS
<1> USE DEF RInv
<1>1. /\ pc = "idle" /\ pc' = "lex" /\ start_off' = offset /\ offset' = offset
      /\ UNCHANGED <<holding, error, config, has_escapes, result, held>>
      /\ UNCHANGED <<input, avail, text>>
  BY DEF Lex, client
<1>2. Base' = Base /\ Base \in Nat /\ offset \in Nat
  <2>1. Base' = Base
    BY <1>1 DEF Base
  <2> QED BY <2>1, Positions
<1>3. /\ Len(text') <= avail' /\ avail' <= Len(Stream)
      /\ \A i \in 1..Len(text') : text'[i] = Stream[Base' + i]
  BY <1>1, <1>2 DEF InStream
<1>4. /\ InStream' /\ ReplaysForMore' /\ Retraced'
      /\ UNCHANGED <<input, Scanner!config, error, Scanned>>
  <2>1. Base' + offset' = Base + offset /\ offset' \in Nat /\ Base' \in Nat
        /\ start_off' = offset'
    BY <1>1, <1>2
  <2> QED BY <1>1, <1>3, <2>1, ClientRefines
<1>5. UNCHANGED Scanner!vars
  BY <1>1, <1>4, ScannerWaits
<1> QED BY <1>4, <1>5 DEF Refines

-----------------------------------------------------------------------------
(* The invariant holds at first and is kept, and the initial states are the *)
(* scanner's.                                                               *)
LEMMA InitRefines == Init => RInv /\ Scanner!Init
<1> SUFFICES ASSUME Init PROVE RInv /\ Scanner!Init
  OBVIOUS
<1>1. IInv
  BY InitIInv
<1>2. /\ buf_in_use = FALSE /\ text = <<>> /\ offset = 0 /\ pc = "idle" /\ avail = 0
      /\ error = "e_ok" /\ result = Nothing
  BY DEF Init
<1>3. HeldPart = <<>> /\ HeldLen = 0 /\ ~Replaying /\ Len(text) = 0
  BY <1>2, EmptySeq DEF HeldPart, HeldLen, Replaying
<1>4. Base = 0 /\ Began = 0 /\ StartNow = 0
  <2>1. Base = 0
    <3>1. avail = 0 /\ Len(text) = 0
      BY <1>2, <1>3
    <3> QED BY <3>1 DEF Base
  <2>2. Began = 0
    BY <1>2 DEF Began
  <2>3. StartNow = Base + offset - 0
    BY <1>2 DEF StartNow
  <2> QED BY <1>2, <2>1, <2>2, <2>3
<1>5. Length = 0 /\ Here = 0
  BY <1>2, <1>3, <1>4 DEF Length, Here
<1>6. InStream
  <2>1. 0 <= Len(Stream)
    BY <1>1, StreamType, LenProperties
  <2> QED BY <1>2, <1>3, <1>4, <2>1 DEF InStream
<1>7. ReplaysForMore
  BY <1>3 DEF ReplaysForMore
<1>8. Retraced
  <2> DEFINE run == [i \in 0..0 |-> Break("lex", FALSE)]
  <2>1. Break("lex", FALSE) \in States
    BY DEF Break, States, ReadPoints
  <2>2. run \in [0..0 -> States] /\ run[0] = Break("lex", FALSE)
    <3>1. 0 \in 0..0
      OBVIOUS
    <3> QED BY <2>1, <3>1
  <2> HIDE DEF run
  <2>3. Retraces(run, Stream, StartNow, Length, allow_comments, validate_utf8)
    <3>1. \A i \in 1..0 : FALSE
      OBVIOUS
    <3> QED BY <1>5, <2>2, <3>1 DEF Retraces
  <2>4. Passes(run)
    BY <1>2 DEF Passes
  <2> QED BY <2>3, <2>4 DEF Retraced
<1>9. Scanner!Init
  <2>1. PointNow = "lex" /\ EscNow = FALSE
    <3>1. ~Behind
      BY <1>2 DEF Behind
    <3> QED BY <1>2, <3>1, ScannerAt DEF ScannerPlace
  <2>2. PointOf(PointNow) = "lex" /\ Base + offset = 0
    BY <1>2, <1>4, <2>1 DEF PointOf
  <2>3. result.tok # "error" /\ result = Scanner!Result("none", <<>>)
    BY <1>2 DEF Nothing, Result, Scanner!Result
  <2> QED BY <1>2, <1>4, <2>1, <2>2, <2>3 DEF Init, Scanner!Init
<1> QED BY <1>1, <1>6, <1>7, <1>8, <1>9 DEF RInv

LEMMA NextRefines == RInv /\ [Next]_vars => RInv' /\ [Scanner!Next]_(Scanner!vars)
<1> SUFFICES ASSUME RInv, [Next]_vars PROVE RInv' /\ [Scanner!Next]_(Scanner!vars)
  OBVIOUS
<1>1. IInv'
  BY NextIInv DEF RInv
<1>2. Refines
  <2>1. CASE \E n \in 0..Len(input) : NextChunk(n)
    BY <1>1, <2>1, NextChunkRefines
  <2>2. CASE Lex
    BY <1>1, <2>2, LexRefines
  <2>3. CASE Finalize
    BY <1>1, <2>3, FinalizeRefines
  <2>4. CASE EndOfChunk
    BY <1>1, <2>4, EndOfChunkRefines
  <2>5. CASE LexSwitch
    BY <1>1, <2>5, LexSwitchRefines
  <2>6. CASE LexLiteral
    BY <1>1, <2>6, LexLiteralRefines
  <2>7. CASE StringScan
    BY <1>1, <2>7, StringScanRefines
  <2>8. CASE LexString
    BY <1>1, <2>8, LexStringRefines
  <2>9. CASE LexNumber
    BY <1>1, <2>9, LexNumberRefines
  <2>10. CASE LexComment
    BY <1>1, <2>10, LexCommentRefines
  <2>11. CASE UNCHANGED vars
    <3>1. /\ UNCHANGED <<buf, buf_off, buf_in_use, error, allow_comments, validate_utf8, text>>
          /\ UNCHANGED <<offset, pc, start_off, has_escapes, result, input, avail, held>>
      BY <2>11 DEF vars, holding, config, client
    <3>2. /\ HeldPart' = HeldPart /\ HeldLen' = HeldLen /\ Base' = Base /\ Began' = Began
          /\ Stream' = Stream /\ Replaying' = Replaying /\ Chr' = Chr /\ EscHere' = EscHere
      BY <3>1 DEF HeldPart, HeldLen, Base, Began, Stream, Replaying, Chr, EscHere
    <3>3. StartNow' = StartNow /\ Length' = Length /\ Here' = Here /\ Shown' = Shown
      BY <3>1, <3>2 DEF StartNow, Length, Here, Shown
    <3>4. PointNow' = PointNow /\ EscNow' = EscNow
      <4>1. Behind' = Behind
        BY <3>1, <3>2 DEF Behind
      <4> QED BY <3>1, <3>2, <4>1, ScannerAt, ScannerAtNext DEF ScannerPlace
    <3>5. InStream' /\ ReplaysForMore' /\ Retraced'
      <4>1. \A run : Passes(run) => Passes(run)'
        BY <3>1, <3>2, <3>3 DEF Passes
      <4> QED BY <3>1, <3>2, <3>3, <4>1 DEF RInv, InStream, ReplaysForMore, Retraced
    <3>6. UNCHANGED Scanned
      BY <3>1, <3>2, <3>3, <3>4 DEF Scanned, PointOf
    <3>7. UNCHANGED Scanner!vars
      BY <3>1, <3>6, ScannerWaits DEF config
    <3> QED BY <3>5, <3>7 DEF Refines
  <2> QED BY <2>1, <2>2, <2>3, <2>4, <2>5, <2>6, <2>7, <2>8, <2>9, <2>10, <2>11 DEF Next, Step
<1> QED BY <1>1, <1>2 DEF RInv, Refines

-----------------------------------------------------------------------------
LEMMA RetracedIsUnfinished == RInv => HeldIsUnfinished
<1> SUFFICES ASSUME RInv, pc = "idle", buf_in_use
             PROVE  /\ buf_off = 0
                    /\ Len(buf) <= Base + offset
                    /\ buf = SubSeq(Stream, Base + offset - Len(buf) + 1, Base + offset)
                    /\ buf # <<>> => Head(buf) \notin Whitespace
  BY DEF HeldIsUnfinished
<1> USE DEF RInv
<1>1. buf_off = 0 /\ (buf # <<>> => Head(buf) \notin Whitespace)
  BY DEF IInv, TokenStart
<1>2. HeldPart = buf /\ HeldLen = Len(buf) /\ Began = offset
  BY DEF HeldPart, HeldLen, Began
<1>3. /\ HeldLen \in Nat /\ Base \in Nat /\ offset \in Nat /\ StartNow \in Nat
      /\ StartNow = Base + Began - HeldLen /\ HeldLen <= Base + offset
      /\ Base + offset <= Len(Stream) /\ Len(Stream) \in Nat
  <2>1. HeldLen <= Base + Began /\ avail <= Len(Stream)
    BY DEF InStream
  <2>2. Len(Stream) \in Nat
    BY StreamType, LenProperties
  <2>3. /\ HeldLen \in Nat /\ Base \in Nat /\ offset \in Nat /\ StartNow \in Nat
        /\ StartNow = Base + Began - HeldLen /\ Len(text) \in Nat /\ offset <= Len(text)
        /\ Base + Len(text) = avail
    BY Positions
  <2> HIDE DEF Base, StartNow
  <2> QED BY <1>2, <2>1, <2>2, <2>3
<1>4. \A i \in 1..Len(buf) : buf[i] = Stream[StartNow + i]
  BY <1>2 DEF InStream
<1> DEFINE piece == SubSeq(Stream, StartNow + 1, Base + offset)
<1>5. buf = piece
  <2>1. \A i \in (StartNow + 1)..(Base + offset) : Stream[i] \in Chars
    BY <1>3, StreamType, ElementOfSeq
  <2>2. /\ piece \in Seq(Chars)
        /\ Len(piece) = IF StartNow + 1 <= Base + offset THEN Base + offset - (StartNow + 1) + 1 ELSE 0
        /\ \A i \in 1..(Base + offset - (StartNow + 1) + 1) : piece[i] = Stream[StartNow + 1 + i - 1]
    BY <1>3, <2>1, SubSeqProperties
  <2> HIDE DEF piece
  <2>3. Len(piece) = Len(buf)
    BY <1>2, <1>3, <2>2
  <2>4. ASSUME NEW i \in 1..Len(buf) PROVE buf[i] = piece[i]
    <3>1. i \in 1..(Base + offset - (StartNow + 1) + 1) /\ StartNow + 1 + i - 1 = StartNow + i
      BY <1>2, <1>3
    <3> QED BY <1>4, <2>2, <3>1
  <2>5. buf \in Seq(Chars)
    BY DEF IInv, TypeOK
  <2> QED BY <2>2, <2>3, <2>4, <2>5, SeqEqual
<1>6. StartNow + 1 = Base + offset - Len(buf) + 1
  BY <1>2, <1>3
<1> QED BY <1>1, <1>2, <1>3, <1>5, <1>6

(* Between two calls the held text is exactly what has been read of one     *)
(* unfinished token, wherever the chunks of the input end: buf and the      *)
(* offset of jhn_lexer_lex() never drift apart.                             *)
THEOREM HeldIsAlwaysUnfinished == Spec => []HeldIsUnfinished
<1>1. Init => RInv
  BY InitRefines
<1>2. RInv /\ [Next]_vars => RInv'
  BY NextRefines
<1> QED BY <1>1, <1>2, RetracedIsUnfinished, PTL DEF Spec

(* The tokens, their text, their errors and the eof reports are those of    *)
(* the unbroken input, for every input and every way of cutting it into     *)
(* chunks: jhn_lexer_lex() with its held text is the scanner of module      *)
(* LexStream, which knows no chunks and reads nothing twice.                *)
THEOREM LexerImplementsStream == Spec => ImplementsStream
<1>1. Init => RInv /\ Scanner!Init
  BY InitRefines
<1>2. RInv /\ [Next]_vars => RInv' /\ [Scanner!Next]_(Scanner!vars)
  BY NextRefines
<1> QED BY <1>1, <1>2, PTL DEF Spec, ImplementsStream, Scanner!Spec

-----------------------------------------------------------------------------
(* The contract with the parser.  The kind of text held when the call was   *)
(* made confines the points its token can still pass through.               *)

DoublePoints == {"frac", "exp", "expsign", "expdig"}

Family(k) ==
  CASE k \in {"int", "prefix"} -> NumberPoints
    [] k = "double" -> DoublePoints
    [] k = "word" -> LiteralPoints
    [] k \in {"string", "escape"} -> StringPoints
    [] OTHER -> ReadPoints

LEMMA Kinds ==
  ASSUME NEW q \in ReadPoints
  PROVE  /\ q \in LiteralPoints => KindOf(q) = "word"
         /\ q \in StringPoints => KindOf(q) = (IF q = "str" THEN "string" ELSE "escape")
         /\ q \in {"zero", "int"} => KindOf(q) = "int"
         /\ q \in {"frac", "expdig"} => KindOf(q) = "double"
         /\ q \in NumberPoints \ {"zero", "int", "frac", "expdig"} => KindOf(q) = "prefix"
         /\ q \in CommentPoints => KindOf(q) = (IF q = "slash" THEN "slash" ELSE "comment")
         /\ q = "lex" => KindOf(q) = "none"
<1> USE DEF KindOf, LiteralPoints, StringPoints, Utf8Points, NumberPoints, CommentPoints
<1>1. q \in LiteralPoints => KindOf(q) = "word"
  OBVIOUS
<1>2. q \in StringPoints => KindOf(q) = (IF q = "str" THEN "string" ELSE "escape")
  OBVIOUS
<1>3. q \in {"zero", "int"} => KindOf(q) = "int"
  OBVIOUS
<1>4. q \in {"frac", "expdig"} => KindOf(q) = "double"
  OBVIOUS
<1>5. q \in NumberPoints \ {"zero", "int", "frac", "expdig"} => KindOf(q) = "prefix"
  OBVIOUS
<1>6. q \in CommentPoints => KindOf(q) = (IF q = "slash" THEN "slash" ELSE "comment")
  OBVIOUS
<1>7. q = "lex" => KindOf(q) = "none"
  OBVIOUS
<1> HIDE DEF KindOf, LiteralPoints, StringPoints, Utf8Points, NumberPoints, CommentPoints
<1> QED BY <1>1, <1>2, <1>3, <1>4, <1>5, <1>6, <1>7

LEMMA Families ==
  /\ Family("int") = NumberPoints /\ Family("prefix") = NumberPoints
  /\ Family("double") = DoublePoints
  /\ Family("word") = LiteralPoints
  /\ Family("string") = StringPoints /\ Family("escape") = StringPoints
  /\ Family("none") = ReadPoints /\ Family("comment") = ReadPoints /\ Family("slash") = ReadPoints
BY DEF Family

LEMMA OwnFamily ==
  ASSUME NEW q \in ReadPoints
  PROVE  q \in Family(KindOf(q)) /\ KindOf(q) \in HeldKinds
<1> USE DEF HeldKinds
<1>1. CASE q \in LiteralPoints
  BY <1>1, Kinds, Families
<1>2. CASE q \in StringPoints
  BY <1>2, Kinds, Families
<1>3. CASE q \in NumberPoints
  BY <1>3, Kinds, Families DEF DoublePoints
<1>4. CASE q \in CommentPoints \cup {"lex"}
  BY <1>4, Kinds, Families
<1> QED BY <1>1, <1>2, <1>3, <1>4 DEF ReadPoints

LEMMA SwitchAvoidsComments ==
  ASSUME NEW c \in Chars
  PROVE  Dispatch(c, FALSE).to \notin CommentPoints
<1> USE DEF Dispatch, Outcome, Go, GoBack, Tok, Fail, FailBack, CommentPoints
<1>1. CASE c \in Whitespace
  BY <1>1 DEF Whitespace
<1>2. CASE c \in Digits \cup {"-"}
  BY <1>2 DEF Whitespace, Digits
<1>3. CASE c = "/"
  BY <1>3 DEF Whitespace
<1>4. CASE c \notin Whitespace \cup Digits \cup {"-", "/"}
  BY <1>4
<1> QED BY <1>1, <1>2, <1>3, <1>4

(* A step of the run stays in the family, and never stops at "number". *)
LEMMA FamilyStep ==
  ASSUME NEW q \in ReadPoints, NEW c \in Chars, NEW comments \in BOOLEAN, NEW utf8 \in BOOLEAN,
         NEW out, out = Settled(q, c, comments, utf8), out.tok = "none"
  PROVE  /\ PointOf(out.to) \in ReadPoints \ {"number"}
         /\ \A k \in HeldKinds : q \in Family(k) => PointOf(out.to) \in Family(k)
         /\ PointOf(out.to) \in CommentPoints => comments \/ q \in CommentPoints
<1> DEFINE first == ScanChr(q, c, comments, utf8)
<1> USE DEF Go, GoBack, Tok, TokBack, Fail, FailBack, Outcome, LiteralPoints, StringPoints,
        Utf8Points, NumberPoints, CommentPoints, PointOf, ScanChr
<1>1. CASE q \in LiteralPoints
  <2>1. out.to \in LiteralPoints
    BY <1>1 DEF Settled, Literal, LiteralNext
  <2>2. \A k \in HeldKinds : q \in Family(k) => LiteralPoints \subseteq Family(k)
    BY <1>1, Families DEF HeldKinds, DoublePoints, ReadPoints
  <2> QED BY <2>1, <2>2 DEF ReadPoints
<1>2. CASE q \in StringPoints
  <2>1. first.tok = "none" => ~first.back /\ first.to \in StringPoints \cup {"scan"}
    BY <1>2 DEF StringChar, Utf8Char, Utf8Lead, Utf8Next, HexNext
  <2>2. out = first
    BY <2>1 DEF Settled
  <2>3. PointOf(out.to) \in StringPoints
    BY <2>1, <2>2
  <2>4. \A k \in HeldKinds : q \in Family(k) => StringPoints \subseteq Family(k)
    BY <1>2, Families DEF HeldKinds, DoublePoints, ReadPoints
  <2>5. PointOf(out.to) \in ReadPoints \ {"number"} /\ PointOf(out.to) \notin CommentPoints
    BY <2>3 DEF ReadPoints
  <2> QED BY <2>3, <2>4, <2>5
<1>3. CASE q \in NumberPoints
  <2>1. first.tok = "none" => /\ ~first.back /\ first.to \in NumberPoints \ {"number"}
                              /\ q \in DoublePoints => first.to \in DoublePoints
    BY <1>3 DEF NumberChar, NumberTail, DoublePoints
  <2>2. out = first
    BY <2>1 DEF Settled
  <2>3. PointOf(out.to) = out.to
    BY <2>1, <2>2
  <2>4. \A k \in HeldKinds : q \in Family(k) =>
          NumberPoints \subseteq Family(k) \/ (q \in DoublePoints /\ Family(k) = DoublePoints)
    BY <1>3, Families DEF HeldKinds, DoublePoints, ReadPoints
  <2> QED BY <2>1, <2>2, <2>3, <2>4 DEF ReadPoints
<1>4. CASE q \in CommentPoints \cup {"lex"}
  <2>1. PointOf(out.to) \in ReadPoints \ {"number"}
    <3>1. first \in Outcomes
      BY ScanOutcome
    <3>2. CASE first.tok = "none" /\ first.back
      <4>1. /\ first.to = "number" => out = ScanChr("number", c, comments, utf8)
            /\ first.to = "block" => out = ScanChr("block", c, comments, utf8)
            /\ first.to \in {"number", "block"}
        BY <3>2, ScanOutcome DEF Settled
      <4>2. ScanChr("number", c, comments, utf8).to \in {"minus", "zero", "int"}
        BY DEF NumberChar
      <4>3. ScanChr("block", c, comments, utf8).to \in {"star", "block"}
        BY DEF CommentChar
      <4> QED BY <4>1, <4>2, <4>3 DEF ReadPoints
    <3>3. CASE ~(first.tok = "none" /\ first.back)
      <4>1. out = first /\ ~first.back
        BY <3>1, <3>3 DEF Settled
      <4>2. out.to # "number" /\ out.to \in Points
        BY <3>1, <4>1, ScanOutcome DEF Outcomes
      <4> QED BY <4>2 DEF Points, ReadPoints
    <3> QED BY <3>2, <3>3
  <2>2. \A k \in HeldKinds : q \in Family(k) => Family(k) = ReadPoints
    BY <1>4, Families DEF HeldKinds, DoublePoints
  <2>3. CASE q = "lex" /\ ~comments
    <3>1. first = Dispatch(c, comments)
      BY <2>3
    <3>2. first.tok # "none" => out = first
      BY DEF Settled
    <3>3. first.to \notin CommentPoints
      BY <2>3, <3>1, SwitchAvoidsComments
    <3>4. CASE first.tok = "none" /\ first.back
      <4>1. first.to = "number" /\ out = ScanChr("number", c, comments, utf8)
        BY <2>3, <3>4, ScanOutcome DEF Settled
      <4>2. ScanChr("number", c, comments, utf8).to \in {"minus", "zero", "int"}
        BY DEF NumberChar
      <4> QED BY <2>1, <2>2, <4>1, <4>2
    <3>5. CASE first.tok = "none" /\ ~first.back
      <4>1. out = first
        BY <3>5 DEF Settled
      <4>2. PointOf(out.to) \notin CommentPoints
        BY <3>3, <3>5, <4>1
      <4> QED BY <2>1, <2>2, <4>2
    <3> QED BY <3>2, <3>4, <3>5
  <2> QED BY <1>4, <2>1, <2>2, <2>3
<1> QED BY <1>1, <1>2, <1>3, <1>4 DEF ReadPoints

(* What the parser expects to be held after a chunk is what can be reached. *)
Reachable(q, comments) == q \in ReadPoints \ {"number"} /\ (q \in CommentPoints => comments)

LEMMA FamilyHolds ==
  ASSUME NEW k \in HeldKinds, NEW comments \in BOOLEAN, NEW q \in Family(k), Reachable(q, comments)
  PROVE  KindOf(q) \in Holds(k, comments)
<1>1. q \in ReadPoints /\ q # "number" /\ (q \in CommentPoints => comments)
  BY DEF Reachable
<1>2. CASE k \in {"int", "prefix"}
  <2>1. KindOf(q) \in {"int", "double", "prefix"}
    BY <1>1, <1>2, Kinds, Families
  <2> QED BY <1>2, <2>1 DEF Holds
<1>3. CASE k = "double"
  <2>1. KindOf(q) \in {"double", "prefix"}
    BY <1>1, <1>3, Kinds, Families DEF DoublePoints, NumberPoints
  <2> QED BY <1>3, <2>1 DEF Holds
<1>4. CASE k = "word"
  <2>1. KindOf(q) = "word"
    BY <1>1, <1>4, Kinds, Families
  <2> QED BY <1>4, <2>1 DEF Holds
<1>5. CASE k \in {"string", "escape"}
  <2>1. KindOf(q) \in {"string", "escape"}
    BY <1>1, <1>5, Kinds, Families
  <2> QED BY <1>5, <2>1 DEF Holds
<1>6. CASE k \in {"none", "comment", "slash"}
  <2>1. KindOf(q) \in HeldKinds
    BY <1>1, OwnFamily
  <2>2. KindOf(q) \in CommentKinds => q \in CommentPoints
    <3>1. q \in LiteralPoints \/ q \in StringPoints \/ q \in NumberPoints \/ q \in CommentPoints
          \/ q = "lex"
      BY <1>1 DEF ReadPoints
    <3> QED BY <1>1, <3>1, Kinds DEF CommentKinds
  <2> QED BY <1>1, <1>6, <2>1, <2>2 DEF Holds
<1> QED BY <1>2, <1>3, <1>4, <1>5, <1>6 DEF HeldKinds

LEMMA MoveFamily ==
  ASSUME NEW s \in States, NEW c \in Chars, NEW t, NEW comments \in BOOLEAN, NEW utf8 \in BOOLEAN,
         Moves(s, c, t, comments, utf8), Reachable(s.point, comments)
  PROVE  /\ Reachable(t.point, comments)
         /\ \A k \in HeldKinds : s.point \in Family(k) => t.point \in Family(k)
<1> DEFINE out == Settled(s.point, c, comments, utf8)
<1>1. out.tok = "none" /\ t.point = PointOf(out.to)
  BY DEF Moves, Break
<1>2. s.point \in ReadPoints
  BY DEF States
<1> HIDE DEF out
<1>3. /\ PointOf(out.to) \in ReadPoints \ {"number"}
      /\ \A k \in HeldKinds : s.point \in Family(k) => PointOf(out.to) \in Family(k)
      /\ PointOf(out.to) \in CommentPoints => comments \/ s.point \in CommentPoints
  BY <1>1, <1>2, FamilyStep DEF out
<1> QED BY <1>1, <1>3 DEF Reachable

(* By induction along the run. *)
CharsAhead(stream, first, n) == \A i \in 1..n : stream[first + i] \in Chars

LEMMA RunFamily ==
  ASSUME NEW run, NEW stream, NEW first \in Nat, NEW n \in Nat, NEW h \in 0..n,
         NEW comments \in BOOLEAN, NEW utf8 \in BOOLEAN,
         Retraces(run, stream, first, n, comments, utf8), CharsAhead(stream, first, n)
  PROVE  /\ run[h] \in States /\ run[n] \in States
         /\ Reachable(run[h].point, comments) /\ Reachable(run[n].point, comments)
         /\ run[n].point \in Family(KindOf(run[h].point))
<1>1. /\ run \in [0..n -> States] /\ run[0] = Break("lex", FALSE)
      /\ \A i \in 1..n : Moves(run[i - 1], stream[first + i], run[i], comments, utf8)
  BY DEF Retraces
<1>2. ASSUME NEW j \in Nat, j + 1 <= n
      PROVE  /\ run[j] \in States
             /\ Moves(run[j], stream[first + (j + 1)], run[j + 1], comments, utf8)
             /\ stream[first + (j + 1)] \in Chars
  <2>1. j + 1 \in 1..n /\ (j + 1) - 1 = j /\ j \in 0..n
    BY <1>2
  <2> QED BY <1>1, <2>1 DEF CharsAhead
<1> DEFINE R == {j \in Nat : j <= n => Reachable(run[j].point, comments)}
<1>3. Nat \subseteq R
  <2>1. 0 \in R
    BY <1>1 DEF Break, Reachable, ReadPoints, CommentPoints
  <2>2. ASSUME NEW j \in Nat, j \in R PROVE j + 1 \in R
    <3> SUFFICES ASSUME j + 1 <= n PROVE Reachable(run[j + 1].point, comments)
      OBVIOUS
    <3>1. Reachable(run[j].point, comments)
      BY <2>2
    <3> QED BY <1>2, <3>1, MoveFamily
  <2> HIDE DEF R
  <2> QED BY <2>1, <2>2, Induction
<1> DEFINE k == KindOf(run[h].point)
<1>4. Reachable(run[h].point, comments) /\ k \in HeldKinds /\ run[h].point \in Family(k)
  <2>1. Reachable(run[h].point, comments)
    BY <1>3
  <2> QED BY <2>1, OwnFamily DEF Reachable
<1> HIDE DEF k
<1> DEFINE F == {j \in Nat : h + j <= n => run[h + j].point \in Family(k)}
<1>5. Nat \subseteq F
  <2>1. 0 \in F
    <3>1. h + 0 = h
      OBVIOUS
    <3> QED BY <1>4, <3>1
  <2>2. ASSUME NEW j \in Nat, j \in F PROVE j + 1 \in F
    <3> SUFFICES ASSUME h + (j + 1) <= n PROVE run[h + (j + 1)].point \in Family(k)
      OBVIOUS
    <3>1. h + j \in Nat /\ (h + j) + 1 <= n /\ (h + j) + 1 = h + (j + 1) /\ h + j <= n
      OBVIOUS
    <3>2. run[h + j].point \in Family(k)
      BY <2>2, <3>1
    <3>3. Reachable(run[h + j].point, comments)
      BY <1>3, <3>1
    <3>4. /\ run[h + j] \in States /\ stream[first + ((h + j) + 1)] \in Chars
          /\ Moves(run[h + j], stream[first + ((h + j) + 1)], run[h + (j + 1)], comments, utf8)
      BY <1>2, <3>1
    <3> QED BY <1>4, <3>2, <3>3, <3>4, MoveFamily
  <2> HIDE DEF F
  <2> QED BY <2>1, <2>2, Induction
<1>6. n - h \in Nat /\ h + (n - h) = n /\ n \in Nat
  OBVIOUS
<1>7. run[n].point \in Family(k)
  BY <1>5, <1>6
<1>8. Reachable(run[n].point, comments)
  BY <1>3
<1> QED BY <1>1, <1>4, <1>7, <1>8 DEF k

(* A character that ends the token ends it at once. *)
LEMMA TokenSettled ==
  ASSUME NEW q \in ReadPoints, NEW c \in Chars, NEW comments \in BOOLEAN, NEW utf8 \in BOOLEAN,
         NEW out, out = Settled(q, c, comments, utf8), out.tok # "none"
  PROVE  out = ScanChr(q, c, comments, utf8)
<1> DEFINE first == ScanChr(q, c, comments, utf8)
<1>1. CASE first.tok = "none" /\ first.back
  <2>1. first.to \in {"number", "block"} /\ out = ScanChr(first.to, c, comments, utf8)
    BY <1>1, ScanOutcome DEF Settled
  <2>2. /\ ScanChr("number", c, comments, utf8).tok = "none"
        /\ ScanChr("block", c, comments, utf8).tok = "none"
    BY DEF ScanChr, NumberChar, CommentChar, Go, Outcome, LiteralPoints, StringPoints, Utf8Points,
       NumberPoints
  <2> QED BY <2>1, <2>2
<1>2. CASE ~(first.tok = "none" /\ first.back)
  BY <1>2 DEF Settled
<1> QED BY <1>1, <1>2

LEMMA SwitchDelivers ==
  ASSUME NEW c \in Chars, NEW comments \in BOOLEAN
  PROVE  Dispatch(c, comments).tok \notin {"integer", "double"}
<1> USE DEF Dispatch, Outcome, Go, GoBack, Tok, Fail, FailBack
<1>1. CASE c \in Whitespace
  BY <1>1 DEF Whitespace
<1>2. CASE c \in Digits \cup {"-"}
  BY <1>2 DEF Whitespace, Digits
<1>3. CASE c = "/"
  BY <1>3 DEF Whitespace
<1>4. CASE c \notin Whitespace \cup Digits \cup {"-", "/"}
  BY <1>4
<1> QED BY <1>1, <1>2, <1>3, <1>4

(* The tokens that held text of a kind can still become; the character      *)
(* after a number is unread.                                                *)
Flagged(out, tok) == tok = out.tok \/ (out.tok = "string" /\ tok = "string_with_escapes")

Yielded(out, tok, k) ==
  tok \in Yields(k) \ {"eof"} /\ (tok \in {"integer", "double"} => out.back = TRUE)

LEMMA FamilyYields ==
  ASSUME NEW k \in HeldKinds, NEW q \in ReadPoints, q \in Family(k),
         NEW c \in Chars, NEW comments \in BOOLEAN, NEW utf8 \in BOOLEAN,
         NEW out, out = ScanChr(q, c, comments, utf8), out.tok # "none",
         NEW tok, Flagged(out, tok)
  PROVE  Yielded(out, tok, k)
<1> USE DEF Flagged, Yielded, Go, Tok, TokBack, Fail, FailBack, Outcome, LiteralPoints, StringPoints,
        Utf8Points, NumberPoints, CommentPoints, ScanChr
<1>1. tok \in Tokens \ {"eof"} /\ (tok \in {"integer", "double"} => tok = out.tok)
  <2>1. out.tok \in Tokens \cup {"none"} /\ out.tok # "eof"
    BY ScanOutcome DEF Outcomes
  <2> QED BY <2>1 DEF Tokens
<1>2. CASE q \in LiteralPoints
  <2>1. out.tok \in {"bool", "null", "error"}
    BY <1>2 DEF Literal, LiteralNext
  <2>2. k = "word" \/ k \in {"none", "comment", "slash"}
    BY <1>2, Families DEF HeldKinds, DoublePoints
  <2> QED BY <1>1, <2>1, <2>2 DEF Yields
<1>3. CASE q \in StringPoints
  <2>1. out.tok \in {"string", "error"}
    BY <1>3 DEF StringChar, Utf8Char, Utf8Lead, Utf8Next, HexNext
  <2>2. k \in {"string", "escape"} \/ k \in {"none", "comment", "slash"}
    BY <1>3, Families DEF HeldKinds, DoublePoints
  <2> QED BY <1>1, <2>1, <2>2 DEF Yields
<1>4. CASE q \in NumberPoints
  <2>1. /\ out.tok \in {"integer", "double", "error"}
        /\ q \in DoublePoints => out.tok \in {"double", "error"}
        /\ out.back = TRUE
    BY <1>4 DEF NumberChar, NumberTail, DoublePoints
  <2>2. k \in {"int", "prefix"} \/ (k = "double" /\ q \in DoublePoints) \/ k \in {"none", "comment", "slash"}
    BY <1>4, Families DEF HeldKinds
  <2> QED BY <1>1, <2>1, <2>2 DEF Yields
<1>5. CASE q \in CommentPoints \cup {"lex"}
  <2>1. k \in {"none", "comment", "slash"}
    BY <1>5, Families DEF HeldKinds, DoublePoints
  <2>2. out.tok \notin {"integer", "double"}
    <3>1. CASE q = "lex"
      <4>1. out = Dispatch(c, comments)
        BY <3>1
      <4> QED BY <4>1, SwitchDelivers
    <3>2. CASE q \in CommentPoints
      BY <3>2 DEF CommentChar, GoBack
    <3> QED BY <1>5, <3>1, <3>2
  <2> QED BY <1>1, <2>1, <2>2 DEF Yields
<1> QED BY <1>2, <1>3, <1>4, <1>5 DEF ReadPoints

(* On the blank that finishes the input. *)
LEMMA BlankInLiteral ==
  ASSUME NEW q \in LiteralPoints, NEW comments, NEW utf8
  PROVE  ScanChr(q, "space", comments, utf8) = FailBack("invalid_string")
<1>1. Want[q] # "space"
  BY DEF Want, LiteralPoints
<1>2. Literal(q, "space") = FailBack("invalid_string")
  BY <1>1 DEF Literal
<1>3. q # "lex"
  BY DEF LiteralPoints
<1> QED BY <1>2, <1>3 DEF ScanChr, LiteralPoints, StringPoints, Utf8Points, NumberPoints

EndsBlank(out, k) ==
  /\ out.tok # "string"
  /\ Call(out.tok, "none", FALSE) \in OnBlank(k)
  /\ out.back = FALSE => Call(out.tok, "none", TRUE) \in OnBlank(k)

LEMMA BlankEnds ==
  ASSUME NEW comments \in BOOLEAN, NEW utf8 \in BOOLEAN, NEW q, Reachable(q, comments),
         NEW out, out = ScanChr(q, "space", comments, utf8), out.tok # "none"
  PROVE  EndsBlank(out, KindOf(q))
<1> USE DEF EndsBlank, Go, Tok, TokBack, Fail, FailBack, Outcome, LiteralPoints, StringPoints,
        Utf8Points, NumberPoints, CommentPoints, ScanChr
<1>1. q \in ReadPoints \ {"number"}
  BY DEF Reachable
<1>2. CASE q \in LiteralPoints
  <2>1. out = FailBack("invalid_string")
    BY <1>2, BlankInLiteral
  <2>3. out.tok = "error" /\ out.back = TRUE
    BY <2>1
  <2>2. KindOf(q) = "word"
    BY <1>1, <1>2, Kinds
  <2> QED BY <2>2, <2>3 DEF OnBlank
<1>3. CASE q \in StringPoints
  <2>1. q # "str" /\ out.tok = "error"
    <3>1. q = "str" => out = Go("scan")
      BY DEF StringChar, Controls, Utf8Lead
    <3>2. q # "str" => out.tok = "error"
      BY <1>3 DEF StringChar, Utf8Char, VEC, VHC, Digits
    <3> QED BY <3>1, <3>2
  <2>2. KindOf(q) = "escape"
    BY <1>1, <1>3, <2>1, Kinds
  <2> QED BY <2>1, <2>2 DEF OnBlank
<1>4. CASE q \in {"zero", "int"}
  <2>1. out.tok = "integer" /\ out.back = TRUE
    BY <1>4 DEF NumberChar, NumberTail, Digits
  <2>2. KindOf(q) = "int"
    BY <1>1, <1>4, Kinds
  <2> QED BY <2>1, <2>2 DEF OnBlank
<1>5. CASE q \in {"frac", "expdig"}
  <2>1. out.tok = "double" /\ out.back = TRUE
    BY <1>5 DEF NumberChar, NumberTail, Digits
  <2>2. KindOf(q) = "double"
    BY <1>1, <1>5, Kinds
  <2> QED BY <2>1, <2>2 DEF OnBlank
<1>6. CASE q \in {"minus", "dot", "exp", "expsign"}
  <2>1. out.tok = "error" /\ out.back = TRUE
    BY <1>6 DEF NumberChar, Digits
  <2>2. KindOf(q) = "prefix"
    BY <1>1, <1>6, Kinds
  <2> QED BY <2>1, <2>2 DEF OnBlank
<1>7. CASE q \in CommentPoints
  <2>1. q = "slash" /\ out.tok = "error"
    BY <1>7 DEF CommentChar, GoBack
  <2>2. KindOf(q) = "slash"
    BY <1>1, <2>1, Kinds
  <2> QED BY <2>1, <2>2 DEF OnBlank
<1>8. CASE q = "lex"
  <2>1. out = Go("lex")
    BY <1>8 DEF Dispatch, Whitespace, Digits
  <2> QED BY <2>1
<1> QED BY <1>1, <1>2, <1>3, <1>4, <1>5, <1>6, <1>7, <1>8 DEF ReadPoints

LEMMA BlankMoves ==
  ASSUME NEW comments \in BOOLEAN, NEW utf8 \in BOOLEAN, NEW s \in States, NEW t,
         Reachable(s.point, comments), Moves(s, "space", t, comments, utf8)
  PROVE  KindOf(s.point) \in {"string", "comment"} /\ KindOf(t.point) = KindOf(s.point)
<1> USE DEF Go, Tok, TokBack, Fail, FailBack, Outcome, LiteralPoints, StringPoints,
        Utf8Points, NumberPoints, CommentPoints, ScanChr
<1> DEFINE q == s.point
           out == Settled(q, "space", comments, utf8)
<1>1. q \in ReadPoints \ {"number"} /\ out.tok = "none" /\ out.to # "lex" /\ t.point = PointOf(out.to)
  BY DEF Reachable, Moves, Break
<1> HIDE DEF q
<1>2. CASE q = "str"
  <2>1. out = Go("scan")
    BY <1>2 DEF Settled, StringChar, Controls, Utf8Lead
  <2>2. t.point = "str"
    BY <1>1, <2>1 DEF PointOf
  <2> QED BY <1>1, <1>2, <2>2, Kinds DEF q
<1>3. CASE q \in {"line", "block", "star"}
  <2>1. out.to \in {"line", "block"}
    BY <1>3 DEF Settled, CommentChar, GoBack
  <2>2. t.point \in {"line", "block"}
    BY <1>1, <2>1 DEF PointOf
  <2>3. KindOf(t.point) = "comment" /\ KindOf(q) = "comment"
    BY <1>3, <2>2, Kinds DEF ReadPoints
  <2> QED BY <2>3 DEF q
<1>4. CASE q \notin {"str", "line", "block", "star"}
  <2>1. q = "lex" => out.to = "lex"
    BY DEF Settled, Dispatch, Whitespace, Digits
  <2>2. q \in LiteralPoints => out.tok = "error"
    <3>1. q \in LiteralPoints => ScanChr(q, "space", comments, utf8) = FailBack("invalid_string")
      BY BlankInLiteral
    <3>2. FailBack("invalid_string").tok = "error"
      OBVIOUS
    <3> HIDE DEF FailBack, ScanChr, LiteralPoints
    <3> QED BY <3>1, <3>2 DEF Settled
  <2>3. q \in StringPoints => out.tok = "error"
    BY <1>4 DEF Settled, StringChar, Utf8Char, VEC, VHC, Digits
  <2>4. q \in NumberPoints => out.tok \in {"integer", "double", "error"}
    BY <1>1 DEF Settled, NumberChar, NumberTail, Digits
  <2>5. q = "slash" => out.tok = "error"
    BY DEF Settled, CommentChar
  <2> QED BY <1>1, <1>4, <2>1, <2>2, <2>3, <2>4, <2>5 DEF ReadPoints
<1> QED BY <1>2, <1>3, <1>4

-----------------------------------------------------------------------------
(* The calls that return: at the end of the chunk, or with a token.        *)
ReadsToken ==
  /\ pc \in ReadPoints /\ offset < Len(text)
  /\ \E out : /\ out = ScanChr(pc, Chr, allow_comments, validate_utf8)
              /\ out.tok # "none" /\ Read(out, FlaggedTok(out))

LEMMA ReadReturns ==
  ASSUME IInv, pc \in ReadPoints, offset < Len(text), pc' = "idle",
         NEW out, out = ScanChr(pc, Chr, allow_comments, validate_utf8), Read(out, FlaggedTok(out))
  PROVE  ReadsToken
<1>1. out \in Outcomes
  <2>1. Chr \in Chars /\ allow_comments \in BOOLEAN /\ validate_utf8 \in BOOLEAN
    BY ChrType DEF IInv, TypeOK
  <2> QED BY <2>1, ScanOutcome
<1>2. out.tok # "none"
  <2>1. out.to # "idle"
    BY <1>1 DEF Outcomes, Points, ReadPoints, LiteralPoints, StringPoints, Utf8Points,
       NumberPoints, CommentPoints
  <2>2. out.tok = "none" => pc' = out.to
    BY DEF FlaggedTok, Read
  <2> QED BY <2>1, <2>2
<1> QED BY <1>2 DEF ReadsToken

LEMMA WaysToReturn ==
  ASSUME IInv, Next, pc # "idle", pc' = "idle"
  PROVE  EndOfChunk \/ ReadsToken
<1>1. ASSUME NEW n, NextChunk(n) PROVE FALSE
  BY <1>1 DEF NextChunk
<1>2. ASSUME Lex \/ Finalize PROVE FALSE
  BY <1>2 DEF Lex, Finalize
<1>3. ASSUME LexSwitch PROVE ReadsToken
  <2>1. pc = "lex" /\ pc \in ReadPoints /\ offset < Len(text)
    BY <1>3 DEF LexSwitch, ReadPoints
  <2>2. Read(Dispatch(Chr, allow_comments), Dispatch(Chr, allow_comments).tok)
    BY <1>3 DEF LexSwitch
  <2>3. Dispatch(Chr, allow_comments) = ScanChr(pc, Chr, allow_comments, validate_utf8)
    BY <2>1 DEF ScanChr, LiteralPoints, StringPoints, Utf8Points, NumberPoints
  <2>4. EscHere = FALSE
    BY <2>1 DEF EscHere, StringPoints, Utf8Points
  <2>5. FlaggedTok(Dispatch(Chr, allow_comments)) = Dispatch(Chr, allow_comments).tok
    BY <2>4 DEF FlaggedTok
  <2> QED BY <2>1, <2>2, <2>3, <2>5, ReadReturns
<1>4. ASSUME LexLiteral PROVE ReadsToken
  <2>1. pc \in LiteralPoints /\ offset < Len(text) /\ Read(Literal(pc, Chr), Literal(pc, Chr).tok)
    BY <1>4 DEF LexLiteral
  <2>2. pc \in ReadPoints /\ Literal(pc, Chr) = ScanChr(pc, Chr, allow_comments, validate_utf8)
    BY <2>1 DEF ScanChr, ReadPoints, LiteralPoints, StringPoints, Utf8Points, NumberPoints
  <2>3. EscHere = FALSE
    BY <2>1 DEF EscHere, LiteralPoints, StringPoints, Utf8Points
  <2>4. FlaggedTok(Literal(pc, Chr)) = Literal(pc, Chr).tok
    BY <2>3 DEF FlaggedTok
  <2> QED BY <2>1, <2>2, <2>4, ReadReturns
<1>5. ASSUME StringScan PROVE FALSE
  BY <1>5 DEF StringScan
<1>6. ASSUME LexString PROVE ReadsToken
  <2> DEFINE out == StringChar(pc, Chr, validate_utf8)
  <2>1. /\ pc \in StringPoints /\ offset < Len(text)
        /\ Read(out, IF out.tok = "string" /\ has_escapes THEN "string_with_escapes" ELSE out.tok)
    BY <1>6 DEF LexString
  <2>2. pc \in ReadPoints /\ out = ScanChr(pc, Chr, allow_comments, validate_utf8)
    BY <2>1 DEF ScanChr, ReadPoints, LiteralPoints, StringPoints, Utf8Points, NumberPoints
  <2>3. EscHere = has_escapes
    BY <2>1 DEF EscHere, IInv, TypeOK
  <2> HIDE DEF out
  <2>4. FlaggedTok(out) = IF out.tok = "string" /\ has_escapes THEN "string_with_escapes" ELSE out.tok
    BY <2>3 DEF FlaggedTok
  <2> QED BY <2>1, <2>2, <2>4, ReadReturns
<1>7. ASSUME LexNumber PROVE ReadsToken
  <2>1. pc \in NumberPoints /\ offset < Len(text) /\ Read(NumberChar(pc, Chr), NumberChar(pc, Chr).tok)
    BY <1>7 DEF LexNumber
  <2>2. pc \in ReadPoints /\ NumberChar(pc, Chr) = ScanChr(pc, Chr, allow_comments, validate_utf8)
    BY <2>1 DEF ScanChr, ReadPoints, LiteralPoints, StringPoints, Utf8Points, NumberPoints
  <2>3. EscHere = FALSE
    BY <2>1 DEF EscHere, NumberPoints, StringPoints, Utf8Points
  <2>4. FlaggedTok(NumberChar(pc, Chr)) = NumberChar(pc, Chr).tok
    BY <2>3 DEF FlaggedTok
  <2> QED BY <2>1, <2>2, <2>4, ReadReturns
<1>8. ASSUME LexComment PROVE ReadsToken
  <2>1. /\ pc \in CommentPoints /\ offset < Len(text)
        /\ Read(CommentChar(pc, Chr), CommentChar(pc, Chr).tok)
    BY <1>8 DEF LexComment, DropComment
  <2>2. pc \in ReadPoints /\ CommentChar(pc, Chr) = ScanChr(pc, Chr, allow_comments, validate_utf8)
    BY <2>1 DEF ScanChr, ReadPoints, LiteralPoints, StringPoints, Utf8Points, NumberPoints,
       CommentPoints
  <2>3. EscHere = FALSE
    BY <2>1 DEF EscHere, CommentPoints, StringPoints, Utf8Points
  <2>4. FlaggedTok(CommentChar(pc, Chr)) = CommentChar(pc, Chr).tok
    BY <2>3 DEF FlaggedTok
  <2> QED BY <2>1, <2>2, <2>4, ReadReturns
<1> QED BY <1>1, <1>2, <1>3, <1>4, <1>5, <1>6, <1>7, <1>8 DEF Next, Step

-----------------------------------------------------------------------------
(* What a call that returns makes of the run of its token. *)

(* The input is only complete when the blank of jhn_lexer_finalize() is the *)
(* chunk.                                                                   *)
BlankIsLast == Finalized => text = <<"space">>

HeldWell ==
  \E run : /\ Retraces(run, Stream, StartNow, Length, allow_comments, validate_utf8)
           /\ Passes(run)
           /\ run[HeldLen] \in States /\ run[Length] \in States
           /\ Reachable(run[HeldLen].point, allow_comments)
           /\ Reachable(run[Length].point, allow_comments)
           /\ HeldKind = KindOf(run[HeldLen].point) /\ HeldKind \in HeldKinds
           /\ run[Length].point \in Family(HeldKind)

LEMMA TokenChars ==
  ASSUME IInv, InStream, ReplaysForMore
  PROVE  CharsAhead(Stream, StartNow, Length)
<1>1. /\ Base \in Nat /\ offset \in Nat /\ Len(text) \in Nat /\ Base + Len(text) = avail
      /\ offset <= Len(text) /\ StartNow + Length = Base + offset
      /\ StartNow \in Nat /\ Length \in Nat
  BY Positions
<1>2. Stream \in Seq(Chars) /\ avail <= Len(Stream) /\ Len(Stream) \in Nat
  BY StreamType, LenProperties DEF InStream
<1>3. ASSUME NEW i \in 1..Length PROVE Stream[StartNow + i] \in Chars
  <2>1. StartNow + i \in 1..Len(Stream)
    BY <1>1, <1>2
  <2> QED BY <1>2, <2>1, ElementOfSeq
<1> QED BY <1>3 DEF CharsAhead

LEMMA HeldFamily ==
  ASSUME RInv
  PROVE  HeldWell
<1> USE DEF RInv
<1>1. PICK run : /\ Retraces(run, Stream, StartNow, Length, allow_comments, validate_utf8)
                 /\ Passes(run)
  BY DEF Retraced
<1>2. /\ StartNow \in Nat /\ Length \in Nat /\ HeldLen \in 0..Length
      /\ allow_comments \in BOOLEAN /\ validate_utf8 \in BOOLEAN
  <2>1. StartNow \in Nat /\ Length \in Nat /\ HeldLen \in Nat /\ HeldLen <= Length
    BY Positions
  <2> QED BY <2>1 DEF IInv, TypeOK
<1>3. CharsAhead(Stream, StartNow, Length)
  BY TokenChars
<1> HIDE DEF RInv
<1>4. /\ run[HeldLen] \in States /\ run[Length] \in States
      /\ Reachable(run[HeldLen].point, allow_comments)
      /\ Reachable(run[Length].point, allow_comments)
      /\ run[Length].point \in Family(KindOf(run[HeldLen].point))
  BY <1>1, <1>2, <1>3, RunFamily, ZenonT(60)
<1>5. HeldKind = KindOf(run[HeldLen].point)
  <2>1. CASE buf_in_use
    BY <1>1, <2>1 DEF HeldKind, Passes
  <2>2. CASE ~buf_in_use
    <3>1. HeldLen = 0
      BY <2>2, EmptySeq DEF HeldLen, HeldPart
    <3>2. run[HeldLen].point = "lex"
      BY <1>1, <3>1 DEF Retraces, Break
    <3>3. KindOf("lex") = "none"
      BY Kinds DEF ReadPoints
    <3> QED BY <2>2, <3>2, <3>3 DEF HeldKind
  <2> QED BY <2>1, <2>2
<1>6. HeldKind \in HeldKinds
  BY <1>4, <1>5, OwnFamily DEF Reachable
<1> QED BY <1>1, <1>4, <1>5, <1>6 DEF HeldWell

(* The last chunk is a single blank. *)
LEMMA OnTheBlank ==
  ASSUME IInv, BlankIsLast, Finalized
  PROVE  /\ Len(text) = 1 /\ text[1] = "space"
         /\ start_off \in {0, 1} /\ offset \in {0, 1} /\ start_off <= offset
<1>1. text = <<"space">>
  BY DEF BlankIsLast
<1>2. start_off \in Nat /\ offset \in Nat /\ start_off <= offset /\ offset <= Len(text)
  BY DEF IInv, TypeOK, IndexSafe
<1>3. Len(text) = 1 /\ text[1] = "space"
  BY <1>1
<1> QED BY <1>2, <1>3

Contract ==
  Call(result'.tok, HeldKind', offset' = Len(text))
    \in Calls(HeldKind, allow_comments, start_off = Len(text), Finalized)

LEMMA EndKeepsContract == RInv /\ BlankIsLast /\ EndOfChunk => Contract
<1> SUFFICES ASSUME RInv, BlankIsLast, EndOfChunk PROVE Contract
  OBVIOUS
<1>1. PICK run : /\ Retraces(run, Stream, StartNow, Length, allow_comments, validate_utf8)
                 /\ Passes(run)
                 /\ run[HeldLen] \in States /\ run[Length] \in States
                 /\ Reachable(run[HeldLen].point, allow_comments)
                 /\ Reachable(run[Length].point, allow_comments)
                 /\ HeldKind = KindOf(run[HeldLen].point) /\ HeldKind \in HeldKinds
                 /\ run[Length].point \in Family(HeldKind)
  BY HeldFamily DEF HeldWell
<1>2. IInv /\ InStream /\ ReplaysForMore
  BY DEF RInv
<1>3. /\ pc # "idle" /\ offset = Len(text) /\ offset' = offset
      /\ buf_in_use' = TRUE /\ result'.tok = "eof"
      /\ held' = run[Length]
  <2>1. pc # "idle" /\ offset = Len(text) /\ Lexed("eof", offset, buf_off)
    BY <1>2, LenProperties DEF EndOfChunk, IInv, TypeOK, IndexSafe, ReadPoints, LiteralPoints,
       StringPoints, Utf8Points, NumberPoints, CommentPoints
  <2>2. offset' = offset /\ buf_in_use' = TRUE /\ result'.tok = "eof"
    BY <2>1 DEF Lexed, Result
  <2>3. held' = run[Length]
    BY <1>1, <1>2, BreaksOff
  <2> QED BY <2>1, <2>2, <2>3
<1> DEFINE kind == KindOf(run[Length].point)
<1>4. HeldKind' = kind
  BY <1>3 DEF HeldKind
<1>5. (offset' = Len(text)) = TRUE
  BY <1>3
<1> SUFFICES Call("eof", kind, TRUE)
               \in Calls(HeldKind, allow_comments, start_off = Len(text), Finalized)
  BY <1>3, <1>4, <1>5 DEF Contract
<1>6. /\ Length \in Nat /\ HeldLen \in Nat /\ Length = HeldLen + (offset - Began) /\ Began = start_off
      /\ offset \in Nat /\ start_off \in Nat /\ StartNow \in Nat
  <2>1. Began = start_off
    BY <1>3 DEF Began
  <2>2. start_off \in Nat
    BY <1>2 DEF IInv, TypeOK
  <2> QED BY <1>2, <2>1, <2>2, Positions
<1>7. CASE start_off = Len(text)
  <2>1. Length = HeldLen
    BY <1>3, <1>6, <1>7
  <2>2. kind = HeldKind
    BY <1>1, <2>1
  <2> QED BY <1>7, <2>2 DEF Calls
<1>8. CASE start_off # Len(text) /\ Finalized
  <2>1. Len(text) = 1 /\ text[1] = "space" /\ start_off = 0 /\ offset = 1
    BY <1>2, <1>3, <1>8, OnTheBlank
  <2>2. Length = HeldLen + 1 /\ Length \in 1..Length /\ Length - 1 = HeldLen
    BY <1>6, <2>1
  <2>3. Stream[StartNow + Length] = "space"
    <3>1. StartNow + Length = Base + offset
      BY <1>2, Positions
    <3>2. text[1] = Stream[Base + 1]
      BY <1>2, <2>1 DEF InStream
    <3> QED BY <2>1, <3>1, <3>2
  <2>4. Moves(run[HeldLen], "space", run[Length], allow_comments, validate_utf8)
    BY <1>1, <2>2, <2>3 DEF Retraces
  <2>5. allow_comments \in BOOLEAN /\ validate_utf8 \in BOOLEAN
    BY <1>2 DEF IInv, TypeOK
  <2>6. HeldKind \in {"string", "comment"} /\ kind = HeldKind
    BY <1>1, <2>4, <2>5, BlankMoves
  <2>7. Call("eof", kind, TRUE) \in OnBlank(HeldKind)
    BY <2>6 DEF OnBlank
  <2> QED BY <1>8, <2>7 DEF Calls
<1>9. CASE start_off # Len(text) /\ ~Finalized
  <2>1. kind \in Holds(HeldKind, allow_comments)
    <3>1. allow_comments \in BOOLEAN
      BY <1>2 DEF IInv, TypeOK
    <3> QED BY <1>1, <3>1, FamilyHolds
  <2>2. Call("eof", kind, TRUE) \in OnChunk(HeldKind, allow_comments)
    BY <2>1 DEF OnChunk
  <2> QED BY <1>9, <2>2 DEF Calls
<1> QED BY <1>7, <1>8, <1>9

LEMMA TokenKeepsContract == RInv /\ BlankIsLast /\ ReadsToken => Contract
<1> SUFFICES ASSUME RInv, BlankIsLast, ReadsToken PROVE Contract
  OBVIOUS
<1>1. PICK run : /\ Retraces(run, Stream, StartNow, Length, allow_comments, validate_utf8)
                 /\ Passes(run)
                 /\ run[HeldLen] \in States /\ run[Length] \in States
                 /\ Reachable(run[HeldLen].point, allow_comments)
                 /\ Reachable(run[Length].point, allow_comments)
                 /\ HeldKind = KindOf(run[HeldLen].point) /\ HeldKind \in HeldKinds
                 /\ run[Length].point \in Family(HeldKind)
  BY HeldFamily DEF HeldWell
<1>2. IInv /\ InStream /\ ReplaysForMore
  BY DEF RInv
<1>3. pc \in ReadPoints /\ offset < Len(text) /\ pc # "idle"
  BY DEF ReadsToken, ReadPoints, LiteralPoints, StringPoints, Utf8Points, NumberPoints, CommentPoints
<1>4. PICK out : /\ out = ScanChr(pc, Chr, allow_comments, validate_utf8)
                 /\ out.tok # "none" /\ Read(out, FlaggedTok(out))
  BY DEF ReadsToken
<1>5. Chr \in Chars /\ allow_comments \in BOOLEAN /\ validate_utf8 \in BOOLEAN /\ EscHere \in BOOLEAN
  BY <1>2, <1>3, ChrInStream DEF IInv, TypeOK, EscHere
<1>6. out.back \in BOOLEAN /\ out.tok # "eof"
  BY <1>3, <1>4, <1>5, ScanOutcome DEF Outcomes
<1>7. ~Replaying
  BY <1>1, <1>2, <1>3, <1>4, ReadFromRun
<1>8. /\ Here = Length /\ Began = start_off /\ Length = HeldLen + (offset - Began)
      /\ offset \in Nat /\ start_off \in Nat /\ start_off <= offset /\ Len(text) \in Nat /\ HeldLen \in Nat
  <2>1. Began = start_off
    BY <1>3 DEF Began
  <2>2. start_off \in Nat /\ start_off <= offset
    BY <1>2 DEF IInv, TypeOK, IndexSafe
  <2> QED BY <1>2, <1>7, <2>1, <2>2, Positions
<1> DEFINE s == run[Length]
           tok == FlaggedTok(out)
<1>9. s.point \in ReadPoints /\ out = ScanChr(s.point, Chr, allow_comments, validate_utf8)
  <2>1. Stands(s, pc, EscHere, Chr)
    BY <1>1, <1>3, <1>8 DEF Passes
  <2>2. Settled(s.point, Chr, allow_comments, validate_utf8)
          = Settled(pc, Chr, allow_comments, validate_utf8)
    BY <1>1, <1>3, <1>5, <2>1, StandsCases
  <2>3. Settled(pc, Chr, allow_comments, validate_utf8) = out
    BY <1>4 DEF Settled
  <2>4. s.point \in ReadPoints
    BY <1>1 DEF States
  <2> QED BY <1>4, <1>5, <2>2, <2>3, <2>4, TokenSettled
<1>10. Flagged(out, tok)
  BY DEF Flagged, FlaggedTok
<1> HIDE DEF s, tok
<1>11. tok \notin {"none", "eof"}
  BY <1>4, <1>6, <1>10 DEF Flagged
<1>12. /\ offset' = (IF out.back THEN offset ELSE offset + 1)
       /\ result'.tok = tok /\ HeldKind' = "none"
  <2>1. Lexed(tok, NewOff(out.back), NewBufOff(out.back))
    BY <1>4, <1>11 DEF Read, tok
  <2>2. NewOff(out.back) = IF out.back THEN offset ELSE offset + 1
    BY <1>2, <1>3, <1>6, <1>7, ReadIndices
  <2>3. offset' = NewOff(out.back) /\ result'.tok = tok
    BY <2>1 DEF Lexed, Result
  <2>4. ~buf_in_use'
    BY <1>11, <2>1 DEF Lexed
  <2> QED BY <2>2, <2>3, <2>4 DEF HeldKind
<1> DEFINE calls == Calls(HeldKind, allow_comments, start_off = Len(text), Finalized)
<1>13. Call(tok, "none", FALSE) \in calls /\ (out.back = FALSE => Call(tok, "none", TRUE) \in calls)
  <2>1. start_off # Len(text)
    BY <1>3, <1>8
  <2>2. CASE Finalized
    <3>1. start_off = 0 /\ offset = 0 /\ text[1] = "space"
      <4>1. Len(text) = 1 /\ text[1] = "space" /\ start_off \in {0, 1} /\ offset \in {0, 1}
        BY <1>2, <2>2, OnTheBlank
      <4> QED BY <1>3, <1>8, <4>1
    <3>2. Length = HeldLen /\ Chr = "space"
      BY <1>7, <1>8, <3>1 DEF Chr
    <3>3. /\ out.tok # "string"
          /\ Call(out.tok, "none", FALSE) \in OnBlank(HeldKind)
          /\ out.back = FALSE => Call(out.tok, "none", TRUE) \in OnBlank(HeldKind)
      <4>1. Reachable(s.point, allow_comments) /\ HeldKind = KindOf(s.point)
        BY <1>1, <3>2 DEF s
      <4>2. out = ScanChr(s.point, "space", allow_comments, validate_utf8)
        BY <1>9, <3>2
      <4> HIDE DEF calls
      <4>3. EndsBlank(out, KindOf(s.point))
        BY <1>4, <1>5, <4>1, <4>2, BlankEnds, ZenonT(60)
      <4> QED BY <4>1, <4>3 DEF EndsBlank
    <3>4. tok = out.tok
      BY <1>10, <3>3 DEF Flagged
    <3> QED BY <2>1, <2>2, <3>3, <3>4 DEF Calls
  <2>3. CASE ~Finalized
    <3>1. tok \in Yields(HeldKind) \ {"eof"} /\ (tok \in {"integer", "double"} => out.back = TRUE)
      <4>1. s.point \in Family(HeldKind)
        BY <1>1 DEF s
      <4>2. HeldKind \in HeldKinds
        BY <1>1
      <4> HIDE DEF calls
      <4>3. Yielded(out, tok, HeldKind)
        BY <1>4, <1>5, <1>9, <1>10, <4>1, <4>2, FamilyYields, ZenonT(60)
      <4> QED BY <4>3 DEF Yielded
    <3>2. /\ Call(tok, "none", FALSE) \in OnChunk(HeldKind, allow_comments)
          /\ out.back = FALSE => Call(tok, "none", TRUE) \in OnChunk(HeldKind, allow_comments)
      BY <3>1 DEF OnChunk
    <3> QED BY <2>1, <2>3, <3>2 DEF Calls
  <2> QED BY <2>2, <2>3
<1>14. (offset' = Len(text)) = TRUE \/ (offset' = Len(text)) = FALSE
  OBVIOUS
<1>15. (offset' = Len(text)) = TRUE => out.back = FALSE
  <2>1. out.back = TRUE => offset' # Len(text)
    BY <1>3, <1>8, <1>12
  <2> QED BY <1>6, <2>1
<1>16. Call(tok, "none", offset' = Len(text)) \in calls
  BY <1>13, <1>14, <1>15
<1> QED BY <1>12, <1>16 DEF Contract

(* No chunk follows the blank. *)
LEMMA BlankStaysLast == IInv /\ BlankIsLast /\ [Next]_vars => BlankIsLast'
<1> SUFFICES ASSUME IInv, BlankIsLast, [Next]_vars, Finalized' PROVE text' = <<"space">>
  BY DEF BlankIsLast
<1>1. Stream' = Stream /\ Len(Stream) = Len(input) + 1 /\ Len(input) \in Nat /\ avail \in Nat
  <2>1. input' = input
    BY DEF Next, NextChunk, Lex, Finalize, Step, EndOfChunk, LexSwitch, LexLiteral, StringScan,
       LexString, LexNumber, LexComment, Read, vars, client
  <2> QED BY <2>1, StreamType DEF Stream, IInv, TypeOK
<1>2. ASSUME NEW n \in Nat, NextChunk(n) PROVE FALSE
  <2>1. avail' = avail + n /\ avail + n <= Len(input)
    BY <1>2 DEF NextChunk
  <2> QED BY <1>1, <2>1 DEF Finalized
<1>3. CASE Finalize
  BY <1>3 DEF Finalize
<1>4. CASE Lex \/ Step \/ UNCHANGED vars
  <2>1. UNCHANGED <<input, avail, text>>
    BY <1>4 DEF Lex, Step, EndOfChunk, LexSwitch, LexLiteral, StringScan, LexString, LexNumber,
       LexComment, Read, vars, client
  <2> QED BY <1>1, <2>1 DEF BlankIsLast, Finalized
<1> QED BY <1>2, <1>3, <1>4 DEF Next

(* Every return of jhn_lexer_lex() is one the parser expects (TokenSource): *)
(* the contract on which module Parser rests.                               *)
THEOREM ContractIsKept == Spec => KeepsContract
<1>1. Init => RInv /\ BlankIsLast
  <2> SUFFICES ASSUME Init PROVE RInv /\ BlankIsLast
    OBVIOUS
  <2>1. RInv
    BY InitRefines
  <2>2. ~Finalized
    <3>1. Len(Stream) = Len(input) + 1 /\ Len(input) \in Nat
      BY <2>1, StreamType DEF RInv
    <3> QED BY <3>1 DEF Init, Finalized
  <2> QED BY <2>1, <2>2 DEF BlankIsLast
<1>2. RInv /\ BlankIsLast /\ [Next]_vars => (RInv /\ BlankIsLast)'
  BY NextRefines, BlankStaysLast DEF RInv
<1>3. RInv /\ BlankIsLast /\ [Next]_vars => [pc # "idle" /\ pc' = "idle" => Contract]_vars
  <2> SUFFICES ASSUME RInv, BlankIsLast, Next, pc # "idle", pc' = "idle" PROVE Contract
    OBVIOUS
  <2>1. EndOfChunk \/ ReadsToken
    BY WaysToReturn DEF RInv
  <2> QED BY <2>1, EndKeepsContract, TokenKeepsContract
<1> QED BY <1>1, <1>2, <1>3, PTL DEF Spec, KeepsContract, Contract

-----------------------------------------------------------------------------
(* jhn_lexer_peek().  First, what the steps of a call do that reads no     *)
(* comment.                                                                *)

LEMMA NoComment ==
  ASSUME RInv, ~allow_comments
  PROVE  pc \notin CommentPoints
<1> SUFFICES ASSUME pc \in CommentPoints PROVE FALSE
  OBVIOUS
<1> USE DEF RInv
<1>1. PICK run : /\ Retraces(run, Stream, StartNow, Length, allow_comments, validate_utf8)
                 /\ Passes(run)
  BY DEF Retraced
<1>2. Stands(run[Here], pc, EscHere, Chr) /\ pc # "number" /\ PointOf(pc) = pc
  BY <1>1 DEF Passes, CommentPoints, PointOf
<1>3. run[Here].point \in CommentPoints
  BY <1>2 DEF Stands, Break, CommentPoints
<1>4. CharsAhead(Stream, StartNow, Length)
  BY TokenChars
<1>5. /\ StartNow \in Nat /\ Length \in Nat /\ Here \in 0..Length
      /\ allow_comments \in BOOLEAN /\ validate_utf8 \in BOOLEAN
  BY Positions DEF IInv, TypeOK
<1> HIDE DEF RInv
<1>6. Reachable(run[Here].point, allow_comments)
  BY <1>1, <1>4, <1>5, RunFamily, ZenonT(60)
<1> QED BY <1>3, <1>6 DEF Reachable

(* White space before the token. *)
SkipsBlank ==
  /\ pc = "lex" /\ offset < Len(text) /\ ~Replaying /\ HeldLen = 0
  /\ Chr \in Whitespace /\ start_off' = start_off + 1

GoesOn ==
  /\ pc # "idle" /\ pc' # "idle" /\ UNCHANGED <<buf, buf_in_use>>
  /\ start_off' = start_off \/ SkipsBlank

LEMMA ReadGoesOn ==
  ASSUME IInv, pc \in ReadPoints, offset < Len(text),
         NEW out, out = ScanChr(pc, Chr, allow_comments, validate_utf8), Read(out, FlaggedTok(out))
  PROVE  ReadsToken \/ GoesOn
<1>1. CASE out.tok # "none"
  BY <1>1 DEF ReadsToken
<1>2. CASE out.tok = "none"
  <2>1. Chr \in Chars /\ allow_comments \in BOOLEAN /\ validate_utf8 \in BOOLEAN
    BY ChrType DEF IInv, TypeOK
  <2>2. out \in Outcomes
    BY <2>1, ScanOutcome
  <2>3. out.to # "idle" /\ pc # "idle"
    BY <2>2 DEF Outcomes, Points, ReadPoints, LiteralPoints, StringPoints, Utf8Points,
       NumberPoints, CommentPoints
  <2>4. FlaggedTok(out) = "none"
    BY <1>2 DEF FlaggedTok
  <2>5. pc' = out.to /\ UNCHANGED <<buf, buf_in_use, start_off>>
    BY <2>4 DEF Read
  <2> QED BY <2>3, <2>5 DEF GoesOn
<1> QED BY <1>1, <1>2

LEMMA WaysToGoOn ==
  ASSUME RInv, ~allow_comments, Step
  PROVE  EndOfChunk \/ ReadsToken \/ GoesOn
<1> USE DEF RInv
<1>1. ASSUME LexSwitch PROVE ReadsToken \/ GoesOn
  <2>1. pc = "lex" /\ pc \in ReadPoints /\ offset < Len(text)
    BY <1>1 DEF LexSwitch, ReadPoints
  <2>2. CASE Chr \in Whitespace
    <3>1. /\ start_off' = start_off + 1 /\ pc' = pc /\ UNCHANGED <<buf, buf_in_use>>
      BY <1>1, <2>2 DEF LexSwitch
    <3>2. buf_in_use => buf_off = 0
      BY <2>1 DEF IInv, TokenStart
    <3>3. ~Replaying
      <4> SUFFICES ASSUME Replaying PROVE FALSE
        OBVIOUS
      <4>1. buf_off = 0 /\ buf # <<>> /\ Chr = Head(buf)
        BY <3>2 DEF Replaying, Chr, IInv, TypeOK
      <4> QED BY <2>2, <4>1 DEF Replaying, IInv, TokenStart
    <3>4. HeldLen = 0
      BY <3>2, <3>3, EmptySeq, LenProperties DEF Replaying, HeldLen, HeldPart, IInv, TypeOK
    <3> QED BY <2>1, <2>2, <3>1, <3>3, <3>4 DEF GoesOn, SkipsBlank
  <2>3. CASE Chr \notin Whitespace
    <3>1. Read(Dispatch(Chr, allow_comments), Dispatch(Chr, allow_comments).tok)
      BY <1>1, <2>3 DEF LexSwitch
    <3>2. Dispatch(Chr, allow_comments) = ScanChr(pc, Chr, allow_comments, validate_utf8)
      BY <2>1 DEF ScanChr, LiteralPoints, StringPoints, Utf8Points, NumberPoints
    <3>3. EscHere = FALSE
      BY <2>1 DEF EscHere, StringPoints, Utf8Points
    <3>4. FlaggedTok(Dispatch(Chr, allow_comments)) = Dispatch(Chr, allow_comments).tok
      BY <3>3 DEF FlaggedTok
    <3> QED BY <2>1, <3>1, <3>2, <3>4, ReadGoesOn
  <2> QED BY <2>2, <2>3
<1>2. ASSUME LexLiteral PROVE ReadsToken \/ GoesOn
  <2>1. pc \in LiteralPoints /\ offset < Len(text) /\ Read(Literal(pc, Chr), Literal(pc, Chr).tok)
    BY <1>2 DEF LexLiteral
  <2>2. pc \in ReadPoints /\ Literal(pc, Chr) = ScanChr(pc, Chr, allow_comments, validate_utf8)
    BY <2>1 DEF ScanChr, ReadPoints, LiteralPoints, StringPoints, Utf8Points, NumberPoints
  <2>3. EscHere = FALSE
    BY <2>1 DEF EscHere, LiteralPoints, StringPoints, Utf8Points
  <2>4. FlaggedTok(Literal(pc, Chr)) = Literal(pc, Chr).tok
    BY <2>3 DEF FlaggedTok
  <2> QED BY <2>1, <2>2, <2>4, ReadGoesOn
<1>3. ASSUME StringScan PROVE GoesOn
  BY <1>3 DEF StringScan, GoesOn
<1>4. ASSUME LexString PROVE ReadsToken \/ GoesOn
  <2> DEFINE out == StringChar(pc, Chr, validate_utf8)
  <2>1. /\ pc \in StringPoints /\ offset < Len(text)
        /\ Read(out, IF out.tok = "string" /\ has_escapes THEN "string_with_escapes" ELSE out.tok)
    BY <1>4 DEF LexString
  <2>2. pc \in ReadPoints /\ out = ScanChr(pc, Chr, allow_comments, validate_utf8)
    BY <2>1 DEF ScanChr, ReadPoints, LiteralPoints, StringPoints, Utf8Points, NumberPoints
  <2>3. EscHere = has_escapes
    BY <2>1 DEF EscHere, IInv, TypeOK
  <2> HIDE DEF out
  <2>4. FlaggedTok(out) = IF out.tok = "string" /\ has_escapes THEN "string_with_escapes" ELSE out.tok
    BY <2>3 DEF FlaggedTok
  <2> QED BY <2>1, <2>2, <2>4, ReadGoesOn
<1>5. ASSUME LexNumber PROVE ReadsToken \/ GoesOn
  <2>1. pc \in NumberPoints /\ offset < Len(text) /\ Read(NumberChar(pc, Chr), NumberChar(pc, Chr).tok)
    BY <1>5 DEF LexNumber
  <2>2. pc \in ReadPoints /\ NumberChar(pc, Chr) = ScanChr(pc, Chr, allow_comments, validate_utf8)
    BY <2>1 DEF ScanChr, ReadPoints, LiteralPoints, StringPoints, Utf8Points, NumberPoints
  <2>3. EscHere = FALSE
    BY <2>1 DEF EscHere, NumberPoints, StringPoints, Utf8Points
  <2>4. FlaggedTok(NumberChar(pc, Chr)) = NumberChar(pc, Chr).tok
    BY <2>3 DEF FlaggedTok
  <2> QED BY <2>1, <2>2, <2>4, ReadGoesOn
<1>6. ~LexComment
  BY NoComment DEF LexComment
<1> QED BY <1>1, <1>2, <1>3, <1>4, <1>5, <1>6 DEF Step

LEMMA StepLeaves == Step => pc # "idle" /\ UNCHANGED <<client, config>>
<1>1. "idle" \notin Points
  BY DEF Points, ReadPoints, LiteralPoints, StringPoints, Utf8Points, NumberPoints, CommentPoints
<1>2. \A p \in {"scan"} \cup ReadPoints : p # "idle"
  BY <1>1 DEF Points
<1>3. LiteralPoints \cup StringPoints \cup NumberPoints \cup CommentPoints \cup {"lex"} = ReadPoints
  BY DEF ReadPoints
<1>4. EndOfChunk => pc # "idle" /\ UNCHANGED <<client, config>>
  BY <1>2 DEF EndOfChunk
<1>5. LexSwitch => pc # "idle" /\ UNCHANGED <<client, config>>
  BY DEF LexSwitch, Read
<1>6. LexLiteral => pc # "idle" /\ UNCHANGED <<client, config>>
  BY <1>2, <1>3 DEF LexLiteral, Read
<1>7. StringScan => pc # "idle" /\ UNCHANGED <<client, config>>
  BY DEF StringScan
<1>8. LexString => pc # "idle" /\ UNCHANGED <<client, config>>
  BY <1>2, <1>3 DEF LexString, Read
<1>9. LexNumber => pc # "idle" /\ UNCHANGED <<client, config>>
  BY <1>2, <1>3 DEF LexNumber, Read
<1>10. LexComment => pc # "idle" /\ UNCHANGED <<client, config>>
  BY <1>2, <1>3 DEF LexComment, Read
<1> QED BY <1>4, <1>5, <1>6, <1>7, <1>8, <1>9, <1>10 DEF Step

(* A call that returns appends to what is held. *)
LEMMA ReturnAppends ==
  ASSUME RInv, EndOfChunk \/ ReadsToken, buf_in_use
  PROVE  pc' = "idle" /\ \E part \in Seq(Chars) : buf' = buf \o part
<1> USE DEF RInv
<1>1. PICK tok, off, boff : /\ tok # "none" /\ off \in offset..Len(text) /\ Lexed(tok, off, boff)
  <2>1. CASE EndOfChunk
    <3>1. offset \in offset..Len(text)
      BY LenProperties DEF IInv, TypeOK, IndexSafe
    <3> QED BY <2>1, <3>1 DEF EndOfChunk
  <2>2. CASE ReadsToken
    <3>1. PICK out : /\ out = ScanChr(pc, Chr, allow_comments, validate_utf8)
                     /\ out.tok # "none" /\ Read(out, FlaggedTok(out))
      BY <2>2 DEF ReadsToken
    <3>2. pc \in ReadPoints /\ offset < Len(text)
      BY <2>2 DEF ReadsToken
    <3>3. Chr \in Chars /\ allow_comments \in BOOLEAN /\ validate_utf8 \in BOOLEAN
      BY <3>2, ChrType DEF IInv, TypeOK
    <3>4. out \in Outcomes
      BY <3>1, <3>2, <3>3, ScanOutcome
    <3>5. out.back \in BOOLEAN
      BY <3>4 DEF Outcomes
    <3>6. NewOff(out.back) \in offset..Len(text)
      BY <3>2, <3>5, ReadIndices
    <3>7. FlaggedTok(out) # "none"
      BY <3>1 DEF FlaggedTok
    <3>8. Lexed(FlaggedTok(out), NewOff(out.back), NewBufOff(out.back))
      BY <3>1, <3>7 DEF Read
    <3> QED BY <3>6, <3>7, <3>8
  <2> QED BY <2>1, <2>2
<1>2. pc' = "idle" /\ buf' = buf \o SubSeq(text, start_off + 1, off)
  BY <1>1 DEF Lexed, HeldPart
<1>3. SubSeq(text, start_off + 1, off) \in Seq(Chars)
  <2>1. text \in Seq(Chars) /\ start_off \in Nat /\ off \in Nat /\ off <= Len(text) /\ Len(text) \in Nat
    BY <1>1, LenProperties DEF IInv, TypeOK
  <2>2. \A i \in (start_off + 1)..off : text[i] \in Chars
    BY <2>1, ElementOfSeq
  <2> QED BY <2>1, <2>2, SubSeqProperties
<1> QED BY <1>2, <1>3

-----------------------------------------------------------------------------
(* A call from its beginning to its return.  What it will keep its promise  *)
(* for is fixed when it begins: the kind k of text held, and whether the    *)
(* chunk is used up (end).  White space and a comment that are skipped on   *)
(* the way leave nothing held, in a chunk that was not used up.             *)
StartedOn(k, end) ==
  \/ HeldKind = k /\ (end <=> start_off = Len(text))
  \/ /\ HeldKind = "none" /\ ~end /\ k \in {"none", "comment", "slash"}
     /\ Finalized => k = "none"

LEMMA CallStarts ==
  ASSUME IInv, Lex
  PROVE  StartedOn(HeldKind, offset = Len(text))'
<1>1. start_off' = offset' /\ text' = text
  <2>1. start_off' = offset /\ UNCHANGED <<offset, client>>
    BY DEF Lex
  <2> QED BY <2>1 DEF client
<1> QED BY <1>1 DEF StartedOn

(* White space is only skipped when nothing is held. *)
LEMMA SpaceHoldsNothing ==
  ASSUME RInv, pc = "lex", offset < Len(text), Chr \in Whitespace
  PROVE  HeldKind = "none"
<1> USE DEF RInv
<1>1. buf_in_use => buf_off = 0
  BY DEF IInv, TokenStart
<1>2. ~Replaying
  <2> SUFFICES ASSUME Replaying PROVE FALSE
    OBVIOUS
  <2>1. buf_off = 0 /\ buf # <<>> /\ Chr = Head(buf)
    BY <1>1 DEF Replaying, Chr, IInv, TypeOK
  <2> QED BY <2>1 DEF Replaying, IInv, TokenStart
<1>3. HeldLen = 0
  BY <1>1, <1>2, EmptySeq, LenProperties DEF Replaying, HeldLen, HeldPart, IInv, TypeOK
<1> HIDE DEF RInv
<1>4. PICK run : /\ Retraces(run, Stream, StartNow, Length, allow_comments, validate_utf8)
                 /\ HeldKind = KindOf(run[HeldLen].point)
  BY HeldFamily DEF HeldWell
<1>5. run[HeldLen].point = "lex"
  BY <1>3, <1>4 DEF Retraces, Break
<1>6. KindOf("lex") = "none"
  BY Kinds DEF ReadPoints
<1> QED BY <1>4, <1>5, <1>6

EndsComment ==
  /\ pc \in CommentPoints /\ offset < Len(text)
  /\ CommentChar(pc, Chr).to = "lex" /\ CommentChar(pc, Chr).tok = "none"

(* A comment that ends was not ended by the blank, and what was held when   *)
(* the call began was part of it or nothing.                                *)
LEMMA CommentHeld ==
  ASSUME RInv, BlankIsLast, EndsComment
  PROVE  ~Finalized /\ HeldKind \in {"none", "comment", "slash"}
<1>1. IInv /\ InStream /\ ReplaysForMore
  BY DEF RInv
<1>2. pc \in CommentPoints /\ offset < Len(text)
  BY DEF EndsComment
<1>3. pc \in ReadPoints /\ pc # "number" /\ pc # "idle" /\ PointOf(pc) = pc
  BY <1>2 DEF ReadPoints, CommentPoints, PointOf
<1> DEFINE out == ScanChr(pc, Chr, allow_comments, validate_utf8)
<1>4. out.tok = "none" /\ out.to = "lex" /\ CommentChar(pc, Chr).to = "lex"
  <2>1. out = CommentChar(pc, Chr)
    BY <1>2 DEF ScanChr, CommentPoints, LiteralPoints, StringPoints, Utf8Points, NumberPoints
  <2> QED BY <2>1 DEF EndsComment
<1> HIDE DEF out
<1>5. PICK run : /\ Retraces(run, Stream, StartNow, Length, allow_comments, validate_utf8)
                 /\ Passes(run)
                 /\ HeldKind = KindOf(run[HeldLen].point) /\ HeldKind \in HeldKinds
                 /\ run[Length].point \in Family(HeldKind)
  BY HeldFamily DEF HeldWell
<1>6. ~Replaying
  BY <1>1, <1>2, <1>3, <1>4, <1>5, ReadFromRun DEF out
<1>7. HeldKind \in {"none", "comment", "slash"}
  <2>1. Here = Length
    BY <1>1, <1>6, Positions
  <2>2. Stands(run[Length], pc, EscHere, Chr)
    BY <1>3, <1>5, <2>1 DEF Passes
  <2>3. run[Length].point \in CommentPoints
    BY <1>2, <1>3, <2>2 DEF Stands, Break, CommentPoints
  <2> QED BY <1>5, <2>3, Families
          DEF HeldKinds, DoublePoints, NumberPoints, LiteralPoints, StringPoints, Utf8Points,
              CommentPoints
<1>8. ~Finalized
  <2> SUFFICES ASSUME Finalized PROVE FALSE
    OBVIOUS
  <2>1. Len(text) = 1 /\ text[1] = "space" /\ offset = 0
    <3>1. Len(text) = 1 /\ text[1] = "space" /\ offset \in {0, 1}
      BY <1>1, OnTheBlank
    <3> QED BY <1>2, <3>1
  <2>2. Chr = "space"
    BY <1>6, <2>1 DEF Chr
  <2>3. CommentChar(pc, "space").to = "lex" /\ CommentChar(pc, "space").tok = "none"
    BY <2>2 DEF EndsComment
  <2>4. CommentChar(pc, "space") \in {Fail("invalid_char"), Go("line"), Go("block"), GoBack("block")}
    BY <1>2 DEF CommentChar, CommentPoints
  <2> QED BY <2>3, <2>4 DEF Go, GoBack, Fail, Outcome
<1> QED BY <1>7, <1>8

(* What a step that does not return does to the text held. *)
LEMMA StepWithin ==
  ASSUME IInv, Step, pc' # "idle"
  PROVE  \/ UNCHANGED <<buf_in_use, held, start_off, client>>
         \/ /\ pc = "lex" /\ offset < Len(text) /\ Chr \in Whitespace
            /\ UNCHANGED <<buf_in_use, held, client>>
         \/ EndsComment /\ ~buf_in_use' /\ UNCHANGED client
<1>1. ASSUME NEW out, NEW tok, Read(out, tok)
      PROVE  UNCHANGED <<buf_in_use, held, start_off, client>>
  BY <1>1 DEF Read, Lexed
<1>2. ~EndOfChunk
  BY DEF EndOfChunk, Lexed
<1>3. CASE LexSwitch
  <2>1. CASE Chr \in Whitespace
    BY <1>3, <2>1 DEF LexSwitch
  <2>2. CASE Chr \notin Whitespace
    BY <1>1, <1>3, <2>2 DEF LexSwitch
  <2> QED BY <2>1, <2>2
<1>4. CASE LexLiteral
  BY <1>1, <1>4 DEF LexLiteral
<1>5. CASE StringScan
  BY <1>5 DEF StringScan
<1>6. CASE LexString
  BY <1>1, <1>6 DEF LexString
<1>7. CASE LexNumber
  BY <1>1, <1>7 DEF LexNumber
<1>8. CASE LexComment
  <2>1. CASE CommentChar(pc, Chr).to = "lex" /\ CommentChar(pc, Chr).tok = "none"
    BY <1>8, <2>1 DEF LexComment, DropComment, EndsComment
  <2>2. CASE ~(CommentChar(pc, Chr).to = "lex" /\ CommentChar(pc, Chr).tok = "none")
    BY <1>1, <1>8, <2>2 DEF LexComment
  <2> QED BY <2>1, <2>2
<1> QED BY <1>2, <1>3, <1>4, <1>5, <1>6, <1>7, <1>8 DEF Step

LEMMA StaysStarted ==
  ASSUME RInv, BlankIsLast, Step, pc' # "idle", NEW k, NEW end \in BOOLEAN, StartedOn(k, end)
  PROVE  StartedOn(k, end)'
<1>1. IInv /\ UNCHANGED text /\ (Finalized' <=> Finalized)
  BY StepLeaves DEF RInv, client, Finalized, Stream
<1>2. offset < Len(text) /\ start_off <= offset /\ offset \in Nat /\ start_off \in Nat /\ Len(text) \in Nat
        => start_off # Len(text)
  OBVIOUS
<1>3. start_off <= offset /\ offset \in Nat /\ start_off \in Nat /\ Len(text) \in Nat
  BY <1>1, LenProperties DEF IInv, TypeOK, IndexSafe
<1>4. CASE UNCHANGED <<buf_in_use, held, start_off, client>>
  <2>1. HeldKind' = HeldKind /\ start_off' = start_off
    BY <1>4 DEF HeldKind
  <2> QED BY <1>1, <2>1 DEF StartedOn
<1>5. CASE pc = "lex" /\ offset < Len(text) /\ Chr \in Whitespace /\ UNCHANGED <<buf_in_use, held, client>>
  <2>1. HeldKind = "none" /\ HeldKind' = HeldKind
    BY <1>5, SpaceHoldsNothing DEF HeldKind
  <2> QED BY <1>1, <1>2, <1>3, <1>5, <2>1 DEF StartedOn
<1>6. CASE EndsComment /\ ~buf_in_use' /\ UNCHANGED client
  <2>1. HeldKind' = "none"
    BY <1>6 DEF HeldKind
  <2>2. ~Finalized /\ HeldKind \in {"none", "comment", "slash"}
    BY <1>6, CommentHeld
  <2>3. start_off # Len(text)
    BY <1>2, <1>3, <1>6 DEF EndsComment
  <2> QED BY <1>1, <2>1, <2>2, <2>3 DEF StartedOn
<1> QED BY <1>1, <1>4, <1>5, <1>6, StepWithin

(* With nothing held a call does nothing it might not do with (part of) a   *)
(* comment held.                                                            *)
LEMMA CallsWiden ==
  ASSUME NEW k \in {"none", "comment", "slash"}, NEW comments \in BOOLEAN, NEW end \in BOOLEAN,
         NEW blank \in BOOLEAN, blank => k = "none",
         NEW call \in Calls("none", comments, end, blank)
  PROVE  call \in Calls(k, comments, FALSE, blank)
<1>1. Yields(k) = Yields("none") /\ Holds(k, comments) = Holds("none", comments)
      /\ "none" \in Holds("none", comments)
  BY DEF Yields, Holds, HeldKinds, CommentKinds
<1>2. OnChunk(k, comments) = OnChunk("none", comments)
  BY <1>1 DEF OnChunk
<1>3. CASE end
  <2>1. call = Call("eof", "none", TRUE)
    BY <1>3 DEF Calls
  <2>2. CASE blank
    BY <2>1, <2>2 DEF Calls, OnBlank
  <2>3. CASE ~blank
    <3>1. call \in OnChunk("none", comments)
      BY <1>1, <2>1 DEF OnChunk
    <3> QED BY <1>2, <2>3, <3>1 DEF Calls
  <2> QED BY <2>2, <2>3
<1>4. CASE ~end
  BY <1>2, <1>4 DEF Calls
<1> QED BY <1>3, <1>4

(* Whatever it skipped on the way, a call returns what one that starts on   *)
(* the text held at its beginning may return.                               *)
LEMMA CallReturnsListed ==
  ASSUME RInv, BlankIsLast, Step, pc' = "idle", NEW k, NEW end \in BOOLEAN, StartedOn(k, end)
  PROVE  Call(result'.tok, HeldKind', offset' = Len(text)) \in Calls(k, allow_comments, end, Finalized)
<1> DEFINE call == Call(result'.tok, HeldKind', offset' = Len(text))
<1>1. call \in Calls(HeldKind, allow_comments, start_off = Len(text), Finalized)
  <2>1. EndOfChunk \/ ReadsToken
    <3>1. pc # "idle"
      BY StepLeaves
    <3> QED BY <3>1, WaysToReturn DEF RInv, Next
  <2>2. Contract
    BY <2>1, EndKeepsContract, TokenKeepsContract
  <2> QED BY <2>2 DEF Contract
<1>2. allow_comments \in BOOLEAN
  BY DEF RInv, IInv, TypeOK
<1> HIDE DEF call
<1>3. CASE HeldKind = k /\ (end <=> start_off = Len(text))
  <2>1. end = (start_off = Len(text))
    BY <1>3
  <2> QED BY <1>1, <1>3, <2>1 DEF call
<1>4. CASE HeldKind = "none" /\ ~end /\ k \in {"none", "comment", "slash"} /\ (Finalized => k = "none")
  <2> DEFINE used == start_off = Len(text)
             blank == Finalized
  <2>1. used \in BOOLEAN /\ blank \in BOOLEAN /\ end = FALSE
    BY <1>4 DEF Finalized
  <2>2. call \in Calls("none", allow_comments, used, blank) /\ (blank => k = "none")
    BY <1>1, <1>4
  <2> HIDE DEF used, blank
  <2>3. call \in Calls(k, allow_comments, FALSE, blank)
    BY <1>2, <1>4, <2>1, <2>2, CallsWiden
  <2> QED BY <2>1, <2>3 DEF call, blank
<1> QED BY <1>3, <1>4 DEF StartedOn

-----------------------------------------------------------------------------
(* What RInv asks of a lexer that is between two calls. *)
WaitsWell(off, bytes, boff, used, broke) ==
  LET part == IF used THEN bytes ELSE <<>>
      first == Base + off - Len(part)
  IN /\ off \in 0..Len(text) /\ bytes \in Seq(Chars) /\ boff \in Nat /\ used \in BOOLEAN
     /\ broke \in [point : Points, esc : BOOLEAN]
     /\ used => boff = 0
     /\ used /\ bytes # <<>> => Head(bytes) \notin Whitespace /\ off \in {0, Len(text)}
     /\ Len(part) <= Base + off
     /\ \A i \in 1..Len(part) : part[i] = Stream[first + i]
     /\ \E run : /\ Retraces(run, Stream, first, Len(part), allow_comments, validate_utf8)
                 /\ used => run[Len(part)] = broke

LEMMA WaitsNow ==
  ASSUME RInv, pc = "idle"
  PROVE  WaitsWell(offset, buf, buf_off, buf_in_use, held)
<1> USE DEF RInv
<1>1. /\ HeldPart = (IF buf_in_use THEN buf ELSE <<>>) /\ HeldLen = Len(HeldPart) /\ Began = offset
  BY DEF HeldPart, HeldLen, Began
<1>2. StartNow = Base + offset - HeldLen /\ Length = HeldLen
  <2>1. /\ HeldLen \in Nat /\ offset \in Nat /\ Length = HeldLen + (offset - Began)
        /\ StartNow = Base + Began - HeldLen
    BY Positions
  <2> HIDE DEF StartNow, Length
  <2> QED BY <1>1, <2>1
<1>3. /\ offset \in 0..Len(text) /\ buf \in Seq(Chars) /\ buf_off \in Nat /\ buf_in_use \in BOOLEAN
      /\ held \in [point : Points, esc : BOOLEAN] /\ Len(buf) \in Nat
  BY LenProperties DEF IInv, TypeOK, IndexSafe
<1>4. buf_in_use => buf_off = 0
  BY DEF IInv, TokenStart
<1>5. buf_in_use /\ buf # <<>> => Head(buf) \notin Whitespace /\ offset \in {0, Len(text)}
  <2> SUFFICES ASSUME buf_in_use, buf # <<>>
               PROVE  Head(buf) \notin Whitespace /\ offset \in {0, Len(text)}
    OBVIOUS
  <2>1. Head(buf) \notin Whitespace
    BY DEF IInv, TokenStart
  <2>2. Replaying
    BY <1>3, <1>4, EmptySeq DEF Replaying
  <2> QED BY <2>1, <2>2 DEF IInv, IndexSafe
<1>6. /\ HeldLen <= Base + offset
      /\ \A i \in 1..HeldLen : HeldPart[i] = Stream[StartNow + i]
  BY <1>1 DEF InStream
<1>7. \E run : /\ Retraces(run, Stream, StartNow, HeldLen, allow_comments, validate_utf8)
               /\ buf_in_use => run[HeldLen] = held
  BY <1>2 DEF Retraced, Passes
<1> HIDE DEF RInv
<1> QED BY <1>1, <1>2, <1>3, <1>4, <1>5, <1>6, <1>7 DEF WaitsWell

LEMMA WaitsAgain ==
  ASSUME RInv, pc' = "idle", UNCHANGED <<client, config, error, has_escapes>>,
         start_off' = offset', result' \in [tok : Tokens \cup {"none"}, lexeme : Seq(Chars)],
         WaitsWell(offset', buf', buf_off', buf_in_use', held')
  PROVE  RInv'
<1>1. /\ UNCHANGED <<input, avail, text, allow_comments, validate_utf8>>
      /\ Base' = Base /\ Stream' = Stream
  BY DEF client, config, Base, Stream
<1>2. /\ offset' \in 0..Len(text) /\ buf' \in Seq(Chars) /\ buf_off' \in Nat
      /\ buf_in_use' \in BOOLEAN /\ held' \in [point : Points, esc : BOOLEAN]
      /\ buf_in_use' => buf_off' = 0
      /\ buf_in_use' /\ buf' # <<>> => Head(buf') \notin Whitespace /\ offset' \in {0, Len(text)}
  BY DEF WaitsWell
<1>3. Len(text) \in Nat /\ offset' \in Nat /\ Len(buf') \in Nat /\ Base \in Nat
  <2>1. Base \in Nat /\ Len(text) \in Nat
    BY Positions DEF RInv
  <2> QED BY <1>2, <2>1, LenProperties
<1>4. Replaying' => buf_in_use' /\ buf' # <<>>
  BY <1>2, <1>3, EmptySeq DEF Replaying
<1>5. IInv'
  <2>1. TypeOK'
    BY <1>1, <1>2, <1>3 DEF RInv, IInv, TypeOK
  <2>2. IndexSafe'
    BY <1>1, <1>2, <1>3, <1>4 DEF IndexSafe
  <2>3. TokenStart'
    BY <1>2 DEF TokenStart
  <2> QED BY <2>1, <2>2, <2>3 DEF IInv
<1>6. /\ HeldPart' = (IF buf_in_use' THEN buf' ELSE <<>>) /\ HeldLen' = Len(HeldPart')
      /\ Began' = offset'
  BY DEF HeldPart, HeldLen, Began
<1>7. HeldLen' \in Nat
  BY <1>3, <1>6, EmptySeq
<1>8. StartNow' = Base + offset' - HeldLen' /\ Length' = HeldLen'
  <2>1. StartNow' = Base' + offset' - (IF buf_in_use' THEN Len(buf') ELSE 0)
    BY DEF StartNow
  <2>2. HeldLen' = (IF buf_in_use' THEN Len(buf') ELSE 0)
    BY <1>6, EmptySeq
  <2>3. Length' = HeldLen' + (offset' - offset')
    BY <1>6 DEF Length
  <2> QED BY <1>1, <1>3, <1>7, <2>1, <2>2, <2>3
<1>9. /\ HeldLen' <= Base + offset'
      /\ \A i \in 1..HeldLen' : HeldPart'[i] = Stream[StartNow' + i]
      /\ \E run : /\ Retraces(run, Stream, StartNow', HeldLen', allow_comments, validate_utf8)
                  /\ buf_in_use' => run[HeldLen'] = held'
  BY <1>6, <1>8 DEF WaitsWell
<1>10. InStream'
  BY <1>1, <1>6, <1>9 DEF RInv, InStream
<1>11. ReplaysForMore'
  BY DEF ReplaysForMore
<1>12. Retraced'
  BY <1>1, <1>8, <1>9 DEF Retraced, Passes
<1> QED BY <1>5, <1>10, <1>11, <1>12 DEF RInv

(* A new stream may begin whenever the lexer waits: what it holds, and the  *)
(* chunk after it.  When nothing is held, under any options.                *)
LEMMA StreamAnew ==
  ASSUME RInv, pc = "idle", pc' = "idle", offset' = 0, start_off' = 0,
         UNCHANGED <<buf, buf_off, buf_in_use, error, has_escapes, result, held>>,
         text' \in Seq(Chars), input' \in Inputs, Stream' \in Seq(Chars),
         avail' = HeldLen + Len(text'), avail' <= Len(Stream'),
         \A i \in 1..HeldLen : Stream'[i] = HeldPart[i],
         \A i \in 1..Len(text') : Stream'[HeldLen + i] = text'[i],
         allow_comments' \in BOOLEAN, validate_utf8' \in BOOLEAN,
         buf_in_use => UNCHANGED config
  PROVE  RInv'
<1>1. WaitsWell(offset, buf, buf_off, buf_in_use, held)
  BY WaitsNow
<1>2. /\ buf \in Seq(Chars) /\ buf_off \in Nat /\ buf_in_use \in BOOLEAN
      /\ held \in [point : Points, esc : BOOLEAN] /\ (buf_in_use => buf_off = 0)
      /\ buf_in_use /\ buf # <<>> => Head(buf) \notin Whitespace
      /\ error \in Errors /\ has_escapes \in BOOLEAN
      /\ result \in [tok : Tokens \cup {"none"}, lexeme : Seq(Chars)]
  BY <1>1 DEF WaitsWell, RInv, IInv, TypeOK
<1>3. Len(text') \in Nat /\ Len(buf) \in Nat
  BY <1>2, LenProperties
<1>4. HeldPart' = HeldPart /\ HeldLen' = HeldLen /\ Began' = 0
  BY DEF HeldPart, HeldLen, Began
<1>5. HeldLen = (IF buf_in_use THEN Len(buf) ELSE 0) /\ HeldLen \in Nat
  BY <1>3, EmptySeq DEF HeldLen, HeldPart
<1> DEFINE h == HeldLen
<1>6. Base' = h
  <2>1. avail' = h + Len(text') /\ h \in Nat
    BY <1>5
  <2>2. Base' = avail' - Len(text')
    BY DEF Base
  <2> HIDE DEF h, Base
  <2> QED BY <1>3, <2>1, <2>2
<1>7. StartNow' = 0 /\ Length' = h
  <2>1. StartNow' = Base' + 0 - (IF buf_in_use THEN Len(buf) ELSE 0)
    BY DEF StartNow
  <2>2. Length' = HeldLen' + (0 - 0)
    BY <1>4 DEF Length
  <2> QED BY <1>4, <1>5, <1>6, <2>1, <2>2
<1>8. Replaying' => buf_in_use /\ buf # <<>>
  BY <1>2, <1>3, EmptySeq DEF Replaying
<1>9. IInv'
  <2>1. TypeOK'
    <3>1. avail' \in Nat
      BY <1>3, <1>5
    <3> QED BY <1>2, <3>1 DEF TypeOK
  <2>2. IndexSafe'
    BY <1>2, <1>3 DEF IndexSafe
  <2>3. TokenStart'
    BY <1>2 DEF TokenStart
  <2> QED BY <2>1, <2>2, <2>3 DEF IInv
<1>10. InStream'
  <2>1. Len(text') <= avail' /\ avail' <= Len(Stream')
    BY <1>3, <1>5
  <2>2. HeldLen' <= Base' + Began'
    BY <1>4, <1>5, <1>6
  <2>3. \A i \in 1..Len(text') : text'[i] = Stream'[Base' + i]
    BY <1>6
  <2>4. \A i \in 1..HeldLen' : HeldPart'[i] = Stream'[StartNow' + i]
    BY <1>4, <1>5, <1>7
  <2> QED BY <2>1, <2>2, <2>3, <2>4 DEF InStream
<1>11. ReplaysForMore'
  BY DEF ReplaysForMore
<1>12. Retraced'
  <2> DEFINE first == Base + offset - h
  <2>1. PICK run : /\ Retraces(run, Stream, first, h, allow_comments, validate_utf8)
                   /\ buf_in_use => run[h] = held
    <3>1. h = Len(IF buf_in_use THEN buf ELSE <<>>)
      BY DEF HeldLen, HeldPart
    <3> QED BY <1>1, <3>1 DEF WaitsWell
  <2>2. \A i \in 1..h : Stream'[0 + i] = Stream[first + i]
    <3>1. h = Len(IF buf_in_use THEN buf ELSE <<>>) /\ HeldPart = (IF buf_in_use THEN buf ELSE <<>>)
      BY DEF HeldLen, HeldPart
    <3>2. \A i \in 1..h : HeldPart[i] = Stream[first + i]
      BY <1>1, <3>1 DEF WaitsWell
    <3>3. \A i \in 1..h : Stream'[i] = HeldPart[i]
      OBVIOUS
    <3> HIDE DEF h, first
    <3> QED BY <3>2, <3>3
  <2>3. 1..h # {} => buf_in_use
    BY <1>5
  <2> HIDE DEF h, first
  <2>4. \A i \in 1..h : Moves(run[i - 1], Stream'[0 + i], run[i], allow_comments', validate_utf8')
    <3> SUFFICES ASSUME NEW i \in 1..h
                 PROVE  Moves(run[i - 1], Stream'[0 + i], run[i], allow_comments', validate_utf8')
      OBVIOUS
    <3>1. allow_comments' = allow_comments /\ validate_utf8' = validate_utf8
      BY <2>3 DEF config
    <3>2. Moves(run[i - 1], Stream[first + i], run[i], allow_comments, validate_utf8)
      BY <2>1 DEF Retraces
    <3> QED BY <2>2, <3>1, <3>2
  <2>5. Retraces(run, Stream', 0, h, allow_comments', validate_utf8')
    BY <2>1, <2>4 DEF Retraces
  <2>6. HeldLen' = h /\ Length' = h /\ StartNow' = 0
    BY <1>4, <1>7 DEF h
  <2> QED BY <2>1, <2>5, <2>6 DEF Retraced, Passes
<1> QED BY <1>9, <1>10, <1>11, <1>12 DEF RInv

-----------------------------------------------------------------------------
(* While a peek runs, what it will put back still fits, and nothing of the  *)
(* text that was held has been touched.                                     *)
Begins(part, whole) == Len(part) <= Len(whole) /\ \A i \in 1..Len(part) : whole[i] = part[i]

WillFit ==
  /\ WaitsWell(saved.offset, saved.text, saved.buf_off, saved.buf_in_use, saved.held)
  /\ saved.result \in [tok : Tokens \cup {"none"}, lexeme : Seq(Chars)]
  /\ saved.buf_len = Len(saved.text)

HeldUntouched ==
  saved.buf_in_use => IF pc = "idle" THEN Begins(saved.text, buf) ELSE buf_in_use /\ buf = saved.text

PeekInv == RInv /\ (Peeking => ~allow_comments /\ WillFit /\ HeldUntouched)

LEMMA WillFitStays ==
  ASSUME UNCHANGED <<client, config, saved>>, WillFit
  PROVE  WillFit'
<1>1. /\ UNCHANGED <<text, allow_comments, validate_utf8>> /\ Base' = Base /\ Stream' = Stream
  BY DEF client, config, Base, Stream
<1> QED BY <1>1 DEF WillFit, WaitsWell

LEMMA PeekBegins ==
  ASSUME PeekInv, ~PeekComments, Peek
  PROVE  PeekInv'
<1>1. RInv /\ Lex /\ pc = "idle" /\ ~allow_comments
  BY DEF PeekInv, Peek, Lex
<1>2. RInv'
  BY <1>1, NextRefines DEF Next
<1>3. UNCHANGED <<text, allow_comments, validate_utf8, buf, buf_in_use>> /\ Base' = Base /\ Stream' = Stream
  BY <1>1 DEF Lex, client, config, holding, Base, Stream
<1>4. WaitsWell(offset, buf, buf_off, buf_in_use, held)
  BY <1>1, WaitsNow
<1>5. /\ saved'.offset = offset /\ saved'.text = buf /\ saved'.buf_off = buf_off
      /\ saved'.buf_in_use = buf_in_use /\ saved'.held = held /\ saved'.result = result
      /\ saved'.buf_len = Len(buf)
  BY DEF Peek
<1>6. WillFit'
  <2>1. result \in [tok : Tokens \cup {"none"}, lexeme : Seq(Chars)]
    BY <1>1 DEF RInv, IInv, TypeOK
  <2> QED BY <1>3, <1>4, <1>5, <2>1 DEF WillFit, WaitsWell
<1>7. HeldUntouched'
  <2>1. pc' # "idle"
    BY <1>1 DEF Lex
  <2> QED BY <1>3, <1>5, <2>1 DEF HeldUntouched
<1> QED BY <1>1, <1>2, <1>3, <1>6, <1>7 DEF PeekInv

LEMMA PeekStepKeeps ==
  ASSUME PeekInv, PeekStep
  PROVE  PeekInv'
<1>1. RInv /\ Step /\ saved' = saved /\ pc # "idle" /\ UNCHANGED <<client, config>>
  BY StepLeaves DEF PeekInv, PeekStep, peeks
<1>2. RInv'
  BY <1>1, NextRefines DEF Next
<1> SUFFICES ASSUME Peeking PROVE ~allow_comments' /\ WillFit' /\ HeldUntouched'
  BY <1>1, <1>2 DEF PeekInv, Peeking
<1>3. ~allow_comments /\ WillFit /\ HeldUntouched
  BY DEF PeekInv
<1>4. WillFit' /\ ~allow_comments'
  BY <1>1, <1>3, WillFitStays DEF config
<1>5. HeldUntouched'
  <2> SUFFICES ASSUME saved.buf_in_use
               PROVE  IF pc' = "idle" THEN Begins(saved.text, buf') ELSE buf_in_use' /\ buf' = saved.text
    BY <1>1 DEF HeldUntouched
  <2>1. buf_in_use /\ buf = saved.text
    BY <1>1, <1>3 DEF HeldUntouched
  <2>2. CASE GoesOn
    BY <2>1, <2>2 DEF GoesOn
  <2>3. CASE EndOfChunk \/ ReadsToken
    <3>1. pc' = "idle"
      BY <1>1, <2>1, <2>3, ReturnAppends
    <3>2. PICK part \in Seq(Chars) : buf' = buf \o part
      BY <1>1, <2>1, <2>3, ReturnAppends
    <3>3. buf \in Seq(Chars) /\ Len(buf) \in Nat /\ Len(part) \in Nat
      BY <1>1, LenProperties DEF RInv, IInv, TypeOK
    <3>4. /\ Len(buf') = Len(buf) + Len(part)
          /\ \A i \in 1..Len(buf') : buf'[i] = IF i <= Len(buf) THEN buf[i] ELSE part[i - Len(buf)]
      BY <3>2, <3>3, ConcatProperties
    <3>5. Begins(buf, buf')
      BY <3>3, <3>4 DEF Begins
    <3> QED BY <2>1, <3>1, <3>5
  <2> QED BY <1>1, <1>3, <2>2, <2>3, WaysToGoOn
<1> QED BY <1>4, <1>5

LEMMA PeekReturnKeeps ==
  ASSUME PeekInv, PeekReturn
  PROVE  PeekInv'
<1>1. /\ Peeking /\ pc = "idle" /\ saved.buf_len <= Len(buf)
      /\ buf_in_use' = saved.buf_in_use /\ buf_off' = saved.buf_off
      /\ buf' = SubSeq(buf, 1, saved.buf_len)
      /\ offset' = saved.offset /\ start_off' = saved.offset /\ result' = saved.result
      /\ held' = saved.held /\ ~Peeking'
      /\ UNCHANGED <<error, config, pc, has_escapes, client>>
  BY DEF PeekReturn, Restored, Truncated, NotPeeking, Peeking
<1>2. RInv /\ WillFit /\ HeldUntouched
  BY <1>1 DEF PeekInv
<1>3. saved.text \in Seq(Chars) /\ buf \in Seq(Chars) /\ saved.buf_len = Len(saved.text)
  BY <1>2 DEF WillFit, WaitsWell, RInv, IInv, TypeOK
<1>4. /\ buf' \in Seq(Chars) /\ Len(buf') = Len(saved.text)
      /\ \A i \in 1..Len(saved.text) : buf'[i] = buf[i]
  <2>1. Len(saved.text) \in Nat /\ Len(buf) \in Nat /\ Len(saved.text) <= Len(buf)
    BY <1>1, <1>3, LenProperties
  <2>2. \A i \in 1..Len(saved.text) : buf[i] \in Chars
    BY <1>3, <2>1, ElementOfSeq
  <2>3. /\ buf' \in Seq(Chars)
        /\ Len(buf') = IF 1 <= Len(saved.text) THEN Len(saved.text) - 1 + 1 ELSE 0
        /\ \A i \in 1..(Len(saved.text) - 1 + 1) : buf'[i] = buf[1 + i - 1]
    BY <1>1, <1>3, <2>1, <2>2, SubSeqProperties
  <2> QED BY <2>1, <2>3
<1>5. saved.buf_in_use => buf' = saved.text
  <2> SUFFICES ASSUME saved.buf_in_use PROVE buf' = saved.text
    OBVIOUS
  <2>1. \A i \in 1..Len(saved.text) : buf[i] = saved.text[i]
    BY <1>1, <1>2 DEF HeldUntouched, Begins
  <2> QED BY <1>3, <1>4, <2>1, SeqEqual
<1>6. WaitsWell(offset', buf', buf_off', buf_in_use', held')
  <2>1. WaitsWell(saved.offset, saved.text, saved.buf_off, saved.buf_in_use, saved.held)
    BY <1>2 DEF WillFit
  <2>2. CASE saved.buf_in_use
    BY <1>1, <1>5, <2>1, <2>2
  <2>3. CASE ~saved.buf_in_use
    BY <1>1, <1>4, <2>1, <2>3 DEF WaitsWell
  <2> QED BY <2>2, <2>3
<1>7. RInv'
  <2>1. result' \in [tok : Tokens \cup {"none"}, lexeme : Seq(Chars)]
    BY <1>1, <1>2 DEF WillFit
  <2> QED BY <1>1, <1>2, <1>6, <2>1, WaitsAgain
<1> QED BY <1>1, <1>7 DEF PeekInv

LEMMA PeekNextInv ==
  ASSUME ~PeekComments, PeekInv, [PeekNext]_<<vars, peeks>>
  PROVE  PeekInv'
<1>1. RInv
  BY DEF PeekInv
<1>2. ASSUME Ready, Next, saved' = saved PROVE PeekInv'
  <2>1. RInv'
    BY <1>1, <1>2, NextRefines
  <2> QED BY <1>2, <2>1 DEF Ready, Peeking, PeekInv
<1>3. CASE (\E n \in 0..Len(input) : PeekNextChunk(n)) \/ PeekLex \/ PeekFinalize
  BY <1>2, <1>3 DEF PeekNextChunk, PeekLex, PeekFinalize, Next
<1>4. ASSUME UNCHANGED <<vars, saved>> PROVE PeekInv'
  <2>1. RInv' /\ UNCHANGED <<client, config>>
    BY <1>1, <1>4, NextRefines DEF vars
  <2>2. WillFit => WillFit'
    BY <1>4, <2>1, WillFitStays
  <2>3. HeldUntouched => HeldUntouched'
    BY <1>4 DEF HeldUntouched, vars, holding
  <2> QED BY <1>4, <2>1, <2>2, <2>3 DEF PeekInv, Peeking, config
<1> QED BY <1>3, <1>4, PeekBegins, PeekStepKeeps, PeekReturnKeeps DEF PeekNext, PeekAsserts, peeks

LEMMA PeekInitInv == PeekInit => PeekInv
BY InitRefines DEF PeekInit, NotPeeking, Peeking, PeekInv

(* Whatever the client peeks at, what is held for the next call stays the   *)
(* unfinished token, and the indices that are put back fit the text that    *)
(* jhn__buf_truncate() leaves.  Comments are excepted: one that ends within *)
(* a peek drops the held text.                                              *)
THEOREM HeldSurvives == ASSUME ~PeekComments PROVE PeekSpec => []HeldSurvivesPeek
<1>1. PeekInv => HeldSurvivesPeek
  BY RetracedIsUnfinished DEF PeekInv, HeldSurvivesPeek
<1>2. PeekInv /\ [PeekNext]_<<vars, peeks>> => PeekInv'
  BY PeekNextInv
<1> QED BY <1>1, <1>2, PeekInitInv, PTL DEF PeekSpec

-----------------------------------------------------------------------------
(* The token that a peek gives is determined by the stream: there is only  *)
(* one run from a place.                                                   *)

LEMMA OneRun ==
  ASSUME NEW r1, NEW r2, NEW stream, NEW first, NEW n1 \in Nat, NEW n2 \in Nat, NEW comments, NEW utf8,
         Retraces(r1, stream, first, n1, comments, utf8),
         Retraces(r2, stream, first, n2, comments, utf8)
  PROVE  \A i \in Nat : i <= n1 /\ i <= n2 => r1[i] = r2[i]
<1> DEFINE T == {i \in Nat : i <= n1 /\ i <= n2 => r1[i] = r2[i]}
<1>1. 0 \in T
  BY DEF Retraces
<1>2. ASSUME NEW i \in Nat, i \in T PROVE i + 1 \in T
  <2> SUFFICES ASSUME i + 1 <= n1, i + 1 <= n2 PROVE r1[i + 1] = r2[i + 1]
    OBVIOUS
  <2>1. i + 1 \in 1..n1 /\ i + 1 \in 1..n2 /\ (i + 1) - 1 = i /\ i <= n1 /\ i <= n2
    OBVIOUS
  <2>2. r1[i] = r2[i]
    BY <1>2, <2>1
  <2>3. /\ Moves(r1[(i + 1) - 1], stream[first + (i + 1)], r1[i + 1], comments, utf8)
        /\ Moves(r2[(i + 1) - 1], stream[first + (i + 1)], r2[i + 1], comments, utf8)
    BY <2>1 DEF Retraces
  <2> QED BY <2>1, <2>2, <2>3 DEF Moves
<1>3. Nat \subseteq T
  <2> HIDE DEF T
  <2> QED BY <1>1, <1>2, Induction
<1> QED BY <1>3

(* The end of a token: the chunk's, or a character's in state s.            *)
TokOf(out, esc) == IF out.tok = "string" /\ esc THEN "string_with_escapes" ELSE out.tok

EndsWith(s, c, tok) ==
  LET out == Settled(s.point, c, allow_comments, validate_utf8)
  IN out.tok # "none" /\ tok = TokOf(out, s.esc)

(* The token that begins at first, and the one after the white space from   *)
(* start on, in what has been handed over.                                  *)
Gives(first, tok) ==
  \E n, run :
    /\ n \in 0..(avail - first)
    /\ Retraces(run, Stream, first, n, allow_comments, validate_utf8)
    /\ IF n = avail - first THEN tok = "eof" ELSE EndsWith(run[n], Stream[first + n + 1], tok)

NextToken(start, tok) ==
  \E first \in start..avail : (\A i \in (start + 1)..first : Stream[i] \in Whitespace) /\ Gives(first, tok)

LEMMA GivesOnce ==
  ASSUME avail \in Nat, NEW first \in Nat, NEW t1, NEW t2, Gives(first, t1), Gives(first, t2)
  PROVE  t1 = t2
<1>1. PICK n1, r1 :
        /\ n1 \in 0..(avail - first)
        /\ Retraces(r1, Stream, first, n1, allow_comments, validate_utf8)
        /\ IF n1 = avail - first THEN t1 = "eof" ELSE EndsWith(r1[n1], Stream[first + n1 + 1], t1)
  BY DEF Gives
<1>2. PICK n2, r2 :
        /\ n2 \in 0..(avail - first)
        /\ Retraces(r2, Stream, first, n2, allow_comments, validate_utf8)
        /\ IF n2 = avail - first THEN t2 = "eof" ELSE EndsWith(r2[n2], Stream[first + n2 + 1], t2)
  BY DEF Gives
<1>3. n1 \in 0..(avail - first) /\ n2 \in 0..(avail - first)
  BY <1>1, <1>2
<1>4. \A i \in Nat : i <= n1 /\ i <= n2 => r1[i] = r2[i]
  BY <1>1, <1>2, <1>3, OneRun
<1>5. ASSUME NEW m \in Nat, NEW n \in Nat, m < n, NEW r, NEW s, NEW t,
             Retraces(r, Stream, first, n, allow_comments, validate_utf8),
             s = r[m], EndsWith(s, Stream[first + m + 1], t)
      PROVE  FALSE
  <2>1. m + 1 \in 1..n /\ (m + 1) - 1 = m /\ first + (m + 1) = first + m + 1
    BY <1>5
  <2>2. Moves(r[m], Stream[first + m + 1], r[m + 1], allow_comments, validate_utf8)
    BY <1>5, <2>1 DEF Retraces
  <2> QED BY <1>5, <2>2 DEF Moves, EndsWith
<1>6. ~(n1 < n2)
  <2> SUFFICES ASSUME n1 < n2 PROVE FALSE
    OBVIOUS
  <2>1. n1 # avail - first /\ r1[n1] = r2[n1]
    BY <1>3, <1>4
  <2> QED BY <1>1, <1>2, <1>3, <1>5, <2>1
<1>7. ~(n2 < n1)
  <2> SUFFICES ASSUME n2 < n1 PROVE FALSE
    OBVIOUS
  <2>1. n2 # avail - first /\ r2[n2] = r1[n2]
    BY <1>3, <1>4
  <2> QED BY <1>1, <1>2, <1>3, <1>5, <2>1
<1>8. n1 = n2 /\ r1[n1] = r2[n2]
  BY <1>3, <1>4, <1>6, <1>7
<1> QED BY <1>1, <1>2, <1>8 DEF EndsWith

(* No token begins with white space. *)
LEMMA BlankGivesNothing ==
  ASSUME avail \in Nat, NEW first \in Nat, first < avail, Stream[first + 1] \in Whitespace, NEW t
  PROVE  ~Gives(first, t)
<1> SUFFICES ASSUME Gives(first, t) PROVE FALSE
  OBVIOUS
<1>1. PICK n, run :
        /\ n \in 0..(avail - first)
        /\ Retraces(run, Stream, first, n, allow_comments, validate_utf8)
        /\ IF n = avail - first THEN t = "eof" ELSE EndsWith(run[n], Stream[first + n + 1], t)
  BY DEF Gives
<1> DEFINE c == Stream[first + 1]
<1>2. Settled("lex", c, allow_comments, validate_utf8) = Go("lex")
  <2>1. Dispatch(c, allow_comments) = Go("lex")
    BY DEF Dispatch, Whitespace, Digits
  <2>2. ScanChr("lex", c, allow_comments, validate_utf8) = Go("lex")
    BY <2>1 DEF ScanChr, LiteralPoints, StringPoints, Utf8Points, NumberPoints
  <2>3. Go("lex").back = FALSE
    BY DEF Go, Outcome
  <2> QED BY <2>2, <2>3 DEF Settled
<1> HIDE DEF c
<1>3. run[0] = Break("lex", FALSE) /\ run[0].point = "lex"
  BY <1>1 DEF Retraces, Break
<1>4. Go("lex").tok = "none" /\ Go("lex").to = "lex"
  BY DEF Go, Outcome
<1>5. CASE n = 0
  <2>1. first + n + 1 = first + 1 /\ n # avail - first
    BY <1>5
  <2> QED BY <1>1, <1>2, <1>3, <1>4, <1>5, <2>1 DEF EndsWith, c
<1>6. CASE n # 0
  <2>1. 1 \in 1..n /\ 1 - 1 = 0
    BY <1>1, <1>6
  <2>2. Moves(run[0], Stream[first + 1], run[1], allow_comments, validate_utf8)
    BY <1>1, <2>1 DEF Retraces
  <2> QED BY <1>2, <1>3, <1>4, <2>2 DEF Moves, c
<1> QED BY <1>5, <1>6

LEMMA NextOnce ==
  ASSUME avail \in Nat, NEW start \in Nat, NEW t1, NEW t2, NextToken(start, t1), NextToken(start, t2)
  PROVE  t1 = t2
<1>1. PICK f1 \in start..avail : (\A i \in (start + 1)..f1 : Stream[i] \in Whitespace) /\ Gives(f1, t1)
  BY DEF NextToken
<1>2. PICK f2 \in start..avail : (\A i \in (start + 1)..f2 : Stream[i] \in Whitespace) /\ Gives(f2, t2)
  BY DEF NextToken
<1>3. f1 \in Nat /\ f2 \in Nat
  OBVIOUS
<1>4. ~(f1 < f2)
  <2> SUFFICES ASSUME f1 < f2 PROVE FALSE
    OBVIOUS
  <2>1. f1 + 1 \in (start + 1)..f2 /\ f1 < avail
    OBVIOUS
  <2> QED BY <1>1, <1>2, <1>3, <2>1, BlankGivesNothing
<1>5. ~(f2 < f1)
  <2> SUFFICES ASSUME f2 < f1 PROVE FALSE
    OBVIOUS
  <2>1. f2 + 1 \in (start + 1)..f1 /\ f2 < avail
    OBVIOUS
  <2> QED BY <1>1, <1>2, <1>3, <2>1, BlankGivesNothing
<1>6. f1 = f2
  BY <1>3, <1>4, <1>5
<1> QED BY <1>1, <1>2, <1>3, <1>6, GivesOnce

LEMMA BlankIsSkipped ==
  ASSUME avail \in Nat, NEW start \in Nat, start < avail, Stream[start + 1] \in Whitespace, NEW t
  PROVE  NextToken(start + 1, t) <=> NextToken(start, t)
<1>1. ASSUME NextToken(start + 1, t) PROVE NextToken(start, t)
  <2>1. PICK f \in (start + 1)..avail :
          (\A i \in ((start + 1) + 1)..f : Stream[i] \in Whitespace) /\ Gives(f, t)
    BY <1>1 DEF NextToken
  <2>2. ASSUME NEW i \in (start + 1)..f PROVE Stream[i] \in Whitespace
    <3>1. i = start + 1 \/ i \in ((start + 1) + 1)..f
      OBVIOUS
    <3> QED BY <2>1, <3>1
  <2>3. f \in start..avail
    OBVIOUS
  <2> QED BY <2>1, <2>2, <2>3 DEF NextToken
<1>2. ASSUME NextToken(start, t) PROVE NextToken(start + 1, t)
  <2>1. PICK f \in start..avail : (\A i \in (start + 1)..f : Stream[i] \in Whitespace) /\ Gives(f, t)
    BY <1>2 DEF NextToken
  <2>2. f # start
    BY <2>1, BlankGivesNothing
  <2>3. f \in (start + 1)..avail /\ \A i \in ((start + 1) + 1)..f : i \in (start + 1)..f
    BY <2>2
  <2> QED BY <2>1, <2>3 DEF NextToken
<1> QED BY <1>1, <1>2

(* A call returns the token that begins where it stands. *)
LEMMA ReturnGives ==
  ASSUME RInv, EndOfChunk \/ ReadsToken
  PROVE  NextToken(StartNow, result'.tok)
<1> USE DEF RInv
<1>1. PICK run : /\ Retraces(run, Stream, StartNow, Length, allow_comments, validate_utf8)
                 /\ Passes(run)
  BY DEF Retraced
<1>2. /\ Base \in Nat /\ offset \in Nat /\ Len(text) \in Nat /\ Base + Len(text) = avail
      /\ offset <= Len(text) /\ StartNow + Length = Base + offset
      /\ StartNow \in Nat /\ Length \in Nat /\ avail \in Nat /\ (~Replaying => Here = Length)
  BY Positions
<1> HIDE DEF RInv, StartNow, Length, Base
<1>3. Gives(StartNow, result'.tok)
  <2>1. CASE EndOfChunk
    <3>1. offset = Len(text) /\ result'.tok = "eof"
      BY <1>2, <2>1 DEF EndOfChunk, Lexed, Result
    <3>2. Length = avail - StartNow /\ Length \in 0..(avail - StartNow)
      BY <1>2, <3>1
    <3> QED BY <1>1, <3>1, <3>2 DEF Gives
  <2>2. CASE ReadsToken
    <3>1. pc \in ReadPoints /\ offset < Len(text) /\ pc # "idle"
      BY <2>2 DEF ReadsToken, ReadPoints, LiteralPoints, StringPoints, Utf8Points, NumberPoints,
         CommentPoints
    <3>2. PICK out : /\ out = ScanChr(pc, Chr, allow_comments, validate_utf8)
                     /\ out.tok # "none" /\ Read(out, FlaggedTok(out))
      BY <2>2 DEF ReadsToken
    <3>3. /\ Chr \in Chars /\ allow_comments \in BOOLEAN /\ validate_utf8 \in BOOLEAN
          /\ EscHere \in BOOLEAN /\ Chr = Stream[StartNow + Here + 1]
      BY <3>1, ChrInStream DEF RInv, IInv, TypeOK, EscHere
    <3>4. ~Replaying
      BY <1>1, <3>1, <3>2, ReadFromRun DEF RInv
    <3>5. Here = Length /\ Length \in 0..(avail - StartNow) /\ Length # avail - StartNow
      BY <1>2, <3>1, <3>4
    <3>6. Stands(run[Length], pc, EscHere, Chr) /\ run[Length] \in States
      BY <1>1, <1>2, <3>1, <3>5 DEF Passes, Retraces
    <3>7. Settled(run[Length].point, Chr, allow_comments, validate_utf8) = out
      <4>1. Settled(run[Length].point, Chr, allow_comments, validate_utf8)
              = Settled(pc, Chr, allow_comments, validate_utf8)
        BY <3>1, <3>3, <3>6, StandsCases
      <4> QED BY <3>2, <4>1 DEF Settled
    <3>8. result'.tok = FlaggedTok(out)
      <4>1. FlaggedTok(out) # "none"
        BY <3>2 DEF FlaggedTok
      <4> QED BY <3>2, <4>1 DEF Read, Lexed, Result
    <3>9. FlaggedTok(out) = TokOf(out, run[Length].esc)
      <4>1. CASE out.tok # "string"
        BY <4>1 DEF FlaggedTok, TokOf
      <4>2. CASE out.tok = "string"
        <5>1. pc \in StringPoints
          BY <3>1, <3>2, <3>3, <4>2, ScanOutcome
        <5>2. run[Length] = Break(PointOf(pc), EscHere)
          BY <3>6, <5>1 DEF Stands, StringPoints, Utf8Points
        <5>3. run[Length].esc = EscHere
          BY <5>2 DEF Break
        <5> QED BY <4>2, <5>3 DEF FlaggedTok, TokOf
      <4> QED BY <4>1, <4>2
    <3>10. EndsWith(run[Length], Stream[StartNow + Length + 1], result'.tok)
      BY <3>2, <3>3, <3>5, <3>7, <3>8, <3>9 DEF EndsWith
    <3> QED BY <1>1, <3>5, <3>10 DEF Gives
  <2> QED BY <2>1, <2>2
<1>4. StartNow \in StartNow..avail /\ \A i \in (StartNow + 1)..StartNow : FALSE
  BY <1>2
<1> QED BY <1>3, <1>4 DEF NextToken

-----------------------------------------------------------------------------
(* While a peek runs, what it will find is the next token from where the    *)
(* lexer will stand again; while the call after it runs, what was told is   *)
(* still the next token.                                                    *)
SavedStart == Base + saved.offset - (IF saved.buf_in_use THEN Len(saved.text) ELSE 0)

PeekFinds ==
  IF pc = "idle" THEN NextToken(SavedStart, result.tok)
  ELSE \A t : NextToken(StartNow, t) => NextToken(SavedStart, t)

ToldIsNext ==
  IF pc = "idle" THEN IF told.lexed THEN result.tok = told.tok ELSE NextToken(StartNow, told.tok)
  ELSE told.lexed /\ NextToken(StartNow, told.tok)

TellInv ==
  /\ PeekInv
  /\ Peeking => told.tok = "none" /\ PeekFinds
  /\ told.tok # "none" => ~allow_comments /\ ToldIsNext

LEMMA FoundStays ==
  ASSUME UNCHANGED <<client, config, saved>>
  PROVE  /\ SavedStart' = SavedStart
         /\ NextToken(SavedStart, result.tok)' <=> NextToken(SavedStart, result'.tok)
         /\ NextToken(StartNow, told.tok)' <=> NextToken(StartNow', told'.tok)
<1>1. UNCHANGED <<avail, allow_comments, validate_utf8>> /\ Stream' = Stream /\ Base' = Base
  BY DEF client, config, Stream, Base
<1>2. SavedStart' = SavedStart
  BY <1>1 DEF SavedStart
<1>3. NextToken(SavedStart, result.tok)' <=> NextToken(SavedStart, result'.tok)
  BY <1>1, <1>2 DEF NextToken, Gives, EndsWith
<1>4. NextToken(StartNow, told.tok)' <=> NextToken(StartNow', told'.tok)
  BY <1>1 DEF NextToken, Gives, EndsWith
<1> QED BY <1>2, <1>3, <1>4

LEMMA AllFoundStays ==
  ASSUME UNCHANGED <<client, config, saved>>
  PROVE  (\A t : NextToken(StartNow, t) => NextToken(SavedStart, t))' <=>
           \A t : NextToken(StartNow', t) => NextToken(SavedStart, t)
<1>1. UNCHANGED <<avail, allow_comments, validate_utf8>> /\ Stream' = Stream /\ SavedStart' = SavedStart
  BY FoundStays DEF client, config, Stream
<1> QED BY <1>1 DEF NextToken, Gives, EndsWith

LEMMA Returns == EndOfChunk \/ ReadsToken => pc' = "idle"
<1>1. EndOfChunk => pc' = "idle"
  BY DEF EndOfChunk, Lexed
<1>2. ASSUME ReadsToken PROVE pc' = "idle"
  <2>1. PICK out : out.tok # "none" /\ Read(out, FlaggedTok(out))
    BY <1>2 DEF ReadsToken
  <2>2. FlaggedTok(out) # "none"
    BY <2>1 DEF FlaggedTok
  <2> QED BY <2>1, <2>2 DEF Read, Lexed
<1> QED BY <1>1, <1>2

(* A call that goes on has the same token before it. *)
LEMMA SameNext ==
  ASSUME RInv, GoesOn, UNCHANGED <<client, config>>
  PROVE  \A t : NextToken(StartNow', t) <=> NextToken(StartNow, t)
<1> USE DEF RInv
<1>1. UNCHANGED Base
  BY DEF client, Base
<1>2. /\ StartNow = Base + start_off - (IF buf_in_use THEN Len(buf) ELSE 0)
      /\ StartNow' = Base + start_off' - (IF buf_in_use THEN Len(buf) ELSE 0)
  BY <1>1 DEF GoesOn, StartNow
<1>3. CASE start_off' = start_off
  <2>1. StartNow' = StartNow
    BY <1>2, <1>3
  <2> QED BY <2>1
<1>4. CASE SkipsBlank
  <2>1. pc = "lex" /\ offset < Len(text) /\ ~Replaying /\ HeldLen = 0 /\ Chr \in Whitespace
        /\ start_off' = start_off + 1 /\ start_off = offset
    BY <1>4 DEF SkipsBlank, IInv, TokenStart
  <2>2. /\ Base \in Nat /\ offset \in Nat /\ Len(text) \in Nat /\ Base + Len(text) = avail
        /\ StartNow \in Nat /\ Length \in Nat /\ avail \in Nat /\ Here = Length
        /\ Length = HeldLen + (offset - Began) /\ StartNow + Length = Base + offset
    BY <2>1, Positions
  <2>3. Began = offset
    BY <2>1 DEF Began
  <2>4. Chr = Stream[StartNow + Here + 1]
    BY <2>1, ChrInStream
  <2>5. HeldLen = (IF buf_in_use THEN Len(buf) ELSE 0)
    BY EmptySeq DEF HeldLen, HeldPart
  <2> HIDE DEF RInv, Base, StartNow, Length, Here, HeldLen, Began
  <2>6. Here = 0 /\ StartNow + Here + 1 = StartNow + 1 /\ StartNow < avail
    BY <2>1, <2>2, <2>3
  <2>7. StartNow' = StartNow + 1
    BY <1>2, <2>1, <2>2, <2>5
  <2>8. Stream[StartNow + 1] \in Whitespace
    BY <2>1, <2>4, <2>6
  <2> QED BY <2>2, <2>6, <2>7, <2>8, BlankIsSkipped
<1> QED BY <1>3, <1>4 DEF GoesOn

LEMMA StepTells ==
  ASSUME TellInv, PeekStep
  PROVE  TellInv'
<1>1. /\ PeekInv /\ RInv /\ Step /\ pc # "idle" /\ UNCHANGED <<client, config>>
      /\ UNCHANGED <<saved, told>>
  BY StepLeaves DEF TellInv, PeekInv, PeekStep, peeks
<1>2. PeekInv' /\ Peeking' = Peeking /\ allow_comments' = allow_comments
  BY <1>1, PeekStepKeeps DEF Peeking, config
<1>3. /\ SavedStart' = SavedStart
      /\ NextToken(SavedStart, result.tok)' <=> NextToken(SavedStart, result'.tok)
      /\ NextToken(StartNow, told.tok)' <=> NextToken(StartNow', told.tok)
      /\ (\A t : NextToken(StartNow, t) => NextToken(SavedStart, t))' <=>
           \A t : NextToken(StartNow', t) => NextToken(SavedStart, t)
  BY <1>1, FoundStays, AllFoundStays
<1>4. avail \in Nat /\ StartNow \in Nat
  BY <1>1, Positions DEF RInv
<1>5. ~allow_comments => EndOfChunk \/ ReadsToken \/ GoesOn
  BY <1>1, WaysToGoOn
<1>6. ASSUME Peeking PROVE told'.tok = "none" /\ PeekFinds'
  <2>1. /\ ~allow_comments /\ told'.tok = "none"
        /\ \A t : NextToken(StartNow, t) => NextToken(SavedStart, t)
    BY <1>1, <1>6 DEF TellInv, PeekInv, PeekFinds
  <2>2. CASE EndOfChunk \/ ReadsToken
    <3>1. pc' = "idle" /\ NextToken(SavedStart, result'.tok)
      BY <1>1, <2>1, <2>2, Returns, ReturnGives
    <3> QED BY <1>3, <2>1, <3>1 DEF PeekFinds
  <2>3. CASE GoesOn
    <3>1. \A t : NextToken(StartNow', t) => NextToken(SavedStart, t)
      BY <1>1, <2>1, <2>3, SameNext
    <3>2. pc' # "idle"
      BY <2>3 DEF GoesOn
    <3> QED BY <1>3, <2>1, <3>1, <3>2 DEF PeekFinds
  <2> QED BY <1>5, <2>1, <2>2, <2>3
<1>7. ASSUME told'.tok # "none" PROVE ~allow_comments' /\ ToldIsNext'
  <2>1. ~allow_comments /\ told.lexed /\ NextToken(StartNow, told.tok)
    BY <1>1, <1>7 DEF TellInv, ToldIsNext
  <2>2. CASE EndOfChunk \/ ReadsToken
    <3>1. pc' = "idle" /\ NextToken(StartNow, result'.tok)
      BY <1>1, <2>2, Returns, ReturnGives
    <3>2. result'.tok = told.tok
      BY <1>4, <2>1, <3>1, NextOnce
    <3> QED BY <1>1, <1>2, <2>1, <3>1, <3>2 DEF ToldIsNext
  <2>3. CASE GoesOn
    <3>1. NextToken(StartNow', told.tok) /\ pc' # "idle"
      BY <1>1, <2>1, <2>3, SameNext DEF GoesOn
    <3> QED BY <1>1, <1>2, <1>3, <2>1, <3>1 DEF ToldIsNext
  <2> QED BY <1>5, <2>1, <2>2, <2>3
<1> QED BY <1>2, <1>6, <1>7 DEF TellInv

(* A call begins where the lexer stands. *)
LEMMA LexStands ==
  ASSUME RInv, Lex
  PROVE  /\ pc = "idle" /\ pc' = "lex" /\ UNCHANGED <<client, config>> /\ StartNow' = StartNow
<1>1. pc = "idle" /\ pc' = "lex" /\ start_off' = offset
      /\ UNCHANGED <<client, config, buf, buf_in_use, offset>>
  BY DEF Lex, holding
<1>2. Base' = Base
  BY <1>1 DEF client, Base
<1> QED BY <1>1, <1>2 DEF StartNow

LEMMA PeekTells ==
  ASSUME TellInv, ~PeekComments, Peek
  PROVE  TellInv'
<1>1. PeekInv /\ RInv /\ Lex /\ PeekInv'
  BY PeekBegins DEF TellInv, PeekInv, Peek
<1>2. pc = "idle" /\ pc' = "lex" /\ UNCHANGED <<client, config>> /\ StartNow' = StartNow
  BY <1>1, LexStands
<1>3. told'.tok = "none"
  BY DEF Peek, NotTold
<1>4. SavedStart' = StartNow'
  <2>1. Base' = Base
    BY <1>2 DEF client, Base
  <2>2. /\ saved'.offset = offset /\ saved'.buf_in_use = buf_in_use /\ saved'.text = buf
    BY DEF Peek
  <2> QED BY <1>2, <2>1, <2>2 DEF SavedStart, StartNow
<1>5. PeekFinds'
  <2>1. pc' # "idle"
    BY <1>2
  <2>2. (\A t : NextToken(StartNow, t) => NextToken(SavedStart, t))'
    BY <1>4 DEF NextToken
  <2> QED BY <2>1, <2>2 DEF PeekFinds
<1> QED BY <1>1, <1>3, <1>5 DEF TellInv

LEMMA LexTells ==
  ASSUME TellInv, PeekInv', PeekLex
  PROVE  TellInv'
<1>1. RInv /\ Lex /\ saved' = saved /\ ~Peeking /\ ~Peeking'
      /\ told' = IF told.lexed THEN NotTold ELSE [tok |-> told.tok, lexed |-> TRUE]
  BY DEF TellInv, PeekInv, PeekLex, Ready, Peeking
<1>2. pc = "idle" /\ pc' = "lex" /\ UNCHANGED <<client, config>> /\ StartNow' = StartNow
  BY <1>1, LexStands
<1>3. ASSUME told'.tok # "none" PROVE ~allow_comments' /\ ToldIsNext'
  <2>1. ~told.lexed /\ told'.tok = told.tok /\ told'.lexed
    BY <1>1, <1>3 DEF NotTold
  <2>2. ~allow_comments /\ NextToken(StartNow, told.tok)
    BY <1>2, <1>3, <2>1 DEF TellInv, ToldIsNext
  <2>3. NextToken(StartNow, told.tok)' <=> NextToken(StartNow', told'.tok)
    BY <1>1, <1>2, FoundStays
  <2> QED BY <1>2, <2>1, <2>2, <2>3 DEF ToldIsNext, config
<1> QED BY <1>1, <1>3 DEF TellInv

LEMMA ReturnTells ==
  ASSUME TellInv, PeekReturn
  PROVE  TellInv'
<1>1. PeekInv /\ PeekInv'
  BY PeekReturnKeeps DEF TellInv
<1>2. /\ Peeking /\ pc = "idle" /\ pc' = "idle" /\ ~Peeking' /\ UNCHANGED <<client, config>>
      /\ offset' = saved.offset /\ buf_in_use' = saved.buf_in_use
      /\ told' = [tok |-> result.tok, lexed |-> FALSE]
  BY DEF PeekReturn, Restored, NotPeeking, Peeking
<1>3. ~allow_comments' /\ NextToken(SavedStart, result.tok)
  BY <1>1, <1>2 DEF TellInv, PeekInv, PeekFinds, config
<1>4. StartNow' = SavedStart
  <2>1. Base' = Base
    BY <1>2 DEF client, Base
  <2>2. saved.buf_in_use => Len(buf') = Len(saved.text)
    <3> SUFFICES ASSUME saved.buf_in_use PROVE Len(buf') = Len(saved.text)
      OBVIOUS
    <3>1. /\ saved.text \in Seq(Chars) /\ buf \in Seq(Chars) /\ saved.buf_len = Len(saved.text)
          /\ saved.buf_len <= Len(buf) /\ buf' = SubSeq(buf, 1, saved.buf_len)
      BY <1>1, <1>2 DEF PeekInv, WillFit, WaitsWell, RInv, IInv, TypeOK, PeekReturn, Truncated
    <3>2. Len(saved.text) \in Nat /\ Len(buf) \in Nat
      BY <3>1, LenProperties
    <3>3. \A i \in 1..Len(saved.text) : buf[i] \in Chars
      BY <3>1, <3>2, ElementOfSeq
    <3> QED BY <3>1, <3>2, <3>3, SubSeqProperties
  <2> QED BY <1>2, <2>1, <2>2 DEF SavedStart, StartNow
<1>5. ToldIsNext'
  <2>1. UNCHANGED <<avail, allow_comments, validate_utf8>> /\ Stream' = Stream
    BY <1>2 DEF client, config, Stream
  <2>2. NextToken(StartNow, told.tok)' <=> NextToken(StartNow', told'.tok)
    BY <2>1 DEF NextToken, Gives, EndsWith
  <2>3. told'.tok = result.tok /\ told'.lexed = FALSE
    BY <1>2
  <2> QED BY <1>2, <1>3, <1>4, <2>2, <2>3 DEF ToldIsNext
<1> QED BY <1>1, <1>2, <1>3, <1>5 DEF TellInv

LEMMA TellNextInv ==
  ASSUME ~PeekComments, TellInv, [PeekNext]_<<vars, peeks>>
  PROVE  TellInv'
<1>1. PeekInv'
  BY PeekNextInv DEF TellInv
<1>2. CASE (\E n \in 0..Len(input) : PeekNextChunk(n)) \/ PeekFinalize
  <2>1. told'.tok = "none" /\ saved' = saved /\ ~Peeking
    BY <1>2 DEF PeekNextChunk, PeekFinalize, NotTold, Ready
  <2> QED BY <1>1, <2>1 DEF TellInv, Peeking
<1>3. ASSUME UNCHANGED <<vars, saved, told>> PROVE TellInv'
  <2>1. /\ UNCHANGED <<client, config>> /\ pc' = pc /\ result' = result
        /\ UNCHANGED <<offset, start_off, buf, buf_in_use>>
    BY <1>3 DEF vars, holding
  <2>2. StartNow' = StartNow
    BY <2>1 DEF StartNow, Base, client
  <2>3. PeekFinds => PeekFinds'
    BY <1>3, <2>1, <2>2, FoundStays, AllFoundStays DEF PeekFinds
  <2>4. ToldIsNext => ToldIsNext'
    BY <1>3, <2>1, <2>2, FoundStays DEF ToldIsNext
  <2> QED BY <1>1, <1>3, <2>1, <2>3, <2>4 DEF TellInv, Peeking, config
<1> QED BY <1>1, <1>2, <1>3, PeekTells, LexTells, StepTells, ReturnTells DEF PeekNext, PeekAsserts, peeks

(* The token that a peek gives is the one that the next call returns, held, *)
(* broken off or in error, wherever the chunk ends.                         *)
THEOREM PeekIsTrue == ASSUME ~PeekComments PROVE PeekSpec => []PeekTellsNext
<1>1. PeekInit => TellInv
  BY PeekInitInv DEF PeekInit, NotPeeking, NotTold, Peeking, TellInv
<1>2. TellInv => PeekTellsNext
  BY DEF TellInv, ToldIsNext, PeekTellsNext
<1>3. TellInv /\ [PeekNext]_<<vars, peeks>> => TellInv'
  BY TellNextInv
<1> QED BY <1>1, <1>2, <1>3, PTL DEF PeekSpec

-----------------------------------------------------------------------------
(* What a token carries.  First, where a run can have come from: the       *)
(* character that leads to a point, and the point before it.               *)

(* From the switch, where a number begins with the character read again.   *)
LEMMA SwitchMove ==
  ASSUME NEW c \in Chars, NEW comments \in BOOLEAN, NEW utf8 \in BOOLEAN,
         NEW out, out = Settled("lex", c, comments, utf8)
  PROVE  IF c \in Digits \cup {"-"} THEN out = NumberChar("number", c)
         ELSE out = Dispatch(c, comments)
<1> USE DEF Go, GoBack, Tok, Fail, FailBack, Outcome
<1>1. ScanChr("lex", c, comments, utf8) = Dispatch(c, comments)
  BY DEF ScanChr, LiteralPoints, StringPoints, Utf8Points, NumberPoints
<1>2. CASE c \in Digits \cup {"-"}
  <2>1. Dispatch(c, comments) = GoBack("number")
    BY <1>2 DEF Dispatch, Digits, Whitespace
  <2>2. ScanChr("number", c, comments, utf8) = NumberChar("number", c)
    BY DEF ScanChr, LiteralPoints, StringPoints, Utf8Points, NumberPoints
  <2> QED BY <1>1, <1>2, <2>1, <2>2 DEF Settled
<1>3. CASE c \notin Digits \cup {"-"}
  <2>1. ~(Dispatch(c, comments).tok = "none" /\ Dispatch(c, comments).back)
    <3>1. "lex" \in ReadPoints
      BY DEF ReadPoints
    <3> QED BY <1>1, <1>3, <3>1, ScanOutcome
  <2> QED BY <1>1, <1>3, <2>1 DEF Settled
<1> QED BY <1>2, <1>3

LEMMA SwitchChars ==
  ASSUME NEW c \in Chars, NEW comments \in BOOLEAN, c \notin Digits \cup {"-"},
         NEW out, out = Dispatch(c, comments), out.tok = "none", out.to # "lex"
  PROVE  \/ c = "t" /\ out.to = "t1"
         \/ c = "f" /\ out.to = "f1"
         \/ c = "n" /\ out.to = "n1"
         \/ c = "quote" /\ out.to = "scan"
         \/ c = "/" /\ out.to = "slash"
<1> USE DEF Go, GoBack, Tok, Fail, FailBack, Outcome
<1>1. CASE c \in Whitespace
  BY <1>1 DEF Dispatch, Whitespace
<1>2. CASE c = "t"
  BY <1>2 DEF Dispatch, Whitespace
<1>3. CASE c = "f"
  BY <1>3 DEF Dispatch, Whitespace
<1>4. CASE c = "n"
  BY <1>4 DEF Dispatch, Whitespace
<1>5. CASE c = "quote"
  BY <1>5 DEF Dispatch, Whitespace
<1>6. CASE c = "/"
  <2>1. out = IF comments THEN Go("slash") ELSE FailBack("unallowed_comment")
    BY <1>6 DEF Dispatch, Whitespace, Digits
  <2> QED BY <1>6, <2>1
<1>7. CASE c \notin Whitespace \cup {"t", "f", "n", "quote", "/"}
  <2>1. out \in {Tok("left_bracket"), Tok("right_bracket"), Tok("left_brace"), Tok("right_brace"),
                 Tok("comma"), Tok("colon"), Fail("invalid_char")}
    <3> HIDE DEF Go, GoBack, Tok, Fail, FailBack, Outcome
    <3> QED BY <1>7 DEF Dispatch
  <2> QED BY <2>1
<1> QED BY <1>1, <1>2, <1>3, <1>4, <1>5, <1>6, <1>7

(* Within a comment. *)
LEMMA CommentMove ==
  ASSUME NEW q \in CommentPoints, NEW c \in Chars, NEW comments \in BOOLEAN, NEW utf8 \in BOOLEAN,
         NEW out, out = Settled(q, c, comments, utf8), out.tok = "none"
  PROVE  out.to \in CommentPoints \cup {"lex"}
<1> USE DEF Go, GoBack, Tok, Fail, Outcome, LiteralPoints, StringPoints, Utf8Points, NumberPoints,
        CommentPoints
<1>1. ScanChr(q, c, comments, utf8) = CommentChar(q, c)
  BY DEF ScanChr
<1>2. ScanChr("block", c, comments, utf8) = CommentChar("block", c)
  BY DEF ScanChr
<1> QED BY <1>1, <1>2 DEF Settled, CommentChar

(* Within a literal, a string or a number nothing is read again. *)
LEMMA TokenMove ==
  ASSUME NEW q \in LiteralPoints \cup StringPoints \cup NumberPoints, NEW c \in Chars,
         NEW comments \in BOOLEAN, NEW utf8 \in BOOLEAN,
         NEW out, out = Settled(q, c, comments, utf8), out.tok = "none"
  PROVE  /\ q \in LiteralPoints => out = Literal(q, c) /\ out.to \in LiteralPoints
         /\ q \in StringPoints => out = StringChar(q, c, utf8) /\ out.to \in StringPoints \cup {"scan"}
         /\ q \in NumberPoints => out = NumberChar(q, c) /\ out.to \in NumberPoints
<1> USE DEF Go, Tok, TokBack, Fail, FailBack, Outcome, LiteralPoints, StringPoints, Utf8Points,
        NumberPoints
<1> DEFINE first == ScanChr(q, c, comments, utf8)
<1>1. CASE q \in LiteralPoints
  <2>1. first = Literal(q, c)
    BY <1>1 DEF ScanChr
  <2>2. first.tok = "none" => ~first.back /\ first.to \in LiteralPoints
    BY <1>1, <2>1 DEF Literal, LiteralNext
  <2> QED BY <1>1, <2>1, <2>2 DEF Settled
<1>2. CASE q \in StringPoints
  <2>1. first = StringChar(q, c, utf8)
    BY <1>2 DEF ScanChr
  <2>2. first.tok = "none" => ~first.back /\ first.to \in StringPoints \cup {"scan"}
    BY <1>2, <2>1 DEF StringChar, Utf8Char, Utf8Lead, Utf8Next, HexNext
  <2> QED BY <1>2, <2>1, <2>2 DEF Settled
<1>3. CASE q \in NumberPoints
  <2>1. first = NumberChar(q, c)
    BY <1>3 DEF ScanChr
  <2>2. first.tok = "none" => ~first.back /\ first.to \in NumberPoints
    BY <1>3, <2>1 DEF NumberChar, NumberTail
  <2> QED BY <1>3, <2>1, <2>2 DEF Settled
<1> QED BY <1>1, <1>2, <1>3

(* The character c leads from point q to point p. *)
LeadsTo(q, c, p, comments, utf8) ==
  LET out == Settled(q, c, comments, utf8)
  IN out.tok = "none" /\ out.to # "lex" /\ p = PointOf(out.to)

LEMMA ToLiteral ==
  ASSUME NEW q \in ReadPoints, NEW c \in Chars, NEW comments \in BOOLEAN, NEW utf8 \in BOOLEAN,
         NEW p \in LiteralPoints, LeadsTo(q, c, p, comments, utf8)
  PROVE  \/ q = "lex" /\ \/ p = "t1" /\ c = "t"
                         \/ p = "f1" /\ c = "f"
                         \/ p = "n1" /\ c = "n"
         \/ q \in DOMAIN LiteralNext /\ p = LiteralNext[q] /\ c = Want[q]
<1> DEFINE out == Settled(q, c, comments, utf8)
<1>1. out.tok = "none" /\ out.to # "lex" /\ p = PointOf(out.to)
  BY DEF LeadsTo
<1>2. ASSUME q \in LiteralPoints \cup StringPoints \cup NumberPoints
      PROVE  /\ q \in LiteralPoints => out = Literal(q, c)
             /\ q \in StringPoints => out.to \in StringPoints \cup {"scan"}
             /\ q \in NumberPoints => out.to \in NumberPoints
  <2> HIDE DEF out
  <2>1. out = Settled(q, c, comments, utf8)
    BY DEF out
  <2> QED BY <1>1, <1>2, <2>1, TokenMove
<1> USE DEF LiteralPoints
<1>3. CASE q = "lex"
  <2>1. c \notin Digits \cup {"-"} /\ out = Dispatch(c, comments)
    <3>1. NumberChar("number", c).to \notin LiteralPoints \cup {"scan"}
      BY DEF NumberChar, Go, Outcome
    <3> QED BY <1>1, <1>3, <3>1, SwitchMove DEF PointOf
  <2>2. p = out.to /\ out.to # "slash" /\ out.to # "scan"
    BY <1>1 DEF PointOf
  <2> QED BY <1>1, <1>3, <2>1, <2>2, SwitchChars
<1>4. CASE q \in LiteralPoints
  <2>1. out = Literal(q, c)
    BY <1>4, <1>2
  <2> QED BY <1>1, <1>4, <2>1 DEF Literal, LiteralNext, Go, Tok, FailBack, Outcome, PointOf
<1>5. CASE q \in StringPoints
  <2>1. out.to \in StringPoints \cup {"scan"}
    BY <1>5, <1>2
  <2> QED BY <1>1, <2>1 DEF StringPoints, Utf8Points, PointOf
<1>6. CASE q \in NumberPoints
  <2>1. out.to \in NumberPoints
    BY <1>6, <1>2
  <2> QED BY <1>1, <2>1 DEF NumberPoints, PointOf
<1>7. CASE q \in CommentPoints
  <2>1. out.to \in CommentPoints \cup {"lex"}
    BY <1>1, <1>7, CommentMove
  <2> QED BY <1>1, <2>1 DEF CommentPoints, PointOf
<1> QED BY <1>3, <1>4, <1>5, <1>6, <1>7 DEF ReadPoints

LEMMA ToNumber ==
  ASSUME NEW q \in ReadPoints \ {"number"}, NEW c \in Chars, NEW comments \in BOOLEAN, NEW utf8 \in BOOLEAN,
         NEW p \in NumberPoints, LeadsTo(q, c, p, comments, utf8)
  PROVE  \/ p = "minus" /\ q = "lex" /\ c = "-"
         \/ p = "zero" /\ q \in {"lex", "minus"} /\ c = "0"
         \/ p = "int" /\ q \in {"lex", "minus"} /\ c = "1"
         \/ p = "int" /\ q = "int" /\ c \in Digits
         \/ p = "dot" /\ q \in {"zero", "int"} /\ c = "."
         \/ p = "frac" /\ q \in {"dot", "frac"} /\ c \in Digits
         \/ p = "exp" /\ q \in {"zero", "int", "frac"} /\ c \in {"e", "E"}
         \/ p = "expsign" /\ q = "exp" /\ c \in {"+", "-"}
         \/ p = "expdig" /\ q \in {"exp", "expsign", "expdig"} /\ c \in Digits
<1> DEFINE out == Settled(q, c, comments, utf8)
<1>1. out.tok = "none" /\ out.to # "lex" /\ p = PointOf(out.to)
  BY DEF LeadsTo
<1> USE DEF NumberPoints
<1>2. CASE q = "lex"
  <2>1. c \in Digits \cup {"-"} /\ out = NumberChar("number", c)
    <3>1. ASSUME c \notin Digits \cup {"-"} PROVE FALSE
      <4>1. out = Dispatch(c, comments)
        BY <1>2, <3>1, SwitchMove
      <4>2. out.to \in {"t1", "f1", "n1", "scan", "slash"}
        BY <1>1, <3>1, <4>1, SwitchChars
      <4> QED BY <1>1, <4>2 DEF PointOf
    <3> QED BY <1>2, <3>1, SwitchMove
  <2> QED BY <1>1, <1>2, <2>1 DEF NumberChar, Digits, Go, Outcome, PointOf
<1>3. CASE q \in LiteralPoints
  <2>1. out.to \in LiteralPoints
    BY <1>1, <1>3, TokenMove
  <2> QED BY <1>1, <2>1 DEF LiteralPoints, PointOf
<1>4. CASE q \in StringPoints
  <2>1. out.to \in StringPoints \cup {"scan"}
    BY <1>1, <1>4, TokenMove
  <2> QED BY <1>1, <2>1 DEF StringPoints, Utf8Points, PointOf
<1>5. CASE q \in NumberPoints
  <2>1. out = NumberChar(q, c) /\ out.to \in NumberPoints
    BY <1>1, <1>5, TokenMove
  <2>2. p = out.to
    BY <1>1, <2>1 DEF PointOf
  <2> QED BY <1>1, <1>5, <2>1, <2>2
      DEF NumberChar, NumberTail, Digits, Go, TokBack, FailBack, Outcome
<1>6. CASE q \in CommentPoints
  <2>1. out.to \in CommentPoints \cup {"lex"}
    BY <1>1, <1>6, CommentMove
  <2> QED BY <1>1, <2>1 DEF CommentPoints, PointOf
<1> QED BY <1>2, <1>3, <1>4, <1>5, <1>6 DEF ReadPoints

(* The character c, which is not the quote that ends the string, read at    *)
(* point q inside a string leads to point p.                               *)
StringMove(q, c, p, utf8) ==
  \/ q = "str" /\ p = "str" /\ c \notin Controls \cup {"quote", "bslash"} /\ (utf8 => c \notin HighBytes)
  \/ q = "str" /\ p = "esc" /\ c = "bslash"
  \/ q = "esc" /\ p = "str" /\ c \in VEC
  \/ q = "esc" /\ p = "hex4" /\ c = "u"
  \/ q = "hex4" /\ p = "hex3" /\ c \in VHC
  \/ q = "hex3" /\ p = "hex2" /\ c \in VHC
  \/ q = "hex2" /\ p = "hex1" /\ c \in VHC
  \/ q = "hex1" /\ p = "str" /\ c \in VHC
  \/ q = "str" /\ p = "utf8_3" /\ c = "lead4"
  \/ q = "str" /\ p = "utf8_2" /\ c = "lead3"
  \/ q = "str" /\ p = "utf8_1" /\ c = "lead2"
  \/ q = "utf8_3" /\ p = "utf8_2" /\ c = "cont"
  \/ q = "utf8_2" /\ p = "utf8_1" /\ c = "cont"
  \/ q = "utf8_1" /\ p = "str" /\ c = "cont"

LEMMA ToString ==
  ASSUME NEW q \in ReadPoints, NEW c \in Chars, NEW comments \in BOOLEAN, NEW utf8 \in BOOLEAN,
         NEW p \in StringPoints, LeadsTo(q, c, p, comments, utf8)
  PROVE  (q = "lex" /\ c = "quote" /\ p = "str") \/ StringMove(q, c, p, utf8)
<1> DEFINE out == Settled(q, c, comments, utf8)
<1>1. out.tok = "none" /\ out.to # "lex" /\ p = PointOf(out.to)
  BY DEF LeadsTo
<1> USE DEF StringPoints, Utf8Points, StringMove
<1>2. CASE q = "lex"
  <2>1. c \notin Digits \cup {"-"} /\ out = Dispatch(c, comments)
    <3>1. NumberChar("number", c).to \notin StringPoints \cup {"scan"}
      BY DEF NumberChar, Go, Outcome
    <3> QED BY <1>1, <1>2, <3>1, SwitchMove DEF PointOf
  <2>2. out.to \in StringPoints \cup {"scan"} /\ (out.to = "scan" => p = "str")
    BY <1>1 DEF PointOf
  <2> QED BY <1>1, <1>2, <2>1, <2>2, SwitchChars
<1>3. CASE q \in LiteralPoints
  <2>1. out.to \in LiteralPoints
    BY <1>1, <1>3, TokenMove
  <2> QED BY <1>1, <2>1 DEF LiteralPoints, PointOf
<1>4. CASE q \in StringPoints
  <2>1. out = StringChar(q, c, utf8) /\ out.to \in StringPoints \cup {"scan"}
    <3> HIDE DEF StringPoints, Utf8Points, StringMove
    <3> QED BY <1>1, <1>4, TokenMove
  <2> HIDE DEF out
  <2> USE DEF Go, Tok, Fail, FailBack, Outcome, PointOf
  <2>2. CASE q = "str"
    <3>1. c \notin Controls \cup {"quote"}
      <4>1. CASE c = "quote"
        BY <1>1, <2>1, <2>2, <4>1 DEF StringChar
      <4>2. CASE c \in Controls
        BY <1>1, <2>1, <2>2, <4>2 DEF StringChar, Controls
      <4> QED BY <4>1, <4>2
    <3>2. CASE c = "bslash"
      BY <1>1, <2>1, <2>2, <3>2 DEF StringChar
    <3>3. CASE c # "bslash" /\ ~utf8
      BY <1>1, <2>1, <2>2, <3>1, <3>3 DEF StringChar
    <3>4. CASE c # "bslash" /\ utf8
      <4>1. out = Utf8Lead(c)
        BY <2>1, <2>2, <3>1, <3>4 DEF StringChar
      <4>2. CASE c \in HighBytes
        BY <1>1, <2>2, <4>1, <4>2 DEF Utf8Lead, HighBytes
      <4>3. CASE c \notin HighBytes
        <5>1. out = Go("scan")
          BY <4>1, <4>3 DEF Utf8Lead, HighBytes
        <5> QED BY <1>1, <2>2, <3>1, <3>4, <4>3, <5>1
      <4> QED BY <4>2, <4>3
    <3> QED BY <3>2, <3>3, <3>4
  <2>3. CASE q = "esc"
    <3>1. CASE c = "u"
      BY <1>1, <2>1, <2>3, <3>1 DEF StringChar
    <3>2. CASE c # "u"
      <4>1. out = IF c \in VEC THEN Go("scan") ELSE FailBack("string_invalid_escaped_char")
        BY <2>1, <2>3, <3>2 DEF StringChar
      <4> QED BY <1>1, <2>3, <4>1
    <3> QED BY <3>1, <3>2
  <2>4. CASE q \in Utf8Points
    BY <1>1, <2>1, <2>4 DEF StringChar, Utf8Char, Utf8Next
  <2>5. CASE q \in {"hex4", "hex3", "hex2", "hex1"}
    <3>1. out = IF c \in VHC THEN Go(HexNext[q]) ELSE FailBack("string_invalid_hex_char")
      BY <2>1, <2>5 DEF StringChar
    <3> QED BY <1>1, <2>5, <3>1 DEF HexNext
  <2> QED BY <1>4, <2>2, <2>3, <2>4, <2>5
<1>5. CASE q \in NumberPoints
  <2>1. out.to \in NumberPoints
    BY <1>1, <1>5, TokenMove
  <2> QED BY <1>1, <2>1 DEF NumberPoints, PointOf
<1>6. CASE q \in CommentPoints
  <2>1. out.to \in CommentPoints \cup {"lex"}
    BY <1>1, <1>6, CommentMove
  <2> QED BY <1>1, <2>1 DEF CommentPoints, PointOf
<1> QED BY <1>2, <1>3, <1>4, <1>5, <1>6 DEF ReadPoints

(* A step of a run through the text u. *)
LEMMA RunStep ==
  ASSUME NEW run, NEW u \in Seq(Chars), NEW n \in 0..Len(u),
         NEW comments \in BOOLEAN, NEW utf8 \in BOOLEAN,
         Retraces(run, u, 0, n, comments, utf8), NEW j \in Nat, j < n
  PROVE  /\ run[j].point \in ReadPoints \ {"number"} /\ u[j + 1] \in Chars
         /\ run[j].point = "lex" <=> j = 0
         /\ run[j + 1].point \in ReadPoints \ {"number"}
         /\ LeadsTo(run[j].point, u[j + 1], run[j + 1].point, comments, utf8)
         /\ run[j + 1].esc = EscAfter(run[j].point, run[j].esc, u[j + 1])
<1>1. /\ Len(u) \in Nat /\ n \in Nat /\ j \in 0..n /\ j + 1 \in 0..n /\ j + 1 \in 1..n
      /\ j + 1 \in 1..Len(u) /\ (j + 1) - 1 = j /\ 0 + (j + 1) = j + 1
  BY LenProperties
<1>2. CharsAhead(u, 0, n) /\ u[j + 1] \in Chars
  <2>1. \A i \in 1..n : 0 + i = i /\ i \in 1..Len(u)
    BY <1>1
  <2>2. \A i \in 1..n : u[0 + i] \in Chars
    BY <2>1, ElementOfSeq
  <2> QED BY <1>1, <2>2, ElementOfSeq DEF CharsAhead
<1>3. \A h \in 0..n : run[h] \in States /\ Reachable(run[h].point, comments)
  BY <1>1, <1>2, RunFamily
<1>4. \A i \in Nat : i < n => Moves(run[i], u[i + 1], run[i + 1], comments, utf8)
  <2> SUFFICES ASSUME NEW i \in Nat, i < n PROVE Moves(run[i], u[i + 1], run[i + 1], comments, utf8)
    OBVIOUS
  <2>1. i + 1 \in 1..n /\ (i + 1) - 1 = i /\ 0 + (i + 1) = i + 1
    BY <1>1
  <2> QED BY <2>1 DEF Retraces
<1>5. ASSUME NEW i \in Nat, i < n
      PROVE  /\ LeadsTo(run[i].point, u[i + 1], run[i + 1].point, comments, utf8)
             /\ run[i + 1].esc = EscAfter(run[i].point, run[i].esc, u[i + 1])
             /\ run[i + 1].point # "lex"
  <2>1. Moves(run[i], u[i + 1], run[i + 1], comments, utf8)
    BY <1>4, <1>5
  <2>2. /\ run[i + 1].point = PointOf(Settled(run[i].point, u[i + 1], comments, utf8).to)
        /\ run[i + 1].esc = EscAfter(run[i].point, run[i].esc, u[i + 1])
    BY <2>1 DEF Moves, Break
  <2>3. PointOf(Settled(run[i].point, u[i + 1], comments, utf8).to) # "lex"
    BY <2>1 DEF Moves, PointOf
  <2> QED BY <2>1, <2>2, <2>3 DEF LeadsTo, Moves
<1>6. run[j].point = "lex" <=> j = 0
  <2>1. CASE j = 0
    BY <2>1 DEF Retraces, Break
  <2>2. CASE j # 0
    <3>1. j - 1 \in Nat /\ j - 1 < n /\ (j - 1) + 1 = j
      BY <1>1, <2>2
    <3> QED BY <1>5, <2>2, <3>1
  <2> QED BY <2>1, <2>2
<1> QED BY <1>1, <1>2, <1>3, <1>5, <1>6 DEF Reachable
-----------------------------------------------------------------------------
(* What has been read of a number when a run has come to a point.          *)
NumberSays(p, u, k) ==
  /\ p = "minus" => k = 1 /\ u[1] = "-"
  /\ p = "zero" => IntegerTo(u, k)
  /\ p = "int" => \E b \in {1, 2} : (b = 2 => u[1] = "-") /\ AreDigits(u, b, k) /\ u[b] # "0"
  /\ p = "dot" => IntegerTo(u, k - 1) /\ u[k] = "." /\ k >= 2
  /\ p = "frac" => FractionTo(u, k)
  /\ p = "exp" => MantissaTo(u, k - 1) /\ u[k] \in {"e", "E"}
  /\ p = "expsign" => MantissaTo(u, k - 2) /\ u[k - 1] \in {"e", "E"} /\ u[k] \in {"+", "-"}
  /\ p = "expdig" => ExponentTo(u, k)

LEMMA MoreDigits ==
  ASSUME NEW u, NEW a \in Nat, NEW k \in Nat, AreDigits(u, a, k) \/ a = k + 1, u[k + 1] \in Digits
  PROVE  AreDigits(u, a, k + 1)
<1>1. ASSUME NEW j \in a..(k + 1) PROVE u[j] \in Digits
  <2>1. j = k + 1 \/ (j \in a..k /\ a # k + 1)
    OBVIOUS
  <2> QED BY <2>1 DEF AreDigits
<1> QED BY <1>1 DEF AreDigits

LEMMA NumberStep ==
  ASSUME NEW u, NEW k \in Nat, NEW q, NEW p, NEW c, c = u[k + 1],
         NumberSays(q, u, k), q = "lex" => k = 0,
         \/ p = "minus" /\ q = "lex" /\ c = "-"
         \/ p = "zero" /\ q \in {"lex", "minus"} /\ c = "0"
         \/ p = "int" /\ q \in {"lex", "minus"} /\ c = "1"
         \/ p = "int" /\ q = "int" /\ c \in Digits
         \/ p = "dot" /\ q \in {"zero", "int"} /\ c = "."
         \/ p = "frac" /\ q \in {"dot", "frac"} /\ c \in Digits
         \/ p = "exp" /\ q \in {"zero", "int", "frac"} /\ c \in {"e", "E"}
         \/ p = "expsign" /\ q = "exp" /\ c \in {"+", "-"}
         \/ p = "expdig" /\ q \in {"exp", "expsign", "expdig"} /\ c \in Digits
  PROVE  NumberSays(p, u, k + 1)
<1>1. q \in {"zero", "int"} => IntegerTo(u, k) /\ k >= 1
  BY DEF NumberSays, IntegerTo, AreDigits
<1>2. q = "frac" => FractionTo(u, k) /\ k >= 1
  BY DEF NumberSays, FractionTo
<1>3. (k + 1) - 1 = k /\ (k + 1) - 2 = k - 1
  OBVIOUS
<1>4. CASE p = "minus" /\ q = "lex" /\ c = "-"
  <2>1. k = 0 /\ k + 1 = 1
    BY <1>4
  <2> QED BY <1>4, <2>1 DEF NumberSays
<1>5. CASE q \in {"lex", "minus"} /\ c \in {"0", "1"} /\ p = (IF c = "0" THEN "zero" ELSE "int")
  <2>1. PICK b \in {1, 2} : k + 1 = b /\ (b = 2 => u[1] = "-")
    BY <1>5 DEF NumberSays
  <2>2. AreDigits(u, b, k + 1)
    BY <1>5, <2>1 DEF AreDigits, Digits
  <2> QED BY <1>5, <2>1, <2>2 DEF NumberSays, IntegerTo
<1>6. CASE p = "int" /\ q = "int" /\ c \in Digits
  <2>1. PICK b \in {1, 2} : (b = 2 => u[1] = "-") /\ AreDigits(u, b, k) /\ u[b] # "0"
    BY <1>6 DEF NumberSays
  <2>2. AreDigits(u, b, k + 1)
    BY <1>6, <2>1, MoreDigits
  <2> QED BY <1>6, <2>1, <2>2 DEF NumberSays
<1>7. CASE p = "dot" /\ q \in {"zero", "int"} /\ c = "."
  BY <1>1, <1>3, <1>7 DEF NumberSays
<1>8. CASE p = "frac" /\ q \in {"dot", "frac"} /\ c \in Digits
  <2>1. PICK i \in 2..(k + 1) : /\ IntegerTo(u, i - 1) /\ u[i] = "."
                                /\ AreDigits(u, i + 1, k) \/ i + 1 = k + 1
    <3>1. CASE q = "dot"
      <4>1. k \in 2..(k + 1)
        BY <3>1 DEF NumberSays
      <4> QED BY <3>1, <4>1 DEF NumberSays
    <3>2. CASE q = "frac"
      <4>1. PICK i \in 2..k : IntegerTo(u, i - 1) /\ u[i] = "." /\ AreDigits(u, i + 1, k)
        BY <1>2, <3>2 DEF FractionTo
      <4>2. i \in 2..(k + 1)
        OBVIOUS
      <4> QED BY <4>1, <4>2
    <3> QED BY <1>8, <3>1, <3>2
  <2>2. AreDigits(u, i + 1, k + 1)
    BY <1>8, <2>1, MoreDigits
  <2>3. FractionTo(u, k + 1)
    BY <2>1, <2>2 DEF FractionTo
  <2> QED BY <1>8, <2>3 DEF NumberSays
<1>9. CASE p = "exp" /\ q \in {"zero", "int", "frac"} /\ c \in {"e", "E"}
  <2>1. MantissaTo(u, k)
    BY <1>1, <1>2, <1>9 DEF MantissaTo
  <2> QED BY <1>3, <1>9, <2>1 DEF NumberSays
<1>10. CASE p = "expsign" /\ q = "exp" /\ c \in {"+", "-"}
  BY <1>3, <1>10 DEF NumberSays
<1>11. CASE p = "expdig" /\ q \in {"exp", "expsign", "expdig"} /\ c \in Digits
  <2>1. PICK m \in 1..(k + 1), b \in Nat :
          /\ MantissaTo(u, m) /\ u[m + 1] \in {"e", "E"} /\ b \in {m + 2, m + 3}
          /\ b = m + 3 => u[m + 2] \in {"+", "-"}
          /\ AreDigits(u, b, k) \/ b = k + 1
    <3>1. CASE q = "exp"
      <4>1. k - 1 >= 1 /\ MantissaTo(u, k - 1) /\ u[(k - 1) + 1] \in {"e", "E"}
        BY <3>1 DEF NumberSays, MantissaTo
      <4>2. k - 1 \in 1..(k + 1) /\ k + 1 = (k - 1) + 2 /\ k + 1 # (k - 1) + 3
        BY <4>1
      <4> QED BY <4>1, <4>2
    <3>2. CASE q = "expsign"
      <4>1. /\ k - 2 >= 1 /\ MantissaTo(u, k - 2) /\ u[(k - 2) + 1] \in {"e", "E"}
            /\ u[(k - 2) + 2] \in {"+", "-"}
        <5>1. (k - 2) + 1 = k - 1 /\ (k - 2) + 2 = k
          OBVIOUS
        <5> QED BY <3>2, <5>1 DEF NumberSays, MantissaTo
      <4>2. k - 2 \in 1..(k + 1) /\ k + 1 = (k - 2) + 3
        BY <4>1
      <4> QED BY <4>1, <4>2
    <3>3. CASE q = "expdig"
      <4>1. ExponentTo(u, k)
        BY <3>3 DEF NumberSays
      <4>2. PICK m \in 1..k : /\ MantissaTo(u, m) /\ u[m + 1] \in {"e", "E"}
                              /\ \E b \in {m + 2, m + 3} : /\ b = m + 3 => u[m + 2] \in {"+", "-"}
                                                          /\ AreDigits(u, b, k)
        BY <4>1 DEF ExponentTo
      <4>3. m \in 1..(k + 1) /\ m + 2 \in Nat /\ m + 3 \in Nat
        OBVIOUS
      <4> QED BY <4>2, <4>3
    <3> QED BY <1>11, <3>1, <3>2, <3>3
  <2>2. AreDigits(u, b, k + 1)
    <3>1. b \in Nat
      OBVIOUS
    <3> QED BY <1>11, <2>1, <3>1, MoreDigits
  <2>3. ExponentTo(u, k + 1)
    BY <2>1, <2>2 DEF ExponentTo
  <2> QED BY <1>11, <2>3 DEF NumberSays
<1> QED BY <1>4, <1>5, <1>6, <1>7, <1>8, <1>9, <1>10, <1>11

LEMMA NumberAlong ==
  ASSUME NEW run, NEW u \in Seq(Chars), NEW n \in 0..Len(u),
         NEW comments \in BOOLEAN, NEW utf8 \in BOOLEAN,
         Retraces(run, u, 0, n, comments, utf8)
  PROVE  NumberSays(run[n].point, u, n)
<1> DEFINE T == {k \in Nat : k <= n => NumberSays(run[k].point, u, k)}
<1>1. n \in Nat
  BY LenProperties
<1>2. 0 \in T
  BY DEF Retraces, Break, NumberSays
<1>3. ASSUME NEW k \in Nat, k \in T PROVE k + 1 \in T
  <2> SUFFICES ASSUME k + 1 <= n PROVE NumberSays(run[k + 1].point, u, k + 1)
    OBVIOUS
  <2>1. k < n /\ NumberSays(run[k].point, u, k)
    BY <1>1, <1>3
  <2>2. /\ run[k].point \in ReadPoints \ {"number"} /\ u[k + 1] \in Chars
        /\ run[k].point = "lex" <=> k = 0
        /\ run[k + 1].point \in ReadPoints \ {"number"}
        /\ LeadsTo(run[k].point, u[k + 1], run[k + 1].point, comments, utf8)
    <3>1. k < n
      BY <2>1
    <3> HIDE DEF T
    <3> QED BY <3>1, RunStep
  <2>3. CASE run[k + 1].point \in NumberPoints
    <3> DEFINE q == run[k].point
               p == run[k + 1].point
               c == u[k + 1]
    <3>1. \/ p = "minus" /\ q = "lex" /\ c = "-"
          \/ p = "zero" /\ q \in {"lex", "minus"} /\ c = "0"
          \/ p = "int" /\ q \in {"lex", "minus"} /\ c = "1"
          \/ p = "int" /\ q = "int" /\ c \in Digits
          \/ p = "dot" /\ q \in {"zero", "int"} /\ c = "."
          \/ p = "frac" /\ q \in {"dot", "frac"} /\ c \in Digits
          \/ p = "exp" /\ q \in {"zero", "int", "frac"} /\ c \in {"e", "E"}
          \/ p = "expsign" /\ q = "exp" /\ c \in {"+", "-"}
          \/ p = "expdig" /\ q \in {"exp", "expsign", "expdig"} /\ c \in Digits
      BY <2>2, <2>3, ToNumber
    <3> HIDE DEF q, p, c
    <3>2. NumberSays(p, u, k + 1)
      BY <2>1, <2>2, <3>1, NumberStep DEF q, c
    <3> QED BY <3>2 DEF p
  <2>4. CASE run[k + 1].point \notin NumberPoints
    BY <2>4 DEF NumberSays, NumberPoints
  <2> QED BY <2>3, <2>4
<1>4. Nat \subseteq T
  <2> HIDE DEF T
  <2> QED BY <1>2, <1>3, Induction
<1> QED BY <1>1, <1>4

(* The first n characters of u have been stepped through and the one after  *)
(* them completes a token.                                                 *)
Completes(run, u, n, comments, utf8, out) ==
  /\ u \in Seq(Chars) /\ n \in Nat /\ Len(u) = n + 1
  /\ comments \in BOOLEAN /\ utf8 \in BOOLEAN
  /\ Retraces(run, u, 0, n, comments, utf8)
  /\ out = Settled(run[n].point, u[n + 1], comments, utf8)
  /\ out.tok \notin {"none", "error"}

(* The character after a number ends it and is not part of it. *)
LEMMA NumberEnds ==
  ASSUME NEW run, NEW u, NEW n, NEW comments, NEW utf8, NEW out,
         Completes(run, u, n, comments, utf8, out), run[n].point \in NumberPoints \ {"number"}
  PROVE  /\ out.back = TRUE
         /\ \/ out.tok = "integer" /\ IsInteger(SubSeq(u, 1, n))
            \/ out.tok = "double" /\ IsDouble(SubSeq(u, 1, n))
<1> USE DEF Completes
<1> DEFINE q == run[n].point
           c == u[n + 1]
<1>1. NumberSays(q, u, n) /\ Len(u) \in Nat
  <2>1. n \in 0..Len(u)
    OBVIOUS
  <2> QED BY <2>1, NumberAlong
<1>2. q \in NumberPoints \ {"number"} /\ q \in ReadPoints /\ c \in Chars
  <2>1. n + 1 \in 1..Len(u)
    OBVIOUS
  <2> QED BY <2>1, ElementOfSeq DEF ReadPoints
<1>3. out = NumberChar(q, c)
  <2>1. out = ScanChr(q, c, comments, utf8)
    BY <1>2, TokenSettled
  <2> QED BY <1>2, <2>1
      DEF ScanChr, NumberPoints, LiteralPoints, StringPoints, Utf8Points
<1> HIDE DEF q, c
<1>4. /\ out.back = TRUE
      /\ \/ out.tok = "integer" /\ q \in {"zero", "int"}
         \/ out.tok = "double" /\ q \in {"frac", "expdig"}
  BY <1>2, <1>3 DEF NumberChar, NumberTail, NumberPoints, Go, TokBack, FailBack, Outcome
<1>5. q \in {"zero", "int"} => IntegerTo(u, n) /\ n >= 1
  BY <1>1 DEF NumberSays, IntegerTo, AreDigits
<1>6. q \in {"frac", "expdig"} => (FractionTo(u, n) \/ ExponentTo(u, n)) /\ n >= 1
  BY <1>1 DEF NumberSays, FractionTo, ExponentTo
<1>7. q \in {"zero", "int", "frac", "expdig"} => n \in 1..Len(u)
  BY <1>5, <1>6
<1>8. q \in {"zero", "int"} => IsInteger(SubSeq(u, 1, n))
  BY <1>5, <1>7, IntegerForm
<1>9. q \in {"frac", "expdig"} => IsDouble(SubSeq(u, 1, n))
  BY <1>6, <1>7, DoubleForm
<1> QED BY <1>4, <1>8, <1>9

(* The letters of a word that have been read. *)
LiteralSays(p, u, k) ==
  /\ p \in {"t1", "t2", "t3"} => u[1] = "t" /\ k \in 1..3
  /\ p \in {"t2", "t3"} => u[2] = "r"
  /\ p = "t3" => u[3] = "u" /\ k = 3
  /\ p = "t2" => k = 2
  /\ p = "t1" => k = 1
  /\ p \in {"f1", "f2", "f3", "f4"} => u[1] = "f"
  /\ p \in {"f2", "f3", "f4"} => u[2] = "a"
  /\ p \in {"f3", "f4"} => u[3] = "l"
  /\ p = "f4" => u[4] = "s" /\ k = 4
  /\ p = "f3" => k = 3
  /\ p = "f2" => k = 2
  /\ p = "f1" => k = 1
  /\ p \in {"n1", "n2", "n3"} => u[1] = "n"
  /\ p \in {"n2", "n3"} => u[2] = "u"
  /\ p = "n3" => u[3] = "l" /\ k = 3
  /\ p = "n2" => k = 2
  /\ p = "n1" => k = 1

LEMMA LiteralAlong ==
  ASSUME NEW run, NEW u \in Seq(Chars), NEW n \in 0..Len(u),
         NEW comments \in BOOLEAN, NEW utf8 \in BOOLEAN,
         Retraces(run, u, 0, n, comments, utf8)
  PROVE  LiteralSays(run[n].point, u, n)
<1> DEFINE T == {k \in Nat : k <= n => LiteralSays(run[k].point, u, k)}
<1>1. n \in Nat
  BY LenProperties
<1>2. 0 \in T
  BY DEF Retraces, Break, LiteralSays
<1>3. ASSUME NEW k \in Nat, k \in T PROVE k + 1 \in T
  <2> SUFFICES ASSUME k + 1 <= n PROVE LiteralSays(run[k + 1].point, u, k + 1)
    OBVIOUS
  <2>1. k < n /\ LiteralSays(run[k].point, u, k)
    BY <1>1, <1>3
  <2>2. /\ run[k].point \in ReadPoints \ {"number"} /\ u[k + 1] \in Chars
        /\ run[k].point = "lex" <=> k = 0
        /\ run[k + 1].point \in ReadPoints \ {"number"}
        /\ LeadsTo(run[k].point, u[k + 1], run[k + 1].point, comments, utf8)
    <3>1. k < n
      BY <2>1
    <3> HIDE DEF T
    <3> QED BY <3>1, RunStep
  <2> DEFINE q == run[k].point
             p == run[k + 1].point
             c == u[k + 1]
  <2>3. CASE p \in LiteralPoints
    <3>1. \/ q = "lex" /\ \/ p = "t1" /\ c = "t"
                          \/ p = "f1" /\ c = "f"
                          \/ p = "n1" /\ c = "n"
          \/ q \in DOMAIN LiteralNext /\ p = LiteralNext[q] /\ c = Want[q]
      BY <2>2, <2>3, ToLiteral
    <3>2. c = u[k + 1] /\ (q = "lex" => k = 0) /\ LiteralSays(q, u, k)
      BY <2>1, <2>2
    <3> HIDE DEF q, p, c
    <3>3. LiteralSays(p, u, k + 1)
      <4>1. CASE q = "lex"
        <5>1. k + 1 = 1
          BY <3>2, <4>1
        <5>2. q \notin DOMAIN LiteralNext
          BY <4>1 DEF LiteralNext
        <5> QED BY <3>1, <3>2, <4>1, <5>1, <5>2 DEF LiteralSays
      <4>2. CASE q \in DOMAIN LiteralNext /\ p = LiteralNext[q] /\ c = Want[q]
        <5>1. \/ q = "t1" /\ p = "t2" /\ c = "r"
              \/ q = "t2" /\ p = "t3" /\ c = "u"
              \/ q = "f1" /\ p = "f2" /\ c = "a"
              \/ q = "f2" /\ p = "f3" /\ c = "l"
              \/ q = "f3" /\ p = "f4" /\ c = "s"
              \/ q = "n1" /\ p = "n2" /\ c = "u"
              \/ q = "n2" /\ p = "n3" /\ c = "l"
          BY <4>2 DEF LiteralNext, Want
        <5>2. /\ q \in {"t1", "f1", "n1"} => k = 1 /\ k + 1 = 2
              /\ q \in {"t2", "f2", "n2"} => k = 2 /\ k + 1 = 3
              /\ q = "f3" => k = 3 /\ k + 1 = 4
          BY <3>2 DEF LiteralSays
        <5> QED BY <3>2, <5>1, <5>2 DEF LiteralSays
      <4> QED BY <3>1, <4>1, <4>2
    <3> QED BY <3>3 DEF p
  <2>4. CASE p \notin LiteralPoints
    BY <2>4 DEF LiteralSays, LiteralPoints
  <2> QED BY <2>3, <2>4
<1>4. Nat \subseteq T
  <2> HIDE DEF T
  <2> QED BY <1>2, <1>3, Induction
<1> QED BY <1>1, <1>4

LEMMA FourLetters ==
  ASSUME NEW u \in Seq(Chars), Len(u) = 4
  PROVE  u = <<u[1], u[2], u[3], u[4]>>
<1> DEFINE w == <<u[1], u[2], u[3], u[4]>>
<1>1. u[1] \in Chars /\ u[2] \in Chars /\ u[3] \in Chars /\ u[4] \in Chars
  <2>1. \A i \in 1..4 : u[i] \in Chars
    BY ElementOfSeq
  <2> QED BY <2>1
<1>2. w \in Seq(Chars) /\ Len(w) = 4 /\ \A i \in 1..4 : w[i] = u[i]
  BY <1>1
<1> HIDE DEF w
<1>3. w = u
  BY <1>2, SeqEqual
<1> QED BY <1>3 DEF w

LEMMA FiveLetters ==
  ASSUME NEW u \in Seq(Chars), Len(u) = 5
  PROVE  u = <<u[1], u[2], u[3], u[4], u[5]>>
<1> DEFINE w == <<u[1], u[2], u[3], u[4], u[5]>>
<1>1. u[1] \in Chars /\ u[2] \in Chars /\ u[3] \in Chars /\ u[4] \in Chars /\ u[5] \in Chars
  <2>1. \A i \in 1..5 : u[i] \in Chars
    BY ElementOfSeq
  <2> QED BY <2>1
<1>2. w \in Seq(Chars) /\ Len(w) = 5 /\ \A i \in 1..5 : w[i] = u[i]
  BY <1>1
<1> HIDE DEF w
<1>3. w = u
  BY <1>2, SeqEqual
<1> QED BY <1>3 DEF w

LEMMA LiteralEnds ==
  ASSUME NEW run, NEW u, NEW n, NEW comments, NEW utf8, NEW out,
         Completes(run, u, n, comments, utf8, out), run[n].point \in LiteralPoints
  PROVE  /\ out.back = FALSE
         /\ \/ out.tok = "bool" /\ u \in {<<"t","r","u","e">>, <<"f","a","l","s","e">>}
            \/ out.tok = "null" /\ u = <<"n","u","l","l">>
<1> USE DEF Completes
<1> DEFINE q == run[n].point
           c == u[n + 1]
<1>1. LiteralSays(q, u, n)
  <2>1. n \in 0..Len(u)
    OBVIOUS
  <2> QED BY <2>1, LiteralAlong
<1>2. q \in LiteralPoints /\ q \in ReadPoints /\ c \in Chars
  <2>1. n + 1 \in 1..Len(u)
    OBVIOUS
  <2> QED BY <2>1, ElementOfSeq DEF ReadPoints
<1>3. out = Literal(q, c)
  <2>1. out = ScanChr(q, c, comments, utf8)
    BY <1>2, TokenSettled
  <2> QED BY <1>2, <2>1 DEF ScanChr, LiteralPoints, StringPoints, Utf8Points, NumberPoints
<1>4. c = u[n + 1]
  OBVIOUS
<1> HIDE DEF q, c
<1>5. /\ out.back = FALSE /\ c = Want[q]
      /\ \/ out.tok = "bool" /\ q \in {"t3", "f4"}
         \/ out.tok = "null" /\ q = "n3"
  BY <1>2, <1>3 DEF Literal, LiteralPoints, Go, Tok, FailBack, Outcome
<1>6. CASE q = "t3"
  <2>1. n = 3 /\ n + 1 = 4
    BY <1>1, <1>6 DEF LiteralSays
  <2>2. Len(u) = 4 /\ u[1] = "t" /\ u[2] = "r" /\ u[3] = "u" /\ u[4] = "e"
    BY <1>1, <1>4, <1>5, <1>6, <2>1 DEF LiteralSays, Want
  <2>3. u = <<"t","r","u","e">>
    BY <2>2, FourLetters
  <2> QED BY <1>5, <1>6, <2>3
<1>7. CASE q = "f4"
  <2>1. n = 4 /\ n + 1 = 5
    BY <1>1, <1>7 DEF LiteralSays
  <2>2. Len(u) = 5 /\ u[1] = "f" /\ u[2] = "a" /\ u[3] = "l" /\ u[4] = "s" /\ u[5] = "e"
    BY <1>1, <1>4, <1>5, <1>7, <2>1 DEF LiteralSays, Want
  <2>3. u = <<"f","a","l","s","e">>
    BY <2>2, FiveLetters
  <2> QED BY <1>5, <1>7, <2>3
<1>8. CASE q = "n3"
  <2>1. n = 3 /\ n + 1 = 4
    BY <1>1, <1>8 DEF LiteralSays
  <2>2. Len(u) = 4 /\ u[1] = "n" /\ u[2] = "u" /\ u[3] = "l" /\ u[4] = "l"
    BY <1>1, <1>4, <1>5, <1>8, <2>1 DEF LiteralSays, Want
  <2>3. u = <<"n","u","l","l">>
    BY <2>2, FourLetters
  <2> QED BY <1>5, <1>8, <2>3
<1> QED BY <1>5, <1>6, <1>7, <1>8

-----------------------------------------------------------------------------
(* The way through the inside t of a string, from one quote to the other.  *)
StringPath(run, t, m, utf8) ==
  /\ run[1].point = "str" /\ run[1].esc = FALSE /\ run[m + 1].point = "str"
  /\ \A i \in 1..m : /\ StringMove(run[i].point, t[i], run[i + 1].point, utf8)
                     /\ run[i + 1].esc = EscAfter(run[i].point, run[i].esc, t[i])

LEMMA PathEscapes ==
  ASSUME NEW run, NEW t, NEW m \in Nat, Len(t) = m, NEW utf8, StringPath(run, t, m, utf8)
  PROVE  \A i \in 1..m : EscapedIn(t)[i] <=> run[i].point = "esc"
<1> DEFINE f == [i \in 0..m |-> i # 0 /\ run[i].point = "esc"]
<1>1. f \in [0..m -> BOOLEAN]
  OBVIOUS
<1>2. ASSUME NEW i \in 0..m PROVE f[i] <=> i > 1 /\ t[i - 1] = "bslash" /\ ~f[i - 1]
  <2>1. f[i] <=> i # 0 /\ run[i].point = "esc"
    OBVIOUS
  <2>2. CASE i = 0
    BY <2>1, <2>2
  <2>3. CASE i = 1
    BY <2>1, <2>3 DEF StringPath
  <2>4. CASE i > 1
    <3>1. i - 1 \in 1..m /\ i - 1 \in 0..m /\ (i - 1) + 1 = i /\ i # 0 /\ i - 1 # 0
      BY <2>4
    <3>2. f[i - 1] <=> run[i - 1].point = "esc"
      BY <3>1
    <3>3. StringMove(run[i - 1].point, t[i - 1], run[i].point, utf8)
      BY <3>1 DEF StringPath
    <3> HIDE DEF f
    <3>4. run[i].point = "esc" <=> t[i - 1] = "bslash" /\ run[i - 1].point # "esc"
      BY <3>3 DEF StringMove, VEC, VHC, Digits
    <3> QED BY <2>1, <2>4, <3>1, <3>2, <3>4
  <2> QED BY <2>2, <2>3, <2>4
<1>3. ASSUME NEW i \in 1..m PROVE f[i] <=> run[i].point = "esc"
  <2>1. i \in 0..m /\ i # 0
    OBVIOUS
  <2> QED BY <2>1
<1> HIDE DEF f
<1>4. \A i \in 0..Len(t) : EscapedIn(t)[i] <=> f[i]
  BY <1>1, <1>2, EscapedIs
<1> QED BY <1>3, <1>4

(* The bytes still due at a point. *)
Due(p) == CASE p = "utf8_1" -> 1 [] p = "utf8_2" -> 2 [] p = "utf8_3" -> 3 [] OTHER -> 0

LEMMA PathUtf8 ==
  ASSUME NEW run, NEW t, NEW m \in Nat, Len(t) = m, StringPath(run, t, m, TRUE)
  PROVE  IsUtf8(t)
<1> DEFINE T == {e \in Nat : e <= m => ValidSoFar(t, e, Due(run[e + 1].point))}
<1>1. 0 \in T
  BY DEF StringPath, Due, ValidSoFar
<1>2. ASSUME NEW e \in Nat, e \in T PROVE e + 1 \in T
  <2> SUFFICES ASSUME e + 1 <= m PROVE ValidSoFar(t, e + 1, Due(run[(e + 1) + 1].point))
    OBVIOUS
  <2> DEFINE q == run[e + 1].point
             p == run[(e + 1) + 1].point
             c == t[e + 1]
  <2>1. ValidSoFar(t, e, Due(q))
    BY <1>2
  <2>2. StringMove(q, c, p, TRUE)
    <3>1. e + 1 \in 1..m
      OBVIOUS
    <3> QED BY <3>1 DEF StringPath
  <2>3. c = t[e + 1]
    OBVIOUS
  <2> HIDE DEF T, q, p, c
  <2>4. Due(q) \in Nat /\ Due(p) \in Nat
    BY DEF Due
  <2>5. c # "bad8" /\ (c = "cont" <=> Due(q) # 0) /\ (Due(q) # 0 => Due(p) = Due(q) - 1)
    BY <2>2 DEF StringMove, Due, VEC, VHC, Digits, HighBytes
  <2>6. Due(q) = 0 => Due(p) = IF c \in DOMAIN Announced THEN Announced[c] ELSE 0
    <3>1. CASE c \in {"lead2", "lead3", "lead4"}
      BY <2>2, <3>1 DEF StringMove, Due, VEC, VHC, Digits, HighBytes, Announced
    <3>2. CASE c \notin {"lead2", "lead3", "lead4"}
      <4>1. c \notin DOMAIN Announced
        BY <3>2 DEF Announced
      <4>2. Due(q) = 0 => Due(p) = 0
        BY <2>2, <3>2 DEF StringMove, Due
      <4> QED BY <4>1, <4>2
    <3> QED BY <3>1, <3>2
  <2>7. ValidSoFar(t, e + 1, Due(p))
    BY <2>1, <2>3, <2>4, <2>5, <2>6, ValidByte DEF Leads
  <2> QED BY <2>7 DEF p
<1>3. Nat \subseteq T
  <2> HIDE DEF T
  <2> QED BY <1>1, <1>2, Induction
<1>4. ValidSoFar(t, m, Due(run[m + 1].point))
  BY <1>3
<1>5. Due(run[m + 1].point) = 0
  BY DEF StringPath, Due
<1>6. ValidSoFar(t, m, 0)
  BY <1>4, <1>5
<1>7. \A j \in 1..m : /\ t[j] # "bad8"
                      /\ t[j] = "cont" <=> \E i \in 1..m : Covers(t, i, j)
                      /\ Leads(t, j) => j + Announced[t[j]] <= m
  <2>1. m + 0 = m
    OBVIOUS
  <2> QED BY <1>6, <2>1 DEF ValidSoFar
<1> QED BY <1>7, Utf8Form

(* A backslash among the first e characters. *)
Seen(t, e) == \E i \in 1..e : t[i] = "bslash"
IfSeen(t, e) == IF Seen(t, e) THEN TRUE ELSE FALSE

LEMMA PathFlag ==
  ASSUME NEW run, NEW t, NEW m \in Nat, Len(t) = m, NEW utf8, StringPath(run, t, m, utf8)
  PROVE  run[m + 1].esc = (IF Contains(t, "bslash") THEN TRUE ELSE FALSE)
<1> DEFINE T == {e \in Nat : e <= m => /\ run[e + 1].esc = IfSeen(t, e)
                                       /\ run[e + 1].point = "esc" => Seen(t, e)}
<1>1. 0 \in T
  <2>1. ~Seen(t, 0)
    BY DEF Seen
  <2>2. 0 + 1 = 1 /\ "str" # "esc"
    OBVIOUS
  <2> QED BY <2>1, <2>2 DEF StringPath, IfSeen
<1>2. ASSUME NEW e \in Nat, e \in T PROVE e + 1 \in T
  <2> SUFFICES ASSUME e + 1 <= m
               PROVE  /\ run[(e + 1) + 1].esc = IfSeen(t, e + 1)
                      /\ run[(e + 1) + 1].point = "esc" => Seen(t, e + 1)
    OBVIOUS
  <2> DEFINE q == run[e + 1].point
             p == run[(e + 1) + 1].point
             c == t[e + 1]
  <2>1. run[e + 1].esc = IfSeen(t, e) /\ (q = "esc" => Seen(t, e))
    BY <1>2
  <2>2. StringMove(q, c, p, utf8) /\ run[(e + 1) + 1].esc = EscAfter(q, run[e + 1].esc, c)
    <3>1. e + 1 \in 1..m
      OBVIOUS
    <3> QED BY <3>1 DEF StringPath
  <2>3. Seen(t, e + 1) <=> Seen(t, e) \/ c = "bslash"
    <3>1. \A i \in 1..(e + 1) : i = e + 1 \/ i \in 1..e
      OBVIOUS
    <3>2. e + 1 \in 1..(e + 1) /\ \A i \in 1..e : i \in 1..(e + 1)
      OBVIOUS
    <3> QED BY <3>1, <3>2 DEF Seen
  <2> HIDE DEF T, q, p, c
  <2>4. q \in StringPoints
    BY <2>2 DEF StringMove, StringPoints, Utf8Points
  <2>5. c = "bslash" => q \in {"str", "esc"}
    BY <2>2 DEF StringMove, VHC, Digits
  <2>6. p = "esc" => c = "bslash"
    BY <2>2 DEF StringMove
  <2>7. EscAfter(q, run[e + 1].esc, c) = IfSeen(t, e + 1)
    <3>1. CASE Seen(t, e)
      BY <2>1, <2>3, <2>4, <3>1 DEF EscAfter, IfSeen
    <3>2. CASE ~Seen(t, e)
      <4>1. q = "str" /\ c = "bslash" <=> Seen(t, e + 1)
        BY <2>1, <2>3, <2>5, <3>2
      <4>2. run[e + 1].esc = FALSE
        BY <2>1, <3>2 DEF IfSeen
      <4> QED BY <2>4, <4>1, <4>2 DEF EscAfter, IfSeen
    <3> QED BY <3>1, <3>2
  <2> QED BY <2>2, <2>3, <2>6, <2>7 DEF p
<1>3. Nat \subseteq T
  <2> HIDE DEF T
  <2> QED BY <1>1, <1>2, Induction
<1>4. run[m + 1].esc = IfSeen(t, m)
  BY <1>3
<1>5. Seen(t, m) <=> Contains(t, "bslash")
  BY DEF Contains, Seen
<1> QED BY <1>4, <1>5 DEF IfSeen

LEMMA PathIsString ==
  ASSUME NEW run, NEW t, NEW m \in Nat, Len(t) = m, NEW utf8 \in BOOLEAN, StringPath(run, t, m, utf8)
  PROVE  IsString(t, utf8)
<1>1. \A i \in 1..m : StringMove(run[i].point, t[i], run[i + 1].point, utf8)
  BY DEF StringPath
<1>2. \A i \in 1..m : EscapedIn(t)[i] <=> run[i].point = "esc"
  BY PathEscapes
<1>3. run[m + 1].point = "str"
  BY DEF StringPath
<1>4. ASSUME NEW i \in 1..m, run[i + 1].point # "str" PROVE i + 1 \in 1..m
  <2>1. i # m
    BY <1>3, <1>4
  <2> QED BY <2>1
<1>5. ASSUME NEW i \in 1..m
      PROVE  /\ t[i] \notin Controls
             /\ t[i] = "quote" => run[i].point = "esc"
             /\ run[i].point = "esc" => t[i] \in VEC \cup {"u"}
             /\ run[i].point = "esc" /\ t[i] = "u" => run[i + 1].point = "hex4"
             /\ t[i] = "bslash" /\ run[i].point # "esc" => run[i + 1].point = "esc"
  <2>1. StringMove(run[i].point, t[i], run[i + 1].point, utf8)
    BY <1>1
  <2> QED BY <2>1 DEF StringMove, VEC, VHC, Digits, Controls
<1>6. ASSUME NEW i \in 1..m, run[i].point = "esc", t[i] = "u"
      PROVE  i + 4 <= m /\ \A j \in 1..4 : t[i + j] \in VHC
  <2>1. run[i + 1].point = "hex4" /\ i + 1 \in 1..m
    BY <1>4, <1>5, <1>6
  <2>2. \A k \in 1..m :
          /\ run[k].point = "hex4" => t[k] \in VHC /\ run[k + 1].point = "hex3"
          /\ run[k].point = "hex3" => t[k] \in VHC /\ run[k + 1].point = "hex2"
          /\ run[k].point = "hex2" => t[k] \in VHC /\ run[k + 1].point = "hex1"
          /\ run[k].point = "hex1" => t[k] \in VHC
    BY <1>1 DEF StringMove
  <2>3. t[i + 1] \in VHC /\ run[i + 2].point = "hex3" /\ i + 2 \in 1..m
    <3>1. (i + 1) + 1 = i + 2
      OBVIOUS
    <3>2. t[i + 1] \in VHC /\ run[i + 2].point = "hex3"
      BY <2>1, <2>2, <3>1
    <3> QED BY <1>4, <2>1, <3>1, <3>2
  <2>4. t[i + 2] \in VHC /\ run[i + 3].point = "hex2" /\ i + 3 \in 1..m
    <3>1. (i + 2) + 1 = i + 3
      OBVIOUS
    <3>2. t[i + 2] \in VHC /\ run[i + 3].point = "hex2"
      BY <2>2, <2>3, <3>1
    <3> QED BY <1>4, <2>3, <3>1, <3>2
  <2>5. t[i + 3] \in VHC /\ run[i + 4].point = "hex1" /\ i + 4 \in 1..m
    <3>1. (i + 3) + 1 = i + 4
      OBVIOUS
    <3>2. t[i + 3] \in VHC /\ run[i + 4].point = "hex1"
      BY <2>2, <2>4, <3>1
    <3> QED BY <1>4, <2>4, <3>1, <3>2
  <2>6. t[i + 4] \in VHC
    BY <2>2, <2>5
  <2>7. \A j \in 1..4 : j = 1 \/ j = 2 \/ j = 3 \/ j = 4
    OBVIOUS
  <2> QED BY <2>3, <2>4, <2>5, <2>6, <2>7
<1>7. ASSUME NEW i \in 1..m, t[i] = "bslash", run[i].point # "esc" PROVE i < m
  <2>1. i + 1 \in 1..m
    BY <1>4, <1>5, <1>7
  <2> QED BY <2>1
<1>8. utf8 => IsUtf8(t)
  <2> SUFFICES ASSUME utf8 PROVE IsUtf8(t)
    OBVIOUS
  <2>1. utf8 = TRUE
    OBVIOUS
  <2>2. StringPath(run, t, m, TRUE)
    BY <2>1
  <2> QED BY <2>2, PathUtf8
<1> HIDE DEF IsUtf8
<1>9. \A i \in 1..m :
        /\ t[i] \notin Controls
        /\ t[i] = "quote" => EscapedIn(t)[i]
        /\ EscapedIn(t)[i] => t[i] \in VEC \cup {"u"}
        /\ EscapedIn(t)[i] /\ t[i] = "u" => i + 4 <= m /\ \A j \in 1..4 : t[i + j] \in VHC
        /\ t[i] = "bslash" /\ ~EscapedIn(t)[i] => i < m
  BY <1>2, <1>5, <1>6, <1>7
<1> QED BY <1>8, <1>9 DEF IsString

LEMMA StringEnds ==
  ASSUME NEW run, NEW u, NEW n, NEW comments, NEW utf8, NEW out,
         Completes(run, u, n, comments, utf8, out), run[n].point \in StringPoints
  PROVE  /\ out.back = FALSE /\ out.tok = "string"
         /\ IsString(SubSeq(u, 2, n), utf8)
         /\ run[n].esc = (IF Contains(SubSeq(u, 2, n), "bslash") THEN TRUE ELSE FALSE)
<1> USE DEF Completes
<1> DEFINE q == run[n].point
           c == u[n + 1]
<1>1. q \in StringPoints /\ q \in ReadPoints /\ c \in Chars
  <2>1. n + 1 \in 1..Len(u)
    OBVIOUS
  <2> QED BY <2>1, ElementOfSeq DEF ReadPoints
<1>2. out = StringChar(q, c, utf8)
  <2>1. out = ScanChr(q, c, comments, utf8)
    BY <1>1, TokenSettled
  <2> QED BY <1>1, <2>1 DEF ScanChr, LiteralPoints, StringPoints, Utf8Points, NumberPoints
<1> HIDE DEF c
<1>3. out = Tok("string") /\ q = "str"
  <2> HIDE DEF q
  <2>1. CASE q \in Utf8Points
    BY <1>2, <2>1 DEF StringChar, Utf8Char, Utf8Points, Go, Fail, Outcome
  <2>2. CASE q = "str"
    <3>1. CASE c = "quote"
      BY <1>2, <2>2, <3>1 DEF StringChar, Utf8Points, Controls
    <3>2. CASE c # "quote"
      BY <1>2, <2>2, <3>2 DEF StringChar, Utf8Lead, Utf8Points, Go, Fail, FailBack, Outcome
    <3> QED BY <2>2, <3>1, <3>2
  <2>3. CASE q = "esc"
    BY <1>2, <2>3 DEF StringChar, Utf8Points, Go, Fail, FailBack, Outcome
  <2>4. CASE q \in {"hex4", "hex3", "hex2", "hex1"}
    BY <1>2, <2>4 DEF StringChar, Utf8Points, Go, Fail, FailBack, Outcome
  <2> QED BY <1>1, <2>1, <2>2, <2>3, <2>4 DEF StringPoints
<1>4. n >= 1 /\ n \in 0..Len(u) /\ Len(u) \in Nat
  <2>1. n # 0
    BY <1>3 DEF Retraces, Break
  <2> QED BY <2>1
<1>5. ASSUME NEW j \in Nat, j < n
      PROVE  /\ run[j].point \in ReadPoints /\ u[j + 1] \in Chars
             /\ run[j].point = "lex" => j = 0
             /\ LeadsTo(run[j].point, u[j + 1], run[j + 1].point, comments, utf8)
             /\ run[j + 1].esc = EscAfter(run[j].point, run[j].esc, u[j + 1])
  <2>1. n \in 0..Len(u)
    BY <1>4
  <2>2. /\ run[j].point \in ReadPoints \ {"number"} /\ u[j + 1] \in Chars
        /\ run[j].point = "lex" <=> j = 0
        /\ LeadsTo(run[j].point, u[j + 1], run[j + 1].point, comments, utf8)
        /\ run[j + 1].esc = EscAfter(run[j].point, run[j].esc, u[j + 1])
    BY <1>5, <2>1, RunStep
  <2> QED BY <2>2
<1>6. ASSUME NEW j \in Nat, j < n, run[j + 1].point \in StringPoints
      PROVE  \/ j = 0 /\ run[j + 1].point = "str"
             \/ StringMove(run[j].point, u[j + 1], run[j + 1].point, utf8)
  BY <1>5, <1>6, ToString
<1>7. \A j \in 1..n : run[j].point \in StringPoints
  <2> DEFINE T == {k \in Nat : k < n => run[n - k].point \in StringPoints}
  <2>1. 0 \in T
    <3>1. n - 0 = n
      OBVIOUS
    <3> QED BY <1>1, <3>1
  <2>2. ASSUME NEW k \in Nat, k \in T PROVE k + 1 \in T
    <3> SUFFICES ASSUME k + 1 < n PROVE run[n - (k + 1)].point \in StringPoints
      OBVIOUS
    <3>1. /\ n - (k + 1) \in Nat /\ n - (k + 1) < n /\ (n - (k + 1)) + 1 = n - k /\ n - (k + 1) # 0
          /\ k < n
      OBVIOUS
    <3>2. run[n - k].point \in StringPoints
      BY <2>2, <3>1
    <3>3. StringMove(run[n - (k + 1)].point, u[n - k], run[n - k].point, utf8)
      BY <1>6, <3>1, <3>2
    <3> QED BY <3>3 DEF StringMove, StringPoints, Utf8Points
  <2>3. Nat \subseteq T
    <3> HIDE DEF T
    <3> QED BY <2>1, <2>2, Induction
  <2>4. ASSUME NEW j \in 1..n PROVE run[j].point \in StringPoints
    <3>1. n - j \in Nat /\ n - j < n /\ n - (n - j) = j
      OBVIOUS
    <3>2. n - j \in T
      BY <2>3, <3>1
    <3> QED BY <3>1, <3>2
  <2> QED BY <2>4
<1> DEFINE t == SubSeq(u, 2, n)
<1>8. Len(t) = n - 1 /\ n - 1 \in Nat /\ (n - 1) + 1 = n /\ \A i \in 1..(n - 1) : t[i] = u[i + 1]
  <2>1. /\ 2 \in 1..(n + 1) /\ n - 2 + 1 = n - 1 /\ n - 1 \in Nat /\ (n - 1) + 1 = n
        /\ \A i \in 1..(n - 1) : 2 + i - 1 = i + 1
    BY <1>4
  <2>2. Len(t) = n - 2 + 1 /\ \A i \in 1..(n - 2 + 1) : t[i] = u[2 + i - 1]
    BY <1>4, <2>1, Excerpt
  <2> QED BY <2>1, <2>2
<1> HIDE DEF t, q
<1>9. StringPath(run, t, n - 1, utf8)
  <2>1. run[1].point = "str" /\ run[1].esc = FALSE
    <3>1. 0 \in Nat /\ 0 < n /\ 0 + 1 = 1 /\ 1 \in 1..n
      BY <1>4
    <3>2. run[0].point = "lex"
      BY DEF Retraces, Break
    <3>3. run[1].point = "str"
      BY <1>6, <1>7, <3>1, <3>2 DEF StringMove
    <3>4. run[1].esc = EscAfter(run[0].point, run[0].esc, u[1])
      BY <1>5, <3>1
    <3> QED BY <3>2, <3>3, <3>4 DEF EscAfter, StringPoints, Utf8Points
  <2>2. ASSUME NEW i \in 1..(n - 1)
        PROVE  /\ StringMove(run[i].point, t[i], run[i + 1].point, utf8)
               /\ run[i + 1].esc = EscAfter(run[i].point, run[i].esc, t[i])
    <3>1. i \in Nat /\ i < n /\ i # 0 /\ i + 1 \in 1..n
      BY <1>4
    <3> QED BY <1>5, <1>6, <1>7, <1>8, <3>1
  <2> QED BY <1>3, <1>8, <2>1, <2>2 DEF StringPath, q
<1>10. IsString(t, utf8)
  BY <1>8, <1>9, PathIsString
<1>11. run[(n - 1) + 1].esc = (IF Contains(t, "bslash") THEN TRUE ELSE FALSE)
  BY <1>8, <1>9, PathFlag
<1>12. out.back = FALSE /\ out.tok = "string"
  BY <1>3 DEF Tok, Outcome
<1> QED BY <1>8, <1>10, <1>11, <1>12 DEF t

-----------------------------------------------------------------------------
(* The text s is a lexeme of the kind tok announces. *)
IsLexeme(tok, s, utf8) ==
  CASE tok = "integer" -> IsInteger(s)
    [] tok = "double" -> IsDouble(s)
    [] tok = "string" -> IsString(s, utf8) /\ ~Contains(s, "bslash")
    [] tok = "string_with_escapes" -> IsString(s, utf8) /\ Contains(s, "bslash")
    [] tok = "bool" -> s \in {<<"t","r","u","e">>, <<"f","a","l","s","e">>}
    [] tok = "null" -> s = <<"n","u","l","l">>
    [] tok \in {"none", "eof", "error"} -> TRUE
    [] OTHER -> Len(s) = 1

LEMMA SwitchEnds ==
  ASSUME NEW c \in Chars, NEW comments \in BOOLEAN, NEW utf8 \in BOOLEAN,
         NEW out, out = Settled("lex", c, comments, utf8), out.tok \notin {"none", "error"}
  PROVE  out.back = FALSE /\ out.tok \in Punctuation
<1> USE DEF Go, Tok, Fail, FailBack, Outcome
<1>1. CASE c \in Digits \cup {"-"}
  <2>1. out = NumberChar("number", c)
    BY <1>1, SwitchMove
  <2> QED BY <2>1 DEF NumberChar
<1>2. CASE c \notin Digits \cup {"-"}
  <2>1. out = Dispatch(c, comments)
    BY <1>2, SwitchMove
  <2>2. CASE c \in Whitespace \cup {"t", "f", "n", "quote", "/"}
    <3>1. CASE c = "/"
      BY <1>2, <2>1, <3>1 DEF Dispatch, Whitespace, Digits
    <3>2. CASE c \in Whitespace
      BY <1>2, <2>1, <3>2 DEF Dispatch, Whitespace
    <3>3. CASE c = "t"
      BY <1>2, <2>1, <3>3 DEF Dispatch, Whitespace
    <3>4. CASE c = "f"
      BY <1>2, <2>1, <3>4 DEF Dispatch, Whitespace
    <3>5. CASE c = "n"
      BY <1>2, <2>1, <3>5 DEF Dispatch, Whitespace
    <3>6. CASE c = "quote"
      BY <1>2, <2>1, <3>6 DEF Dispatch, Whitespace
    <3> QED BY <2>2, <3>1, <3>2, <3>3, <3>4, <3>5, <3>6
  <2>3. CASE c \notin Whitespace \cup {"t", "f", "n", "quote", "/"}
    <3>1. out \in {Tok("left_bracket"), Tok("right_bracket"), Tok("left_brace"), Tok("right_brace"),
                   Tok("comma"), Tok("colon"), Fail("invalid_char")}
      <4> HIDE DEF Go, Tok, Fail, FailBack, Outcome
      <4> QED BY <1>2, <2>1, <2>3 DEF Dispatch
    <3> QED BY <3>1 DEF Punctuation
  <2> QED BY <2>2, <2>3
<1> QED BY <1>1, <1>2

LEMMA CommentEnds ==
  ASSUME NEW q \in CommentPoints, NEW c \in Chars, NEW comments \in BOOLEAN, NEW utf8 \in BOOLEAN,
         NEW out, out = Settled(q, c, comments, utf8)
  PROVE  out.tok \in {"none", "error"}
<1>1. ASSUME NEW p \in CommentPoints
      PROVE  ScanChr(p, c, comments, utf8).tok \in {"none", "error"}
  BY <1>1 DEF ScanChr, CommentChar, CommentPoints, LiteralPoints, StringPoints, Utf8Points,
     NumberPoints, Go, GoBack, Fail, Outcome
<1>2. CASE out.tok # "none"
  <2>1. q \in ReadPoints
    BY DEF ReadPoints
  <2>2. out = ScanChr(q, c, comments, utf8)
    BY <1>2, <2>1, TokenSettled
  <2> QED BY <1>1, <2>2
<1> QED BY <1>2

(* Where the run of a token ends, its text is a lexeme of its kind. *)
LEMMA RunEnds ==
  ASSUME NEW run, NEW u, NEW n, NEW comments, NEW utf8, NEW out,
         Completes(run, u, n, comments, utf8, out),
         NEW tok, tok = TokOf(out, run[n].esc),
         NEW s, s = IF out.back THEN SubSeq(u, 1, n) ELSE u
  PROVE  IsLexeme(tok, Lexeme(tok, s), utf8)
<1>1. /\ n \in 0..Len(u) /\ u[n + 1] \in Chars /\ Len(u) \in Nat
      /\ u \in Seq(Chars) /\ n \in Nat /\ Len(u) = n + 1 /\ comments \in BOOLEAN /\ utf8 \in BOOLEAN
      /\ Retraces(run, u, 0, n, comments, utf8)
      /\ out = Settled(run[n].point, u[n + 1], comments, utf8)
      /\ out.tok \notin {"none", "error"}
  BY ElementOfSeq DEF Completes
<1>2. run[n].point \in ReadPoints \ {"number"} /\ (run[n].point = "lex" => n = 0)
  <2>1. CASE n = 0
    BY <1>1, <2>1 DEF Retraces, Break, ReadPoints, NumberPoints
  <2>2. CASE n # 0
    <3>1. n - 1 \in Nat /\ n - 1 < n /\ (n - 1) + 1 = n
      BY <1>1, <2>2
    <3>2. /\ run[(n - 1) + 1].point \in ReadPoints \ {"number"}
          /\ LeadsTo(run[n - 1].point, u[(n - 1) + 1], run[(n - 1) + 1].point, comments, utf8)
      BY <1>1, <3>1, RunStep
    <3>3. run[(n - 1) + 1].point # "lex"
      BY <3>2 DEF LeadsTo, PointOf
    <3> QED BY <3>1, <3>2, <3>3
  <2> QED BY <2>1, <2>2
<1>3. CASE run[n].point = "lex"
  <2>1. out.back = FALSE /\ out.tok \in Punctuation
    <3>1. out = Settled("lex", u[n + 1], comments, utf8)
      BY <1>1, <1>3
    <3> QED BY <1>1, <3>1, SwitchEnds
  <2>2. Len(u) = 1
    BY <1>1, <1>2, <1>3
  <2>3. tok \in Punctuation /\ s = u
    BY <2>1 DEF TokOf, Punctuation
  <2>4. tok \notin {"string", "string_with_escapes", "integer", "double", "bool", "null"}
    BY <2>3 DEF Punctuation
  <2> QED BY <2>2, <2>3, <2>4 DEF IsLexeme, Lexeme, Punctuation
<1>4. CASE run[n].point \in LiteralPoints
  <2>1. /\ out.back = FALSE
        /\ \/ out.tok = "bool" /\ u \in {<<"t","r","u","e">>, <<"f","a","l","s","e">>}
           \/ out.tok = "null" /\ u = <<"n","u","l","l">>
    BY <1>4, LiteralEnds
  <2>2. CASE out.tok = "bool" /\ u \in {<<"t","r","u","e">>, <<"f","a","l","s","e">>}
    BY <2>1, <2>2 DEF TokOf, IsLexeme, Lexeme
  <2>3. CASE out.tok = "null" /\ u = <<"n","u","l","l">>
    BY <2>1, <2>3 DEF TokOf, IsLexeme, Lexeme
  <2> QED BY <2>1, <2>2, <2>3
<1>5. CASE run[n].point \in StringPoints
  <2>1. /\ out.back = FALSE /\ out.tok = "string"
        /\ IsString(SubSeq(u, 2, n), utf8)
        /\ run[n].esc = (IF Contains(SubSeq(u, 2, n), "bslash") THEN TRUE ELSE FALSE)
    BY <1>5, StringEnds
  <2>2. tok = IF Contains(SubSeq(u, 2, n), "bslash") THEN "string_with_escapes" ELSE "string"
    BY <2>1 DEF TokOf
  <2>3. Lexeme(tok, s) = SubSeq(u, 2, n)
    <3>1. s = u /\ Len(u) - 1 = n
      BY <1>1, <2>1
    <3> QED BY <2>2, <3>1 DEF Lexeme
  <2> QED BY <2>1, <2>2, <2>3 DEF IsLexeme
<1>6. CASE run[n].point \in NumberPoints
  <2>1. /\ out.back = TRUE
        /\ \/ out.tok = "integer" /\ IsInteger(SubSeq(u, 1, n))
           \/ out.tok = "double" /\ IsDouble(SubSeq(u, 1, n))
    BY <1>2, <1>6, NumberEnds
  <2>2. tok = out.tok /\ s = SubSeq(u, 1, n)
    BY <2>1 DEF TokOf
  <2>3. Lexeme(tok, s) = SubSeq(u, 1, n)
    BY <2>1, <2>2 DEF Lexeme
  <2> QED BY <2>1, <2>2, <2>3 DEF IsLexeme
<1>7. CASE run[n].point \in CommentPoints
  BY <1>1, <1>7, CommentEnds
<1> QED BY <1>2, <1>3, <1>4, <1>5, <1>6, <1>7 DEF ReadPoints

LEMMA LexemesForm ==
  TokensAreLexemes <=> IsLexeme(result.tok, result.lexeme, validate_utf8)
BY DEF TokensAreLexemes, IsLexeme

LEMMA LexemesFormNext ==
  TokensAreLexemes' <=> IsLexeme(result'.tok, result'.lexeme, validate_utf8')
BY DEF TokensAreLexemes, IsLexeme

LEMMA TokenIsLexeme == RInv /\ ReadsToken => TokensAreLexemes'
<1> SUFFICES ASSUME RInv, ReadsToken
             PROVE  IsLexeme(result'.tok, result'.lexeme, validate_utf8')
  BY LexemesFormNext
<1> USE DEF RInv
<1>1. PICK run : /\ Retraces(run, Stream, StartNow, Length, allow_comments, validate_utf8)
                 /\ Passes(run)
  BY DEF Retraced
<1>2. pc \in ReadPoints /\ offset < Len(text) /\ pc # "idle"
  BY DEF ReadsToken, ReadPoints, LiteralPoints, StringPoints, Utf8Points, NumberPoints, CommentPoints
<1>3. PICK out : /\ out = ScanChr(pc, Chr, allow_comments, validate_utf8)
                 /\ out.tok # "none" /\ Read(out, FlaggedTok(out))
  BY DEF ReadsToken
<1>4. /\ Base \in Nat /\ offset \in Nat /\ Len(text) \in Nat
      /\ StartNow \in Nat /\ Length \in Nat /\ StartNow + Length = Base + offset
      /\ (~Replaying => Here = Length)
  BY Positions
<1>5. /\ Chr \in Chars /\ allow_comments \in BOOLEAN /\ validate_utf8 \in BOOLEAN
      /\ EscHere \in BOOLEAN /\ Chr = Stream[StartNow + Here + 1]
  BY <1>2, ChrInStream DEF IInv, TypeOK, EscHere
<1>6. ~Replaying /\ Here = Length
  <2>1. ~Replaying
    BY <1>1, <1>2, <1>3, ReadFromRun
  <2> QED BY <1>4, <2>1
<1>7. Stands(run[Length], pc, EscHere, Chr) /\ run[Length] \in States
  BY <1>1, <1>2, <1>4, <1>6 DEF Passes, Retraces
<1>8. Settled(run[Length].point, Chr, allow_comments, validate_utf8) = out
  <2>1. Settled(run[Length].point, Chr, allow_comments, validate_utf8)
          = Settled(pc, Chr, allow_comments, validate_utf8)
    BY <1>2, <1>5, <1>7, StandsCases
  <2> QED BY <1>3, <2>1 DEF Settled
<1>9. FlaggedTok(out) = TokOf(out, run[Length].esc)
  <2>1. CASE out.tok # "string"
    BY <2>1 DEF FlaggedTok, TokOf
  <2>2. CASE out.tok = "string"
    <3>1. pc \in StringPoints
      BY <1>2, <1>3, <1>5, <2>2, ScanOutcome
    <3>2. run[Length] = Break(PointOf(pc), EscHere)
      BY <1>7, <3>1 DEF Stands, StringPoints, Utf8Points
    <3>3. run[Length].esc = EscHere
      BY <3>2 DEF Break
    <3> QED BY <2>2, <3>3 DEF FlaggedTok, TokOf
  <2> QED BY <2>1, <2>2
<1> DEFINE tok == FlaggedTok(out)
           off == NewOff(out.back)
           Token(o) == HeldPart \o SubSeq(text, start_off + 1, o)
<1>10. off \in offset..Len(text) /\ off = (IF out.back THEN offset ELSE offset + 1)
  <2>1. out \in Outcomes
    BY <1>2, <1>3, <1>5, ScanOutcome
  <2>2. out.back \in BOOLEAN
    BY <2>1 DEF Outcomes
  <2> QED BY <1>2, <1>6, <2>2, ReadIndices
<1>11. tok # "none" /\ (tok = "error" <=> out.tok = "error")
  BY <1>3 DEF FlaggedTok
<1> HIDE DEF tok, off
<1>12. Lexed(tok, off, NewBufOff(out.back)) /\ validate_utf8' = validate_utf8
  BY <1>3, <1>11 DEF Read, config, tok, off
<1>13. result'.tok = tok
  BY <1>12 DEF Lexed, Result
<1>14. CASE out.tok = "error"
  BY <1>11, <1>13, <1>14 DEF IsLexeme
<1>15. CASE out.tok # "error"
  <2>1. tok # "eof"
    <3>1. out.tok # "eof"
      BY <1>2, <1>3, <1>5, ScanOutcome
    <3> QED BY <3>1 DEF FlaggedTok, tok
  <2>2. result'.lexeme = Lexeme(tok, Token(off))
    BY <1>11, <1>12, <1>15, <2>1 DEF Lexed, Result
  <2>3. ASSUME NEW o \in offset..Len(text)
        PROVE  /\ Token(o) \in Seq(Chars) /\ Len(Token(o)) = Base + o - StartNow
               /\ \A i \in 1..Len(Token(o)) : Token(o)[i] = Stream[StartNow + i]
    BY <1>2, TokenText
  <2> DEFINE n == Length
             u == Token(offset + 1)
  <2> HIDE DEF Token, Base, StartNow, Length
  <2>4. u \in Seq(Chars) /\ Len(u) = n + 1 /\ \A i \in 1..(n + 1) : u[i] = Stream[StartNow + i]
    <3>1. offset + 1 \in offset..Len(text) /\ Base + (offset + 1) - StartNow = Length + 1
      BY <1>2, <1>4
    <3> QED BY <2>3, <3>1
  <2> HIDE DEF u
  <2>5. Retraces(run, u, 0, n, allow_comments, validate_utf8)
    <3>1. \A i \in 1..n : u[0 + i] = Stream[StartNow + i]
      BY <1>4, <2>4
    <3> QED BY <1>1, <3>1 DEF Retraces
  <2>6. u[n + 1] = Chr
    <3>1. n + 1 \in 1..(n + 1) /\ StartNow + (n + 1) = StartNow + Here + 1
      BY <1>4, <1>6
    <3> QED BY <1>5, <2>4, <3>1
  <2>7. Token(off) = IF out.back THEN SubSeq(u, 1, n) ELSE u
    <3>1. CASE out.back
      <4>1. /\ Token(off) \in Seq(Chars) /\ Len(Token(off)) = n
            /\ \A i \in 1..n : Token(off)[i] = Stream[StartNow + i]
        <5>1. off = offset /\ Base + off - StartNow = n
          BY <1>4, <1>10, <3>1
        <5> QED BY <1>10, <2>3, <5>1
      <4>2. /\ SubSeq(u, 1, n) \in Seq(Chars) /\ Len(SubSeq(u, 1, n)) = n
            /\ \A i \in 1..n : SubSeq(u, 1, n)[i] = u[i]
        <5>1. n \in 0..Len(u) /\ 1 \in 1..(n + 1) /\ n - 1 + 1 = n /\ \A i \in 1..n : 1 + i - 1 = i
          BY <1>4, <2>4
        <5>2. /\ SubSeq(u, 1, n) \in Seq(Chars) /\ Len(SubSeq(u, 1, n)) = n - 1 + 1
              /\ \A i \in 1..(n - 1 + 1) : SubSeq(u, 1, n)[i] = u[1 + i - 1]
          BY <2>4, <5>1, Excerpt
        <5> QED BY <5>1, <5>2
      <4>3. \A i \in 1..n : i \in 1..(n + 1)
        BY <1>4
      <4>4. \A i \in 1..n : Token(off)[i] = SubSeq(u, 1, n)[i]
        BY <2>4, <4>1, <4>2, <4>3
      <4>5. Token(off) = SubSeq(u, 1, n)
        BY <4>1, <4>2, <4>4, SeqEqual
      <4> QED BY <3>1, <4>5
    <3>2. CASE ~out.back
      BY <1>10, <3>2 DEF u
    <3> QED BY <3>1, <3>2
  <2>8. n \in Nat /\ tok = TokOf(out, run[n].esc)
    BY <1>4, <1>9 DEF tok
  <2> HIDE DEF n
  <2>9. IsLexeme(tok, Lexeme(tok, Token(off)), validate_utf8)
    <3>1. out = Settled(run[n].point, u[n + 1], allow_comments, validate_utf8)
      BY <1>8, <2>6 DEF n
    <3>2. out.tok \notin {"none", "error"}
      BY <1>3, <1>15
    <3>3. Completes(run, u, n, allow_comments, validate_utf8, out)
      BY <1>5, <2>4, <2>5, <2>8, <3>1, <3>2 DEF Completes
    <3> HIDE DEF RInv
    <3> QED BY <2>7, <2>8, <3>3, RunEnds
  <2> QED BY <1>12, <1>13, <2>2, <2>9
<1> QED BY <1>14, <1>15

(* A step that does not return leaves the last result. *)
LEMMA ResultStays ==
  ASSUME Next, ~(pc # "idle" /\ pc' = "idle")
  PROVE  result' = result /\ validate_utf8' = validate_utf8
<1>1. Step => pc # "idle"
  BY StepLeaves
<1>2. ASSUME NEW out, NEW tok, pc # "idle", Read(out, tok) PROVE result' = result /\ UNCHANGED config
  BY <1>2 DEF Read, Lexed
<1>3. CASE EndOfChunk
  BY <1>1, <1>3 DEF EndOfChunk, Lexed, Step
<1>4. CASE LexSwitch
  BY <1>1, <1>2, <1>4 DEF LexSwitch, Step, config
<1>5. CASE LexLiteral
  BY <1>1, <1>2, <1>5 DEF LexLiteral, Step, config
<1>6. CASE StringScan
  BY <1>6 DEF StringScan, config
<1>7. CASE LexString
  BY <1>1, <1>2, <1>7 DEF LexString, Step, config
<1>8. CASE LexNumber
  BY <1>1, <1>2, <1>8 DEF LexNumber, Step, config
<1>9. CASE LexComment
  BY <1>1, <1>2, <1>9 DEF LexComment, Step, config
<1>10. CASE Lex \/ Finalize \/ \E n \in 0..Len(input) : NextChunk(n)
  BY <1>10 DEF Lex, Finalize, NextChunk, config
<1> QED BY <1>3, <1>4, <1>5, <1>6, <1>7, <1>8, <1>9, <1>10 DEF Next, Step

LEMMA NextIsLexeme == RInv /\ TokensAreLexemes /\ [Next]_vars => TokensAreLexemes'
<1> SUFFICES ASSUME RInv, TokensAreLexemes, [Next]_vars PROVE TokensAreLexemes'
  OBVIOUS
<1>1. CASE UNCHANGED vars
  BY <1>1, LexemesForm, LexemesFormNext DEF vars, config
<1>2. CASE Next /\ pc # "idle" /\ pc' = "idle"
  <2>1. EndOfChunk \/ ReadsToken
    BY <1>2, WaysToReturn DEF RInv
  <2>2. CASE EndOfChunk
    <3>1. result'.tok = "eof"
      BY <2>2 DEF EndOfChunk, Lexed, Result
    <3> QED BY <3>1, LexemesFormNext DEF IsLexeme
  <2>3. CASE ReadsToken
    BY <2>3, TokenIsLexeme
  <2> QED BY <2>1, <2>2, <2>3
<1>3. CASE Next /\ ~(pc # "idle" /\ pc' = "idle")
  <2>1. result' = result /\ validate_utf8' = validate_utf8
    BY <1>3, ResultStays
  <2> QED BY <2>1, LexemesForm, LexemesFormNext
<1> QED BY <1>1, <1>2, <1>3

(* What a token carries is a lexeme of its kind in the JSON grammar, for    *)
(* every input and every way of cutting it into chunks; a string is flagged *)
(* with_escapes exactly when it holds a backslash, so jhn_lexer_lex() never *)
(* makes the parser decode a string in vain or deliver one undecoded.       *)
THEOREM LexemesAlways == Spec => []TokensAreLexemes
<1>1. Init => RInv /\ TokensAreLexemes
  <2>1. Init => RInv
    BY InitRefines
  <2>2. Init => TokensAreLexemes
    BY DEF Init, Nothing, Result, TokensAreLexemes
  <2> QED BY <2>1, <2>2
<1>2. RInv /\ TokensAreLexemes /\ [Next]_vars => RInv' /\ TokensAreLexemes'
  BY NextRefines, NextIsLexeme
<1> QED BY <1>1, <1>2, PTL DEF Spec
=============================================================================
