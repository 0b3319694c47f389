--------------------------- MODULE ParseInteger ---------------------------
(***************************************************************************)
(* parse_integer() and the test its caller makes, for a long long of any   *)
(* width.  The text is a lexeme of an integer: a sign perhaps, then digits *)
(* with no idle zero before them.  One action for each turn of the loop.   *)
(***************************************************************************)
EXTENDS Integers

CONSTANT LLONG_MAX

(* At least as wide as a signed char. *)
ASSUME WidthAssumption == LLONG_MAX \in Nat /\ LLONG_MAX >= 127

LLONG_MIN == -LLONG_MAX - 1

VARIABLES sign,     \* 1 or -1
          ret,      \* what has been converted
          exact,    \* history: the value of the digits read, of any size
          outcome   \* "sign", then "reading", then how the caller goes on

number == <<sign, ret, exact, outcome>>

IntegerOutcomes == {"sign", "reading", "integer", "overflow"}

(* The signed overflow of a product or a difference wraps around in every  *)
(* build the repository has; the tests below are relied on to catch it.    *)
Wrap(n) ==
  LET width == 2 * (LLONG_MAX + 1) IN ((n - LLONG_MIN) % width) + LLONG_MIN

MAX_VALUE_TO_MULTIPLY == (LLONG_MAX \div 10) + (LLONG_MAX % 10)

(* Mutant: only what is multiplied is tested. *)
TooBigBefore(digit) == ret > MAX_VALUE_TO_MULTIPLY

TooBig(digit) ==
  \/ ret > MAX_VALUE_TO_MULTIPLY
  \/ Wrap(LLONG_MAX - Wrap(ret * 10)) < digit

IntegerInit ==
  /\ sign \in {1, -1}
  /\ ret = 0 /\ exact = 0
  /\ outcome = "sign"

(* The lexer lets a first digit 0 be only if no other digit follows it. *)
Digit(digit) ==
  /\ outcome \in {"sign", "reading"}
  /\ exact = 0 => outcome = "sign"
  /\ exact' = exact * 10 + digit
  /\ IF TooBig(digit)
     THEN outcome' = "overflow" /\ ret' = IF sign = 1 THEN LLONG_MAX ELSE LLONG_MIN
     ELSE outcome' = "reading" /\ ret' = Wrap(Wrap(ret * 10) + digit)
  /\ UNCHANGED sign

Signed == Wrap(sign * ret)

(* The caller asks errno too, so that LLONG_MAX itself is no overflow. *)
Deliver ==
  /\ outcome = "reading"
  /\ outcome' = "integer"
  /\ ret' = Signed
  /\ UNCHANGED <<sign, exact>>

IntegerNext == Deliver \/ \E digit \in 0..9 : Digit(digit)

IntegerSpec == IntegerInit /\ [][IntegerNext]_number
-----------------------------------------------------------------------------
IntegerTypeOK ==
  /\ sign \in {1, -1} /\ exact \in Nat
  /\ ret \in LLONG_MIN..LLONG_MAX
  /\ outcome \in IntegerOutcomes
  /\ outcome \in {"sign", "reading"} => ret >= 0

(* The client gets the number that was written, whatever wrapped around on *)
(* the way: no text of an integer becomes another integer, and one is      *)
(* refused only if its digits exceed the largest number.                   *)
DeliversWhatIsWritten ==
  /\ outcome = "reading" => ret = exact
  /\ outcome = "integer" => ret = sign * exact
  /\ outcome = "overflow" => exact > LLONG_MAX

(* The comment above parse_integer() promises "same semantics as strtol"   *)
(* (parser.c:55), which refuses what a long long cannot represent and      *)
(* nothing else.  It does not hold, and no run checks it: the smallest     *)
(* long long is refused.                                                   *)
RefusesOnlyUnrepresentable ==
  outcome = "overflow" => sign * exact \notin LLONG_MIN..LLONG_MAX
=============================================================================
