---------------------------- MODULE JsonGrammar ----------------------------
(***************************************************************************)
(* The grammar of JSON over the words of module Parser, as sets of word    *)
(* sequences: the reference that the state machines of do_parse() and of   *)
(* the generator are compared with.                                        *)
(***************************************************************************)
EXTENDS Integers, Sequences

(* One of d, a comma and a list of e, n words together.                     *)
Joined(A, B) == {s \o <<"comma">> \o r : s \in A, r \in B}

Lists(d, one, e, list, n) == UNION {Joined(d[i][one], e[n - 1 - i][list]) : i \in 1..(n - 1)}

(* What a container of n words has inside, and the members of n words.      *)
Inside(d, list, n) == IF n < 2 THEN {} ELSE IF n = 2 THEN {<<>>} ELSE d[n - 2][list]

Enclosed(left, S, right) == {<<left>> \o s \o <<right>> : s \in S}

Keyed(d, n) == IF n < 3 THEN {} ELSE {<<"string", "colon">> \o v : v \in d[n - 2]["value"]}

(* The values, the members of a map, the comma-separated elements of an     *)
(* array and members of a map that are exactly n words long, made of        *)
(* shorter ones.                                                            *)
Derived(d, n) ==
  LET value ==
        (IF n = 1 THEN {<<"scalar">>, <<"string">>} ELSE {})
          \cup Enclosed("left_brace", Inside(d, "elements", n), "right_brace")
          \cup Enclosed("left_bracket", Inside(d, "members", n), "right_bracket")
  IN [value |-> value,
      member |-> Keyed(d, n),
      elements |-> value \cup Lists(d, "value", d, "elements", n),
      members |-> Keyed(d, n) \cup Lists(d, "member", d, "members", n)]

Derivable(bound) == LET derive[n \in 0..bound] == Derived(derive, n) IN derive

Values(bound) == LET d == Derivable(bound) IN UNION {d[n]["value"] : n \in 1..bound}

(* The beginnings, n words long and with at least one word, of what d has   *)
(* whole.                                                                   *)
BegunValue(d, b, n) ==
  d[n]["value"]
    \cup {<<"left_brace">> \o s : s \in b[n - 1]["elements"]}
    \cup {<<"left_bracket">> \o s : s \in b[n - 1]["members"]}

BegunKeyed(b, n) ==
  IF n = 1 THEN {<<"string">>} ELSE {<<"string", "colon">> \o v : v \in b[n - 2]["value"]}

Begun(d, b, n) ==
  IF n = 0 THEN [value |-> {<<>>}, elements |-> {<<>>}, members |-> {<<>>}]
  ELSE [value |-> BegunValue(d, b, n),
        elements |-> BegunValue(d, b, n) \cup Lists(d, "value", b, "elements", n),
        members |-> BegunKeyed(b, n) \cup Lists(d, "member", b, "members", n)]

Beginnable(bound) ==
  LET whole == Derivable(bound)
      begin[n \in 0..bound] == Begun(whole, begin, n)
  IN begin

(* The beginnings, of at most bound words, of all documents.                *)
Beginnings(bound) == LET b == Beginnable(bound) IN UNION {b[n]["value"] : n \in 0..bound}
=============================================================================
