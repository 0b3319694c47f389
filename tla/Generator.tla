----------------------------- MODULE Generator -----------------------------
(***************************************************************************)
(* The generator of src/src/gen.c: the client hands over a document call   *)
(* by call and the generator supplies brackets, commas and colons.  One    *)
(* action is one jhn_gen_*() call.  White space (beautify, the indent      *)
(* string, the separator of reset) stands between words and is left out;   *)
(* what is printed is a sequence of the words of module JsonGrammar.       *)
(***************************************************************************)
EXTENDS Integers, Sequences

CONSTANTS
  JHN_MAX_DEPTH,
  UINT_MAX,       \* of the unsigned depth
  MaxWords,       \* bound: words printed before the client resets
  Disciplined     \* the client closes only what it opened, and resets after
                  \* the depth was exceeded

ASSUME GeneratorAssumption ==
  /\ JHN_MAX_DEPTH \in Nat \ {0} /\ UINT_MAX \in Nat /\ UINT_MAX > JHN_MAX_DEPTH
  /\ MaxWords \in Nat /\ Disciplined \in BOOLEAN

VARIABLES
  \* struct jhn_gen_s
  depth, state, validate_utf8,
  printed,     \* the words printed since the last reset
  status,      \* what the last call returned
  \* history: the containers the client has begun, and whether it owes a value
  open, owes

document == <<printed, open, owes>>
vars == <<depth, state, validate_utf8, document, status>>

States == {"start", "map_start", "map_key", "map_val", "array_start", "in_array",
           "complete", "error"}

Statuses == {"ok", "keys_must_be_strings", "max_depth_exceeded", "in_error_state",
             "generation_complete", "invalid_number", "invalid_string"}

Words == {"string", "scalar", "comma", "colon", "left_bracket", "right_bracket",
          "left_brace", "right_brace"}
Closer(container) == IF container = "map" THEN "right_bracket" ELSE "right_brace"
Opener(container) == IF container = "map" THEN "left_bracket" ELSE "left_brace"

-----------------------------------------------------------------------------
(* g->state[g->depth]; beyond the array it is whatever lies there, and what *)
(* is stored there is lost.                                                 *)
Here == IF depth < JHN_MAX_DEPTH THEN {state[depth]} ELSE States
Store(d, s) == IF d < JHN_MAX_DEPTH THEN [state EXCEPT ![d] = s] ELSE state

(* ENSURE_VALID_STATE *)
Valid(s) ==
  CASE s = "error" -> "in_error_state"
    [] s = "complete" -> "generation_complete"
    [] OTHER -> "ok"

(* ENSURE_VALID_STATE; ENSURE_NOT_KEY.  Mutants: only a map's first key     *)
(* must be a string; all that is in a map must be.                          *)
NotFirstKey(s) == IF s = "map_start" THEN "keys_must_be_strings" ELSE Valid(s)
NotInMap(s) ==
  IF s \in {"map_key", "map_start", "map_val"} THEN "keys_must_be_strings" ELSE Valid(s)
NotKey(s) == IF s \in {"map_key", "map_start"} THEN "keys_must_be_strings" ELSE Valid(s)

(* INSERT_SEP *)
Separator(s) ==
  CASE s \in {"map_key", "in_array"} -> <<"comma">>
    [] s = "map_val" -> <<"colon">>
    [] OTHER -> <<>>

(* APPENDED_ATOM.  Mutant: only the first key of a map makes a value due.   *)
AppendedFirstKey(s) ==
  CASE s = "start" -> "complete"
    [] s = "map_start" -> "map_val"
    [] s = "array_start" -> "in_array"
    [] s = "map_val" -> "map_key"
    [] OTHER -> s
Appended(s) ==
  CASE s = "start" -> "complete"
    [] s \in {"map_start", "map_key"} -> "map_val"
    [] s = "array_start" -> "in_array"
    [] s = "map_val" -> "map_key"
    [] OTHER -> s

(* INCREMENT_DEPTH and when it fails.  Mutant: the limit is off by one.     *)
Incremented == IF depth = UINT_MAX THEN 0 ELSE depth + 1
TooDeepByOne(d) == d > JHN_MAX_DEPTH
TooDeep(d) == d >= JHN_MAX_DEPTH

(* DECREMENT_DEPTH *)
Decremented == IF depth = 0 THEN UINT_MAX ELSE depth - 1

(* The client. *)
InMap == open # <<>> /\ open[Len(open)] = "map"
MayGenerate ==
  /\ Len(printed) + 2 <= MaxWords
  /\ Disciplined => status # "max_depth_exceeded"
MayClose(container) ==
  Disciplined => open # <<>> /\ open[Len(open)] = container /\ ~owes

Refused(why) ==
  /\ status' = why
  /\ UNCHANGED <<depth, state, validate_utf8, document>>

-----------------------------------------------------------------------------
(* What the value functions share after their checks; a string is a key     *)
(* when a map is open that no value is owed to.                             *)
Append1(word, s) ==
  /\ printed' = printed \o Separator(s) \o <<word>>
  /\ state' = Store(depth, Appended(s))
  /\ owes' = (word = "string" /\ InMap /\ ~owes)
  /\ status' = "ok"
  /\ UNCHANGED <<depth, validate_utf8, open>>

(* jhn_gen_integer(), jhn_gen_number(), jhn_gen_null(), jhn_gen_bool() *)
Scalar ==
  /\ MayGenerate
  /\ \E s \in Here : IF NotKey(s) = "ok" THEN Append1("scalar", s) ELSE Refused(NotKey(s))

(* jhn_gen_double(), which refuses what JSON has no number for *)
Double(finite) ==
  /\ MayGenerate
  /\ \E s \in Here :
       CASE NotKey(s) # "ok" -> Refused(NotKey(s))
         [] NotKey(s) = "ok" /\ ~finite -> Refused("invalid_number")
         [] OTHER -> Append1("scalar", s)

(* jhn_gen_string(), for keys and values; the string is looked at first *)
String(utf8) ==
  /\ MayGenerate
  /\ \E s \in Here :
       CASE validate_utf8 /\ ~utf8 -> Refused("invalid_string")
         [] (utf8 \/ ~validate_utf8) /\ Valid(s) # "ok" -> Refused(Valid(s))
         [] OTHER -> Append1("string", s)

(* jhn_gen_map_open(), jhn_gen_array_open(): the separator is printed and   *)
(* the depth incremented before the depth is found to be exceeded.          *)
OpenContainer(container) ==
  /\ MayGenerate
  /\ \E s \in Here :
       IF NotKey(s) # "ok" THEN Refused(NotKey(s))
       ELSE
         /\ depth' = Incremented
         /\ UNCHANGED validate_utf8
         /\ IF TooDeep(Incremented)
              THEN /\ printed' = printed \o Separator(s)
                   /\ status' = "max_depth_exceeded"
                   /\ UNCHANGED <<state, open, owes>>
              ELSE /\ printed' = printed \o Separator(s) \o <<Opener(container)>>
                   /\ state' = Store(Incremented, IF container = "map" THEN "map_start"
                                                  ELSE "array_start")
                   /\ status' = "ok"
                   /\ open' = Append(open, container) /\ owes' = FALSE

(* jhn_gen_map_close(), jhn_gen_array_close(): neither looks at what is open *)
CloseContainer(container) ==
  /\ MayGenerate /\ MayClose(container)
  /\ \E s \in Here :
       IF Valid(s) # "ok" THEN Refused(Valid(s))
       ELSE
         /\ depth' = Decremented
         /\ UNCHANGED validate_utf8
         /\ IF Decremented >= JHN_MAX_DEPTH
              THEN /\ status' = "generation_complete"
                   /\ UNCHANGED <<state, document>>
              ELSE /\ state' = Store(Decremented, Appended(state[Decremented]))
                   /\ printed' = Append(printed, Closer(container))
                   /\ status' = "ok"
                   /\ open' = IF open = <<>> THEN open ELSE SubSeq(open, 1, Len(open) - 1)
                   /\ owes' = FALSE

(* jhn_gen_reset(); it returns nothing, status is as before the first call. *)
Reset ==
  /\ depth' = 0 /\ state' = [d \in 0..(JHN_MAX_DEPTH - 1) |-> "start"]
  /\ printed' = <<>> /\ open' = <<>> /\ owes' = FALSE /\ status' = "ok"
  /\ UNCHANGED validate_utf8

(* jhn_gen_config(): the one option that decides what is refused *)
Config ==
  /\ validate_utf8' \in BOOLEAN
  /\ UNCHANGED <<depth, state, document, status>>

-----------------------------------------------------------------------------
(* jhn_gen_alloc() *)
Init ==
  /\ depth = 0 /\ state = [d \in 0..(JHN_MAX_DEPTH - 1) |-> "start"]
  /\ validate_utf8 = FALSE
  /\ printed = <<>> /\ open = <<>> /\ owes = FALSE /\ status = "ok"

Next ==
  \/ Scalar
  \/ \E good \in BOOLEAN : Double(good) \/ String(good)
  \/ \E container \in {"map", "array"} : OpenContainer(container) \/ CloseContainer(container)
  \/ Reset
  \/ Config

Spec == Init /\ [][Next]_vars

-----------------------------------------------------------------------------
(* Types; a disciplined client never has more containers open than state[]  *)
(* has room for below the document's own cell.                              *)
TypeOK ==
  /\ depth \in 0..UINT_MAX /\ state \in [0..(JHN_MAX_DEPTH - 1) -> States]
  /\ validate_utf8 \in BOOLEAN /\ status \in Statuses
  /\ printed \in Seq(Words) /\ open \in Seq({"map", "array"}) /\ owes \in BOOLEAN
  /\ Disciplined => Len(open) < JHN_MAX_DEPTH

(* The states in which a container may be waiting for what comes next.      *)
StatesOf(container, value_due) ==
  CASE container = "map" /\ value_due -> {"map_val"}
    [] container = "map" /\ ~value_due -> {"map_start", "map_key"}
    [] OTHER -> {"array_start", "in_array"}

(* For a disciplined client depth counts the open containers, so that it    *)
(* always indexes state[] unless it was just refused for being exceeded,    *)
(* and each cell fits its container: the innermost as far as it has got,    *)
(* the others waiting for the value that is being generated inside them.    *)
DepthMirrorsNesting ==
  Disciplined =>
    /\ IF status = "max_depth_exceeded" THEN depth = Len(open) + 1 ELSE depth = Len(open)
    /\ open # <<>> => state[0] = "start"
    /\ open = <<>> => state[0] \in {"start", "complete"}
    /\ \A i \in 1..Len(open) :
         state[i] \in StatesOf(open[i], i < Len(open) \/ owes)
=============================================================================
