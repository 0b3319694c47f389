------------------------------- MODULE Parser -------------------------------
(***************************************************************************)
(* The parser of src/src/parser.c: a stack of states driven by tokens that *)
(* survives any number of jhn_parser_parse() calls, calls the client back  *)
(* (who may cancel) and is closed by jhn_parser_finish().  One action is   *)
(* one turn of the "around_again" loop of do_parse().                      *)
(*                                                                         *)
(* The lexer is the token contract of module TokenSource: which chunk the  *)
(* client supplied is chosen token by token, as the parser asks for them.  *)
(***************************************************************************)
EXTENDS Integers, Sequences, TokenSource

CONSTANTS
  Handled,       \* the callbacks the client installed (the others are NULL)
  Configurable,  \* the options the client sets and clears, at any time
  MaxTokens,     \* bound: tokens of one document the client supplies
  MaxChunk       \* bound: tokens in one chunk

Callbacks == {"jhn_null", "jhn_boolean", "jhn_integer", "jhn_double", "jhn_number",
              "jhn_string", "jhn_start_map", "jhn_map_key", "jhn_end_map",
              "jhn_start_array", "jhn_end_array"}

Options == {"jhn_allow_comments", "jhn_dont_validate_strings",
            "jhn_allow_trailing_garbage", "jhn_allow_multiple_values",
            "jhn_allow_partial_values"}

ASSUME ParserAssumption ==
  Handled \subseteq Callbacks /\ Configurable \subseteq Options
    /\ MaxTokens \in Nat /\ MaxChunk \in Nat \ {0}

VARIABLES
  \* struct jhn_parser_s
  state_stack, flags, parse_error,
  lexer,        \* made by the first call, with the options of that moment
  \* the call in progress and where it is
  pc, caller,
  \* the lexer and the chunk: the kind of held text, *offset = length, and
  \* how many more tokens the chunk can have
  kind, used_up, rest,
  returned,     \* what the last call returned
  \* history: the containers begun and not ended, the tokens of the document
  \* being parsed, and whether an earlier document was completed
  open, seen, completed

source == <<kind, used_up, rest>>
history == <<open, seen, completed>>
vars == <<state_stack, flags, parse_error, lexer, pc, caller, source, returned, history>>

States == {"start", "parse_complete", "parse_error", "lexical_error", "map_start",
           "map_sep", "map_need_val", "map_got_val", "map_need_key", "array_start",
           "array_got_val", "array_need_val", "got_value"}

SyntaxErrors == {"trailing garbage", "unallowed token", "invalid key", "no colon",
                 "after map value", "after array element"}
OtherErrors == {"integer overflow", "double overflow", "client cancelled", "premature EOF"}

Status == {"ok", "client_cancelled", "error"}
Containers == {"map", "array"}
NoLexer == [made |-> FALSE, comments |-> FALSE, utf8 |-> FALSE]
NoReturn == <<"none", "none">>

Word(tok) ==
  CASE tok \in {"string", "string_with_escapes"} -> "string"
    [] tok \in {"bool", "null", "integer", "double"} -> "scalar"
    [] OTHER -> tok
Words == Punctuation \cup {"string", "scalar", "error"}

-----------------------------------------------------------------------------
(* bytestack.h *)
Top == state_stack[Len(state_stack)]
Below == SubSeq(state_stack, 1, Len(state_stack) - 1)
SetTop(s) == [state_stack EXCEPT ![Len(state_stack)] = s]

Failed == Top \in {"parse_error", "lexical_error"}

InParse == pc = "do_parse"

(* "return stat" from do_parse(), to jhn_parser_parse() or to do_finish().  *)
Return(stat) ==
  IF caller = "finish" /\ stat = "ok"
    THEN pc' = "do_finish" /\ UNCHANGED returned
    ELSE pc' = "idle" /\ returned' = <<caller, stat>>

(* "goto around_again" *)
Again == UNCHANGED <<pc, returned>>

(* A failure found in the JSON: a state and its message. *)
FailWith(state, message) ==
  /\ state_stack' = SetTop(state)
  /\ parse_error' = message
  /\ UNCHANGED <<open, completed>>
  /\ Again

LexFail == FailWith("lexical_error", parse_error)

(* jhn_lexer_lex() returned call; a token counts as read.  The bound leaves *)
(* room for the token that held text may become.                            *)
Lex(call) ==
  /\ call # Call("eof", "none", TRUE) => Len(seen) < MaxTokens
  /\ call.tok # "eof" => rest > 0
  /\ kind' = call.kind /\ used_up' = call.end
  /\ rest' = IF call.tok = "eof" THEN rest ELSE rest - 1
  /\ seen' = IF call.tok = "eof" THEN seen ELSE Append(seen, Word(call.tok))
  /\ UNCHANGED <<flags, lexer, caller>>

(* What jhn_lexer_lex() may return here. *)
Lexed == Calls(kind, lexer.comments, used_up, caller = "finish")

EndOfInput ==
  /\ Return("ok")
  /\ UNCHANGED <<state_stack, parse_error, open, completed>>

(* _CC_CHK: a callback that returns zero cancels the parse, for good. *)
Cancel(callback) ==
  /\ callback \in Handled
  /\ state_stack' = SetTop("parse_error")
  /\ parse_error' = "client cancelled"
  /\ Return("client_cancelled")
  /\ UNCHANGED <<open, completed>>

(* The container on top is closed. *)
Close ==
  /\ state_stack' = Below
  /\ open' = SubSeq(open, 1, Len(open) - 1)
  /\ completed' = (completed \/ Len(open) = 1)
  /\ Again
  /\ UNCHANGED parse_error

-----------------------------------------------------------------------------
(* After a complete document only white space may follow, unless the client *)
(* allowed more.  Mutants: the chunk is lexed though it is used up; any     *)
(* option allows more.                                                      *)
MustBeBlankForever ==
  flags \cap {"jhn_allow_multiple_values", "jhn_allow_trailing_garbage"} = {}
MustBeBlankUnlessConfigured == flags = {} /\ ~used_up
MustBeBlank ==
  flags \cap {"jhn_allow_multiple_values", "jhn_allow_trailing_garbage"} = {} /\ ~used_up

(* parser_state_parse_complete: another value may follow, what follows must *)
(* be blank, or the rest of the chunk is left alone.                        *)
NextValue ==
  /\ InParse /\ Top = "parse_complete"
  /\ "jhn_allow_multiple_values" \in flags
  /\ state_stack' = SetTop("got_value")
  /\ seen' = <<>>
  /\ Again
  /\ UNCHANGED <<flags, parse_error, lexer, caller, source, open, completed>>

Trailing(call) ==
  /\ InParse /\ Top = "parse_complete" /\ MustBeBlank
  /\ Lex(call)
  /\ IF call.tok = "eof"
       THEN UNCHANGED <<state_stack, parse_error, open, completed>> /\ Again
       ELSE FailWith("parse_error", "trailing garbage")

Done ==
  /\ InParse /\ Top = "parse_complete" /\ ~MustBeBlank
  /\ "jhn_allow_multiple_values" \notin flags
  /\ Return("ok")
  /\ UNCHANGED <<state_stack, flags, parse_error, lexer, caller, source, history>>

(* parser_state_lexical_error and parser_state_parse_error.  Mutant: the    *)
(* parser resumes with the next of multiple values.                         *)
RefuseAndResume ==
  /\ InParse /\ Failed
  /\ Return("error")
  /\ state_stack' = IF "jhn_allow_multiple_values" \in flags THEN SetTop("got_value")
                      ELSE state_stack
  /\ UNCHANGED <<flags, parse_error, lexer, caller, source, history>>

Refuse ==
  /\ InParse /\ Failed
  /\ Return("error")
  /\ UNCHANGED <<state_stack, flags, parse_error, lexer, caller, source, history>>

(* The callback a value is reported to, and the conversion that may fail    *)
(* before it is called: a number callback takes numbers unconverted.        *)
CallbackFor(tok) ==
  CASE tok \in {"string", "string_with_escapes"} -> "jhn_string"
    [] tok = "bool" -> "jhn_boolean"
    [] tok = "null" -> "jhn_null"
    [] tok = "left_bracket" -> "jhn_start_map"
    [] tok = "left_brace" -> "jhn_start_array"
    [] tok \in {"integer", "double"} /\ "jhn_number" \in Handled -> "jhn_number"
    [] tok = "integer" /\ "jhn_number" \notin Handled -> "jhn_integer"
    [] OTHER -> "jhn_double"

Overflow(tok) ==
  /\ tok \in {"integer", "double"}
  /\ CallbackFor(tok) \in Handled \ {"jhn_number"}
  /\ FailWith("parse_error", IF tok = "integer" THEN "integer overflow" ELSE "double overflow")

(* The state a value leaves behind.  Mutant: a map is taken for an array.   *)
AdvanceAsArray(s) ==
  IF s \in {"start", "got_value"} THEN "parse_complete" ELSE "array_got_val"

Advance(s) ==
  CASE s \in {"start", "got_value"} -> "parse_complete"
    [] s = "map_need_val" -> "map_got_val"
    [] OTHER -> "array_got_val"

(* A value is accepted: this depth has it, a container opens the next one.  *)
Scalar ==
  /\ state_stack' = SetTop(Advance(Top))
  /\ completed' = (completed \/ open = <<>>)
  /\ Again /\ UNCHANGED <<parse_error, open>>

Open(container) ==
  /\ state_stack' = Append(SetTop(Advance(Top)),
                           IF container = "map" THEN "map_start" ELSE "array_start")
  /\ open' = Append(open, container)
  /\ Again /\ UNCHANGED <<parse_error, completed>>

(* parser_state_start, got_value, map_need_val, array_need_val, array_start *)
ValueStates == {"start", "got_value", "map_need_val", "array_need_val", "array_start"}

(* A closing mark may end a container only where it is still empty; a comma *)
(* promises another element.  Mutants: the state is not looked at.          *)
EndsArrayAnywhere(tok) == tok = "right_brace"
EndsEmptyArray(tok) == tok = "right_brace" /\ Top = "array_start"

EndsMapAnywhere(tok) == tok = "right_bracket"
EndsEmptyMap(tok) == tok = "right_bracket" /\ Top = "map_start"

Value(call) ==
  /\ InParse /\ Top \in ValueStates
  /\ Lex(call)
  /\ CASE call.tok = "eof" -> EndOfInput
       [] call.tok = "error" -> LexFail
       [] call.tok \in {"string", "string_with_escapes", "bool", "null"} ->
            Cancel(CallbackFor(call.tok)) \/ Scalar
       [] call.tok \in {"integer", "double"} ->
            Overflow(call.tok) \/ Cancel(CallbackFor(call.tok)) \/ Scalar
       [] call.tok = "left_bracket" -> Cancel("jhn_start_map") \/ Open("map")
       [] call.tok = "left_brace" -> Cancel("jhn_start_array") \/ Open("array")
       [] EndsEmptyArray(call.tok) -> Cancel("jhn_end_array") \/ Close
       [] OTHER -> FailWith("parse_error", "unallowed token")

(* parser_state_map_start and parser_state_map_need_key *)
Key(call) ==
  /\ InParse /\ Top \in {"map_start", "map_need_key"}
  /\ Lex(call)
  /\ CASE call.tok = "eof" -> EndOfInput
       [] call.tok = "error" -> LexFail
       [] call.tok \in {"string", "string_with_escapes"} ->
            \/ Cancel("jhn_map_key")
            \/ /\ state_stack' = SetTop("map_sep")
               /\ Again /\ UNCHANGED <<parse_error, open, completed>>
       [] EndsEmptyMap(call.tok) -> Cancel("jhn_end_map") \/ Close
       [] OTHER -> FailWith("parse_error", "invalid key")

(* The states that want one of two punctuation marks: next_state after the  *)
(* first, the end of the container after the second.                        *)
Punctuated(call, state, separator, next_state, closer, callback, message) ==
  /\ InParse /\ Top = state
  /\ Lex(call)
  /\ CASE call.tok = "eof" -> EndOfInput
       [] call.tok = "error" -> LexFail
       [] call.tok = separator ->
            /\ state_stack' = SetTop(next_state)
            /\ Again /\ UNCHANGED <<parse_error, open, completed>>
       [] call.tok = closer -> Cancel(callback) \/ Close
       [] OTHER -> FailWith("parse_error", message)

(* parser_state_map_sep, which nothing closes *)
MapSep(call) ==
  Punctuated(call, "map_sep", "colon", "map_need_val", "none", "none", "no colon")

(* parser_state_map_got_val *)
MapGotVal(call) ==
  Punctuated(call, "map_got_val", "comma", "map_need_key",
             "right_bracket", "jhn_end_map", "after map value")

(* parser_state_array_got_val *)
ArrayGotVal(call) ==
  Punctuated(call, "array_got_val", "comma", "array_need_val",
             "right_brace", "jhn_end_array", "after array element")

(* The states in which the input may end.  Mutant: no document is required. *)
MayEndAtStart ==
  ~Failed /\ (\/ Top \in {"start", "got_value", "parse_complete"}
              \/ "jhn_allow_partial_values" \in flags)
MayEnd ==
  ~Failed /\ (\/ Top \in {"got_value", "parse_complete"}
              \/ "jhn_allow_partial_values" \in flags)

(* do_finish(), once do_parse() has returned ok for the blank. *)
DoFinish ==
  /\ pc = "do_finish" /\ pc' = "idle"
  /\ IF MayEnd
       THEN /\ returned' = <<"finish", "ok">>
            /\ UNCHANGED <<state_stack, parse_error>>
       ELSE /\ returned' = <<"finish", "error">>
            /\ IF Failed
                 THEN UNCHANGED <<state_stack, parse_error>>
                 ELSE state_stack' = SetTop("parse_error") /\ parse_error' = "premature EOF"
  /\ UNCHANGED <<flags, lexer, caller, source, history>>

-----------------------------------------------------------------------------
(* jhn_parser_alloc() *)
Init ==
  /\ state_stack = <<"start">> /\ flags = {} /\ parse_error = "none"
  /\ lexer = NoLexer
  /\ pc = "idle" /\ caller = "none" /\ kind = "none"
  /\ used_up = TRUE /\ rest = 0
  /\ returned = NoReturn
  /\ open = <<>> /\ seen = <<>> /\ completed = FALSE

(* jhn_parser_parse() and jhn_parser_finish(): the lexer is made by the     *)
(* first of them, from the flags of that moment; a chunk may be empty.      *)
Start(who, empty) ==
  /\ pc = "idle" /\ pc' = "do_parse"
  /\ caller' = who /\ used_up' = empty /\ rest' = MaxChunk
  /\ lexer' = IF lexer.made THEN lexer
                ELSE [made |-> TRUE,
                      comments |-> "jhn_allow_comments" \in flags,
                      utf8 |-> "jhn_dont_validate_strings" \notin flags]
  /\ returned' = NoReturn
  /\ UNCHANGED <<state_stack, flags, parse_error, kind, history>>

Parse == \E empty \in BOOLEAN : Start("parse", empty)
Finish == Start("finish", FALSE)

(* jhn_parser_config() *)
Config(option) ==
  /\ pc = "idle"
  /\ \/ flags' = flags \cup {option}
     \/ flags' = flags \ {option}
  /\ returned' = NoReturn
  /\ UNCHANGED <<state_stack, parse_error, lexer, pc, caller, source, history>>

(* A turn of the loop that reads a token, and one that does not. *)
Take(call) == \/ Trailing(call) \/ Value(call) \/ Key(call)
              \/ MapSep(call) \/ MapGotVal(call) \/ ArrayGotVal(call)

Tokenless == NextValue \/ Done \/ Refuse \/ DoFinish

Step == Tokenless \/ \E call \in Lexed : Take(call)

Next == Parse \/ Finish \/ (\E option \in Configurable : Config(option)) \/ Step

(* Fair: a call, once made, is executed; the client may stop calling. *)
Spec == Init /\ [][Next]_vars /\ WF_vars(Step)

-----------------------------------------------------------------------------
TypeOK ==
  /\ state_stack \in Seq(States) \ {<<>>} /\ flags \subseteq Options
  /\ parse_error \in SyntaxErrors \cup OtherErrors \cup {"none"}
  /\ lexer \in [made : BOOLEAN, comments : BOOLEAN, utf8 : BOOLEAN]
  /\ pc \in {"idle", "do_parse", "do_finish"} /\ caller \in {"none", "parse", "finish"}
  /\ pc # "idle" => lexer.made /\ caller # "none"
  /\ kind \in HeldKinds /\ used_up \in BOOLEAN /\ rest \in Nat
  /\ returned \in ({"parse", "finish"} \X Status) \cup {NoReturn}
  /\ open \in Seq(Containers) /\ seen \in Seq(Words) /\ completed \in BOOLEAN

(* The states in which a container of each kind can be found on top, and    *)
(* the one it waits in while a container inside it is open.                 *)
StatesOf(container) ==
  IF container = "map"
    THEN {"map_start", "map_need_key", "map_sep", "map_need_val", "map_got_val"}
    ELSE {"array_start", "array_need_val", "array_got_val"}

WaitsIn(container) == IF container = "map" THEN "map_got_val" ELSE "array_got_val"

(* The state stack mirrors the containers the client was told of: it never  *)
(* underflows, the document is at its bottom and each open container above  *)
(* it; everything below the top has already moved past the value that is    *)
(* being parsed, so that a pop lands where parsing can go on.  A failure    *)
(* only ever replaces the top.                                              *)
StackMirrorsNesting ==
  /\ Len(state_stack) = Len(open) + 1
  /\ Len(open) > 0 => state_stack[1] = "parse_complete"
  /\ \A i \in 1..(Len(open) - 1) : state_stack[i + 1] = WaitsIn(open[i])
  /\ \/ Failed
     \/ IF open = <<>> THEN Top \in {"start", "parse_complete", "got_value"}
        ELSE Top \in StatesOf(open[Len(open)])

(* A failed parser stays failed: whatever the client calls or configures    *)
(* afterwards, no token is read, no callback is made, and no call returns   *)
(* ok.                                                                      *)
StaysFailed ==
  [][Failed => /\ Failed' /\ UNCHANGED <<open, seen, completed, kind>>
               /\ returned' \notin {<<"parse", "ok">>, <<"finish", "ok">>}]_vars

(* Every call of jhn_parser_parse() and jhn_parser_finish() returns. *)
CallReturns == pc # "idle" ~> pc = "idle"
=============================================================================
