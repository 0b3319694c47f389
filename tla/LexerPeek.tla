----------------------------- MODULE LexerPeek -----------------------------
(***************************************************************************)
(* jhn_lexer_peek(): it runs jhn_lexer_lex() on a copy of the offset and   *)
(* then puts back three things: where the held text is read, whether there *)
(* is any, and how much of it there is.                                    *)
(***************************************************************************)
EXTENDS Lexer

CONSTANT PeekComments   \* the client peeks also where comments are allowed

ASSUME PeekAssumption == PeekComments \in BOOLEAN

VARIABLES saved,   \* what jhn_lexer_peek() remembers while it runs
          told,    \* history: the token it gave, and whether lex was called since
          stopped  \* an assertion has failed

peeks == <<saved, told, stopped>>

NotPeeking == [on |-> FALSE]
NotTold == [tok |-> "none", lexed |-> FALSE]

Peeking == saved.on

PeekInit == Init /\ saved = NotPeeking /\ told = NotTold /\ stopped = FALSE

Ready == ~Peeking /\ ~stopped

PeekNextChunk(n) ==
  /\ Ready /\ NextChunk(n)
  /\ told' = NotTold /\ UNCHANGED <<saved, stopped>>

PeekLex ==
  /\ Ready /\ Lex
  /\ told' = IF told.lexed THEN NotTold ELSE [tok |-> told.tok, lexed |-> TRUE]
  /\ UNCHANGED <<saved, stopped>>

PeekFinalize ==
  /\ Ready /\ Finalize
  /\ told' = NotTold /\ UNCHANGED <<saved, stopped>>

(* The C code saves the length of the text and not the text, which is kept *)
(* here as a history; offset and the results belong to the caller.         *)
Peek ==
  /\ Ready /\ Lex
  /\ allow_comments => PeekComments
  /\ saved' = [on |-> TRUE, buf_len |-> Len(buf), buf_off |-> buf_off,
               buf_in_use |-> buf_in_use, offset |-> offset,
               result |-> result, held |-> held, text |-> buf]
  /\ told' = NotTold /\ UNCHANGED stopped

PeekStep == ~stopped /\ Step /\ UNCHANGED peeks

(* Mutant: the text the peek has appended is left. *)
TruncatedNot(text_held) == text_held

(* jhn__buf_truncate() *)
Truncated(text_held) == SubSeq(text_held, 1, saved.buf_len)

(* Mutant: a token that was finished is taken for read. *)
RestoredUnlessRead ==
  buf_in_use' = (saved.buf_in_use /\ result.tok = "eof") /\ buf_off' = saved.buf_off

Restored == buf_in_use' = saved.buf_in_use /\ buf_off' = saved.buf_off

PeekReturn ==
  /\ Peeking /\ pc = "idle" /\ saved.buf_len <= Len(buf)
  /\ Restored
  /\ buf' = Truncated(buf)
  /\ offset' = saved.offset /\ start_off' = saved.offset /\ result' = saved.result /\ held' = saved.held
  /\ told' = [tok |-> result.tok, lexed |-> FALSE]
  /\ saved' = NotPeeking
  /\ UNCHANGED <<error, config, pc, has_escapes, client, stopped>>

(* The assertion of jhn__buf_truncate(). *)
PeekAsserts ==
  /\ Peeking /\ pc = "idle" /\ saved.buf_len > Len(buf) /\ ~stopped
  /\ stopped' = TRUE
  /\ UNCHANGED <<vars, saved, told>>

PeekNext ==
  \/ \E n \in 0..Len(input) : PeekNextChunk(n)
  \/ PeekLex \/ PeekFinalize \/ Peek
  \/ PeekStep \/ PeekReturn \/ PeekAsserts

(* Fair: a call, once made, is executed. *)
PeekSpec ==
  /\ PeekInit /\ [][PeekNext]_<<vars, peeks>>
  /\ WF_<<vars, peeks>>(PeekStep \/ PeekReturn)
-----------------------------------------------------------------------------
(* Whatever token is peeked at, held or not, finished or broken off: what  *)
(* is held for the next call stays the unfinished token, and the indices   *)
(* that are put back fit the text that is put back.                        *)
HeldSurvivesPeek == Ready => HeldIsUnfinished

(* The token that a peek gives is the one that the next call returns.      *)
PeekTellsNext ==
  told.lexed /\ Ready /\ pc = "idle" /\ told.tok # "none" => result.tok = told.tok

(* jhn__buf_truncate() asserts that what the lexer appended to has not     *)
(* become shorter (buf.c:110, "len <= buf->used").  No run checks this:    *)
(* the README says when the code violates it.                              *)
PeekNeverAsserts == ~stopped
=============================================================================
