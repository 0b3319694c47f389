------------------------------- MODULE Helpers -------------------------------
(***************************************************************************)
(* The helpers that the lexer, the parser and the generator call, side by  *)
(* side: a behaviour runs one of them, and the others stay as they are     *)
(* before they are called.  Each is specified in a module of its own; what *)
(* they share is the way they are model-checked.                           *)
(***************************************************************************)
EXTENDS ParseInteger, ErrorText, Buf, Lifetimes, StringCoding

VARIABLE helper   \* the module whose helper runs

helpers == <<helper, number, window, buffer, memory, coding>>

(* A text with nothing in it, and a string of no bytes that was decoded. *)
NoError == offset = 0 /\ length = 0 /\ breaks = {} /\ start = 0 /\ text = <<>>

NoString ==
  /\ source = Generated(<<>>, FALSE) /\ solidus = FALSE /\ phase = "done"
  /\ str = <<>> /\ beg = 0 /\ end = 0 /\ left = 0 /\ due = 0 /\ out = <<>>

Init ==
  /\ BufInit /\ MemoryInit
  /\ \/ helper = "ParseInteger" /\ IntegerInit /\ NoError /\ NoString
     \/ helper = "ErrorText" /\ sign = 1 /\ IntegerInit /\ ErrorInit /\ NoString
     \/ helper \in {"Buf", "Lifetimes"} /\ sign = 1 /\ IntegerInit /\ NoError /\ NoString
     \/ helper = "StringCoding" /\ sign = 1 /\ IntegerInit /\ NoError /\ CodingInit

Next ==
  /\ UNCHANGED helper
  /\ \/ /\ helper = "ParseInteger" /\ IntegerNext
        /\ UNCHANGED <<window, buffer, memory, coding>>
     \/ /\ helper = "ErrorText" /\ ErrorNext
        /\ UNCHANGED <<number, buffer, memory, coding>>
     \/ /\ helper = "Buf" /\ BufNext
        /\ UNCHANGED <<number, window, memory, coding>>
     \/ /\ helper = "Lifetimes" /\ MemoryNext
        /\ UNCHANGED <<number, window, buffer, coding>>
     \/ /\ helper = "StringCoding" /\ CodingNext
        /\ UNCHANGED <<number, window, buffer, memory>>

Spec == Init /\ [][Next]_helpers
-----------------------------------------------------------------------------
(* The types of the helpers' variables, and the indices and counters in    *)
(* them that belong together.                                              *)
TypeOK ==
  IntegerTypeOK /\ ErrorTypeOK /\ BufTypeOK /\ MemoryTypeOK /\ CodingTypeOK
=============================================================================
