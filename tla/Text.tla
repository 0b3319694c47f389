-------------------------------- MODULE Text --------------------------------
(***************************************************************************)
(* What a jhn__buf_t promises the generator, the lexer and the decoder: it *)
(* holds what was appended since it was last cleared or fetched, up to     *)
(* where it was truncated.                                                 *)
(***************************************************************************)
EXTENDS Naturals, Sequences

CONSTANT Chunks   \* what can be appended at once

VARIABLE contents

Init == contents = <<>>

Add(chunk) == contents' = contents \o chunk

Clear == contents' = <<>>

Truncate(n) == contents' = SubSeq(contents, 1, n)

Next ==
  \/ \E chunk \in Chunks : Add(chunk)
  \/ Clear
  \/ \E n \in 0..Len(contents) : Truncate(n)

Spec == Init /\ [][Next]_contents
=============================================================================
