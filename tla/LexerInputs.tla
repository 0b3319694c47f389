---------------------------- MODULE LexerInputs ----------------------------
(***************************************************************************)
(* Inputs for the instances of the lexer.  An input is one piece of JSON   *)
(* after another, good and bad; the client cuts it into chunks anywhere.   *)
(***************************************************************************)
EXTENDS Sequences

Fragments == {
  <<"t","r","u","e">>, <<"f","a","l","s","e">>, <<"n","u","l">>, <<"n","u","l","l">>,
  <<"-">>, <<"0">>, <<"1","0","1">>, <<"1",".","0">>, <<"1","e","+","0">>, <<"1",".">>,
  <<"-","1","E">>,
  <<"quote","x","quote">>, <<"quote","bslash","n","x","quote">>,
  <<"quote","bslash","u","0","a","b","c","quote">>, <<"quote","bslash","u","0","x">>,
  <<"quote","lead2","cont","quote">>, <<"quote","lead3","cont","quote">>,
  <<"quote","lead4","cont","cont","cont","bad8">>,
  <<"quote","bslash","x">>, <<"quote","x","nl">>,
  <<"/","*","x","*","*","/">>, <<"/","/","x","nl">>, <<"/","x">>, <<"/","*","*","x">>,
  <<"{",":","[","]","}">>, <<",">>, <<"x">>, <<"space","nl">> }

(* What may follow: one fragment of each kind. *)
Followers == {
  <<"f","a","l","s","e">>, <<"0">>, <<"1","0","1">>, <<"1","e","+","0">>, <<"-","1","E">>,
  <<"quote","x","quote">>, <<"quote","bslash","n","x","quote">>,
  <<"quote","lead3","cont","quote">>, <<"/","*","x","*","*","/">>, <<"/","x">>, <<",">>,
  <<"x">>, <<"space","nl">> }

MCInputs == {a \o b : a \in Fragments, b \in Followers}

(* Each fragment, and one more character or token. *)
MCFewInputs == {a \o <<c>> : a \in Fragments, c \in {"1", "quote", "/", "space"}}

MCPeekInputs ==
  MCFewInputs \cup
    {a \o b : a \in Fragments, b \in {<<"space","t","r">>, <<"quote","x","quote">>, <<"/","/","nl">>}}
=============================================================================
