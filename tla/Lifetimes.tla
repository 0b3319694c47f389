----------------------------- MODULE Lifetimes -----------------------------
(***************************************************************************)
(* Who owns which block of memory, and through which allocator struct it   *)
(* is allocated and freed.  Handles keep a copy of the struct they were    *)
(* given; a buffer keeps a pointer to one, and whether that is still there *)
(* depends on what else has been freed.                                    *)
(*                                                                         *)
(* "inner" is the lexer of the parser, "lexer" one that the client runs    *)
(* itself.  A block is a handle and the part of it that it holds.          *)
(***************************************************************************)
EXTENDS Naturals, Sequences

CONSTANTS LexerAllocators,   \* what a client passes to jhn_lexer_alloc()
          MaxPrintCallbacks  \* bound on the print callbacks set on a generator

ASSUME ClientAssumption ==
  LexerAllocators \subseteq {"client", "NULL"} /\ MaxPrintCallbacks \in Nat

Handles == {"gen", "parser", "inner", "lexer"}

Parts == {"self", "buf", "data", "stack", "error", "text"}

Blocks == Handles \X Parts

Self(h) == <<h, "self">>
BufOf(h) == <<h, "buf">>
DataOf(h) == <<h, "data">>
Stack == <<"parser", "stack">>
ErrorMessage == <<"parser", "error">>
Unescaped == <<"lexer", "text">>

(* Where an allocator struct can be: in a handle, with the client who keeps *)
(* it, or in the frame of jhn_lexer_alloc() that has returned.              *)
Places == Handles \cup {"client", "frame"}

VARIABLES live,    \* the blocks that are allocated
          via,     \* the allocator struct that the buffer of a handle points to
          ctx,     \* what the generator prints to: its buffer or the client's
          printers,\* how often a print callback was set
          fault    \* history: the first use of what is not there

memory == <<live, via, ctx, printers, fault>>

Faults == {"none", "dead allocator", "not allocated", "foreign"}

MemoryInit ==
  /\ live = {} /\ via = [h \in Handles |-> "client"]
  /\ ctx = "buf" /\ printers = 0
  /\ fault = "none"
-----------------------------------------------------------------------------
(* Whether an allocator struct is there while blocks are allocated. *)
Present(place, blocks) ==
  place \in {"client"} \cup {h \in Handles : Self(h) \in blocks}

(* The struct through which a block is allocated and freed. *)
Through(block) ==
  IF block[2] \in {"buf", "data"} THEN via[block[1]] ELSE block[1]

Notes(found) == fault' = IF fault = "none" THEN found ELSE fault

(* Allocation of blocks by a running handle. *)
Allocates(blocks) ==
  /\ live' = live \cup blocks
  /\ Notes(IF \A b \in blocks : Present(Through(b), live) THEN "none" ELSE "dead allocator")

(* Freeing the blocks of a sequence one after the other. *)
Frees(blocks) ==
  LET before(i) == live \ {blocks[j] : j \in 1..i - 1}
      absent == \E i \in 1..Len(blocks) : blocks[i] \notin before(i)
      dead == \E i \in 1..Len(blocks) : ~Present(Through(blocks[i]), before(i))
  IN /\ live' = live \ {blocks[i] : i \in 1..Len(blocks)}
     /\ Notes(IF dead THEN "dead allocator" ELSE IF absent THEN "not allocated" ELSE "none")

(* jhn__buf_free() *)
BufBlocks(h) ==
  (IF DataOf(h) \in live THEN <<DataOf(h)>> ELSE <<>>) \o <<BufOf(h)>>
-----------------------------------------------------------------------------
Has(h) == Self(h) \in live

(* The handles copy the struct they are given and make their buffers point *)
(* to the copy.                                                            *)
GenAlloc ==
  /\ ~Has("gen")
  /\ live' = live \cup {Self("gen"), BufOf("gen")}
  /\ via' = [via EXCEPT !["gen"] = "gen"]
  /\ ctx' = "buf" /\ printers' = 0
  /\ UNCHANGED fault

(* A generator call that prints. *)
GenPrint ==
  /\ Has("gen") /\ ctx = "buf"
  /\ Allocates({DataOf("gen")})
  /\ UNCHANGED <<via, ctx, printers>>

(* jhn_gen_config(g, jhn_gen_print_callback, ...): whatever is the context *)
(* is freed as a buffer.                                                   *)
GenPrintCallback ==
  /\ Has("gen") /\ printers < MaxPrintCallbacks
  /\ IF ctx = "buf" THEN Frees(BufBlocks("gen")) ELSE Notes("foreign") /\ UNCHANGED live
  /\ ctx' = "client" /\ printers' = printers + 1
  /\ UNCHANGED via

(* The blocks of jhn_gen_free(), in order. *)
GenBlocks == (IF ctx = "buf" THEN BufBlocks("gen") ELSE <<>>) \o <<Self("gen")>>

GenFree ==
  /\ Has("gen") /\ Frees(GenBlocks)
  /\ UNCHANGED <<via, ctx, printers>>
-----------------------------------------------------------------------------
ParserAlloc ==
  /\ ~Has("parser") /\ ErrorMessage \notin live
  /\ live' = live \cup {Self("parser"), BufOf("parser"), Stack}
  /\ via' = [via EXCEPT !["parser"] = "parser"]
  /\ UNCHANGED <<ctx, printers, fault>>

(* jhn_parser_parse(), jhn_parser_finish(): the first call allocates the   *)
(* lexer, and any may hold or decode text.                                 *)
ParserRun ==
  /\ Has("parser")
  /\ via' = [via EXCEPT !["inner"] = IF Has("inner") THEN @ ELSE "parser"]
  /\ \E texts \in SUBSET {DataOf("inner"), DataOf("parser")} :
       live' = live \cup {Self("inner"), BufOf("inner")} \cup texts
  /\ UNCHANGED <<ctx, printers, fault>>

GetError ==
  /\ Has("parser") /\ ErrorMessage \notin live
  /\ Allocates({ErrorMessage})
  /\ UNCHANGED <<via, ctx, printers>>

(* jhn_free(parser, text) *)
FreeError ==
  /\ Has("parser") /\ ErrorMessage \in live
  /\ Frees(<<ErrorMessage>>)
  /\ UNCHANGED <<via, ctx, printers>>

(* Mutant: the lexer is left to whoever made it. *)
ParserBlocksOutside == <<Stack>> \o BufBlocks("parser") \o <<Self("parser")>>

(* Mutant: the lexer is freed after the parser. *)
ParserBlocksLexerLast ==
  <<Stack>> \o BufBlocks("parser") \o <<Self("parser")>>
    \o (IF Has("inner") THEN BufBlocks("inner") \o <<Self("inner")>> ELSE <<>>)

(* The blocks of jhn_parser_free(), in order. *)
ParserBlocks ==
  <<Stack>> \o BufBlocks("parser")
    \o (IF Has("inner") THEN BufBlocks("inner") \o <<Self("inner")>> ELSE <<>>)
    \o <<Self("parser")>>

ParserFree ==
  /\ Has("parser") /\ ErrorMessage \notin live
  /\ Frees(ParserBlocks)
  /\ UNCHANGED <<via, ctx, printers>>
-----------------------------------------------------------------------------
(* The buffer gets the pointer that was passed, or one to a local.         *)
LexerAlloc ==
  /\ ~Has("lexer") /\ Unescaped \notin live
  /\ \E afs \in LexerAllocators :
       via' = [via EXCEPT !["lexer"] = IF afs = "NULL" THEN "frame" ELSE afs]
  /\ live' = live \cup {Self("lexer"), BufOf("lexer")}
  /\ UNCHANGED <<ctx, printers, fault>>

(* jhn_lexer_lex() at the end of a chunk. *)
LexerHold ==
  /\ Has("lexer")
  /\ Allocates({DataOf("lexer")})
  /\ UNCHANGED <<via, ctx, printers>>

(* The buffer in which jhn_lexer_unescape() decodes is gone when it        *)
(* returns; what it held is the client's.                                  *)
LexerUnescape ==
  /\ Has("lexer") /\ Unescaped \notin live
  /\ Allocates({Unescaped})
  /\ UNCHANGED <<via, ctx, printers>>

FreeUnescaped ==
  /\ Has("lexer") /\ Unescaped \in live
  /\ Frees(<<Unescaped>>)
  /\ UNCHANGED <<via, ctx, printers>>

LexerFree ==
  /\ Has("lexer") /\ Unescaped \notin live
  /\ Frees(BufBlocks("lexer") \o <<Self("lexer")>>)
  /\ UNCHANGED <<via, ctx, printers>>

MemoryNext ==
  \/ GenAlloc \/ GenPrint \/ GenPrintCallback \/ GenFree
  \/ ParserAlloc \/ ParserRun \/ GetError \/ FreeError \/ ParserFree
  \/ LexerAlloc \/ LexerHold \/ LexerUnescape \/ FreeUnescaped \/ LexerFree

MemorySpec == MemoryInit /\ [][MemoryNext]_memory
-----------------------------------------------------------------------------
MemoryTypeOK ==
  /\ live \subseteq Blocks /\ via \in [Handles -> Places]
  /\ ctx \in {"buf", "client"} /\ printers \in 0..MaxPrintCallbacks
  /\ fault \in Faults
  /\ \A h \in Handles : BufOf(h) \in live <=> Has(h) /\ (h = "gen" => ctx = "buf")

(* In whatever order a client uses and frees its handles, nothing is freed *)
(* twice or with the wrong owner, and no allocator struct is called that   *)
(* went with the handle it was in.                                         *)
NoFault == fault = "none"

(* A handle that is freed leaves nothing behind, whatever it has been used *)
(* for (the test driver counts the blocks: "memory leaks", run-parsing-    *)
(* tests.c:269).                                                           *)
NothingLeft ==
  \A b \in live : Has(b[1]) /\ (b[1] = "inner" => Has("parser"))

(* "allocates a lexer handle.  The allcoators can be left at NULL in which *)
(* case the system allocator (malloc/realloc/free) functions are used."    *)
(* (johanson.h:377).  With "NULL" in LexerAllocators it does not hold, and *)
(* no run checks it.                                                       *)
LexerAllocatorsMayBeNull == fault # "dead allocator"

(* "Set a function and context argument that should be used to output      *)
(* generated json." (johanson.h:110): an option like the others, that may  *)
(* be set again.  With MaxPrintCallbacks > 1 it does not hold, and no run  *)
(* checks it.                                                              *)
PrintCallbackMayBeSet == fault # "foreign"
=============================================================================
