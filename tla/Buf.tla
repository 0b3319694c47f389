-------------------------------- MODULE Buf --------------------------------
(***************************************************************************)
(* buf.c: the buffer behind the generator's output, the text the lexer     *)
(* holds between chunks and the strings that are decoded.  Its block of    *)
(* memory is a sequence of cells; a cell nobody has written to is Junk.    *)
(***************************************************************************)
EXTENDS Naturals, Sequences

CONSTANTS Chunks,             \* sequences of characters that are appended
          JHN_BUF_INIT_SIZE,
          MaxUsed             \* bound on what is held

ASSUME SizeAssumption == JHN_BUF_INIT_SIZE \in Nat \ {0} /\ MaxUsed \in Nat

Junk == "junk"
Nul == "nul"
NULL == <<>>   \* no block: a block is never empty

Characters(chunk) == {chunk[i] : i \in DOMAIN chunk}

ASSUME ChunksAssumption ==
  \A chunk \in Chunks : /\ chunk \in Seq(Characters(chunk))
                        /\ Characters(chunk) \cap {Junk, Nul} = {}

VARIABLES data,     \* the block
          len,      \* its size
          used,     \* how much of it is text
          cut       \* history: truncated since its end was last written

buffer == <<data, len, used, cut>>

BufInit == data = NULL /\ len = 0 /\ used = 0 /\ cut = FALSE
-----------------------------------------------------------------------------
(* Mutant: no room is kept for the terminator. *)
GrownTight(need, want) ==
  LET double[n \in Nat] == IF want > n - used THEN double[n * 2] ELSE n
  IN double[need]

(* The size that has room for want characters and a terminator.  Sizes are *)
(* far from wrapping around: a block of half the address space would have  *)
(* been allocated before.                                                  *)
Grown(need, want) ==
  LET double[n \in Nat] == IF want >= n - used THEN double[n * 2] ELSE n
  IN double[need]

FirstBlock == [i \in 1..JHN_BUF_INIT_SIZE |-> IF i = 1 THEN Nul ELSE Junk]

(* Mutant: realloc taken for malloc. *)
EnlargedAnew(block, size) == [i \in 1..size |-> Junk]

(* realloc: the cells keep what they hold. *)
Enlarged(block, size) ==
  [i \in 1..size |-> IF i \in DOMAIN block THEN block[i] ELSE Junk]

(* ensure_available(): the block with room for want more. *)
Available(want) ==
  LET block == IF data = NULL THEN FirstBlock ELSE data
      size == Grown(Len(block), want)
  IN IF size = Len(block) THEN block ELSE Enlarged(block, size)

(* Mutant: the terminator is forgotten. *)
StoredBare(block, chunk) ==
  [i \in DOMAIN block |->
     IF i \in used + 1..used + Len(chunk) THEN chunk[i - used] ELSE block[i]]

(* The memcpy() and the terminator behind it; nothing for an empty chunk.  *)
Stored(block, chunk) ==
  [i \in DOMAIN block |->
     IF i \in used + 1..used + Len(chunk) THEN chunk[i - used]
     ELSE IF i = used + Len(chunk) + 1 /\ chunk # <<>> THEN Nul
     ELSE block[i]]

(* jhn__buf_append() *)
Add(chunk) ==
  /\ used + Len(chunk) <= MaxUsed
  /\ data' = Stored(Available(Len(chunk)), chunk)
  /\ len' = Len(data')
  /\ used' = used + Len(chunk)
  /\ cut' = (cut /\ chunk = <<>>)

(* jhn__buf_clear() *)
Clear ==
  /\ used' = 0
  /\ data' = IF data = NULL THEN NULL ELSE [data EXCEPT ![1] = Nul]
  /\ cut' = FALSE
  /\ UNCHANGED len

(* jhn__buf_fetch_data(): the block goes to the caller. *)
Fetch == data' = NULL /\ len' = 0 /\ used' = 0 /\ cut' = FALSE

(* jhn__buf_truncate(), which does not terminate the text. *)
Truncate(n) ==
  /\ n <= used   \* asserted
  /\ used' = n
  /\ cut' = (cut \/ n < used)
  /\ UNCHANGED <<data, len>>

BufNext ==
  \/ \E chunk \in Chunks : Add(chunk)
  \/ Clear
  \/ Fetch
  \/ \E n \in 0..used : Truncate(n)

BufSpec == BufInit /\ [][BufNext]_buffer
-----------------------------------------------------------------------------
Cells == {Junk, Nul} \cup UNION {Characters(chunk) : chunk \in Chunks}

(* len is the size of the block, and there is always room for a terminator *)
(* behind the text.                                                        *)
BufTypeOK ==
  /\ data \in Seq(Cells) /\ len = Len(data)
  /\ used \in Nat
  /\ IF data = NULL THEN used = 0 ELSE used < len
  /\ cut \in BOOLEAN

(* jhn_gen_get_buf() and the callers of jhn_lexer_unescape() get a         *)
(* terminated text: the terminator stands right behind it, unless the text *)
(* was only truncated, which the lexer alone does, to text it measures.    *)
Terminated == data # NULL /\ ~cut => data[used + 1] = Nul

T == INSTANCE Text WITH contents <- SubSeq(data, 1, used)

(* However often the block was moved, the text is what was appended.       *)
ImplementsText == T!Spec

(* jhn_gen_get_buf() answers jhn_gen_status_ok and hands out the block     *)
(* (gen.c:372-375); the header calls it "the null terminated generator     *)
(* buffer" (johanson.h:165).  Before anything is printed there is none; no *)
(* run checks this.                                                        *)
GetBufIsTerminated == data # NULL /\ data[used + 1] = Nul
=============================================================================
