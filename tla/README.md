# A TLA+ development of johanson

johanson is a JSON library in C derived from yajl: a streaming lexer, a
push-down parser with callbacks, a generator, and the helpers they share. This
directory holds TLA+ models of it, TLC configurations that check them, and
TLAPS proofs about them. `PROJECT.json` lists components, runs, mutants, the
map from definitions to source lines, hazards, findings and theorems.

To check a run: `tlc -workers 2 -config LexerTokens.cfg MCLexer`.
To check the proofs: `tlapm M.tla` for each module `M` whose name ends in
`Proofs`.

## 1. Inventory

The library is single-threaded; nothing is persisted. What is hard is that
every call may stop anywhere in a token, that a token is then *read again* by a
later call from a buffer, that the client decides the order of the calls and
may cancel from a callback, and that indices into three buffers are moved
forwards and backwards by hand.

| component | state | operations | talks to | what makes it correct |
|---|---|---|---|---|
| lexer, `lex.c` | `buf`, `buf_off`, `buf_in_use`, `error`, two options; per call `*offset`, `start_off`, the place in the code | `jhn_lexer_alloc`, `_lex`, `_finalize`, `_peek`, `_unescape`, getters | called by parser or client, owns a buffer | tokens do not depend on the chunks; indices stay in their buffers; each call returns |
| parser, `parser.c` | `state_stack`, `flags`, `parse_error`, `bytes_consumed`, `decode_buf`, lexer made by the first call | `_alloc`, `_config`, `_parse`, `_finish`, `_get_error`, `_get_bytes_consumed` | calls the lexer, calls the client back (which may cancel) | accepts exactly JSON; the stack mirrors the nesting; failures are final; `finish` means a document |
| state stack, `bytestack.h` | array, `used` | current, push, pop, set (no bounds checks) | parser | never popped empty |
| generator, `gen.c` | `depth`, `state[JHN_MAX_DEPTH]`, flags, print function and context | `jhn_gen_*` value, open, close, `config`, `reset`, `clear`, `get_buf` | prints to a buffer or a callback | output is JSON, or the call is refused without harm |
| encoding, `encode.c` | none | encode, decode, validate UTF-8 | generator, parser, lexer | decode undoes encode; surrogates |
| buffer, `buf.c` | `data`, `len`, `used` | append, clear, truncate, fetch | lexer, parser, generator | `used < len` once allocated |
| allocators, `alloc.c` | function pointers | malloc, realloc, free, `jhn_free` | all | each block freed once, by its own allocator |
| number conversion, `parser.c` | none | `parse_integer`, `strtod` | parser | exact, or an overflow error |
| error rendering, `parser.c` | none | `render_error_string` | client | copies inside the text |
| example filter, `example/example.c` | a generator | callbacks that call the generator | parser, generator | output is the input's value |

Hard behaviours and where they bite are the `hazards` of `PROJECT.json`; the eight
without a property say why.

## 2. Modules

```
LexTable        what lex.c does with one character at each point (pure)
  Lexer           chunks, held text, re-reading: jhn_lexer_lex() step by step
    LexerPeek       jhn_lexer_peek() between the calls
  LexStream       abstract: one scanner over one unbroken stream
  LexGrammar      reference: JSON lexemes as sets of sequences
  TokenSource     what the parser may assume of one call of the lexer
LexerRefinement (Lexer + LexGrammar + TokenSource, INSTANCE LexStream)
LexerInputs     inputs; MCLexer, MCLexerPeek with them
LexerProofs     Lexer, proved
LexerRefinementProofs  LexerRefinement and LexerPeek, proved, on top of LexerProofs

Parser          do_parse(), do_finish(), config, over TokenSource
  JsonGrammar     reference: JSON documents as sets of token sequences
  ParserEvents    abstract: what the callbacks promise
ParserGrammar   Parser against JsonGrammar
ParserRefinement  Parser implements ParserEvents
MCParser        callbacks and options for TLC
ParserProofs    Parser and ParserRefinement, proved

ParserLexer     INSTANCE Parser and INSTANCE Lexer, composed on characters
MCParserLexer   documents and what may follow them
ParserLexerProofs  ParserLexer, proved, on top of ParserProofs and
                LexerRefinementProofs

Generator         jhn_gen_*()
  GeneratorGrammar  Generator against JsonGrammar
  Layout            the white space of jhn_gen_beautify
MCGenerator     both, with one client
GeneratorProofs Generator and Layout, proved

Prettify        example.c: EXTENDS Parser, INSTANCE Generator
MCPrettify      its callbacks
PrettifyProofs  Prettify, proved, on top of ParserProofs

ParseInteger    parse_integer() and the test of its caller
ErrorText       the window of text in render_error_string()
Buf             buf.c; implements Text
Lifetimes       who owns which block, through which allocator struct
StringCoding    validate, encode, decode; Bytes is the reference
Helpers         the five, one at a time; MCHelpers what they are called with
HelperProofs    Helpers and its five modules, proved

GrammarProofs   facts about LexGrammar and JsonGrammar, and induction, for the proofs
```

### 2.1 Characters: LexTable

A byte is represented by its class; two bytes share a class exactly when no
branch of `lex.c` tells them apart (the classes are the sets `VEC`, `IJC`,
`VHC`, `NFP`, `NUC` of the C table plus the characters named in the code). A
*point* names a place in the C code that waits for a character, so the C
program counter becomes a value. `Dispatch`, `Literal`, `StringChar`,
`NumberChar`, `CommentChar` give for a point and a character what happens: the
next point or a token, whether the character is unread, and the error code.

### 2.2 Lexer

Variables carry the names of the C fields and locals (`buf`, `buf_off`,
`buf_in_use`, `error`, `offset`, `start_off`, `has_escapes`); `text` is the
current chunk, `pc` the point, `result` what the last call returned with the
bytes of `*out_buf`. `input` and `avail` are the client: the whole input and how
much has been handed over. `held` is a history variable, the point where the
held text broke off; no action reads it.

One action is one `read_chr` and what follows it: `LexSwitch`, `LexLiteral`,
`LexString` (with `StringScan`, the skipping loop), `LexNumber`, `LexComment`.
`EndOfChunk` is every `*offset >= length` test together with the label `lexed`.
`NextChunk`, `Lex` and `Finalize` are the client's calls. The client follows the
header: it supplies a new chunk, and finalizes at offset zero, only when the
chunk is used up; after an error it may go on calling.

### 2.3 Parser

One action is one turn of the `around_again` loop: `NextValue`, `Trailing`,
`Done` (the document is complete), `Refuse` (the parser has failed), `Value`,
`Key`, `MapSep`, `MapGotVal`, `ArrayGotVal`; `DoFinish` is what follows
`do_parse` in `do_finish`; `Parse`, `Finish` and `Config` are the client's
calls. `caller` remembers who called `do_parse`. A callback that is installed
may cancel; a conversion that is attempted may overflow.

Tokens come from `TokenSource`, a table of what one call of the lexer can
return given the *kind* of text held (`kind`), whether the chunk is used up
(`used_up`, for `*offset == length`), and whether it is the final blank. The
chunk is thus chosen lazily, token by token. `KeepsContract` checks on the
lexer that it delivers nothing outside this table: the two models meet there.
`open`, `seen` and `completed` are history: containers reported to the client,
words of the current document, whether a document was completed.

Abstracted: token texts, `decode_buf`, and `bytes_consumed` beyond whether it
equals the length; `ParserLexer` has the offset itself, `StringCoding` and
`ParseInteger` what becomes of the texts.

`ParserEvents` is what a client who builds a tree relies on: four variables,
no tokens, no chunks, no state stack. `ParserRefinement` reads `owes` and
`ready` off the top of the state stack.

### 2.4 Generator

One action is one `jhn_gen_*` call: `Scalar` (integer, number, null, bool),
`Double`, `String`, `OpenContainer`, `CloseContainer`, `Reset`, `Config`. The
macros of `gen.c` are operators on the current cell: `Valid`, `NotKey`,
`Separator`, `Appended`, `Incremented` with `TooDeep`, `Decremented`. `depth`
wraps at `UINT_MAX` as in C. When `depth` is not below `JHN_MAX_DEPTH` the code
reads beyond `state[]`; `Here` is then any state, and what is stored is lost.
`printed` holds the words printed since the last reset, without white space.
`open` and `owes` are history: the containers the client has begun, and whether
a key still lacks its value.

The generator does not check everything: a close takes no notice of what is
open. `Disciplined` says whether the client does: it closes the container that
is open, never between a key and its value, and goes on after
`jhn_max_depth_exceeded` only with a reset.

### 2.5 Compositions

`LexerPeek` runs the lexer's own steps inside a peek. `saved` is what
`jhn_lexer_peek()` has in its locals (the length of the buffer, `buf_off`,
`buf_in_use`), and the caller's `offset` and result, which a peek must not
change; `Truncated` and `Restored` are its last lines. `PeekAsserts` is the
assertion of `jhn__buf_truncate`, after which nothing happens any more.

`ParserLexer` replaces the table `TokenSource` by the lexer: `Ask` is the call
of `jhn_lexer_lex()`, `Lexing` its steps, `Answer` the parser's turn with the
token, including the "try to restore error offset" lines (`Restored`). `offset`
is `hand->bytes_consumed`, which the lexer advances through a pointer. The
record `lexer` carries the two options the lexer was made with. `given` and
`first` are history variables that no guard reads: the text held when the client's
call began and the chunk it handed over, which is all that the call can read; and
where in the chunk the lexer's switch was last entered. That this
composition implements `Parser` closes the argument from both sides:
`KeepsContract` says the lexer stays inside the table, `ImplementsParser` that
the parser on the lexer does what the parser on the table does, and that its
calls return.

`Prettify` is `example.c`: a token is taken by `Parser` and the callback calls
`Generator` in the same step. Parser and generator keep their own books on
nesting; the properties say that the books agree.

`Layout` extends `Generator` by the white space it prints. The words are those
of `Generator`; which line and indentation they get is decided from `depth` and
`state[]` before and after the cell is moved on, in the order of the macros.
`jhn_gen_beautify` can be set at any time; the property speaks of output that
was beautified throughout.

### 2.6 Helpers

Five helpers are specified in modules of their own. `Helpers` puts them side by
side: a behaviour runs one of them, the others stay in an initial state. They
share a run, nothing else.

- `ParseInteger`: one action per turn of the loop, in arithmetic that wraps at
  the width of `long long`; `exact` is the value without wrapping. `Deliver` is
  the caller, which negates and asks `errno`.
- `ErrorText`: one action per character stored in `text[72]`. A character that
  is copied is represented by the index it comes from, so that the property can
  say which one stands above the arrow.
- `Buf`: a block is a sequence of cells, of which those never written hold
  `Junk`. Growing copies the block; `Truncate` leaves the terminator where it
  was, `cut` remembers that. It implements `Text`, a sequence that is appended
  to, cleared and truncated.
- `Lifetimes`: a block is a pair of a handle and a part of it. Each is allocated
  and freed through an allocator struct that lies in a handle, with the client,
  or in the frame of a function that has returned; a use of one that is not
  there is a `fault`. `Frees` frees in the order of the code.
- `StringCoding`: `phase` goes from `validate` (if `jhn_gen_validate_utf8` is
  set) to `encode` to `decode`, one turn of a loop per action, on bytes. The
  decoder also starts on texts that no encoder printed, put together from pieces
  whose code points are known. `Bytes` maps a byte to its class in `LexTable`,
  so that `LexGrammar` can say what the lexer would take the output for.

### 2.7 Mutants

Some operators are preceded by one whose comment says "Mutant": the same
operator with a plausible bug. Nothing uses them; replacing the original by the
mutant must break the property named in `PROJECT.json`, which shows that the
property depends on that code.

## 3. What the runs check

| run | question | states |
|---|---|---|
| LexerTokens | chunks are invisible; tokens are lexemes; indices are safe; the parser's contract is kept | 612,399 |
| LexerCalls | every call returns, peeks included; a peek tells the next token and leaves the held text alone | 460,450 |
| ParserAccepts | the parser accepts exactly the grammar; finish means a document; callbacks nest | 876,938 |
| ParserCalls | the stack mirrors the nesting under cancellation, overflow and reconfiguration; failures are final; calls return | 121,004 |
| ParserLexerCalls | the parser on the real lexer behaves as on the table; a call that returned ok has read its chunk; `bytes_consumed` tells where junk begins and where a token began that an error is said of | 474,778 |
| GeneratorCalls | output is JSON; depth mirrors the nesting; calls are refused exactly where they must be; lines mirror the nesting | 580,096 |
| Prettify | what is parsed is printed, up to an error or the depth | 482,353 |
| Helpers | the helpers' properties, below | 1,865,105 |
| LexerUtf8Offset | finding: offset after invalid UTF-8 | violated |
| ParserUnfinished | finding: finish with half a string held | violated |
| GeneratorComplete | finding: `generation_complete` with nothing generated | violated |
| StringUnknown | finding: a valid text fails an assertion of the decoder | violated |

`ImplementsStream` is the central property of the lexer: `Lexer` with chunks,
buffer and re-reading implements `LexStream`, where nothing is ever read twice.
The refinement mapping puts the abstract scanner at `Base + offset`; while held
text is being read again the scanner stands still at `held.point`.
`TokensAreLexemes` compares the texts with `LexGrammar`, which defines numbers,
strings and UTF-8 without scanning, so it does not share the scanner's mistakes.

`ErrorsAreExact` compares the parser with `JsonGrammar`: an error is raised
exactly when the tokens read so far begin no document, and not one token later.
Tokens are compared as words: all scalars but strings are one word, since the
parser's states do not tell them apart; errors of the lexer are a word no
document contains.

`OutputIsJson` and `RefusalsAreExact` compare the generator with the same
grammar from the other side: what is printed always begins a document, and a
call is refused for a key, for completeness or for depth only where nothing else
could be printed. The separator printed by an open that is then refused is
still the beginning of a document; it is a reset that the client then needs.

`PrintsWhatIsParsed` composes both: the words printed are the words read, less a
comma or colon whose successor is still to come, and less the word that was an
error. `RefusedOnlyForDepth` says the generator refuses a call of the example
exactly when the nesting reaches `JHN_MAX_DEPTH`.

`JunkIsLeft` is what the header promises of `bytes_consumed`: with trailing
garbage allowed, after a call that returned ok it stands at the end of the
document. It depends on the lexer giving back the character that ended a number,
across chunks. `ChunkIsRead` is the part of it that needs no list of documents:
a call that returned ok has left nothing of its chunk unread, unless a document
is complete and trailing garbage allowed. The parser decides by what it
remembers of the chunk, the client by the offset of the lexer.

`ErrorAtOffender` is about the error offset that the parser counts back from the
end of a token by the token's length. Where the token began is not computed from
lengths but observed: `first` is where in the chunk the lexer's switch was last
entered, or 0 while held text is being read again. The offset is right for every
token but strings, whose quotes are not counted (the deviation
`OffenderAfterMapValue`). What could go wrong is the text that is longer than
the token, because a comment in front of it is held with it, and the character
behind a number, which is given back.

Of the helpers: `DeliversWhatIsWritten` (no text of an integer becomes another
integer, although the product may wrap around before it is tested);
`StaysInside`, `ArrowPointsAtError`; `Terminated`, `ImplementsText`;
`NoFault`, `NothingLeft` (any order of calls that ends with every handle freed
frees every block once, through a struct that is still there);
`AgreesWithLexer` (the generator's UTF-8 is the lexer's), `EncodesToLexeme`,
`RoundTrip`, `DecodesMeaning`.

### Bounds, and why they are enough

- `MCInputs`: 28 fragments, each followed by one of 13. Each fragment drives the lexer
  through other points; together they reach every point of `LexTable`, each
  error code and both kinds of comment. Since the chunk boundary is chosen
  freely at each character (empty chunks included), each fragment is broken at
  every place, several times. The followers let a broken token meet what comes before
  and after it.
- `MCPeekInputs`: the same fragments followed by one of seven shorter pieces, for
  the liveness check and the peeks; `PeekComments = FALSE`: a client that allows
  comments does not peek (see the deviations).
- `MaxTokens = 6` in ParserAccepts: `[[],1]`, `{"a":1` and `{"a":{}}` fit, so
  each state is entered from each state that can precede it, below each kind of
  container, and the two-level pop is included. `MaxTokens = 4`, `MaxChunk = 3`
  in ParserCalls, where callbacks and options multiply the states: chunks end
  between any tokens and a container can be closed in a later chunk.
- `JHN_MAX_DEPTH = 4`, `MaxWords = 9` in GeneratorCalls: three nested containers
  of any kind fit, the fourth is refused at every place; two with two members
  fit; the document can be completed and reset at any time. `UINT_MAX = 7` is
  only reached by decrementing zero, which a disciplined client never does.
  GeneratorComplete has `JHN_MAX_DEPTH = 3`, `MaxWords = 3` and any client.
- ParserLexerCalls: 10 documents, 3 of them broken, each before one of 4
  followers (nothing, a value, a bracket, a comment and garbage), in any chunks;
  `MaxTokens` and `MaxChunk` (20) exceed every input. One document has a comment in
  front of its number. Only numbers have
  callbacks, so that they may overflow.
- Prettify: `MaxTokens = MaxChunk = 6` and `JHN_MAX_DEPTH = 2`: one container is
  printed, the second is refused, at every place of every document of 6 tokens.
- Helpers: `LLONG_MAX = 32767`, the smallest width at which all digits matter
  (every text up to the first that overflows is tried); `MaxOffset = 65` and
  `MaxLength = 70` pass the constants 30, 40 and 72 of the error text on both
  sides; `JHN_BUF_INIT_SIZE = 2`, `MaxUsed = 7` and chunks of up to 6
  characters double the block up to twice at once; `MaxPrintCallbacks = 1` and
  `LexerAllocators = {"client"}`, see the deviations; `MaxBytes = 3`: strings of
  up to 3 of 13 bytes the encoder tells apart, and of up to 4 of the 12 bytes at
  the ends of the UTF-8 classes; `MaxPieces = 3`: texts of up to 3 of 12 pieces,
  enough for an escape before and after a surrogate.
- `MaxTokens` and `MaxChunk` bound the client, never the parser: at the bound
  the client stops supplying tokens, it can still end the chunk and finish.
  A lexer call therefore always has at least the answer "end of chunk" or the
  token that the held text may become.

`CHECK_DEADLOCK FALSE` is set where the input ends: a client that has used up
its input stops.

### Fairness

The library is sequential code called by a client. Weak fairness is assumed
for `Step` alone, the actions of a call in progress: a call that has begun is
executed. Nothing is assumed of the client, which may stop calling. So
`CallReturns` says that a call ends by its own steps. `PeekSpec` is fair to
`PeekStep` and `PeekReturn`, `ParserLexer` to the steps of parser and lexer
together, for the same reason. The helpers have no liveness property.

### Findings

- `LexerUtf8Offset`: the comment at `lex.c:160` says that on invalid UTF-8 the
  offset points at the first invalid byte; `jhn_lexer_utf8_char` does not unread.
- `ParserUnfinished`: the header (`johanson.h:283`) says that `finish` ensures
  that by default the entire input was consumed; with no option set, after a
  complete document followed by an unterminated string it returns ok, because the
  lexer answers "end of input".
  For the same reason an unterminated comment is accepted there.
- `GeneratorComplete`: the header (`johanson.h:79`) explains
  `jhn_gen_generation_complete` as "A complete JSON document has been
  generated."; a close on a fresh generator returns it (`gen.c:179`), and leaves
  `depth` wrapped around.
- `StringUnknown`: after a high surrogate that no escape follows, the decoder
  skips the character behind it (`encode.c:145` and `encode.c:175` both move
  `end`). If that is the first of two backslashes, the second begins an escape
  that the lexer never saw: on `\ud83D\\a` the decoder reaches `assert(!"this
  should never happen")` (`encode.c:172`), on a text the lexer accepts. Were a `u`
  behind the backslashes, the assertion on the hex digits (`encode.c:79`) could
  fail instead; the two are different values of `phase`. That assertion lets
  the characters `:` to `?` pass as digits, which `HexDigit` has.

### Deviations without a run

These were met while modelling. Each is stated as a property of its module,
which TLC violates under the change given, and which no run of the project
checks.

| module, property | how to see it | what the code does |
|---|---|---|
| LexerPeek `HeldSurvivesPeek` | LexerCalls with `PeekComments = TRUE` | a peek that completes a held comment replaces the held text (`lex.c:716`), though it should not "move the lexer forward" (`johanson.h:410`) |
| LexerPeek `PeekNeverAsserts` | LexerCalls | the length remembered may be that of a token that is over; if what is peeked at breaks off, the buffer is cleared (`lex.c:616`) and truncating it fails its assertion (`lex.c:717`, `buf.c:110`) |
| ParserGrammar `OptionsTakeEffect` | ParserCalls with jhn_allow_comments in `Configurable` | comments and UTF-8 validation are those of the first parse (`parser.c:609`), though options may be modified (`johanson.h:305`) |
| ParserGrammar `VerifiesUtf8WhenSet` | ParserCalls | jhn_dont_validate_strings does the opposite of its comment (`johanson.h:275`) |
| ParserLexer `OffenderAfterMapValue` | ParserLexerCalls | the offset restored after a string leaves out its quotes (`parser.c:455`) |
| ParserLexer `ErrorOffsetStays` | ParserLexerCalls | a finish after a failed parse resets the offset of the error (`parser.c:188`), which `johanson.h:350` promises |
| ParseInteger `RefusesOnlyUnrepresentable` | Helpers | LLONG_MIN is an overflow (`parser.c:71`), unlike strtol (`parser.c:55`) |
| Buf `GetBufIsTerminated` | Helpers | `jhn_gen_get_buf()` answers ok and NULL before anything is printed (`gen.c:372`) |
| Lifetimes `LexerAllocatorsMayBeNull` | Helpers with `LexerAllocators = {"client", "NULL"}` | the buffer of the lexer points to a local of `jhn_lexer_alloc()` (`lex.c:79`) |
| Lifetimes `PrintCallbackMayBeSet` | Helpers with `MaxPrintCallbacks = 2` | setting it again frees the client's context as a buffer (`gen.c:70`) |
| Prettify `PrettyIsTheSame` | Prettify | the callbacks ignore the generator's refusal, and a file nested too deeply is printed in part with success (`example.c:61`) |

## 4. What is proved

TLAPS proves for all values of the constants what TLC checks on instances. The
bounds of the runs (inputs, tokens, depth, chunk lengths, sizes of blocks) are
constants of the theorems, restricted by nothing but the named assumptions.

### The lexer: `LexerProofs`, `LexerRefinementProofs`

`TypeCorrect`, `IndicesAreSafe`, `TokensStartClean`, for any set of inputs and any
chunking. The inductive invariant is `IInv == TypeOK /\ IndexSafe /\ TokenStart`.
None of the three is inductive alone: that `start_off` never passes `offset`
although white space increments it needs `TokenStart` (held text does not begin
with white space, and the switch is entered at the first character of a token),
and that `unread_chr` does not decrement an index below zero needs both. TLC
was asked for `TokenStart` before it was proved; no run repeats it, since the proof
holds for every input.

`LexerImplementsStream`: the lexer with its chunks, buffer and re-reading
implements `LexStream`, which reads one unbroken text once.
`HeldIsAlwaysUnfinished`: between two calls it holds exactly the characters of
the stream since the beginning of an unfinished token. The invariant is
`RInv == IInv /\ InStream /\ ReplaysForMore /\ Retraced`. The first two conjuncts
say where chunk, buffer and `start_off` lie in the stream. `Retraced` is the
point of the proof: the text held leads the switch tables from the dispatching
switch, character by character and without ever completing a token, to the point
where the last chunk broke off. Reading it again can therefore not end in
another token or another error, and the abstract scanner stands still meanwhile.

`ContractIsKept`: what the parser is told by this lexer is what `TokenSource`,
the table that `Parser` is checked and proved with, allows. Its invariant adds
the family of points that a kind of held text confines an unfinished token to
(`Family`, `Reachable`, `RunFamily`), and `BlankIsLast`: the chunk that
`jhn_parser_finish` supplies is one blank, and nothing follows it.

`HeldSurvives` and `PeekIsTrue` are about `jhn_lexer_peek()`, which runs the lexer
and puts three fields back. The first: the text held is not lost by a peek. Its
invariant `PeekInv` is `RInv` and, while a peek runs, that what will be put back
satisfies `WaitsWell`, the part of `RInv` that concerns a lexer between two calls;
meanwhile the held text is only appended to. The second: what a peek answered is
what the next read returns. `TellInv` says that the token found begins at the
place the lexer was put back to, and the lemmas `OneRun` and `NextOnce` that only
one token can begin there, however the text is cut. Both have the hypothesis
`~PeekComments`, the client does not peek where comments are allowed: a comment
that ends within a peek replaces the text held, the first deviation in the
table of section 3. The run has the same restriction.

`LexemesAlways`: what a token carries is a lexeme of its kind. Each `Retraced` run
of a token is read as a spelling: `NumberSays` and `LiteralSays` give for every
point what the characters up to it are, and a run inside a string (`StringPath`)
tells by its points which characters are escaped, how many continuation bytes are
due and whether a backslash has been seen. `GrammarProofs` shows that such a
spelling satisfies the definitions of `LexGrammar`, which say nothing of reading
from left to right; for the recursive `EscapedIn` that the function with its
equation is unique (`EscapedIs`).

All from `InputsAssumption`.

### The parser: `ParserProofs`

`TypeCorrect`, `StackMirrors`, `FailureIsFinal`, for any callbacks, options, number
of tokens and depth. The inductive invariant is `IInv == TypeOK /\ StackMirrorsNesting`:
a pop keeps the stack non-empty only because the stack mirrors the open
containers, and the state below the top must already be the one in which a
container's end is a value. `SetShape`, `PushShape` and `CloseShape` are the three
things that happen to the stack; each action is one lemma on top of them.
`FailureIsFinal` is an action property and needs no invariant.

`ParserImplementsEvents`: each turn of the parser is a step of `ParserEvents`, the
specification of which callbacks may follow which, or a stutter. It follows from
`StackMirrorsNesting`, action by action.

`ErrorsExact`, `FinishOnDocument`: the parser refuses exactly what begins no JSON
document, at the token that spoils it, and `finish` answers ok only after whole
documents, for documents of any length and depth. The invariant is `GInv`. Its
heart is `Matched`: after the tokens read since the last document the state stack,
read from its top down, is a grammar, and what completes the tokens to a document
is exactly what it derives (see `GrammarProofs` below).

All from `ParserAssumption`.

### Parser on lexer: `ParserLexerProofs`

`ParserProofs` proves the parser right on the tokens of a table, and
`LexerRefinementProofs` that the lexer keeps to the table on one unbroken input.
The two do not simply add up. `do_parse()` starts every chunk at offset zero,
and after an error what is left of a chunk may be dropped, so the chunks of two
calls need not be parts of one input; and one call of the client makes many
calls of the lexer, before each of which the parser commits itself to what
the lexer may answer.

- Each call of the client begins a stream of its own: the text held and the new
  chunk (`given`), and the blank that `jhn_parser_finish` adds. What the lexer's
  invariant `RInv` says of the text held does not depend on what came before it,
  so it holds of the new stream too (`StreamAnew`, `LexerBeginsAnew`).
- `StartedOn` is what a call of the lexer owes since it began: the kind of text
  held then, whether the chunk was used up then, and that only white space and
  comments have been skipped since. `CallReturnsListed`: what it returns is listed
  in the table under that kind.
- The invariant is `CInv`: the types, the parser's `GInv`, the texts of the call
  (`FedWell`), the lexer's invariant as long as the parser has not failed
  (`LexerWell`), and `Turns`, that the parser's `kind` and `used_up` are what the
  lexer's fields say whenever the parser takes a token. A failed parser does not
  call the lexer again, whose invariant may be lost with the rest of the chunk.
- `SameNext` and its like say that the operators of `Parser` and `Lexer` as
  instantiated by `ParserLexer` are those the other developments speak of.

`ParserRunsOnLexer` is the safety half of `ImplementsParser`: on any characters in
any chunks the parser on the lexer takes no step that `Parser` does not take.
`JsonOnLexer`, `FailureOnLexer` and `EventsOnLexer` carry over what is proved of
`Parser`: errors exactly where no document can follow, ok from `finish` only after
documents, the stack that mirrors the nesting, the finality of a failure, and
the order of callbacks. Three theorems are about the composition alone.
`ParserLexerTypes`, among the types, has that `bytes_consumed` stays inside the chunk
when an error offset is restored. `OffsetAtOffender` is `ErrorAtOffender`; its
invariant is `FirstWell`, that what the lexer will report as the token begins
where its switch was last entered, held text and dropped comments included.
`StepShape` says what one step of the lexer does to that, and `LexemeLength` how long
the token is that it returns. `ChunkRead` is `ChunkIsRead`; its invariant is that, when a
turn is about to return ok, `used_up` still says what the offset says.

From `InputsAssumption` and `ParserLexerAssumption`, which says of the constants of
`Parser` what `ParserAssumption` says.

### Documents and their beginnings: `GrammarProofs`

`JsonGrammar` builds the documents of `n` words from shorter ones, and the
beginnings of `n` words from documents and shorter beginnings. A parser's step
asks other questions: which words may come next, and what may follow them.

- `ValuesAre` and `BeginningsAre` say that, below the bound, the sets built are
  the language that a document, a member, a list satisfy by their shape, and its
  prefixes. The bound matters nowhere else.
- A *stage* is what a state of the parser stands for within its container: before
  the first element, after a key, after a value, and so on. For each stage one
  lemma gives the words that may come and the stage they lead to; it is the
  derivative of the language by a word.
- The completions of a stack of stages are those of its top, then the bracket of
  that container, then those of the stack below. `Tracks` relates words read to a
  stack whose completions are exactly what is lacking; the lemmas about it say
  that a word that opens, closes or fills a stage keeps `Tracks`, that no other
  word begins anything, and that the words are a document exactly when the stack
  lacks nothing (`TracksNoMore`).

The lemmas do not mention the parser or the generator, and both use them.

### The generator: `GeneratorProofs`

`TypeCorrect`, `DepthMirrors`, for any `JHN_MAX_DEPTH`, width of `depth` and output.
The inductive invariant is `IInv == TypeOK /\ DepthMirrorsNesting`: that `depth`
stays below `JHN_MAX_DEPTH` while something is generated needs that it counts the
open containers, and a close finds the enclosing cell waiting for a value
because every cell but the innermost does. From `GeneratorAssumption`.

`OutputJson` and `RefusalsExact`: what is printed begins a document, is one exactly
when the generator says so, and a call is refused only where no word could be
printed. The invariant is `WordsMatch`: `state[]`, read as a stack of stages
(`CellStage`), tracks the printed words, as the parser's stack tracks the words
read. The two differ in a comma or a colon, which the generator prints together
with the word behind it, so its cell stands for the stage before the separator
(`Readied` is the stage after it). When an open is refused for depth the
separator is there and the cell does not say so; the invariant then keeps only
that the words are tracked by *some* stage on top of the enclosing ones. The hypothesis is `Disciplined`: a close that
does not fit the container that is open is printed all the same (`gen.c:324`).

`LinesMirror` and `LineEnds`, of `LayoutSpec`: with `jhn_gen_beautify` set since the
last reset, every word stands on the line and at the indentation that the
containers around it ask for, and the line is ended exactly when the document is
complete. Both have the hypothesis `Disciplined`; without it `depth` may lie
outside `state[]`, which `Layout` reads. The invariant is `LaidInv`. The two
properties look back at any distance (how many containers are open at a place,
which word was the last before it), so the invariant says what the generator can
know of that: `TailFits`, the white space that trails the output is the one
that the current cell of `state[]` stands for, and the nesting at the end of the
output is `depth`. What is printed later changes no earlier place
(`EarlierPlaces`), so that a call has to be shown right only for the words it
adds (`PutSpace`, `PutWord`, `PutLine`). When the depth was exceeded a separator
without a value is left behind; `LaidInv` then only says that the document is not
complete.

### Parser and generator in `example.c`: `PrettifyProofs`

`FilePrinted`: what is parsed is printed, up to an error or the depth.
`OnlyDepthRefused`: the generator refuses a call of the filter exactly when the
nesting has reached `JHN_MAX_DEPTH`. The invariant is `PrettyInv`: until a call is
refused, `state[]` of the generator follows the state stack of the parser cell by
cell (`CellFor`). Three things keep the two from being equal. On a level that
waits for a container to be closed, the parser has moved on when the container
began and the generator moves on when it ends (`LevelsAgree`). The parser reads a
comma or a colon when it comes, the generator prints it with the word that
follows (`Pending`, in `TopAgrees`). And within a turn the callback comes after
the parser's own assignment. The parser's part of the invariant is taken from
`ParserProofs`. From `ParserAssumption` and `DepthAssumption`.

### The helpers: `HelperProofs`

- `IntegerIsDelivered`, for texts of any length and every width of a `long long`
  from 8 bits on. The text of an integer is never delivered as another integer:
  the product may wrap around before it is tested, but only once, and the
  difference `LLONG_MAX - ret * 10` is then smaller than any digit (`WrapOnce`).
  From `WidthAssumption`.
- `LineStaysInside`, `ArrowPoints`, for every offset, length and position of line
  breaks. `ErrorInv == ErrorTypeOK /\ Placed /\ Filled` says how many cells are
  filled and with what: padding, then the shown characters from `FirstShown` on.
  From `BoundsAssumption` and `BreaksAssumption`.
- `TextIsTerminated`, `BufImplementsText`, for chunks of any length and any size of
  the first block. That there is room for the terminator needs what the doubling
  function returns; that it returns at all is shown by induction on what the
  block lacks. From `SizeAssumption` and `ChunksAssumption`.
- `NothingIsLeft`: at the end of any sequence of calls that frees every handle,
  nothing is allocated. `OwnInv` says whose the blocks are.
- `NothingFaults`: no block is used or freed after it was freed, and no allocator
  is called through a struct that is gone. This theorem has a hypothesis,
  `Informed`: a lexer that the client runs itself gets an allocator struct and not
  `NULL`, and a generator gets at most one print callback. The code does not check
  either, and the header asks for neither; they are the two deviations that
  section 3 describes, and `SafeInv` is not inductive without them. The run uses
  values that satisfy it. From `ClientAssumption` of `Lifetimes`.
- `HelpersTypeCorrect`, of the run of all helpers. Its hypothesis `{} \in Breaks` is
  about the composition, where the other helpers wait with an empty text.

### Strings: `HelperProofs`

- `ValidatorAgrees`: the generator's validator lets a string pass exactly when it
  is valid UTF-8 as the lexer's grammar defines it. `Validation` says that what
  has been read is a prefix of such a string that lacks `due` bytes.
- `DecodingUndoesEncoding`, for strings of any bytes, valid UTF-8 or not. `Encoding`
  says where the text of each byte of the source ends (`Spelling`, `Spells`), and
  that the decoder gives back byte by byte what was encoded.
- `EncodingIsALexeme`: what is encoded is the inside of a string for the lexer's
  grammar. The escaped characters are exactly the second characters of the
  longer pieces, and bytes with the top bit set stay together, which is why
  the encoded text is valid UTF-8 exactly when the source is.

All from `BytesAssumption`.

### How induction is done: `GrammarProofs`

The induction theorems of the library take an operator as a parameter and cannot
be instantiated by the provers used. `GrammarProofs` derives from well-foundedness
that a non-empty set of naturals has a least element, and `Induction`, whose
parameter is a set. Everything above that goes along a text uses it.

Several proof attempts failed because two guards of a CASE could hold at the
same time, where the code takes the first (`KindOf`, `CallbackFor`,
`LinesMirrorNesting`, `Literal`, `Frees`, `utf32_to_utf8`); these definitions now
state the order.

### Only model-checked

- Both `CallReturns`: liveness under fairness is out of the prover's reach.
- `DecodesMeaning`, `JunkIsLeft`: they compare with meanings and documents that
  the instance gives with each input (`Pieces`, `Documents`). These are
  constants without a definition, so there is nothing to prove of all of them.
  What `JunkIsLeft` says before a document is complete follows from `ChunkRead`.
- `ImplementsParser`: only the half that is about fairness, that calls return on
  the lexer too. The other half is `ParserRunsOnLexer`.

## 5. Plan

The model is as complete as section 6 says. What the runs check and no theorem
states is listed at the end of section 4 with what stands in the way.

## 6. Not modelled

- The test driver (`tests/run-parsing-tests.c`): it prints events; what its
  counting allocator checks is `NothingLeft`.
- Texts of messages, `jhn_status_to_string` and the like: constant strings.
- The printing of numbers by libc and `errno` inside `strtod`: whether a double
  overflows is a choice; the ".0" that `gen.c:245` appends without counting it
  is listed as a hazard.
- A failed allocation: where it is looked at, the call answers NULL and nothing
  else happens; most places do not look.
- The line and character counters of the lexer: nothing writes them.
- Reading the file in the example: the chunks are chosen.
- A string pointer that is `NULL` (`encode.c:191`): it is not among the strings that
  a client generates.
