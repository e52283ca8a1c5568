# MasketJSON in TLA+

Models, model-checking runs and machine-checked proofs for MasketJSON, the
C++17 JSON library of this repository. Every module is a translation of code
under `src/`; `PROJECT.json` lists, for each definition, the lines it stands for.

To run a check, in this directory:

    tlc -workers 2 -config Parser.cfg MCParser.tla
    tlapm JsonParserProofs.tla

## 1. The system

The library is sequential: one call runs on one thread until it returns or
throws, and nothing is shared between calls but the values the caller holds.
What is hard about it is not concurrency. It is counters and indices that two
passes must agree on, exact limits, the place an error is reported at, aliasing
of values inside one tree, exceptions in the middle of an update, and, in the
command line tool, files and streams that fail or a process that dies.

| Component | State | Operations | Hard about it | What makes it correct |
|---|---|---|---|---|
| Lexer (`parser/JsonLexer`) | source, position, line and column, saved start of the token, tokens | `tokenize`, and `string`, `number`, `keyword`, `parseUnicodeEscape` | `'\0'` means both the end and a byte; places are saved before the token is consumed; where a number ends | answers every text as the lexical grammar does; true lines and columns; errors in the first bad lexeme |
| UTF-8 (`utils/Utf8`) | none | `isValidUtf8` | overlong, truncated, surrogate, too large encodings | accepts the well-formed sequences and nothing else |
| Parser (`parser/JsonParser`) | tokens, current, depth, capacity hints and the next one, the C++ call stack | constructor, `findArrayReservations`, `parse`, `parseValue`, `parseObject`, `parseArray` | two passes agree by index; one depth counter for all activations; order of checks and consumption | answers every token stream as the grammar does; depth is nesting; hints are exact; errors at the first bad token |
| Numbers (`core/JsonHandler`, parser and serializer) | one of int64, uint64, double | `compareNumbers`, choice of storage, spelling | undefined casts at the bounds, integers no double tells apart, `-0`, doubles that look like integers | comparison is exact and a strict weak order; a number survives saving and loading |
| String codec (parser and serializer) | none | `unescapeString`, `escapeString` | surrogate pairs six bytes ahead | a string survives saving and loading |
| Json value (`core/JsonHandler`) | a variant: a tree of values | `operator[]`, `at`, `push_back`, `remove`, `clear`, conversions | a reference into the tree is an argument of an update of the tree; a conversion before a throw | an update that throws changes nothing; the result does not depend on when a vector grows |
| Algorithms (`utils/JsonAlgorithms`) | two values of one tree, or an array being sorted | `mergeObject`, `mergeArray`, `sortByPath` | the source inside the target; a comparison that throws while sorting | the merged value is that of two separate trees; nothing is lost when sorting throws |
| Serializer (`serializer/JsonSerializer`) | indent level, which is the depth | `serialize` | the limit of 128 from either side | what the parser returns can be serialized, and parsed again to the same value |
| Files (`io/JsonFile`) | a file, a stream | `read`, `write` | truncated, short and failing writes | a file changes only when the new text exists in full |
| Command line (`tools/JsonCli`) | options, files, streams, exit status | `check`, `format`, `--help`, `--version` | each operation on a file or stream may fail; flushing comes late | the status tells the truth; files as above |
| Diagnostics (`diagnostics/DiagnosticFormatter`) | none | the line of an error and the caret below it | lines counted a second time, by another rule | the caret stands below the byte the error is about |
| Fuzz harness (`fuzz`) | a pool of inputs, counters, what was saved | `checkInput`; a driver with a corpus, mutations and artifacts | three parses and two texts of one document; a pool at its limit; saving that fails | no document the parser accepts makes `checkInput` throw; sizes stay in bounds; the status tells the truth |
| Exceptions | a message and a place | - | - | the places are checked on the lexer and the parser |
| Benchmarks, examples, build | none of the library's | - | - | - |

How they call each other: `JsonParser::parse` runs the lexer over the source,
then the parser over its tokens; the parser unescapes string tokens and converts
number tokens, and asks the source, through the tokens, whether it has commas at
all. `Json::parse`, `JsonFile` and `JsonCli` call the parser; `Json::serialize`,
`JsonFile::write` and `JsonCli` call the serializer; `sortByPath` compares with
`compareNumbers`; the fuzz harness parses, serializes and parses again. Exceptions carry the only information that travels upwards.

## 2. The modules

| Module | Models | Kind |
|---|---|---|
| `JsonValues` | the alternatives of `Json::JsonValue` | values |
| `TextPass` | what a pass over a text promises: the meaning of the text or a rejection, once, and always | abstract specification |
| `JsonParser` | `JsonParser.cpp`, token by token | state machine |
| `SyntaxGrammar` | the syntactic grammar on token streams of any length: which parts of a stream are phrases, and what they mean | reference |
| `JsonGrammar` | all documents up to a length with their values, generated from the same grammar | reference, for TLC |
| `MCParser` | inputs, and the parser as a `TextPass` | for TLC |
| `JsonParserProofs` | proofs about `JsonParser`, and about `JsonSerializer` and `JsonFuzz`, which rest on them | proofs |
| `Utf8` | `Utf8.hpp` | operators |
| `JsonLexer` | `JsonLexer.cpp`, byte by byte | state machine |
| `LexicalGrammar` | the lexical grammar as predicates on ranges of a text, and what it is to read a text as tokens | reference |
| `Lexemes` | all texts up to a length with their tokens, generated from the same grammar | reference, for TLC |
| `MCLexer` | inputs, and the lexer as a `TextPass` | for TLC |
| `JsonLexerProofs` | proofs about `JsonLexer` | proofs |
| `JsonNumber` | storages, comparison, parsing and spelling of numbers | state machine over operators |
| `MCNumber` | a dense set of doubles | for TLC |
| `JsonNumberProofs` | proofs about `JsonNumber` | proofs |
| `JsonStore` | a document and the calls that change it, `JsonHandler.cpp` and the merges of `JsonAlgorithms.cpp` | state machine |
| `MCStore` | small documents | for TLC |
| `JsonStoreProofs` | proofs about `JsonStore` | proofs |
| `JsonSort` | `sortByPath`, with the insertion sort of `std::sort` | state machine |
| `MCSort` | small arrays, with the numbers of `JsonNumber` | for TLC |
| `JsonSortProofs` | proofs about `JsonSort` | proofs |
| `JsonStrings` | `unescapeString` as a state machine, `escapeString` as an operator | state machine |
| `MCStrings` | strings and texts from both ends of all ranges, the meaning of strings from a table | for TLC |
| `JsonStringsProofs` | proofs about `JsonStrings` | proofs |
| `JsonSerializer` | `JsonSerializer.cpp`: values to tokens and blanks | operators |
| `JsonFuzz` | `checkInput`: `JsonParser`, run three times, with `JsonSerializer` | composition |
| `MCFuzz` | documents of `JsonGrammar`, numbers of `JsonNumber` | for TLC |
| `FuzzReplay` | `FuzzReplay.cpp`, inputs by their sizes | state machine |
| `MCReplay` | command lines and a small file system | for TLC |
| `FuzzReplayProofs` | proofs about `FuzzReplay` | proofs |
| `Diagnostics` | `getLine` and the caret, which `JsonLexer` relates to its places | operators |
| `JsonCli` | `JsonCli.cpp` and `JsonFile.cpp` with files, streams and faults | state machine |
| `JsonCliProofs` | proofs about `JsonCli` | proofs |
| `MCCli` | command lines, small texts and disks | for TLC |

**JsonParser.** The recursion of `parseValue`, `parseObject` and `parseArray` is
an explicit stack, `frames`: one record per activation, with the members or
elements so far, the key being filled and, for an array, the capacity hint it
took and what it reserved. `pc` is where the code stands: `construct` (the
constructor's checks), `scan` (`findArrayReservations`), `value`, `open` (just
behind a bracket), `key`, `return` (a `parseValue` has returned `ret`), `done`,
`failed` (with `error`, the token `fail()` saw and the check that failed). Each
action consumes what the code consumes before its next check. `current`,
`currentDepth`, `arrayReservations` and `nextArrayReservation` are the code's
members; `scanAt` and `scanStack` are locals of the scan. Tokens are records; a string
or number token names a raw spelling, and the constants `Text` and `Number` say
what it means, or that converting it throws. Whether the source contains a comma, and so
whether it is scanned for hints, depends on strings too: the constant
`Commas` says which raw strings contain one. An exception unwinds every frame at
once, and each guard gives its level back.

**JsonLexer.** A text is a sequence of bytes as numbers. `pc` says which function
and which loop of it the lexer is in; each action consumes one byte, or takes
one decision that consumes none. `position` counts consumed bytes from 0, as the code's
does; `line`, `column` and the saved token start are the code's members. A lexer
that has thrown keeps the place it gave the exception.

**JsonNumber.** A double is a multiple of `1/Unit`, so that comparing and
truncating are exact and TLC and TLAPS can compute with it; `Doubles` may be any set of
them. `Half` is 2^63. A cast out of range gives `Garbage`, any integer. The one
action saves a number and loads it again, with either of the spellings
`to_chars` may choose.

**JsonCli.** `pc` is what `main()` does next; the operations on files and streams are
actions of their own and each has a failing outcome. `buffer` is what a stream
has accepted and not passed on, `disk` what the files hold. `before`, `content`
and `fault` only remember, for the properties. `JsonFile::write`, which is
`writeOutput` behind a serialization that may throw, is a second kind of initial state.

**JsonStore.** A document is one value; a node of it is named by its path, and a
reference is a path with the question whether it is still good. One call is made
on any node, with references to any nodes of the same document as arguments, the
target and its ancestors included. `Along` gives the nodes on the way to a path, `Replace` a document with
one of them replaced; both are recursive functions, so that they can be reasoned about. `pc` is `ready`, the loop or assignment a call is
in, or how it ended: `returned`, `threw`, or `undefined` when it
reads through a reference to an element that has been moved, or assigns a value
to a part of itself or a part of a value to the whole. Which such assignments are defined `SelfAssigns` takes from the rules of `std::variant`: between kinds
the new value is built before the old one goes only if it is a string, an array or, where a map moves without throwing, an
object (`BuiltFirst`); a null, a boolean or a number is read when what it lay in has been destroyed. `relocated` says that the target's vector has taken a new buffer,
which it may at any growth; `growth` is whether the build relocates by moving
(what elements own keeps its address) or by copying (it does not). Calls that read
their arguments one after the other (`push_back` of several, `mergeArray`,
`mergeObject`) take one step for each.

**JsonSort.** `std::sort` is, for up to 16 elements in one library and 32 in another, an insertion sort, and
a comparator that throws shows its steps: `hole` is the place whose element is held outside of the array (`held`). Libraries
differ in whether the element is taken out before it is first compared, `sort` says which. The comparator is `Order` on
the values at the path; where it throws it is `Incomparable`. `ExactValue` is the value of a number that compares with itself.

**JsonStrings.** Bytes are numbers. `unescapeString` reads ahead without checking. `Accepts` is what
the lexer has checked: the string is well-formed UTF-8, and `Cuts`, the positions between its bytes and escapes, cuts it as
`LexicalGrammar` says; `TypeOK` is that this is enough. `escapeString` is `Written`, the function of what has been
written behind each byte, at the last one. The variables are those of one call of `unescapeString`; `EscapeReadsBack` is about the
calls on what was written for one of `Texts`.

**JsonSerializer, JsonFuzz.** The text of a value is a sequence of tokens and
blanks; what throws is `Refused`. How one string or number is spelled is a
parameter, since `JsonStrings` and `JsonNumber` are about that. `serialize` calls itself for the values within a value, which stand one level
deeper; here it is a recursive function of the level, `text[l]`, on the values that far within (`Inside`), so that it
can be reasoned about. Its parts are the code's: the level, the kind, the limit for
containers, then `serializeObject` and `serializeArray`, given the texts of the next level. `checkInput` runs
`JsonParser` unchanged, on the tokens of the input and then on those of the two texts the serializer made, and
compares the values by `sameValue`, its own equality, which goes from level to level likewise.

**FuzzReplay.** Of an input only its size is kept, which is what the driver's checks are about; a
random number is any number. Options are read one argument at a time, the corpus is
what paths lead to in a file system given by constants, any file may fail to be read and
any artifact to be saved.

## 3. What is checked

| Run | Question | Properties |
|---|---|---|
| `parser` | Does the parser answer any stream right, and are places of errors, depth and hints right? | `TypeOK`, `ErrorAtFirstBadToken`, `DepthIsNesting`, `EveryArrayHinted`, `HintsExact`, `ImplementsTextPass` |
| `lexer` | Does the lexer answer any text right, with true places, and does a message point there? | `TypeOK`, `PlacesTrue`, `ErrorInFirstBadLexeme`, `CaretTrue`, `ImplementsTextPass` |
| `numbers` | Is comparison exact, does a number survive reloading? | `TypeOK`, `ComparesExactly`, `ReloadKeepsNumber` |
| `cli` | Are files safe, statuses true, options read as documented? | `FilesSafe`, `StatusTells`, `OptionsByUsage` |
| `store` | Which calls have the effect they would have on copies of their arguments, which have none that is defined, what does a throw leave? | `TypeOK`, `MergesCopies`, `DefinedUnlessHazardous`, `ThrowKeepsDocument`, `EveryCallEnds` |
| `store_remove` | Does `remove` throw when there is nothing to remove? Not for a key. | `RemovesOrThrows`, violated |
| `sort` | Does `sortByPath` sort, when does it throw, and what is lost then? | `TypeOK`, `NeverThrowsHolding`, `ThrowLosesAtMostOne`, `ThrowsUnlessSortable`, `SortsByPath`, `Ends` |
| `sort_documented` | Does it refuse all that its documentation says it refuses? Not one element alone. | `RefusesAsDocumented`, violated |
| `strings` | Does unescaping give what the escapes spell, and escaping spell it again? | `TypeOK`, `TextValid`, `EscapeReadsBack`, `ImplementsTextPass` |
| `round_trip` | Does every accepted document survive being written and read? | `RoundTripHolds`, `LimitIsDepth` |
| `replay` | Does the driver keep its limits and its corpus, and tell the truth? | `TypeOK`, `StatusTells`, `PoolKeepsCorpus` |
| `cli_inform` | Is every I/O failure reported? No. | `FaultsReported`, violated |

`ImplementsTextPass` is a refinement: parser, lexer and `unescapeString`, with
their result as `outcome`, implement `TextPass`, whose `Meaning` the reference
grammars (for strings, tables) generate independently of the code (top-down sets of texts instead of a left-to-right
automaton). It includes that an answer always comes. On the parser it also says
that of members of equal names the first counts, whatever escapes spell them.

`ErrorAtFirstBadToken` asks whether a part of the stream is the beginning of a document of `SyntaxGrammar`. To
look for the rest of one, `Completions` is enough: what is missing of a value or member, closers for what is open, and EOF. That
nothing longer could repair a refused beginning either is proved below. `GrammarsAgree` in `MCParser` has TLC evaluate that
the documents generated for the refinement are documents of `SyntaxGrammar`, with the same values.

`HintsExact` is about the arrays of a stream that has hints, and holds if none has. That a document always has them, also at the limit
of the depth, where the stack of the scan is full, is `EveryArrayHinted`: the scan gives up only on what `parse()` refuses.

**Bounds, and why they are enough.**

- `parser`, two families of inputs. Every stream of up to 4 tokens over every kind of token,
  with and without EOF: all errors of one pair of neighbouring tokens occur, and
  each within one container. And all documents of up to 9 tokens, up to one level beyond
  the limit, with all streams one token away: nine tokens hold an array with two
  nested arrays before and after a comma, which is what hints could mix up. There literals are
  reduced to one, since the streams cover the others, and names have two spellings.
  `MaxDepth` is 2 instead of 128: the code only
  compares with the limit, and both its sides are reached. What is proved below has no bound on length or depth.
- `lexer`: all texts of up to 5 bytes over four alphabets. `HexDigits` is 2
  instead of 4 in `\uXXXX`: the code loops over the digits and looks at each alike.
  Strings of up to 4 bytes over the bytes at the bounds of UTF-8, inside quotes,
  decide every case of `isValidUtf8`, whose sequences are at most 4 long.
- `numbers`: integers of 4 bits, quarters, everything up to twice the range, all pairs.
  The theorems below hold for every width.
- `store`: all documents of two levels over two keys and arrays of two elements
  that mix both kinds, and of three levels of one kind; so a target has an ancestor, a sibling and a
  descendant to be confused with. Two arguments of `push_back`: the second
  is the first that can be left behind. Indices one beyond the longest array, and one beyond `max_size()`.
- `sort`: arrays of up to 3 elements of all kinds and 4 of numbers, those of both
  storages, a double between two integers, one equal to an integer, and NaN; paths
  with no, one and two keys and empty ones. What is proved below has no bound on the length.
- `strings`: all strings of up to 3 characters and escapes, from both ends of every range the code tells
  apart: an escape, a pair, and what is before or behind it. Texts of up to 2 characters are written: an escape is for one byte
  and no byte changes what is written for another. What is proved below has no bound on either length.
- `round_trip`: all documents of up to 9 tokens and 4 levels with `MaxDepth` and
  `MaxLevel` 3 instead of 128; names in two spellings, members in either order and repeated, an integer, a
  double that is whole, a negative zero. What is proved below has no bound on length, depth or spellings.
- `replay`: every command line of up to three of ten words, and longer ones with everything in order; inputs of
  up to 5 bytes, a pool of 2 mutations of which one in 2 is kept, so that 5 mutations fill
  it and replace in it, and 9 are more than may be asked for. `CHECK_DEADLOCK FALSE`: the process exits.
- `cli`: all lines of up to 4 arguments behind the command, and lines of 5 with
  a second output; texts of 2 or 3 blocks, so that reads and writes stop in the middle, one of
  them with a document as its beginning, so that half of a text may be valid
  though the whole is not; two files that may exist, one of them named `-`, four more that may
  be created. Input and output may be the same file. `CHECK_DEADLOCK FALSE`:
  a process that has exited or was killed takes no more steps.

**Fairness.** The passes and the calls on values have weak fairness on their own
steps (`WF_vars(Parse)`, `WF_vars(Lex)`, `WF_vars(Unescape)`, `WF_vars(Sort)`, and `WF_vars(Run)` in `JsonStore`,
which makes no one make a call): a C++ call, once made, runs until it returns or throws,
on its caller's thread, and waits for nothing. `Answered` in `TextPass`, `Ends` and
`EveryCallEnds` need no more. The models of numbers, of the command line and of
the replay driver state no fairness and no liveness property: a process may be killed at any time.

**Each property can fail.** `PROJECT.json` names for each property of each passing run a mutant, a
plausible mistake in a mapped definition, that TLC finds to violate it: a guard
on the last token dropped, a depth kept for an empty container, a hint not
consumed, the last of two equal names winning, a column not advanced, a leading
zero accepted, surrogates accepted as UTF-8, an asymmetric integer range, a
missing `.0`, the output opened before the input is parsed, a missing flush, an
array merged with itself in place, a skipped member that is not passed, a number compared with a string, a value sorted that is no array,
a stack of the scan one frame too small, a low surrogate counted from
the wrong end, a container refused one level early, a mutation put among the corpus.

**Findings.** `cli_inform`: `--help` and `--version` return
`std::cout ? 0 : 3` without flushing (`src/tools/JsonCli.cpp:105`, `:109`). A
failure to write shows only when the buffer is flushed at exit, so
`masket-json --help > /dev/full` returns 0, where the usage text
(`src/tools/JsonCli.cpp:28`) promises 3 for an I/O error. `check` and `format`
flush before they ask, and return 3.

`store_remove`: `remove(key)` erases and returns, whether or not the key is
there (`src/core/JsonHandler.cpp:406`); its documentation promises an
`AccessException` if it is not (`src/core/JsonHandler.hpp:197`), and `remove(index)` does throw one.

`sort_documented`: `sortByPath` returns for `[1]`, `[null]` and `[{}]`. Its documentation promises a
`TypeException` "if the JSON value is not an array of objects" and an `AccessException` "if the key path does not exist in
the objects" (`src/utils/JsonAlgorithms.hpp:28`, `:29`, and before both definitions). The elements are looked at by the
comparator only (`src/utils/JsonAlgorithms.cpp:78`), which `std::sort` does not call for one element. (Where it is called, an
element that is no object is refused, but with the `AccessException` of a missing path.) So `ThrowsUnlessSortable` says what is refused of two
elements or more, and of fewer only that nothing is refused that can be sorted.

**Observations** made while modelling, none of them a violated promise:

- the depth limit is reported at the token behind the bracket too many, because
  `match` has consumed the bracket (`src/parser/JsonParser.cpp:209`, `:227`);
  `ErrorAtFirstBadToken` allows for it;
- an empty argument is taken as an input and then forgotten, so
  `check "" FILE` is accepted and `check FILE ""` is not
  (`src/tools/JsonCli.cpp:59`); `JsonCli` writes this into the usage grammar (`Used`);
- the documentation says nothing of aliasing. `doc[3] = doc[0]` may read an
  element that `operator[]` has left behind when it grew the array, `push_back` of several elements
  of the array itself likewise from the second on, `mergeObject(x, x["a"], true)` assigns to the member it iterates over if
  both have a member of that name, and `x = x["a"]` assigns a part of what it replaces, which is read too late if it is a
  scalar or of the kind of `x`. `Hazardous` in `JsonStore` names calls by their arguments, and no others can be undefined; merging an array with itself, or with an array it contains in a build whose
  vectors relocate by moving, is not among them;
- `null[index]` with an index that is too large throws, and leaves an empty array
  (`src/core/JsonHandler.cpp:294`); every other call that throws leaves the document as it was;
- when the comparison throws, a library that takes an element out before it compares it loses that
  one element: its place keeps what a moved-from `Json` holds (`ThrowLosesAtMostOne`);
- `-` is the standard input behind `--` too, while `-o -` creates a file named `-`.

## 4. What is proved

TLAPS proves the following for every value of the constants under their named assumptions
(`ParserAssumption`, `LexerAssumption`, `NumberAssumption`, `StringsAssumption`, `StoreAssumption`,
`DocumentsAssumption`, `SortAssumption`, `TargetsAssumption`, `NumbersAssumption`, `ReplayAssumption`, `CliAssumption`,
`SerializerAssumption`, `SpellingAssumption`, `OrderAssumption`, `LimitsAssumption`, which TLC evaluates in the runs).

| Theorem | Statement |
|---|---|
| `JsonParserProofs!Invariance` | `Spec => []Inv` |
| `JsonParserProofs!TypeCorrect` | `Spec => []TypeOK`: the parser never leaves its tokens |
| `JsonParserProofs!DepthCorrect` | `Spec => []DepthIsNesting` |
| `JsonParserProofs!HintsAreExact` | `Spec => HintsExact`: an array's hint is the number of its elements |
| `JsonParserProofs!ErrorsAreAtFirstBadToken` | `Spec => []ErrorAtFirstBadToken`: what is before the error can be completed |
| `JsonParserProofs!RefusalsAreFinal` | `Spec => []RefusalIsFinal`: no document of any length begins with the tokens up to the bad one |
| `JsonParserProofs!AnswersAreTheMeaning` | `Spec => []AnswerIsTheMeaning`: the value returned is the only meaning of the stream |
| `JsonParserProofs!ParserReadsTheGrammar` | `Spec => Reading!SafeSpec`: the parser implements `TextPass`, for streams of any length |
| `JsonParserProofs!RoundTripsHold` | `FuzzSpec => []RoundTripHolds`: what is accepted survives being written and read, at any size |
| `JsonParserProofs!LimitsAreDepth` | `FuzzSpec => []LimitIsDepth`: the serializer's level is the depth |
| `JsonLexerProofs!LexerStaysInside` | `Spec => []TypeOK`: the lexer never leaves its text |
| `JsonLexerProofs!PlacesAreTrue` | `Spec => []PlacesTrue`: lines and columns are those of the bytes |
| `JsonLexerProofs!FirstBadLexeme` | `Spec => []ErrorInFirstBadLexeme` |
| `JsonLexerProofs!LexerReadsTheGrammar` | `Spec => Reading!SafeSpec`: the lexer implements `TextPass`, for texts of any length |
| `JsonLexerProofs!NoOtherReading` | the tokens returned are those of every reading of the text |
| `JsonLexerProofs!CaretIsTrue` | `Spec => []CaretTrue`: a message shows the byte it is about |
| `JsonNumberProofs!ExactComparison` | `compareNumbers` is the order of exact values |
| `JsonNumberProofs!StrictWeakOrder` | what `std::sort` requires of it |
| `JsonNumberProofs!NumberTypeCorrect` | `Spec => []TypeOK`: no number is refused when loaded again |
| `JsonNumberProofs!ComparisonCorrect` | `Spec => []ComparesExactly` |
| `JsonNumberProofs!ReloadCorrect` | `Spec => ReloadKeepsNumber` |
| `JsonStringsProofs!TypeCorrect` | `Spec => []TypeOK`: no byte is read that is not there |
| `JsonStringsProofs!TextsAreValid` | `Spec => []TextValid`: what has been parsed can be written |
| `JsonStringsProofs!EscapesReadBack` | `Spec => []EscapeReadsBack`: a text survives saving and loading |
| `JsonStringsProofs!EscapesAreAccepted` | `unescapeString` may be given what `escapeString` writes |
| `JsonStringsProofs!LexedIsAccepted` | it may be given what is between the quotes of a string of the lexical grammar |
| `JsonStringsProofs!WrittenIsString` | between quotes, what `escapeString` writes is such a string |
| `JsonStringsProofs!PairsAreCharacters` | joining surrogates is a bijection |
| `JsonStringsProofs!EncodingsWellFormed` | `appendUtf8` appends well-formed encodings |
| `JsonStoreProofs!TargetsStayContainers` | `Spec => []TypeOK`: a call's target stays what it works on |
| `JsonStoreProofs!MergesAsOnCopies` | `Spec => []MergesCopies` |
| `JsonStoreProofs!OnlyHazardsAreUndefined` | `Spec => []DefinedUnlessHazardous` |
| `JsonStoreProofs!ThrowsKeepDocuments` | `Spec => []ThrowKeepsDocument` |
| `JsonSortProofs!ScanStaysInside` | `Spec => []TypeOK`: the unbounded scan stays in the array |
| `JsonSortProofs!NothingThrownHolding` | `Spec => []NeverThrowsHolding` |
| `JsonSortProofs!ThrowsForAnyOrder` | `Spec => []ThrowsUnlessSortable` |
| `JsonSortProofs!NothingElseLost` | `Spec => []ThrowLosesAtMostOne` |
| `JsonSortProofs!SortsAnyArray` | `Spec => []SortsByPath` |
| `FuzzReplayProofs!SizesCorrect` | `Spec => []TypeOK`: sizes and pool stay in their limits |
| `FuzzReplayProofs!CorpusKept` | `Spec => PoolKeepsCorpus` |
| `FuzzReplayProofs!StatusIsTrue` | `Spec => []StatusTells` |
| `JsonCliProofs!FilesAreSafe` | `Spec => []FilesSafe` |
| `JsonCliProofs!StatusIsTrue` | `Spec => []StatusTells` |
| `JsonCliProofs!OptionsAreByUsage` | `Spec => []OptionsByUsage`: lines of any number of words |

**Parser.** `TypeOK` is not inductive: that `tokens.at(current)` exists needs
that the last token is an EOF and that no action consumes an EOF, and that a value that returns
finds its activation needs that the depth is the number of frames. `Inv` adds
`DepthInv` (depth = number of frames, within the limit), `EofInv` (the stream
ends with an EOF once constructed) and `ControlInv` (what holds at each `pc`).
`DepthCorrect` needs a second invariant, `NestInv`, that counts openers and
closers among the consumed tokens; its steps use `Inv` and lemmas on how a count
changes when one more token is consumed. The stream, the limit, and the meaning of strings and numbers
are arbitrary.

`HintsAreExact` compares what the two passes count on their own with a third thing, the commas a bracket
owns (`Own`): those at its depth before the depth has gone below it. `ScanInv` says that behind `n` tokens the scan has, for
each bracket among them and in their order, a hint of one more than the commas it owns so far, or of as many if it
is closed at once (`Reserves`), and that its stack is the openers not yet closed (`StackOpen`). `AlignInv` says
the same of the frames of the second pass, and that as many hints were taken as brackets consumed. They
meet in `BracketsTell` (a bracket is known by how many there are up to it, so the hint taken is its own),
`OpenIsOne` (of the openers of one depth only one is still open, so a comma makes no other hint grow) and
`OwnsNoMore` (behind its closer a bracket owns nothing more, so the hint of the whole text is what it owned when it was closed).

What the parser answers is compared with `SyntaxGrammar`, which says by rules what phrases end at a token, made of
phrases that end before it, and never how to go on. `PhrasesBy` is a recursive function; what is needed of it
is that it is the least set closed under the rules (`EndingIs`, `PhraseIs`). By induction on where a phrase ends the grammar is *deterministic* -
phrases that end at one token, of one kind and with one beginning, are one phrase, hence with one meaning (`Determinism`) - and
*local*: what a phrase is depends on no token behind it (`Locality`). `ReadInv` is the invariant of accepting: each
activation's container so far is a phrase of a list, each stands in the list below it, where an item is due, and `ret`
is a phrase that ends at the last token consumed. So a value returned with an EOF behind it is a document.

That a refusal is right needs the opposite, of all documents at once. `DueInDocument` says it: in a document, of whatever
length, that begins with the open lists the frames hold, there is a value where one is due, no deeper than the limit leaves
room for. So `BadValue`, `BadMember`, `BadSeparator` and `BadEnd` each show that with
the token refused there is no document (`NoDocument`). The other half of `ErrorAtFirstBadToken` builds one: `CompleteWith`
closes the frames from the innermost out, and there is a lemma for each thing that may be missing before that (`ValueMissing`,
`KeyMissing`, `ColonMissing`, `CloserMissing`, `EofMissing`). For the depth, counted in the phrase and not by
the parser, the frames are how deep the phrases stand. `ParserReadsTheGrammar` puts both together; `OneDocument` adds that a stream which is a
document at one EOF is none at another, so that `parse()`, which stops at the first, loses nothing.

**Round trip.** Three things are assumed of what `checkInput` composes. `SpellingAssumption`: a string or number that came out of the parser is
spelled in a way that is read back as that string or number, which is what `JsonStringsProofs!EscapesReadBack` and
`JsonNumberProofs!ReloadCorrect` prove. `OrderAssumption`: `std::map` has a strict order of all
keys. `LimitsAssumption`: the parser's limit is not above the serializer's; both are 128.
`RoundTripHolds` is not inductive, since it does not say what text is being parsed. `FuzzInv` does: whatever stage `checkInput` is in, the tokens
being parsed are a document that means `original`, and the parser's own invariants (`AllInv`, `FailsRightly`) hold of this parse.
They say that a failure is about a stream that means nothing (`FailsRightly`) and that an answer is a meaning, and
`Determinism` that there is but one: so the second and third parse cannot fail, and what they give is `original`
(`NeverFails`, `AnswerAgain`). What is left is that a text of `serialize` means the value it was written for
(`SerializeSpells`, `TextMeans`). That is an induction from the deepest level outwards (`LayersSpell`): the text of a part, with its blanks taken out
(`WithoutBlanks`), is a phrase wherever in a stream it stands, and brackets, keys and commas around such parts make a phrase again. For an object
it uses that its keys can be put in an order (`SortExists`), for otherwise `CHOOSE` would say nothing, and
that in this order no name is met twice, so that "the first counts" drops no member. `LimitsAreDepth` is the same induction
for what is `Refused`: with the depth left at a level, `TooDeepRefused` in one direction, and that everything meant by a document (`Meant`) is at most `MaxDepth` deep in the other.

**Lexer.** `TypeOK` and `PlacesTrue` are inductive together with `TokenBegun`: the token being read has the place of
its first byte, and digits of an escape are left while it is read. The line and column of a position are counted from the
text alone (`LineOf`, `ColumnOf`), so each of the lexer's ways to move on is one step of that count.
`CaretIsTrue` follows from the places alone: `PlacedIsShown` takes any byte of any text, and compares that count with what
`getLine` has when it has read so far, by its own rule (`Towards`): it is in the same line, and has kept as many bytes of the line looked for as there are
columns before the byte. What it reads after that leaves them there (`Beyond`).

What the lexer answers is compared with `LexicalGrammar`, which says of a range of a text whether it is a
lexeme, of whatever length, and does not say how to find one: a number is cut into sign, integer, fraction and exponent *somewhere*,
the inside of a string is cut into bytes and escapes *somehow*. `Reads` says that a sequence of tokens, with white space
between them, is all of a text up to a place. (TLC compares with texts generated from the same grammar, `Lexemes`, since it
cannot look for the cuts.) The proof has two invariants. `ReadSoFar`: the tokens so far read the text up to the lexeme
begun, and this is one of the grammar as far as it has been read (`NumberSoFar`, `StringSoFar`). That gives
`FirstBadLexeme`, and an accepted text has a reading. `AlongAll` is about what the text *could* still be: along every reading of
the text the lexer has the first tokens, and stands before the next lexeme or inside it, wherever the reading cuts it
(`NumberAhead`, `StringAhead`). It says that the lexer has not failed, so a text that can be read is never
refused; and at the end, that there was but one reading. `AlongAll` alone would be preserved by no step that ends a lexeme: that a number ends where the
code ends it needs that the grammar does not cut a number short before a digit, and that no lexeme that may follow one begins with a character
that would go on with it (`LexemeStops`).

**Numbers.** `SignedExactly` and `UnsignedExactly` show that the bounds tested before the
cast keep it in range, so that `Garbage` never matters, and that truncation
loses nothing the last comparison does not recover. `ReloadCorrect` rests on
`ReloadNumber`, which goes through the storages one by one. It assumes that
`to_chars` and `from_chars` round-trip, as the C++ standard promises for the
shortest spelling.

**Strings.** The inductive invariant says that `i` is at one of the lexer's cuts, also behind a high surrogate;
the bytes an action reads are then those of one byte or escape of the string.
`EncodingsWellFormed` goes through the four lengths of an encoding; `PairsAreCharacters` is the arithmetic of ten and ten bits.
`TextsAreValid` follows what `isValidUtf8` knows of the string, which the lexer has checked (`StringsAssumption`), and of the text
made of it, side by side (`Alike`): both are in the middle of the same character, or between two. A byte copied keeps them alike. An
escape can only come between two characters, since an ASCII byte inside one would have made `isValidUtf8` refuse the string, and what
it appends is the encoding of one more character (`EncodingPasses`).

What `escapeString` writes consists of one part for each byte, and only that byte decides what its part is
(`PartIsPiece`). A byte written as an escape is ASCII, so it is a character of its own and so is each byte of the escape: what
is written is valid when the text is, and the ends of the parts, `EscapeCuts`, cut it as a reader does (`EscapesAreAccepted`). Reading it back
goes from part to part: `BackInv` says that the reader stands at the end of the part of some byte, the k-th, that its text is the first k bytes,
and that it never waits for the second half of a pair, because only `\u00xx` is written. That each part gives its byte again is `PartStep`, for all 256 bytes.

The reader may assume that its string is acceptable only because the lexer has checked it. `LexedIsAccepted` closes that gap: what is
between the quotes of a string of `LexicalGrammar`, by which the lexer goes for texts of any length (`LexerReadsTheGrammar`), is
acceptable. `WrittenIsString` is the other direction, from the serializer to the lexer.

**Values.** Documents, keys, arguments and their nesting are arbitrary. `DocumentsAssumption` asks of a document what
its C++ type gives it: that behind each path an object is a map and an array a sequence (`Shaped`); `StoreAssumption`
that no key is listed twice. None of the four properties is inductive. `Subscripted`, `Pushed` and `Inserted` say how far a call has
come: the document is that of the call with nothing but the target replaced, and the target is what it was with as much
added as has been read. Under them are facts about paths. `NodeStays`: replacing a node leaves all others as they were,
but those it is part of and those within it that the new node does not have as before. `ReplaceTwice` and `ReplaceChild`: replacing it twice, or a child of it, is replacing it
once. So an argument that does not contain the target is still what it was when it is read, although the
document has changed in between. The hard case is a `mergeObject` between nested objects: assigning to the
member that leads from the target to the other object is undefined, so as long as the call goes on that member has not been overwritten. The last part
of `Inserted` says so; `Hazardous` names the member by its key alone. That facts about each step of a path hold for the whole path is induction on its length, done
on the set of lengths that have the property (`UpTo`, `DownFrom`), since the well-founded minimum of a set is
a fact that can be cited.

**Sorting.** `Shape` adds to `TypeOK` that the element held does not come before
the first one, which no step of the scan moves: at the second place the scan
must stop. Nothing is assumed of the comparator there, not even that it is an order. For the other two theorems
elements fall into classes - strings, numbers that are not NaN, and the rest - and two can be compared exactly when they are of one class, not
the last (`ThrowsByClass`). `OneClass` says that all elements looked at so far are of one class, in the
array as it is and in the array of the call, and that those behind are where they were. So the
element held is of the class of all it can meet (`HeldCompares`), and an element of another class is always met by the comparison with the first
one, when nothing is held.

`NothingElseLost` rests on that too, for an exception while an element is held would lose it. It and `SortsAnyArray` need more of the steps: `Permuted`, that the array with the held
element put back is that of the call after a permutation of the places (each way to move elements up composes
it with one more), and `InsertedInOrder`, that the elements before the next one ascend, also around the hole. They assume of
`CompareNumbers` that it is the order of exact values on the numbers that compare with themselves and fails on
the others (`NumbersAssumption`), which is what `JsonNumberProofs!ExactComparison` proves of it.

**Replay driver.** `IInv` adds to `TypeOK` that a corpus that was found has a file to begin
the pool with. For `StatusIsTrue`, `Counting` relates the counters to the files replayed and the mutations checked, and
`Telling` says what is known when the process exits; that the list of files has each file once is what `corpusFiles` gives. `MutationsFit` goes through the kinds of mutations, `KeepBehind` shows that replacing is done behind the corpus.

**Command line.** The texts, of any length, the files, the command lines and the faults are arbitrary; a text
has to be a sequence. `Untouched` says that nothing has changed before the output is opened. From then on
`Settled` holds: the input was valid and `text` is what has to be written. `Holds` relates the output to the stream: between `put` and
the flush the output has the first `n` blocks of the text and the buffer exactly the others, for some `n`. So flushing all
of it completes the text, and a failure or a kill leaves a beginning (`PassOnMore`). After `--help` and
`--version`, which do not flush, `StatusTells` promises nothing: that is the finding of `cli_inform`.

`OptionsByUsage` compares `parseOptions`, which goes through a line once and knows nothing of what is still to come, with the
usage text, which speaks of a whole line: `Used` says where its one `-o`, its one `--` and its one input that counts are (the
marks), and what the other words may then be. `StateOf` is what the code knows behind any word of a line with given marks. In one
direction (`UsedIsRead`) every word of a used line takes the code from one such state to the next. In the other (`LineUnderstood`)
each word the code does not refuse is at one of the marks, or leaves them, and marks met later
change nothing of what has been read (`MarksAgree`).

**Only model-checked.** Liveness (`Answered`, `Ends`, `EveryCallEnds`), which the refinements `ImplementsTextPass` of lexer and parser
include beside the safety proved; the refinement of `unescapeString`, whose reference is a table; `EveryArrayHinted`, that the scan
finds a hint for every array the parser opens (that no hint found is wrong, `HintsExact`, is proved). Liveness and `ENABLED` are out of
the prover's reach. That the tables TLC is given for `Text`, `Number`, `Escape` and `Written` are those of `JsonStrings` and
`JsonNumber` is not proved: the modules meet in the assumptions named above.

## 5. What is not modelled, and why

- Exceptions: plain carriers of a message and a place. Which one is thrown, and
  with which place, is part of the components that throw.
- Memory: allocation failure other than of a growing array in `operator[]`, and the time saved by hints. That hints
  are exact is checked; what `reserve` does is not.
- Rounding inside `from_chars` and `to_chars`, and `asNumber`, which rounds large
  integers and is not used by comparison. The two conversions are taken to round-trip, as the C++ standard promises
  for the shortest spelling.
- Json value: accessors that only read (`keys`, `contains`, `size`), and what a caller does with the
  containers that `asObject` and `asArray` give out.
- `std::sort` beyond the length up to which it inserts.
- Fuzz harness: the bytes of a mutation. `round_trip` runs `checkInput` on every document of its bound instead.
- Benchmarks, examples, build files: no logic of the library.

## 6. Plan

Done: parser with depth, hints and errors; lexer, UTF-8 and diagnostics; numbers;
strings; values, merges and sorting; serializer and round trip; command line and files; the
replay driver; proofs about parser and its grammar, serializer and round trip, numbers, strings, values and merges, sorting, lexer, the command line and the replay driver. Left:

1. **Composition** of lexer and parser, so that the places of parse errors are
   those of the text, and the tokens of `SyntaxGrammar` those of `LexicalGrammar`; with it, `Text` and `Escape` of
   the round trip would be the results of `JsonStrings`.
