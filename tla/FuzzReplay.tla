----------------------------- MODULE FuzzReplay -----------------------------
(***************************************************************************)
(* JsonFuzzReplay: a driver that runs checkInput on the files of a corpus  *)
(* and then on mutations of them, keeps some of the mutations in its pool, *)
(* saves the input that fails, and tells by its exit status what happened. *)
(* Of an input only the size is kept; the random numbers are any numbers.  *)
(***************************************************************************)
EXTENDS Integers, FiniteSets, Sequences, SequencesExt

CONSTANTS
  MaxInputSize,   \* 65536
  TokenSizes,     \* sizes of the words of the dictionary
  RepeatLength,   \* bytes that are repeated, at most: 32
  KeepEvery,      \* of so many mutations one is kept: 32
  KeptMutations,  \* mutations in the pool, at most: 256
  CommandLines,
  UnknownOptions, \* other arguments that begin with a minus
  Numeral,        \* argument |-> its value, for those that are numbers
  MaxMutations,   \* 10000000
  Found,          \* path |-> the regular files it leads to; not there if it has none
  Place,          \* file |-> its place in the order of the paths
  FileSize        \* file |-> its size; not there if it cannot be opened

ASSUME ReplayAssumption ==
  /\ MaxInputSize \in Nat \ {0} /\ KeepEvery \in Nat \ {0}
  /\ RepeatLength \in Nat \ {0} /\ KeptMutations \in Nat \ {0}
  /\ TokenSizes \subseteq 1..MaxInputSize
  /\ \A file \in DOMAIN FileSize : FileSize[file] \in Nat
  /\ \A n \in DOMAIN Numeral : Numeral[n] \in Nat
  /\ IsFiniteSet(UNION {Found[path] : path \in DOMAIN Found})

VARIABLES
  arguments,
  options,            \* what parseOptions returned
  files,              \* the files not yet replayed
  pool,               \* the sizes of the inputs in the pool
  originalCount,
  mutation,           \* i: mutations done
  input,              \* the size of the input being checked
  accepted, rejected,
  saved,              \* what saveFailure left: "nothing", "a part" of the input, "the input", "all"
  pc,
  status              \* the exit status, Running until there is one

vars == <<arguments, options, files, pool, originalCount, mutation, input, accepted, rejected, saved, pc, status>>

Success == 0
Failure == 1
UsageError == 2
Running == 3
-----------------------------------------------------------------------------
(***************************************************************************)
(* parseOptions: one argument at a time; expects is the option whose value *)
(* comes next, unless it is "none".                                        *)
(***************************************************************************)
NoOptions == [mutations |-> 0, requireValid |-> FALSE, paths |-> <<>>,
              positionalOnly |-> FALSE, expects |-> "none", good |-> TRUE]

Unusable(o) == [o EXCEPT !.good = FALSE]
WithPath(o, arg) == [o EXCEPT !.paths = Append(@, arg)]

\* count: a number, and not too large a one.
Counts(o, arg) == arg \in DOMAIN Numeral /\ (o.expects = "--mutations" => Numeral[arg] <= MaxMutations)

TakeValue(o, arg) ==
  CASE o.expects = "--mutations" /\ Counts(o, arg) -> [o EXCEPT !.mutations = Numeral[arg], !.expects = "none"]
    [] (o.expects = "--seed" /\ Counts(o, arg)) \/ o.expects = "--artifacts" -> [o EXCEPT !.expects = "none"]
    [] o.expects \in {"--mutations", "--seed"} /\ ~Counts(o, arg) -> Unusable(o)

\* Arguments that begin with a minus are options, except behind "--".
TakeOption(o, arg) ==
  CASE arg = "--" -> [o EXCEPT !.positionalOnly = TRUE]
    [] arg = "--require-valid" -> [o EXCEPT !.requireValid = TRUE]
    [] arg \in {"--mutations", "--seed", "--artifacts"} -> [o EXCEPT !.expects = arg]
    [] arg \in UnknownOptions -> Unusable(o)
    [] OTHER -> WithPath(o, arg)

ReadArgument(o, arg) ==
  CASE ~o.good -> o
    [] o.good /\ o.expects # "none" -> TakeValue(o, arg)
    [] o.good /\ o.expects = "none" /\ o.positionalOnly -> WithPath(o, arg)
    [] o.good /\ o.expects = "none" /\ ~o.positionalOnly -> TakeOption(o, arg)

parseOptions(line) ==
  LET o == FoldLeft(ReadArgument, NoOptions, line)
  IN  IF o.expects # "none" \/ o.paths = <<>> THEN Unusable(o) ELSE o

\* std::sort: the ways to list so many files of a set in the order of the paths.
Listings(found, n) ==
  {listing \in [1..n -> found] : \A i, j \in 1..n : i < j => Place[listing[i]] <= Place[listing[j]]}

\* Mutant: no std::unique; here files that two paths lead to are listed twice.
FilesOfEach(o) ==
  LET found == [k \in DOMAIN o.paths |-> Found[o.paths[k]]]
      n == FoldFunction(LAMBDA listed, sum : Cardinality(listed) + sum, 0, found)
  IN  {listing \in Listings(UNION Range(found), n) : Range(listing) = UNION Range(found)}

\* corpusFiles: what the paths lead to, each file once.
corpusFiles(o) ==
  LET found == UNION {Found[path] : path \in ToSet(o.paths)}
  IN  {listing \in Listings(found, Cardinality(found)) : Range(listing) = found}
-----------------------------------------------------------------------------
Init ==
  /\ arguments \in CommandLines
  /\ options = NoOptions
  /\ files = <<>> /\ pool = <<>> /\ originalCount = 0
  /\ mutation = 0 /\ input = 0 /\ accepted = 0 /\ rejected = 0
  /\ saved = "nothing"
  /\ pc = "options" /\ status = Running

Exit(code) == pc' = "exit" /\ status' = code

Help ==
  /\ pc = "options" /\ arguments = <<"--help">>
  /\ Exit(Success)
  /\ UNCHANGED <<arguments, options, files, pool, originalCount, mutation, input, accepted, rejected, saved>>

ParseOptions ==
  /\ pc = "options" /\ arguments # <<"--help">>
  /\ options' = parseOptions(arguments)
  /\ IF options'.good THEN pc' = "find" /\ UNCHANGED status ELSE Exit(UsageError)
  /\ UNCHANGED <<arguments, files, pool, originalCount, mutation, input, accepted, rejected, saved>>

\* A path that leads nowhere ends the run, and so does an empty corpus.
FindCorpus ==
  /\ pc = "find"
  /\ ToSet(options.paths) \subseteq DOMAIN Found
  /\ files' \in corpusFiles(options)
  /\ files' # <<>>
  /\ pc' = "corpus"
  /\ UNCHANGED <<arguments, options, pool, originalCount, mutation, input, accepted, rejected, saved, status>>

\* Of a file one byte more is read than an input may have.
readInput ==
  /\ pc = "corpus" /\ files # <<>>
  /\ Head(files) \in DOMAIN FileSize
  /\ FileSize[Head(files)] <= MaxInputSize
  /\ input' = FileSize[Head(files)]
  /\ files' = Tail(files)
  /\ pc' = "replay"
  /\ UNCHANGED <<arguments, options, pool, originalCount, mutation, accepted, rejected, saved, status>>

\* A path, a file or its size is no good, or the file system fails.
CorpusFails ==
  /\ pc = "find" \/ (pc = "corpus" /\ files # <<>>)
  /\ Exit(Failure)
  /\ UNCHANGED <<arguments, options, files, pool, originalCount, mutation, input, accepted, rejected, saved>>

CorpusDone ==
  /\ pc = "corpus" /\ files = <<>>
  /\ originalCount' = Len(pool)
  /\ pc' = "mutate"
  /\ UNCHANGED <<arguments, options, files, pool, mutation, input, accepted, rejected, saved, status>>

\* checkInput returned: the input is counted.
Counted(isAccepted) ==
  /\ accepted' = accepted + (IF isAccepted THEN 1 ELSE 0)
  /\ rejected' = rejected + (IF isAccepted THEN 0 ELSE 1)

\* A file of the corpus, which may have to be valid, joins the pool.
Replay ==
  /\ pc = "replay" /\ input <= MaxInputSize
  /\ \E isAccepted \in BOOLEAN : (options.requireValid => isAccepted) /\ Counted(isAccepted)
  /\ pool' = Append(pool, input)
  /\ pc' = "corpus"
  /\ UNCHANGED <<arguments, options, files, originalCount, mutation, input, saved, status>>

\* Mutant: whatever does not fit is inserted all the same.
GrowsAnyhow(size, more) == {size + more}

\* An insertion that would not fit is left out.
Inserted(size, more) == {IF size + more <= MaxInputSize THEN size + more ELSE size}

Erased(size) == {size - length : length \in 1..size}
Repeated(size) == UNION {Inserted(size, length) : length \in {n \in 1..size : n <= RepeatLength}}

\* The sizes mutate may give an input of a size: a bit flipped or a first byte,
\* a byte more, a part erased, a word inserted, a part repeated, two brackets,
\* a word in its place.
Mutations(size) ==
  {size} \cup Inserted(size, 1) \cup Erased(size)
  \cup (UNION {Inserted(size, word) : word \in TokenSizes})
  \cup Repeated(size) \cup Inserted(size, 2) \cup TokenSizes

mutate ==
  /\ pc = "mutate" /\ mutation < options.mutations
  /\ \E k \in DOMAIN pool : \E size \in Mutations(pool[k]) : input' = size
  /\ pc' = "check"
  /\ UNCHANGED <<arguments, options, files, pool, originalCount, mutation, accepted, rejected, saved, status>>

\* Mutant: the mutation replaces any input of the pool.
ReplaceAny == DOMAIN pool

\* The places of the mutations in the pool, once there are enough of them.
Replaceable == {originalCount + k : k \in 1..KeptMutations}

Keep ==
  IF Len(pool) < originalCount + KeptMutations
  THEN pool' = Append(pool, input)
  ELSE \E k \in Replaceable : pool' = [pool EXCEPT ![k] = input]

CheckMutation ==
  /\ pc = "check" /\ input <= MaxInputSize
  /\ \E isAccepted \in BOOLEAN : Counted(isAccepted)
  /\ IF mutation % KeepEvery = 0 THEN Keep ELSE UNCHANGED pool
  /\ mutation' = mutation + 1
  /\ pc' = "mutate"
  /\ UNCHANGED <<arguments, options, files, originalCount, input, saved, status>>

\* checkInput throws, or a file that has to be valid is rejected: execute saves
\* the input, each file of it if that is possible, and throws again, what was
\* thrown or what keeps it from saving.  An input that is too large is thrown
\* as an invalid_argument, as a command line is that cannot be used.
Fails ==
  /\ pc \in {"replay", "check"}
  /\ saved' \in {"nothing", "a part", "the input", "all"}
  /\ Exit(IF input > MaxInputSize /\ saved' = "all" THEN UsageError ELSE Failure)
  /\ UNCHANGED <<arguments, options, files, pool, originalCount, mutation, input, accepted, rejected>>

Finish ==
  /\ pc = "mutate" /\ mutation = options.mutations
  /\ Exit(Success)
  /\ UNCHANGED <<arguments, options, files, pool, originalCount, mutation, input, accepted, rejected, saved>>

Next ==
  \/ Help \/ ParseOptions \/ FindCorpus \/ readInput \/ CorpusFails \/ CorpusDone
  \/ Replay \/ mutate \/ CheckMutation \/ Fails \/ Finish

Spec == Init /\ [][Next]_vars
-----------------------------------------------------------------------------
\* Whatever is mutated how often, no input exceeds what checkInput takes, the
\* pool holds something to choose from and no more than it may, and the places
\* that are replaced are places of the pool, behind the corpus.
TypeOK ==
  /\ pool \in Seq(0..MaxInputSize)
  /\ input \in 0..MaxInputSize
  /\ originalCount \in Nat
  /\ pc \in {"mutate", "check"} =>
       /\ originalCount \in 1..Len(pool)
       /\ Len(pool) <= originalCount + KeptMutations

\* What main tells: success, that every file the paths lead to was checked once
\* and every mutation too, and that the files were valid if they had to be; a
\* usage error, that nothing was checked; and nothing is saved without failure.
Corpus == UNION {Found[path] : path \in ToSet(options.paths)}

StatusTells ==
  /\ status = Success /\ arguments # <<"--help">> =>
       /\ accepted + rejected = Cardinality(Corpus) + options.mutations
       /\ options.requireValid => rejected <= options.mutations
  /\ status = UsageError => accepted + rejected = 0 /\ files = <<>>
  /\ saved # "nothing" => status = Failure

\* Every input of the corpus stays in the pool, in its place, however many
\* mutations are put there.
CorpusStays ==
  pc \in {"mutate", "check"} =>
    /\ originalCount' = originalCount
    /\ \A k \in 1..originalCount : pool'[k] = pool[k]

PoolKeepsCorpus == [][CorpusStays]_vars
=============================================================================
