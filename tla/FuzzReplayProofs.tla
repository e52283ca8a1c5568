-------------------------- MODULE FuzzReplayProofs --------------------------
(***************************************************************************)
(* What MCReplay checks for inputs of five bytes and a pool of two kept    *)
(* mutations, for every limit, every corpus and every command line.        *)
(***************************************************************************)
EXTENDS FuzzReplay, FiniteSetTheorems, SequenceTheorems, TLAPS

\* TypeOK, and that a corpus that is found has a file to begin the pool with.
IInv ==
  /\ TypeOK
  /\ pc \in {"corpus", "replay", "mutate", "check", "options", "find", "exit"}
  /\ pc = "corpus" => files # <<>> \/ pool # <<>>

-----------------------------------------------------------------------------
\* No mutation of an input that fits is larger than what checkInput takes.
LEMMA InsertedFits ==
  ASSUME NEW size \in 0..MaxInputSize, NEW more \in Nat
  PROVE  Inserted(size, more) \subseteq 0..MaxInputSize
  BY ReplayAssumption DEF Inserted

LEMMA MutationsFit ==
  ASSUME NEW size \in 0..MaxInputSize
  PROVE  Mutations(size) \subseteq 0..MaxInputSize
<1>1. TokenSizes \subseteq 0..MaxInputSize /\ TokenSizes \subseteq Nat /\ MaxInputSize \in Nat
  BY ReplayAssumption
<1>2. Erased(size) \subseteq 0..MaxInputSize
  BY <1>1 DEF Erased
<1>3. Repeated(size) \subseteq 0..MaxInputSize
  <2> SUFFICES ASSUME NEW length \in 1..size PROVE Inserted(size, length) \subseteq 0..MaxInputSize
    BY DEF Repeated
  <2> QED
    BY <1>1, InsertedFits
<1>4. UNION {Inserted(size, word) : word \in TokenSizes} \subseteq 0..MaxInputSize
  <2> SUFFICES ASSUME NEW word \in TokenSizes PROVE Inserted(size, word) \subseteq 0..MaxInputSize
    OBVIOUS
  <2> QED
    BY <1>1, InsertedFits
<1>5. Inserted(size, 1) \subseteq 0..MaxInputSize /\ Inserted(size, 2) \subseteq 0..MaxInputSize
  BY InsertedFits
<1> SUFFICES ASSUME NEW x \in Mutations(size) PROVE x \in 0..MaxInputSize
  OBVIOUS
<1>6. \/ x = size \/ x \in Inserted(size, 1) \/ x \in Erased(size)
      \/ x \in UNION {Inserted(size, word) : word \in TokenSizes}
      \/ x \in Repeated(size) \/ x \in Inserted(size, 2) \/ x \in TokenSizes
  BY Zenon DEF Mutations
<1> QED
  BY <1>1, <1>2, <1>3, <1>4, <1>5, <1>6

\* A kept mutation goes behind the corpus: at the end while there is room, and
\* to a place that is there once there is none.
LEMMA KeepBehind ==
  ASSUME IInv, pc = "check", Keep
  PROVE  /\ pool' \in Seq(0..MaxInputSize)
         /\ originalCount \in 1..Len(pool')
         /\ Len(pool') <= originalCount + KeptMutations
         /\ \A k \in 1..originalCount : pool'[k] = pool[k]
<1> USE DEF IInv, TypeOK
<1>0. KeptMutations \in Nat /\ originalCount \in Nat /\ Len(pool) \in Nat
  BY ReplayAssumption
<1>1. CASE Len(pool) < originalCount + KeptMutations
  <2>1. pool' = Append(pool, input)
    BY <1>1 DEF Keep
  <2> QED
    BY <1>0, <1>1, <2>1
<1>2. CASE ~(Len(pool) < originalCount + KeptMutations)
  <2>1. PICK k \in Replaceable : pool' = [pool EXCEPT ![k] = input]
    BY <1>2 DEF Keep
  <2>2. k \in Int /\ k > originalCount
    BY <1>0 DEF Replaceable
  <2>3. pool' \in Seq(0..MaxInputSize) /\ Len(pool') = Len(pool)
    <3>1. pool \in Seq(0..MaxInputSize) /\ input \in 0..MaxInputSize
      OBVIOUS
    <3>2. k \in 1..Len(pool)
      BY <1>0, <1>2, <2>2 DEF Replaceable
    <3> QED
      BY <2>1, <3>1, <3>2, ExceptSeq, LenProperties
  <2>4. \A j \in 1..originalCount : pool'[j] = pool[j]
    BY <1>0, <2>1, <2>2
  <2> QED
    BY <1>0, <2>3, <2>4
<1> QED
  BY <1>1, <1>2
-----------------------------------------------------------------------------
LEMMA InitIInv == Init => IInv
  BY ReplayAssumption DEF Init, IInv, TypeOK

LEMMA NextIInv == IInv /\ [Next]_vars => IInv'
<1> SUFFICES ASSUME IInv, [Next]_vars PROVE IInv'
  OBVIOUS
<1> USE DEF IInv, TypeOK
<1>1. CASE Help
  BY <1>1 DEF Help, Exit
<1>2. CASE ParseOptions
  BY <1>2 DEF ParseOptions, Exit
<1>3. CASE FindCorpus
  BY <1>3 DEF FindCorpus
<1>4. CASE readInput
  <2>1. input' \in 0..MaxInputSize
    BY <1>4, ReplayAssumption DEF readInput
  <2> QED
    BY <1>4, <2>1 DEF readInput
<1>5. CASE CorpusFails
  BY <1>5 DEF CorpusFails, Exit
<1>6. CASE CorpusDone
  <2>1. pool # <<>> /\ Len(pool) \in Nat /\ Len(pool) # 0
    BY <1>6 DEF CorpusDone
  <2> QED
    BY <1>6, <2>1, ReplayAssumption DEF CorpusDone
<1>7. CASE Replay
  <2>1. pool' = Append(pool, input) /\ pool' \in Seq(0..MaxInputSize) /\ pool' # <<>>
    BY <1>7 DEF Replay
  <2> QED
    BY <1>7, <2>1 DEF Replay
<1>8. CASE mutate
  <2>1. PICK k \in DOMAIN pool : input' \in Mutations(pool[k])
    BY <1>8 DEF mutate
  <2>2. pool[k] \in 0..MaxInputSize
    BY <2>1, LenProperties, ElementOfSeq
  <2>3. input' \in 0..MaxInputSize
    BY <2>1, <2>2, MutationsFit
  <2> QED
    BY <1>8, <2>3 DEF mutate
<1>9. CASE CheckMutation
  <2>1. CASE Keep
    BY <1>9, <2>1, KeepBehind DEF CheckMutation
  <2>2. CASE UNCHANGED pool
    BY <1>9, <2>2 DEF CheckMutation
  <2> QED
    BY <1>9, <2>1, <2>2 DEF CheckMutation
<1>10. CASE Fails
  BY <1>10 DEF Fails, Exit
<1>11. CASE Finish
  BY <1>11 DEF Finish, Exit
<1>12. CASE UNCHANGED vars
  BY <1>12 DEF vars
<1> QED
  BY <1>1, <1>2, <1>3, <1>4, <1>5, <1>6, <1>7, <1>8, <1>9, <1>10, <1>11, <1>12 DEF Next

LEMMA Invariance == Spec => []IInv
  BY InitIInv, NextIInv, PTL DEF Spec

\* With the constants of the code, 65536 bytes and 256 kept mutations, or any
\* others: no input of whatever run exceeds the size checkInput takes, random()
\* % pool.size() never divides by zero, and the pool keeps its bound.
THEOREM SizesCorrect == Spec => []TypeOK
<1>1. IInv => TypeOK
  BY DEF IInv
<1> QED
  BY <1>1, Invariance, PTL

\* However long a run is, no mutation takes the place of an input of the
\* corpus (FuzzReplay.cpp:203).
THEOREM CorpusKept == Spec => PoolKeepsCorpus
<1>1. IInv /\ [Next]_vars => [CorpusStays]_vars
  <2> SUFFICES ASSUME IInv, [Next]_vars, pc \in {"mutate", "check"}
               PROVE  originalCount' = originalCount /\ \A k \in 1..originalCount : pool'[k] = pool[k]
    BY DEF CorpusStays
  <2>1. CASE mutate \/ Finish \/ Fails
    BY <2>1 DEF mutate, Finish, Fails
  <2>2. CASE CheckMutation
    <3>1. CASE Keep
      BY <2>2, <3>1, KeepBehind DEF CheckMutation
    <3>2. CASE UNCHANGED pool
      BY <2>2, <3>2 DEF CheckMutation
    <3> QED
      BY <2>2, <3>1, <3>2 DEF CheckMutation
  <2>3. CASE UNCHANGED vars
    BY <2>3 DEF vars
  <2>4. ~(Help \/ ParseOptions \/ FindCorpus \/ readInput \/ CorpusFails \/ CorpusDone \/ Replay)
    BY DEF Help, ParseOptions, FindCorpus, readInput, CorpusFails, CorpusDone, Replay
  <2> QED
    BY <2>1, <2>2, <2>3, <2>4 DEF Next
<1> QED
  BY <1>1, Invariance, PTL DEF Spec, PoolKeepsCorpus

-----------------------------------------------------------------------------
\* What has been counted so far: each file of the corpus that has left the list
\* and is not being replayed, then every mutation.
Counting ==
  /\ accepted \in Nat /\ rejected \in Nat /\ mutation \in Nat
  /\ pc \in {"options", "find"} =>
       accepted = 0 /\ rejected = 0 /\ mutation = 0 /\ files = <<>>
  /\ pc \in {"corpus", "replay"} =>
       /\ Cardinality(Corpus) \in Nat /\ files \in Seq(Corpus) /\ mutation = 0
       /\ accepted + rejected + Len(files) + (IF pc = "replay" THEN 1 ELSE 0) = Cardinality(Corpus)
       /\ options.requireValid => rejected = 0
  /\ pc \in {"mutate", "check"} =>
       /\ Cardinality(Corpus) \in Nat
       /\ accepted + rejected = Cardinality(Corpus) + mutation
       /\ options.requireValid => rejected <= mutation

\* There is a status only once the run is over, and a failure saved only then.
Telling ==
  /\ pc # "exit" => status = Running /\ saved = "nothing"
  /\ StatusTells

CInv == IInv /\ Counting /\ Telling

\* A listing has as many places as there are files.
LEMMA ListingLength ==
  ASSUME FindCorpus
  PROVE  /\ Cardinality(Corpus) \in Nat
         /\ files' \in Seq(Corpus) /\ Len(files') = Cardinality(Corpus)
<1>1. IsFiniteSet(Corpus)
  <2>1. Corpus \subseteq UNION {Found[path] : path \in DOMAIN Found}
    BY DEF FindCorpus, Corpus
  <2> QED
    BY <2>1, FS_Subset, ReplayAssumption
<1>2. Cardinality(Corpus) \in Nat
  BY <1>1, FS_CardinalityType
<1>3. files' \in [1..Cardinality(Corpus) -> Corpus]
  BY DEF FindCorpus, corpusFiles, Listings, Corpus
<1> HIDE DEF Corpus
<1> QED
  BY <1>2, <1>3, SeqDef, LenProperties

LEMMA NextCounting == IInv /\ Counting /\ [Next]_vars => Counting'
<1> SUFFICES ASSUME IInv, Counting, [Next]_vars PROVE Counting'
  OBVIOUS
<1>1. CASE Help \/ CorpusFails \/ Fails \/ Finish
  BY <1>1 DEF Help, CorpusFails, Fails, Finish, Exit, Counting
<1>2. CASE ParseOptions
  BY <1>2 DEF ParseOptions, Exit, Counting
<1>3. CASE FindCorpus
  <2>1. Corpus' = Corpus
    BY <1>3 DEF FindCorpus, Corpus
  <2> QED
    BY <1>3, <2>1, ListingLength DEF FindCorpus, Counting
<1>4. CASE readInput
  <2>1. Corpus' = Corpus /\ UNCHANGED options
    BY <1>4 DEF readInput, Corpus
  <2>2. files \in Seq(Corpus) /\ files # <<>> /\ files' = Tail(files)
    BY <1>4 DEF readInput, Counting
  <2>3. files' \in Seq(Corpus) /\ Len(files') = Len(files) - 1 /\ Len(files) \in Nat
    BY <2>2, HeadTailProperties, LenProperties
  <2> HIDE DEF Corpus
  <2> QED
    BY <1>4, <2>1, <2>3 DEF readInput, Counting
<1>5. CASE CorpusDone
  <2>1. Corpus' = Corpus /\ Len(files) = 0
    BY <1>5 DEF CorpusDone, Corpus
  <2> QED
    BY <1>5, <2>1 DEF CorpusDone, Counting
<1>6. CASE Replay
  <2>1. Corpus' = Corpus
    BY <1>6 DEF Replay, Corpus
  <2>2. Len(files) \in Nat
    BY <1>6, LenProperties DEF Replay, Counting
  <2>3. PICK isAccepted \in BOOLEAN : (options.requireValid => isAccepted) /\ Counted(isAccepted)
    BY <1>6 DEF Replay
  <2> QED
    BY <1>6, <2>1, <2>2, <2>3 DEF Replay, Counted, Counting
<1>7. CASE mutate
  <2>1. Corpus' = Corpus
    BY <1>7 DEF mutate, Corpus
  <2> QED
    BY <1>7, <2>1 DEF mutate, Counting
<1>8. CASE CheckMutation
  <2>1. Corpus' = Corpus
    BY <1>8 DEF CheckMutation, Corpus
  <2>2. PICK isAccepted \in BOOLEAN : Counted(isAccepted)
    BY <1>8 DEF CheckMutation
  <2> QED
    BY <1>8, <2>1, <2>2 DEF CheckMutation, Counted, Counting
<1>9. CASE UNCHANGED vars
  BY <1>9 DEF vars, Counting, Corpus
<1> QED
  BY <1>1, <1>2, <1>3, <1>4, <1>5, <1>6, <1>7, <1>8, <1>9 DEF Next

LEMMA NextTelling == CInv /\ [Next]_vars => Telling'
<1> SUFFICES ASSUME CInv, [Next]_vars PROVE Telling'
  OBVIOUS
<1> USE DEF CInv, Telling, StatusTells, Success, Failure, UsageError, Running
<1>1. CASE Help \/ CorpusFails
  BY <1>1 DEF Help, CorpusFails, Exit
<1>2. CASE ParseOptions
  BY <1>2 DEF ParseOptions, Exit, Counting
<1>3. CASE Fails
  <2>1. ~(input > MaxInputSize)
    BY ReplayAssumption DEF IInv, TypeOK
  <2>2. pc' = "exit" /\ status' = Failure
    BY <1>3, <2>1 DEF Fails, Exit
  <2> QED
    BY <2>2
<1>4. CASE Finish
  <2>1. Corpus' = Corpus /\ mutation = options.mutations /\ pc = "mutate"
    BY <1>4 DEF Finish, Corpus
  <2> QED
    BY <1>4, <2>1 DEF Finish, Exit, Counting
<1>5. CASE FindCorpus \/ readInput \/ CorpusDone \/ Replay \/ mutate \/ CheckMutation
  <2>1. pc' # "exit" /\ UNCHANGED <<status, saved>> /\ pc # "exit"
    BY <1>5 DEF FindCorpus, readInput, CorpusDone, Replay, mutate, CheckMutation
  <2> QED
    BY <2>1
<1>6. CASE UNCHANGED vars
  BY <1>6 DEF vars, Corpus
<1> QED
  BY <1>1, <1>2, <1>3, <1>4, <1>5, <1>6 DEF Next

\* Whatever the corpus, the command line and the number of mutations are: a
\* run that says it succeeded has checked every file the paths lead to once and
\* every mutation, and what it saved it saved for a failure (FuzzReplay.cpp:189).
THEOREM StatusIsTrue == Spec => []StatusTells
<1>1. Init => CInv
  BY InitIInv
  DEF Init, CInv, Counting, Telling, StatusTells, Success, Failure, UsageError, Running
<1>2. CInv /\ [Next]_vars => CInv'
  BY NextIInv, NextCounting, NextTelling DEF CInv
<1>3. CInv => StatusTells
  BY DEF CInv, Telling
<1> QED
  BY <1>1, <1>2, <1>3, PTL DEF Spec
=============================================================================
