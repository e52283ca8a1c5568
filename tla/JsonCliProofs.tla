---------------------------- MODULE JsonCliProofs ---------------------------
(***************************************************************************)
(* What MCCli checks for a few texts and command lines, for any: texts of  *)
(* any length, written and read in any pieces, with any faults, and lines  *)
(* of any number of words.                                                 *)
(***************************************************************************)
EXTENDS JsonCli, SequenceTheorems, WellFoundedInduction, TLAPS

\* What texts consist of.
Blocks == (UNION {ToSet(t) : t \in Texts \cup Documents}) \cup {"Valid JSON", "NaN"}

\* What the output, be it a file or the standard output, has been given; no
\* other file has changed.
Holds(files, standard, given) ==
  IF Output = Empty
  THEN files = before /\ standard = given
  ELSE files = [before EXCEPT ![Output] = given] /\ standard = <<>>

\* The text to be written has been settled.
Settled ==
  /\ options.command \in {"check", "format", "write"}
  /\ Readable
  /\ text = Written /\ text \in Seq(Blocks)
  /\ Output # Empty => text = Formatted

Reading == {"open input", "read", "parse"}
Writing == {"open output", "put", "flush", "close"}

\* Before the output is opened nothing has changed.
Untouched ==
  /\ disk = before /\ stdout = <<>> /\ buffer = <<>>
  /\ bad = FALSE /\ fault = FALSE

\* What holds where main() stands.
ControlInv ==
  /\ pc \in {"options"} \cup Reading \cup {"serialize"} \cup Writing \cup {"exited", "killed"}
  /\ pc \in {"options", "serialize", "open output"} \cup Reading => Untouched
  /\ pc \notin {"options", "exited", "killed"} => ~Informing(args)
  /\ pc = "options" => text = <<>> /\ options = NoOptions /\ args \in CommandLines
  /\ pc \in Reading => options.command \in {"check", "format"}
  /\ pc = "open input" => text = <<>>
  /\ pc = "read" =>
       /\ content \in Texts /\ text \in Seq(Blocks) /\ unread \in Seq(Blocks)
       /\ text \o unread = content
  /\ pc = "parse" => text = content
  /\ pc = "serialize" =>
       \/ options.command \in {"check", "format"} /\ content \in Documents
       \/ options.command = "write" /\ options.compact = FALSE /\ text \in {Pretty, Unserializable}
  /\ pc \in Writing => Settled
  /\ pc \in {"open output", "close"} => Output # Empty
  /\ pc = "put" => Holds(disk, stdout, <<>>) /\ buffer = <<>> /\ fault = FALSE
  /\ pc = "flush" =>
       /\ fault = bad
       /\ \E n \in 0..Len(text) :
            Holds(disk, stdout, SubSeq(text, 1, n)) /\ buffer = SubSeq(text, n + 1, Len(text))
  /\ pc = "close" => Holds(disk, stdout, text) /\ buffer = <<>> /\ fault = FALSE
  /\ pc = "exited" /\ ~Informing(args) => buffer = <<>> \/ bad

Inv ==
  /\ before \in [Paths -> Texts \cup {Missing}]
  /\ stdin \in Texts
  /\ ControlInv
  /\ FilesSafe
  /\ StatusTells
-----------------------------------------------------------------------------
\* A block is read: what has been read and what has not are still the input.
LEMMA MoveBlock ==
  ASSUME NEW S, NEW s \in Seq(S), NEW u \in Seq(S), u # <<>>
  PROVE  /\ Append(s, Head(u)) \in Seq(S) /\ Tail(u) \in Seq(S)
         /\ Append(s, Head(u)) \o Tail(u) = s \o u
<1>1. Head(u) \in S /\ Tail(u) \in Seq(S) /\ Len(u) \in Nat /\ Len(u) >= 1 /\ Head(u) = u[1]
  BY HeadTailProperties, EmptySeq, LenProperties
<1>2. Append(s, Head(u)) \in Seq(S) /\ Append(s, Head(u)) = s \o <<Head(u)>>
  BY <1>1, AppendProperties, AppendIsConcat
<1>3. u = <<Head(u)>> \o Tail(u)
  <2>1. 1 \in 1..Len(u) /\ Len(u) \in 1..Len(u)
    BY <1>1
  <2>2. SubSeq(u, 1, Len(u)) = <<u[1]>> \o SubSeq(u, 1 + 1, Len(u))
    BY <2>1, SubSeqRecursiveFirst
  <2>3. SubSeq(u, 1, Len(u)) = u /\ Tail(u) = SubSeq(u, 2, Len(u))
    BY SubSeqFull, TailIsSubSeq
  <2> QED
    BY <1>1, <2>2, <2>3
<1>4. <<Head(u)>> \in Seq(S)
  BY <1>1
<1>5. (s \o <<Head(u)>>) \o Tail(u) = s \o (<<Head(u)>> \o Tail(u))
  BY <1>1, <1>4, ConcatAssociative
<1> QED
  BY <1>1, <1>2, <1>3, <1>5

\* The stream passes on m more blocks of a text of which it has passed on n.
LEMMA PassOnMore ==
  ASSUME NEW S, NEW t \in Seq(S), NEW n \in 0..Len(t),
         NEW m \in 0..Len(SubSeq(t, n + 1, Len(t)))
  PROVE  /\ n + m \in 0..Len(t)
         /\ SubSeq(t, 1, n) \o SubSeq(SubSeq(t, n + 1, Len(t)), 1, m) = SubSeq(t, 1, n + m)
         /\ m = Len(SubSeq(t, n + 1, Len(t))) => SubSeq(t, 1, n + m) = t
<1> DEFINE rest == SubSeq(t, n + 1, Len(t))
<1>0. Len(t) \in Nat /\ \A k \in 1..Len(t) : t[k] \in S
  BY LenProperties, ElementOfSeq
<1>1. rest \in Seq(S) /\ Len(rest) = Len(t) - n
  <2>1. \A k \in (n + 1)..Len(t) : t[k] \in S
    BY <1>0
  <2>2. n + 1 \in Int /\ Len(t) \in Int
    BY <1>0
  <2>3. rest \in Seq(S) /\ Len(rest) = IF n + 1 <= Len(t) THEN Len(t) - (n + 1) + 1 ELSE 0
    BY <2>1, <2>2, SubSeqProperties
  <2> QED
    BY <1>0, <2>3
<1>2. n + m \in 0..Len(t)
  BY <1>0, <1>1
<1>3. CASE m = 0
  <2>1. SubSeq(rest, 1, 0) = <<>>
    BY SubSeqEmpty
  <2>2. SubSeq(t, 1, n) \in Seq(S)
    BY <1>0, SubSeqProperties
  <2>3. SubSeq(t, 1, n) \o <<>> = SubSeq(t, 1, n)
    BY <2>2, ConcatEmptySeq
  <2> QED
    BY <1>0, <1>1, <1>2, <1>3, <2>1, <2>3, SubSeqFull
<1>4. CASE m # 0
  <2>1. /\ n + 1 \in 1..Len(t) /\ Len(t) \in 1..Len(t)
        /\ 1 \in 1..(Len(t) - (n + 1) + 1) /\ m \in 1..(Len(t) - (n + 1) + 1)
    BY <1>0, <1>1, <1>4
  <2>2. SubSeq(rest, 1, m) = SubSeq(t, (n + 1) + 1 - 1, (n + 1) + m - 1)
    BY <1>1, <2>1, SubSeqOfSubSeq
  <2>3. (n + 1) + 1 - 1 = n + 1 /\ (n + 1) + m - 1 = n + m
    BY <1>0, <1>1
  <2>4. SubSeq(t, 1, n) \o SubSeq(t, n + 1, n + m) = SubSeq(t, 1, n + m)
    <3>1. 1 \in 1..(Len(t) + 1) /\ n \in (1 - 1)..Len(t) /\ n + m \in n..Len(t)
      BY <1>0, <1>1, <1>2
    <3> QED
      BY <3>1, ConcatAdjacentSubSeq
  <2>5. m = Len(rest) => n + m = Len(t)
    BY <1>0, <1>1
  <2> QED
    BY <1>2, <2>2, <2>3, <2>4, <2>5, SubSeqFull
<1> QED
  BY <1>0, <1>1, <1>3, <1>4

\* A beginning put behind nothing is that beginning.
LEMMA Beginnings ==
  ASSUME NEW S, NEW t \in Seq(S)
  PROVE  /\ 0 \in 0..Len(t) /\ SubSeq(t, 1, 0) = <<>>
         /\ \A n \in 0..Len(t) : <<>> \o SubSeq(t, 1, n) = SubSeq(t, 1, n)
<1>0. Len(t) \in Nat /\ \A k \in 1..Len(t) : t[k] \in S
  BY LenProperties, ElementOfSeq
<1>1. SubSeq(t, 1, 0) = <<>>
  BY SubSeqEmpty
<1>2. ASSUME NEW n \in 0..Len(t) PROVE <<>> \o SubSeq(t, 1, n) = SubSeq(t, 1, n)
  <2>1. SubSeq(t, 1, n) \in Seq(S)
    BY <1>0, SubSeqProperties
  <2> QED
    BY <2>1, ConcatEmptySeq
<1> QED
  BY <1>0, <1>1, <1>2

\* All that is missing of a text, or some of it.
LEMMA PassOnAll ==
  ASSUME NEW S, NEW t \in Seq(S), NEW n \in 0..Len(t), NEW rest, rest = SubSeq(t, n + 1, Len(t))
  PROVE  /\ SubSeq(t, 1, n) \o SubSeq(rest, 1, Len(rest)) = t
         /\ SubSeq(rest, Len(rest) + 1, Len(rest)) = <<>>
         /\ \A m \in 0..Len(rest) :
              n + m \in 0..Len(t) /\ SubSeq(t, 1, n) \o SubSeq(rest, 1, m) = SubSeq(t, 1, n + m)
<1>1. rest \in Seq(S)
  <2>1. Len(t) \in Nat /\ \A k \in (n + 1)..Len(t) : t[k] \in S
    BY LenProperties, ElementOfSeq
  <2> QED
    BY <2>1, SubSeqProperties
<1>2. Len(rest) \in 0..Len(rest) /\ Len(rest) \in Nat
  BY <1>1, LenProperties
<1>3. SubSeq(rest, Len(rest) + 1, Len(rest)) = <<>>
  BY <1>2, SubSeqEmpty
<1>4. \A m \in 0..Len(rest) :
        /\ n + m \in 0..Len(t)
        /\ SubSeq(t, 1, n) \o SubSeq(rest, 1, m) = SubSeq(t, 1, n + m)
        /\ m = Len(rest) => SubSeq(t, 1, n + m) = t
  <2> SUFFICES ASSUME NEW m \in 0..Len(rest)
               PROVE  /\ n + m \in 0..Len(t)
                      /\ SubSeq(t, 1, n) \o SubSeq(rest, 1, m) = SubSeq(t, 1, n + m)
                      /\ m = Len(rest) => SubSeq(t, 1, n + m) = t
    OBVIOUS
  <2>1. m \in 0..Len(SubSeq(t, n + 1, Len(t)))
    OBVIOUS
  <2> QED
    BY <2>1, PassOnMore
<1> QED
  BY <1>2, <1>3, <1>4

\* The whole text is a beginning of itself.
LEMMA WholeText ==
  ASSUME NEW S, NEW t \in Seq(S)
  PROVE  Len(t) \in 0..Len(t) /\ SubSeq(t, 1, Len(t)) = t
  BY LenProperties, SubSeqFull

\* A beginning of a text is a prefix of it.
LEMMA BeginningIsPrefix ==
  ASSUME NEW S, NEW t \in Seq(S), NEW n \in 0..Len(t)
  PROVE  IsPrefix(SubSeq(t, 1, n), t)
<1>0. Len(t) \in Nat /\ \A k \in 1..Len(t) : t[k] \in S
  BY LenProperties, ElementOfSeq
<1>1. SubSeq(t, 1, n) \in Seq(S) /\ Len(SubSeq(t, 1, n)) = n
  BY <1>0, SubSeqProperties
<1>2. SubSeq(SubSeq(t, 1, n), 1, n) = SubSeq(t, 1, n)
  BY <1>1, SubSeqFull
<1> QED
  BY <1>0, <1>1, <1>2 DEF IsPrefix

\* Whatever is read or written is a sequence of blocks.
LEMMA TextsAreSequences ==
  /\ \A t \in Texts \cup Documents : t \in Seq(Blocks)
  /\ <<"Valid JSON">> \in Seq(Blocks) /\ Pretty \in Seq(Blocks) /\ Compact \in Seq(Blocks)
<1>1. ASSUME NEW t \in Texts \cup Documents PROVE t \in Seq(Blocks)
  <2>1. t \in Seq(ToSet(t)) /\ ToSet(t) \subseteq Blocks
    BY CliAssumption DEF Blocks
  <2> QED
    BY <2>1, SeqMonotonic
<1>2. <<"Valid JSON">> \in Seq(Blocks)
  <2>1. "Valid JSON" \in Blocks
    BY DEF Blocks
  <2>2. \A S : \A x \in S : <<x>> \in Seq(S)
    OBVIOUS
  <2> QED
    BY <2>1, <2>2
<1> QED
  BY <1>1, <1>2, CliAssumption

-----------------------------------------------------------------------------
\* So is what main() has to write.
LEMMA WrittenIsSequence ==
  ASSUME options.command \in {"check", "format", "write"},
         options.command = "write" => text \in Seq(Blocks)
  PROVE  Written \in Seq(Blocks)
  BY TextsAreSequences DEF Written, Formatted

\* What the stream passes on is added to the output, and to nothing else.
LEMMA PassOnHolds ==
  ASSUME Inv, NEW blocks, NEW n, NEW given, Holds(disk, stdout, given), PassOn(blocks, n)
  PROVE  Holds(disk', stdout', given \o SubSeq(blocks, 1, n))
<1>1. CASE Output = Empty
  BY <1>1 DEF Holds, PassOn
<1>2. CASE Output # Empty
  <2>1. DOMAIN before = Paths
    BY DEF Inv
  <2>2. disk = [before EXCEPT ![Output] = given] /\ stdout = <<>> /\ stdout' = stdout
    BY <1>2 DEF Holds, PassOn
  <2>3. disk' = [disk EXCEPT ![Output] = disk[Output] \o SubSeq(blocks, 1, n)]
    BY <1>2 DEF PassOn
  <2>4. disk' = [before EXCEPT ![Output] = given \o SubSeq(blocks, 1, n)]
    BY <2>1, <2>2, <2>3
  <2> QED
    BY <1>2, <2>2, <2>4 DEF Holds
<1> QED
  BY <1>1, <1>2

\* A beginning of the new text in the output is all that may be there.
LEMMA HoldsIsSafe ==
  ASSUME Inv, Settled, NEW n \in 0..Len(text), NEW files, NEW standard,
         Holds(files, standard, SubSeq(text, 1, n))
  PROVE  \A p \in Paths :
           files[p] = before[p] \/ (p = Output /\ Readable /\ IsPrefix(files[p], Formatted))
<1>1. IsPrefix(SubSeq(text, 1, n), text)
  BY BeginningIsPrefix DEF Settled
<1>2. CASE Output = Empty
  BY <1>2 DEF Holds
<1>3. CASE Output # Empty
  BY <1>1, <1>3 DEF Holds, Settled, Inv
<1> QED
  BY <1>2, <1>3

-----------------------------------------------------------------------------
\* A call begins with nothing changed.
LEMMA InitInv == Init => Inv
<1> SUFFICES ASSUME Init PROVE Inv
  OBVIOUS
<1>1. before \in [Paths -> Texts \cup {Missing}] /\ stdin \in Texts /\ disk = before
  BY CliAssumption DEF Init
<1>2. pc \in {"options", "serialize"} /\ Untouched
  BY DEF Init, Untouched
<1>3. ControlInv
  <2>1. CASE pc = "options"
    BY <1>2, <2>1 DEF Init, ControlInv, Reading, Writing
  <2>2. CASE pc = "serialize"
    <3>1. options.command = "write" /\ options.compact = FALSE
      BY <2>2 DEF Init, NoOptions, Empty
    <3>2. ~Informing(args) /\ text \in {Pretty, Unserializable}
      <4>1. args = <<"write">> /\ text \in {Pretty, Unserializable}
        BY <2>2 DEF Init
      <4>2. <<"--help">> # <<"write">> /\ <<"--version">> # <<"write">>
        OBVIOUS
      <4> QED
        BY <4>1, <4>2 DEF Informing
    <3> QED
      BY <1>2, <2>2, <3>1, <3>2 DEF ControlInv, Reading, Writing
  <2> QED
    BY <1>2, <2>1, <2>2
<1>4. FilesSafe
  BY <1>1 DEF FilesSafe
<1>5. StatusTells
  BY <1>2 DEF StatusTells
<1> QED
  BY <1>1, <1>3, <1>4, <1>5 DEF Inv

\* What a step leaves alone while nothing has been written.
LEMMA StaysUntouched ==
  ASSUME Untouched, UNCHANGED <<before, disk, stdout, buffer, bad, fault>>
  PROVE  Untouched' /\ FilesSafe'
  BY DEF Untouched, FilesSafe

-----------------------------------------------------------------------------
\* What parseOptions has behind the word at k of a line, when the -o of the line
\* is at o, its "--" at end and its INPUT at i.
Having(command, input, output, compact, only, awaits) ==
  [command |-> command, input |-> input, output |-> output, compact |-> compact,
   only |-> only, awaits |-> awaits, wrong |-> FALSE]

StateOf(line, o, end, i, k) ==
  Having(line[1],
         IF i <= k THEN line[i] ELSE Empty,
         IF o # 0 /\ o < k THEN line[o + 1] ELSE Empty,
         \E j \in 2..k : InOptions(o, end, j) /\ line[j] = "--compact",
         end <= k,
         o = k)

\* The word at k is then where the usage text allows it.
WordAllowed(line, o, end, i, k) ==
  \/ k = o /\ line[k] = "-o" /\ line[1] = "format" /\ k < end
  \/ o # 0 /\ k = o + 1 /\ line[k] # Empty /\ k < end
  \/ k \notin {o, o + 1} /\ k = end /\ line[k] = "--"
  \/ InOptions(o, end, k) /\ line[k] = "--compact" /\ line[1] = "format"
  \/ /\ InOptions(o, end, k) \/ end < k
     /\ InOptions(o, end, k) => line[k] \notin {"--", "--compact", "-o", "-x"}
     /\ IF k = i THEN line[k] # Empty ELSE k < i /\ line[k] = Empty

\* Where the -o, the "--" and the INPUT of a line may be.
Marks(line, o, end, i) ==
  /\ o = 0 \/ (o \in 2..Len(line) /\ o < end)
  /\ end \in 2..(Len(line) + 1)
  /\ i = Len(line) + 1 \/ i \in InputsOf(line, o, end)

\* What each kind of word does to the options.
LEMMA ReadsOutputFlag ==
  ASSUME NEW command, NEW input, NEW output, NEW compact, NEW word,
         word = "-o", command = "format", output = Empty
  PROVE  ReadArgument(Having(command, input, output, compact, FALSE, FALSE), word)
           = Having(command, input, output, compact, FALSE, TRUE)
  BY DEF ReadArgument, AwaitOutput, Having, Empty

LEMMA ReadsFile ==
  ASSUME NEW command, NEW input, NEW output, NEW compact, NEW word,
         word # Empty
  PROVE  ReadArgument(Having(command, input, output, compact, FALSE, TRUE), word)
           = Having(command, input, word, compact, FALSE, FALSE)
  BY DEF ReadArgument, Having

LEMMA ReadsEnd ==
  ASSUME NEW command, NEW input, NEW output, NEW compact, NEW word,
         word = "--"
  PROVE  ReadArgument(Having(command, input, output, compact, FALSE, FALSE), word)
           = Having(command, input, output, compact, TRUE, FALSE)
  BY DEF ReadArgument, Having

LEMMA ReadsCompact ==
  ASSUME NEW command, NEW input, NEW output, NEW compact, NEW word,
         word = "--compact", command = "format"
  PROVE  ReadArgument(Having(command, input, output, compact, FALSE, FALSE), word)
           = Having(command, input, output, TRUE, FALSE, FALSE)
  BY DEF ReadArgument, Having

LEMMA ReadsInput ==
  ASSUME NEW command, NEW output, NEW compact, NEW word,
         word \notin {"--", "--compact", "-o", "-x"}
  PROVE  ReadArgument(Having(command, Empty, output, compact, FALSE, FALSE), word)
           = Having(command, word, output, compact, FALSE, FALSE)
  BY DEF ReadArgument, Having

LEMMA ReadsLateInput ==
  ASSUME NEW command, NEW output, NEW compact, NEW word
  PROVE  ReadArgument(Having(command, Empty, output, compact, TRUE, FALSE), word)
           = Having(command, word, output, compact, TRUE, FALSE)
  BY DEF ReadArgument, Having

LEMMA ReadsWord ==
  ASSUME NEW line, Len(line) \in Nat, NEW o, NEW end, NEW i, Marks(line, o, end, i),
         NEW k \in 2..Len(line), WordAllowed(line, o, end, i, k)
  PROVE  ReadArgument(StateOf(line, o, end, i, k - 1), line[k]) = StateOf(line, o, end, i, k)
<1> DEFINE n == Len(line)
           I(m) == IF i <= m THEN line[i] ELSE Empty
           O(m) == IF o # 0 /\ o < m THEN line[o + 1] ELSE Empty
           X(m) == \E j \in 2..m : InOptions(o, end, j) /\ line[j] = "--compact"
           H(m, only, awaits) == Having(line[1], I(m), O(m), X(m), only, awaits)
<1>1. /\ o \in Nat /\ end \in Nat /\ i \in Nat /\ k \in Nat /\ n \in Nat /\ k >= 2 /\ k <= n
      /\ i <= n => i # end /\ (o # 0 => i \notin {o, o + 1}) /\ (i < end => line[i] # "--compact")
      /\ o # 0 => o < end /\ o >= 2
  BY DEF Marks, InputsOf, InOptions
<1>2. X(k) <=> X(k - 1) \/ (InOptions(o, end, k) /\ line[k] = "--compact")
  <2>1. 2..k = 2..(k - 1) \cup {k}
    BY <1>1
  <2> QED
    BY <2>1
<1>3. \A m : StateOf(line, o, end, i, m) = H(m, end <= m, o = m)
  BY DEF StateOf
<1>4. ASSUME NEW m
      PROVE  /\ ~(end <= m) /\ o # m => StateOf(line, o, end, i, m) = H(m, FALSE, FALSE)
             /\ ~(end <= m) /\ o = m => StateOf(line, o, end, i, m) = H(m, FALSE, TRUE)
             /\ end <= m /\ o # m => StateOf(line, o, end, i, m) = H(m, TRUE, FALSE)
  <2> HIDE DEF I, O, X
  <2>1. /\ ~(end <= m) => (end <= m) = FALSE
        /\ end <= m => (end <= m) = TRUE
        /\ o # m => (o = m) = FALSE
        /\ o = m => (o = m) = TRUE
    OBVIOUS
  <2>2. StateOf(line, o, end, i, m) = H(m, end <= m, o = m)
    BY <1>3
  <2> QED
    BY <2>1, <2>2, Zenon
<1> HIDE DEF H
<1>5. CASE k = o /\ line[k] = "-o" /\ line[1] = "format" /\ k < end
  <2>1. I(k) = I(k - 1) /\ O(k) = O(k - 1) /\ X(k) = X(k - 1) /\ O(k - 1) = Empty
    BY <1>1, <1>2, <1>5 DEF I, O, X, InOptions
  <2>2. /\ ~(end <= k - 1) /\ o # k - 1
        /\ ~(end <= k) /\ o = k
    BY <1>1, <1>5 DEF InOptions
  <2>3. /\ StateOf(line, o, end, i, k - 1) = H(k - 1, FALSE, FALSE)
        /\ StateOf(line, o, end, i, k) = H(k, FALSE, TRUE)
    BY <1>4, <2>2, Zenon
  <2> HIDE DEF I, O, X
  <2>4. ReadArgument(H(k - 1, FALSE, FALSE), line[k])
          = Having(line[1], I(k - 1), O(k - 1), X(k - 1), FALSE, TRUE)
    <3>1. line[k] = "-o" /\ line[1] = "format" /\ O(k - 1) = Empty
      BY <1>5, <2>1
    <3> QED
      BY <3>1, ReadsOutputFlag, Zenon DEF H
  <2> QED
    BY <2>1, <2>3, <2>4, Zenon DEF H
<1>6. CASE o # 0 /\ k = o + 1 /\ line[k] # Empty /\ k < end
  <2>1. I(k) = I(k - 1) /\ O(k) = line[k] /\ X(k) = X(k - 1)
    BY <1>1, <1>2, <1>6 DEF I, O, X, InOptions
  <2>2. /\ ~(end <= k - 1) /\ o = k - 1
        /\ ~(end <= k) /\ o # k
    BY <1>1, <1>6 DEF InOptions
  <2>3. /\ StateOf(line, o, end, i, k - 1) = H(k - 1, FALSE, TRUE)
        /\ StateOf(line, o, end, i, k) = H(k, FALSE, FALSE)
    BY <1>4, <2>2, Zenon
  <2> HIDE DEF I, O, X
  <2>4. ReadArgument(H(k - 1, FALSE, TRUE), line[k])
          = Having(line[1], I(k - 1), line[k], X(k - 1), FALSE, FALSE)
    <3>1. line[k] # Empty
      BY <1>6, <2>1
    <3> QED
      BY <3>1, ReadsFile, Zenon DEF H
  <2> QED
    BY <2>1, <2>3, <2>4, Zenon DEF H
<1>7. CASE k \notin {o, o + 1} /\ k = end /\ line[k] = "--"
  <2>1. I(k) = I(k - 1) /\ O(k) = O(k - 1) /\ X(k) = X(k - 1)
    BY <1>1, <1>2, <1>7 DEF I, O, X, InOptions
  <2>2. /\ ~(end <= k - 1) /\ o # k - 1
        /\ end <= k /\ o # k
    BY <1>1, <1>7 DEF InOptions
  <2>3. /\ StateOf(line, o, end, i, k - 1) = H(k - 1, FALSE, FALSE)
        /\ StateOf(line, o, end, i, k) = H(k, TRUE, FALSE)
    BY <1>4, <2>2, Zenon
  <2> HIDE DEF I, O, X
  <2>4. ReadArgument(H(k - 1, FALSE, FALSE), line[k])
          = Having(line[1], I(k - 1), O(k - 1), X(k - 1), TRUE, FALSE)
    BY <1>7, <2>1, ReadsEnd, Zenon DEF H
  <2> QED
    BY <2>1, <2>3, <2>4, Zenon DEF H
<1>8. CASE InOptions(o, end, k) /\ line[k] = "--compact" /\ line[1] = "format"
  <2>1. I(k) = I(k - 1) /\ O(k) = O(k - 1) /\ X(k) = TRUE
    BY <1>1, <1>2, <1>8 DEF I, O, X, InOptions
  <2>2. /\ ~(end <= k - 1) /\ o # k - 1
        /\ ~(end <= k) /\ o # k
    BY <1>1, <1>8 DEF InOptions
  <2>3. /\ StateOf(line, o, end, i, k - 1) = H(k - 1, FALSE, FALSE)
        /\ StateOf(line, o, end, i, k) = H(k, FALSE, FALSE)
    BY <1>4, <2>2, Zenon
  <2> HIDE DEF I, O, X
  <2>4. ReadArgument(H(k - 1, FALSE, FALSE), line[k])
          = Having(line[1], I(k - 1), O(k - 1), TRUE, FALSE, FALSE)
    <3>1. line[k] = "--compact" /\ line[1] = "format"
      BY <1>8, <2>1
    <3> QED
      BY <3>1, ReadsCompact, Zenon DEF H
  <2> QED
    BY <2>1, <2>3, <2>4, Zenon DEF H
<1>9. CASE (IF k = i THEN line[k] # Empty ELSE k < i /\ line[k] = Empty)
            /\ InOptions(o, end, k) /\ line[k] \notin {"--", "--compact", "-o", "-x"}
  <2>1. I(k) = line[k] /\ I(k - 1) = Empty /\ O(k) = O(k - 1) /\ X(k) = X(k - 1)
    BY <1>1, <1>2, <1>9 DEF I, O, X, InOptions
  <2>2. /\ ~(end <= k - 1) /\ o # k - 1
        /\ ~(end <= k) /\ o # k
    BY <1>1, <1>9 DEF InOptions
  <2>3. /\ StateOf(line, o, end, i, k - 1) = H(k - 1, FALSE, FALSE)
        /\ StateOf(line, o, end, i, k) = H(k, FALSE, FALSE)
    BY <1>4, <2>2, Zenon
  <2> HIDE DEF I, O, X
  <2>4. ReadArgument(H(k - 1, FALSE, FALSE), line[k])
          = Having(line[1], line[k], O(k - 1), X(k - 1), FALSE, FALSE)
    <3>1. line[k] \notin {"--", "--compact", "-o", "-x"} /\ I(k - 1) = Empty
      BY <1>9, <2>1
    <3>2. ReadArgument(Having(line[1], Empty, O(k - 1), X(k - 1), FALSE, FALSE), line[k])
            = Having(line[1], line[k], O(k - 1), X(k - 1), FALSE, FALSE)
      BY <3>1, ReadsInput, Zenon
    <3> QED
      BY <3>1, <3>2, Zenon DEF H
  <2> QED
    BY <2>1, <2>3, <2>4, Zenon DEF H
<1>10. CASE (IF k = i THEN line[k] # Empty ELSE k < i /\ line[k] = Empty) /\ end < k
  <2>1. I(k) = line[k] /\ I(k - 1) = Empty /\ O(k) = O(k - 1) /\ X(k) = X(k - 1)
    BY <1>1, <1>2, <1>10 DEF I, O, X, InOptions
  <2>2. /\ end <= k - 1 /\ o # k - 1
        /\ end <= k /\ o # k
    BY <1>1, <1>10 DEF InOptions
  <2>3. /\ StateOf(line, o, end, i, k - 1) = H(k - 1, TRUE, FALSE)
        /\ StateOf(line, o, end, i, k) = H(k, TRUE, FALSE)
    BY <1>4, <2>2, Zenon
  <2> HIDE DEF I, O, X
  <2>4. ReadArgument(H(k - 1, TRUE, FALSE), line[k])
          = Having(line[1], line[k], O(k - 1), X(k - 1), TRUE, FALSE)
    <3>1. I(k - 1) = Empty
      BY <1>10, <2>1
    <3>2. ReadArgument(Having(line[1], Empty, O(k - 1), X(k - 1), TRUE, FALSE), line[k])
            = Having(line[1], line[k], O(k - 1), X(k - 1), TRUE, FALSE)
      BY ReadsLateInput, Zenon
    <3> QED
      BY <3>1, <3>2, Zenon DEF H
  <2> QED
    BY <2>1, <2>3, <2>4, Zenon DEF H
<1> QED
  BY <1>5, <1>6, <1>7, <1>8, <1>9, <1>10 DEF WordAllowed

\* Induction, by the well-founded minimum of what is left.
LEMMA NatInduct ==
  ASSUME NEW S, 0 \in S, \A n \in Nat : n \in S => n + 1 \in S
  PROVE  Nat \subseteq S
<1> DEFINE T == Nat \ S
           R == OpToRel(<, Nat)
<1>1. SUFFICES ASSUME T # {} PROVE FALSE
  OBVIOUS
<1>2. IsWellFoundedOn(R, Nat) /\ T \subseteq Nat
  BY NatLessThanWellFounded
<1>3. PICK m \in T : \A k \in T : ~(<<k, m>> \in R)
  <2> HIDE DEF R, T
  <2> QED
    BY <1>1, <1>2, WFMin
<1>4. m # 0 /\ m \in Nat /\ m - 1 \in Nat /\ m - 1 < m
  OBVIOUS
<1>5. <<m - 1, m>> \in R
  BY <1>4 DEF OpToRel
<1>6. m - 1 \in S
  BY <1>3, <1>4, <1>5
<1>7. (m - 1) + 1 = m
  BY <1>4
<1> QED
  BY <1>4, <1>6, <1>7

LEMMA FromTo ==
  ASSUME NEW m \in Nat, NEW n \in Nat, NEW S, m \in S, \A k \in m..(n - 1) : k \in S => k + 1 \in S
  PROVE  m..n \subseteq S
<1> DEFINE T == {k \in Nat : k \in m..n => k \in S}
<1>1. 0 \in T
  OBVIOUS
<1>2. ASSUME NEW k \in Nat, k \in T PROVE k + 1 \in T
  <2>1. CASE k \in m..(n - 1)
    BY <1>2, <2>1
  <2>2. CASE k + 1 = m
    BY <2>2
  <2>3. CASE k \notin m..(n - 1) /\ k + 1 # m
    BY <2>3
  <2> QED
    BY <2>1, <2>2, <2>3
<1>3. Nat \subseteq T
  <2> HIDE DEF T
  <2> QED
    BY <1>1, <1>2, NatInduct
<1> QED
  BY <1>3

\* parseOptions reads a line from left to right.
LEMMA ParsedDef ==
  ASSUME NEW line, Len(line) \in Nat
  PROVE  Parsed(line) = [j \in 1..Len(line) |->
           IF j = 1 THEN FirstOptions(line[1]) ELSE ReadArgument(Parsed(line)[j - 1], line[j])]
<1> DEFINE n == Len(line)
           S == {m \in Nat : \E f : f = [j \in 1..m |->
                    IF j = 1 THEN FirstOptions(line[1]) ELSE ReadArgument(f[j - 1], line[j])]}
<1>1. 0 \in S
  <2>1. LET f == [j \in 1..0 |-> 0]
        IN  f = [j \in 1..0 |-> IF j = 1 THEN FirstOptions(line[1]) ELSE ReadArgument(f[j - 1], line[j])]
    OBVIOUS
  <2> QED
    BY <2>1
<1>2. ASSUME NEW m \in Nat, m \in S PROVE m + 1 \in S
  <2>1. PICK f : f = [j \in 1..m |-> IF j = 1 THEN FirstOptions(line[1]) ELSE ReadArgument(f[j - 1], line[j])]
    BY <1>2
  <2> DEFINE last == IF m = 0 THEN FirstOptions(line[1]) ELSE ReadArgument(f[m], line[m + 1])
             g == [j \in 1..(m + 1) |-> IF j = m + 1 THEN last ELSE f[j]]
  <2>2. \A j \in 1..m : g[j] = f[j]
    OBVIOUS
  <2>3. ASSUME NEW j \in 1..(m + 1)
        PROVE  g[j] = IF j = 1 THEN FirstOptions(line[1]) ELSE ReadArgument(g[j - 1], line[j])
    <3>1. CASE j = m + 1
      <4>1. g[j] = last /\ j - 1 = m /\ (j = 1 <=> m = 0) /\ (m # 0 => m \in 1..m)
        BY <3>1
      <4> HIDE DEF g
      <4> QED
        BY <3>1, <4>1, <2>2
    <3>2. CASE j # m + 1
      <4>1. j \in 1..m /\ (j # 1 => j - 1 \in 1..m)
        BY <3>2
      <4>2. f[j] = IF j = 1 THEN FirstOptions(line[1]) ELSE ReadArgument(f[j - 1], line[j])
        BY <2>1, <4>1
      <4> HIDE DEF g
      <4> QED
        BY <2>2, <4>1, <4>2
    <3> QED
      BY <3>1, <3>2
  <2>4. g = [j \in 1..(m + 1) |-> IF j = 1 THEN FirstOptions(line[1]) ELSE ReadArgument(g[j - 1], line[j])]
    <3> DEFINE h == [j \in 1..(m + 1) |->
                       IF j = 1 THEN FirstOptions(line[1]) ELSE ReadArgument(g[j - 1], line[j])]
    <3>1. \A j \in 1..(m + 1) : g[j] = h[j]
      <4> HIDE DEF g
      <4> QED
        BY <2>3
    <3>2. g = [j \in 1..(m + 1) |-> g[j]] /\ h = [j \in 1..(m + 1) |-> h[j]]
      OBVIOUS
    <3> HIDE DEF g, h
    <3>3. g = h
      BY <3>1, <3>2
    <3> QED
      BY <3>3 DEF h
  <2> HIDE DEF g
  <2> QED
    BY <2>4
<1>3. \E f : f = [j \in 1..n |-> IF j = 1 THEN FirstOptions(line[1]) ELSE ReadArgument(f[j - 1], line[j])]
  <2>1. Nat \subseteq S
    <3> HIDE DEF S
    <3> QED
      BY <1>1, <1>2, NatInduct
  <2> QED
    BY <2>1
<1> QED
  BY <1>3 DEF Parsed

LEMMA ParsedAt ==
  ASSUME NEW line, Len(line) \in Nat \ {0}
  PROVE  /\ Parsed(line)[1] = FirstOptions(line[1])
         /\ \A k \in 2..Len(line) : Parsed(line)[k] = ReadArgument(Parsed(line)[k - 1], line[k])
<1> DEFINE read == Parsed(line)
<1>1. read = [j \in 1..Len(line) |->
               IF j = 1 THEN FirstOptions(line[1]) ELSE ReadArgument(read[j - 1], line[j])]
  BY ParsedDef
<1> HIDE DEF read
<1>2. read[1] = FirstOptions(line[1])
  BY <1>1
<1>3. ASSUME NEW k \in 2..Len(line) PROVE read[k] = ReadArgument(read[k - 1], line[k])
  BY <1>1
<1> QED
  BY <1>2, <1>3 DEF read

LEMMA FirstState ==
  ASSUME NEW line, Len(line) \in Nat \ {0}, NEW o, NEW end, NEW i, Marks(line, o, end, i)
  PROVE  StateOf(line, o, end, i, 1) = FirstOptions(line[1])
<1>1. ~(i <= 1) /\ ~(o # 0 /\ o < 1) /\ o # 1 /\ ~(end <= 1)
  BY DEF Marks, InputsOf
<1>2. (end <= 1) = FALSE /\ (o = 1) = FALSE
  BY <1>1
<1>3. (\E j \in 2..1 : InOptions(o, end, j) /\ line[j] = "--compact") = FALSE
  OBVIOUS
<1>4. StateOf(line, o, end, i, 1) = Having(line[1], Empty, Empty, FALSE, FALSE, FALSE)
  BY <1>1, <1>2, <1>3, Zenon DEF StateOf
<1> QED
  BY <1>4 DEF Having, FirstOptions

\* A line that is used as the usage text says is read so.
LEMMA UsedIsRead ==
  ASSUME NEW line, Len(line) \in Nat \ {0}, NEW o \in 0..(Len(line) - 1), NEW end \in 2..(Len(line) + 1),
         NEW i \in 2..Len(line), Used(line, o, end, i)
  PROVE  Parsed(line)[Len(line)] = StateOf(line, o, end, i, Len(line))
<1> DEFINE n == Len(line)
           S == {k \in 1..n : Parsed(line)[k] = StateOf(line, o, end, i, k)}
<1>1. Marks(line, o, end, i)
  <2>1. o # 1
    BY DEF Used
  <2> QED
    BY <2>1 DEF Marks, Used
<1>2. ASSUME NEW k \in 2..n PROVE WordAllowed(line, o, end, i, k)
  <2>1. CASE k = o
    BY <2>1 DEF Used, WordAllowed
  <2>2. CASE o # 0 /\ k = o + 1
    BY <2>2 DEF Used, WordAllowed
  <2>3. CASE k \notin {o, o + 1} /\ k = end
    BY <2>3 DEF Used, WordAllowed
  <2>4. CASE InOptions(o, end, k) /\ line[k] = "--compact"
    BY <2>4 DEF Used, WordAllowed
  <2>5. CASE (InOptions(o, end, k) /\ line[k] # "--compact") \/ end < k
    <3>1. k \in InputsOf(line, o, end)
      BY <2>5 DEF InputsOf
    <3>2. IF k = i THEN line[k] # Empty ELSE k < i /\ line[k] = Empty
      BY <3>1 DEF Used
    <3>3. InOptions(o, end, k) => line[k] \notin {"--", "--compact", "-o", "-x"}
      BY <2>5 DEF Used, InOptions
    <3> QED
      BY <2>5, <3>2, <3>3 DEF WordAllowed
  <2>6. o = 0 /\ k = o + 1 => FALSE
    OBVIOUS
  <2> QED
    BY <2>1, <2>2, <2>3, <2>4, <2>5, <2>6 DEF InOptions
<1>3. 1 \in S
  BY <1>1, FirstState, ParsedAt
<1>4. ASSUME NEW k \in 1..(n - 1), k \in S PROVE k + 1 \in S
  <2>1. k + 1 \in 2..n /\ (k + 1) - 1 = k
    OBVIOUS
  <2>2. Parsed(line)[k + 1] = ReadArgument(StateOf(line, o, end, i, k), line[k + 1])
    BY <1>4, <2>1, ParsedAt
  <2>3. ReadArgument(StateOf(line, o, end, i, k), line[k + 1]) = StateOf(line, o, end, i, k + 1)
    <3>1. ReadArgument(StateOf(line, o, end, i, (k + 1) - 1), line[k + 1])
            = StateOf(line, o, end, i, k + 1)
      BY <1>1, <1>2, <2>1, ReadsWord
    <3> QED
      BY <2>1, <3>1
  <2> QED
    BY <2>1, <2>2, <2>3
<1>5. 1..n \subseteq S
  <2> HIDE DEF S
  <2> QED
    BY <1>3, <1>4, FromTo
<1> QED
  BY <1>5

LEMMA UsedIsMeant ==
  ASSUME NEW line, line # <<>>, Len(line) \in Nat \ {0}, Head(line) = line[1],
         NEW o \in 0..(Len(line) - 1), NEW end \in 2..(Len(line) + 1),
         NEW i \in 2..Len(line), Used(line, o, end, i)
  PROVE  parseOptions(line) = Meant(line, o, end, i)
<1> DEFINE n == Len(line)
           r == Parsed(line)[n]
           x == \E j \in 2..n : InOptions(o, end, j) /\ line[j] = "--compact"
           f == IF o = 0 THEN Empty ELSE line[o + 1]
<1>1. r = Having(line[1], line[i], f, x, end <= n, FALSE)
  <2>1. i <= n /\ (o # 0 /\ o < n <=> o # 0) /\ (o = n) = FALSE
    OBVIOUS
  <2>2. r = StateOf(line, o, end, i, n)
    BY UsedIsRead
  <2>3. (IF i <= n THEN line[i] ELSE Empty) = line[i]
        /\ (IF o # 0 /\ o < n THEN line[o + 1] ELSE Empty) = f
    BY <2>1
  <2> HIDE DEF r, f
  <2> QED
    BY <2>1, <2>2, <2>3, Zenon DEF StateOf
<1>2. line[i] # Empty /\ line[1] \in {"check", "format"}
  BY DEF Used
<1>3. Meant(line, o, end, i) = [command |-> line[1], input |-> line[i], output |-> f, compact |-> x]
  BY DEF Meant
<1> HIDE DEF r, f, x
<1>4. r.wrong = FALSE /\ r.awaits = FALSE /\ r.input = line[i]
  BY <1>1 DEF Having
<1>5. Options(r) = [command |-> line[1], input |-> line[i], output |-> f, compact |-> x]
  BY <1>1, Zenon DEF Options, Having
<1>6. parseOptions(line) = Options(r)
  BY <1>2, <1>4 DEF parseOptions, r
<1> QED
  BY <1>3, <1>5, <1>6

\* Where the marks of a line are when k words of it have been read: those that
\* have not been met are at 0 or behind the line.
MarksUpTo(line, o, end, i, k) ==
  /\ Marks(line, o, end, i)
  /\ o <= k /\ (end <= k \/ end = Len(line) + 1) /\ (i <= k \/ i = Len(line) + 1)
  /\ \A j \in 2..k : WordAllowed(line, o, end, i, j)

\* Marks met later change nothing of what has been read.
LEMMA MarksAgree ==
  ASSUME NEW line, Len(line) \in Nat \ {0}, NEW k \in 1..(Len(line) - 1),
         NEW o, NEW end, NEW i, MarksUpTo(line, o, end, i, k),
         NEW o2, NEW end2, NEW i2, Marks(line, o2, end2, i2),
         o2 = o \/ (o = 0 /\ o2 = k + 1),
         end2 = end \/ (end = Len(line) + 1 /\ end2 = k + 1),
         i2 = i \/ (i = Len(line) + 1 /\ i2 = k + 1),
         WordAllowed(line, o2, end2, i2, k + 1)
  PROVE  /\ MarksUpTo(line, o2, end2, i2, k + 1)
         /\ StateOf(line, o2, end2, i2, k) = StateOf(line, o, end, i, k)
<1> DEFINE n == Len(line)
<1>1. /\ o \in Nat /\ end \in Nat /\ i \in Nat /\ k \in Nat /\ n \in Nat /\ k < n
      /\ o2 \in Nat /\ end2 \in Nat /\ i2 \in Nat
  BY DEF MarksUpTo, Marks, InputsOf
<1>2. ASSUME NEW j \in 2..k
      PROVE  /\ InOptions(o2, end2, j) <=> InOptions(o, end, j)
             /\ WordAllowed(line, o2, end2, i2, j)
  <2>1. /\ j = o2 <=> j = o
        /\ o2 # 0 /\ j = o2 + 1 <=> o # 0 /\ j = o + 1
        /\ j = end2 <=> j = end
        /\ j < end2 <=> j < end
        /\ end2 < j <=> end < j
        /\ j = i2 <=> j = i
        /\ j < i2 <=> j < i
        /\ j = 1 => FALSE
    BY <1>1 DEF MarksUpTo
  <2>2. InOptions(o2, end2, j) <=> InOptions(o, end, j)
    BY <1>1, <2>1 DEF InOptions
  <2>3. WordAllowed(line, o, end, i, j)
    BY DEF MarksUpTo
  <2>4. o = 0 => j # o + 1
    BY <2>1
  <2>5. o2 = 0 => j # o2 + 1
    BY <2>1
  <2> QED
    BY <2>1, <2>2, <2>3, <2>4, <2>5 DEF WordAllowed
<1>3. MarksUpTo(line, o2, end2, i2, k + 1)
  <2>1. \A j \in 2..(k + 1) : j \in 2..k \/ j = k + 1
    BY <1>1
  <2>2. \A j \in 2..(k + 1) : WordAllowed(line, o2, end2, i2, j)
    BY <1>2, <2>1
  <2> QED
    BY <1>1, <2>2 DEF MarksUpTo
<1>4. StateOf(line, o2, end2, i2, k) = StateOf(line, o, end, i, k)
  <2>1. (IF i2 <= k THEN line[i2] ELSE Empty) = IF i <= k THEN line[i] ELSE Empty
    BY <1>1
  <2>2. (IF o2 # 0 /\ o2 < k THEN line[o2 + 1] ELSE Empty) = IF o # 0 /\ o < k THEN line[o + 1] ELSE Empty
    BY <1>1
  <2>3. (\E j \in 2..k : InOptions(o2, end2, j) /\ line[j] = "--compact")
          = \E j \in 2..k : InOptions(o, end, j) /\ line[j] = "--compact"
    BY <1>2
  <2>4. (end2 <= k) = (end <= k) /\ (o2 = k) = (o = k)
    BY <1>1
  <2> QED
    BY <2>1, <2>2, <2>3, <2>4, Zenon DEF StateOf
<1> QED
  BY <1>3, <1>4

\* What has been read of a line is wrong, or has marks.
Understood(line, k) ==
  \/ Parsed(line)[k].wrong
  \/ \E o, end, i \in 0..(Len(line) + 1) :
       MarksUpTo(line, o, end, i, k) /\ Parsed(line)[k] = StateOf(line, o, end, i, k)

LEMMA WordUnderstood ==
  ASSUME NEW line, Len(line) \in Nat \ {0}, NEW k \in 1..(Len(line) - 1), NEW o, NEW end, NEW i,
         MarksUpTo(line, o, end, i, k),
         ~ReadArgument(StateOf(line, o, end, i, k), line[k + 1]).wrong
  PROVE  \E o2, end2, i2 :
           /\ Marks(line, o2, end2, i2)
           /\ o2 = o \/ (o = 0 /\ o2 = k + 1)
           /\ end2 = end \/ (end = Len(line) + 1 /\ end2 = k + 1)
           /\ i2 = i \/ (i = Len(line) + 1 /\ i2 = k + 1)
           /\ WordAllowed(line, o2, end2, i2, k + 1)
<1> DEFINE n == Len(line)
           r == StateOf(line, o, end, i, k)
           w == k + 1
           word == line[w]
           x == \E j \in 2..k : InOptions(o, end, j) /\ line[j] = "--compact"
<1>1. /\ o \in Nat /\ end \in Nat /\ i \in Nat /\ k \in Nat /\ n \in Nat /\ k < n /\ k >= 1
      /\ end >= 2 /\ (end <= k \/ end = n + 1) /\ o <= k /\ o # 1 /\ (i <= k \/ i = n + 1)
      /\ o # 0 => o < end
      /\ i <= n => i \in InputsOf(line, o, end)
  BY DEF MarksUpTo, Marks, InputsOf
<1>2. /\ r.command = line[1] /\ ~r.wrong
      /\ r.input = IF i <= k THEN line[i] ELSE Empty
      /\ r.output = IF o # 0 /\ o < k THEN line[o + 1] ELSE Empty
      /\ r.only <=> end <= k
      /\ r.awaits <=> o = k
  <2>1. r = Having(line[1], IF i <= k THEN line[i] ELSE Empty,
                   IF o # 0 /\ o < k THEN line[o + 1] ELSE Empty, x, end <= k, o = k)
    BY DEF StateOf
  <2> HIDE DEF r, x
  <2>2. /\ r.command = line[1] /\ r.wrong = FALSE
        /\ r.input = IF i <= k THEN line[i] ELSE Empty
        /\ r.output = IF o # 0 /\ o < k THEN line[o + 1] ELSE Empty
        /\ r.only = (end <= k) /\ r.awaits = (o = k)
    BY <2>1, Zenon DEF Having
  <2> QED
    BY <2>2
<1>3. o # 0 /\ o < k => line[o + 1] # Empty
  <2> SUFFICES ASSUME o # 0, o < k PROVE line[o + 1] # Empty
    OBVIOUS
  <2>1. o + 1 \in 2..k
    BY <1>1
  <2>2. WordAllowed(line, o, end, i, o + 1)
    BY <2>1 DEF MarksUpTo
  <2>3. o + 1 # o /\ ~(end < o + 1)
    BY <1>1
  <2> QED
    BY <2>2, <2>3 DEF WordAllowed, InOptions
<1>4. i <= k => line[i] # Empty
  <2> SUFFICES ASSUME i <= k PROVE line[i] # Empty
    OBVIOUS
  <2>1. i \in 2..k /\ i # end /\ (i < end => line[i] # "--compact") /\ (i < end => InOptions(o, end, i))
        /\ (i > end => i \notin {o, o + 1})
    BY <1>1 DEF InputsOf, InOptions
  <2>2. WordAllowed(line, o, end, i, i)
    BY <2>1 DEF MarksUpTo
  <2> QED
    BY <1>1, <2>1, <2>2 DEF WordAllowed, InOptions
<1>5. ~ReadArgument(r, word).wrong
  OBVIOUS
<1> HIDE DEF r
<1>6. CASE r.awaits
  <2>1. word # Empty
    BY <1>2, <1>5, <1>6 DEF ReadArgument, Wrong
  <2>2. o # 0 /\ w = o + 1 /\ w < end
    BY <1>1, <1>2, <1>6
  <2> QED
    BY <2>1, <2>2 DEF WordAllowed, MarksUpTo
<1>7. CASE ~r.awaits /\ ~r.only /\ word = "--"
  <2>1. w \notin {o, o + 1} /\ end = n + 1 /\ w \in 2..n
    BY <1>1, <1>2, <1>7
  <2>2. Marks(line, o, w, i)
    BY <1>1, <2>1 DEF MarksUpTo, Marks, InputsOf, InOptions
  <2> QED
    BY <1>7, <2>1, <2>2 DEF WordAllowed
<1>8. CASE ~r.awaits /\ ~r.only /\ word = "--compact"
  <2>1. line[1] = "format"
    BY <1>2, <1>5, <1>8 DEF ReadArgument, Wrong
  <2>2. InOptions(o, end, w)
    BY <1>1, <1>2, <1>8 DEF InOptions
  <2> QED
    BY <1>8, <2>1, <2>2 DEF WordAllowed, MarksUpTo
<1>9. CASE ~r.awaits /\ ~r.only /\ word = "-o"
  <2>1. line[1] = "format" /\ r.output = Empty
    BY <1>2, <1>5, <1>9 DEF ReadArgument, AwaitOutput, Wrong
  <2>2. o = 0 /\ end = n + 1 /\ w \in 2..n /\ w < end
    BY <1>1, <1>2, <1>3, <1>9, <2>1
  <2>3. Marks(line, w, end, i)
    BY <1>1, <2>2 DEF MarksUpTo, Marks, InputsOf, InOptions
  <2> QED
    BY <1>9, <2>1, <2>2, <2>3 DEF WordAllowed
<1>10. ~(~r.awaits /\ ~r.only /\ word = "-x")
  BY <1>2, <1>5 DEF ReadArgument, Wrong
<1>11. CASE ~r.awaits /\ (r.only \/ word \notin {"--", "--compact", "-o", "-x"})
  <2>1. r.input = Empty
    BY <1>2, <1>5, <1>11 DEF ReadArgument, Wrong
  <2>2. i = n + 1
    BY <1>1, <1>2, <1>4, <2>1
  <2>3. InOptions(o, end, w) \/ end < w
    BY <1>1, <1>2, <1>11 DEF InOptions
  <2>4. InOptions(o, end, w) => word \notin {"--", "--compact", "-o", "-x"}
    BY <1>1, <1>2, <1>11 DEF InOptions
  <2>5. CASE word = Empty
    <3>1. w < i
      BY <1>1, <2>2
    <3> QED
      BY <2>3, <2>4, <2>5, <3>1 DEF WordAllowed, MarksUpTo
  <2>6. CASE word # Empty
    <3>1. w \in InputsOf(line, o, end)
      BY <1>1, <2>3, <2>4 DEF InputsOf
    <3>2. Marks(line, o, end, w)
      BY <3>1 DEF MarksUpTo, Marks
    <3> QED
      BY <2>2, <2>3, <2>4, <2>6, <3>2 DEF WordAllowed
  <2> QED
    BY <2>5, <2>6
<1> QED
  BY <1>6, <1>7, <1>8, <1>9, <1>10, <1>11

LEMMA LineUnderstood ==
  ASSUME NEW line, Len(line) \in Nat \ {0}, NEW k \in 1..Len(line)
  PROVE  Understood(line, k)
<1> DEFINE n == Len(line)
           S == {m \in 1..n : Understood(line, m)}
<1>1. 1 \in S
  <2>1. Marks(line, 0, n + 1, n + 1)
    BY DEF Marks
  <2>2. Parsed(line)[1] = StateOf(line, 0, n + 1, n + 1, 1)
    BY <2>1, FirstState, ParsedAt
  <2>3. MarksUpTo(line, 0, n + 1, n + 1, 1)
    BY <2>1 DEF MarksUpTo
  <2>4. 0 \in 0..(n + 1) /\ n + 1 \in 0..(n + 1)
    OBVIOUS
  <2> QED
    BY <2>2, <2>3, <2>4 DEF Understood
<1>2. ASSUME NEW m \in 1..(n - 1), m \in S PROVE m + 1 \in S
  <2> DEFINE r == Parsed(line)[m]
             s == Parsed(line)[m + 1]
  <2>0. m + 1 \in 1..n /\ m + 1 \in 2..n /\ (m + 1) - 1 = m
    OBVIOUS
  <2>1. s = ReadArgument(r, line[m + 1])
    BY <2>0, ParsedAt
  <2> HIDE DEF r, s
  <2>2. CASE r.wrong
    BY <1>2, <2>0, <2>1, <2>2 DEF Understood, ReadArgument, r, s
  <2>3. CASE ~r.wrong /\ ~s.wrong
    <3>1. PICK o, end, i \in 0..(n + 1) :
            MarksUpTo(line, o, end, i, m) /\ r = StateOf(line, o, end, i, m)
      BY <1>2, <2>3 DEF Understood, r
    <3>2. ~ReadArgument(StateOf(line, o, end, i, m), line[m + 1]).wrong
      BY <2>1, <2>3, <3>1
    <3>3. PICK o2, end2, i2 :
           /\ Marks(line, o2, end2, i2)
           /\ o2 = o \/ (o = 0 /\ o2 = m + 1)
           /\ end2 = end \/ (end = n + 1 /\ end2 = m + 1)
           /\ i2 = i \/ (i = n + 1 /\ i2 = m + 1)
           /\ WordAllowed(line, o2, end2, i2, m + 1)
      BY <3>1, <3>2, WordUnderstood
    <3>4. /\ MarksUpTo(line, o2, end2, i2, m + 1)
          /\ StateOf(line, o2, end2, i2, m) = StateOf(line, o, end, i, m)
      BY <3>1, <3>3, MarksAgree
    <3>5. ReadArgument(StateOf(line, o2, end2, i2, (m + 1) - 1), line[m + 1])
            = StateOf(line, o2, end2, i2, m + 1)
      BY <2>0, <3>3, ReadsWord
    <3>6. s = StateOf(line, o2, end2, i2, m + 1)
      BY <2>0, <2>1, <3>1, <3>4, <3>5
    <3>7. o2 \in 0..(n + 1) /\ end2 \in 0..(n + 1) /\ i2 \in 0..(n + 1)
      BY <2>0, <3>1, <3>3
    <3> QED
      BY <2>0, <3>4, <3>6, <3>7 DEF Understood, s
  <2>4. CASE s.wrong
    BY <2>0, <2>4 DEF Understood, s
  <2> QED
    BY <2>2, <2>3, <2>4
<1>3. 1..n \subseteq S
  <2> HIDE DEF S
  <2> QED
    BY <1>1, <1>2, FromTo
<1> QED
  BY <1>3

\* A line that is read is used as the usage text says.
LEMMA ReadIsUsed ==
  ASSUME NEW line, line # <<>>, Len(line) \in Nat \ {0}, Head(line) = line[1],
         parseOptions(line) # NoOptions
  PROVE  \E o \in 0..(Len(line) - 1), end \in 2..(Len(line) + 1), i \in 2..Len(line) :
           Used(line, o, end, i)
<1> DEFINE n == Len(line)
           r == Parsed(line)[n]
<1>1. ~r.wrong /\ ~r.awaits /\ r.input # Empty /\ line[1] \in {"check", "format"}
  BY DEF parseOptions
<1>2. Understood(line, n)
  BY LineUnderstood
<1> HIDE DEF r
<1>3. PICK o, end, i \in 0..(n + 1) : MarksUpTo(line, o, end, i, n) /\ r = StateOf(line, o, end, i, n)
  BY <1>1, <1>2 DEF Understood, r
<1>4. r.awaits = (o = n) /\ r.input = IF i <= n THEN line[i] ELSE Empty
  BY <1>3, Zenon DEF StateOf, Having
<1>5. o < n /\ i <= n
  <2>1. o # n
    BY <1>1, <1>4, Zenon
  <2>2. i <= n
    BY <1>1, <1>4
  <2>3. o <= n /\ o \in Nat
    BY <1>3 DEF MarksUpTo
  <2> QED
    BY <2>1, <2>2, <2>3
<1>6. /\ o \in Nat /\ end \in Nat /\ i \in Nat /\ n \in Nat
      /\ end >= 2 /\ end <= n + 1 /\ o # 1 /\ (o # 0 => o < end)
      /\ i \in InputsOf(line, o, end) /\ i \in 2..n
  BY <1>3, <1>5 DEF MarksUpTo, Marks, InputsOf
<1>7. \A k \in 2..n : WordAllowed(line, o, end, i, k)
  BY <1>3 DEF MarksUpTo
<1>8. ASSUME o # 0
      PROVE  line[1] = "format" /\ line[o] = "-o" /\ line[o + 1] # Empty /\ o + 1 < end
  <2>1. o \in 2..n /\ o + 1 \in 2..n /\ ~(end < o) /\ ~(end < o + 1) /\ o # o + 1
    BY <1>5, <1>6, <1>8
  <2>2. WordAllowed(line, o, end, i, o) /\ WordAllowed(line, o, end, i, o + 1)
    BY <1>7, <2>1
  <2> QED
    BY <1>8, <2>1, <2>2 DEF WordAllowed, InOptions
<1>9. ASSUME end <= n PROVE line[end] = "--"
  <2>1. end \in 2..n /\ ~(end < end) /\ ~InOptions(o, end, end)
    BY <1>6, <1>9 DEF InOptions
  <2>2. WordAllowed(line, o, end, i, end)
    BY <1>7, <2>1
  <2> QED
    BY <2>1, <2>2 DEF WordAllowed
<1>10. ASSUME NEW k \in 2..n, InOptions(o, end, k)
       PROVE  line[k] \notin {"--", "-o", "-x"} /\ (line[k] = "--compact" => line[1] = "format")
  <2>1. WordAllowed(line, o, end, i, k)
    BY <1>7
  <2>2. k \notin {o, o + 1} /\ k # end
    BY <1>6, <1>10 DEF InOptions
  <2> QED
    BY <1>10, <2>1, <2>2 DEF WordAllowed
<1>11. ASSUME NEW k \in InputsOf(line, o, end)
       PROVE  IF k = i THEN line[k] # Empty ELSE k < i /\ line[k] = Empty
  <2>1. k \in 2..n /\ k # end /\ k \notin {o, o + 1} /\ (InOptions(o, end, k) => line[k] # "--compact")
    BY <1>6, <1>11 DEF InputsOf, InOptions
  <2>2. WordAllowed(line, o, end, i, k)
    BY <1>7, <2>1
  <2> QED
    BY <2>1, <2>2 DEF WordAllowed
<1>12. Used(line, o, end, i)
  BY <1>1, <1>6, <1>8, <1>9, <1>10, <1>11 DEF Used
<1>13. o \in 0..(n - 1) /\ end \in 2..(n + 1)
  BY <1>5, <1>6
<1> QED
  BY <1>6, <1>12, <1>13

\* parseOptions reads a line as the usage text does.
ReadByUsage(line, result) ==
  IF result = NoOptions
  THEN \A o \in 0..(Len(line) - 1), end \in 2..(Len(line) + 1), i \in 2..Len(line) : ~Used(line, o, end, i)
  ELSE \E o \in 0..(Len(line) - 1), end \in 2..(Len(line) + 1), i \in 2..Len(line) :
         Used(line, o, end, i) /\ result = Meant(line, o, end, i)

LEMMA ParsedByUsage ==
  ASSUME NEW line \in CommandLines
  PROVE  ReadByUsage(line, parseOptions(line))
<1> DEFINE n == Len(line)
<1>1. line \in Seq(ToSet(line)) /\ n \in Nat
  BY CliAssumption, LenProperties
<1>2. CASE n = 0
  <2>1. line = <<>>
    BY <1>1, <1>2, EmptySeq
  <2>2. parseOptions(line) = NoOptions
    BY <2>1 DEF parseOptions
  <2>3. 2..n = {}
    BY <1>2
  <2> QED
    BY <2>2, <2>3 DEF ReadByUsage
<1>3. CASE n # 0
  <2>1. line # <<>> /\ n \in Nat \ {0} /\ Head(line) = line[1]
    BY <1>1, <1>3, EmptySeq
  <2>2. ASSUME NEW o \in 0..(n - 1), NEW end \in 2..(n + 1), NEW i \in 2..n, Used(line, o, end, i)
        PROVE  parseOptions(line) = Meant(line, o, end, i) /\ parseOptions(line) # NoOptions
    <3>1. parseOptions(line) = Meant(line, o, end, i)
      BY <2>1, <2>2, UsedIsMeant
    <3>2. Meant(line, o, end, i).command \in {"check", "format"}
      BY <2>2 DEF Used, Meant
    <3>3. NoOptions.command = ""
      BY DEF NoOptions, Empty
    <3> QED
      BY <3>1, <3>2, <3>3
  <2>3. parseOptions(line) # NoOptions =>
          \E o \in 0..(n - 1), end \in 2..(n + 1), i \in 2..n : Used(line, o, end, i)
    BY <2>1, ReadIsUsed
  <2> QED
    BY <2>2, <2>3 DEF ReadByUsage
<1> QED
  BY <1>2, <1>3

-----------------------------------------------------------------------------
\* A command line that is accepted is one of check or format.
LEMMA ParsedCommand ==
  ASSUME NEW line \in CommandLines, parseOptions(line) # NoOptions
  PROVE  parseOptions(line).command \in {"check", "format"}
<1>1. PICK o \in 0..(Len(line) - 1), end \in 2..(Len(line) + 1), i \in 2..Len(line) :
        Used(line, o, end, i) /\ parseOptions(line) = Meant(line, o, end, i)
  BY ParsedByUsage DEF ReadByUsage
<1> QED
  BY <1>1 DEF Used, Meant

\* Up to the end of parsing no file and no output changes, and the text is the input's.
LEMMA BeforeWriting ==
  ASSUME Inv, ParseOptions \/ OpenInput \/ ReadBlock \/ ReadEnd \/ Parse
  PROVE  Inv'
<1> USE DEF Inv, ControlInv, Reading, Writing, constantly
<1>1. CASE ParseOptions
  <2>1. Untouched' /\ FilesSafe'
    BY <1>1, StaysUntouched DEF ParseOptions
  <2>2. CASE options' = NoOptions
    BY <1>1, <2>1, <2>2 DEF ParseOptions, Exit, StatusTells, Untouched,
       Success, InvalidJson, UsageError, IoError, InternalError
  <2>3. CASE options' # NoOptions
    <3>1. options'.command \in {"check", "format"}
      BY <1>1, <2>3, ParsedCommand DEF ParseOptions
    <3> QED
      BY <1>1, <2>1, <2>3, <3>1 DEF ParseOptions, StatusTells, Informing
  <2> QED
    BY <2>2, <2>3
<1>2. CASE OpenInput
  <2>1. Untouched' /\ FilesSafe'
    BY <1>2, StaysUntouched DEF OpenInput
  <2>2. content' \in Texts
    BY <1>2 DEF OpenInput, Untouched
  <2>3. content' \in Seq(Blocks) /\ <<>> \in Seq(Blocks) /\ <<>> \o content' = content'
    BY <2>2, TextsAreSequences, EmptySeq, ConcatEmptySeq
  <2> QED
    BY <1>2, <2>1, <2>2, <2>3 DEF OpenInput, StatusTells, Informing
<1>3. CASE ReadBlock
  <2>1. Untouched' /\ FilesSafe'
    BY <1>3, StaysUntouched DEF ReadBlock
  <2>2. text' \in Seq(Blocks) /\ unread' \in Seq(Blocks) /\ text' \o unread' = content
    BY <1>3, MoveBlock DEF ReadBlock
  <2> QED
    BY <1>3, <2>1, <2>2 DEF ReadBlock, StatusTells, Informing
<1>4. CASE ReadEnd
  <2>1. Untouched' /\ FilesSafe'
    BY <1>4, StaysUntouched DEF ReadEnd
  <2>2. text = content
    BY <1>4, ConcatEmptySeq DEF ReadEnd
  <2> QED
    BY <1>4, <2>1, <2>2 DEF ReadEnd, StatusTells, Informing
<1>5. CASE Parse
  <2>1. Untouched' /\ FilesSafe'
    BY <1>5, StaysUntouched DEF Parse
  <2>2. CASE text \in Documents
    BY <1>5, <2>1, <2>2 DEF Parse, StatusTells, Informing
  <2>3. CASE text \notin Documents
    BY <1>5, <2>1, <2>3 DEF Parse, Exit, StatusTells, Informing, Untouched,
       Success, InvalidJson, UsageError, IoError, InternalError
  <2> QED
    BY <2>2, <2>3
<1> QED
  BY <1>1, <1>2, <1>3, <1>4, <1>5

\* Serializing settles the text to be written.
LEMMA SerializeKeeps ==
  ASSUME Inv, Serialize
  PROVE  Inv'
<1> USE DEF Inv, ControlInv, Reading, Writing, constantly
<1>1. Untouched' /\ FilesSafe'
  BY StaysUntouched DEF Serialize
<1>2. CASE text = Unserializable
  BY <1>1, <1>2 DEF Serialize, Exit, StatusTells, Untouched,
     Success, InvalidJson, UsageError, IoError, InternalError
<1>3. CASE text # Unserializable
  <2>1. text' = Written /\ Written' = Written /\ Output' = Output /\ Formatted' = Formatted
    BY <1>3 DEF Serialize, Written, Output, Formatted
  <2>2. options.command \in {"check", "format", "write"} /\ options' = options
    BY DEF Serialize
  <2>3. Readable'
    BY <1>3, <2>1, <2>2 DEF Serialize, Readable, Written
  <2>4. Written \in Seq(Blocks)
    BY <1>3, <2>2, WrittenIsSequence, TextsAreSequences DEF Serialize
  <2>5. Output # Empty => Written = Formatted
    BY <1>3, <2>2 DEF Serialize, Written, Formatted, Output
  <2>6. Settled'
    BY <2>1, <2>2, <2>3, <2>4, <2>5 DEF Settled
  <2>7. Output = Empty => Holds(disk', stdout', <<>>)
    BY <1>1 DEF Holds, Untouched, Serialize
  <2>8. Output = Empty => Holds(disk, stdout, <<>>)'
    BY <2>1, <2>7 DEF Holds, Serialize
  <2> QED
    BY <1>1, <1>3, <2>1, <2>6, <2>8 DEF Serialize, StatusTells, Informing, Untouched
<1> QED
  BY <1>2, <1>3

\* While something is being written the text, the options and with them the
\* output stay.
LEMMA StaysSettled ==
  ASSUME Settled, UNCHANGED <<options, text, content, before>>
  PROVE  /\ Settled'
         /\ Output' = Output /\ Formatted' = Formatted /\ Written' = Written /\ Readable' = Readable
         /\ \A given : Holds(disk, stdout, given)' <=> Holds(disk', stdout', given)
  BY DEF Settled, Output, Formatted, Written, Readable, Holds

\* Opening truncates the output only: it holds the empty beginning.
LEMMA OpenOutputKeeps ==
  ASSUME Inv, OpenOutput
  PROVE  Inv'
<1> USE DEF Inv, ControlInv, Reading, Writing, constantly
<1>1. Settled /\ Untouched /\ Output # Empty
  BY DEF OpenOutput
<1>2. Holds(disk', stdout', <<>>)
  BY <1>1 DEF OpenOutput, Holds, Untouched
<1>3. Settled' /\ Holds(disk, stdout, <<>>)' /\ Output' = Output /\ Formatted' = Formatted /\ Readable' = Readable
  BY <1>1, <1>2, StaysSettled DEF OpenOutput
<1>4. FilesSafe'
  <2>1. 0 \in 0..Len(text) /\ SubSeq(text, 1, 0) = <<>>
    BY <1>1, Beginnings DEF Settled
  <2>3. Holds(disk', stdout', SubSeq(text, 1, 0))
    BY <1>2, <2>1
  <2>4. \A p \in Paths :
          disk'[p] = before[p] \/ (p = Output /\ Readable /\ IsPrefix(disk'[p], Formatted))
    BY <1>1, <2>1, <2>3, HoldsIsSafe
  <2> QED
    BY <1>3, <2>4 DEF FilesSafe, OpenOutput
<1> QED
  BY <1>1, <1>3, <1>4 DEF OpenOutput, StatusTells, Untouched

\* After the text is put, output and buffer together are the text.
LEMMA PutKeeps ==
  ASSUME Inv, Put
  PROVE  Inv'
<1> USE DEF Inv, ControlInv, Reading, Writing, constantly
<1>1. Settled /\ Holds(disk, stdout, <<>>) /\ fault = FALSE
  BY DEF Put
<1>2. PICK n \in 0..Len(text) : PassOn(text, n)
  BY DEF Put
<1>3. <<>> \o SubSeq(text, 1, n) = SubSeq(text, 1, n)
  BY <1>1, <1>2, Beginnings DEF Settled
<1>4. Holds(disk', stdout', SubSeq(text, 1, n)) /\ buffer' = SubSeq(text, n + 1, Len(text))
  <2>1. Holds(disk', stdout', <<>> \o SubSeq(text, 1, n))
    BY <1>1, <1>2, PassOnHolds
  <2> QED
    BY <1>2, <1>3, <2>1 DEF PassOn
<1>5. /\ Settled' /\ Holds(disk, stdout, SubSeq(text, 1, n))'
      /\ Output' = Output /\ Formatted' = Formatted /\ Readable' = Readable
  <2>1. UNCHANGED <<options, text, content, before>>
    BY DEF Put
  <2>2. SubSeq(text, 1, n)' = SubSeq(text, 1, n)
    BY <2>1
  <2> QED
    BY <1>1, <1>4, <2>1, <2>2, StaysSettled
<1>6. FilesSafe'
  <2>1. \A p \in Paths :
          disk'[p] = before[p] \/ (p = Output /\ Readable /\ IsPrefix(disk'[p], Formatted))
    BY <1>1, <1>4, HoldsIsSafe
  <2> QED
    BY <1>5, <2>1 DEF FilesSafe, Put
<1>7. fault' = bad'
  BY <1>1 DEF Put
<1> QED
  BY <1>1, <1>4, <1>5, <1>6, <1>7 DEF Put, StatusTells

\* Status 0 after the result was delivered does not lie.
LEMMA SuccessTells ==
  ASSUME status' = Success, fault' = FALSE, Delivered', Readable'
  PROVE  StatusTells'
  BY DEF StatusTells, Success, InvalidJson, UsageError, IoError, InternalError

\* Nor does status 3 after a failure.
LEMMA FailureTells ==
  ASSUME status' = IoError, fault' = TRUE
  PROVE  StatusTells'
  BY DEF StatusTells, Success, InvalidJson, UsageError, IoError, InternalError

\* What the stream still holds is all that is missing, so when all of it is
\* passed on the output has the whole text.
LEMMA FlushKeeps ==
  ASSUME Inv, Flush
  PROVE  Inv'
<1> USE DEF Inv, ControlInv, Reading, Writing, constantly
<1>1. Settled /\ fault = FALSE /\ ~Informing(args)
  BY DEF Flush
<1>2. PICK n \in 0..Len(text) :
        Holds(disk, stdout, SubSeq(text, 1, n)) /\ buffer = SubSeq(text, n + 1, Len(text))
  BY DEF Flush
<1>3. SubSeq(text, 1, n) \o SubSeq(buffer, 1, Len(buffer)) = text /\ SubSeq(buffer, Len(buffer) + 1, Len(buffer)) = <<>>
  <2>1. text \in Seq(Blocks)
    BY <1>1 DEF Settled
  <2> HIDE DEF Inv, ControlInv
  <2> QED
    BY <1>2, <2>1, PassOnAll
<1>4. Holds(disk', stdout', text) /\ buffer' = <<>>
  <2>1. PassOn(buffer, Len(buffer))
    BY DEF Flush
  <2>2. Holds(disk', stdout', SubSeq(text, 1, n) \o SubSeq(buffer, 1, Len(buffer)))
    BY <1>2, <2>1, PassOnHolds
  <2> QED
    BY <1>3, <2>1, <2>2 DEF PassOn
<1>5. /\ Settled' /\ Holds(disk, stdout, text)'
      /\ Output' = Output /\ Formatted' = Formatted /\ Written' = Written /\ Readable' = Readable
  <2>1. UNCHANGED <<options, text, content, before>>
    BY DEF Flush
  <2> QED
    BY <1>1, <1>4, <2>1, StaysSettled
<1>6. FilesSafe'
  <2>1. Len(text) \in 0..Len(text) /\ SubSeq(text, 1, Len(text)) = text
    BY <1>1, WholeText DEF Settled
  <2>2. \A p \in Paths :
          disk'[p] = before[p] \/ (p = Output /\ Readable /\ IsPrefix(disk'[p], Formatted))
    BY <1>1, <1>4, <2>1, HoldsIsSafe
  <2> QED
    BY <1>5, <2>2 DEF FilesSafe, Flush
<1>7. CASE Output = Empty
  <2>1. disk' = before /\ stdout' = Written
    BY <1>1, <1>4, <1>7 DEF Holds, Settled
  <2>2. Delivered' /\ Readable'
    BY <1>1, <1>5, <1>7, <2>1 DEF Delivered, Settled, Flush
  <2>3. pc' = "exited" /\ status' = Success /\ fault' = FALSE
    BY <1>1, <1>7 DEF Flush, Exit
  <2>4. StatusTells'
    BY <2>2, <2>3, SuccessTells
  <2> QED
    BY <1>4, <1>6, <2>3, <2>4 DEF Flush
<1>8. CASE Output # Empty
  BY <1>1, <1>4, <1>5, <1>6, <1>8 DEF Flush, StatusTells
<1> QED
  BY <1>7, <1>8

\* A file that has been given some of the text holds a beginning of it.
LEMMA FlushFailsKeeps ==
  ASSUME Inv, FlushFails
  PROVE  Inv'
<1> USE DEF Inv, ControlInv, Reading, Writing, constantly
<1>1. Settled /\ ~Informing(args)
  BY DEF FlushFails
<1>2. PICK n \in 0..Len(text) :
        Holds(disk, stdout, SubSeq(text, 1, n)) /\ buffer = SubSeq(text, n + 1, Len(text))
  BY DEF FlushFails
<1>3. PICK m \in 0..Len(buffer) : PassOn(buffer, m)
  BY DEF FlushFails
<1>4. n + m \in 0..Len(text) /\ SubSeq(text, 1, n) \o SubSeq(buffer, 1, m) = SubSeq(text, 1, n + m)
  <2>1. text \in Seq(Blocks)
    BY <1>1 DEF Settled
  <2> HIDE DEF Inv, ControlInv
  <2> QED
    BY <1>2, <1>3, <2>1, PassOnAll
<1>5. Holds(disk', stdout', SubSeq(text, 1, n + m))
  <2>1. Holds(disk', stdout', SubSeq(text, 1, n) \o SubSeq(buffer, 1, m))
    BY <1>2, <1>3, PassOnHolds
  <2> QED
    BY <1>4, <2>1
<1>6. Output' = Output /\ Formatted' = Formatted /\ Readable' = Readable
  BY <1>1, StaysSettled DEF FlushFails
<1>7. FilesSafe'
  <2>1. \A p \in Paths :
          disk'[p] = before[p] \/ (p = Output /\ Readable /\ IsPrefix(disk'[p], Formatted))
    BY <1>1, <1>4, <1>5, HoldsIsSafe
  <2> QED
    BY <1>6, <2>1 DEF FilesSafe, FlushFails
<1>8. pc' = "exited" /\ status' = IoError /\ fault' = TRUE /\ bad' = TRUE
  BY DEF FlushFails, FailIo, Exit
<1>9. StatusTells'
  BY <1>8, FailureTells
<1> QED
  BY <1>7, <1>8, <1>9 DEF FlushFails

\* When the file is closed it has the whole text.
LEMMA CloseKeeps ==
  ASSUME Inv, Close
  PROVE  Inv'
<1> USE DEF Inv, ControlInv, Reading, Writing, constantly
<1>1. Settled /\ Output # Empty /\ Holds(disk, stdout, text) /\ buffer = <<>> /\ fault = FALSE
  BY DEF Close
<1>2. disk = [before EXCEPT ![Output] = Formatted] /\ stdout = <<>>
  BY <1>1 DEF Holds, Settled
<1>3. Output' = Output /\ Formatted' = Formatted /\ Written' = Written /\ Readable' = Readable
  BY <1>1, StaysSettled DEF Close
<1>4. FilesSafe'
  BY <1>3 DEF FilesSafe, Close
<1>5. Delivered' /\ Readable'
  BY <1>1, <1>2, <1>3 DEF Delivered, Settled, Close
<1>6. pc' = "exited" /\ status' = Success /\ fault' = FALSE /\ buffer' = <<>>
  BY <1>1 DEF Close, Exit
<1>7. StatusTells'
  BY <1>5, <1>6, SuccessTells
<1> QED
  BY <1>4, <1>6, <1>7 DEF Close

\* What is written to the standard output touches no file.
LEMMA SafeStays ==
  ASSUME FilesSafe, UNCHANGED <<options, disk, before, text, content>>
  PROVE  FilesSafe'
  BY DEF FilesSafe, Readable, Output, Formatted

\* However a call ends otherwise, files stay as they are.
LEMMA EndingKeeps ==
  ASSUME Inv, Inform \/ IoFails \/ Kill \/ FlushAtExit
  PROVE  Inv'
<1> USE DEF Inv, ControlInv, Reading, Writing, constantly
<1>1. CASE Inform
  <2>1. Output = Empty
    <3>1. options = NoOptions
      BY <1>1 DEF Inform
    <3>2. NoOptions.command # "check" /\ NoOptions.output = Empty
      BY DEF NoOptions, Empty
    <3> QED
      BY <3>1, <3>2 DEF Output
  <2>2. UNCHANGED <<args, stdin, before, options, disk, text, content>> /\ pc' = "exited" /\ Informing(args)
    BY <1>1, <2>1 DEF Inform, PassOn, Exit
  <2>3. FilesSafe'
    BY <2>2, SafeStays
  <2>4. StatusTells'
    BY <2>2 DEF StatusTells, Informing
  <2> QED
    BY <2>2, <2>3, <2>4 DEF Informing
<1>2. CASE IoFails
  <2>1. UNCHANGED <<args, stdin, before, options, disk, text, content, buffer, bad>>
    BY <1>2 DEF IoFails
  <2>2. pc' = "exited" /\ status' = IoError /\ fault' = TRUE
    BY <1>2 DEF IoFails, FailIo, Exit
  <2>3. buffer = <<>>
    BY <1>2 DEF IoFails, Untouched
  <2>4. FilesSafe'
    BY <2>1, SafeStays
  <2>5. StatusTells'
    BY <2>2, FailureTells
  <2> QED
    BY <2>1, <2>2, <2>3, <2>4, <2>5
<1>3. CASE Kill
  <2>1. FilesSafe'
    BY <1>3, SafeStays DEF Kill
  <2> QED
    BY <1>3, <2>1 DEF Kill, StatusTells
<1>4. CASE FlushAtExit
  <2>1. UNCHANGED <<args, stdin, before, options, pc, disk, text, content>> /\ buffer' = <<>>
    BY <1>4 DEF FlushAtExit
  <2>2. pc = "exited" /\ Informing(args)
    BY <1>4 DEF FlushAtExit
  <2>3. FilesSafe'
    BY <2>1, SafeStays
  <2>4. StatusTells'
    BY <2>1, <2>2 DEF StatusTells, Informing
  <2> QED
    BY <2>1, <2>2, <2>3, <2>4
<1> QED
  BY <1>1, <1>2, <1>3, <1>4

\* The invariant speaks of the variables only.
LEMMA StutterKeeps ==
  ASSUME Inv, UNCHANGED vars
  PROVE  Inv'
<1>1. FilesSafe'
  BY SafeStays DEF Inv, vars
<1>2. StatusTells'
  BY DEF Inv, vars, StatusTells, Informing, Readable, Delivered, Output, Formatted, Written
<1>3. ControlInv'
  <2>1. UNCHANGED <<args, options, pc, disk, stdout, unread, text, buffer, bad, before, content, fault>>
    BY DEF vars
  <2>2. (Untouched' <=> Untouched) /\ (Settled' <=> Settled) /\ Output' = Output
    BY <2>1 DEF Untouched, Settled, Readable, Output, Formatted, Written
  <2>3. (pc = "flush" =>
           \E n \in 0..Len(text) :
             Holds(disk, stdout, SubSeq(text, 1, n)) /\ buffer = SubSeq(text, n + 1, Len(text)))'
    BY <2>1, <2>2 DEF Inv, ControlInv, Holds
  <2>4. /\ (pc = "put" => Holds(disk, stdout, <<>>))'
        /\ (pc = "close" => Holds(disk, stdout, text))'
    BY <2>1, <2>2 DEF Inv, ControlInv, Holds
  <2> QED
    BY <2>1, <2>2, <2>3, <2>4 DEF Inv, ControlInv, Informing, Reading, Writing
<1> QED
  BY <1>1, <1>2, <1>3 DEF Inv, vars

\* The invariant is inductive.
LEMMA NextInv == Inv /\ [Next]_vars => Inv'
<1> SUFFICES ASSUME Inv, [Next]_vars PROVE Inv'
  OBVIOUS
<1>1. CASE ParseOptions \/ OpenInput \/ ReadBlock \/ ReadEnd \/ Parse
  BY <1>1, BeforeWriting
<1>2. CASE Serialize
  BY <1>2, SerializeKeeps
<1>3. CASE OpenOutput
  BY <1>3, OpenOutputKeeps
<1>4. CASE Put
  BY <1>4, PutKeeps
<1>5. CASE Flush
  BY <1>5, FlushKeeps
<1>6. CASE FlushFails
  BY <1>6, FlushFailsKeeps
<1>7. CASE Close
  BY <1>7, CloseKeeps
<1>8. CASE Inform \/ IoFails \/ Kill \/ FlushAtExit
  BY <1>8, EndingKeeps
<1>9. CASE UNCHANGED vars
  BY <1>9, StutterKeeps
<1> QED
  BY <1>1, <1>2, <1>3, <1>4, <1>5, <1>6, <1>7, <1>8, <1>9 DEF Next

\* It holds of every call.
LEMMA Invariance == Spec => []Inv
<1>1. Init => Inv
  BY InitInv
<1>2. Inv /\ [Next]_vars => Inv'
  BY NextInv
<1> QED
  BY <1>1, <1>2, PTL DEF Spec

\* Whatever fails, and wherever main() or JsonFile::write() is killed, no file
\* but the output changes, and that one holds a beginning of the new text only
\* once the whole input has been read and found valid: readInput() has returned
\* before writeOutput() opens the file (src/tools/JsonCli.cpp:113-115).
THEOREM FilesAreSafe == Spec => []FilesSafe
<1>1. Inv => FilesSafe
  BY DEF Inv
<1> QED
  BY <1>1, Invariance, PTL

\* The exit status of check and format, and the outcome of JsonFile::write(),
\* is true: 0 only when the complete text is in the output, whatever part of
\* it the stream had held back, for writeOutput() flushes and asks the stream
\* (src/tools/JsonCli.cpp:83-98); 3 exactly when an operation failed.
THEOREM StatusIsTrue == Spec => []StatusTells
<1>1. Inv => StatusTells
  BY DEF Inv
<1> QED
  BY <1>1, Invariance, PTL

\* What a call knows of its options.
OptionsInv ==
  /\ args \in CommandLines \cup {<<"write">>}
  /\ pc = "options" => options = NoOptions
  /\ pc \notin {"options", "killed"} /\ args # <<"write">> /\ ~Informing(args) => ReadByUsage(args, options)

\* However many words a line has, parseOptions gives it the options that the
\* usage text gives it, and refuses it exactly when the usage text has no use for it.
THEOREM OptionsAreByUsage == Spec => []OptionsByUsage
<1>1. Init => OptionsInv
  BY DEF Init, OptionsInv
<1>2. OptionsInv /\ [Next]_vars => OptionsInv'
  <2> SUFFICES ASSUME OptionsInv, [Next]_vars PROVE OptionsInv'
    OBVIOUS
  <2>1. CASE ParseOptions
    <3>1. args' = args /\ options' = parseOptions(args) /\ pc = "options" /\ pc' # "options"
      BY <2>1 DEF ParseOptions, constantly, Exit
    <3>2. args # <<"write">> => ReadByUsage(args, parseOptions(args))
      BY ParsedByUsage DEF OptionsInv
    <3> QED
      BY <3>1, <3>2 DEF OptionsInv
  <2>2. CASE Inform
    BY <2>2 DEF OptionsInv, Inform, constantly, Exit
  <2>3. CASE /\ ~ParseOptions /\ ~Inform
    <3>1. UNCHANGED <<args, options>> /\ (pc' = "options" => pc = "options")
          /\ (pc' # "killed" => pc' = pc \/ pc # "options")
      BY <2>3 DEF Next, vars, constantly, OpenInput, ReadBlock, ReadEnd, Parse, Serialize, OpenOutput,
         Put, Flush, FlushFails, Close, IoFails, FailIo, Kill, FlushAtExit, Exit, PassOn
    <3>2. pc' \notin {"options", "killed"} => pc \notin {"options", "killed"}
      BY <2>3 DEF Next, vars, constantly, OpenInput, ReadBlock, ReadEnd, Parse, Serialize, OpenOutput,
         Put, Flush, FlushFails, Close, IoFails, FailIo, Kill, FlushAtExit, Exit
    <3> QED
      BY <3>1, <3>2 DEF OptionsInv
  <2> QED
    BY <2>1, <2>2, <2>3
<1>3. OptionsInv => OptionsByUsage
  BY DEF OptionsInv, OptionsByUsage, ReadByUsage
<1> QED
  BY <1>1, <1>2, <1>3, PTL DEF Spec
=============================================================================
