-------------------------- MODULE JsonParserProofs --------------------------
(***************************************************************************)
(* Proofs about JsonParser, and about JsonFuzz, which runs it three times, *)
(* for every MaxDepth, every set of tokens and every set of inputs.        *)
(*                                                                         *)
(* TypeOK is not inductive: that the parser stays on its tokens holds      *)
(* because the stream ends with an EOF, which no action consumes, and that *)
(* it has an activation to return to because the depth is their number.    *)
(* Inv adds both.                                                          *)
(*                                                                         *)
(* What parse() answers is compared with SyntaxGrammar.  ReadInv says that *)
(* what the activations hold are phrases of the tokens read, one list in   *)
(* the other; that the grammar is deterministic and looks at no token      *)
(* behind a phrase makes a refused stream one that no document begins as.  *)
(*                                                                         *)
(* What serialize writes is compared with SyntaxGrammar too: a text is     *)
(* phrases for the parts of the value, from the inside out.  So FuzzInv    *)
(* can say of every text that checkInput parses that it means original.    *)
(***************************************************************************)
EXTENDS JsonFuzz, FiniteSetTheorems, SequenceTheorems, WellFoundedInduction, TLAPS

\* The values of a document are not in any one set, so neither are frames.
IsSeq(s) == \E S : s \in Seq(S)

Frame(f) == ObjectFrame(f) \/ ArrayFrame(f)

Hints == [at : Nat, size : Nat]

TypeInv ==
  /\ tokens \in Seq(Token)
  /\ pc \in {"construct", "scan", "value", "open", "key", "return", "done", "failed"}
  /\ current \in Nat
  /\ arrayReservations \in Seq(Hints)
  /\ nextArrayReservation \in 1..(Len(arrayReservations) + 1)
  /\ scanAt \in 1..(Len(tokens) + 1)
  /\ scanStack \in Seq([type : Openers, reservation : Nat])
  /\ IsSeq(frames)
  /\ \A i \in 1..Len(frames) : Frame(frames[i])

\* One DepthGuard for each activation, and never more than the limit.
DepthInv == currentDepth = Len(frames) /\ Len(frames) <= MaxDepth

\* What holds at each control point.
EofInv == pc \notin {"construct", "failed"} =>
            Len(tokens) > 0 /\ tokens[Len(tokens)].type = "EndOfFile"

ControlInv ==
  /\ pc \in {"construct", "scan"} =>
       current = 1 /\ frames = <<>> /\ nextArrayReservation = 1
  /\ Running => current \in 1..Len(tokens)
  /\ pc \in {"open", "key"} => frames # <<>>
  /\ pc \in {"done", "failed"} => frames = <<>>

Inv == TypeInv /\ DepthInv /\ EofInv /\ ControlInv

-----------------------------------------------------------------------------
(* Sequences whose elements are in some set nobody names.                  *)

LEMMA EmptyIsSeq == IsSeq(<<>>) /\ Len(<<>>) = 0
  BY DEF IsSeq

LEMMA SeqLen ==
  ASSUME NEW s, IsSeq(s)
  PROVE  Len(s) \in Nat /\ DOMAIN s = 1..Len(s) /\ (s = <<>> <=> Len(s) = 0)
  BY DEF IsSeq

LEMMA SeqAppend ==
  ASSUME NEW s, IsSeq(s), NEW e
  PROVE  /\ IsSeq(Append(s, e))
         /\ Len(Append(s, e)) = Len(s) + 1
         /\ \A i \in 1..Len(s) : Append(s, e)[i] = s[i]
         /\ Append(s, e)[Len(s) + 1] = e
<1>1. PICK S : s \in Seq(S)
  BY DEF IsSeq
<1>2. s \in Seq(S \cup {e}) /\ e \in S \cup {e}
  BY <1>1
<1>3. Append(s, e) \in Seq(S \cup {e})
  BY <1>2
<1> QED
  BY <1>2, <1>3 DEF IsSeq

LEMMA SeqFront ==
  ASSUME NEW s, IsSeq(s), s # <<>>
  PROVE  /\ IsSeq(Front(s))
         /\ Len(Front(s)) = Len(s) - 1
         /\ \A i \in 1..(Len(s) - 1) : Front(s)[i] = s[i]
<1>1. PICK S : s \in Seq(S)
  BY DEF IsSeq
<1>2. PICK n \in Nat : Len(s) = n + 1
  <2>1. Len(s) \in Nat /\ Len(s) # 0
    BY <1>1
  <2>2. Len(s) - 1 \in Nat /\ Len(s) = (Len(s) - 1) + 1
    BY <2>1
  <2> QED
    BY <2>2
<1>3. Front(s) = SubSeq(s, 1, n) /\ Len(s) - 1 = n
  BY <1>2 DEF Front
<1>4. \A i \in 1..n : s[i] \in S
  BY <1>1, <1>2
<1>5. /\ SubSeq(s, 1, n) \in Seq(S)
      /\ Len(SubSeq(s, 1, n)) = IF 1 <= n THEN n - 1 + 1 ELSE 0
      /\ \A i \in 1..(n - 1 + 1) : SubSeq(s, 1, n)[i] = s[1 + i - 1]
  BY <1>4, SubSeqProperties
<1>6. Len(SubSeq(s, 1, n)) = n
  BY <1>5
<1>7. \A i \in 1..n : SubSeq(s, 1, n)[i] = s[i]
  BY <1>5
<1> QED
  BY <1>3, <1>5, <1>6, <1>7 DEF IsSeq

LEMMA SeqFrontType ==
  ASSUME NEW S, NEW s \in Seq(S), s # <<>>
  PROVE  Front(s) \in Seq(S)
<1>1. \A i \in 1..(Len(s) - 1) : s[i] \in S
  OBVIOUS
<1> QED
  BY <1>1, SubSeqProperties DEF Front

LEMMA SeqSetTop ==
  ASSUME NEW s, IsSeq(s), s # <<>>, NEW e
  PROVE  /\ IsSeq([s EXCEPT ![Len(s)] = e])
         /\ Len([s EXCEPT ![Len(s)] = e]) = Len(s)
         /\ \A i \in 1..Len(s) : [s EXCEPT ![Len(s)] = e][i] = IF i = Len(s) THEN e ELSE s[i]
<1>1. PICK S : s \in Seq(S)
  BY DEF IsSeq
<1>2. s \in Seq(S \cup {e}) /\ e \in S \cup {e}
  BY <1>1
<1>3. [s EXCEPT ![Len(s)] = e] \in Seq(S \cup {e})
  BY <1>2
<1> QED
  BY <1>2, <1>3 DEF IsSeq

-----------------------------------------------------------------------------
(* The building blocks of the actions, once for all of them.               *)

USE DEF Frame

LEMMA InitInv == Init => Inv
<1> SUFFICES ASSUME Init PROVE Inv
  OBVIOUS
<1>1. tokens \in Seq(Token)
  BY ParserAssumption DEF Init
<1>2. IsSeq(frames) /\ Len(frames) = 0
  BY EmptyIsSeq DEF Init
<1>3. TypeInv
  BY <1>1, <1>2 DEF Init, TypeInv
<1>4. DepthInv
  BY <1>2, ParserAssumption DEF Init, DepthInv
<1>5. EofInv /\ ControlInv
  BY DEF Init, EofInv, ControlInv, Running
<1> QED
  BY <1>3, <1>4, <1>5 DEF Inv

\* An exception unwinds every activation and releases every guard.
LEMMA ThrowInv ==
  ASSUME Inv, NEW why, NEW at, Throw(why, at), current' \in Nat
  PROVE  Inv'
<1>1. frames' = <<>> /\ pc' = "failed" /\ currentDepth' = 0
  BY SeqLen DEF Inv, TypeInv, DepthInv, Throw
<1>2. IsSeq(frames') /\ Len(frames') = 0
  BY <1>1, EmptyIsSeq
<1>3. TypeInv'
  BY <1>1, <1>2 DEF Inv, TypeInv, Throw, hints
<1>4. DepthInv'
  BY <1>1, <1>2, ParserAssumption DEF DepthInv
<1>5. EofInv' /\ ControlInv'
  BY <1>1 DEF EofInv, ControlInv, Running
<1> QED
  BY <1>3, <1>4, <1>5 DEF Inv

LEMMA FailInv ==
  ASSUME Inv, NEW why, NEW at \in Nat, Fail(why, at)
  PROVE  Inv'
  BY ThrowInv DEF Fail

\* The token before the EOF is never the last: the next one exists.
LEMMA NextToken ==
  ASSUME Inv, pc \notin {"construct", "failed"},
         NEW i \in 1..Len(tokens), tokens[i].type # "EndOfFile"
  PROVE  i + 1 \in 1..Len(tokens)
<1>1. Len(tokens) \in Nat /\ tokens[Len(tokens)].type = "EndOfFile"
  BY DEF Inv, TypeInv, EofInv
<1> QED
  BY <1>1
\* parseValue returns while the parser stays on its tokens.
LEMMA ReturnInv ==
  ASSUME Inv, NEW v, NEW next \in 1..Len(tokens), Return(v, next),
         pc \notin {"construct", "failed"},
         IsSeq(frames'), \A i \in 1..Len(frames') : Frame(frames'[i]),
         currentDepth' = Len(frames'), Len(frames') <= MaxDepth
  PROVE  Inv'
<1>1. TypeInv'
  BY DEF Inv, TypeInv, Return, hints
<1>2. DepthInv'
  BY DEF DepthInv
<1>3. EofInv' /\ ControlInv'
  BY DEF Inv, EofInv, ControlInv, Return, Running
<1> QED
  BY <1>1, <1>2, <1>3 DEF Inv

\* The activations stay, the innermost one with its locals changed perhaps.
LEMMA AdvanceInv ==
  ASSUME Inv, NEW next \in 1..Len(tokens), NEW to \in {"value", "key"}, Advance(next, to),
         pc \notin {"construct", "failed"}, frames # <<>>,
         IsSeq(frames'), Len(frames') = Len(frames),
         \A i \in 1..Len(frames') : Frame(frames'[i])
  PROVE  Inv'
<1>1. TypeInv'
  BY DEF Inv, TypeInv, Advance, hints
<1>2. DepthInv'
  BY DEF Inv, DepthInv, Advance
<1>3. frames' # <<>>
  BY SeqLen DEF Inv, TypeInv
<1>4. EofInv' /\ ControlInv'
  BY <1>3 DEF Inv, EofInv, ControlInv, Advance, Running
<1> QED
  BY <1>1, <1>2, <1>4 DEF Inv

LEMMA TopFrame ==
  ASSUME Inv, frames # <<>>
  PROVE  Top = frames[Len(frames)] /\ Frame(Top) /\ Len(frames) \in 1..Len(frames)
<1>1. Len(frames) \in 1..Len(frames)
  BY SeqLen DEF Inv, TypeInv
<1> QED
  BY <1>1 DEF Inv, TypeInv, Top, Last

\* Storing a value leaves an activation an activation of the same function.
LEMMA StoredFrame ==
  ASSUME Inv, frames # <<>>
  PROVE  Frame(Stored) /\ Stored.type = Top.type
<1>1. Frame(Top)
  BY TopFrame
<1>2. CASE ObjectFrame(Top)
  BY <1>2 DEF ObjectFrame, Stored
<1>3. CASE ArrayFrame(Top)
  BY <1>3 DEF ArrayFrame, Stored
<1> QED
  BY <1>1, <1>2, <1>3

LEMMA LeaveInv ==
  ASSUME Inv, pc \in {"open", "return"}, frames # <<>>, NEW f, Leave(f),
         Peek # "EndOfFile"
  PROVE  Inv'
<1>1. current + 1 \in 1..Len(tokens)
  BY NextToken DEF Inv, ControlInv, Running, Peek
<1>2. /\ IsSeq(frames') /\ Len(frames') = Len(frames) - 1
      /\ \A i \in 1..(Len(frames) - 1) : frames'[i] = frames[i]
  BY SeqFront DEF Inv, TypeInv, Leave
<1>3. Len(frames) \in Nat /\ currentDepth' = Len(frames) - 1
  BY SeqLen DEF Inv, TypeInv, DepthInv, Leave, DepthGivenBack
<1>4. \A i \in 1..Len(frames') : Frame(frames'[i])
  BY <1>2, <1>3 DEF Inv, TypeInv
<1>5. Len(frames') <= MaxDepth
  BY <1>2, <1>3, ParserAssumption DEF Inv, DepthInv
<1> QED
  BY <1>1, <1>2, <1>3, <1>4, <1>5, ReturnInv DEF Leave

LEMMA EnterInv ==
  ASSUME Inv, pc = "value", Peek # "EndOfFile", currentDepth < MaxDepth,
         NEW f, Frame(f), Enter(f),
         nextArrayReservation' \in 1..(Len(arrayReservations) + 1)
  PROVE  Inv'
<1>1. current + 1 \in 1..Len(tokens)
  BY NextToken DEF Inv, ControlInv, Running, Peek
<1>2. /\ IsSeq(frames') /\ Len(frames') = Len(frames) + 1
      /\ \A i \in 1..Len(frames) : frames'[i] = frames[i]
      /\ frames'[Len(frames) + 1] = f
  BY SeqAppend DEF Inv, TypeInv, Enter
<1>3. Len(frames) \in Nat
  BY SeqLen DEF Inv, TypeInv
<1>4. ASSUME NEW i \in 1..Len(frames') PROVE Frame(frames'[i])
  <2>1. CASE i = Len(frames) + 1
    BY <1>2, <2>1
  <2>2. CASE i \in 1..Len(frames)
    BY <1>2, <2>2 DEF Inv, TypeInv
  <2> QED
    BY <1>2, <1>3, <2>1, <2>2
<1>5. TypeInv'
  BY <1>1, <1>2, <1>4 DEF Inv, TypeInv, Enter, hints
<1>6. DepthInv'
  BY <1>2, <1>3, ParserAssumption DEF Inv, DepthInv, Enter
<1>7. frames' # <<>>
  BY <1>2, <1>3, SeqLen
<1>8. EofInv' /\ ControlInv'
  BY <1>1, <1>7 DEF Inv, EofInv, ControlInv, Enter, Running
<1> QED
  BY <1>5, <1>6, <1>8 DEF Inv
-----------------------------------------------------------------------------
LEMMA ScanOnInv ==
  ASSUME Inv, pc = "scan", scanAt <= Len(tokens), NEW r \in Seq(Hints),
         NEW st \in Seq([type : Openers, reservation : Nat]), ScanOn(r, st)
  PROVE  Inv'
<1>1. nextArrayReservation' = 1 /\ Len(r) \in Nat /\ Len(tokens) \in Nat
  BY DEF Inv, ControlInv, ScanOn, TypeInv
<1>2. TypeInv'
  BY <1>1 DEF Inv, TypeInv, ScanOn
<1>3. DepthInv' /\ EofInv' /\ ControlInv'
  BY DEF Inv, DepthInv, EofInv, ControlInv, ScanOn, Running
<1> QED
  BY <1>2, <1>3 DEF Inv

LEMMA ScanReturnInv ==
  ASSUME Inv, pc = "scan", NEW r \in Seq(Hints), ScanReturn(r)
  PROVE  Inv'
<1>1. nextArrayReservation' = 1 /\ Len(r) \in Nat /\ 1 \in 1..Len(tokens)
  BY DEF Inv, ControlInv, EofInv, ScanReturn, TypeInv
<1>2. TypeInv'
  BY <1>1 DEF Inv, TypeInv, ScanReturn
<1>3. DepthInv' /\ EofInv' /\ ControlInv'
  BY <1>1 DEF Inv, DepthInv, EofInv, ControlInv, ScanReturn, Running
<1> QED
  BY <1>2, <1>3 DEF Inv

\* The constructor and its scan.
LEMMA ConstructorInv ==
  ASSUME Inv,
         \/ RejectStream \/ Construct \/ ScanGiveUp \/ ScanOpener \/ ScanCloser
         \/ ScanComma \/ ScanOther \/ ScanEnd
  PROVE  Inv'
<1>0. arrayReservations \in Seq(Hints) /\ Len(tokens) \in Nat
      /\ scanStack \in Seq([type : Openers, reservation : Nat])
  BY DEF Inv, TypeInv
<1>1. CASE RejectStream
  BY <1>1, FailInv DEF RejectStream
<1>2. CASE Construct
  <2>1. Len(tokens) > 0 /\ tokens[Len(tokens)].type = "EndOfFile"
    BY <1>2, <1>0 DEF Construct, EndsWithEof, Last, Inv, TypeInv
  <2>2. TypeInv' /\ DepthInv'
    BY <1>2 DEF Inv, TypeInv, DepthInv, Construct, hints
  <2>3. EofInv' /\ ControlInv'
    BY <1>2, <1>0, <2>1 DEF Inv, EofInv, ControlInv, Construct, hints, Running
  <2> QED
    BY <2>2, <2>3 DEF Inv
<1>3. CASE ScanGiveUp
  <2>1. pc = "scan" /\ ScanReturn(<<>>) /\ <<>> \in Seq(Hints)
    BY <1>3 DEF ScanGiveUp
  <2> QED
    BY <2>1, ScanReturnInv
<1>4. CASE ScanOpener
  <2>1. NewHint \in Hints
    BY DEF NewHint, Inv, TypeInv, Hints
  <2>2. [type |-> ScanType, reservation |-> Len(arrayReservations) + 1]
          \in [type : Openers, reservation : Nat]
    BY <1>0, <1>4 DEF ScanOpener
  <2> DEFINE r == IF ScanType = "LeftBracket" THEN Append(arrayReservations, NewHint)
                                              ELSE arrayReservations
             st == Append(scanStack, [type |-> ScanType,
                                      reservation |-> Len(arrayReservations) + 1])
  <2>3. r \in Seq(Hints) /\ st \in Seq([type : Openers, reservation : Nat])
    BY <1>0, <2>1, <2>2
  <2>4. pc = "scan" /\ scanAt <= Len(tokens) /\ ScanOn(r, st)
    BY <1>4 DEF ScanOpener
  <2> HIDE DEF r, st
  <2> QED
    BY <2>3, <2>4, ScanOnInv
<1>5. CASE ScanCloser
  <2>1. Front(scanStack) \in Seq([type : Openers, reservation : Nat])
    BY <1>0, <1>5, SeqFrontType DEF ScanCloser, ScanMatches
  <2> QED
    BY <1>0, <1>5, <2>1, ScanOnInv DEF ScanCloser
<1>6. CASE ScanComma
  <2> DEFINE r == [arrayReservations EXCEPT ![ScanTop.reservation].size = @ + 1]
  <2>1. r \in Seq(Hints)
    <3> DEFINE k == ScanTop.reservation
               h == [arrayReservations[k] EXCEPT !.size = @ + 1]
    <3>1. CASE k \in 1..Len(arrayReservations)
      <4>1. arrayReservations[k] \in Hints
        BY <1>0, <3>1, ElementOfSeq
      <4>2. h \in Hints
        BY <4>1 DEF Hints
      <4> QED
        BY <1>0, <3>1, <4>2, ExceptSeq
    <3>2. CASE k \notin 1..Len(arrayReservations)
      <4>1. DOMAIN arrayReservations = 1..Len(arrayReservations)
        BY <1>0
      <4>2. r = arrayReservations
        BY <1>0, <3>2, <4>1
      <4> QED
        BY <1>0, <4>2
    <3> QED
      BY <3>1, <3>2
  <2>2. pc = "scan" /\ scanAt <= Len(tokens) /\ ScanOn(r, scanStack)
    BY <1>6 DEF ScanComma
  <2> HIDE DEF r
  <2> QED
    BY <1>0, <2>1, <2>2, ScanOnInv
<1>7. CASE ScanOther
  <2>1. pc = "scan" /\ scanAt <= Len(tokens) /\ ScanOn(arrayReservations, scanStack)
    BY <1>7 DEF ScanOther
  <2> QED
    BY <1>0, <2>1, ScanOnInv
<1>8. CASE ScanEnd
  <2> DEFINE r == IF scanStack = <<>> THEN arrayReservations ELSE <<>>
  <2>1. pc = "scan" /\ ScanReturn(r) /\ r \in Seq(Hints)
    BY <1>0, <1>8 DEF ScanEnd
  <2> HIDE DEF r
  <2> QED
    BY <2>1, ScanReturnInv
<1> QED
  BY <1>1, <1>2, <1>3, <1>4, <1>5, <1>6, <1>7, <1>8

\* parseValue.
LEMMA ParseValueInv ==
  ASSUME Inv,
         \/ ParseLiteral \/ ParseString \/ ParseNumber \/ RejectValue
         \/ RejectDepth \/ EnterObject \/ EnterArray
  PROVE  Inv'
<1>1. /\ pc = "value"
      /\ current \in 1..Len(tokens) /\ Len(tokens) \in Nat
      /\ Peek # "EndOfFile" => current + 1 \in 1..Len(tokens)
  BY NextToken DEF Inv, TypeInv, ControlInv, Running, Peek, ParseLiteral, ParseString,
    ParseNumber, RejectValue, RejectDepth, EnterObject, EnterArray
<1>2. IsSeq(frames) /\ (\A i \in 1..Len(frames) : Frame(frames[i]))
      /\ currentDepth = Len(frames) /\ Len(frames) <= MaxDepth
  BY DEF Inv, TypeInv, DepthInv
<1>3. CASE ParseLiteral
  BY <1>1, <1>2, <1>3, ReturnInv DEF ParseLiteral, Literals
<1>4. CASE ParseString
  <2>1. current + 1 \in 1..Len(tokens)
    BY <1>1, <1>4 DEF ParseString
  <2>2. CASE Return(StringValue(Text[tokens[current].raw]), current + 1)
             /\ UNCHANGED <<frames, currentDepth>>
    BY <1>1, <1>2, <2>1, <2>2, ReturnInv
  <2>3. CASE current' = current + 1 /\ Throw("surrogate", current)
    BY <1>1, <2>3, ThrowInv
  <2> QED
    BY <1>4, <2>2, <2>3 DEF ParseString
<1>5. CASE ParseNumber
  <2>1. current + 1 \in 1..Len(tokens)
    BY <1>1, <1>5 DEF ParseNumber
  <2>2. CASE Return(NumberValue(Number[tokens[current].raw]), current + 1)
             /\ UNCHANGED <<frames, currentDepth>>
    BY <1>1, <1>2, <2>1, <2>2, ReturnInv
  <2>3. CASE Fail("range", current)
    BY <1>1, <2>3, FailInv
  <2> QED
    BY <1>5, <2>2, <2>3 DEF ParseNumber
<1>6. CASE RejectValue
  BY <1>1, <1>6, FailInv DEF RejectValue
<1>7. CASE RejectDepth
  BY <1>1, <1>7, FailInv DEF RejectDepth
<1>8. CASE EnterObject
  <2> DEFINE f == [type |-> "LeftBrace", members |-> EmptyObject, key |-> Invalid]
  <2>1. Frame(f)
    BY DEF ObjectFrame
  <2>2. nextArrayReservation' \in 1..(Len(arrayReservations) + 1)
    BY <1>8 DEF EnterObject, Inv, TypeInv
  <2> QED
    BY <1>1, <1>8, <2>1, <2>2, EnterInv DEF EnterObject
<1>9. CASE EnterArray
  <2> DEFINE c == IF HasHint THEN arrayReservations[nextArrayReservation].size ELSE 0
             f == [type |-> "LeftBracket", elements |-> <<>>, reserved |-> 0, capacity |-> c]
  <2>1. c \in Nat
    <3>1. arrayReservations \in Seq(Hints) /\ nextArrayReservation \in Nat \ {0}
      BY DEF Inv, TypeInv
    <3>2. CASE HasHint
      <4>1. nextArrayReservation \in 1..Len(arrayReservations)
        BY <3>1, <3>2 DEF HasHint
      <4>2. arrayReservations[nextArrayReservation] \in Hints
        BY <3>1, <4>1, ElementOfSeq
      <4> QED
        BY <3>2, <4>2 DEF Hints
    <3> QED
      BY <3>2
  <2>2. Frame(f)
    BY <2>1 DEF ArrayFrame
  <2>3. nextArrayReservation' \in 1..(Len(arrayReservations) + 1)
    BY <1>9 DEF EnterArray, AfterHint, HasHint, Inv, TypeInv
  <2> QED
    BY <1>1, <1>9, <2>2, <2>3, EnterInv DEF EnterArray
<1> QED
  BY <1>3, <1>4, <1>5, <1>6, <1>7, <1>8, <1>9
\* parseObject and parseArray.
LEMMA SetTopFrames ==
  ASSUME Inv, frames # <<>>, NEW f, Frame(f)
  PROVE  /\ IsSeq(SetTop(f)) /\ Len(SetTop(f)) = Len(frames)
         /\ \A i \in 1..Len(SetTop(f)) : Frame(SetTop(f)[i])
<1>1. IsSeq(frames) /\ \A i \in 1..Len(frames) : Frame(frames[i])
  BY DEF Inv, TypeInv
<1> QED
  BY <1>1, SeqSetTop DEF SetTop

LEMMA ContainerInv ==
  ASSUME Inv,
         \/ CloseEmpty \/ EnterBody \/ ParseKey
         \/ CloseContainer \/ NextElement \/ RejectSeparator
  PROVE  Inv'
<1>1. /\ pc \in {"open", "key", "return"} /\ frames # <<>>
      /\ current \in 1..Len(tokens) /\ Len(tokens) \in Nat
      /\ pc \notin {"construct", "failed"}
  BY DEF Inv, TypeInv, ControlInv, Running, CloseEmpty, EnterBody, ParseKey,
    CloseContainer, NextElement, RejectSeparator
<1>2. /\ IsSeq(frames) /\ Len(frames) \in Nat
      /\ \A i \in 1..Len(frames) : Frame(frames[i])
  BY SeqLen DEF Inv, TypeInv
<1>3. Frame(Top)
  BY <1>1, TopFrame
<1>4. CASE CloseEmpty
  BY <1>1, <1>4, LeaveInv DEF CloseEmpty, CloserOf
<1>5. CASE EnterBody
  <2> DEFINE to == IF Top.type = "LeftBrace" THEN "key" ELSE "value"
  <2>1. Advance(current, to) /\ to \in {"value", "key"} /\ UNCHANGED frames
    BY <1>5 DEF EnterBody
  <2> HIDE DEF to
  <2> QED
    BY <1>1, <1>2, <2>1, AdvanceInv
<1>6. CASE ParseKey
  <2> DEFINE f == [Top EXCEPT !.key = Text[tokens[current].raw]]
  <2>1. CASE \E why : Fail(why, current)
    BY <1>1, <2>1, FailInv
  <2>2. CASE Peek = "String" /\ Fail("colon", current + 1)
    BY <1>1, <2>2, FailInv
  <2>3. CASE /\ Peek = "String" /\ tokens[current + 1].type = "Colon"
             /\ frames' = SetTop(f) /\ Advance(current + 2, "value")
    <3>1. current + 1 \in 1..Len(tokens)
      BY <1>1, <2>3, NextToken DEF Peek
    <3>2. current + 2 \in 1..Len(tokens)
      BY <1>1, <2>3, <3>1, NextToken
    <3>3. Frame(f)
      BY <1>3 DEF ObjectFrame, ArrayFrame
    <3> HIDE DEF f
    <3>4. /\ IsSeq(frames') /\ Len(frames') = Len(frames)
          /\ \A i \in 1..Len(frames') : Frame(frames'[i])
      BY <1>1, <2>3, <3>3, SetTopFrames
    <3> QED
      BY <1>1, <2>3, <3>2, <3>4, AdvanceInv
  <2> QED
    BY <1>6, <2>1, <2>2, <2>3 DEF ParseKey
<1>7. CASE CloseContainer
  BY <1>1, <1>7, LeaveInv DEF CloseContainer, CloserOf
<1>8. CASE NextElement
  <2> DEFINE to == IF Top.type = "LeftBrace" THEN "key" ELSE "value"
  <2>1. Advance(current + 1, to) /\ to \in {"value", "key"} /\ frames' = SetTop(Stored)
    BY <1>8 DEF NextElement
  <2>2. current + 1 \in 1..Len(tokens)
    BY <1>1, <1>8, NextToken DEF NextElement, Peek
  <2>3. /\ IsSeq(frames') /\ Len(frames') = Len(frames)
        /\ \A i \in 1..Len(frames') : Frame(frames'[i])
    BY <1>1, <2>1, StoredFrame, SetTopFrames
  <2> HIDE DEF to
  <2> QED
    BY <1>1, <2>1, <2>2, <2>3, AdvanceInv
<1>9. CASE RejectSeparator
  BY <1>1, <1>9, FailInv DEF RejectSeparator
<1> QED
  BY <1>4, <1>5, <1>6, <1>7, <1>8, <1>9

\* parse(), and the steps that change nothing.
LEMMA EndInv ==
  ASSUME Inv, Finish \/ RejectTrailing
  PROVE  Inv'
<1>1. pc = "return" /\ frames = <<>> /\ current \in 1..Len(tokens) /\ Len(tokens) \in Nat
  BY DEF Inv, TypeInv, ControlInv, Running, Finish, RejectTrailing
<1>2. CASE Finish
  <2>1. TypeInv' /\ DepthInv'
    BY <1>2 DEF Inv, TypeInv, DepthInv, Finish, Advance, hints
  <2>2. EofInv' /\ ControlInv'
    BY <1>1, <1>2 DEF Inv, EofInv, ControlInv, Finish, Advance, Running
  <2> QED
    BY <2>1, <2>2 DEF Inv
<1>3. CASE RejectTrailing
  BY <1>1, <1>3, FailInv DEF RejectTrailing
<1> QED
  BY <1>2, <1>3

LEMMA StutterInv == Inv /\ UNCHANGED vars => Inv'
  BY DEF Inv, TypeInv, DepthInv, EofInv, ControlInv, Running, vars

LEMMA NextInv == Inv /\ [Next]_vars => Inv'
  BY ConstructorInv, ParseValueInv, ContainerInv, EndInv, StutterInv
    DEF Next, Parse, Ended

THEOREM Invariance == Spec => []Inv
  BY InitInv, NextInv, PTL DEF Spec

\* The parser never looks past its tokens and never nests deeper than allowed,
\* whatever the tokens: tokens.at(current) in peek() cannot throw.
THEOREM TypeCorrect == Spec => []TypeOK
<1>1. Inv => TypeOK
  <2> SUFFICES ASSUME Inv PROVE TypeOK
    OBVIOUS
  <2>1. DOMAIN frames = 1..Len(frames) /\ Len(frames) \in Nat
    BY SeqLen DEF Inv, TypeInv
  <2>2. Running => current \in DOMAIN tokens
    BY DEF Inv, TypeInv, ControlInv
  <2>3. currentDepth \in 0..MaxDepth
    BY <2>1, ParserAssumption DEF Inv, DepthInv
  <2> QED
    BY <2>1, <2>2, <2>3 DEF Inv, TypeInv, TypeOK
<1> QED
  BY <1>1, Invariance, PTL
-----------------------------------------------------------------------------
(* The depth is the nesting of the tokens consumed.  Each action consumes  *)
(* at most two tokens, so the counts are followed token by token.          *)

CountOf(ts, types, n) == Cardinality({i \in 1..n : ts[i].type \in types})

LEMMA CountZero == \A ts, types : CountOf(ts, types, 0) = 0
<1> SUFFICES ASSUME NEW ts, NEW types PROVE CountOf(ts, types, 0) = 0
  OBVIOUS
<1>1. {i \in 1..0 : ts[i].type \in types} = {}
  OBVIOUS
<1> QED
  BY <1>1, FS_EmptySet DEF CountOf

\* One more token counts if it is of the types counted.
LEMMA CountStep ==
  ASSUME NEW ts, NEW types, NEW n \in Nat
  PROVE  /\ CountOf(ts, types, n) \in Nat
         /\ CountOf(ts, types, n + 1) =
              CountOf(ts, types, n) + (IF ts[n + 1].type \in types THEN 1 ELSE 0)
<1> DEFINE S(k) == {i \in 1..k : ts[i].type \in types}
<1>1. IsFiniteSet(1..n) /\ S(n) \in SUBSET (1..n)
  BY FS_Interval
<1>2. IsFiniteSet(S(n)) /\ Cardinality(S(n)) \in Nat
  BY <1>1, FS_Subset, FS_CardinalityType
<1>3. CASE ts[n + 1].type \in types
  <2>1. S(n + 1) = S(n) \cup {n + 1} /\ n + 1 \notin S(n)
    BY <1>3
  <2>2. Cardinality(S(n + 1)) = Cardinality(S(n)) + 1
    BY <1>2, <2>1, FS_AddElement
  <2> QED
    BY <1>2, <1>3, <2>2 DEF CountOf
<1>4. CASE ts[n + 1].type \notin types
  <2>1. S(n + 1) = S(n)
    BY <1>4
  <2>2. CountOf(ts, types, n) \in Nat /\ CountOf(ts, types, n + 1) = CountOf(ts, types, n)
    BY <1>2, <2>1 DEF CountOf
  <2> QED
    BY <1>4, <2>2
<1> QED
  BY <1>3, <1>4

Balanced(ts, n, depth) == CountOf(ts, Openers, n) = CountOf(ts, Closers, n) + depth

\* What consuming the token after the first n does to the depth.
LEMMA BalancedStep ==
  ASSUME NEW ts, NEW n \in Nat, NEW depth \in Int, Balanced(ts, n, depth)
  PROVE  /\ ts[n + 1].type \in Openers => Balanced(ts, n + 1, depth + 1)
         /\ ts[n + 1].type \in Closers => Balanced(ts, n + 1, depth - 1)
         /\ ts[n + 1].type \notin Openers \cup Closers => Balanced(ts, n + 1, depth)
<1> DEFINE o == CountOf(ts, Openers, n)
           c == CountOf(ts, Closers, n)
<1>1. o \in Nat /\ c \in Nat /\ o = c + depth
  BY CountStep DEF Balanced
<1>2. /\ CountOf(ts, Openers, n + 1) = o + (IF ts[n + 1].type \in Openers THEN 1 ELSE 0)
      /\ CountOf(ts, Closers, n + 1) = c + (IF ts[n + 1].type \in Closers THEN 1 ELSE 0)
  BY CountStep
<1>3. Openers \cap Closers = {}
  BY DEF Openers, Closers
<1> HIDE DEF o, c
<1>4. CASE ts[n + 1].type \in Openers
  BY <1>1, <1>2, <1>3, <1>4 DEF Balanced
<1>5. CASE ts[n + 1].type \in Closers
  BY <1>1, <1>2, <1>3, <1>5 DEF Balanced
<1>6. CASE ts[n + 1].type \notin Openers \cup Closers
  <2>1. CountOf(ts, Openers, n + 1) = o /\ CountOf(ts, Closers, n + 1) = c
    BY <1>1, <1>2, <1>6
  <2> QED
    BY <1>1, <1>6, <2>1 DEF Balanced
<1> QED
  BY <1>4, <1>5, <1>6

NestInv == Running => Balanced(tokens, current - 1, currentDepth)

LEMMA NestStep ==
  ASSUME Inv, Inv', NestInv, [Next]_vars
  PROVE  NestInv'
<1> SUFFICES ASSUME Running' PROVE Balanced(tokens', current' - 1, currentDepth')
  BY DEF NestInv
<1>1. /\ tokens' = tokens
      /\ currentDepth = Len(frames) /\ Len(frames) \in Nat /\ current \in Nat
  BY SeqLen DEF Inv, TypeInv, DepthInv, Next, Parse, Ended, vars, RejectStream, Construct,
    ScanGiveUp, ScanOpener, ScanCloser, ScanComma, ScanOther, ScanEnd, ScanOn, ScanReturn,
    ParseLiteral, ParseString, ParseNumber, RejectValue, RejectDepth, EnterObject,
    EnterArray, Enter, CloseEmpty, EnterBody, ParseKey, CloseContainer, NextElement,
    RejectSeparator, Finish, RejectTrailing, Leave, Fail, Throw, Return, Advance
<1>2. Running => /\ current - 1 \in Nat /\ (current - 1) + 1 = current
                 /\ Balanced(tokens, current - 1, currentDepth)
  BY <1>1 DEF NestInv, Inv, ControlInv
<1>3. Running /\ Peek \in Openers => Balanced(tokens, current, currentDepth + 1)
  BY <1>1, <1>2, BalancedStep DEF Peek
<1>4. Running /\ Peek \in Closers => Balanced(tokens, current, currentDepth - 1)
  BY <1>1, <1>2, BalancedStep DEF Peek
<1>5. Running /\ Peek \notin Openers \cup Closers => Balanced(tokens, current, currentDepth)
  BY <1>1, <1>2, BalancedStep DEF Peek
<1>6. (current + 1) - 1 = current /\ (current + 2) - 1 = current + 1
  BY <1>1
<1>7. CASE pc' = pc /\ current' = current /\ currentDepth' = currentDepth
  BY <1>1, <1>2, <1>7 DEF Running
<1>8. CASE Construct \/ ScanGiveUp \/ ScanEnd
  <2>1. current' = 1 /\ currentDepth' = 0
    BY <1>1, <1>8, EmptyIsSeq DEF Construct, ScanGiveUp, ScanEnd, ScanReturn, Inv, ControlInv
  <2> QED
    BY <1>1, <2>1, CountZero DEF Balanced
<1>9. CASE ParseLiteral \/ ParseString \/ ParseNumber
  <2>1. Running /\ Peek \notin Openers \cup Closers
    BY <1>9 DEF Running, ParseLiteral, ParseString, ParseNumber, Literals, Openers, Closers
  <2>2. current' = current + 1 /\ currentDepth' = currentDepth
    BY <1>9 DEF ParseLiteral, ParseString, ParseNumber, Return, Throw, Fail, Running
  <2> QED
    BY <1>1, <1>5, <1>6, <2>1, <2>2
<1>10. CASE EnterObject \/ EnterArray
  <2>1. /\ Running /\ Peek \in Openers
        /\ current' = current + 1 /\ currentDepth' = currentDepth + 1
    BY <1>10 DEF EnterObject, EnterArray, Enter, Running, Openers
  <2> QED
    BY <1>1, <1>3, <1>6, <2>1
<1>11. CASE CloseEmpty \/ CloseContainer
  <2>1. /\ Running /\ Peek \in Closers
        /\ current' = current + 1 /\ currentDepth' = currentDepth - 1
    BY <1>11 DEF CloseEmpty, CloseContainer, Leave, Return, DepthGivenBack, CloserOf,
      Running, Closers
  <2> QED
    BY <1>1, <1>4, <1>6, <2>1
<1>12. CASE EnterBody
  <2>1. Running /\ current' = current /\ currentDepth' = currentDepth
    BY <1>12 DEF EnterBody, Advance, Running
  <2> QED
    BY <1>1, <1>2, <2>1
<1>13. CASE ParseKey
  <2>1. /\ Running /\ Peek = "String" /\ tokens[current + 1].type = "Colon"
        /\ current' = current + 2 /\ currentDepth' = currentDepth
    BY <1>13 DEF ParseKey, Advance, Fail, Throw, Running
  <2>2. Balanced(tokens, current, currentDepth)
    BY <1>5, <2>1 DEF Openers, Closers
  <2>3. tokens[current + 1].type \notin Openers \cup Closers /\ currentDepth \in Int
    BY <1>1, <2>1 DEF Openers, Closers
  <2>4. Balanced(tokens, current + 1, currentDepth)
    BY <1>1, <2>2, <2>3, BalancedStep
  <2> QED
    BY <1>1, <1>6, <2>1, <2>4
<1>14. CASE NextElement
  <2>1. /\ Running /\ Peek \notin Openers \cup Closers
        /\ current' = current + 1 /\ currentDepth' = currentDepth
    BY <1>14 DEF NextElement, Advance, Running, Openers, Closers
  <2> QED
    BY <1>1, <1>5, <1>6, <2>1
<1>15. CASE \/ RejectStream \/ RejectValue \/ RejectDepth \/ RejectSeparator
            \/ Finish \/ RejectTrailing
  BY <1>15 DEF RejectStream, RejectValue, RejectDepth, RejectSeparator, Finish,
    RejectTrailing, Fail, Throw, Advance, Running
<1>16. CASE ScanOpener \/ ScanCloser \/ ScanComma \/ ScanOther
  BY <1>7, <1>16 DEF ScanOpener, ScanCloser, ScanComma, ScanOther, ScanOn
<1>17. CASE Ended \/ UNCHANGED vars
  BY <1>7, <1>17 DEF Ended, vars
<1> QED
  BY <1>8, <1>9, <1>10, <1>11, <1>12, <1>13, <1>14, <1>15, <1>16, <1>17 DEF Next, Parse

\* Whatever the tokens, the depth is the number of openers not yet closed, and
\* parse() gives all of it back however it ends.
THEOREM DepthCorrect == Spec => []DepthIsNesting
<1>1. Init => NestInv
  BY DEF Init, NestInv, Running
<1>2. Inv /\ Inv' /\ NestInv /\ [Next]_vars => NestInv'
  BY NestStep
<1>3. Inv /\ NestInv => DepthIsNesting
  <2> SUFFICES ASSUME Inv, NestInv PROVE DepthIsNesting
    OBVIOUS
  <2>1. CASE Running
    BY <2>1 DEF DepthIsNesting, NestInv, Balanced, CountOf, Count
  <2>2. CASE ~Running
    <3>1. frames = <<>>
      BY <2>2 DEF Inv, TypeInv, ControlInv, Running
    <3> QED
      BY <2>2, <3>1, EmptyIsSeq DEF Inv, DepthInv, DepthIsNesting
  <2> QED
    BY <2>1, <2>2
<1> QED
  BY <1>1, <1>2, <1>3, Invariance, PTL DEF Spec

-----------------------------------------------------------------------------
(* The hints.  What the scan counts and what the parser counts is compared *)
(* with the commas a bracket owns: those at its depth, before the depth    *)
(* has gone below it.                                                      *)

Depth(ts, n) == CountOf(ts, Openers, n) - CountOf(ts, Closers, n)
Brackets(ts, n) == CountOf(ts, {"LeftBracket"}, n)
Encloses(ts, p, n) == \A r \in p..n : Depth(ts, r) >= Depth(ts, p)
Own(ts, p, n) ==
  {q \in (p + 1)..n : /\ ts[q].type = "Comma" /\ Depth(ts, q) = Depth(ts, p)
                      /\ Encloses(ts, p, q)}
HintFor(ts, p, n) ==
  (IF ts[p + 1].type = "RightBracket" THEN 0 ELSE 1) + Cardinality(Own(ts, p, n))

LEMMA DepthStep ==
  ASSUME NEW ts, NEW n \in Nat
  PROVE  /\ Depth(ts, n) \in Int /\ Depth(ts, n + 1) \in Int
         /\ ts[n + 1].type \in Openers => Depth(ts, n + 1) = Depth(ts, n) + 1
         /\ ts[n + 1].type \in Closers => Depth(ts, n + 1) = Depth(ts, n) - 1
         /\ ts[n + 1].type \notin Openers \cup Closers => Depth(ts, n + 1) = Depth(ts, n)
<1> DEFINE o == CountOf(ts, Openers, n)
           c == CountOf(ts, Closers, n)
<1>1. /\ o \in Nat /\ c \in Nat
      /\ CountOf(ts, Openers, n + 1) = o + (IF ts[n + 1].type \in Openers THEN 1 ELSE 0)
      /\ CountOf(ts, Closers, n + 1) = c + (IF ts[n + 1].type \in Closers THEN 1 ELSE 0)
  BY CountStep
<1>2. \A x : ~(x \in Openers /\ x \in Closers)
  BY DEF Openers, Closers
<1>3. Depth(ts, n) = o - c
  BY DEF Depth
<1>4. Depth(ts, n + 1) = CountOf(ts, Openers, n + 1) - CountOf(ts, Closers, n + 1)
  BY DEF Depth
<1> HIDE DEF o, c
<1>5. /\ Depth(ts, n) \in Int /\ Depth(ts, n + 1) \in Int
  BY <1>1, <1>3, <1>4
<1>6. CASE ts[n + 1].type \in Openers
  <2>1. ts[n + 1].type \notin Closers
    BY <1>2, <1>6
  <2> QED
    BY <1>1, <1>3, <1>4, <1>5, <1>6, <2>1
<1>7. CASE ts[n + 1].type \in Closers
  <2>1. ts[n + 1].type \notin Openers
    BY <1>2, <1>7
  <2> QED
    BY <1>1, <1>3, <1>4, <1>5, <1>7, <2>1
<1>8. CASE ts[n + 1].type \notin Openers \cup Closers
  BY <1>1, <1>3, <1>4, <1>5, <1>8
<1> QED
  BY <1>6, <1>7, <1>8

LEMMA DepthIsInt ==
  ASSUME NEW ts, NEW n \in Nat
  PROVE  Depth(ts, n) \in Int
BY DepthStep

\* One more token is one more bracket if it is one.
LEMMA BracketsStep ==
  ASSUME NEW ts, NEW n \in Nat
  PROVE  /\ Brackets(ts, n) \in Nat
         /\ Brackets(ts, n + 1) =
              Brackets(ts, n) + (IF ts[n + 1].type = "LeftBracket" THEN 1 ELSE 0)
<1> DEFINE c == CountOf(ts, {"LeftBracket"}, n)
<1>1. /\ c \in Nat
      /\ CountOf(ts, {"LeftBracket"}, n + 1) =
           c + (IF ts[n + 1].type \in {"LeftBracket"} THEN 1 ELSE 0)
  BY CountStep
<1>2. Brackets(ts, n) = c /\ Brackets(ts, n + 1) = CountOf(ts, {"LeftBracket"}, n + 1)
  BY DEF Brackets
<1>3. ts[n + 1].type \in {"LeftBracket"} <=> ts[n + 1].type = "LeftBracket"
  OBVIOUS
<1> HIDE DEF c
<1> QED
  BY <1>1, <1>2, <1>3

LEMMA CountGrows ==
  ASSUME NEW ts, NEW types, NEW m \in Nat, NEW n \in Nat, m <= n
  PROVE  CountOf(ts, types, m) <= CountOf(ts, types, n)
<1> DEFINE S(k) == {i \in 1..k : ts[i].type \in types}
<1>1. IsFiniteSet(S(n))
  <2>1. IsFiniteSet(1..n)
    BY FS_Interval
  <2> QED
    BY <2>1, FS_Subset
<1>2. S(m) \subseteq S(n)
  OBVIOUS
<1>3. Cardinality(S(m)) <= Cardinality(S(n))
  BY <1>1, <1>2, FS_Subset
<1> QED
  BY <1>3 DEF CountOf

\* A bracket is told by how many there are up to it.
LEMMA BracketsTell ==
  ASSUME NEW ts, NEW p \in Nat \ {0}, NEW q \in Nat \ {0},
         ts[p].type = "LeftBracket", ts[q].type = "LeftBracket",
         Brackets(ts, p) = Brackets(ts, q)
  PROVE  p = q
<1>1. ASSUME NEW x \in Nat \ {0}, NEW y \in Nat \ {0}, ts[y].type = "LeftBracket", x < y
      PROVE  Brackets(ts, x) < Brackets(ts, y)
  <2>1. y - 1 \in Nat /\ x <= y - 1 /\ (y - 1) + 1 = y
    BY <1>1
  <2>2. Brackets(ts, y) = Brackets(ts, y - 1) + 1 /\ Brackets(ts, y - 1) \in Nat
    BY <1>1, <2>1, CountStep DEF Brackets
  <2>3. Brackets(ts, x) <= Brackets(ts, y - 1) /\ Brackets(ts, x) \in Nat
    BY <2>1, CountGrows, CountStep DEF Brackets
  <2> QED
    BY <2>2, <2>3
<1>2. Brackets(ts, p) \in Nat
  BY CountStep DEF Brackets
<1> QED
  BY <1>1, <1>2

\* One more token is owned if it is a comma at the depth of the bracket.
LEMMA OwnStep ==
  ASSUME NEW ts, NEW p \in Nat, NEW n \in Nat, p <= n
  PROVE  /\ Cardinality(Own(ts, p, n)) \in Nat
         /\ Cardinality(Own(ts, p, n + 1)) =
              Cardinality(Own(ts, p, n))
                + (IF /\ ts[n + 1].type = "Comma" /\ Depth(ts, n) = Depth(ts, p)
                      /\ Encloses(ts, p, n)
                   THEN 1 ELSE 0)
<1> DEFINE more == /\ ts[n + 1].type = "Comma" /\ Depth(ts, n) = Depth(ts, p)
                   /\ Encloses(ts, p, n)
<1>1. IsFiniteSet(Own(ts, p, n)) /\ Cardinality(Own(ts, p, n)) \in Nat
  <2>1. IsFiniteSet((p + 1)..n)
    BY FS_Interval
  <2> QED
    BY <2>1, FS_Subset, FS_CardinalityType DEF Own
<1>2. ts[n + 1].type = "Comma" => Depth(ts, n + 1) = Depth(ts, n)
  BY DepthStep DEF Openers, Closers
<1>3. (/\ ts[n + 1].type = "Comma" /\ Depth(ts, n + 1) = Depth(ts, p)
       /\ Encloses(ts, p, n + 1)) <=> more
  <2>1. Depth(ts, p) \in Int /\ Depth(ts, n + 1) \in Int
    BY DepthIsInt
  <2>2. p..(n + 1) = (p..n) \cup {n + 1}
    OBVIOUS
  <2> QED
    BY <1>2, <2>1, <2>2 DEF Encloses
<1>4. Own(ts, p, n + 1) = IF more THEN Own(ts, p, n) \cup {n + 1} ELSE Own(ts, p, n)
  <2>1. (p + 1)..(n + 1) = ((p + 1)..n) \cup {n + 1}
    OBVIOUS
  <2> HIDE DEF more
  <2> QED
    BY <1>3, <2>1 DEF Own
<1>5. n + 1 \notin Own(ts, p, n)
  BY DEF Own
<1> HIDE DEF more
<1>6. Cardinality(Own(ts, p, n + 1)) = Cardinality(Own(ts, p, n)) + (IF more THEN 1 ELSE 0)
  BY <1>1, <1>4, <1>5, FS_AddElement
<1> QED
  BY <1>1, <1>6 DEF more

\* The two cases of OwnStep.
LEMMA OwnKept ==
  ASSUME NEW ts, NEW n \in Nat, NEW p \in 1..n
  PROVE  /\ Cardinality(Own(ts, p, n)) \in Nat
         /\ ~(ts[n + 1].type = "Comma" /\ Depth(ts, n) = Depth(ts, p)) =>
              Cardinality(Own(ts, p, n + 1)) = Cardinality(Own(ts, p, n))
<1>1. p \in Nat /\ p <= n
  OBVIOUS
<1>2. /\ Cardinality(Own(ts, p, n)) \in Nat
      /\ Cardinality(Own(ts, p, n + 1)) =
           Cardinality(Own(ts, p, n))
             + (IF /\ ts[n + 1].type = "Comma" /\ Depth(ts, n) = Depth(ts, p)
                   /\ Encloses(ts, p, n)
                THEN 1 ELSE 0)
  BY <1>1, OwnStep
<1> QED
  BY <1>2

LEMMA OwnGrows ==
  ASSUME NEW ts, NEW n \in Nat, NEW p \in 1..n,
         ts[n + 1].type = "Comma", Depth(ts, n) = Depth(ts, p), Encloses(ts, p, n)
  PROVE  Cardinality(Own(ts, p, n + 1)) = Cardinality(Own(ts, p, n)) + 1
<1>1. p \in Nat /\ p <= n
  OBVIOUS
<1>2. Cardinality(Own(ts, p, n + 1)) =
        Cardinality(Own(ts, p, n))
          + (IF /\ ts[n + 1].type = "Comma" /\ Depth(ts, n) = Depth(ts, p)
                /\ Encloses(ts, p, n)
             THEN 1 ELSE 0)
  BY <1>1, OwnStep
<1> QED
  BY <1>2

LEMMA OwnsNothingYet ==
  ASSUME NEW ts, NEW p \in Nat
  PROVE  Cardinality(Own(ts, p, p)) = 0
<1>1. Own(ts, p, p) = {}
  BY DEF Own
<1> QED
  BY <1>1, FS_EmptySet

\* Behind its closer a bracket owns nothing.
LEMMA OwnsNoMore ==
  ASSUME NEW ts, NEW p \in Nat, NEW n \in Nat, NEW m \in Nat, p <= n, n < m,
         Depth(ts, n + 1) < Depth(ts, p)
  PROVE  Own(ts, p, m) = Own(ts, p, n)
<1>1. Depth(ts, p) \in Int /\ Depth(ts, n + 1) \in Int
  BY DepthIsInt
<1>2. ASSUME NEW q \in (n + 1)..m PROVE ~Encloses(ts, p, q)
  <2>1. n + 1 \in p..q
    OBVIOUS
  <2> QED
    BY <1>1, <2>1 DEF Encloses
<1>3. \A q \in (p + 1)..m : q \in (p + 1)..n \/ q \in (n + 1)..m
  OBVIOUS
<1>4. (p + 1)..n \subseteq (p + 1)..m
  OBVIOUS
<1> QED
  BY <1>2, <1>3, <1>4 DEF Own

\* Of the brackets and braces of one depth only one is still open.
LEMMA OpenIsOne ==
  ASSUME NEW ts, NEW n \in Nat, NEW p \in 1..n, NEW q \in 1..n,
         ts[p].type \in Openers, ts[q].type \in Openers,
         Depth(ts, p) = Depth(ts, q), Encloses(ts, p, n), Encloses(ts, q, n)
  PROVE  p = q
<1>1. ASSUME NEW x \in 1..n, NEW y \in 1..n, ts[y].type \in Openers, x < y,
             Depth(ts, x) = Depth(ts, y), Encloses(ts, x, n)
      PROVE  FALSE
  <2>1. y - 1 \in x..n /\ y - 1 \in Nat /\ (y - 1) + 1 = y
    BY <1>1
  <2>2. Depth(ts, y) = Depth(ts, y - 1) + 1 /\ Depth(ts, y - 1) \in Int
    BY <1>1, <2>1, DepthStep
  <2>3. Depth(ts, y - 1) >= Depth(ts, x)
    BY <1>1, <2>1 DEF Encloses
  <2> QED
    BY <1>1, <2>2, <2>3
<1> QED
  BY <1>1

\* One more token leaves what is open open, unless the depth goes below it.
LEMMA EnclosesStep ==
  ASSUME NEW ts, NEW p \in Nat, NEW n \in Nat, Encloses(ts, p, n),
         Depth(ts, n + 1) >= Depth(ts, p)
  PROVE  Encloses(ts, p, n + 1)
BY DEF Encloses

\* A hint grows by one for each comma its bracket owns, and never otherwise.
LEMMA HintStep ==
  ASSUME NEW ts, NEW p \in Nat, NEW n \in Nat, p <= n
  PROVE  /\ HintFor(ts, p, n) \in Nat
         /\ HintFor(ts, p, n + 1) =
              HintFor(ts, p, n)
                + (IF /\ ts[n + 1].type = "Comma" /\ Depth(ts, n) = Depth(ts, p)
                      /\ Encloses(ts, p, n)
                   THEN 1 ELSE 0)
<1> DEFINE more == /\ ts[n + 1].type = "Comma" /\ Depth(ts, n) = Depth(ts, p)
                   /\ Encloses(ts, p, n)
           own == Cardinality(Own(ts, p, n))
           first == IF ts[p + 1].type = "RightBracket" THEN 0 ELSE 1
<1>1. /\ own \in Nat
      /\ Cardinality(Own(ts, p, n + 1)) = own + (IF more THEN 1 ELSE 0)
  BY OwnStep
<1>2. first \in Nat
  OBVIOUS
<1>3. HintFor(ts, p, n) = first + own
  BY DEF HintFor
<1>4. HintFor(ts, p, n + 1) = first + Cardinality(Own(ts, p, n + 1))
  BY DEF HintFor
<1> HIDE DEF more, own, first
<1>5. HintFor(ts, p, n) \in Nat
        /\ HintFor(ts, p, n + 1) = HintFor(ts, p, n) + (IF more THEN 1 ELSE 0)
  BY <1>1, <1>2, <1>3, <1>4
<1> QED
  BY <1>5 DEF more

(* What the scan knows behind its first n tokens: a hint for every bracket *)
(* among them, in their order, and on its stack what is still open.        *)

Reserved(ts, e, k, n) ==
  /\ e.at \in 1..n
  /\ ts[e.at].type = "LeftBracket"
  /\ Brackets(ts, e.at) = k
  /\ Depth(ts, e.at) >= 1
  /\ e.size = HintFor(ts, e.at, n)

Reserves(ts, reservations, n) ==
  /\ Len(reservations) = Brackets(ts, n)
  /\ \A k \in 1..Len(reservations) : Reserved(ts, reservations[k], k, n)

Opened(ts, e, i, n) ==
  \E p \in 1..n : /\ ts[p].type = e.type
                  /\ Depth(ts, p) = i
                  /\ Encloses(ts, p, n)
                  /\ e.type = "LeftBracket" => e.reservation = Brackets(ts, p)

StackOpen(ts, stack, n) ==
  /\ Len(stack) = Depth(ts, n)
  /\ \A i \in 1..Len(stack) : Opened(ts, stack[i], i, n)

StackEntry == [type : Openers, reservation : Nat]

\* A hint whose bracket does not own the next token stays what it is.
LEMMA ReservedStep ==
  ASSUME NEW ts, NEW e, NEW k, NEW n \in Nat, Reserved(ts, e, k, n),
         ~(/\ ts[n + 1].type = "Comma" /\ Depth(ts, n) = Depth(ts, e.at)
           /\ Encloses(ts, e.at, n))
  PROVE  Reserved(ts, e, k, n + 1)
<1>1. e.at \in Nat /\ e.at <= n /\ e.at \in 1..(n + 1)
  BY DEF Reserved
<1>2. HintFor(ts, e.at, n + 1) = HintFor(ts, e.at, n)
  BY <1>1, HintStep
<1> QED
  BY <1>1, <1>2 DEF Reserved

\* What is open stays open while the depth does not go below it.
LEMMA OpenedStep ==
  ASSUME NEW ts, NEW e, NEW i \in Int, NEW n \in Nat, Opened(ts, e, i, n),
         Depth(ts, n + 1) >= i
  PROVE  Opened(ts, e, i, n + 1)
<1>1. PICK p \in 1..n : /\ ts[p].type = e.type
                        /\ Depth(ts, p) = i
                        /\ Encloses(ts, p, n)
                        /\ e.type = "LeftBracket" => e.reservation = Brackets(ts, p)
  BY DEF Opened
<1>2. Encloses(ts, p, n + 1) /\ p \in 1..(n + 1)
  BY <1>1, EnclosesStep
<1> QED
  BY <1>1, <1>2 DEF Opened

\* A bracket encloses itself.
LEMMA EnclosesSelf ==
  ASSUME NEW ts, NEW p \in Nat
  PROVE  Encloses(ts, p, p)
BY DepthIsInt DEF Encloses

\* An opener: it is open, and a bracket gets its hint.
LEMMA ScannedOpener ==
  ASSUME NEW ts, NEW res \in Seq(Hints), NEW st \in Seq(StackEntry), NEW n \in Nat,
         Reserves(ts, res, n), StackOpen(ts, st, n),
         NEW type \in Openers, ts[n + 1].type = type,
         NEW hint \in Hints, hint.at = n + 1,
         hint.size = IF ts[n + 2].type = "RightBracket" THEN 0 ELSE 1,
         NEW more, more = IF type = "LeftBracket" THEN Append(res, hint) ELSE res
  PROVE  /\ Reserves(ts, more, n + 1)
         /\ StackOpen(ts, Append(st, [type |-> type, reservation |-> Len(res) + 1]), n + 1)
<1> DEFINE e == [type |-> type, reservation |-> Len(res) + 1]
           st2 == Append(st, e)
<1>1. /\ Depth(ts, n + 1) = Depth(ts, n) + 1 /\ Depth(ts, n) \in Int
      /\ Depth(ts, n + 1) \in Int
  BY DepthStep
<1>2. Len(st) \in Nat /\ Len(st) = Depth(ts, n) /\ Len(res) \in Nat /\ Len(res) = Brackets(ts, n)
  BY LenProperties DEF StackOpen, Reserves
<1>3. Brackets(ts, n + 1) = IF type = "LeftBracket" THEN Len(res) + 1 ELSE Len(res)
  <2>1. Brackets(ts, n + 1) = Brackets(ts, n) + (IF ts[n + 1].type = "LeftBracket" THEN 1 ELSE 0)
    BY BracketsStep
  <2>2. CASE type = "LeftBracket"
    BY <1>2, <2>1, <2>2
  <2>3. CASE type # "LeftBracket"
    BY <1>2, <2>1, <2>3
  <2> QED
    BY <2>2, <2>3
<1>4. type # "Comma"
  BY DEF Openers
<1>5. \A k \in 1..Len(res) : Reserved(ts, res[k], k, n + 1)
  BY <1>4, ReservedStep DEF Reserves
<1>6. Reserves(ts, more, n + 1)
  <2>1. CASE type = "LeftBracket"
    <3>1. /\ Len(more) = Len(res) + 1 /\ more[Len(res) + 1] = hint
          /\ \A k \in 1..Len(res) : more[k] = res[k]
      BY <2>1, AppendProperties
    <3>2. Cardinality(Own(ts, n + 1, n + 1)) = 0
      BY OwnsNothingYet
    <3>3. HintFor(ts, n + 1, n + 1) = hint.size
      BY <3>2 DEF HintFor
    <3>4. Reserved(ts, hint, Len(res) + 1, n + 1)
      BY <1>1, <1>2, <1>3, <2>1, <3>3 DEF Reserved
    <3>5. \A k \in 1..(Len(res) + 1) : k \in 1..Len(res) \/ k = Len(res) + 1
      BY <1>2
    <3> QED
      BY <1>2, <1>3, <1>5, <2>1, <3>1, <3>4, <3>5 DEF Reserves
  <2>2. CASE type # "LeftBracket"
    BY <1>3, <1>5, <2>2 DEF Reserves
  <2> QED
    BY <2>1, <2>2
<1>7. StackOpen(ts, st2, n + 1)
  <2>1. e \in StackEntry
    BY <1>2 DEF StackEntry
  <2>2. /\ Len(st2) = Len(st) + 1 /\ st2[Len(st) + 1] = e
        /\ \A i \in 1..Len(st) : st2[i] = st[i]
    BY <2>1, AppendProperties
  <2>3. ASSUME NEW i \in 1..Len(st) PROVE Opened(ts, st[i], i, n + 1)
    BY <1>1, <1>2, OpenedStep DEF StackOpen
  <2>4. Opened(ts, e, Len(st) + 1, n + 1)
    <3>1. Encloses(ts, n + 1, n + 1) /\ n + 1 \in 1..(n + 1)
      BY EnclosesSelf
    <3> QED
      BY <1>1, <1>2, <1>3, <3>1 DEF Opened
  <2>5. \A i \in 1..(Len(st) + 1) : i \in 1..Len(st) \/ i = Len(st) + 1
    BY <1>2
  <2> HIDE DEF st2, e
  <2> QED
    BY <1>1, <1>2, <2>2, <2>3, <2>4, <2>5 DEF StackOpen
<1> QED
  BY <1>6, <1>7

\* A closer: the innermost opener is open no more.
LEMMA ScannedCloser ==
  ASSUME NEW ts, NEW res \in Seq(Hints), NEW st \in Seq(StackEntry), NEW n \in Nat,
         Reserves(ts, res, n), StackOpen(ts, st, n),
         ts[n + 1].type \in Closers, st # <<>>
  PROVE  Reserves(ts, res, n + 1) /\ StackOpen(ts, Front(st), n + 1)
<1>1. /\ Depth(ts, n + 1) = Depth(ts, n) - 1 /\ Depth(ts, n) \in Int
      /\ Depth(ts, n + 1) \in Int
  BY DepthStep
<1>2. /\ Len(st) \in Nat \ {0} /\ Len(st) = Depth(ts, n) /\ Len(res) = Brackets(ts, n)
      /\ Len(res) \in Nat
  BY LenProperties, EmptySeq DEF StackOpen, Reserves
<1>3. Brackets(ts, n + 1) = Len(res)
  <2>1. ts[n + 1].type # "LeftBracket"
    BY DEF Closers
  <2> QED
    BY <1>2, <2>1, BracketsStep
<1>4. \A k \in 1..Len(res) : Reserved(ts, res[k], k, n + 1)
  BY ReservedStep DEF Reserves, Closers
<1>5. IsSeq(st)
  BY DEF IsSeq
<1>6. Len(Front(st)) = Len(st) - 1 /\ \A i \in 1..(Len(st) - 1) : Front(st)[i] = st[i]
  BY <1>5, SeqFront
<1>7. ASSUME NEW i \in 1..(Len(st) - 1) PROVE Opened(ts, st[i], i, n + 1)
  <2>1. i \in 1..Len(st) /\ i \in Int /\ Depth(ts, n + 1) >= i
    BY <1>1, <1>2
  <2> QED
    BY <2>1, OpenedStep DEF StackOpen
<1> QED
  BY <1>1, <1>2, <1>3, <1>4, <1>6, <1>7 DEF Reserves, StackOpen

\* A comma in an array: the hint of that array, and no other, grows.
LEMMA ScannedComma ==
  ASSUME NEW ts, NEW res \in Seq(Hints), NEW st \in Seq(StackEntry), NEW n \in Nat,
         Reserves(ts, res, n), StackOpen(ts, st, n),
         ts[n + 1].type = "Comma", st # <<>>,
         NEW k, k = st[Len(st)].reservation, st[Len(st)].type = "LeftBracket"
  PROVE  /\ k \in 1..Len(res)
         /\ Reserves(ts, [res EXCEPT ![k].size = @ + 1], n + 1)
         /\ StackOpen(ts, st, n + 1)
<1>1. /\ Depth(ts, n + 1) = Depth(ts, n) /\ Depth(ts, n) \in Int
  BY DepthStep DEF Openers, Closers
<1>2. /\ Len(st) \in Nat \ {0} /\ Len(st) = Depth(ts, n) /\ Len(res) = Brackets(ts, n)
      /\ Len(res) \in Nat
  BY LenProperties, EmptySeq DEF StackOpen, Reserves
<1>3. Brackets(ts, n + 1) = Len(res)
  <2>1. /\ Brackets(ts, n) \in Nat
        /\ Brackets(ts, n + 1) =
             Brackets(ts, n) + (IF ts[n + 1].type = "LeftBracket" THEN 1 ELSE 0)
    BY BracketsStep
  <2> QED
    BY <1>2, <2>1
<1>4. PICK p \in 1..n : /\ ts[p].type = "LeftBracket"
                        /\ Depth(ts, p) = Len(st)
                        /\ Encloses(ts, p, n)
                        /\ k = Brackets(ts, p)
  BY <1>2 DEF StackOpen, Opened
<1>5. k \in 1..Len(res)
  <2>1. Brackets(ts, p) <= Brackets(ts, n)
    BY CountGrows DEF Brackets
  <2>2. p - 1 \in Nat /\ (p - 1) + 1 = p
    OBVIOUS
  <2>3. Brackets(ts, p - 1) \in Nat /\ Brackets(ts, p) = Brackets(ts, p - 1) + 1
    BY <1>4, <2>2, BracketsStep
  <2> QED
    BY <1>2, <1>4, <2>1, <2>3
<1>6. /\ res[k].at \in 1..n /\ ts[res[k].at].type = "LeftBracket"
      /\ Brackets(ts, res[k].at) = k /\ res[k].size = HintFor(ts, res[k].at, n)
      /\ res[k] \in Hints
  BY <1>5, ElementOfSeq DEF Reserves, Reserved
<1>7. res[k].at = p
  BY <1>4, <1>6, BracketsTell
<1> DEFINE grown == [res[k] EXCEPT !.size = @ + 1]
           res2 == [res EXCEPT ![k].size = @ + 1]
<1>8. /\ Len(res2) = Len(res) /\ res2[k] = grown
      /\ \A j \in 1..Len(res) : j # k => res2[j] = res[j]
  BY <1>5
<1>9. Reserved(ts, grown, k, n + 1)
  <2>1. p \in Nat /\ p <= n /\ p \in 1..(n + 1) /\ Depth(ts, p) >= 1
    BY <1>2, <1>4
  <2>2. HintFor(ts, p, n + 1) = HintFor(ts, p, n) + 1
    BY <1>2, <1>4, <2>1, HintStep
  <2>3. grown.at = p /\ grown.size = HintFor(ts, p, n) + 1
    BY <1>6, <1>7 DEF Hints
  <2> HIDE DEF grown
  <2> QED
    BY <1>4, <2>1, <2>2, <2>3 DEF Reserved
<1>10. ASSUME NEW j \in 1..Len(res), j # k PROVE Reserved(ts, res[j], j, n + 1)
  <2>1. Reserved(ts, res[j], j, n)
    BY DEF Reserves
  <2>2. res[j].at \in 1..n /\ ts[res[j].at].type \in Openers /\ ts[p].type \in Openers
    BY <1>4, <2>1 DEF Reserved, Openers
  <2>3. ~(Depth(ts, n) = Depth(ts, res[j].at) /\ Encloses(ts, res[j].at, n))
    <3>1. SUFFICES ASSUME Depth(ts, n) = Depth(ts, res[j].at), Encloses(ts, res[j].at, n)
                   PROVE  FALSE
      OBVIOUS
    <3>2. res[j].at = p
      BY <1>2, <1>4, <2>2, <3>1, OpenIsOne
    <3> QED
      BY <1>4, <1>10, <2>1, <3>2 DEF Reserved
  <2> QED
    BY <2>1, <2>3, ReservedStep
<1>11. Reserves(ts, res2, n + 1)
  <2> HIDE DEF res2, grown
  <2>1. ASSUME NEW j \in 1..Len(res) PROVE Reserved(ts, res2[j], j, n + 1)
    BY <1>8, <1>9, <1>10
  <2> QED
    BY <1>3, <1>8, <2>1 DEF Reserves
<1>12. StackOpen(ts, st, n + 1)
  <2>1. ASSUME NEW i \in 1..Len(st) PROVE Opened(ts, st[i], i, n + 1)
    BY <1>1, <1>2, OpenedStep DEF StackOpen
  <2> QED
    BY <1>1, <1>2, <2>1 DEF StackOpen
<1> QED
  BY <1>5, <1>11, <1>12

\* Any other token changes neither the hints nor the stack.
LEMMA ScannedOther ==
  ASSUME NEW ts, NEW res \in Seq(Hints), NEW st \in Seq(StackEntry), NEW n \in Nat,
         Reserves(ts, res, n), StackOpen(ts, st, n),
         ts[n + 1].type \notin Openers \cup Closers,
         ~(ts[n + 1].type = "Comma" /\ st # <<>> /\ st[Len(st)].type = "LeftBracket")
  PROVE  Reserves(ts, res, n + 1) /\ StackOpen(ts, st, n + 1)
<1>1. /\ Depth(ts, n + 1) = Depth(ts, n) /\ Depth(ts, n) \in Int
  BY DepthStep
<1>2. /\ Len(st) \in Nat /\ Len(st) = Depth(ts, n) /\ Len(res) = Brackets(ts, n)
      /\ Len(res) \in Nat
  BY LenProperties DEF StackOpen, Reserves
<1>3. Brackets(ts, n + 1) = Len(res)
  BY <1>2, BracketsStep DEF Openers
<1>4. ASSUME NEW j \in 1..Len(res) PROVE Reserved(ts, res[j], j, n + 1)
  <2>1. Reserved(ts, res[j], j, n)
    BY DEF Reserves
  <2>2. ~(/\ ts[n + 1].type = "Comma" /\ Depth(ts, n) = Depth(ts, res[j].at)
          /\ Encloses(ts, res[j].at, n))
    <3>1. SUFFICES ASSUME ts[n + 1].type = "Comma", Depth(ts, n) = Depth(ts, res[j].at),
                          Encloses(ts, res[j].at, n)
                   PROVE  FALSE
      OBVIOUS
    <3>2. /\ res[j].at \in 1..n /\ ts[res[j].at].type = "LeftBracket"
          /\ Len(st) = Depth(ts, res[j].at) /\ Len(st) \in 1..Len(st) /\ st # <<>>
      BY <1>2, <2>1, <3>1, EmptySeq DEF Reserved
    <3>3. PICK p \in 1..n : /\ ts[p].type = st[Len(st)].type
                            /\ Depth(ts, p) = Len(st)
                            /\ Encloses(ts, p, n)
      BY <3>2 DEF StackOpen, Opened
    <3>4. st[Len(st)] \in StackEntry /\ st[Len(st)].type \in Openers
      <4>1. \A i \in 1..Len(st) : st[i] \in StackEntry
        OBVIOUS
      <4>2. \A e \in StackEntry : e.type \in Openers
        BY DEF StackEntry
      <4> QED
        BY <3>2, <4>1, <4>2
    <3>5. res[j].at = p
      BY <3>1, <3>2, <3>3, <3>4, OpenIsOne DEF Openers
    <3> QED
      BY <3>1, <3>2, <3>3, <3>5
  <2> QED
    BY <2>1, <2>2, ReservedStep
<1>5. ASSUME NEW i \in 1..Len(st) PROVE Opened(ts, st[i], i, n + 1)
  BY <1>1, <1>2, OpenedStep DEF StackOpen
<1> QED
  BY <1>1, <1>2, <1>3, <1>4, <1>5 DEF Reserves, StackOpen

(* What the parser knows of an activation: the bracket or brace it parses  *)
(* is still open, the hint it took is that bracket's, and it holds one     *)
(* element for each comma seen.                                            *)

FrameOpen(ts, f, i, n, fresh) ==
  \E q \in 1..n : /\ ts[q].type = f.type
                  /\ Depth(ts, q) = i
                  /\ Encloses(ts, q, n)
                  /\ f.type = "LeftBracket" =>
                       /\ f.capacity = HintFor(ts, q, Len(ts))
                       /\ IsSeq(f.elements)
                       /\ Len(f.elements) = Cardinality(Own(ts, q, n))
                       /\ IF fresh THEN q = n ELSE ts[q + 1].type # "RightBracket"

\* A token that is no comma of its own leaves an activation as it is.
LEMMA FrameStep ==
  ASSUME NEW ts, NEW f, NEW i \in Int, NEW n \in Nat, FrameOpen(ts, f, i, n, FALSE),
         Depth(ts, n + 1) >= i, ~(ts[n + 1].type = "Comma" /\ Depth(ts, n) = i)
  PROVE  FrameOpen(ts, f, i, n + 1, FALSE)
<1>1. PICK q \in 1..n : /\ ts[q].type = f.type
                        /\ Depth(ts, q) = i
                        /\ Encloses(ts, q, n)
                        /\ f.type = "LeftBracket" =>
                             /\ f.capacity = HintFor(ts, q, Len(ts))
                             /\ IsSeq(f.elements)
                             /\ Len(f.elements) = Cardinality(Own(ts, q, n))
                             /\ ts[q + 1].type # "RightBracket"
  BY DEF FrameOpen
<1>2. Encloses(ts, q, n + 1) /\ q \in 1..(n + 1)
  <2>1. q \in Nat /\ q \in 1..(n + 1)
    OBVIOUS
  <2>2. Depth(ts, n + 1) >= Depth(ts, q)
    BY <1>1
  <2> QED
    BY <1>1, <2>1, <2>2, EnclosesStep
<1>3. Cardinality(Own(ts, q, n + 1)) = Cardinality(Own(ts, q, n))
  BY <1>1, OwnKept
<1> QED
  BY <1>1, <1>2, <1>3 DEF FrameOpen

\* The activation g is f with one element more.
Stores(f, g) ==
  /\ g.type = f.type
  /\ f.type = "LeftBracket" =>
       /\ g.capacity = f.capacity
       /\ IsSeq(f.elements) => IsSeq(g.elements) /\ Len(g.elements) = Len(f.elements) + 1

\* A comma of its own comes with an element.
LEMMA FrameComma ==
  ASSUME NEW ts, NEW f, NEW g, NEW i \in Int, NEW n \in Nat, FrameOpen(ts, f, i, n, FALSE),
         ts[n + 1].type = "Comma", Depth(ts, n) = i, Stores(f, g)
  PROVE  FrameOpen(ts, g, i, n + 1, FALSE)
<1>1. PICK q \in 1..n : /\ ts[q].type = f.type
                        /\ Depth(ts, q) = i
                        /\ Encloses(ts, q, n)
                        /\ f.type = "LeftBracket" =>
                             /\ f.capacity = HintFor(ts, q, Len(ts))
                             /\ IsSeq(f.elements)
                             /\ Len(f.elements) = Cardinality(Own(ts, q, n))
                             /\ ts[q + 1].type # "RightBracket"
  BY DEF FrameOpen
<1>2. Depth(ts, n + 1) = i
  BY DepthStep DEF Openers, Closers
<1>3. Encloses(ts, q, n + 1) /\ q \in 1..(n + 1)
  BY <1>1, <1>2, EnclosesStep
<1>4. Cardinality(Own(ts, q, n + 1)) = Cardinality(Own(ts, q, n)) + 1
  BY <1>1, OwnGrows
<1>5. f.type = "LeftBracket" => /\ g.capacity = HintFor(ts, q, Len(ts))
                                /\ IsSeq(g.elements)
                                /\ Len(g.elements) = Cardinality(Own(ts, q, n + 1))
                                /\ ts[q + 1].type # "RightBracket"
  BY <1>1, <1>4 DEF Stores
<1> QED
  BY <1>1, <1>2, <1>3, <1>5 DEF FrameOpen, Stores

\* An activation that has just taken its opener.
LEMMA FrameEnter ==
  ASSUME NEW ts, NEW f, NEW n \in Nat, ts[n + 1].type = f.type, f.type \in Openers,
         f.type = "LeftBracket" =>
           f.capacity = HintFor(ts, n + 1, Len(ts)) /\ f.elements = <<>>
  PROVE  FrameOpen(ts, f, Depth(ts, n) + 1, n + 1, TRUE)
<1>1. Depth(ts, n + 1) = Depth(ts, n) + 1 /\ n + 1 \in 1..(n + 1)
  BY DepthStep
<1>2. Encloses(ts, n + 1, n + 1)
  BY EnclosesSelf
<1>3. Cardinality(Own(ts, n + 1, n + 1)) = 0
  BY OwnsNothingYet
<1> QED
  BY <1>1, <1>2, <1>3, EmptyIsSeq DEF FrameOpen

\* The token behind the opener is not its closer.
LEMMA FrameEntered ==
  ASSUME NEW ts, NEW f, NEW i, NEW n \in Nat, FrameOpen(ts, f, i, n, TRUE),
         f.type = "LeftBracket" => ts[n + 1].type # "RightBracket"
  PROVE  FrameOpen(ts, f, i, n, FALSE)
BY DEF FrameOpen

\* At the closer of an array its hint is the elements it holds if it is empty,
\* and one more if its last element is still to be stored.
LEMMA FrameClose ==
  ASSUME NEW ts, NEW f, NEW i \in Int, NEW n \in Nat,
         f.type = "LeftBracket", ts[n + 1].type = "RightBracket", Depth(ts, n) = i,
         Len(ts) \in Nat, n < Len(ts)
  PROVE  /\ FrameOpen(ts, f, i, n, TRUE) =>
              IsSeq(f.elements) /\ f.capacity = Len(f.elements)
         /\ FrameOpen(ts, f, i, n, FALSE) =>
              IsSeq(f.elements) /\ f.capacity = Len(f.elements) + 1
<1>1. Depth(ts, n + 1) = i - 1
  BY DepthStep DEF Closers
<1>2. ASSUME NEW q \in 1..n, Depth(ts, q) = i, f.capacity = HintFor(ts, q, Len(ts)),
             Len(f.elements) = Cardinality(Own(ts, q, n))
      PROVE  /\ Len(f.elements) \in Nat
             /\ f.capacity =
                  (IF ts[q + 1].type = "RightBracket" THEN 0 ELSE 1) + Len(f.elements)
  <2>1. Own(ts, q, Len(ts)) = Own(ts, q, n)
    BY <1>1, <1>2, OwnsNoMore
  <2>2. Cardinality(Own(ts, q, n)) \in Nat
    BY OwnKept
  <2> QED
    BY <1>2, <2>1, <2>2 DEF HintFor
<1>3. ASSUME FrameOpen(ts, f, i, n, TRUE)
      PROVE  IsSeq(f.elements) /\ f.capacity = Len(f.elements)
  <2>1. PICK q \in 1..n : /\ Depth(ts, q) = i
                          /\ f.capacity = HintFor(ts, q, Len(ts))
                          /\ IsSeq(f.elements)
                          /\ Len(f.elements) = Cardinality(Own(ts, q, n))
                          /\ q = n
    BY <1>3 DEF FrameOpen
  <2>2. /\ Len(f.elements) \in Nat
        /\ f.capacity = (IF ts[q + 1].type = "RightBracket" THEN 0 ELSE 1) + Len(f.elements)
    BY <1>2, <2>1
  <2> QED
    BY <2>1, <2>2
<1>4. ASSUME FrameOpen(ts, f, i, n, FALSE)
      PROVE  IsSeq(f.elements) /\ f.capacity = Len(f.elements) + 1
  <2>1. PICK q \in 1..n : /\ Depth(ts, q) = i
                          /\ f.capacity = HintFor(ts, q, Len(ts))
                          /\ IsSeq(f.elements)
                          /\ Len(f.elements) = Cardinality(Own(ts, q, n))
                          /\ ts[q + 1].type # "RightBracket"
    BY <1>4 DEF FrameOpen
  <2>2. /\ Len(f.elements) \in Nat
        /\ f.capacity = (IF ts[q + 1].type = "RightBracket" THEN 0 ELSE 1) + Len(f.elements)
    BY <1>2, <2>1
  <2> QED
    BY <2>1, <2>2
<1> QED
  BY <1>3, <1>4

-----------------------------------------------------------------------------
(* The scan, action by action.                                             *)

ScanInv ==
  /\ pc = "construct" => arrayReservations = <<>> /\ scanStack = <<>> /\ scanAt = 1
  /\ pc = "scan" => /\ Reserves(tokens, arrayReservations, scanAt - 1)
                    /\ StackOpen(tokens, scanStack, scanAt - 1)

LEMMA ScanStep ==
  ASSUME Inv, ScanInv, [Next]_vars
  PROVE  ScanInv'
<1> DEFINE n == scanAt - 1
<1>1. /\ arrayReservations \in Seq(Hints) /\ scanStack \in Seq(StackEntry)
      /\ n \in Nat /\ scanAt = n + 1 /\ (scanAt + 1) - 1 = n + 1 /\ scanAt + 1 = n + 2
  BY DEF Inv, TypeInv, StackEntry
<1>2. ASSUME NEW r, NEW st, ScanOn(r, st), pc = "scan",
             Reserves(tokens, r, n + 1), StackOpen(tokens, st, n + 1)
      PROVE  ScanInv'
  BY <1>1, <1>2 DEF ScanInv, ScanOn
<1>3. CASE Construct
  <2>1. /\ arrayReservations' = <<>> /\ scanStack' = <<>> /\ scanAt' = 1 /\ tokens' = tokens
        /\ pc' # "construct"
    BY <1>3 DEF Construct, ScanInv, hints
  <2>2. Depth(tokens, 0) = 0 /\ Brackets(tokens, 0) = 0
    BY CountZero DEF Depth, Brackets
  <2>3. Reserves(tokens, <<>>, 0) /\ StackOpen(tokens, <<>>, 0)
    BY <2>2, EmptyIsSeq DEF Reserves, StackOpen
  <2>4. scanAt' - 1 = 0
    BY <2>1
  <2> QED
    BY <2>1, <2>3, <2>4 DEF ScanInv
<1>4. CASE ScanOpener
  <2> DEFINE r == IF ScanType = "LeftBracket" THEN Append(arrayReservations, NewHint)
                                              ELSE arrayReservations
             st == Append(scanStack, [type |-> ScanType,
                                      reservation |-> Len(arrayReservations) + 1])
  <2>1. pc = "scan" /\ scanAt <= Len(tokens) /\ ScanOn(r, st)
    BY <1>4 DEF ScanOpener
  <2>2. Reserves(tokens, arrayReservations, n) /\ StackOpen(tokens, scanStack, n)
    BY <2>1 DEF ScanInv
  <2>3. ScanType \in Openers /\ tokens[n + 1].type = ScanType
    BY <1>1, <1>4 DEF ScanOpener, ScanType
  <2>4. scanAt < Len(tokens)
    BY <2>1, <2>3 DEF Inv, EofInv, TypeInv, ScanType, Openers
  <2>5. /\ NewHint \in Hints /\ NewHint.at = n + 1
        /\ NewHint.size = IF tokens[n + 2].type = "RightBracket" THEN 0 ELSE 1
    BY <1>1, <2>4 DEF NewHint, Hints
  <2>6. r = IF ScanType = "LeftBracket" THEN Append(arrayReservations, NewHint)
                                        ELSE arrayReservations
    OBVIOUS
  <2> HIDE DEF r, n
  <2>7. Reserves(tokens, r, n + 1) /\ StackOpen(tokens, st, n + 1)
    BY <1>1, <2>2, <2>3, <2>5, <2>6, ScannedOpener
  <2> HIDE DEF st
  <2> QED
    BY <1>2, <2>1, <2>7
<1>5. CASE ScanCloser
  <2>1. pc = "scan" /\ ScanOn(arrayReservations, Front(scanStack)) /\ scanStack # <<>>
    BY <1>5 DEF ScanCloser, ScanMatches
  <2>2. Reserves(tokens, arrayReservations, n) /\ StackOpen(tokens, scanStack, n)
    BY <2>1 DEF ScanInv
  <2>3. tokens[n + 1].type \in Closers
    BY <1>1, <1>5 DEF ScanCloser, ScanType
  <2> HIDE DEF n
  <2>4. Reserves(tokens, arrayReservations, n + 1)
          /\ StackOpen(tokens, Front(scanStack), n + 1)
    BY <1>1, <2>1, <2>2, <2>3, ScannedCloser
  <2> QED
    BY <1>2, <2>1, <2>4
<1>6. CASE ScanComma
  <2> DEFINE r == [arrayReservations EXCEPT ![ScanTop.reservation].size = @ + 1]
  <2>1. /\ pc = "scan" /\ ScanOn(r, scanStack) /\ scanStack # <<>>
        /\ scanStack[Len(scanStack)].type = "LeftBracket"
        /\ ScanTop.reservation = scanStack[Len(scanStack)].reservation
    BY <1>6 DEF ScanComma, ScanInArray, ScanTop, Last
  <2>2. Reserves(tokens, arrayReservations, n) /\ StackOpen(tokens, scanStack, n)
    BY <2>1 DEF ScanInv
  <2>3. tokens[n + 1].type = "Comma"
    BY <1>1, <1>6 DEF ScanComma, ScanType
  <2> HIDE DEF n
  <2>4. Reserves(tokens, r, n + 1) /\ StackOpen(tokens, scanStack, n + 1)
    BY <1>1, <2>1, <2>2, <2>3, ScannedComma
  <2> HIDE DEF r
  <2> QED
    BY <1>2, <2>1, <2>4
<1>7. CASE ScanOther
  <2>1. /\ pc = "scan" /\ ScanOn(arrayReservations, scanStack)
    BY <1>7 DEF ScanOther
  <2>2. Reserves(tokens, arrayReservations, n) /\ StackOpen(tokens, scanStack, n)
    BY <2>1 DEF ScanInv
  <2>3. /\ tokens[n + 1].type \notin Openers \cup Closers
        /\ ~(/\ tokens[n + 1].type = "Comma" /\ scanStack # <<>>
             /\ scanStack[Len(scanStack)].type = "LeftBracket")
    BY <1>1, <1>7 DEF ScanOther, ScanType, ScanInArray, ScanTop, Last
  <2> HIDE DEF n
  <2>4. Reserves(tokens, arrayReservations, n + 1) /\ StackOpen(tokens, scanStack, n + 1)
    BY <1>1, <2>2, <2>3, ScannedOther
  <2> QED
    BY <1>2, <2>1, <2>4
<1>8. CASE UNCHANGED vars
  BY <1>8 DEF vars, ScanInv
<1>9. CASE pc' \notin {"construct", "scan"}
  BY <1>9 DEF ScanInv
<1>10. \/ Construct \/ ScanOpener \/ ScanCloser \/ ScanComma \/ ScanOther \/ UNCHANGED vars
       \/ pc' \notin {"construct", "scan"}
  <2>1. CASE RejectStream \/ ScanGiveUp \/ ScanEnd
    <3>1. ASSUME NEW r, ScanReturn(r) PROVE pc' = "value"
      BY <3>1 DEF ScanReturn
    <3>2. CASE RejectStream
      <4>1. ASSUME NEW why, NEW at, Fail(why, at) PROVE pc' \notin {"construct", "scan"}
        BY <4>1 DEF Fail, Throw
      <4> QED
        BY <3>2, <4>1, Zenon DEF RejectStream
    <3>3. CASE ScanGiveUp
      BY <3>1, <3>3 DEF ScanGiveUp
    <3>4. CASE ScanEnd
      BY <3>1, <3>4 DEF ScanEnd
    <3> QED
      BY <2>1, <3>2, <3>3, <3>4
  <2>2. CASE \/ ParseLiteral \/ ParseString \/ ParseNumber \/ RejectValue
             \/ RejectDepth \/ EnterObject \/ EnterArray
    BY <2>2 DEF ParseLiteral, ParseString, ParseNumber, RejectValue, RejectDepth,
      EnterObject, EnterArray, Enter, Return, Fail, Throw
  <2>3. CASE CloseEmpty \/ EnterBody \/ ParseKey \/ CloseContainer \/ NextElement
    BY <2>3 DEF CloseEmpty, EnterBody, ParseKey, CloseContainer, NextElement, Leave,
      Return, Advance, Fail, Throw
  <2>4. CASE RejectSeparator \/ Finish \/ RejectTrailing
    BY <2>4 DEF RejectSeparator, Finish, RejectTrailing, Advance, Fail, Throw
  <2> QED
    BY <2>1, <2>2, <2>3, <2>4 DEF Next, Parse, Ended
<1> QED
  BY <1>3, <1>4, <1>5, <1>6, <1>7, <1>8, <1>9, <1>10

-----------------------------------------------------------------------------
(* The parser, action by action.                                           *)

Aligned(ts, res, next, fr, n, at) ==
  /\ Reserves(ts, res, Len(ts))
  /\ next = Brackets(ts, n) + 1
  /\ \A i \in 1..Len(fr) : ~(at = "open" /\ i = Len(fr)) => FrameOpen(ts, fr[i], i, n, FALSE)
  /\ at = "open" => FrameOpen(ts, fr[Len(fr)], Len(fr), n, TRUE)

AlignInv ==
  Running /\ arrayReservations # <<>> =>
    Aligned(tokens, arrayReservations, nextArrayReservation, frames, current - 1, pc)

\* A token that opens nothing, closes nothing and separates nothing.
LEMMA AlignedPlain ==
  ASSUME NEW ts, NEW fr, IsSeq(fr), NEW n \in Nat,
         ts[n + 1].type \notin Openers \cup Closers \cup {"Comma"},
         Depth(ts, n) = Len(fr),
         \A i \in 1..Len(fr) : FrameOpen(ts, fr[i], i, n, FALSE)
  PROVE  /\ Brackets(ts, n + 1) = Brackets(ts, n)
         /\ \A i \in 1..Len(fr) : FrameOpen(ts, fr[i], i, n + 1, FALSE)
         /\ Depth(ts, n + 1) = Len(fr)
<1>1. Depth(ts, n + 1) = Len(fr) /\ Len(fr) \in Nat
  BY DepthStep, SeqLen
<1>2. Brackets(ts, n + 1) = Brackets(ts, n)
  <2>1. ts[n + 1].type # "LeftBracket"
    BY DEF Openers
  <2> QED
    BY <2>1, BracketsStep
<1>3. ASSUME NEW i \in 1..Len(fr) PROVE FrameOpen(ts, fr[i], i, n + 1, FALSE)
  <2>1. i \in Int /\ Depth(ts, n + 1) >= i /\ ts[n + 1].type # "Comma"
    BY <1>1
  <2> QED
    BY <2>1, FrameStep
<1> QED
  BY <1>1, <1>2, <1>3

\* The hint the parser takes at a bracket is the bracket's own.
LEMMA TakesOwnHint ==
  ASSUME NEW ts, NEW res \in Seq(Hints), NEW n \in Nat, NEW next,
         Len(ts) \in Nat, n < Len(ts), ts[n + 1].type = "LeftBracket",
         Reserves(ts, res, Len(ts)), next = Brackets(ts, n) + 1
  PROVE  /\ next \in 1..Len(res)
         /\ res[next].at = n + 1
         /\ res[next].size = HintFor(ts, n + 1, Len(ts))
<1>1. Brackets(ts, n) \in Nat /\ Brackets(ts, n + 1) = next
  BY BracketsStep
<1>2. Brackets(ts, n + 1) <= Brackets(ts, Len(ts))
  BY CountGrows DEF Brackets
<1>3. Brackets(ts, Len(ts)) = Len(res) /\ Len(res) \in Nat
  BY LenProperties DEF Reserves
<1>4. next \in 1..Len(res)
  BY <1>1, <1>2, <1>3
<1>5. Reserved(ts, res[next], next, Len(ts))
  BY <1>4 DEF Reserves
<1>6. res[next].at = n + 1
  <2>1. res[next].at \in Nat \ {0} /\ n + 1 \in Nat \ {0}
    BY <1>5 DEF Reserved
  <2> QED
    BY <1>1, <1>5, <2>1, BracketsTell DEF Reserved
<1> QED
  BY <1>4, <1>5, <1>6 DEF Reserved

\* Entering a container.
LEMMA AlignedEnter ==
  ASSUME NEW ts, NEW fr, IsSeq(fr), NEW n \in Nat, NEW f, f.type \in Openers,
         ts[n + 1].type = f.type, Depth(ts, n) = Len(fr),
         \A i \in 1..Len(fr) : FrameOpen(ts, fr[i], i, n, FALSE),
         f.type = "LeftBracket" =>
           f.capacity = HintFor(ts, n + 1, Len(ts)) /\ f.elements = <<>>,
         NEW fr2, fr2 = Append(fr, f)
  PROVE  /\ Brackets(ts, n + 1) =
              Brackets(ts, n) + (IF f.type = "LeftBracket" THEN 1 ELSE 0)
         /\ \A i \in 1..Len(fr2) : i # Len(fr2) => FrameOpen(ts, fr2[i], i, n + 1, FALSE)
         /\ FrameOpen(ts, fr2[Len(fr2)], Len(fr2), n + 1, TRUE)
<1>1. /\ Len(fr2) = Len(fr) + 1 /\ fr2[Len(fr) + 1] = f /\ Len(fr) \in Nat
      /\ \A i \in 1..Len(fr) : fr2[i] = fr[i]
  BY SeqAppend, SeqLen
<1>2. Depth(ts, n + 1) = Len(fr) + 1
  BY <1>1, DepthStep
<1>3. Brackets(ts, n + 1) = Brackets(ts, n) + (IF f.type = "LeftBracket" THEN 1 ELSE 0)
  BY BracketsStep
<1>4. ASSUME NEW i \in 1..Len(fr) PROVE FrameOpen(ts, fr[i], i, n + 1, FALSE)
  <2>1. i \in Int /\ Depth(ts, n + 1) >= i /\ ts[n + 1].type # "Comma"
    BY <1>1, <1>2 DEF Openers
  <2> QED
    BY <2>1, FrameStep
<1>5. ASSUME NEW i \in 1..Len(fr2), i # Len(fr2)
      PROVE  FrameOpen(ts, fr2[i], i, n + 1, FALSE)
  <2>1. i \in 1..Len(fr)
    BY <1>1, <1>5
  <2>2. fr2[i] = fr[i]
    BY <1>1, <2>1
  <2> QED
    BY <1>4, <2>1, <2>2
<1>6. FrameOpen(ts, f, Depth(ts, n) + 1, n + 1, TRUE)
  BY FrameEnter
<1> QED
  BY <1>1, <1>3, <1>5, <1>6

\* Leaving a container: what lies below stays open.
LEMMA AlignedLeave ==
  ASSUME NEW ts, NEW fr, IsSeq(fr), fr # <<>>, NEW n \in Nat,
         ts[n + 1].type \in Closers, Depth(ts, n) = Len(fr),
         \A i \in 1..Len(fr) : i # Len(fr) => FrameOpen(ts, fr[i], i, n, FALSE)
  PROVE  /\ Brackets(ts, n + 1) = Brackets(ts, n)
         /\ \A i \in 1..Len(Front(fr)) : FrameOpen(ts, Front(fr)[i], i, n + 1, FALSE)
<1>1. /\ Len(fr) \in Nat \ {0} /\ Len(Front(fr)) = Len(fr) - 1
      /\ \A i \in 1..(Len(fr) - 1) : Front(fr)[i] = fr[i]
  BY SeqLen, SeqFront
<1>2. Depth(ts, n + 1) = Len(fr) - 1
  BY <1>1, DepthStep
<1>3. Brackets(ts, n + 1) = Brackets(ts, n)
  <2>1. ts[n + 1].type # "LeftBracket"
    BY DEF Closers
  <2> QED
    BY <2>1, BracketsStep
<1>4. ASSUME NEW i \in 1..(Len(fr) - 1) PROVE FrameOpen(ts, fr[i], i, n + 1, FALSE)
  <2>1. /\ i \in 1..Len(fr) /\ i # Len(fr) /\ i \in Int /\ Depth(ts, n + 1) >= i
        /\ ts[n + 1].type # "Comma"
    BY <1>1, <1>2 DEF Closers
  <2> QED
    BY <2>1, FrameStep
<1> QED
  BY <1>1, <1>3, <1>4

\* A separator: the innermost activation takes an element.
LEMMA AlignedComma ==
  ASSUME NEW ts, NEW fr, IsSeq(fr), fr # <<>>, NEW n \in Nat,
         ts[n + 1].type = "Comma", Depth(ts, n) = Len(fr),
         \A i \in 1..Len(fr) : FrameOpen(ts, fr[i], i, n, FALSE),
         NEW fr2, Len(fr2) = Len(fr),
         \A i \in 1..Len(fr) : i # Len(fr) => fr2[i] = fr[i],
         Stores(fr[Len(fr)], fr2[Len(fr)])
  PROVE  /\ Brackets(ts, n + 1) = Brackets(ts, n)
         /\ \A i \in 1..Len(fr2) : FrameOpen(ts, fr2[i], i, n + 1, FALSE)
<1>1. Len(fr) \in Nat \ {0}
  BY SeqLen
<1>2. Depth(ts, n + 1) = Len(fr)
  BY DepthStep DEF Openers, Closers
<1>3. Brackets(ts, n + 1) = Brackets(ts, n)
  <2>1. /\ Brackets(ts, n) \in Nat
        /\ Brackets(ts, n + 1) =
             Brackets(ts, n) + (IF ts[n + 1].type = "LeftBracket" THEN 1 ELSE 0)
    BY BracketsStep
  <2> QED
    BY <2>1
<1>4. ASSUME NEW i \in 1..Len(fr), i # Len(fr) PROVE FrameOpen(ts, fr[i], i, n + 1, FALSE)
  <2>1. i \in Int /\ Depth(ts, n + 1) >= i /\ Depth(ts, n) # i
    BY <1>1, <1>2, <1>4
  <2> QED
    BY <2>1, FrameStep
<1>5. FrameOpen(ts, fr2[Len(fr)], Len(fr), n + 1, FALSE)
  <2>1. Len(fr) \in 1..Len(fr) /\ Len(fr) \in Int
    BY <1>1
  <2>2. FrameOpen(ts, fr[Len(fr)], Len(fr), n, FALSE)
    BY <2>1
  <2> QED
    BY <2>1, <2>2, FrameComma
<1>6. \A i \in 1..Len(fr) : FrameOpen(ts, fr2[i], i, n + 1, FALSE)
  BY <1>4, <1>5
<1> QED
  BY <1>3, <1>6

\* The parser reads its tokens and never writes them.
LEMMA TokensStay ==
  ASSUME [Next]_vars
  PROVE  tokens' = tokens
<1>1. ASSUME NEW why, NEW at, Fail(why, at) PROVE tokens' = tokens
  BY <1>1 DEF Fail, Throw
<1>2. CASE RejectStream
  BY <1>1, <1>2, Zenon DEF RejectStream
<1>3. CASE Construct \/ ScanGiveUp \/ ScanOpener \/ ScanCloser
  BY <1>3 DEF Construct, ScanGiveUp, ScanOpener, ScanCloser, ScanOn, ScanReturn
<1>4. CASE ScanComma \/ ScanOther \/ ScanEnd
  BY <1>4 DEF ScanComma, ScanOther, ScanEnd, ScanOn, ScanReturn
<1>5. CASE ParseLiteral \/ ParseString \/ ParseNumber \/ RejectValue \/ RejectDepth
  BY <1>5 DEF ParseLiteral, ParseString, ParseNumber, RejectValue, RejectDepth,
    Return, Fail, Throw
<1>6. CASE EnterObject \/ EnterArray \/ CloseEmpty \/ EnterBody \/ ParseKey
  BY <1>6 DEF EnterObject, EnterArray, Enter, CloseEmpty, EnterBody, ParseKey, Leave,
    Return, Advance, Fail, Throw
<1>7. CASE \/ CloseContainer \/ NextElement \/ RejectSeparator \/ Finish \/ RejectTrailing
  BY <1>7 DEF CloseContainer, NextElement, RejectSeparator, Finish, RejectTrailing,
    Leave, Return, Advance, Fail, Throw
<1>8. CASE Ended \/ UNCHANGED vars
  BY <1>8 DEF Ended, vars
<1> QED
  BY <1>2, <1>3, <1>4, <1>5, <1>6, <1>7, <1>8 DEF Next, Parse

\* An activation is known by its type, and an array by its hint and elements.
LEMMA FrameSame ==
  ASSUME NEW ts, NEW f, NEW g, NEW i, NEW n, FrameOpen(ts, f, i, n, FALSE),
         g.type = f.type,
         f.type = "LeftBracket" => g.capacity = f.capacity /\ g.elements = f.elements
  PROVE  FrameOpen(ts, g, i, n, FALSE)
BY DEF FrameOpen

\* Reading a key changes neither.
LEMMA KeyFrame ==
  ASSUME NEW f, Frame(f), NEW key
  PROVE  /\ [f EXCEPT !.key = key].type = f.type
         /\ f.type = "LeftBracket" =>
              /\ [f EXCEPT !.key = key].capacity = f.capacity
              /\ [f EXCEPT !.key = key].elements = f.elements
<1>1. CASE ObjectFrame(f)
  BY <1>1 DEF ObjectFrame
<1>2. CASE ArrayFrame(f)
  BY <1>2 DEF ArrayFrame
<1> QED
  BY <1>1, <1>2

LEMMA AlignStep ==
  ASSUME Inv, Inv', NestInv, ScanInv, AlignInv, [Next]_vars
  PROVE  AlignInv'
<1> DEFINE n == current - 1
           res == arrayReservations
           next == nextArrayReservation
<1> SUFFICES ASSUME Running', res' # <<>>
             PROVE  Aligned(tokens', res', next', frames', current' - 1, pc')
  BY DEF AlignInv
<1>1. tokens' = tokens
  BY TokensStay
<1>2. ASSUME Running
      PROVE  /\ n \in Nat /\ current = n + 1 /\ (current + 1) - 1 = n + 1
             /\ (current + 2) - 1 = (n + 1) + 1
             /\ Len(tokens) \in Nat /\ n < Len(tokens)
             /\ IsSeq(frames) /\ Depth(tokens, n) = Len(frames)
             /\ tokens[n + 1].type = Peek
             /\ res \in Seq(Hints)
  <2>1. current \in 1..Len(tokens) /\ tokens \in Seq(Token)
    BY <1>2 DEF Inv, TypeInv, ControlInv
  <2>2. /\ n \in Nat /\ current = n + 1 /\ (current + 1) - 1 = n + 1
        /\ (current + 2) - 1 = (n + 1) + 1
        /\ Len(tokens) \in Nat /\ n < Len(tokens)
    BY <2>1
  <2>3. IsSeq(frames) /\ currentDepth = Len(frames) /\ Len(frames) \in Nat
          /\ res \in Seq(Hints)
    BY SeqLen DEF Inv, TypeInv, DepthInv
  <2>4. /\ CountOf(tokens, Openers, n) \in Nat /\ CountOf(tokens, Closers, n) \in Nat
        /\ CountOf(tokens, Openers, n) = CountOf(tokens, Closers, n) + Len(frames)
    BY <1>2, <2>2, <2>3, CountStep DEF NestInv, Balanced
  <2>5. Depth(tokens, n) = Len(frames)
    BY <2>3, <2>4 DEF Depth
  <2> QED
    BY <2>2, <2>3, <2>5 DEF Peek
<1>3. ASSUME Running, res' = res
      PROVE  /\ Reserves(tokens, res, Len(tokens))
             /\ next = Brackets(tokens, n) + 1
             /\ pc # "open" => \A i \in 1..Len(frames) : FrameOpen(tokens, frames[i], i, n, FALSE)
             /\ pc = "open" => FrameOpen(tokens, frames[Len(frames)], Len(frames), n, TRUE)
             /\ \A i \in 1..Len(frames) : i # Len(frames) => FrameOpen(tokens, frames[i], i, n, FALSE)
  BY <1>3 DEF AlignInv, Aligned
<1>4. CASE ScanEnd \/ ScanGiveUp \/ Construct
  <2>1. ASSUME NEW r, ScanReturn(r), pc = "scan"
        PROVE  current' = 1 /\ frames' = <<>> /\ next' = 1 /\ res' = r /\ pc' = "value"
    BY <2>1 DEF ScanReturn, Inv, ControlInv
  <2>2. ScanEnd \/ pc' = "scan" \/ res' = <<>>
    <3>1. ASSUME NEW r, ScanReturn(r) PROVE res' = r
      BY <3>1 DEF ScanReturn
    <3>2. CASE ScanGiveUp
      BY <3>1, <3>2 DEF ScanGiveUp
    <3>3. CASE Construct
      BY <3>3 DEF Construct, ScanInv, hints
    <3> QED
      BY <1>4, <3>2, <3>3
  <2>3. ScanEnd
    BY <2>2 DEF Running
  <2>4. /\ pc = "scan" /\ scanAt > Len(tokens)
        /\ ScanReturn(IF scanStack = <<>> THEN res ELSE <<>>)
    BY <2>3 DEF ScanEnd
  <2>5. /\ current' = 1 /\ frames' = <<>> /\ next' = 1 /\ res' = res /\ pc' = "value"
    BY <2>1, <2>4
  <2>6. scanAt - 1 = Len(tokens)
    <3>1. scanAt \in 1..(Len(tokens) + 1) /\ Len(tokens) \in Nat
      BY DEF Inv, TypeInv
    <3> QED
      BY <2>4, <3>1
  <2>7. Reserves(tokens, res, Len(tokens))
    BY <2>4, <2>6 DEF ScanInv
  <2>8. Brackets(tokens, 0) = 0 /\ Len(<<>>) = 0
    BY CountZero, EmptyIsSeq DEF Brackets
  <2> QED
    BY <1>1, <2>5, <2>7, <2>8 DEF Aligned
<1>5. CASE ParseLiteral \/ ParseString \/ ParseNumber
  <2>1. /\ Running /\ pc = "value" /\ Peek \notin Openers \cup Closers \cup {"Comma"}
    BY <1>5 DEF Running, ParseLiteral, ParseString, ParseNumber, Literals, Openers, Closers
  <2>2. /\ current' = current + 1 /\ frames' = frames /\ res' = res /\ next' = next
        /\ pc' = "return"
    BY <1>5 DEF ParseLiteral, ParseString, ParseNumber, Return, Throw, Fail, Running, hints
  <2> HIDE DEF n
  <2>3. /\ Brackets(tokens, n + 1) = Brackets(tokens, n)
        /\ \A i \in 1..Len(frames) : FrameOpen(tokens, frames[i], i, n + 1, FALSE)
    BY <1>2, <1>3, <2>1, <2>2, AlignedPlain
  <2> QED
    BY <1>1, <1>2, <1>3, <2>1, <2>2, <2>3 DEF Aligned
<1>6. CASE EnterObject \/ EnterArray
  <2>1. /\ Running /\ pc = "value" /\ Peek \in Openers /\ res' = res /\ pc' = "open"
        /\ current' = current + 1
    BY <1>6 DEF EnterObject, EnterArray, Enter, Running, Openers, hints
  <2>2. PICK f : /\ frames' = Append(frames, f) /\ f.type = Peek
                 /\ f.type = "LeftBracket" =>
                      /\ EnterArray
                      /\ f.elements = <<>>
                      /\ f.capacity = IF HasHint THEN res[next].size ELSE 0
                 /\ f.type # "LeftBracket" => next' = next
    BY <1>6 DEF EnterObject, EnterArray, Enter
  <2>3. f.type = "LeftBracket" =>
          f.capacity = HintFor(tokens, n + 1, Len(tokens)) /\ next' = next + 1
    <3>1. SUFFICES ASSUME f.type = "LeftBracket"
                   PROVE  f.capacity = HintFor(tokens, n + 1, Len(tokens)) /\ next' = next + 1
      OBVIOUS
    <3>2. /\ next \in 1..Len(res) /\ res[next].at = n + 1
          /\ res[next].size = HintFor(tokens, n + 1, Len(tokens))
      BY <1>2, <1>3, <2>1, <2>2, <3>1, TakesOwnHint
    <3>3. HasHint
      BY <1>2, <2>1, <3>2 DEF HasHint
    <3> QED
      BY <2>2, <3>1, <3>2, <3>3 DEF EnterArray, AfterHint
  <2> HIDE DEF n
  <2>4. /\ Brackets(tokens, n + 1) =
             Brackets(tokens, n) + (IF f.type = "LeftBracket" THEN 1 ELSE 0)
        /\ \A i \in 1..Len(frames') :
             i # Len(frames') => FrameOpen(tokens, frames'[i], i, n + 1, FALSE)
        /\ FrameOpen(tokens, frames'[Len(frames')], Len(frames'), n + 1, TRUE)
    BY <1>2, <1>3, <2>1, <2>2, <2>3, AlignedEnter
  <2>5. Brackets(tokens, n) \in Nat
    BY <1>2, <2>1, BracketsStep
  <2>6. next' = Brackets(tokens, n + 1) + 1
    BY <1>3, <2>1, <2>2, <2>3, <2>4, <2>5
  <2> QED
    BY <1>1, <1>2, <1>3, <2>1, <2>4, <2>6 DEF Aligned
<1>7. CASE CloseEmpty \/ CloseContainer
  <2>1. /\ Running /\ frames # <<>> /\ Peek \in Closers /\ res' = res /\ next' = next
        /\ current' = current + 1 /\ frames' = Front(frames) /\ pc' = "return"
    BY <1>7 DEF CloseEmpty, CloseContainer, Leave, Return, CloserOf, Running, Closers,
      hints, Inv, ControlInv
  <2> HIDE DEF n
  <2>2. /\ Brackets(tokens, n + 1) = Brackets(tokens, n)
        /\ \A i \in 1..Len(frames') : FrameOpen(tokens, frames'[i], i, n + 1, FALSE)
    BY <1>2, <1>3, <2>1, AlignedLeave
  <2> QED
    BY <1>1, <1>2, <1>3, <2>1, <2>2 DEF Aligned
<1>8. CASE EnterBody
  <2>1. /\ Running /\ pc = "open" /\ res' = res /\ next' = next /\ current' = current
        /\ frames' = frames /\ pc' # "open" /\ frames # <<>>
        /\ Top.type = "LeftBracket" => Peek # "RightBracket"
    BY <1>8 DEF EnterBody, Advance, Running, hints, CloserOf, Inv, ControlInv
  <2>2. Top = frames[Len(frames)]
    BY <2>1, TopFrame
  <2>3. FrameOpen(tokens, frames[Len(frames)], Len(frames), n, FALSE)
    <3> HIDE DEF n
    <3> QED
      BY <1>2, <1>3, <2>1, <2>2, FrameEntered
  <2>4. \A i \in 1..Len(frames) : FrameOpen(tokens, frames[i], i, n, FALSE)
    BY <1>3, <2>1, <2>3
  <2> QED
    BY <1>1, <1>3, <2>1, <2>4 DEF Aligned
<1>9. CASE ParseKey
  <2>1. /\ Running /\ pc = "key" /\ frames # <<>> /\ Peek = "String"
        /\ tokens[current + 1].type = "Colon" /\ res' = res /\ next' = next
        /\ current' = current + 2 /\ pc' = "value"
    BY <1>9 DEF ParseKey, Advance, Fail, Throw, Running, hints, Inv, ControlInv
  <2>2. PICK g : /\ frames' = SetTop(g)
                 /\ g.type = Top.type
                 /\ Top.type = "LeftBracket" =>
                      g.capacity = Top.capacity /\ g.elements = Top.elements
    <3>1. PICK key : frames' = SetTop([Top EXCEPT !.key = key])
      BY <1>9, <2>1 DEF ParseKey, Fail, Throw
    <3> DEFINE f == Top
               h == [f EXCEPT !.key = key]
    <3>2. Frame(f) /\ frames' = SetTop(h)
      BY <2>1, <3>1, TopFrame, Zenon
    <3> HIDE DEF f
    <3>3. h.type = f.type
            /\ (f.type = "LeftBracket" => h.capacity = f.capacity /\ h.elements = f.elements)
      BY <3>2, KeyFrame
    <3> HIDE DEF h
    <3> QED
      BY <3>2, <3>3, Zenon DEF f
  <2> DEFINE f == Top
             fr == frames'
  <2>3. IsSeq(frames) /\ f = frames[Len(frames)]
    BY <2>1, TopFrame DEF Inv, TypeInv
  <2>4. /\ g.type = f.type
        /\ f.type = "LeftBracket" => g.capacity = f.capacity /\ g.elements = f.elements
    BY <2>2
  <2>5. /\ IsSeq(fr) /\ Len(fr) = Len(frames)
        /\ \A i \in 1..Len(frames) : fr[i] = IF i = Len(frames) THEN g ELSE frames[i]
    <3>1. fr = [frames EXCEPT ![Len(frames)] = g]
      BY <2>2, Zenon DEF SetTop
    <3>2. IsSeq(frames) /\ frames # <<>>
      BY <2>1, <2>3
    <3> HIDE DEF f, fr
    <3> QED
      BY <3>1, <3>2, SeqSetTop
  <2>6. ASSUME NEW i \in 1..Len(fr) PROVE FrameOpen(tokens, fr[i], i, n, FALSE)
    <3>1. FrameOpen(tokens, frames[i], i, n, FALSE)
      BY <1>3, <2>1, <2>5
    <3>2. CASE i = Len(frames)
      <4> HIDE DEF f, n
      <4> QED
        BY <2>3, <2>4, <2>5, <3>1, <3>2, FrameSame
    <3>3. CASE i # Len(frames)
      BY <2>5, <3>1, <3>3
    <3> QED
      BY <3>2, <3>3
  <2> HIDE DEF f, n, fr
  <2>7. /\ Brackets(tokens, n + 1) = Brackets(tokens, n)
        /\ \A i \in 1..Len(fr) : FrameOpen(tokens, fr[i], i, n + 1, FALSE)
        /\ Depth(tokens, n + 1) = Len(fr)
    <3>1. tokens[n + 1].type \notin Openers \cup Closers \cup {"Comma"}
      BY <1>2, <2>1 DEF Openers, Closers
    <3> QED
      BY <1>2, <2>1, <2>5, <2>6, <3>1, AlignedPlain
  <2>8. /\ Brackets(tokens, (n + 1) + 1) = Brackets(tokens, n + 1)
        /\ \A i \in 1..Len(fr) : FrameOpen(tokens, fr[i], i, (n + 1) + 1, FALSE)
    <3>1. n + 1 \in Nat /\ current + 1 = (n + 1) + 1
      <4>1. Running
        BY <2>1
      <4>2. n \in Nat /\ current = n + 1
        BY <1>2, <4>1
      <4> QED
        BY <4>2
    <3>2. tokens[(n + 1) + 1].type \notin Openers \cup Closers \cup {"Comma"}
      BY <2>1, <3>1 DEF Openers, Closers
    <3> QED
      BY <2>5, <2>7, <3>1, <3>2, AlignedPlain
  <2> QED
    BY <1>1, <1>2, <1>3, <2>1, <2>7, <2>8 DEF Aligned, fr
<1>10. CASE NextElement
  <2>1. /\ Running /\ pc = "return" /\ frames # <<>> /\ Peek = "Comma"
        /\ frames' = SetTop(Stored) /\ res' = res /\ next' = next
        /\ current' = current + 1 /\ pc' # "open"
    BY <1>10 DEF NextElement, Advance, Running, hints
  <2> DEFINE f == Top
             g == Stored
  <2>2. IsSeq(frames) /\ f = frames[Len(frames)] /\ Frame(f) /\ Len(frames) \in 1..Len(frames)
    BY <2>1, TopFrame DEF Inv, TypeInv
  <2>3. g.type = f.type
    BY <2>1, StoredFrame
  <2>4. f.type = "LeftBracket" =>
          /\ g.capacity = f.capacity
          /\ IsSeq(f.elements) =>
               IsSeq(g.elements) /\ Len(g.elements) = Len(f.elements) + 1
    <3>1. SUFFICES ASSUME f.type = "LeftBracket"
                   PROVE  /\ g.capacity = f.capacity
                          /\ IsSeq(f.elements) => /\ IsSeq(g.elements)
                                                  /\ Len(g.elements) = Len(f.elements) + 1
      OBVIOUS
    <3>2. ArrayFrame(Top)
      BY <2>2, <3>1 DEF ObjectFrame
    <3>3. g.capacity = f.capacity /\ g.elements = Append(f.elements, ret)
      BY <3>1, <3>2 DEF Stored, ArrayFrame
    <3> HIDE DEF f, g
    <3> QED
      BY <3>3, SeqAppend
  <2>5. /\ Len(frames') = Len(frames)
        /\ \A i \in 1..Len(frames) : frames'[i] = IF i = Len(frames) THEN g ELSE frames[i]
    <3> HIDE DEF f, g
    <3> QED
      BY <2>1, <2>2, SeqSetTop DEF SetTop, g
  <2> HIDE DEF f, g, n
  <2>6. /\ \A i \in 1..Len(frames) : i # Len(frames) => frames'[i] = frames[i]
        /\ frames'[Len(frames)] = g
    BY <2>2, <2>5
  <2>7. /\ Brackets(tokens, n + 1) = Brackets(tokens, n)
        /\ \A i \in 1..Len(frames') : FrameOpen(tokens, frames'[i], i, n + 1, FALSE)
    <3>1. tokens[n + 1].type = "Comma" /\ n \in Nat /\ Depth(tokens, n) = Len(frames)
      BY <1>2, <2>1
    <3>2. \A i \in 1..Len(frames) : FrameOpen(tokens, frames[i], i, n, FALSE)
      BY <1>3, <2>1
    <3> DEFINE fr == frames
               fr2 == frames'
    <3>3. /\ Len(fr2) = Len(fr) /\ f = fr[Len(fr)] /\ g = fr2[Len(fr)]
          /\ \A i \in 1..Len(fr) : i # Len(fr) => fr2[i] = fr[i]
      BY <2>2, <2>5, <2>6
    <3>4. IsSeq(fr) /\ fr # <<>> /\ Depth(tokens, n) = Len(fr)
            /\ \A i \in 1..Len(fr) : FrameOpen(tokens, fr[i], i, n, FALSE)
      BY <2>1, <2>2, <3>1, <3>2
    <3> HIDE DEF fr, fr2
    <3>5. /\ Brackets(tokens, n + 1) = Brackets(tokens, n)
          /\ \A i \in 1..Len(fr2) : FrameOpen(tokens, fr2[i], i, n + 1, FALSE)
      <4>1. /\ IsSeq(fr) /\ fr # <<>> /\ n \in Nat /\ tokens[n + 1].type = "Comma"
            /\ Depth(tokens, n) = Len(fr) /\ Len(fr2) = Len(fr)
            /\ \A i \in 1..Len(fr) : FrameOpen(tokens, fr[i], i, n, FALSE)
            /\ \A i \in 1..Len(fr) : i # Len(fr) => fr2[i] = fr[i]
        BY <3>1, <3>3, <3>4
      <4>2. Stores(fr[Len(fr)], fr2[Len(fr)])
        BY <2>3, <2>4, <3>3 DEF Stores
      <4> QED
        BY <4>1, <4>2, AlignedComma
    <3> QED
      BY <3>5 DEF fr2
  <2> QED
    BY <1>1, <1>2, <1>3, <2>1, <2>7 DEF Aligned
<1>11. CASE \/ RejectStream \/ RejectValue \/ RejectDepth \/ RejectSeparator
            \/ Finish \/ RejectTrailing
  <2>1. ASSUME NEW why, NEW at, Fail(why, at) PROVE FALSE
    BY <2>1 DEF Fail, Throw, Running
  <2>2. CASE RejectStream
    BY <2>1, <2>2, Zenon DEF RejectStream
  <2>3. CASE RejectValue \/ RejectDepth \/ RejectSeparator \/ RejectTrailing
    BY <2>1, <2>3, Zenon DEF RejectValue, RejectDepth, RejectSeparator, RejectTrailing
  <2>4. CASE Finish
    BY <2>4 DEF Finish, Advance, Running
  <2> QED
    BY <1>11, <2>2, <2>3, <2>4
<1>12. CASE ScanOpener \/ ScanCloser \/ ScanComma \/ ScanOther
  BY <1>12 DEF ScanOpener, ScanCloser, ScanComma, ScanOther, ScanOn, Running
<1>13. CASE Ended \/ UNCHANGED vars
  BY <1>13 DEF Ended, vars, AlignInv, Running
<1> QED
  BY <1>4, <1>5, <1>6, <1>7, <1>8, <1>9, <1>10, <1>11, <1>12, <1>13 DEF Next, Parse

\* What an array held when it closed.
LEMMA ExactStep ==
  ASSUME Inv, NestInv, AlignInv, [Next]_vars,
         Closing, Top.type = "LeftBracket", arrayReservations # <<>>
  PROVE  Top.capacity = Len(ret'.elements)
<1> DEFINE n == current - 1
<1>1. /\ Running /\ frames # <<>> /\ IsSeq(frames) /\ Len(frames) \in 1..Len(frames)
      /\ Top = frames[Len(frames)] /\ ArrayFrame(Top)
  <2>1. Running /\ frames # <<>>
    <3>1. IsSeq(frames) /\ IsSeq(frames')
      BY NextInv DEF Inv, TypeInv
    <3>2. Len(frames) \in Nat /\ Len(frames') \in Nat /\ Len(frames') < Len(frames)
      BY <3>1, SeqLen DEF Closing
    <3> QED
      BY <3>2, EmptyIsSeq DEF Closing, Running
  <2> QED
    BY <2>1, TopFrame DEF Inv, TypeInv, ObjectFrame
<1>2. /\ n \in Nat /\ current = n + 1 /\ Len(tokens) \in Nat /\ n < Len(tokens)
      /\ Depth(tokens, n) = Len(frames) /\ tokens[n + 1].type = Peek
  <2>1. current \in 1..Len(tokens) /\ tokens \in Seq(Token)
    BY <1>1 DEF Inv, TypeInv, ControlInv
  <2>2. n \in Nat /\ current = n + 1 /\ Len(tokens) \in Nat /\ n < Len(tokens)
    BY <2>1
  <2>3. currentDepth = Len(frames) /\ Len(frames) \in Nat
    BY <1>1, SeqLen DEF Inv, DepthInv
  <2>4. /\ CountOf(tokens, Openers, n) \in Nat /\ CountOf(tokens, Closers, n) \in Nat
        /\ CountOf(tokens, Openers, n) = CountOf(tokens, Closers, n) + Len(frames)
    BY <1>1, <2>2, <2>3, CountStep DEF NestInv, Balanced
  <2>5. Depth(tokens, n) = Len(frames)
    BY <2>3, <2>4 DEF Depth
  <2> QED
    BY <2>2, <2>5 DEF Peek
<1>3. /\ pc = "open" => FrameOpen(tokens, Top, Len(frames), n, TRUE)
      /\ pc # "open" => FrameOpen(tokens, Top, Len(frames), n, FALSE)
  BY <1>1 DEF AlignInv, Aligned
<1>4. CASE CloseEmpty
  <2>1. pc = "open" /\ Peek = "RightBracket" /\ ret' = ArrayValue(Top.elements)
    BY <1>4 DEF CloseEmpty, Leave, Return, ContainerValue, CloserOf
  <2> HIDE DEF n
  <2>2. Top.capacity = Len(Top.elements) /\ IsSeq(Top.elements)
    <3> DEFINE f == Top
               i == Len(frames)
    <3>1. /\ i \in Int /\ f.type = "LeftBracket" /\ Depth(tokens, n) = i
          /\ tokens[n + 1].type = "RightBracket" /\ FrameOpen(tokens, f, i, n, TRUE)
      <4>1. i \in Int /\ f.type = "LeftBracket"
        BY <1>1
      <4>2. Depth(tokens, n) = i /\ tokens[n + 1].type = "RightBracket"
        BY <1>2, <2>1
      <4>3. FrameOpen(tokens, f, i, n, TRUE)
        BY <1>3, <2>1
      <4> QED
        BY <4>1, <4>2, <4>3
    <3> HIDE DEF f, i
    <3>2. IsSeq(f.elements) /\ f.capacity = Len(f.elements)
      BY <1>2, <3>1, FrameClose
    <3> QED
      BY <3>2 DEF f
  <2> QED
    BY <2>1, <2>2 DEF ArrayValue
<1>5. CASE CloseContainer
  <2>1. /\ pc = "return" /\ Peek = "RightBracket" /\ Stored.type = "LeftBracket"
        /\ Stored.elements = Append(Top.elements, ret)
        /\ ret' = ArrayValue(Stored.elements)
    <3>1. Stored.type = "LeftBracket"
      BY <1>1, StoredFrame
    <3>2. Stored.elements = Append(Top.elements, ret)
      BY <1>1 DEF Stored, ArrayFrame
    <3>3. pc = "return" /\ Peek = "RightBracket" /\ ret' = ContainerValue(Stored)
      BY <1>5 DEF CloseContainer, Leave, Return, CloserOf
    <3> QED
      BY <3>1, <3>2, <3>3 DEF ContainerValue
  <2> HIDE DEF n
  <2>2. Top.capacity = Len(Top.elements) + 1 /\ IsSeq(Top.elements)
    <3> DEFINE f == Top
               i == Len(frames)
    <3>1. /\ i \in Int /\ f.type = "LeftBracket" /\ Depth(tokens, n) = i
          /\ tokens[n + 1].type = "RightBracket" /\ FrameOpen(tokens, f, i, n, FALSE)
      <4>1. i \in Int /\ f.type = "LeftBracket"
        BY <1>1
      <4>2. Depth(tokens, n) = i /\ tokens[n + 1].type = "RightBracket"
        BY <1>2, <2>1
      <4>3. FrameOpen(tokens, f, i, n, FALSE)
        BY <1>3, <2>1
      <4> QED
        BY <4>1, <4>2, <4>3
    <3> HIDE DEF f, i
    <3>2. IsSeq(f.elements) /\ f.capacity = Len(f.elements) + 1
      BY <1>2, <3>1, FrameClose
    <3> QED
      BY <3>2 DEF f
  <2>3. Len(Stored.elements) = Len(Top.elements) + 1
    BY <2>1, <2>2, SeqAppend
  <2> QED
    BY <2>1, <2>2, <2>3 DEF ArrayValue
<1>6. CloseEmpty \/ CloseContainer
  <2>1. Running /\ pc' = "return" /\ Len(frames') # Len(frames) /\ pc \in {"open", "return"}
    <3>1. IsSeq(frames) /\ IsSeq(frames')
      BY NextInv DEF Inv, TypeInv
    <3>2. Len(frames) \in Nat /\ Len(frames') \in Nat
      BY <3>1, SeqLen
    <3> QED
      BY <1>1, <3>2 DEF Closing
  <2>2. ASSUME NEW why, NEW at, Fail(why, at) PROVE FALSE
    BY <2>1, <2>2 DEF Fail, Throw
  <2>3. CASE RejectSeparator \/ RejectTrailing
    BY <2>2, <2>3, Zenon DEF RejectSeparator, RejectTrailing
  <2>4. CASE NextElement \/ EnterBody \/ Finish
    BY <2>1, <2>4 DEF NextElement, EnterBody, Finish, Advance
  <2>5. CASE Ended \/ UNCHANGED vars
    BY <2>1, <2>5 DEF Ended, vars
  <2>6. CASE \/ RejectStream \/ Construct \/ ScanGiveUp \/ ScanOpener \/ ScanCloser
             \/ ScanComma \/ ScanOther \/ ScanEnd
    <3>1. pc \in {"construct", "scan"}
      BY <2>6, Zenon DEF RejectStream, Construct, ScanGiveUp, ScanOpener, ScanCloser,
        ScanComma, ScanOther, ScanEnd
    <3> QED
      BY <2>1, <3>1
  <2>7. CASE \/ ParseLiteral \/ ParseString \/ ParseNumber \/ RejectValue
             \/ RejectDepth \/ EnterObject \/ EnterArray \/ ParseKey
    <3>1. pc \in {"value", "key"}
      BY <2>7, Zenon DEF ParseLiteral, ParseString, ParseNumber, RejectValue, RejectDepth,
        EnterObject, EnterArray, ParseKey
    <3> QED
      BY <2>1, <3>1
  <2> QED
    BY <2>3, <2>4, <2>5, <2>6, <2>7 DEF Next, Parse
<1> QED
  BY <1>4, <1>5, <1>6

\* Whatever the tokens and however arrays and objects nest: once hints have been
\* computed, the hint an array took is exactly the number of its elements.  The
\* scan and the parser count on their own; what they have in common is that the
\* hints are in the order of the brackets, that the stack of the one and the
\* activations of the other are the openers not yet closed, and that of these
\* only one has any given depth.
THEOREM HintsAreExact == Spec => HintsExact
<1>1. Init => NestInv /\ ScanInv /\ AlignInv
  BY DEF Init, NestInv, ScanInv, AlignInv, Running
<1>2. Inv /\ Inv' /\ NestInv /\ [Next]_vars => NestInv'
  BY NestStep
<1>3. Inv /\ ScanInv /\ [Next]_vars => ScanInv'
  BY ScanStep
<1>4. Inv /\ Inv' /\ NestInv /\ ScanInv /\ AlignInv /\ [Next]_vars => AlignInv'
  BY AlignStep
<1>5. Inv /\ NestInv /\ AlignInv /\ [Next]_vars
        => [Closing /\ Top.type = "LeftBracket" /\ arrayReservations # <<>>
              => Top.capacity = Len(ret'.elements)]_vars
  BY ExactStep
<1> QED
  BY <1>1, <1>2, <1>3, <1>4, <1>5, Invariance, PTL DEF Spec, HintsExact

-----------------------------------------------------------------------------
(* What SyntaxGrammar says of a stream, rule by rule.                       *)

\* Induction over the numbers.
LEMMA NatInduct ==
  ASSUME NEW S, 0 \in S, \A n \in Nat : n \in S => n + 1 \in S
  PROVE  Nat \subseteq S
<1> DEFINE T == Nat \ S
           R == OpToRel(<, Nat)
<1>1. SUFFICES ASSUME T # {} PROVE FALSE
  OBVIOUS
<1>2. IsWellFoundedOn(R, Nat) /\ T \subseteq Nat
  BY NatLessThanWellFounded
<1>3. PICK m \in T : \A k \in T : ~(<<k, m>> \in R)
  <2> HIDE DEF R, T
  <2> QED
    BY <1>1, <1>2, WFMin
<1>4. m # 0 /\ m \in Nat /\ m - 1 \in Nat /\ m - 1 < m
  OBVIOUS
<1>5. <<m - 1, m>> \in R
  BY <1>4 DEF OpToRel
<1>6. m - 1 \in S
  BY <1>3, <1>4, <1>5
<1>7. (m - 1) + 1 = m
  BY <1>4
<1> QED
  BY <1>4, <1>6, <1>7

\* The phrases up to a token are those up to the token before, and those that
\* end at it.
LEMMA PhrasesByDef ==
  ASSUME NEW ts, Len(ts) \in Nat
  PROVE  PhrasesBy(ts) =
           [k \in 0..Len(ts) |->
              IF k = 0 THEN {} ELSE PhrasesBy(ts)[k - 1] \cup Ending(ts, PhrasesBy(ts)[k - 1], k)]
<1> DEFINE n == Len(ts)
           S == {m \in Nat : \E f : f = [k \in 0..m |-> IF k = 0 THEN {} ELSE f[k - 1] \cup Ending(ts, f[k - 1], k)]}
<1>1. 0 \in S
  <2>1. LET f == [k \in 0..0 |-> {}]
        IN  f = [k \in 0..0 |-> IF k = 0 THEN {} ELSE f[k - 1] \cup Ending(ts, f[k - 1], k)]
    OBVIOUS
  <2> QED
    BY <2>1
<1>2. ASSUME NEW m \in Nat, m \in S PROVE m + 1 \in S
  <2>1. PICK f : f = [k \in 0..m |-> IF k = 0 THEN {} ELSE f[k - 1] \cup Ending(ts, f[k - 1], k)]
    BY <1>2
  <2> DEFINE g == [k \in 0..(m + 1) |-> IF k = m + 1 THEN f[m] \cup Ending(ts, f[m], m + 1) ELSE f[k]]
  <2>2. \A k \in 0..m : g[k] = f[k]
    OBVIOUS
  <2>3. ASSUME NEW k \in 0..(m + 1)
        PROVE  g[k] = IF k = 0 THEN {} ELSE g[k - 1] \cup Ending(ts, g[k - 1], k)
    <3>1. CASE k = m + 1
      <4>1. g[k] = f[m] \cup Ending(ts, f[m], k) /\ k # 0 /\ k - 1 = m
        BY <3>1
      <4> QED
        BY <4>1, <2>2
    <3>2. CASE k # m + 1
      <4>1. k \in 0..m /\ (k # 0 => k - 1 \in 0..m)
        BY <3>2
      <4>2. f[k] = IF k = 0 THEN {} ELSE f[k - 1] \cup Ending(ts, f[k - 1], k)
        BY <2>1, <4>1
      <4> QED
        BY <2>2, <4>1, <4>2
    <3> QED
      BY <3>1, <3>2
  <2>4. g = [k \in 0..(m + 1) |-> IF k = 0 THEN {} ELSE g[k - 1] \cup Ending(ts, g[k - 1], k)]
    <3> DEFINE h == [k \in 0..(m + 1) |-> IF k = 0 THEN {} ELSE g[k - 1] \cup Ending(ts, g[k - 1], k)]
    <3>1. \A k \in 0..(m + 1) : g[k] = h[k]
      <4> HIDE DEF g
      <4> QED
        BY <2>3
    <3>2. g = [k \in 0..(m + 1) |-> g[k]] /\ h = [k \in 0..(m + 1) |-> h[k]]
      OBVIOUS
    <3> HIDE DEF g, h
    <3>3. g = h
      BY <3>1, <3>2
    <3> QED
      BY <3>3 DEF h
  <2> HIDE DEF g
  <2> QED
    BY <2>4
<1>3. \E f : f = [k \in 0..n |-> IF k = 0 THEN {} ELSE f[k - 1] \cup Ending(ts, f[k - 1], k)]
  <2>1. Nat \subseteq S
    <3> HIDE DEF S
    <3> QED
      BY <1>1, <1>2, NatInduct
  <2> QED
    BY <2>1
<1> QED
  BY <1>3 DEF PhrasesBy

LEMMA PhrasesAt ==
  ASSUME NEW ts \in Seq(Token), NEW n \in 1..Len(ts)
  PROVE  /\ PhrasesBy(ts)[0] = {}
         /\ n - 1 \in 0..Len(ts)
         /\ PhrasesBy(ts)[n] = PhrasesBy(ts)[n - 1] \cup Ending(ts, PhrasesBy(ts)[n - 1], n)
<1>1. Len(ts) \in Nat /\ 0 \in 0..Len(ts) /\ n \in 0..Len(ts) /\ n # 0 /\ n - 1 \in 0..Len(ts)
  BY LenProperties
<1> DEFINE f == PhrasesBy(ts)
<1>2. f = [k \in 0..Len(ts) |-> IF k = 0 THEN {} ELSE f[k - 1] \cup Ending(ts, f[k - 1], k)]
  BY <1>1, PhrasesByDef
<1> HIDE DEF f
<1>3. f[0] = {} /\ f[n] = f[n - 1] \cup Ending(ts, f[n - 1], n)
  BY <1>1, <1>2
<1> QED
  BY <1>1, <1>3 DEF f

-----------------------------------------------------------------------------
\* What kinds of phrases there are, and how each is made.
Shaped(p) ==
  /\ p = Phrase(p.kind, p.from, p.to, p.value, p.depth)
  /\ p.kind \in {"value", "member", "elements", "members"}
  /\ p.from \in Nat /\ p.to \in Nat /\ p.depth \in Nat /\ p.from <= p.to
  /\ p.kind \notin ListKinds => p.from < p.to

IsSingle(ts, p) ==
  p.kind = "value" /\ p.from = p.to - 1 /\ p.depth = 0 /\ p.value \in Denoted(ts[p.to])
IsContainer(ts, p, l) ==
  /\ IsEnclosed(ts, l, p.to)
  /\ p.kind = "value" /\ p.from = l.from - 1 /\ p.value = l.value /\ p.depth = l.depth + 1
IsMember(ts, p, v) ==
  /\ IsNamed(ts, v) /\ v.kind = "value" /\ v.to = p.to
  /\ p.kind = "member" /\ p.from = v.from - 2 /\ p.depth = v.depth
  /\ p.value = ObjectValue(OneMember(Text[ts[v.from - 1].raw], v.value))
IsEmpty(ts, p) ==
  /\ p.kind \in ListKinds /\ p.from = p.to /\ ts[p.to].type = Opener[p.kind]
  /\ p.value = NoItems[p.kind] /\ p.depth = 0
IsLonger(ts, p, l, i) ==
  /\ GoesOn(ts, l, i)
  /\ p.kind = l.kind /\ p.from = l.from /\ p.to = i.to
  /\ p.value = WithItem(l.kind, l.value, i.value) /\ p.depth = Larger(l.depth, i.depth)

LEMMA PhraseFields ==
  ASSUME NEW k, NEW f, NEW t, NEW v, NEW d
  PROVE  LET p == Phrase(k, f, t, v, d)
         IN  p.kind = k /\ p.from = f /\ p.to = t /\ p.value = v /\ p.depth = d
  BY DEF Phrase

LEMMA SingleIs ==
  ASSUME NEW ts, NEW b \in Nat \ {0}, NEW p
  PROVE  p \in Single(ts, b) <=> Shaped(p) /\ p.to = b /\ IsSingle(ts, p)
<1>1. ASSUME p \in Single(ts, b) PROVE Shaped(p) /\ p.to = b /\ IsSingle(ts, p)
  <2>1. PICK v \in Denoted(ts[b]) : p = Phrase("value", b - 1, b, v, 0)
    BY <1>1 DEF Single
  <2>2. p.kind = "value" /\ p.from = b - 1 /\ p.to = b /\ p.value = v /\ p.depth = 0
    BY <2>1, PhraseFields
  <2>3. p = Phrase(p.kind, p.from, p.to, p.value, p.depth)
    BY <2>1, <2>2
  <2> QED
    BY <2>2, <2>3 DEF Shaped, IsSingle, ListKinds
<1>2. ASSUME Shaped(p), p.to = b, IsSingle(ts, p) PROVE p \in Single(ts, b)
  <2>1. p = Phrase("value", b - 1, b, p.value, 0) /\ p.value \in Denoted(ts[b])
    BY <1>2 DEF Shaped, IsSingle
  <2> QED
    BY <2>1 DEF Single
<1> QED
  BY <1>1, <1>2

LEMMA ContainersIs ==
  ASSUME NEW ts, NEW b \in Nat \ {0}, NEW C, \A q \in C : Shaped(q), NEW p
  PROVE  p \in Containers(ts, C, b) <=> Shaped(p) /\ p.to = b /\ \E l \in C : IsContainer(ts, p, l)
<1>1. ASSUME p \in Containers(ts, C, b) PROVE Shaped(p) /\ p.to = b /\ \E l \in C : IsContainer(ts, p, l)
  <2>1. PICK l \in C : IsEnclosed(ts, l, b) /\ p = Phrase("value", l.from - 1, b, l.value, l.depth + 1)
    BY <1>1 DEF Containers
  <2>2. p.kind = "value" /\ p.from = l.from - 1 /\ p.to = b /\ p.value = l.value /\ p.depth = l.depth + 1
    BY <2>1, PhraseFields
  <2>3. p = Phrase(p.kind, p.from, p.to, p.value, p.depth)
    BY <2>1, <2>2
  <2>4. l.from \in Nat /\ l.to \in Nat /\ l.depth \in Nat /\ l.from <= l.to /\ l.from > 0 /\ l.to = b - 1
    BY <2>1 DEF Shaped, IsEnclosed
  <2>5. IsContainer(ts, p, l)
    BY <2>1, <2>2 DEF IsContainer
  <2> QED
    BY <2>2, <2>3, <2>4, <2>5 DEF Shaped, ListKinds
<1>2. ASSUME Shaped(p), p.to = b, NEW l \in C, IsContainer(ts, p, l) PROVE p \in Containers(ts, C, b)
  <2>1. p = Phrase("value", l.from - 1, b, l.value, l.depth + 1) /\ IsEnclosed(ts, l, b)
    BY <1>2 DEF Shaped, IsContainer
  <2> QED
    BY <2>1 DEF Containers
<1> QED
  BY <1>1, <1>2

LEMMA NamedIs ==
  ASSUME NEW ts, NEW b \in Nat, NEW V, \A q \in V : Shaped(q) /\ q.kind = "value" /\ q.to = b, NEW p
  PROVE  p \in Named(ts, V) <=> Shaped(p) /\ p.to = b /\ \E v \in V : IsMember(ts, p, v)
<1>1. ASSUME p \in Named(ts, V) PROVE Shaped(p) /\ p.to = b /\ \E v \in V : IsMember(ts, p, v)
  <2>1. PICK v \in V : /\ IsNamed(ts, v)
                       /\ p = Phrase("member", v.from - 2, v.to, ObjectValue(OneMember(Text[ts[v.from - 1].raw], v.value)), v.depth)
    BY <1>1 DEF Named
  <2> DEFINE m == ObjectValue(OneMember(Text[ts[v.from - 1].raw], v.value))
  <2>2. p = Phrase("member", v.from - 2, v.to, m, v.depth)
    BY <2>1
  <2>3. p.value = m => p.value = ObjectValue(OneMember(Text[ts[v.from - 1].raw], v.value))
    OBVIOUS
  <2> HIDE DEF m
  <2>4. p.kind = "member" /\ p.from = v.from - 2 /\ p.to = v.to /\ p.value = m /\ p.depth = v.depth
    BY <2>2, PhraseFields
  <2>5. p = Phrase(p.kind, p.from, p.to, p.value, p.depth)
    BY <2>2, <2>4
  <2>6. v.from \in Nat /\ v.to \in Nat /\ v.depth \in Nat /\ v.from < v.to /\ v.from > 1 /\ v.to = b /\ v.kind = "value"
    BY <2>1 DEF Shaped, IsNamed, ListKinds
  <2>7. IsMember(ts, p, v)
    BY <2>1, <2>3, <2>4, <2>6 DEF IsMember
  <2> QED
    BY <2>4, <2>5, <2>6, <2>7 DEF Shaped, ListKinds
<1>2. ASSUME Shaped(p), p.to = b, NEW v \in V, IsMember(ts, p, v) PROVE p \in Named(ts, V)
  <2> DEFINE m == ObjectValue(OneMember(Text[ts[v.from - 1].raw], v.value))
  <2>1. p.value = m /\ p.kind = "member" /\ p.from = v.from - 2 /\ p.to = v.to /\ p.depth = v.depth /\ IsNamed(ts, v)
    BY <1>2 DEF IsMember
  <2> HIDE DEF m
  <2>2. p = Phrase("member", v.from - 2, v.to, m, v.depth)
    BY <1>2, <2>1 DEF Shaped
  <2> QED
    BY <2>1, <2>2 DEF Named, m
<1> QED
  BY <1>1, <1>2

LEMMA EmptyListsIs ==
  ASSUME NEW ts, NEW b \in Nat, NEW p
  PROVE  p \in EmptyLists(ts, b) <=> Shaped(p) /\ p.to = b /\ IsEmpty(ts, p)
<1>1. ASSUME p \in EmptyLists(ts, b) PROVE Shaped(p) /\ p.to = b /\ IsEmpty(ts, p)
  <2>1. PICK k \in ListKinds : ts[b].type = Opener[k] /\ p = Phrase(k, b, b, NoItems[k], 0)
    BY <1>1 DEF EmptyLists
  <2> DEFINE v == NoItems[k]
  <2>2. p = Phrase(k, b, b, v, 0) /\ v = NoItems[k]
    BY <2>1
  <2> HIDE DEF v
  <2>3. p.kind = k /\ p.from = b /\ p.to = b /\ p.value = v /\ p.depth = 0
    BY <2>2, PhraseFields
  <2>4. p = Phrase(p.kind, p.from, p.to, p.value, p.depth)
    BY <2>2, <2>3
  <2> QED
    BY <2>1, <2>2, <2>3, <2>4 DEF Shaped, ListKinds, IsEmpty
<1>2. ASSUME Shaped(p), p.to = b, IsEmpty(ts, p) PROVE p \in EmptyLists(ts, b)
  <2>1. p = Phrase(p.kind, b, b, NoItems[p.kind], 0) /\ p.kind \in ListKinds /\ ts[b].type = Opener[p.kind]
    BY <1>2 DEF Shaped, IsEmpty
  <2> QED
    BY <2>1 DEF EmptyLists
<1> QED
  BY <1>1, <1>2

LEMMA LargerIs ==
  ASSUME NEW m \in Nat, NEW n \in Nat
  PROVE  Larger(m, n) \in Nat /\ Larger(m, n) >= m /\ Larger(m, n) >= n /\ Larger(m, n) \in {m, n}
  BY DEF Larger

LEMMA LongerIs ==
  ASSUME NEW ts, NEW b \in Nat, NEW C, \A q \in C : Shaped(q),
         NEW I, \A q \in I : Shaped(q) /\ q.to = b, NEW p
  PROVE  p \in Longer(ts, C, I) <=> Shaped(p) /\ p.to = b /\ \E l \in C, i \in I : IsLonger(ts, p, l, i)
<1>1. ASSUME p \in Longer(ts, C, I) PROVE Shaped(p) /\ p.to = b /\ \E l \in C, i \in I : IsLonger(ts, p, l, i)
  <2>1. PICK q \in C \X I : /\ GoesOn(ts, q[1], q[2])
                           /\ p = Phrase(q[1].kind, q[1].from, q[2].to, WithItem(q[1].kind, q[1].value, q[2].value),
                                         Larger(q[1].depth, q[2].depth))
    BY <1>1 DEF Longer
  <2>2. PICK l \in C, i \in I : l = q[1] /\ i = q[2]
    BY <2>1
  <2> DEFINE w == WithItem(l.kind, l.value, i.value)
             d == Larger(l.depth, i.depth)
  <2>3. GoesOn(ts, l, i) /\ p = Phrase(l.kind, l.from, i.to, w, d)
    BY <2>1, <2>2
  <2>4. d \in Nat
    BY LargerIs DEF Shaped
  <2>5. w = WithItem(l.kind, l.value, i.value) /\ d = Larger(l.depth, i.depth)
    OBVIOUS
  <2> HIDE DEF w, d
  <2>6. p.kind = l.kind /\ p.from = l.from /\ p.to = i.to /\ p.value = w /\ p.depth = d
    BY <2>3, PhraseFields
  <2>7. p = Phrase(p.kind, p.from, p.to, p.value, p.depth)
    BY <2>3, <2>6
  <2>8. IsLonger(ts, p, l, i)
    BY <2>3, <2>5, <2>6 DEF IsLonger
  <2>9. l.from <= i.to /\ l.from \in Nat /\ i.to = b /\ l.kind \in ListKinds
    BY <2>3 DEF GoesOn, Shaped
  <2> QED
    BY <2>4, <2>6, <2>7, <2>8, <2>9 DEF Shaped, ListKinds
<1>2. ASSUME Shaped(p), p.to = b, NEW l \in C, NEW i \in I, IsLonger(ts, p, l, i) PROVE p \in Longer(ts, C, I)
  <2> DEFINE w == WithItem(l.kind, l.value, i.value)
             d == Larger(l.depth, i.depth)
             q == <<l, i>>
  <2>1. GoesOn(ts, l, i) /\ p.kind = l.kind /\ p.from = l.from /\ p.to = i.to /\ p.value = w /\ p.depth = d
    BY <1>2 DEF IsLonger
  <2> HIDE DEF w, d
  <2>2. p = Phrase(l.kind, l.from, i.to, w, d)
    BY <1>2, <2>1 DEF Shaped
  <2>3. q \in C \X I /\ q[1] = l /\ q[2] = i
    OBVIOUS
  <2> HIDE DEF q
  <2> QED
    BY <2>1, <2>2, <2>3 DEF Longer, w, d
<1> QED
  BY <1>1, <1>2

\* What ends at a token, rule by rule.
LEMMA EndingIs ==
  ASSUME NEW ts, NEW b \in Nat \ {0}, NEW C, \A q \in C : Shaped(q), NEW p
  PROVE  p \in Ending(ts, C, b) <=>
           /\ Shaped(p) /\ p.to = b
           /\ \/ IsSingle(ts, p) \/ IsEmpty(ts, p)
              \/ \E l \in C : IsContainer(ts, p, l)
              \/ \E v \in Ending(ts, C, b) : IsMember(ts, p, v)
              \/ \E l \in C, i \in Ending(ts, C, b) : IsLonger(ts, p, l, i)
<1> DEFINE V == Single(ts, b) \cup Containers(ts, C, b)
           I == V \cup Named(ts, V)
           E == Ending(ts, C, b)
<1>1. E = I \cup Longer(ts, C, I) \cup EmptyLists(ts, b)
  BY Zenon DEF Ending
<1>2. \A q \in V : Shaped(q) /\ q.kind = "value" /\ q.to = b
  BY SingleIs, ContainersIs DEF IsSingle, IsContainer
<1>3. \A q \in V : q \in I
  OBVIOUS
<1>4. \A q : q \in V <=> q \in Single(ts, b) \/ q \in Containers(ts, C, b)
  OBVIOUS
<1> HIDE DEF V
<1>5. \A q : q \in Named(ts, V) <=> Shaped(q) /\ q.to = b /\ \E v \in V : IsMember(ts, q, v)
  BY <1>2, NamedIs
<1>6. \A q : q \in I <=> q \in V \/ q \in Named(ts, V)
  OBVIOUS
<1> HIDE DEF I
<1>7. \A q \in I : Shaped(q) /\ q.to = b /\ q.kind \in {"value", "member"}
  BY <1>2, <1>5, <1>6 DEF IsMember
<1>8. \A q : q \in Longer(ts, C, I) <=> Shaped(q) /\ q.to = b /\ \E l \in C, i \in I : IsLonger(ts, q, l, i)
  BY <1>7, LongerIs
<1>9. \A q : q \in EmptyLists(ts, b) <=> Shaped(q) /\ q.to = b /\ IsEmpty(ts, q)
  BY EmptyListsIs
<1>10. \A q \in E : q.kind \in {"value", "member"} => q \in I
  BY <1>1, <1>8, <1>9 DEF IsLonger, GoesOn, IsEmpty, ListKinds
<1>11. \A q \in I : q.kind = "value" => q \in V
  BY <1>5, <1>6 DEF IsMember
<1>12. \A q \in I : q \in E
  BY <1>1
<1> HIDE DEF E
<1>13. ASSUME p \in E
       PROVE  /\ Shaped(p) /\ p.to = b
              /\ \/ IsSingle(ts, p) \/ IsEmpty(ts, p)
                 \/ \E l \in C : IsContainer(ts, p, l)
                 \/ \E v \in E : IsMember(ts, p, v)
                 \/ \E l \in C, i \in E : IsLonger(ts, p, l, i)
  <2>1. CASE p \in V
    <3>1. CASE p \in Single(ts, b)
      BY <3>1, SingleIs
    <3>2. CASE p \in Containers(ts, C, b)
      BY <3>2, ContainersIs
    <3> QED
      BY <2>1, <1>4, <3>1, <3>2
  <2>2. CASE p \in Named(ts, V)
    BY <2>2, <1>3, <1>5, <1>12
  <2>3. CASE p \in Longer(ts, C, I)
    BY <2>3, <1>8, <1>12
  <2>4. CASE p \in EmptyLists(ts, b)
    BY <2>4, <1>9
  <2> QED
    BY <1>1, <1>6, <1>13, <2>1, <2>2, <2>3, <2>4
<1>14. ASSUME Shaped(p), p.to = b, IsSingle(ts, p) PROVE p \in E
  BY <1>14, <1>3, <1>4, <1>12, SingleIs
<1>15. ASSUME Shaped(p), p.to = b, IsEmpty(ts, p) PROVE p \in E
  BY <1>15, <1>1, <1>9
<1>16. ASSUME Shaped(p), p.to = b, NEW l \in C, IsContainer(ts, p, l) PROVE p \in E
  BY <1>16, <1>3, <1>4, <1>12, ContainersIs
<1>17. ASSUME Shaped(p), p.to = b, NEW v \in E, IsMember(ts, p, v) PROVE p \in E
  <2>1. v \in V
    BY <1>17, <1>10, <1>11 DEF IsMember
  <2> QED
    BY <1>17, <1>5, <1>6, <1>12, <2>1
<1>18. ASSUME Shaped(p), p.to = b, NEW l \in C, NEW i \in E, IsLonger(ts, p, l, i) PROVE p \in E
  <2>1. i.kind \in {"value", "member"}
    BY <1>18 DEF IsLonger, GoesOn, ListKinds, Item
  <2>2. i \in I
    BY <2>1, <1>10
  <2> QED
    BY <1>1, <1>8, <1>18, <2>2
<1> QED
  BY <1>13, <1>14, <1>15, <1>16, <1>17, <1>18 DEF E

\* The phrases up to token n.
By(ts, n) == PhrasesBy(ts)[n]

LEMMA BySteps ==
  ASSUME NEW ts \in Seq(Token)
  PROVE  /\ By(ts, 0) = {}
         /\ \A n \in 0..(Len(ts) - 1) : By(ts, n + 1) = By(ts, n) \cup Ending(ts, By(ts, n), n + 1)
<1>1. By(ts, 0) = {}
  <2>1. CASE Len(ts) = 0
    <3>1. PhrasesBy(ts) = [k \in 0..Len(ts) |-> IF k = 0 THEN {} ELSE PhrasesBy(ts)[k - 1] \cup Ending(ts, PhrasesBy(ts)[k - 1], k)]
      BY LenProperties, PhrasesByDef
    <3> DEFINE f == PhrasesBy(ts)
    <3>2. f = [k \in 0..Len(ts) |-> IF k = 0 THEN {} ELSE f[k - 1] \cup Ending(ts, f[k - 1], k)]
      BY <3>1
    <3> HIDE DEF f
    <3>3. f[0] = {}
      BY <2>1, <3>2
    <3> QED
      BY <3>3 DEF f, By
  <2>2. CASE Len(ts) # 0
    <3>1. 1 \in 1..Len(ts)
      BY <2>2, LenProperties
    <3> QED
      BY <3>1, PhrasesAt DEF By
  <2> QED
    BY <2>1, <2>2
<1>2. ASSUME NEW n \in 0..(Len(ts) - 1) PROVE By(ts, n + 1) = By(ts, n) \cup Ending(ts, By(ts, n), n + 1)
  <2> DEFINE m == n + 1
  <2>1. m \in 1..Len(ts) /\ m - 1 = n
    BY LenProperties
  <2> HIDE DEF m
  <2>2. PhrasesBy(ts)[m] = PhrasesBy(ts)[m - 1] \cup Ending(ts, PhrasesBy(ts)[m - 1], m)
    BY <2>1, PhrasesAt
  <2>3. By(ts, m) = By(ts, n) \cup Ending(ts, By(ts, n), m)
    BY <2>1, <2>2 DEF By
  <2> QED
    BY <2>3 DEF m
<1> QED
  BY <1>1, <1>2

LEMMA ByShaped ==
  ASSUME NEW ts \in Seq(Token), NEW n \in 0..Len(ts)
  PROVE  \A p \in By(ts, n) : Shaped(p) /\ p.to \in 1..n
<1> DEFINE S == {k \in Nat : k <= Len(ts) => \A p \in By(ts, k) : Shaped(p) /\ p.to \in 1..k}
<1>0. Len(ts) \in Nat
  BY LenProperties
<1>1. 0 \in S
  BY BySteps
<1>2. ASSUME NEW k \in Nat, k \in S PROVE k + 1 \in S
  <2>1. SUFFICES ASSUME k + 1 <= Len(ts), NEW p \in By(ts, k + 1) PROVE Shaped(p) /\ p.to \in 1..(k + 1)
    OBVIOUS
  <2>2. k \in 0..(Len(ts) - 1) /\ k + 1 \in Nat \ {0} /\ \A q \in By(ts, k) : Shaped(q) /\ q.to \in 1..k
    BY <1>0, <1>2, <2>1
  <2> DEFINE m == k + 1
             C == By(ts, k)
  <2>3. p \in C \/ p \in Ending(ts, C, m)
    BY <2>1, <2>2, BySteps
  <2>4. m \in Nat \ {0} /\ \A q \in C : Shaped(q)
    BY <2>2
  <2>5. ASSUME p \in C PROVE Shaped(p) /\ p.to \in 1..(k + 1)
    BY <2>2, <2>5
  <2> HIDE DEF m, C
  <2>6. ASSUME p \in Ending(ts, C, m) PROVE Shaped(p) /\ p.to = m
    BY <2>4, <2>6, EndingIs
  <2> QED
    BY <2>2, <2>3, <2>5, <2>6 DEF m
<1>3. n \in S
  <2> HIDE DEF S
  <2>1. Nat \subseteq S
    BY <1>1, <1>2, NatInduct
  <2> QED
    BY <1>0, <2>1
<1> QED
  BY <1>3

LEMMA ByMono ==
  ASSUME NEW ts \in Seq(Token), NEW m \in 0..Len(ts), NEW n \in m..Len(ts)
  PROVE  By(ts, m) \subseteq By(ts, n)
<1> DEFINE S == {k \in Nat : m <= k /\ k <= Len(ts) => By(ts, m) \subseteq By(ts, k)}
<1>0. Len(ts) \in Nat
  BY LenProperties
<1>1. 0 \in S
  OBVIOUS
<1>2. ASSUME NEW k \in Nat, k \in S PROVE k + 1 \in S
  <2>1. SUFFICES ASSUME m <= k + 1, k + 1 <= Len(ts) PROVE By(ts, m) \subseteq By(ts, k + 1)
    OBVIOUS
  <2>2. CASE m = k + 1
    BY <2>2
  <2>3. CASE m # k + 1
    <3>1. By(ts, m) \subseteq By(ts, k) /\ k \in 0..(Len(ts) - 1)
      BY <1>0, <1>2, <2>1, <2>3
    <3> QED
      BY <3>1, BySteps
  <2> QED
    BY <2>2, <2>3
<1>3. n \in S
  <2> HIDE DEF S
  <2>1. Nat \subseteq S
    BY <1>1, <1>2, NatInduct
  <2> QED
    BY <1>0, <2>1
<1> QED
  BY <1>0, <1>3

\* A phrase is among those up to its end.
LEMMA ByEnd ==
  ASSUME NEW ts \in Seq(Token), NEW n \in 0..Len(ts)
  PROVE  \A p \in By(ts, n) : p.to \in 1..n /\ p \in Ending(ts, By(ts, p.to - 1), p.to)
<1> DEFINE S == {k \in Nat : k <= Len(ts) => \A p \in By(ts, k) : p.to \in 1..k /\ p \in Ending(ts, By(ts, p.to - 1), p.to)}
<1>0. Len(ts) \in Nat
  BY LenProperties
<1>1. 0 \in S
  BY BySteps
<1>2. ASSUME NEW k \in Nat, k \in S PROVE k + 1 \in S
  <2>1. SUFFICES ASSUME k + 1 <= Len(ts), NEW p \in By(ts, k + 1)
                 PROVE  p.to \in 1..(k + 1) /\ p \in Ending(ts, By(ts, p.to - 1), p.to)
    OBVIOUS
  <2>2. k \in 0..(Len(ts) - 1) /\ k \in 0..Len(ts) /\ k + 1 \in Nat \ {0}
    BY <1>0, <2>1
  <2>3. CASE p \in By(ts, k)
    BY <1>0, <1>2, <2>2, <2>3
  <2>4. CASE p \in Ending(ts, By(ts, k), k + 1)
    <3> DEFINE m == k + 1
               C == By(ts, k)
    <3>1. \A q \in C : Shaped(q)
      BY <2>2, ByShaped
    <3>2. m \in Nat \ {0} /\ m - 1 = k /\ p \in Ending(ts, C, m)
      BY <2>2, <2>4
    <3>3. m \in 1..(k + 1) /\ C = By(ts, k)
      BY <2>2
    <3> HIDE DEF m, C
    <3>4. p.to = m
      BY <3>1, <3>2, EndingIs
    <3> QED
      BY <3>2, <3>3, <3>4
  <2> QED
    BY <2>2, <2>3, <2>4, BySteps
<1>3. n \in S
  <2> HIDE DEF S
  <2>1. Nat \subseteq S
    BY <1>1, <1>2, NatInduct
  <2> QED
    BY <1>0, <2>1
<1> QED
  BY <1>0, <1>3

LEMMA PhraseShaped ==
  ASSUME NEW ts \in Seq(Token), NEW p \in Phrases(ts)
  PROVE  Shaped(p) /\ p.to \in 1..Len(ts) /\ p \in By(ts, p.to)
<1> DEFINE n == Len(ts)
<1>0. n \in Nat /\ n \in 0..Len(ts) /\ p \in By(ts, n)
  BY LenProperties DEF Phrases, By
<1> HIDE DEF n
<1>1. Shaped(p) /\ p.to \in 1..n
  BY <1>0, ByShaped
<1>2. p \in Ending(ts, By(ts, p.to - 1), p.to)
  BY <1>0, ByEnd
<1> DEFINE k == p.to - 1
<1>3. k \in 0..(Len(ts) - 1) /\ k + 1 = p.to
  BY <1>1 DEF n
<1>4. p \in Ending(ts, By(ts, k), k + 1)
  BY <1>2, <1>3
<1> HIDE DEF k
<1>5. p \in By(ts, k + 1)
  BY <1>3, <1>4, BySteps
<1> QED
  BY <1>1, <1>3, <1>5 DEF n

LEMMA ByPhrases ==
  ASSUME NEW ts \in Seq(Token), NEW n \in 0..Len(ts), NEW p
  PROVE  p \in By(ts, n) <=> p \in Phrases(ts) /\ p.to <= n
<1> DEFINE N == Len(ts)
<1>0. N \in Nat /\ N \in n..Len(ts) /\ Phrases(ts) = By(ts, N) /\ N = Len(ts)
  BY LenProperties DEF Phrases, By
<1> HIDE DEF N
<1>1. ASSUME p \in By(ts, n) PROVE p \in Phrases(ts) /\ p.to <= n
  <2>1. p \in By(ts, N)
    BY <1>0, <1>1, ByMono
  <2>2. p.to \in 1..n
    BY <1>1, ByShaped
  <2> QED
    BY <1>0, <2>1, <2>2
<1>2. ASSUME p \in Phrases(ts), p.to <= n PROVE p \in By(ts, n)
  <2>1. p.to \in 0..Len(ts) /\ n \in p.to..Len(ts) /\ p \in By(ts, p.to)
    BY <1>2, PhraseShaped
  <2> QED
    BY <2>1, ByMono
<1> QED
  BY <1>1, <1>2

\* A phrase is what one of the rules makes of other phrases.
LEMMA PhraseIs ==
  ASSUME NEW ts \in Seq(Token), NEW p
  PROVE  p \in Phrases(ts) <=>
           /\ Shaped(p) /\ p.to \in 1..Len(ts)
           /\ \/ IsSingle(ts, p) \/ IsEmpty(ts, p)
              \/ \E l \in Phrases(ts) : IsContainer(ts, p, l)
              \/ \E v \in Phrases(ts) : IsMember(ts, p, v)
              \/ \E l \in Phrases(ts), i \in Phrases(ts) : IsLonger(ts, p, l, i)
<1>1. ASSUME NEW b, Shaped(p), p.to = b, b \in 1..Len(ts)
      PROVE  p \in Phrases(ts) <=>
                \/ IsSingle(ts, p) \/ IsEmpty(ts, p)
                \/ \E l \in Phrases(ts) : IsContainer(ts, p, l)
                \/ \E v \in Phrases(ts) : IsMember(ts, p, v)
                \/ \E l \in Phrases(ts), i \in Phrases(ts) : IsLonger(ts, p, l, i)
  <2> DEFINE c == b - 1
             C == By(ts, c)
             E == Ending(ts, C, b)
             P == Phrases(ts)
  <2>1. c \in 0..(Len(ts) - 1) /\ c \in 0..Len(ts) /\ b \in 0..Len(ts) /\ c + 1 = b /\ b \in Nat \ {0} /\ c \in Nat
    BY <1>1, LenProperties
  <2>2. C = By(ts, c)
    OBVIOUS
  <2> HIDE DEF c
  <2>3. \A q \in C : Shaped(q)
    BY <2>1, ByShaped
  <2>4. By(ts, c + 1) = C \cup Ending(ts, C, c + 1)
    BY <2>1, BySteps
  <2>5. By(ts, b) = C \cup E
    BY <2>1, <2>4
  <2>6. \A q : q \in C <=> q \in P /\ q.to <= c
    BY <2>1, ByPhrases
  <2>7. \A q : q \in By(ts, b) <=> q \in P /\ q.to <= b
    BY <2>1, ByPhrases
  <2>8. \A q \in P : Shaped(q)
    BY PhraseShaped
  <2> HIDE DEF C
  <2>9. \A q : q \in E => q.to = b
    BY <2>1, <2>3, EndingIs
  <2>10. \A q : q \in E <=> q \in P /\ q.to = b
    BY <2>1, <2>5, <2>6, <2>7, <2>8, <2>9 DEF Shaped
  <2>11. p \in E <=>
           /\ Shaped(p) /\ p.to = b
           /\ \/ IsSingle(ts, p) \/ IsEmpty(ts, p)
              \/ \E l \in C : IsContainer(ts, p, l)
              \/ \E v \in E : IsMember(ts, p, v)
              \/ \E l \in C, i \in E : IsLonger(ts, p, l, i)
    BY <2>1, <2>3, EndingIs
  <2> HIDE DEF P, E
  <2>12. \A l \in P : IsContainer(ts, p, l) => l \in C
    BY <1>1, <2>1, <2>6 DEF IsContainer, IsEnclosed
  <2>13. \A v \in P : IsMember(ts, p, v) => v \in E
    BY <1>1, <2>10 DEF IsMember
  <2>14. ASSUME NEW l \in P, NEW i \in P, IsLonger(ts, p, l, i) PROVE l \in C /\ i \in E
    <3>1. i.to = b /\ l.to <= i.from /\ i.from < i.to /\ l.to \in Nat /\ i.from \in Nat
      BY <1>1, <2>8, <2>14 DEF IsLonger, GoesOn, Shaped, ListKinds, Item
    <3>2. l.to <= c
      BY <2>1, <3>1
    <3> QED
      BY <2>6, <2>10, <3>1, <3>2
  <2>15. p \in P <=> p \in E
    BY <1>1, <2>10
  <2>16. (\A q \in C : q \in P) /\ (\A q \in E : q \in P)
    BY <2>6, <2>10
  <2>17. ASSUME p \in P
         PROVE  \/ IsSingle(ts, p) \/ IsEmpty(ts, p)
                \/ \E l \in P : IsContainer(ts, p, l)
                \/ \E v \in P : IsMember(ts, p, v)
                \/ \E l \in P, i \in P : IsLonger(ts, p, l, i)
    BY <2>11, <2>15, <2>16, <2>17
  <2>18. ASSUME \/ IsSingle(ts, p) \/ IsEmpty(ts, p)
                \/ \E l \in P : IsContainer(ts, p, l)
                \/ \E v \in P : IsMember(ts, p, v)
                \/ \E l \in P, i \in P : IsLonger(ts, p, l, i)
         PROVE  p \in P
    BY <1>1, <2>11, <2>12, <2>13, <2>14, <2>15, <2>18
  <2> QED
    BY <2>17, <2>18 DEF P
<1> QED
  BY <1>1, PhraseShaped

-----------------------------------------------------------------------------
(* The grammar is deterministic: how a phrase starts says what it is.       *)

LEMMA DenotedStarts ==
  ASSUME NEW t, Denoted(t) # {}
  PROVE  t.type \in {"True", "False", "Null", "String", "Number"}
  BY DEF Denoted, Words

LEMMA DenotedOnce ==
  ASSUME NEW t, NEW v \in Denoted(t), NEW w \in Denoted(t)
  PROVE  v = w
<1>1. CASE t.type \in DOMAIN Words
  BY <1>1 DEF Denoted
<1>2. CASE t.type \notin DOMAIN Words /\ t.type = "String"
  BY <1>2 DEF Denoted
<1>3. CASE t.type \notin DOMAIN Words /\ t.type = "Number"
  BY <1>3 DEF Denoted
<1>4. CASE t.type \notin DOMAIN Words /\ t.type # "Number" /\ t.type # "String"
  BY <1>4 DEF Denoted
<1> QED
  BY <1>1, <1>2, <1>3, <1>4

\* The first token of a value.
ValueStart(ts, v) ==
  \/ /\ v.to = v.from + 1 /\ v.depth = 0 /\ v.value \in Denoted(ts[v.from + 1])
     /\ ts[v.from + 1].type \in {"True", "False", "Null", "String", "Number"}
  \/ \E l \in Phrases(ts) : /\ IsContainer(ts, v, l) /\ l.kind \in ListKinds /\ l.from = v.from + 1
                            /\ ts[v.from + 1].type = Opener[l.kind]

LEMMA ValueStarts ==
  ASSUME NEW ts \in Seq(Token), NEW v \in Phrases(ts), v.kind = "value"
  PROVE  v.from \in Nat /\ v.from + 1 \in 1..Len(ts) /\ ValueStart(ts, v)
<1>1. Shaped(v) /\ v.to \in 1..Len(ts) /\ Len(ts) \in Nat
  BY PhraseShaped, LenProperties
<1>2. v.from \in Nat /\ v.to \in Nat /\ v.from < v.to
  BY <1>1 DEF Shaped, ListKinds
<1>3. ASSUME IsSingle(ts, v) PROVE ValueStart(ts, v)
  <2>1. v.to = v.from + 1 /\ v.depth = 0 /\ v.value \in Denoted(ts[v.to])
    BY <1>2, <1>3 DEF IsSingle
  <2>2. ts[v.to].type \in {"True", "False", "Null", "String", "Number"}
    BY <2>1, DenotedStarts
  <2> QED
    BY <2>1, <2>2 DEF ValueStart
<1>4. ASSUME NEW l \in Phrases(ts), IsContainer(ts, v, l) PROVE ValueStart(ts, v)
  <2>1. l.from \in Nat
    BY PhraseShaped DEF Shaped
  <2> QED
    BY <1>2, <1>4, <2>1 DEF IsContainer, IsEnclosed, ValueStart
<1>5. IsSingle(ts, v) \/ \E l \in Phrases(ts) : IsContainer(ts, v, l)
  BY PhraseIs DEF IsEmpty, IsMember, IsLonger, GoesOn, ListKinds
<1> QED
  BY <1>1, <1>2, <1>3, <1>4, <1>5

\* A member starts with its name and a colon, and goes on to its value.
MemberStart(ts, m, v) ==
  /\ v.kind = "value" /\ v.from = m.from + 2 /\ v.to = m.to /\ m.depth = v.depth
  /\ ts[m.from + 1].type = "String" /\ Text[ts[m.from + 1].raw] # Invalid
  /\ ts[m.from + 2].type = "Colon"
  /\ m.value = ObjectValue(OneMember(Text[ts[m.from + 1].raw], v.value))

LEMMA MemberStarts ==
  ASSUME NEW ts \in Seq(Token), NEW m \in Phrases(ts), m.kind = "member"
  PROVE  m.from \in Nat /\ m.from + 1 \in 1..Len(ts) /\ \E v \in Phrases(ts) : MemberStart(ts, m, v)
<1>1. Shaped(m) /\ m.to \in 1..Len(ts) /\ Len(ts) \in Nat
  BY PhraseShaped, LenProperties
<1>2. m.from \in Nat /\ m.to \in Nat /\ m.from < m.to
  BY <1>1 DEF Shaped, ListKinds
<1>3. PICK v \in Phrases(ts) : IsMember(ts, m, v)
  BY PhraseIs DEF IsSingle, IsEmpty, IsContainer, IsLonger, GoesOn, ListKinds
<1>4. v.from \in Nat /\ v.from > 1
  BY <1>3, PhraseShaped DEF Shaped, IsMember, IsNamed
<1>5. v.from - 1 = m.from + 1 /\ v.from = m.from + 2
  BY <1>2, <1>3, <1>4 DEF IsMember
<1>6. MemberStart(ts, m, v)
  BY <1>3, <1>5 DEF IsMember, IsNamed, MemberStart
<1> QED
  BY <1>1, <1>2, <1>6

\* A list has no items, or one more than a shorter list.
LEMMA ListIs ==
  ASSUME NEW ts \in Seq(Token), NEW l \in Phrases(ts), l.kind \in ListKinds
  PROVE  /\ l.from \in Nat /\ l.to \in 1..Len(ts) /\ l.from <= l.to
         /\ l.from = l.to => IsEmpty(ts, l)
         /\ l.from # l.to => \E s \in Phrases(ts), i \in Phrases(ts) : IsLonger(ts, l, s, i)
<1>1. ASSUME NEW q \in Phrases(ts) PROVE Shaped(q) /\ q.to \in 1..Len(ts)
  BY PhraseShaped
<1>2. l.from \in Nat /\ l.to \in 1..Len(ts) /\ l.from <= l.to /\ Len(ts) \in Nat
  BY <1>1, LenProperties DEF Shaped
<1>3. IsEmpty(ts, l) \/ \E s \in Phrases(ts), i \in Phrases(ts) : IsLonger(ts, l, s, i)
  BY PhraseIs DEF IsSingle, IsContainer, IsMember, ListKinds
<1>4. ASSUME NEW s \in Phrases(ts), NEW i \in Phrases(ts), IsLonger(ts, l, s, i) PROVE l.from # l.to
  <2>1. s.from \in Nat /\ s.to \in Nat /\ s.from <= s.to
    BY <1>1 DEF Shaped
  <2>2. i.from \in Nat /\ i.to \in Nat /\ i.from < i.to
    BY <1>1, <1>4 DEF Shaped, IsLonger, GoesOn, Item, ListKinds
  <2> QED
    BY <1>4, <2>1, <2>2 DEF IsLonger, GoesOn
<1>5. IsEmpty(ts, l) => l.from = l.to
  BY DEF IsEmpty
<1> QED
  BY <1>2, <1>3, <1>4, <1>5

\* What goes on after a list does not close it.
LEMMA NotCloser ==
  ASSUME NEW ts \in Seq(Token), NEW l, NEW i \in Phrases(ts), GoesOn(ts, l, i)
  PROVE  ts[l.to + 1].type # Closer[l.kind]
<1>1. CASE l.from = l.to
  <2>1. i.from = l.to
    BY <1>1 DEF GoesOn
  <2>2. CASE l.kind = "elements"
    <3>1. i.kind = "value"
      BY <2>2 DEF GoesOn, Item
    <3> QED
      BY <2>1, <2>2, <3>1, ValueStarts DEF ValueStart, Closer, Opener, ListKinds
  <2>3. CASE l.kind = "members"
    <3>1. i.kind = "member"
      BY <2>3 DEF GoesOn, Item
    <3> QED
      BY <2>1, <2>3, <3>1, MemberStarts DEF MemberStart, Closer
  <2> QED
    BY <2>2, <2>3 DEF GoesOn, ListKinds
<1>2. CASE l.from # l.to
  BY <1>2 DEF GoesOn, Closer, ListKinds
<1> QED
  BY <1>1, <1>2

\* Two items that go on after the same list start at the same token.
LEMMA GoOnAlike ==
  ASSUME NEW ts, NEW l, NEW i, NEW j, GoesOn(ts, l, i), GoesOn(ts, l, j)
  PROVE  i.kind = j.kind /\ i.from = j.from /\ i.kind \in {"value", "member"}
  BY DEF GoesOn, Item, ListKinds

\* Two phrases of one kind that start at the same token are the same, or lists
\* of which one goes on.
GoesOnTo(ts, x, y) == \E i \in Phrases(ts) : GoesOn(ts, x, i) /\ i.to <= y.to /\ i.depth <= y.depth
Comparable(ts, x, y) ==
  /\ x.kind \in {"value", "member"} => x = y
  /\ x.kind \in ListKinds /\ x.to = y.to => x = y
  /\ x.kind \in ListKinds /\ x.to < y.to => GoesOnTo(ts, x, y)
Alike(x, y) == x.kind = y.kind /\ x.from = y.from
Deterministic(ts, b) ==
  \A x, y \in Phrases(ts) : x.to <= b /\ y.to <= b /\ Alike(x, y) => Comparable(ts, x, y)

LEMMA SamePhrase ==
  ASSUME NEW x, NEW y, Shaped(x), Shaped(y), Alike(x, y), x.to = y.to, x.value = y.value, x.depth = y.depth
  PROVE  x = y
  BY DEF Shaped, Alike

LEMMA DeterministicValues ==
  ASSUME NEW ts \in Seq(Token), NEW b \in Nat, Deterministic(ts, b),
         NEW x \in Phrases(ts), NEW y \in Phrases(ts), x.to <= b + 1, y.to <= b + 1,
         Alike(x, y), x.kind = "value"
  PROVE  x = y
<1>1. ValueStart(ts, x) /\ ValueStart(ts, y) /\ y.kind = "value" /\ x.from = y.from
  BY ValueStarts DEF Alike
<1>2. Shaped(x) /\ Shaped(y)
  BY PhraseShaped
<1> DEFINE t == ts[x.from + 1]
<1>3. CASE t.type \in {"True", "False", "Null", "String", "Number"}
  <2>1. /\ x.to = x.from + 1 /\ x.depth = 0 /\ x.value \in Denoted(t)
        /\ y.to = y.from + 1 /\ y.depth = 0 /\ y.value \in Denoted(t)
    BY <1>1, <1>3 DEF ValueStart, Opener, ListKinds
  <2>2. x.value = y.value
    BY <2>1, DenotedOnce
  <2> QED
    BY <1>1, <1>2, <2>1, <2>2, SamePhrase
<1>4. CASE t.type \notin {"True", "False", "Null", "String", "Number"}
  <2>1. PICK l \in Phrases(ts) : IsContainer(ts, x, l) /\ l.kind \in ListKinds /\ l.from = x.from + 1 /\ t.type = Opener[l.kind]
    BY <1>1, <1>4 DEF ValueStart
  <2>2. PICK k \in Phrases(ts) : IsContainer(ts, y, k) /\ k.kind \in ListKinds /\ k.from = x.from + 1 /\ t.type = Opener[k.kind]
    BY <1>1, <1>4 DEF ValueStart
  <2>3. l.kind = k.kind /\ l.from = k.from
    BY <2>1, <2>2 DEF Opener, ListKinds
  <2>4. /\ l.to = x.to - 1 /\ k.to = y.to - 1 /\ x.to \in Nat /\ y.to \in Nat
        /\ ts[x.to].type = Closer[l.kind] /\ ts[y.to].type = Closer[k.kind]
        /\ x.value = l.value /\ y.value = k.value /\ x.depth = l.depth + 1 /\ y.depth = k.depth + 1
    BY <1>2, <2>1, <2>2 DEF IsContainer, IsEnclosed, Shaped
  <2>5. Comparable(ts, l, k) /\ Comparable(ts, k, l)
    BY <2>3, <2>4 DEF Deterministic, Alike
  <2>6. ~(l.to < k.to)
    <3>1. SUFFICES ASSUME l.to < k.to PROVE FALSE
      OBVIOUS
    <3>2. PICK i \in Phrases(ts) : GoesOn(ts, l, i)
      BY <2>1, <2>5, <3>1 DEF Comparable, GoesOnTo
    <3>3. l.to + 1 = x.to
      BY <2>4
    <3> QED
      BY <2>4, <3>2, <3>3, NotCloser
  <2>7. ~(k.to < l.to)
    <3>1. SUFFICES ASSUME k.to < l.to PROVE FALSE
      OBVIOUS
    <3>2. PICK i \in Phrases(ts) : GoesOn(ts, k, i)
      BY <2>2, <2>5, <3>1 DEF Comparable, GoesOnTo
    <3>3. k.to + 1 = y.to
      BY <2>4
    <3> QED
      BY <2>4, <3>2, <3>3, NotCloser
  <2>8. l.to = k.to /\ x.to = y.to
    BY <2>4, <2>6, <2>7
  <2>9. l = k
    BY <2>1, <2>5, <2>8 DEF Comparable
  <2>10. x.value = y.value /\ x.depth = y.depth
    BY <2>4, <2>9
  <2> QED
    BY <1>2, <2>8, <2>10, SamePhrase
<1> QED
  BY <1>3, <1>4

LEMMA DeterministicItems ==
  ASSUME NEW ts \in Seq(Token), NEW b \in Nat, Deterministic(ts, b),
         NEW x \in Phrases(ts), NEW y \in Phrases(ts), x.to <= b + 1, y.to <= b + 1,
         Alike(x, y), x.kind \in {"value", "member"}
  PROVE  x = y
<1>1. CASE x.kind = "value"
  BY <1>1, DeterministicValues
<1>2. CASE x.kind = "member"
  <2>1. PICK v \in Phrases(ts) : MemberStart(ts, x, v)
    BY <1>2, MemberStarts
  <2>2. PICK w \in Phrases(ts) : MemberStart(ts, y, w)
    BY <1>2, MemberStarts DEF Alike
  <2>3. v = w
    <3>1. Alike(v, w) /\ v.kind = "value" /\ v.to <= b + 1 /\ w.to <= b + 1
      BY <2>1, <2>2 DEF MemberStart, Alike
    <3> QED
      BY <3>1, DeterministicValues
  <2>4. x.to = y.to /\ x.depth = y.depth /\ x.value = y.value
    <3>1. x.to = v.to /\ y.to = v.to /\ x.depth = v.depth /\ y.depth = v.depth
      BY <2>1, <2>2, <2>3 DEF MemberStart
    <3>2. x.value = ObjectValue(OneMember(Text[ts[x.from + 1].raw], v.value))
      BY <2>1 DEF MemberStart
    <3>3. y.value = ObjectValue(OneMember(Text[ts[y.from + 1].raw], v.value))
      BY <2>2, <2>3 DEF MemberStart
    <3>4. x.from = y.from
      BY DEF Alike
    <3> QED
      BY <3>1, <3>2, <3>3, <3>4
  <2> QED
    BY <2>4, SamePhrase, PhraseShaped
<1> QED
  BY <1>1, <1>2

\* The parts of a list that has items.
LEMMA LongerParts ==
  ASSUME NEW ts \in Seq(Token), NEW y \in Phrases(ts), NEW l \in Phrases(ts), NEW i \in Phrases(ts),
         IsLonger(ts, y, l, i)
  PROVE  /\ l.kind \in ListKinds /\ l.kind = y.kind /\ l.from = y.from /\ GoesOn(ts, l, i)
         /\ i.to = y.to /\ l.to \in Nat /\ i.to \in Nat /\ l.to < i.to
         /\ l.depth \in Nat /\ i.depth \in Nat /\ y.depth \in Nat
         /\ l.depth <= y.depth /\ i.depth <= y.depth
         /\ i.kind \in {"value", "member"}
<1>1. Shaped(l) /\ Shaped(i) /\ Shaped(y)
  BY PhraseShaped
<1>2. l.from \in Nat /\ l.to \in Nat /\ l.depth \in Nat /\ i.depth \in Nat /\ i.from \in Nat /\ i.to \in Nat
  BY <1>1 DEF Shaped
<1>3. /\ l.kind \in ListKinds /\ l.kind = y.kind /\ l.from = y.from /\ GoesOn(ts, l, i) /\ i.to = y.to
      /\ y.depth = Larger(l.depth, i.depth) /\ i.kind \in {"value", "member"}
  BY DEF IsLonger, GoesOn, Item, ListKinds
<1>4. i.from < i.to
  BY <1>1, <1>3 DEF Shaped, ListKinds
<1>5. l.to <= i.from
  BY <1>2, <1>3 DEF GoesOn
<1>6. y.depth \in Nat /\ l.depth <= y.depth /\ i.depth <= y.depth
  BY <1>2, <1>3, LargerIs
<1>7. l.to < i.to
  BY <1>2, <1>4, <1>5
<1> QED
  BY <1>2, <1>3, <1>6, <1>7

LEMMA DeterministicLists ==
  ASSUME NEW ts \in Seq(Token), NEW b \in Nat, Deterministic(ts, b),
         NEW x \in Phrases(ts), NEW y \in Phrases(ts), x.to <= b + 1, y.to <= b + 1,
         Alike(x, y), x.kind \in ListKinds
  PROVE  Comparable(ts, x, y)
<1>1. Shaped(x) /\ Shaped(y) /\ x.to \in Nat /\ y.to \in Nat /\ y.kind = x.kind /\ y.from = x.from
  BY PhraseShaped DEF Shaped, Alike
<1>2. ASSUME NEW l \in Phrases(ts), NEW i \in Phrases(ts), NEW j \in Phrases(ts),
             GoesOn(ts, l, i), GoesOn(ts, l, j), i.to <= b + 1, j.to <= b + 1
      PROVE  i = j
  BY <1>2, GoOnAlike, DeterministicItems DEF Alike
<1>3. ASSUME x.to < y.to PROVE GoesOnTo(ts, x, y)
  <2>1. y.from # y.to
    <3>1. x.from <= x.to /\ x.from \in Nat
      BY <1>1 DEF Shaped
    <3> QED
      BY <1>1, <1>3, <3>1
  <2>2. PICK l \in Phrases(ts), i \in Phrases(ts) : IsLonger(ts, y, l, i)
    BY <1>1, <2>1, ListIs
  <2>3. /\ Alike(l, x) /\ GoesOn(ts, l, i) /\ l.kind \in ListKinds
        /\ i.to = y.to /\ l.to \in Nat /\ l.to < y.to /\ i.depth <= y.depth
        /\ l.depth \in Nat /\ y.depth \in Nat /\ l.depth <= y.depth
    BY <1>1, <2>2, LongerParts DEF Alike
  <2>4. Comparable(ts, l, x) /\ Comparable(ts, x, l)
    <3>1. l.to <= b /\ x.to <= b
      BY <1>1, <1>3, <2>3
    <3> QED
      BY <2>3, <3>1 DEF Deterministic, Alike
  <2>5. CASE l.to = x.to
    <3>1. l = x
      BY <2>3, <2>4, <2>5 DEF Comparable
    <3> QED
      BY <1>1, <2>3, <3>1 DEF GoesOnTo
  <2>6. CASE l.to < x.to
    <3>1. PICK j \in Phrases(ts) : GoesOn(ts, l, j) /\ j.to <= x.to
      BY <2>3, <2>4, <2>6 DEF Comparable, GoesOnTo
    <3>2. j.to \in Nat
      BY PhraseShaped DEF Shaped
    <3>3. i = j
      BY <1>1, <1>2, <2>3, <3>1, <3>2
    <3> QED
      BY <1>1, <1>3, <2>3, <3>1, <3>3
  <2>7. CASE x.to < l.to
    <3>1. PICK j \in Phrases(ts) : GoesOn(ts, x, j) /\ j.to <= l.to /\ j.depth <= l.depth
      BY <2>4, <2>7 DEF Comparable, GoesOnTo
    <3>2. j.to \in Nat /\ j.depth \in Nat
      BY PhraseShaped DEF Shaped
    <3>3. j.to <= y.to /\ j.depth <= y.depth
      BY <1>1, <2>3, <3>1, <3>2
    <3> QED
      BY <3>1, <3>3 DEF GoesOnTo
  <2> QED
    BY <1>1, <2>3, <2>5, <2>6, <2>7
<1>4. ASSUME x.to = y.to PROVE x = y
  <2>1. CASE x.from = x.to
    <3>1. IsEmpty(ts, x) /\ IsEmpty(ts, y)
      BY <1>1, <1>4, <2>1, ListIs
    <3>2. x.value = y.value /\ x.depth = y.depth
      BY <1>1, <3>1 DEF IsEmpty
    <3> QED
      BY <1>1, <1>4, <3>2, SamePhrase
  <2>2. CASE x.from # x.to
    <3>1. PICK l \in Phrases(ts), i \in Phrases(ts) : IsLonger(ts, x, l, i)
      BY <2>2, ListIs
    <3>2. PICK k \in Phrases(ts), j \in Phrases(ts) : IsLonger(ts, y, k, j)
      BY <1>1, <1>4, <2>2, ListIs
    <3>3. /\ Alike(l, x) /\ GoesOn(ts, l, i) /\ l.kind \in ListKinds
          /\ i.to = x.to /\ l.to \in Nat /\ l.to < x.to
      BY <3>1, LongerParts DEF Alike
    <3>4. /\ Alike(k, x) /\ GoesOn(ts, k, j) /\ k.kind \in ListKinds
          /\ j.to = x.to /\ k.to \in Nat /\ k.to < x.to
      BY <1>1, <1>4, <3>2, LongerParts DEF Alike
    <3>5. Comparable(ts, l, k) /\ Comparable(ts, k, l)
      <4>1. l.to <= b /\ k.to <= b
        BY <1>1, <3>3, <3>4
      <4> QED
        BY <3>3, <3>4, <4>1 DEF Deterministic, Alike
    <3>6. ~(l.to < k.to)
      <4>1. SUFFICES ASSUME l.to < k.to PROVE FALSE
        OBVIOUS
      <4>2. PICK h \in Phrases(ts) : GoesOn(ts, l, h) /\ h.to <= k.to
        BY <3>3, <3>5, <4>1 DEF Comparable, GoesOnTo
      <4>3. h.to \in Nat
        BY PhraseShaped DEF Shaped
      <4>4. h = i
        BY <1>1, <1>2, <3>3, <3>4, <4>2, <4>3
      <4> QED
        BY <1>1, <3>3, <3>4, <4>2, <4>4
    <3>7. ~(k.to < l.to)
      <4>1. SUFFICES ASSUME k.to < l.to PROVE FALSE
        OBVIOUS
      <4>2. PICK h \in Phrases(ts) : GoesOn(ts, k, h) /\ h.to <= l.to
        BY <3>4, <3>5, <4>1 DEF Comparable, GoesOnTo
      <4>3. h.to \in Nat
        BY PhraseShaped DEF Shaped
      <4>4. h = j
        BY <1>1, <1>2, <3>3, <3>4, <4>2, <4>3
      <4> QED
        BY <1>1, <3>3, <3>4, <4>2, <4>4
    <3>8. l = k
      BY <3>3, <3>4, <3>5, <3>6, <3>7 DEF Comparable
    <3>9. i = j
      BY <1>1, <1>2, <3>3, <3>4, <3>8
    <3>10. x.value = y.value /\ x.depth = y.depth
      BY <3>1, <3>2, <3>8, <3>9 DEF IsLonger
    <3> QED
      BY <1>1, <1>4, <3>10, SamePhrase
  <2> QED
    BY <2>1, <2>2
<1>5. x.kind \notin {"value", "member"}
  BY DEF ListKinds
<1> QED
  BY <1>3, <1>4, <1>5 DEF Comparable

LEMMA Determinism ==
  ASSUME NEW ts \in Seq(Token), NEW x \in Phrases(ts), NEW y \in Phrases(ts), Alike(x, y)
  PROVE  Comparable(ts, x, y)
<1> DEFINE S == {b \in Nat : Deterministic(ts, b)}
<1>0. \A q \in Phrases(ts) : q.to \in Nat /\ q.to >= 1 /\ q.to <= Len(ts)
  BY PhraseShaped, LenProperties
<1>1. 0 \in S
  BY <1>0 DEF Deterministic
<1>2. ASSUME NEW b \in Nat, b \in S PROVE b + 1 \in S
  <2>1. ASSUME NEW p \in Phrases(ts), NEW q \in Phrases(ts), p.to <= b + 1, q.to <= b + 1, Alike(p, q)
        PROVE  Comparable(ts, p, q)
    <3>0. Deterministic(ts, b)
      BY <1>2
    <3>1. CASE p.kind \in {"value", "member"}
      <4>1. p = q
        BY <2>1, <3>0, <3>1, DeterministicItems
      <4>2. p.kind \notin ListKinds
        BY <3>1 DEF ListKinds
      <4> QED
        BY <4>1, <4>2 DEF Comparable
    <3>2. CASE p.kind \in ListKinds
      BY <2>1, <3>0, <3>2, DeterministicLists
    <3>3. p.kind \in {"value", "member"} \/ p.kind \in ListKinds
      BY PhraseShaped DEF Shaped, ListKinds
    <3> QED
      BY <3>1, <3>2, <3>3
  <2> QED
    BY <2>1 DEF Deterministic
<1>3. Len(ts) \in S
  <2> HIDE DEF S
  <2>1. Nat \subseteq S
    BY <1>1, <1>2, NatInduct
  <2> QED
    BY <2>1, LenProperties
<1> QED
  BY <1>0, <1>3 DEF Deterministic

-----------------------------------------------------------------------------
(* A phrase depends on no token behind it.                                  *)

Agree(ts, us, m) == m <= Len(ts) /\ m <= Len(us) /\ \A i \in 1..m : ts[i] = us[i]
Local(ts, us, b) == \A p \in Phrases(ts) : p.to <= b => p \in Phrases(us)

LEMMA LocalValue ==
  ASSUME NEW ts \in Seq(Token), NEW us \in Seq(Token), NEW m \in Nat, Agree(ts, us, m),
         NEW b \in Nat, b < m, Local(ts, us, b),
         NEW p \in Phrases(ts), p.to <= b + 1, p.kind = "value"
  PROVE  p \in Phrases(us)
<1>1. Shaped(p) /\ p.to \in 1..Len(ts) /\ Len(ts) \in Nat /\ Len(us) \in Nat
  BY PhraseShaped, LenProperties
<1>2. p.to \in 1..m /\ p.to \in 1..Len(us) /\ ts[p.to] = us[p.to]
  BY <1>1 DEF Agree
<1>3. CASE IsSingle(ts, p)
  <2>1. IsSingle(us, p)
    BY <1>2, <1>3 DEF IsSingle
  <2> QED
    BY <1>1, <1>2, <2>1, PhraseIs
<1>4. ASSUME NEW l \in Phrases(ts), IsContainer(ts, p, l) PROVE p \in Phrases(us)
  <2>1. l.to = p.to - 1 /\ l.from > 0 /\ l.from \in Nat /\ l.from <= l.to /\ l.to \in Nat
    BY <1>4, PhraseShaped DEF IsContainer, IsEnclosed, Shaped
  <2>2. l \in Phrases(us)
    BY <1>1, <2>1 DEF Local
  <2>3. ts[l.from] = us[l.from]
    BY <1>2, <2>1 DEF Agree
  <2>4. IsContainer(us, p, l)
    BY <1>2, <1>4, <2>3 DEF IsContainer, IsEnclosed
  <2> QED
    BY <1>1, <1>2, <2>2, <2>4, PhraseIs
<1>5. IsSingle(ts, p) \/ \E l \in Phrases(ts) : IsContainer(ts, p, l)
  BY PhraseIs DEF IsEmpty, IsMember, IsLonger, GoesOn, ListKinds
<1> QED
  BY <1>3, <1>4, <1>5

LEMMA LocalItem ==
  ASSUME NEW ts \in Seq(Token), NEW us \in Seq(Token), NEW m \in Nat, Agree(ts, us, m),
         NEW b \in Nat, b < m, Local(ts, us, b),
         NEW p \in Phrases(ts), p.to <= b + 1, p.kind \in {"value", "member"}
  PROVE  p \in Phrases(us)
<1>1. Shaped(p) /\ p.to \in 1..Len(ts) /\ Len(ts) \in Nat /\ Len(us) \in Nat
  BY PhraseShaped, LenProperties
<1>2. p.to \in 1..m /\ p.to \in 1..Len(us)
  BY <1>1 DEF Agree
<1>3. CASE p.kind = "value"
  BY <1>3, LocalValue
<1>4. CASE p.kind = "member"
  <2>1. PICK v \in Phrases(ts) : IsMember(ts, p, v)
    BY <1>4, PhraseIs DEF IsSingle, IsEmpty, IsContainer, IsLonger, GoesOn, ListKinds
  <2>2. v.kind = "value" /\ v.to = p.to /\ v.from \in Nat /\ v.from > 1 /\ v.from <= v.to
    BY <2>1, PhraseShaped DEF IsMember, IsNamed, Shaped
  <2>3. v \in Phrases(us)
    BY <2>2, LocalValue
  <2>4. ts[v.from] = us[v.from] /\ ts[v.from - 1] = us[v.from - 1]
    BY <1>2, <2>2 DEF Agree
  <2>5. IsMember(us, p, v)
    BY <2>1, <2>4 DEF IsMember, IsNamed
  <2> QED
    BY <1>1, <1>2, <2>3, <2>5, PhraseIs
<1> QED
  BY <1>3, <1>4

LEMMA Locality ==
  ASSUME NEW ts \in Seq(Token), NEW us \in Seq(Token), NEW m \in Nat, Agree(ts, us, m),
         NEW p \in Phrases(ts), p.to <= m
  PROVE  p \in Phrases(us)
<1> DEFINE S == {b \in Nat : b <= m => Local(ts, us, b)}
<1>1. 0 \in S
  BY PhraseShaped, LenProperties DEF Local
<1>2. ASSUME NEW b \in Nat, b \in S PROVE b + 1 \in S
  <2>1. SUFFICES ASSUME b + 1 <= m, NEW q \in Phrases(ts), q.to <= b + 1 PROVE q \in Phrases(us)
    BY DEF Local
  <2>2. Local(ts, us, b) /\ b < m
    BY <1>2, <2>1
  <2>3. Shaped(q) /\ q.to \in 1..Len(ts) /\ Len(ts) \in Nat /\ Len(us) \in Nat
    BY PhraseShaped, LenProperties
  <2>4. q.to \in 1..m /\ q.to \in 1..Len(us) /\ ts[q.to] = us[q.to]
    BY <2>1, <2>3 DEF Agree
  <2>5. CASE q.kind \in {"value", "member"}
    BY <2>1, <2>2, <2>5, LocalItem
  <2>6. CASE q.kind \in ListKinds
    <3>1. CASE IsEmpty(ts, q)
      <4>1. IsEmpty(us, q)
        BY <2>4, <3>1 DEF IsEmpty
      <4> QED
        BY <2>3, <2>4, <4>1, PhraseIs
    <3>2. ASSUME NEW l \in Phrases(ts), NEW i \in Phrases(ts), IsLonger(ts, q, l, i) PROVE q \in Phrases(us)
      <4>1. i.kind \in {"value", "member"} /\ i.to = q.to /\ l.to \in Nat /\ l.to < q.to /\ GoesOn(ts, l, i)
        BY <3>2, LongerParts
      <4>2. i \in Phrases(us) /\ l \in Phrases(us)
        <5>1. l.to <= b
          BY <2>1, <2>4, <4>1
        <5>2. l \in Phrases(us)
          BY <2>2, <5>1 DEF Local
        <5>3. i \in Phrases(us)
          BY <2>1, <2>2, <4>1, LocalItem
        <5> QED
          BY <5>2, <5>3
      <4>3. i.from \in Nat /\ i.to \in Nat /\ i.from <= i.to
        BY PhraseShaped DEF Shaped
      <4>4. i.from > 0 => ts[i.from] = us[i.from]
        BY <2>4, <4>1, <4>3 DEF Agree
      <4>5. GoesOn(us, l, i)
        BY <4>1, <4>4 DEF GoesOn
      <4>6. IsLonger(us, q, l, i)
        BY <3>2, <4>5 DEF IsLonger
      <4> QED
        BY <2>3, <2>4, <4>2, <4>6, PhraseIs
    <3> QED
      BY <2>6, <3>1, <3>2, ListIs
  <2> QED
    BY <2>3, <2>5, <2>6 DEF Shaped, ListKinds
<1>3. m \in S
  <2> HIDE DEF S
  <2> QED
    BY <1>1, <1>2, NatInduct
<1> QED
  BY <1>3 DEF Local

-----------------------------------------------------------------------------
(* The lists that are open, one in the other, and where a value is due.     *)

\* Where the next item of a list starts, and that there is to be one.
Start(l) == IF l.from = l.to THEN l.to ELSE l.to + 1
MayGoOn(ts, l) ==
  IF l.from = l.to THEN ts[l.to + 1].type # Closer[l.kind] ELSE ts[l.to + 1].type = "Comma"
KeyAt(ts, s) == ts[s + 1].type = "String" /\ Text[ts[s + 1].raw] # Invalid
NameAt(ts, s) == KeyAt(ts, s) /\ ts[s + 2].type = "Colon"
Due(ts, l, f) ==
  /\ MayGoOn(ts, l)
  /\ \/ l.kind = "elements" /\ f = Start(l)
     \/ l.kind = "members" /\ f = Start(l) + 2 /\ NameAt(ts, Start(l))

IsOpen(ts, l, m) ==
  /\ l \in Phrases(ts) /\ l.kind \in ListKinds /\ l.from > 0 /\ l.to <= m
  /\ ts[l.from].type = Opener[l.kind]
ValueDue(ts, L, k, f) == IF k = 0 THEN f = 0 ELSE Due(ts, L[k], f)
OpenLists(ts, L, K, m) ==
  \A k \in 1..K : /\ IsOpen(ts, L[k], m) /\ L[k].depth + k <= MaxDepth
                  /\ ValueDue(ts, L, k - 1, L[k].from - 1)

LEMMA DueIs ==
  ASSUME NEW ts \in Seq(Token), NEW l \in Phrases(ts), NEW f, Due(ts, l, f)
  PROVE  /\ l.kind \in ListKinds /\ l.to \in Nat /\ l.from \in Nat /\ Start(l) \in Nat /\ f \in Nat
         /\ l.to + 1 <= f + 1 /\ l.to <= Start(l)
<1>1. l.to \in Nat /\ l.from \in Nat
  BY PhraseShaped DEF Shaped
<1>2. Start(l) \in Nat /\ l.to <= Start(l)
  BY <1>1 DEF Start
<1> QED
  BY <1>1, <1>2 DEF Due, ListKinds

LEMMA LocalDue ==
  ASSUME NEW ts \in Seq(Token), NEW us \in Seq(Token), NEW m \in Nat, Agree(ts, us, m),
         NEW l \in Phrases(ts), NEW f, Due(ts, l, f), f + 1 <= m
  PROVE  Due(us, l, f)
<1>1. /\ l.kind \in ListKinds /\ l.to \in Nat /\ l.from \in Nat /\ Start(l) \in Nat /\ f \in Nat
      /\ l.to + 1 <= f + 1
  BY DueIs
<1>2. ts[l.to + 1] = us[l.to + 1]
  BY <1>1 DEF Agree
<1>3. MayGoOn(us, l)
  BY <1>2 DEF Due, MayGoOn
<1>4. CASE l.kind = "elements"
  BY <1>3, <1>4 DEF Due
<1>5. CASE l.kind = "members"
  <2>1. f = Start(l) + 2 /\ NameAt(ts, Start(l))
    BY <1>5 DEF Due
  <2>2. Start(l) + 1 \in 1..m /\ Start(l) + 2 \in 1..m
    BY <1>1, <2>1
  <2>3. ts[Start(l) + 1] = us[Start(l) + 1] /\ ts[Start(l) + 2] = us[Start(l) + 2]
    BY <2>2 DEF Agree
  <2>4. NameAt(us, Start(l))
    BY <2>1, <2>3 DEF NameAt, KeyAt
  <2> QED
    BY <1>3, <1>5, <2>1, <2>4 DEF Due
<1> QED
  BY <1>1, <1>4, <1>5 DEF ListKinds

LEMMA LocalOpen ==
  ASSUME NEW ts \in Seq(Token), NEW us \in Seq(Token), NEW m \in Nat, Agree(ts, us, m),
         NEW K \in Nat, NEW L, OpenLists(ts, L, K, m)
  PROVE  OpenLists(us, L, K, m)
<1>1. SUFFICES ASSUME NEW k \in 1..K
               PROVE  /\ IsOpen(us, L[k], m) /\ L[k].depth + k <= MaxDepth
                      /\ ValueDue(us, L, k - 1, L[k].from - 1)
  BY DEF OpenLists
<1> DEFINE l == L[k]
           j == k - 1
           g == L[j]
<1>2. /\ l \in Phrases(ts) /\ l.kind \in ListKinds /\ l.from > 0 /\ l.to <= m /\ l.depth + k <= MaxDepth
      /\ ts[l.from].type = Opener[l.kind]
  BY <1>1 DEF OpenLists, IsOpen
<1>3. l.from \in Nat /\ l.to \in Nat /\ l.from <= l.to
  BY <1>2, PhraseShaped DEF Shaped
<1>4. l \in Phrases(us)
  BY <1>2, Locality
<1>5. ts[l.from] = us[l.from]
  BY <1>2, <1>3 DEF Agree
<1>6. IsOpen(us, L[k], m)
  BY <1>2, <1>4, <1>5 DEF IsOpen
<1>7. ValueDue(ts, L, j, l.from - 1)
  BY <1>1 DEF OpenLists
<1>8. j \in Nat /\ (j # 0 => j \in 1..K)
  BY <1>1
<1>9. CASE j = 0
  BY <1>6, <1>7, <1>9, <1>2 DEF ValueDue
<1>10. CASE j # 0
  <2>1. g \in Phrases(ts)
    BY <1>8, <1>10 DEF OpenLists, IsOpen
  <2>2. Due(ts, g, l.from - 1)
    BY <1>7, <1>10 DEF ValueDue
  <2>3. (l.from - 1) + 1 <= m
    BY <1>2, <1>3
  <2> HIDE DEF l, g, j
  <2>4. Due(us, g, l.from - 1)
    BY <2>1, <2>2, <2>3, LocalDue
  <2>5. ValueDue(us, L, j, l.from - 1)
    BY <1>10, <2>4 DEF ValueDue, g
  <2> QED
    BY <1>2, <1>6, <2>5 DEF l, j
<1> QED
  BY <1>8, <1>9, <1>10

\* Of a value that starts with a list, whatever goes on after the list.
LEMMA ListInValue ==
  ASSUME NEW us \in Seq(Token), NEW V \in Phrases(us), V.kind = "value",
         NEW x \in Phrases(us), x.kind \in ListKinds, x.from = V.from + 1,
         us[x.from].type = Opener[x.kind]
  PROVE  \/ us[x.to + 1].type = Closer[x.kind]
         \/ \E i \in Phrases(us) : GoesOn(us, x, i) /\ i.depth + 1 <= V.depth
<1>1. ValueStart(us, V)
  BY ValueStarts
<1>2. PICK l \in Phrases(us) : /\ IsContainer(us, V, l) /\ l.kind \in ListKinds /\ l.from = V.from + 1
                               /\ us[V.from + 1].type = Opener[l.kind]
  <2>1. us[V.from + 1].type \notin {"True", "False", "Null", "String", "Number"}
    BY DEF Opener, ListKinds
  <2> QED
    BY <1>1, <2>1 DEF ValueStart
<1>3. Alike(x, l) /\ Alike(l, x)
  BY <1>2 DEF Alike, Opener, ListKinds
<1>4. Comparable(us, x, l) /\ Comparable(us, l, x)
  BY <1>3, Determinism
<1>5. /\ x.to \in Nat /\ l.to \in Nat /\ V.to \in Nat /\ l.to = V.to - 1
      /\ V.depth = l.depth + 1 /\ l.depth \in Nat /\ us[V.to].type = Closer[l.kind]
  BY <1>2, PhraseShaped DEF IsContainer, IsEnclosed, Shaped
<1>6. us[l.to + 1].type = Closer[x.kind] /\ l.kind = x.kind
  <2>1. l.to + 1 = V.to
    BY <1>5
  <2> QED
    BY <1>3, <1>5, <2>1 DEF Alike
<1>7. CASE x.to = l.to
  BY <1>6, <1>7
<1>8. CASE x.to < l.to
  <2>1. PICK i \in Phrases(us) : GoesOn(us, x, i) /\ i.depth <= l.depth
    BY <1>4, <1>8 DEF Comparable, GoesOnTo
  <2>2. i.depth \in Nat
    BY PhraseShaped DEF Shaped
  <2> QED
    BY <1>5, <2>1, <2>2
<1>9. CASE l.to < x.to
  <2>1. PICK i \in Phrases(us) : GoesOn(us, l, i)
    BY <1>2, <1>4, <1>9 DEF Comparable, GoesOnTo
  <2> QED
    BY <1>6, <2>1, NotCloser
<1> QED
  BY <1>5, <1>7, <1>8, <1>9

LEMMA GoesOnStart ==
  ASSUME NEW us, NEW x, NEW i, GoesOn(us, x, i)
  PROVE  i.from = Start(x) /\ i.kind = Item[x.kind]
  BY DEF GoesOn, Start

\* The value due in a list is one of the grammar, if any document goes on here.
LEMMA DueValue ==
  ASSUME NEW us \in Seq(Token), NEW x \in Phrases(us), NEW f, Due(us, x, f),
         NEW i \in Phrases(us), GoesOn(us, x, i)
  PROVE  \E v \in Phrases(us) : v.kind = "value" /\ v.from = f /\ v.depth = i.depth
<1>1. i.from = Start(x) /\ i.kind = Item[x.kind]
  BY GoesOnStart
<1>2. CASE x.kind = "elements"
  BY <1>1, <1>2 DEF Due, Item
<1>3. CASE x.kind = "members"
  <2>1. i.kind = "member"
    BY <1>1, <1>3 DEF Item
  <2>2. PICK v \in Phrases(us) : MemberStart(us, i, v)
    BY <2>1, MemberStarts
  <2> QED
    BY <1>1, <1>3, <2>2 DEF MemberStart, Due
<1> QED
  BY <1>2, <1>3 DEF Due

LEMMA MayGoOnIs ==
  ASSUME NEW us, NEW x, x.kind \in ListKinds, MayGoOn(us, x)
  PROVE  us[x.to + 1].type # Closer[x.kind]
  BY DEF MayGoOn, Closer, ListKinds

\* In a document that starts so there is a value where one is due.
LEMMA DueInDocument ==
  ASSUME NEW us \in Seq(Token), NEW n, NEW p \in Phrases(us), IsRoot(us, n, p),
         NEW m, NEW K \in Nat, NEW L, OpenLists(us, L, K, m),
         NEW f, ValueDue(us, L, K, f)
  PROVE  \E v \in Phrases(us) : v.kind = "value" /\ v.from = f /\ v.depth + K <= MaxDepth
<1> DEFINE Q(k, g) == \E v \in Phrases(us) : v.kind = "value" /\ v.from = g /\ v.depth + k <= MaxDepth
           S == {k \in Nat : k <= K => \A g : ValueDue(us, L, k, g) => Q(k, g)}
<1>1. 0 \in S
  <2>1. p.depth + 0 <= MaxDepth /\ p.kind = "value" /\ p.from = 0
    BY PhraseShaped DEF IsRoot, Shaped
  <2>2. ASSUME NEW g, ValueDue(us, L, 0, g) PROVE Q(0, g)
    BY <2>1, <2>2 DEF ValueDue
  <2> QED
    BY <2>2
<1>2. ASSUME NEW k \in Nat, k \in S PROVE k + 1 \in S
  <2>1. SUFFICES ASSUME k + 1 <= K, NEW g, ValueDue(us, L, k + 1, g) PROVE Q(k + 1, g)
    OBVIOUS
  <2> DEFINE j == k + 1
             x == L[j]
  <2>2. j \in 1..K /\ j - 1 = k /\ j # 0
    BY <2>1
  <2>3. /\ x \in Phrases(us) /\ x.kind \in ListKinds /\ x.from > 0 /\ us[x.from].type = Opener[x.kind]
        /\ ValueDue(us, L, k, x.from - 1)
    BY <2>2 DEF OpenLists, IsOpen
  <2>4. Due(us, x, g)
    BY <2>1, <2>2 DEF ValueDue
  <2>5. Q(k, x.from - 1)
    BY <1>2, <2>1, <2>3
  <2>6. PICK V \in Phrases(us) : V.kind = "value" /\ V.from = x.from - 1 /\ V.depth + k <= MaxDepth
    BY <2>5
  <2>7. x.from \in Nat /\ V.depth \in Nat
    BY <2>3, PhraseShaped DEF Shaped
  <2>8. x.from = V.from + 1
    BY <2>6, <2>7
  <2>9. us[x.to + 1].type # Closer[x.kind]
    BY <2>3, <2>4, MayGoOnIs DEF Due
  <2>10. PICK i \in Phrases(us) : GoesOn(us, x, i) /\ i.depth + 1 <= V.depth
    BY <2>3, <2>6, <2>8, <2>9, ListInValue
  <2>11. PICK v \in Phrases(us) : v.kind = "value" /\ v.from = g /\ v.depth = i.depth
    BY <2>3, <2>4, <2>10, DueValue
  <2>12. v.depth \in Nat
    BY PhraseShaped DEF Shaped
  <2>13. v.depth + (k + 1) <= MaxDepth
    BY <2>6, <2>7, <2>10, <2>11, <2>12, ParserAssumption
  <2> QED
    BY <2>11, <2>13
<1>3. K \in S
  <2> HIDE DEF S
  <2> QED
    BY <1>1, <1>2, NatInduct
<1> QED
  BY <1>3

-----------------------------------------------------------------------------
(* The tokens after which no document goes on.                              *)

\* No stream that begins with the first bad tokens is a document, as a whole or
\* up to an EOF behind them.
NoDocument(ts, bad) ==
  \A us \in Seq(Token) : \A n \in bad..Len(us) : \A p \in Phrases(us) :
    (\A i \in 1..bad : ts[i] = us[i]) => ~IsRoot(us, n, p)

\* What a document that starts so has in common with the stream.
LEMMA Continued ==
  ASSUME NEW ts \in Seq(Token), NEW b \in Nat, b + 1 \in 1..Len(ts),
         NEW us \in Seq(Token), NEW n \in (b + 1)..Len(us),
         \A i \in 1..(b + 1) : ts[i] = us[i]
  PROVE  /\ Agree(ts, us, b) /\ Agree(us, ts, b) /\ Agree(ts, us, b + 1)
         /\ us[b + 1] = ts[b + 1] /\ Len(us) \in Nat /\ n \in Nat
<1>1. Len(ts) \in Nat /\ Len(us) \in Nat
  BY LenProperties
<1> QED
  BY <1>1 DEF Agree

LEMMA LocalValueDue ==
  ASSUME NEW ts \in Seq(Token), NEW us \in Seq(Token), NEW b \in Nat, Agree(ts, us, b + 1),
         NEW K \in Nat, NEW L, OpenLists(ts, L, K, b), ValueDue(ts, L, K, b)
  PROVE  ValueDue(us, L, K, b)
<1>1. CASE K = 0
  BY <1>1 DEF ValueDue
<1>2. CASE K # 0
  <2>1. K \in 1..K
    BY <1>2
  <2>2. L[K] \in Phrases(ts) /\ Due(ts, L[K], b)
    BY <1>2, <2>1 DEF OpenLists, IsOpen, ValueDue
  <2> DEFINE l == L[K]
  <2> HIDE DEF l
  <2>3. l \in Phrases(ts) /\ Due(ts, l, b)
    BY <2>2 DEF l
  <2>4. Due(us, l, b)
    BY <2>3, LocalDue
  <2> QED
    BY <1>2, <2>4 DEF ValueDue, l
<1> QED
  BY <1>1, <1>2

\* A token that starts no value, or a container too many.
LEMMA BadValue ==
  ASSUME NEW ts \in Seq(Token), NEW b \in Nat, b + 1 \in 1..Len(ts),
         NEW K \in Nat, NEW L, OpenLists(ts, L, K, b), ValueDue(ts, L, K, b),
         Denoted(ts[b + 1]) = {}, ts[b + 1].type \notin Openers \/ K >= MaxDepth
  PROVE  NoDocument(ts, b + 1)
<1>1. SUFFICES ASSUME NEW us \in Seq(Token), NEW n \in (b + 1)..Len(us), NEW p \in Phrases(us),
                      \A i \in 1..(b + 1) : ts[i] = us[i], IsRoot(us, n, p)
               PROVE  FALSE
  BY DEF NoDocument
<1>2. Agree(ts, us, b) /\ Agree(ts, us, b + 1) /\ us[b + 1] = ts[b + 1]
  BY <1>1, Continued
<1>3. OpenLists(us, L, K, b) /\ ValueDue(us, L, K, b)
  BY <1>2, LocalOpen, LocalValueDue
<1>4. PICK v \in Phrases(us) : v.kind = "value" /\ v.from = b /\ v.depth + K <= MaxDepth
  BY <1>1, <1>3, DueInDocument
<1>5. ValueStart(us, v)
  BY <1>4, ValueStarts
<1>6. PICK l \in Phrases(us) : /\ IsContainer(us, v, l) /\ l.kind \in ListKinds
                               /\ us[b + 1].type = Opener[l.kind]
  BY <1>2, <1>4, <1>5 DEF ValueStart
<1>7. us[b + 1].type \in Openers
  BY <1>6 DEF Opener, ListKinds, Openers
<1>8. v.depth = l.depth + 1 /\ l.depth \in Nat
  BY <1>6, PhraseShaped DEF IsContainer, Shaped
<1> QED
  BY <1>2, <1>4, <1>7, <1>8, ParserAssumption

\* A list that is open in a document goes on or is closed.
LEMMA OpenInDocument ==
  ASSUME NEW us \in Seq(Token), NEW n, NEW p \in Phrases(us), IsRoot(us, n, p),
         NEW m, NEW K \in Nat, K # 0, NEW L, OpenLists(us, L, K, m),
         NEW x \in Phrases(us), Alike(x, L[K])
  PROVE  \/ us[x.to + 1].type = Closer[x.kind]
         \/ \E i \in Phrases(us) : GoesOn(us, x, i)
<1> DEFINE l == L[K]
           k == K - 1
<1>1. K \in 1..K /\ k \in Nat /\ k <= K
  OBVIOUS
<1>2. /\ l \in Phrases(us) /\ l.kind \in ListKinds /\ l.from > 0 /\ us[l.from].type = Opener[l.kind]
      /\ ValueDue(us, L, k, l.from - 1)
  BY <1>1 DEF OpenLists, IsOpen
<1>3. OpenLists(us, L, k, m)
  BY <1>1 DEF OpenLists
<1> HIDE DEF k
<1>4. PICK v \in Phrases(us) : v.kind = "value" /\ v.from = l.from - 1
  BY <1>1, <1>2, <1>3, DueInDocument
<1>5. l.from \in Nat /\ v.from \in Nat
  BY <1>2, PhraseShaped DEF Shaped
<1>6. x.from = v.from + 1 /\ x.kind \in ListKinds /\ us[x.from].type = Opener[x.kind]
  BY <1>2, <1>4, <1>5 DEF Alike
<1> QED
  BY <1>4, <1>6, ListInValue

\* A token that does not continue a member.
LEMMA BadMember ==
  ASSUME NEW ts \in Seq(Token), NEW b \in Nat, b + 1 \in 1..Len(ts),
         NEW K \in Nat, K # 0, NEW L, OpenLists(ts, L, K, b),
         L[K].kind = "members", MayGoOn(ts, L[K]),
         \/ Start(L[K]) = b /\ ~KeyAt(ts, b)
         \/ Start(L[K]) + 1 = b /\ ts[b + 1].type # "Colon"
  PROVE  NoDocument(ts, b + 1)
<1>1. SUFFICES ASSUME NEW us \in Seq(Token), NEW n \in (b + 1)..Len(us), NEW p \in Phrases(us),
                      \A i \in 1..(b + 1) : ts[i] = us[i], IsRoot(us, n, p)
               PROVE  FALSE
  BY DEF NoDocument
<1>2. Agree(ts, us, b) /\ us[b + 1] = ts[b + 1]
  BY <1>1, Continued
<1>3. OpenLists(us, L, K, b)
  BY <1>2, LocalOpen
<1> DEFINE l == L[K]
<1>4. K \in 1..K
  OBVIOUS
<1>5. l \in Phrases(us) /\ l.kind = "members" /\ l.kind \in ListKinds /\ l.to <= b
  BY <1>3, <1>4 DEF OpenLists, IsOpen
<1>6. l.to \in Nat /\ l.from \in Nat
  BY <1>5, PhraseShaped DEF Shaped
<1>7. us[l.to + 1] = ts[l.to + 1]
  BY <1>1, <1>5, <1>6
<1>8. us[l.to + 1].type # Closer[l.kind]
  BY <1>5, <1>7, MayGoOnIs
<1>9. PICK i \in Phrases(us) : GoesOn(us, l, i)
  BY <1>1, <1>3, <1>5, <1>8, OpenInDocument DEF Alike
<1>10. i.from = Start(l) /\ i.kind = "member"
  BY <1>5, <1>9, GoesOnStart DEF Item
<1> HIDE DEF l
<1>11. PICK v \in Phrases(us) : MemberStart(us, i, v)
  BY <1>10, MemberStarts
<1>12. Start(l) \in Nat
  BY <1>6 DEF Start
<1>13. CASE Start(l) = b /\ ~KeyAt(ts, b)
  BY <1>2, <1>10, <1>11, <1>13 DEF MemberStart, KeyAt
<1>14. CASE Start(l) + 1 = b /\ ts[b + 1].type # "Colon"
  <2>1. Start(l) + 2 = b + 1
    BY <1>12, <1>14
  <2> QED
    BY <1>2, <1>10, <1>11, <1>14, <2>1 DEF MemberStart
<1> QED
  BY <1>13, <1>14 DEF l

\* A token that neither closes a list that has items nor separates two.
LEMMA BadSeparator ==
  ASSUME NEW ts \in Seq(Token), NEW b \in Nat, b + 1 \in 1..Len(ts),
         NEW K \in Nat, K # 0, NEW L, OpenLists(ts, L, K, b),
         NEW x \in Phrases(ts), Alike(x, L[K]), x.to = b, x.from # b,
         ts[b + 1].type # "Comma", ts[b + 1].type # Closer[x.kind]
  PROVE  NoDocument(ts, b + 1)
<1>1. SUFFICES ASSUME NEW us \in Seq(Token), NEW n \in (b + 1)..Len(us), NEW p \in Phrases(us),
                      \A i \in 1..(b + 1) : ts[i] = us[i], IsRoot(us, n, p)
               PROVE  FALSE
  BY DEF NoDocument
<1>2. Agree(ts, us, b) /\ us[b + 1] = ts[b + 1]
  BY <1>1, Continued
<1>3. OpenLists(us, L, K, b)
  BY <1>2, LocalOpen
<1>4. x \in Phrases(us)
  BY <1>2, Locality
<1>5. PICK i \in Phrases(us) : GoesOn(us, x, i)
  BY <1>1, <1>2, <1>3, <1>4, OpenInDocument
<1>6. i.from = b + 1 /\ us[i.from].type = "Comma"
  BY <1>5 DEF GoesOn
<1> QED
  BY <1>2, <1>6

\* A token behind a value that is not in a list.
LEMMA BadEnd ==
  ASSUME NEW ts \in Seq(Token), NEW b \in Nat, b + 1 \in 1..Len(ts),
         NEW r \in Phrases(ts), r.kind = "value", r.from = 0, r.to = b,
         ts[b + 1].type # "EndOfFile"
  PROVE  NoDocument(ts, b + 1)
<1>1. SUFFICES ASSUME NEW us \in Seq(Token), NEW n \in (b + 1)..Len(us), NEW p \in Phrases(us),
                      \A i \in 1..(b + 1) : ts[i] = us[i], IsRoot(us, n, p)
               PROVE  FALSE
  BY DEF NoDocument
<1>2. Agree(ts, us, b) /\ us[b + 1] = ts[b + 1] /\ n \in Nat
  BY <1>1, Continued
<1>3. r \in Phrases(us)
  BY <1>2, Locality
<1>4. Comparable(us, r, p)
  BY <1>1, <1>3, Determinism DEF IsRoot, Alike
<1>5. r = p
  BY <1>4 DEF Comparable
<1>6. n = b + 1
  BY <1>1, <1>2, <1>5 DEF IsRoot
<1> QED
  BY <1>1, <1>2, <1>6 DEF IsRoot

-----------------------------------------------------------------------------
(* The grammar's rules, read from the parts to the whole.                   *)

LEMMA MakePhrase ==
  ASSUME NEW ts \in Seq(Token), NEW p, Shaped(p), p.to \in 1..Len(ts),
         \/ IsSingle(ts, p) \/ IsEmpty(ts, p)
         \/ \E l \in Phrases(ts) : IsContainer(ts, p, l)
         \/ \E v \in Phrases(ts) : IsMember(ts, p, v)
         \/ \E l \in Phrases(ts), i \in Phrases(ts) : IsLonger(ts, p, l, i)
  PROVE  p \in Phrases(ts)
  BY PhraseIs

LEMMA MakeShaped ==
  ASSUME NEW k \in {"value", "member", "elements", "members"}, NEW f \in Nat, NEW t \in Nat, NEW v,
         NEW d \in Nat, f <= t, k \notin ListKinds => f < t
  PROVE  Shaped(Phrase(k, f, t, v, d))
<1> DEFINE p == Phrase(k, f, t, v, d)
<1>1. p.kind = k /\ p.from = f /\ p.to = t /\ p.value = v /\ p.depth = d
  BY PhraseFields
<1>2. p = Phrase(p.kind, p.from, p.to, p.value, p.depth)
  BY <1>1
<1> HIDE DEF p
<1> QED
  BY <1>1, <1>2 DEF Shaped, p

\* What a phrase covers and means.
Spans(p, kind, from, to, value, depth) ==
  p.kind = kind /\ p.from = from /\ p.to = to /\ p.value = value /\ p.depth = depth

LEMMA MakeSingle ==
  ASSUME NEW ts \in Seq(Token), NEW b \in Nat, b + 1 \in 1..Len(ts), NEW v \in Denoted(ts[b + 1])
  PROVE  \E r \in Phrases(ts) : Spans(r, "value", b, b + 1, v, 0)
<1> DEFINE c == b + 1
           r == Phrase("value", b, c, v, 0)
<1>1. c \in Nat /\ b < c /\ b = c - 1 /\ c \in 1..Len(ts) /\ v \in Denoted(ts[c])
  OBVIOUS
<1> HIDE DEF c
<1>2. r.kind = "value" /\ r.from = b /\ r.to = c /\ r.value = v /\ r.depth = 0
  BY PhraseFields
<1>3. Shaped(r)
  BY <1>1, MakeShaped
<1> HIDE DEF r
<1>4. IsSingle(ts, r)
  BY <1>1, <1>2 DEF IsSingle
<1>5. r \in Phrases(ts)
  BY <1>1, <1>2, <1>3, <1>4, MakePhrase
<1> QED
  BY <1>2, <1>5 DEF c, Spans

LEMMA MakeEmpty ==
  ASSUME NEW ts \in Seq(Token), NEW c \in 1..Len(ts), NEW k \in ListKinds, ts[c].type = Opener[k]
  PROVE  \E x \in Phrases(ts) : /\ x.kind = k /\ x.from = c /\ x.to = c
                                /\ x.value = NoItems[k] /\ x.depth = 0
<1> DEFINE v == NoItems[k]
           x == Phrase(k, c, c, v, 0)
<1>1. c \in Nat /\ k \in {"value", "member", "elements", "members"} /\ v = NoItems[k]
  BY LenProperties DEF ListKinds
<1> HIDE DEF v
<1>2. x.kind = k /\ x.from = c /\ x.to = c /\ x.value = v /\ x.depth = 0
  BY PhraseFields
<1>3. Shaped(x)
  BY <1>1, MakeShaped
<1> HIDE DEF x
<1>4. IsEmpty(ts, x)
  BY <1>1, <1>2 DEF IsEmpty
<1>5. x \in Phrases(ts)
  BY <1>2, <1>3, <1>4, MakePhrase
<1> QED
  BY <1>1, <1>2, <1>5

LEMMA MakeContainer ==
  ASSUME NEW ts \in Seq(Token), NEW x \in Phrases(ts), x.kind \in ListKinds, x.from > 0,
         ts[x.from].type = Opener[x.kind], x.to + 1 \in 1..Len(ts), ts[x.to + 1].type = Closer[x.kind]
  PROVE  \E r \in Phrases(ts) : /\ r.kind = "value" /\ r.from = x.from - 1 /\ r.to = x.to + 1
                                /\ r.value = x.value /\ r.depth = x.depth + 1
<1> DEFINE f == x.from - 1
           t == x.to + 1
           d == x.depth + 1
           w == x.value
           r == Phrase("value", f, t, w, d)
<1>1. f \in Nat /\ t \in Nat /\ d \in Nat /\ f < t /\ x.to = t - 1 /\ t \in 1..Len(ts)
  BY PhraseShaped DEF Shaped
<1>2. f = x.from - 1 /\ t = x.to + 1 /\ d = x.depth + 1 /\ w = x.value
  OBVIOUS
<1> HIDE DEF f, t, d, w
<1>3. r.kind = "value" /\ r.from = f /\ r.to = t /\ r.value = w /\ r.depth = d
  BY PhraseFields
<1>4. Shaped(r)
  BY <1>1, MakeShaped
<1> HIDE DEF r
<1>5. IsContainer(ts, r, x)
  <2>1. IsEnclosed(ts, x, r.to)
    BY <1>1, <1>2, <1>3 DEF IsEnclosed
  <2> QED
    BY <1>2, <1>3, <2>1 DEF IsContainer
<1>6. r \in Phrases(ts)
  BY <1>1, <1>3, <1>4, <1>5, MakePhrase
<1> QED
  BY <1>2, <1>3, <1>6

\* What a list becomes when the value that is due in it has been read.
Extended(ts, l, v) ==
  IF l.kind = "elements" THEN ArrayValue(Append(l.value.elements, v))
  ELSE ObjectValue(WithMembers(l.value.members, OneMember(Text[ts[Start(l) + 1].raw], v)))
Extends(ts, x, l, r) ==
  /\ Alike(x, l) /\ x.to = r.to /\ x.from # x.to
  /\ x.depth = Larger(l.depth, r.depth) /\ x.value = Extended(ts, l, r.value)

LEMMA MakeLonger ==
  ASSUME NEW ts \in Seq(Token), NEW l \in Phrases(ts), NEW i \in Phrases(ts), GoesOn(ts, l, i)
  PROVE  \E x \in Phrases(ts) : /\ Alike(x, l) /\ x.to = i.to /\ x.from # x.to
                                /\ x.depth = Larger(l.depth, i.depth)
                                /\ x.value = WithItem(l.kind, l.value, i.value)
<1> DEFINE k == l.kind
           f == l.from
           t == i.to
           d == Larger(l.depth, i.depth)
           w == WithItem(l.kind, l.value, i.value)
           x == Phrase(k, f, t, w, d)
<1>1. f \in Nat /\ t \in Nat /\ l.to \in Nat /\ i.from \in Nat /\ f <= l.to /\ t \in 1..Len(ts) /\ d \in Nat
  BY PhraseShaped, LargerIs DEF Shaped
<1>2. k \in {"elements", "members"} /\ i.kind \in {"value", "member"}
  BY DEF GoesOn, ListKinds, Item
<1>3. i.from < i.to /\ l.to <= i.from
  BY <1>1, <1>2, PhraseShaped DEF Shaped, ListKinds, GoesOn
<1>4. f < t
  BY <1>1, <1>3
<1>5. k = l.kind /\ f = l.from /\ t = i.to /\ d = Larger(l.depth, i.depth) /\ w = WithItem(l.kind, l.value, i.value)
  OBVIOUS
<1> HIDE DEF k, f, t, d, w
<1>6. x.kind = k /\ x.from = f /\ x.to = t /\ x.value = w /\ x.depth = d
  BY PhraseFields
<1>7. Shaped(x)
  BY <1>1, <1>2, <1>4, MakeShaped
<1> HIDE DEF x
<1>8. IsLonger(ts, x, l, i)
  BY <1>5, <1>6 DEF IsLonger
<1>9. x \in Phrases(ts)
  BY <1>1, <1>6, <1>7, <1>8, MakePhrase
<1> QED
  BY <1>1, <1>4, <1>5, <1>6, <1>9 DEF Alike

LEMMA MakeMember ==
  ASSUME NEW ts \in Seq(Token), NEW v \in Phrases(ts), v.kind = "value", IsNamed(ts, v)
  PROVE  \E m \in Phrases(ts) : /\ m.kind = "member" /\ m.from = v.from - 2 /\ m.to = v.to /\ m.depth = v.depth
                                /\ m.value = ObjectValue(OneMember(Text[ts[v.from - 1].raw], v.value))
<1> DEFINE f == v.from - 2
           t == v.to
           d == v.depth
           w == ObjectValue(OneMember(Text[ts[v.from - 1].raw], v.value))
           m == Phrase("member", f, t, w, d)
<1>1. f \in Nat /\ t \in Nat /\ d \in Nat /\ f < t /\ t \in 1..Len(ts)
  BY PhraseShaped DEF Shaped, IsNamed
<1>2. f = v.from - 2 /\ t = v.to /\ d = v.depth /\ w = ObjectValue(OneMember(Text[ts[v.from - 1].raw], v.value))
  OBVIOUS
<1> HIDE DEF f, t, d, w
<1>3. m.kind = "member" /\ m.from = f /\ m.to = t /\ m.value = w /\ m.depth = d
  BY PhraseFields
<1>4. Shaped(m)
  BY <1>1, MakeShaped
<1> HIDE DEF m
<1>5. IsMember(ts, m, v)
  BY <1>2, <1>3 DEF IsMember
<1>6. m \in Phrases(ts)
  BY <1>1, <1>3, <1>4, <1>5, MakePhrase
<1> QED
  BY <1>2, <1>3, <1>6

LEMMA MakeExtended ==
  ASSUME NEW ts \in Seq(Token), NEW l \in Phrases(ts), NEW r \in Phrases(ts), r.kind = "value",
         Due(ts, l, r.from)
  PROVE  \E x \in Phrases(ts) : Extends(ts, x, l, r)
<1>1. l.kind \in ListKinds /\ l.to \in Nat /\ l.from \in Nat /\ Start(l) \in Nat /\ r.from \in Nat
  BY DueIs
<1>2. ASSUME NEW i, i.kind = Item[l.kind], i.from = Start(l) PROVE GoesOn(ts, l, i)
  BY <1>1, <1>2 DEF Due, MayGoOn, GoesOn, Start
<1>3. CASE l.kind = "elements"
  <2>1. GoesOn(ts, l, r)
    BY <1>2, <1>3 DEF Due, Item
  <2>2. PICK x \in Phrases(ts) : /\ Alike(x, l) /\ x.to = r.to /\ x.from # x.to
                                 /\ x.depth = Larger(l.depth, r.depth)
                                 /\ x.value = WithItem(l.kind, l.value, r.value)
    BY <2>1, MakeLonger
  <2>3. x.value = Extended(ts, l, r.value)
    BY <1>3, <2>2 DEF WithItem, Extended
  <2> QED
    BY <2>2, <2>3 DEF Extends
<1>4. CASE l.kind = "members"
  <2> DEFINE s == Start(l)
             key == Text[ts[s + 1].raw]
             w == OneMember(key, r.value)
  <2>1. r.from = s + 2 /\ NameAt(ts, s) /\ s \in Nat
    BY <1>1, <1>4 DEF Due
  <2>2. r.from - 1 = s + 1 /\ r.from = s + 2 /\ r.from - 2 = s /\ r.from > 1
    BY <2>1
  <2>3. IsNamed(ts, r)
    BY <2>1, <2>2 DEF IsNamed, NameAt, KeyAt
  <2>4. PICK m \in Phrases(ts) : /\ m.kind = "member" /\ m.from = r.from - 2 /\ m.to = r.to /\ m.depth = r.depth
                                 /\ m.value = ObjectValue(OneMember(Text[ts[r.from - 1].raw], r.value))
    BY <2>3, MakeMember
  <2>5. m.value = ObjectValue(w)
    BY <2>2, <2>4
  <2>6. GoesOn(ts, l, m)
    BY <1>2, <1>4, <2>2, <2>4 DEF Item
  <2>7. Extended(ts, l, r.value) = ObjectValue(WithMembers(l.value.members, w))
    BY <1>4 DEF Extended
  <2> HIDE DEF s, key, w
  <2>8. PICK x \in Phrases(ts) : /\ Alike(x, l) /\ x.to = m.to /\ x.from # x.to
                                 /\ x.depth = Larger(l.depth, m.depth)
                                 /\ x.value = WithItem(l.kind, l.value, m.value)
    BY <2>6, MakeLonger
  <2>9. m.value.members = w
    BY <2>5 DEF ObjectValue
  <2>10. x.value = ObjectValue(WithMembers(l.value.members, w))
    BY <1>4, <2>8, <2>9 DEF WithItem
  <2> QED
    BY <2>4, <2>7, <2>8, <2>10 DEF Extends
<1> QED
  BY <1>3, <1>4 DEF Due

-----------------------------------------------------------------------------
(* What the parser has read: for each activation the list of its container  *)
(* as far as it goes, and after them the value that parseValue returned.    *)

KindOf(f) == IF f.type = "LeftBrace" THEN "members" ELSE "elements"
Holds(l, f) == l.kind = KindOf(f) /\ l.value = ContainerValue(f)
KeyIs(ts, l, f) == f.type = "LeftBrace" => f.key = Text[ts[Start(l) + 1].raw]

Read(ts, fr, L, K, b) ==
  /\ OpenLists(ts, L, K, b)
  /\ \A k \in 1..K : Holds(L[k], fr[k])
  /\ \A k \in 1..(K - 1) : KeyIs(ts, L[k], fr[k])
ValueAt(ts, fr, L, K, f) == ValueDue(ts, L, K, f) /\ (K # 0 => KeyIs(ts, L[K], fr[K]))
ReadValue(ts, fr, L, K, b, v) ==
  \E r \in Phrases(ts) : /\ r.kind = "value" /\ r.to = b /\ r.value = v /\ r.depth + K <= MaxDepth
                         /\ ValueAt(ts, fr, L, K, r.from)

\* The activations that stay, and more tokens.
LEMMA ReadOn ==
  ASSUME NEW ts \in Seq(Token), NEW fr, NEW gr, NEW L, NEW K \in Nat, NEW J \in Nat, J <= K,
         NEW b \in Nat, NEW c \in Nat, b <= c,
         Read(ts, fr, L, K, b), \A k \in 1..J : gr[k] = fr[k]
  PROVE  Read(ts, gr, L, J, c)
<1>1. ASSUME NEW k \in 1..J PROVE IsOpen(ts, L[k], c)
  <2>1. IsOpen(ts, L[k], b)
    BY DEF Read, OpenLists
  <2>2. L[k].to \in Nat
    BY <2>1, PhraseShaped DEF IsOpen, Shaped
  <2> QED
    BY <2>1, <2>2 DEF IsOpen
<1>2. OpenLists(ts, L, J, c)
  BY <1>1 DEF Read, OpenLists
<1>3. \A k \in 1..J : Holds(L[k], gr[k])
  BY DEF Read
<1>4. \A k \in 1..(J - 1) : KeyIs(ts, L[k], gr[k])
  <2>1. \A k \in 1..(J - 1) : k \in 1..(K - 1) /\ gr[k] = fr[k]
    OBVIOUS
  <2> QED
    BY <2>1 DEF Read
<1> QED
  BY <1>2, <1>3, <1>4 DEF Read

\* Another function with the same lists.
LEMMA ReadAlso ==
  ASSUME NEW ts, NEW fr, NEW L, NEW M, NEW K \in Nat, NEW b, \A k \in 1..K : M[k] = L[k], Read(ts, fr, L, K, b)
  PROVE  Read(ts, fr, M, K, b)
<1>1. ASSUME NEW k \in 1..K PROVE ValueDue(ts, M, k - 1, M[k].from - 1)
  <2>1. ValueDue(ts, L, k - 1, L[k].from - 1)
    BY DEF Read, OpenLists
  <2>2. k - 1 = 0 \/ k - 1 \in 1..K
    OBVIOUS
  <2> QED
    BY <2>1, <2>2 DEF ValueDue
<1>2. OpenLists(ts, M, K, b)
  BY <1>1 DEF Read, OpenLists
<1>3. \A k \in 1..(K - 1) : k \in 1..K
  OBVIOUS
<1> QED
  BY <1>2, <1>3 DEF Read

LEMMA ReadEnter ==
  ASSUME NEW ts \in Seq(Token), NEW fr, NEW gr, NEW L, NEW K \in Nat, NEW b \in Nat, b + 1 \in 1..Len(ts),
         Read(ts, fr, L, K, b), ValueAt(ts, fr, L, K, b), K < MaxDepth,
         NEW g, KindOf(g) \in ListKinds, ts[b + 1].type = Opener[KindOf(g)], ContainerValue(g) = NoItems[KindOf(g)],
         \A k \in 1..K : gr[k] = fr[k], gr[K + 1] = g
  PROVE  \E M : Read(ts, gr, M, K + 1, b + 1) /\ M[K + 1].from = b + 1 /\ M[K + 1].to = b + 1
<1> DEFINE c == b + 1
           J == K + 1
           a == KindOf(g)
<1>1. PICK x \in Phrases(ts) : /\ x.kind = a /\ x.from = c /\ x.to = c
                               /\ x.value = NoItems[a] /\ x.depth = 0
  BY MakeEmpty
<1> DEFINE M == [k \in 1..J |-> IF k = J THEN x ELSE L[k]]
<1>2. M[J] = x /\ (\A k \in 1..K : M[k] = L[k]) /\ J \in Nat /\ c \in Nat /\ J - 1 = K /\ c - 1 = b
  OBVIOUS
<1>3. Read(ts, gr, L, K, c)
  BY ReadOn
<1> HIDE DEF M
<1>4. Read(ts, gr, M, K, c)
  BY <1>2, <1>3, ReadAlso
<1>5. ValueDue(ts, M, K, b)
  BY <1>2 DEF ValueAt, ValueDue
<1>6. IsOpen(ts, x, c) /\ x.depth + J <= MaxDepth
  BY <1>1, ParserAssumption DEF IsOpen
<1>7. OpenLists(ts, M, J, c)
  <2>1. ASSUME NEW k \in 1..J
        PROVE  IsOpen(ts, M[k], c) /\ M[k].depth + k <= MaxDepth /\ ValueDue(ts, M, k - 1, M[k].from - 1)
    <3>1. CASE k = J
      BY <1>1, <1>2, <1>5, <1>6, <3>1
    <3>2. CASE k # J
      BY <1>4, <3>2 DEF Read, OpenLists
    <3> QED
      BY <3>1, <3>2
  <2> QED
    BY <2>1 DEF OpenLists
<1>8. \A k \in 1..J : Holds(M[k], gr[k])
  <2>1. Holds(M[J], gr[J])
    BY <1>1, <1>2 DEF Holds
  <2>2. \A k \in 1..K : Holds(M[k], gr[k])
    BY <1>4 DEF Read
  <2>3. \A k \in 1..J : k = J \/ k \in 1..K
    OBVIOUS
  <2> QED
    BY <2>1, <2>2, <2>3
<1>9. \A k \in 1..K : KeyIs(ts, M[k], gr[k])
  <2>1. \A k \in 1..(K - 1) : KeyIs(ts, M[k], gr[k])
    BY <1>4 DEF Read
  <2>2. K # 0 => KeyIs(ts, M[K], gr[K])
    BY <1>2 DEF ValueAt
  <2>3. \A k \in 1..K : (k = K /\ K # 0) \/ k \in 1..(K - 1)
    OBVIOUS
  <2> QED
    BY <2>1, <2>2, <2>3
<1>10. Read(ts, gr, M, J, c)
  BY <1>2, <1>7, <1>8, <1>9 DEF Read
<1> QED
  BY <1>1, <1>2, <1>10

LEMMA ReadLeave ==
  ASSUME NEW ts \in Seq(Token), NEW fr, NEW gr, NEW L, NEW K \in Nat, K # 0, NEW b \in Nat, b + 1 \in 1..Len(ts),
         Read(ts, fr, L, K, b),
         NEW x \in Phrases(ts), Alike(x, L[K]), x.to = b, x.depth + K <= MaxDepth,
         ts[b + 1].type = Closer[x.kind],
         \A k \in 1..(K - 1) : gr[k] = fr[k]
  PROVE  Read(ts, gr, L, K - 1, b + 1) /\ ReadValue(ts, gr, L, K - 1, b + 1, x.value)
<1> DEFINE J == K - 1
           c == b + 1
           l == L[K]
<1>1. J \in Nat /\ J <= K /\ K \in 1..K /\ c \in Nat
  OBVIOUS
<1>2. /\ l \in Phrases(ts) /\ l.kind \in ListKinds /\ l.from > 0 /\ ts[l.from].type = Opener[l.kind]
      /\ ValueDue(ts, L, J, l.from - 1)
  BY <1>1 DEF Read, OpenLists, IsOpen
<1>3. Read(ts, gr, L, J, c)
  BY <1>1, ReadOn
<1>4. PICK r \in Phrases(ts) : /\ r.kind = "value" /\ r.from = x.from - 1 /\ r.to = c
                               /\ r.value = x.value /\ r.depth = x.depth + 1
  BY <1>2, MakeContainer DEF Alike
<1>5. r.depth + J <= MaxDepth
  <2>1. x.depth \in Nat
    BY PhraseShaped DEF Shaped
  <2> QED
    BY <1>4, <2>1
<1>6. ValueDue(ts, L, J, r.from)
  BY <1>2, <1>4 DEF Alike
<1>7. J # 0 => KeyIs(ts, L[J], gr[J])
  <2>1. J # 0 => J \in 1..(K - 1)
    OBVIOUS
  <2> QED
    BY <2>1 DEF Read
<1>8. ReadValue(ts, gr, L, J, c, x.value)
  BY <1>4, <1>5, <1>6, <1>7 DEF ReadValue, ValueAt
<1> QED
  BY <1>3, <1>8

\* Storing the value makes the list longer.
StoredIn(f, v, g) ==
  /\ g.type = f.type
  /\ IF f.type = "LeftBrace" THEN g.members = Emplace(f.members, f.key, v)
                             ELSE g.elements = Append(f.elements, v)

LEMMA StoredValue ==
  ASSUME NEW ts, NEW l, NEW f, NEW v, NEW g, Holds(l, f), KeyIs(ts, l, f), StoredIn(f, v, g)
  PROVE  Extended(ts, l, v) = ContainerValue(g) /\ KindOf(g) = KindOf(f)
<1>1. CASE f.type = "LeftBrace"
  <2> DEFINE w == OneMember(f.key, v)
  <2>1. f.key = Text[ts[Start(l) + 1].raw]
    BY <1>1 DEF KeyIs
  <2>2. Extended(ts, l, v) = ObjectValue(WithMembers(l.value.members, w))
    BY <1>1, <2>1 DEF Extended, Holds, KindOf
  <2>3. g.members = WithMembers(f.members, w)
    BY <1>1 DEF StoredIn, Emplace
  <2> HIDE DEF w
  <2>4. l.value.members = f.members
    BY <1>1 DEF Holds, ContainerValue, ObjectValue
  <2> QED
    BY <1>1, <2>2, <2>3, <2>4 DEF StoredIn, ContainerValue, KindOf
<1>2. CASE f.type # "LeftBrace"
  <2>1. l.value.elements = f.elements
    BY <1>2 DEF Holds, ContainerValue, ArrayValue
  <2>2. Extended(ts, l, v) = ArrayValue(Append(l.value.elements, v))
    BY <1>2 DEF Extended, Holds, KindOf
  <2>3. g.elements = Append(f.elements, v) /\ g.type = f.type
    BY <1>2 DEF StoredIn
  <2> QED
    BY <1>2, <2>1, <2>2, <2>3 DEF ContainerValue, KindOf
<1> QED
  BY <1>1, <1>2

\* List l as long as the tokens up to b allow, and what is in it.
Lengthened(x, l, K, b, g) ==
  Alike(x, l) /\ x.to = b /\ x.from # b /\ x.depth + K <= MaxDepth /\ Holds(x, g)

LEMMA ReadStore ==
  ASSUME NEW ts \in Seq(Token), NEW fr, NEW L, NEW K \in Nat, K # 0, NEW b \in Nat,
         Read(ts, fr, L, K, b), NEW v, ReadValue(ts, fr, L, K, b, v),
         NEW g, StoredIn(fr[K], v, g)
  PROVE  \E x \in Phrases(ts) : Lengthened(x, L[K], K, b, g)
<1> DEFINE l == L[K]
           f == fr[K]
<1>1. K \in 1..K
  OBVIOUS
<1>2. l \in Phrases(ts) /\ l.depth + K <= MaxDepth /\ Holds(l, f)
  BY <1>1 DEF Read, OpenLists, IsOpen
<1>3. PICK r \in Phrases(ts) : /\ r.kind = "value" /\ r.to = b /\ r.value = v /\ r.depth + K <= MaxDepth
                               /\ Due(ts, l, r.from) /\ KeyIs(ts, l, f)
  BY DEF ReadValue, ValueAt, ValueDue
<1> HIDE DEF l, f
<1>4. PICK x \in Phrases(ts) : Extends(ts, x, l, r)
  BY <1>2, <1>3, MakeExtended
<1>5. StoredIn(f, v, g)
  BY DEF f
<1>6. Holds(x, g)
  BY <1>2, <1>3, <1>4, <1>5, StoredValue DEF Extends, Alike, Holds
<1>7. x.depth + K <= MaxDepth
  <2>1. l.depth \in Nat /\ r.depth \in Nat
    BY <1>2, PhraseShaped DEF Shaped
  <2>2. x.depth \in {l.depth, r.depth}
    BY <1>4, <2>1, LargerIs DEF Extends
  <2> QED
    BY <1>2, <1>3, <2>2
<1> QED
  BY <1>3, <1>4, <1>6, <1>7 DEF Extends, Lengthened, l

\* The innermost list replaced by a longer one.
LEMMA ReadReplace ==
  ASSUME NEW ts \in Seq(Token), NEW fr, NEW gr, NEW L, NEW K \in Nat, K # 0, NEW b \in Nat, NEW c \in Nat, b <= c,
         Read(ts, fr, L, K, b),
         NEW x \in Phrases(ts), Lengthened(x, L[K], K, b, gr[K]),
         \A k \in 1..(K - 1) : gr[k] = fr[k]
  PROVE  \E M : Read(ts, gr, M, K, c) /\ M[K] = x
<1> DEFINE M == [k \in 1..K |-> IF k = K THEN x ELSE L[k]]
           J == K - 1
<1>0. Alike(x, L[K]) /\ x.to <= c /\ x.depth + K <= MaxDepth /\ Holds(x, gr[K])
  BY DEF Lengthened
<1>1. M[K] = x /\ (\A k \in 1..J : M[k] = L[k]) /\ J \in Nat /\ J <= K /\ K \in 1..K
  OBVIOUS
<1> HIDE DEF M
<1>2. Read(ts, gr, L, J, c)
  BY <1>1, ReadOn
<1>3. Read(ts, gr, M, J, c)
  BY <1>1, <1>2, ReadAlso
<1>4. IsOpen(ts, L[K], b) /\ ValueDue(ts, L, J, L[K].from - 1)
  BY <1>1 DEF Read, OpenLists
<1>5. IsOpen(ts, x, c)
  BY <1>0, <1>4 DEF IsOpen, Alike
<1>6. ValueDue(ts, M, J, x.from - 1)
  BY <1>0, <1>1, <1>4 DEF ValueDue, Alike
<1>7. OpenLists(ts, M, K, c)
  <2>1. ASSUME NEW k \in 1..K
        PROVE  IsOpen(ts, M[k], c) /\ M[k].depth + k <= MaxDepth /\ ValueDue(ts, M, k - 1, M[k].from - 1)
    <3>1. CASE k = K
      BY <1>0, <1>1, <1>5, <1>6, <3>1
    <3>2. CASE k # K
      BY <1>3, <3>2 DEF Read, OpenLists
    <3> QED
      BY <3>1, <3>2
  <2> QED
    BY <2>1 DEF OpenLists
<1>8. \A k \in 1..K : Holds(M[k], gr[k])
  BY <1>0, <1>1, <1>3 DEF Read
<1>9. \A k \in 1..(K - 1) : KeyIs(ts, M[k], gr[k])
  <2>1. \A k \in 1..J : KeyIs(ts, L[k], gr[k])
    BY DEF Read
  <2> QED
    BY <1>1, <2>1
<1>10. Read(ts, gr, M, K, c)
  BY <1>7, <1>8, <1>9 DEF Read
<1> QED
  BY <1>1, <1>10

-----------------------------------------------------------------------------
(* ReadInv: the lists of the open containers and the returned value are     *)
(* phrases, and where a value is due is where the parser looks for one.     *)

AtPoint(at, ts, fr, L, K, b, v) ==
  /\ at = "value" => ValueAt(ts, fr, L, K, b)
  /\ at = "open" => L[K].from = b /\ L[K].to = b
  /\ at = "key" => L[K].kind = "members" /\ MayGoOn(ts, L[K]) /\ Start(L[K]) = b
  /\ at = "return" => ReadValue(ts, fr, L, K, b, v)
HasRead(ts, fr, K, b, at, v) == \E L : Read(ts, fr, L, K, b) /\ AtPoint(at, ts, fr, L, K, b, v)

ReadInv == Running => HasRead(tokens, frames, Len(frames), current - 1, pc, ret)
EofAhead == Running => \A i \in 1..(current - 1) : tokens[i].type # "EndOfFile"

LEMMA Where ==
  ASSUME Inv, Running
  PROVE  /\ tokens \in Seq(Token) /\ Len(tokens) \in Nat
         /\ current - 1 \in Nat /\ (current - 1) + 1 = current /\ (current - 1) + 1 \in 1..Len(tokens)
         /\ tokens[(current - 1) + 1].type = Peek
         /\ IsSeq(frames) /\ Len(frames) \in Nat /\ (frames = <<>> <=> Len(frames) = 0)
         /\ currentDepth = Len(frames) /\ Len(frames) <= MaxDepth
         /\ \A k \in 1..Len(frames) : Frame(frames[k])
<1>1. tokens \in Seq(Token) /\ Len(tokens) \in Nat /\ current \in 1..Len(tokens)
  BY LenProperties DEF Inv, TypeInv, ControlInv
<1>2. (current - 1) + 1 = current /\ current - 1 \in Nat
  BY <1>1
<1>3. IsSeq(frames) /\ Len(frames) \in Nat /\ (frames = <<>> <=> Len(frames) = 0)
  BY SeqLen DEF Inv, TypeInv
<1> QED
  BY <1>1, <1>2, <1>3 DEF Inv, TypeInv, DepthInv, Peek

\* The innermost activation of an empty stack, and of one that is not.
LEMMA WhereTop ==
  ASSUME Inv, Running, frames # <<>>
  PROVE  /\ Len(frames) # 0 /\ Len(frames) \in 1..Len(frames)
         /\ Top = frames[Len(frames)] /\ Frame(Top)
         /\ Top.type \in {"LeftBrace", "LeftBracket"}
         /\ CloserOf(Top.type) = Closer[KindOf(Top)] /\ KindOf(Top) \in ListKinds
<1>1. Top = frames[Len(frames)] /\ Frame(Top) /\ Len(frames) \in 1..Len(frames)
  BY TopFrame
<1>2. Top.type \in {"LeftBrace", "LeftBracket"}
  BY <1>1 DEF Frame, ObjectFrame, ArrayFrame
<1>3. Len(frames) # 0
  BY <1>1, Where
<1> QED
  BY <1>1, <1>2, <1>3 DEF CloserOf, Closer, KindOf, ListKinds

\* A token is consumed as a value.
LEMMA TokenStep ==
  ASSUME Inv, ReadInv, pc = "value", NEW v \in Denoted(tokens[current]), Return(v, current + 1),
         frames' = frames
  PROVE  ReadInv'
<1> DEFINE b == current - 1
           K == Len(frames)
           c == b + 1
<1>0. Running
  BY DEF Running
<1>1. /\ tokens \in Seq(Token) /\ b \in Nat /\ c = current /\ c \in 1..Len(tokens) /\ K \in Nat /\ K <= MaxDepth
      /\ c \in Nat /\ b <= c
  BY <1>0, Where
<1>2. PICK L : Read(tokens, frames, L, K, b) /\ ValueAt(tokens, frames, L, K, b)
  BY <1>0 DEF ReadInv, HasRead, AtPoint
<1>3. current' - 1 = c /\ ret' = v /\ pc' = "return" /\ tokens' = tokens /\ v \in Denoted(tokens[c])
  BY <1>1 DEF Return
<1> HIDE DEF K, b
<1>4. PICK r \in Phrases(tokens) : r.kind = "value" /\ r.from = b /\ r.to = c /\ r.value = v /\ r.depth = 0
  <2>1. b \in Nat /\ b + 1 \in 1..Len(tokens) /\ v \in Denoted(tokens[b + 1]) /\ tokens \in Seq(Token)
    BY <1>1, <1>3
  <2>2. PICK r \in Phrases(tokens) : Spans(r, "value", b, b + 1, v, 0)
    BY <2>1, MakeSingle
  <2> QED
    BY <2>2 DEF Spans
<1>5. Read(tokens, frames, L, K, c)
  BY <1>1, <1>2, ReadOn
<1>6. r.depth + K <= MaxDepth
  BY <1>1, <1>4
<1>7. ReadValue(tokens, frames, L, K, c, v)
  BY <1>2, <1>4, <1>6 DEF ReadValue
<1>8. HasRead(tokens, frames, K, c, "return", v)
  BY <1>5, <1>7 DEF HasRead, AtPoint
<1> QED
  BY <1>3, <1>8 DEF ReadInv, K

\* A container is entered.
LEMMA EnterStep ==
  ASSUME Inv, ReadInv, pc = "value", currentDepth < MaxDepth, NEW g, Enter(g),
         KindOf(g) \in ListKinds, Peek = Opener[KindOf(g)], ContainerValue(g) = NoItems[KindOf(g)]
  PROVE  ReadInv'
<1> DEFINE b == current - 1
           K == Len(frames)
           fr == frames
           gr == frames'
<1>0. Running
  BY DEF Running
<1>1. /\ tokens \in Seq(Token) /\ b \in Nat /\ b + 1 = current /\ b + 1 \in 1..Len(tokens) /\ K \in Nat
      /\ tokens[b + 1].type = Peek /\ IsSeq(fr) /\ K < MaxDepth
  BY <1>0, Where
<1>2. PICK L : Read(tokens, fr, L, K, b) /\ ValueAt(tokens, fr, L, K, b)
  BY <1>0 DEF ReadInv, HasRead, AtPoint
<1>3. current' - 1 = b + 1 /\ pc' = "open" /\ tokens' = tokens /\ gr = Append(fr, g)
  BY <1>1 DEF Enter
<1> HIDE DEF b
<1>4. Len(gr) = K + 1 /\ (\A k \in 1..K : gr[k] = fr[k]) /\ gr[K + 1] = g
  <2> HIDE DEF fr, gr
  <2> QED
    BY <1>1, <1>3, SeqAppend DEF fr
<1> HIDE DEF K, fr, gr
<1>5. PICK M : Read(tokens, gr, M, K + 1, b + 1) /\ M[K + 1].from = b + 1 /\ M[K + 1].to = b + 1
  BY <1>1, <1>2, <1>4, ReadEnter
<1>6. HasRead(tokens, gr, K + 1, b + 1, "open", ret')
  BY <1>5 DEF HasRead, AtPoint
<1> QED
  BY <1>3, <1>4, <1>6 DEF ReadInv, gr

\* A container is left.
LEMMA LeaveStep ==
  ASSUME Inv, ReadInv, pc \in {"open", "return"}, frames # <<>>, NEW g, Leave(g), KindOf(g) = KindOf(Top),
         Peek = CloserOf(Top.type),
         NEW L, Read(tokens, frames, L, Len(frames), current - 1),
         NEW x \in Phrases(tokens), Alike(x, L[Len(frames)]), x.to = current - 1,
         x.depth + Len(frames) <= MaxDepth, Holds(x, g)
  PROVE  ReadInv'
<1> DEFINE b == current - 1
           K == Len(frames)
           fr == frames
           gr == frames'
<1>0. Running
  BY DEF Running
<1>1. /\ tokens \in Seq(Token) /\ b \in Nat /\ b + 1 = current /\ b + 1 \in 1..Len(tokens) /\ K \in Nat
      /\ tokens[b + 1].type = Peek /\ IsSeq(fr) /\ fr # <<>> /\ K # 0
  BY <1>0, Where
<1>2. current' - 1 = b + 1 /\ pc' = "return" /\ tokens' = tokens /\ gr = Front(fr) /\ ret' = x.value
  BY <1>1 DEF Leave, Return, Holds
<1>3. Peek = Closer[x.kind]
  BY <1>0, WhereTop DEF Holds
<1>4. /\ Read(tokens, fr, L, K, b) /\ Alike(x, L[K]) /\ x.to = b /\ x.depth + K <= MaxDepth
      /\ tokens[b + 1].type = Closer[x.kind]
  BY <1>1, <1>3
<1> HIDE DEF b
<1>5. Len(gr) = K - 1 /\ (\A k \in 1..(K - 1) : gr[k] = fr[k])
  <2> HIDE DEF fr, gr
  <2> QED
    BY <1>1, <1>2, SeqFront DEF fr
<1> HIDE DEF K, fr, gr
<1>6. Read(tokens, gr, L, K - 1, b + 1) /\ ReadValue(tokens, gr, L, K - 1, b + 1, x.value)
  BY <1>1, <1>4, <1>5, ReadLeave
<1>7. HasRead(tokens, gr, K - 1, b + 1, "return", x.value)
  BY <1>6 DEF HasRead, AtPoint
<1> QED
  BY <1>2, <1>5, <1>7 DEF ReadInv, gr

LEMMA CloseEmptyStep ==
  ASSUME Inv, ReadInv, CloseEmpty
  PROVE  ReadInv'
<1>1. Running /\ pc = "open" /\ frames # <<>> /\ Leave(Top) /\ Peek = CloserOf(Top.type)
  BY DEF CloseEmpty, Running, Inv, ControlInv
<1> DEFINE b == current - 1
           K == Len(frames)
<1>2. PICK L : Read(tokens, frames, L, K, b) /\ L[K].to = b
  BY <1>1 DEF ReadInv, HasRead, AtPoint
<1>3. K \in 1..K /\ Top = frames[K]
  BY <1>1, WhereTop
<1>4. L[K] \in Phrases(tokens) /\ L[K].depth + K <= MaxDepth /\ Holds(L[K], Top)
  BY <1>2, <1>3 DEF Read, OpenLists, IsOpen
<1>5. Alike(L[K], L[K])
  BY DEF Alike
<1> DEFINE x == L[K]
<1>6. x \in Phrases(tokens) /\ Alike(x, L[Len(frames)]) /\ x.to = current - 1
      /\ x.depth + Len(frames) <= MaxDepth /\ Holds(x, Top)
  BY <1>2, <1>4, <1>5
<1> HIDE DEF x
<1> QED
  BY <1>1, <1>2, <1>6, LeaveStep

\* The value that was returned is stored in the innermost list.
LEMMA StoredIs ==
  ASSUME Inv, frames # <<>>
  PROVE  StoredIn(Top, ret, Stored) /\ KindOf(Stored) = KindOf(Top)
<1> DEFINE f == Top
           g == Stored
<1>1. Frame(f) /\ g.type = f.type
  BY TopFrame, StoredFrame
<1>2. CASE f.type = "LeftBrace"
  <2>1. ObjectFrame(Top)
    BY <1>1, <1>2 DEF Frame, ArrayFrame
  <2> DEFINE w == Emplace(Top.members, Top.key, ret)
  <2>2. Stored = [Top EXCEPT !.members = w]
    BY <1>2 DEF Stored
  <2> HIDE DEF w
  <2>3. Stored.members = w
    BY <2>1, <2>2 DEF ObjectFrame
  <2>4. Stored.members = Emplace(Top.members, Top.key, ret)
    BY <2>3 DEF w
  <2> QED
    BY <1>1, <1>2, <2>4, Zenon DEF StoredIn, KindOf
<1>3. CASE f.type # "LeftBrace"
  <2>1. ArrayFrame(Top)
    BY <1>1, <1>3 DEF Frame, ObjectFrame
  <2>2. Stored.elements = Append(Top.elements, ret)
    BY <1>3, <2>1 DEF Stored, ArrayFrame
  <2> QED
    BY <1>1, <1>3, <2>2, Zenon DEF StoredIn, KindOf
<1> QED
  BY <1>2, <1>3

LEMMA StoredRead ==
  ASSUME Inv, ReadInv, pc = "return", frames # <<>>
  PROVE  \E L : /\ Read(tokens, frames, L, Len(frames), current - 1)
                /\ \E x \in Phrases(tokens) : Lengthened(x, L[Len(frames)], Len(frames), current - 1, Stored)
<1> DEFINE b == current - 1
           K == Len(frames)
           f == frames[K]
           g == Stored
<1>0. Running
  BY DEF Running
<1>1. PICK L : Read(tokens, frames, L, K, b) /\ ReadValue(tokens, frames, L, K, b, ret)
  BY <1>0 DEF ReadInv, HasRead, AtPoint
<1>2. K \in Nat /\ K # 0 /\ b \in Nat /\ tokens \in Seq(Token)
  BY <1>0, Where, WhereTop
<1>3. StoredIn(f, ret, g)
  BY <1>0, StoredIs, WhereTop
<1> HIDE DEF b, K, g
<1>4. \E x \in Phrases(tokens) : Lengthened(x, L[K], K, b, g)
  <2>1. /\ tokens \in Seq(Token) /\ K \in Nat /\ K # 0 /\ b \in Nat /\ Read(tokens, frames, L, K, b)
        /\ ReadValue(tokens, frames, L, K, b, ret) /\ StoredIn(frames[K], ret, g)
    BY <1>1, <1>2, <1>3
  <2> QED
    BY <2>1, ReadStore
<1> QED
  BY <1>1, <1>4 DEF b, K, g

LEMMA CloseContainerStep ==
  ASSUME Inv, ReadInv, CloseContainer
  PROVE  ReadInv'
<1>1. pc = "return" /\ frames # <<>> /\ Leave(Stored) /\ Peek = CloserOf(Top.type)
  BY DEF CloseContainer
<1>2. PICK L : /\ Read(tokens, frames, L, Len(frames), current - 1)
               /\ \E x \in Phrases(tokens) : Lengthened(x, L[Len(frames)], Len(frames), current - 1, Stored)
  BY <1>1, StoredRead
<1>3. PICK x \in Phrases(tokens) :
                     /\ Alike(x, L[Len(frames)]) /\ x.to = current - 1
                     /\ x.depth + Len(frames) <= MaxDepth /\ Holds(x, Stored)
  BY <1>2 DEF Lengthened
<1>4. KindOf(Stored) = KindOf(Top)
  BY <1>1, StoredIs
<1> DEFINE g == Stored
<1>5. Leave(g) /\ KindOf(g) = KindOf(Top) /\ Holds(x, g)
  BY <1>1, <1>3, <1>4
<1> HIDE DEF g
<1> QED
  BY <1>1, <1>2, <1>3, <1>5, LeaveStep

\* A list after its comma.
LEMMA AfterComma ==
  ASSUME NEW ts, NEW x, x.from # x.to, ts[x.to + 1].type = "Comma"
  PROVE  /\ Start(x) = x.to + 1 /\ MayGoOn(ts, x)
         /\ x.kind = "elements" => Due(ts, x, x.to + 1)
  BY DEF Start, MayGoOn, Due

LEMMA NextElementStep ==
  ASSUME Inv, ReadInv, NextElement
  PROVE  ReadInv'
<1> DEFINE b == current - 1
           c == b + 1
           K == Len(frames)
           fr == frames
           gr == frames'
           g == Stored
<1>0. Running /\ pc = "return" /\ frames # <<>> /\ Peek = "Comma"
  BY DEF NextElement, Running
<1>1. /\ tokens \in Seq(Token) /\ b \in Nat /\ c = current /\ c \in 1..Len(tokens) /\ K \in Nat
      /\ tokens[c].type = "Comma" /\ IsSeq(fr) /\ fr # <<>> /\ K # 0 /\ c \in Nat /\ b <= c
  BY <1>0, Where
<1>2. PICK L : /\ Read(tokens, fr, L, K, b)
               /\ \E x \in Phrases(tokens) : Lengthened(x, L[K], K, b, g)
  BY <1>0, StoredRead
<1>3. PICK x \in Phrases(tokens) : Lengthened(x, L[K], K, b, g)
  BY <1>2
<1>15. x.to = b /\ x.from # b /\ x.depth + K <= MaxDepth /\ Holds(x, g)
  BY <1>3 DEF Lengthened
<1>4. /\ current' - 1 = c /\ tokens' = tokens /\ gr = SetTop(g)
      /\ pc' = IF Top.type = "LeftBrace" THEN "key" ELSE "value"
  BY <1>1 DEF NextElement, Advance
<1>5. KindOf(g) = KindOf(Top)
  BY <1>0, StoredIs
<1>6. Top.type \in {"LeftBrace", "LeftBracket"} /\ KindOf(Top) = IF Top.type = "LeftBrace" THEN "members" ELSE "elements"
  BY <1>0, WhereTop DEF KindOf
<1>7. gr = [fr EXCEPT ![Len(fr)] = g] /\ g.type = Top.type
  BY <1>0, <1>4, StoredFrame DEF SetTop
<1> HIDE DEF fr, gr, g
<1>8. Len(gr) = K /\ gr[K] = g /\ \A k \in 1..(K - 1) : gr[k] = fr[k]
  <2>1. Len(gr) = Len(fr) /\ \A k \in 1..Len(fr) : gr[k] = IF k = Len(fr) THEN g ELSE fr[k]
    BY <1>1, <1>7, SeqSetTop
  <2>2. K = Len(fr) /\ K \in 1..K /\ \A k \in 1..(K - 1) : k \in 1..K /\ k # K
    BY <1>1 DEF fr
  <2> HIDE DEF K
  <2> QED
    BY <2>1, <2>2
<1> HIDE DEF K, b
<1>9. x.to + 1 = c /\ Lengthened(x, L[K], K, b, gr[K])
  BY <1>1, <1>3, <1>8, <1>15
<1>10. PICK M : Read(tokens, gr, M, K, c) /\ M[K] = x
  <2> HIDE DEF c
  <2>1. /\ tokens \in Seq(Token) /\ K \in Nat /\ K # 0 /\ b \in Nat /\ c \in Nat /\ b <= c
        /\ Read(tokens, fr, L, K, b) /\ Lengthened(x, L[K], K, b, gr[K])
        /\ \A k \in 1..(K - 1) : gr[k] = fr[k]
    BY <1>1, <1>2, <1>3, <1>8, <1>9
  <2> QED
    BY <2>1, ReadReplace
<1>11. Start(x) = c /\ MayGoOn(tokens, x) /\ (x.kind = "elements" => Due(tokens, x, c))
  <2>1. tokens[x.to + 1].type = "Comma" /\ x.from # x.to
    BY <1>1, <1>9, <1>15
  <2> QED
    BY <1>9, <2>1, AfterComma
<1>12. x.kind = KindOf(g)
  BY <1>15 DEF Holds
<1>13. AtPoint(pc', tokens, gr, M, K, c, ret')
  <2>1. CASE Top.type = "LeftBrace"
    BY <1>4, <1>5, <1>6, <1>10, <1>11, <1>12, <2>1 DEF AtPoint
  <2>2. CASE Top.type = "LeftBracket"
    BY <1>1, <1>4, <1>5, <1>6, <1>7, <1>8, <1>10, <1>11, <1>12, <2>2 DEF AtPoint, ValueAt, ValueDue, KeyIs
  <2> QED
    BY <1>6, <2>1, <2>2
<1>14. HasRead(tokens, gr, K, c, pc', ret')
  BY <1>10, <1>13 DEF HasRead
<1> QED
  BY <1>4, <1>8, <1>14 DEF ReadInv, gr

\* The first token of a container that is not empty, and the name of a member.
LEMMA EnterBodyStep ==
  ASSUME Inv, ReadInv, EnterBody
  PROVE  ReadInv'
<1> DEFINE b == current - 1
           K == Len(frames)
<1>0. Running /\ pc = "open" /\ frames # <<>> /\ Peek # CloserOf(Top.type)
  BY DEF EnterBody, Running, Inv, ControlInv
<1>1. /\ tokens \in Seq(Token) /\ b \in Nat /\ b + 1 = current /\ K \in Nat /\ K # 0 /\ K \in 1..K
      /\ tokens[b + 1].type = Peek /\ Top = frames[K]
  BY <1>0, Where, WhereTop
<1>2. PICK L : Read(tokens, frames, L, K, b) /\ L[K].from = b /\ L[K].to = b
  BY <1>0 DEF ReadInv, HasRead, AtPoint
<1>3. /\ current' - 1 = b /\ tokens' = tokens /\ frames' = frames
      /\ pc' = IF Top.type = "LeftBrace" THEN "key" ELSE "value"
  BY <1>1 DEF EnterBody, Advance
<1> DEFINE l == L[K]
<1>4. l \in Phrases(tokens) /\ Holds(l, Top) /\ l.kind = KindOf(Top)
  BY <1>1, <1>2 DEF Read, OpenLists, IsOpen, Holds
<1>5. CloserOf(Top.type) = Closer[l.kind] /\ Top.type \in {"LeftBrace", "LeftBracket"}
  BY <1>0, <1>4, WhereTop
<1>6. MayGoOn(tokens, l) /\ Start(l) = b
  BY <1>0, <1>1, <1>2, <1>5 DEF MayGoOn, Start
<1>7. AtPoint(pc', tokens, frames, L, K, b, ret')
  <2>1. CASE Top.type = "LeftBrace"
    BY <1>3, <1>4, <1>6, <2>1 DEF AtPoint, KindOf
  <2>2. CASE Top.type = "LeftBracket"
    BY <1>1, <1>3, <1>4, <1>6, <2>2 DEF AtPoint, KindOf, ValueAt, ValueDue, KeyIs, Due
  <2> QED
    BY <1>5, <2>1, <2>2
<1> HIDE DEF b, K, l
<1>8. HasRead(tokens, frames, K, b, pc', ret')
  BY <1>2, <1>7 DEF HasRead
<1> QED
  BY <1>3, <1>8 DEF ReadInv, K

LEMMA ParseKeyStep ==
  ASSUME Inv, ReadInv, ParseKey, pc' # "failed"
  PROVE  ReadInv'
<1> DEFINE b == current - 1
           c == b + 2
           K == Len(frames)
           fr == frames
           gr == frames'
           key == Text[tokens[b + 1].raw]
           g == [Top EXCEPT !.key = key]
<1>0. Running /\ pc = "key" /\ frames # <<>>
  BY DEF ParseKey, Running, Inv, ControlInv
<1>1. /\ tokens \in Seq(Token) /\ b \in Nat /\ b + 1 = current /\ K \in Nat /\ K # 0 /\ K \in 1..K
      /\ tokens[b + 1].type = Peek /\ Top = fr[K] /\ Frame(Top) /\ IsSeq(fr) /\ c \in Nat /\ b <= c /\ fr # <<>>
  BY <1>0, Where, WhereTop
<1>2. PICK L : /\ Read(tokens, fr, L, K, b)
               /\ L[K].kind = "members" /\ MayGoOn(tokens, L[K]) /\ Start(L[K]) = b
  BY <1>0 DEF ReadInv, HasRead, AtPoint
<1>3. /\ Peek = "String" /\ key # Invalid /\ tokens[current + 1].type = "Colon"
      /\ gr = SetTop(g) /\ current' = current + 2 /\ pc' = "value" /\ tokens' = tokens
  <2>1. tokens[b + 1] = tokens[current]
    BY <1>1
  <2>2. ASSUME NEW why, NEW at, Fail(why, at) PROVE FALSE
    BY <2>2 DEF Fail, Throw
  <2>3. /\ Peek = "String" /\ Text[tokens[current].raw] # Invalid /\ tokens[current + 1].type = "Colon"
        /\ frames' = SetTop([Top EXCEPT !.key = Text[tokens[current].raw]])
        /\ Advance(current + 2, "value")
    BY <2>2, Zenon DEF ParseKey
  <2> QED
    BY <2>1, <2>3 DEF Advance
<1>4. current' - 1 = c /\ current + 1 = b + 2
  BY <1>1, <1>3
<1> DEFINE l == L[K]
<1>5. l \in Phrases(tokens) /\ Holds(l, Top)
  BY <1>1, <1>2 DEF Read, OpenLists, IsOpen
<1>6. Top.type = "LeftBrace" /\ ObjectFrame(Top)
  BY <1>1, <1>2, <1>5 DEF Holds, KindOf, Frame, ArrayFrame
<1>7. g.type = Top.type /\ g.members = Top.members /\ g.key = key
  BY <1>6 DEF ObjectFrame
<1> HIDE DEF g, key
<1>8. Holds(l, g)
  BY <1>5, <1>6, <1>7 DEF Holds, KindOf, ContainerValue
<1>9. Len(gr) = K /\ gr[K] = g /\ \A k \in 1..(K - 1) : gr[k] = fr[k]
  <2>1. gr = [fr EXCEPT ![Len(fr)] = g] /\ IsSeq(fr) /\ fr # <<>>
    BY <1>1, <1>3 DEF SetTop
  <2> HIDE DEF fr, gr
  <2>2. Len(gr) = Len(fr) /\ \A k \in 1..Len(fr) : gr[k] = IF k = Len(fr) THEN g ELSE fr[k]
    BY <2>1, SeqSetTop
  <2>3. K = Len(fr) /\ \A k \in 1..(K - 1) : k \in 1..K /\ k # K
    BY <1>1 DEF fr
  <2> QED
    BY <1>1, <2>2, <2>3
<1>10. Read(tokens, gr, L, K, c)
  <2>1. K - 1 \in Nat /\ K - 1 <= K
    BY <1>1
  <2>2. ASSUME NEW k \in 1..K PROVE Holds(L[k], gr[k])
    <3>1. CASE k = K
      BY <1>8, <1>9, <3>1
    <3>2. CASE k # K
      <4>1. k \in 1..(K - 1)
        BY <1>1, <3>2
      <4>2. gr[k] = fr[k]
        BY <1>9, <4>1
      <4> QED
        BY <1>2, <4>2 DEF Read
    <3> QED
      BY <3>1, <3>2
  <2>3. Read(tokens, fr, L, K, c)
    <3> HIDE DEF b, c, K, fr
    <3> QED
      BY <1>1, <1>2, ReadOn
  <2>4. \A k \in 1..(K - 1) : KeyIs(tokens, L[k], gr[k])
    BY <1>9, <2>3 DEF Read
  <2> QED
    BY <2>2, <2>3, <2>4 DEF Read
<1>11. Due(tokens, l, c)
  <2>1. NameAt(tokens, b)
    BY <1>1, <1>3, <1>4 DEF NameAt, KeyAt, key
  <2> QED
    BY <1>2, <2>1 DEF Due
<1>12. KeyIs(tokens, l, gr[K])
  BY <1>2, <1>7, <1>9 DEF KeyIs, key
<1>13. AtPoint(pc', tokens, gr, L, K, c, ret')
  BY <1>1, <1>3, <1>11, <1>12 DEF AtPoint, ValueAt, ValueDue
<1> HIDE DEF b, c, K, fr, gr, l
<1>14. HasRead(tokens, gr, K, c, pc', ret')
  BY <1>10, <1>13 DEF HasRead
<1> QED
  BY <1>3, <1>4, <1>9, <1>14 DEF ReadInv, gr

\* The parser starts with nothing read.
LEMMA StartStep ==
  ASSUME Inv, Inv', pc' = "value", current' = 1, frames' = <<>>
  PROVE  ReadInv'
<1>1. Len(frames') = 0
  BY EmptyIsSeq
<1>2. \A L : Read(tokens', frames', L, 0, 0)
  BY DEF Read, OpenLists
<1>3. \A L : AtPoint("value", tokens', frames', L, 0, 0, ret')
  BY DEF AtPoint, ValueAt, ValueDue
<1>4. HasRead(tokens', frames', 0, 0, "value", ret')
  BY <1>2, <1>3 DEF HasRead
<1>5. current' - 1 = 0
  OBVIOUS
<1> QED
  BY <1>1, <1>4, <1>5 DEF ReadInv

LEMMA LiteralDenoted ==
  ASSUME NEW t, t.type \in Literals
  PROVE  LiteralValue(t.type) \in Denoted(t)
<1>1. t.type \in DOMAIN Words /\ t.type # "String" /\ t.type # "Number"
  BY DEF Literals, Words
<1>2. Words[t.type] = LiteralValue(t.type)
  <2>1. CASE t.type = "True"
    <3>1. (t.type = "True") = TRUE
      BY <2>1
    <3>2. LiteralValue(t.type) = BoolValue(TRUE)
      BY <2>1, <3>1, Zenon DEF LiteralValue
    <3>3. Words["True"] = BoolValue(TRUE)
      BY DEF Words
    <3> QED
      BY <2>1, <3>2, <3>3, Zenon
  <2>2. CASE t.type = "False"
    <3>1. (t.type = "True") = FALSE
      BY <2>2
    <3>2. LiteralValue(t.type) = BoolValue(FALSE)
      <4>1. LiteralValue(t.type) = BoolValue(t.type = "True")
        BY <2>2 DEF LiteralValue
      <4> QED
        BY <3>1, <4>1, Zenon
    <3>3. Words["False"] = BoolValue(FALSE)
      BY DEF Words
    <3> QED
      BY <2>2, <3>2, <3>3, Zenon
  <2>3. CASE t.type = "Null"
    BY <2>3 DEF Words, LiteralValue
  <2> QED
    BY <2>1, <2>2, <2>3 DEF Literals
<1> QED
  BY <1>1, <1>2 DEF Denoted

LEMMA StringDenoted ==
  ASSUME NEW t, t.type = "String"
  PROVE  /\ Text[t.raw] # Invalid => StringValue(Text[t.raw]) \in Denoted(t)
         /\ Text[t.raw] = Invalid => Denoted(t) = {}
<1>1. t.type \notin DOMAIN Words
  BY DEF Words
<1>2. Denoted(t) = {StringValue(x) : x \in {Text[t.raw]} \ {Invalid}}
  BY <1>1 DEF Denoted
<1> QED
  BY <1>2

LEMMA NumberDenoted ==
  ASSUME NEW t, t.type = "Number"
  PROVE  /\ Number[t.raw] # Invalid => NumberValue(Number[t.raw]) \in Denoted(t)
         /\ Number[t.raw] = Invalid => Denoted(t) = {}
<1>1. t.type \notin DOMAIN Words /\ t.type # "String"
  BY DEF Words
<1>2. Denoted(t) = {NumberValue(x) : x \in {Number[t.raw]} \ {Invalid}}
  BY <1>1 DEF Denoted
<1> QED
  BY <1>2

LEMMA ReadStep ==
  ASSUME Inv, Inv', ReadInv, [Next]_vars
  PROVE  ReadInv'
<1>1. ASSUME pc' = "failed" \/ pc' = "done" \/ pc' = "scan" PROVE ReadInv'
  BY <1>1 DEF ReadInv, Running
<1>2. CASE Construct
  BY <1>1, <1>2, StartStep DEF Construct, Inv, ControlInv
<1>3. CASE ScanGiveUp \/ ScanEnd
  BY <1>3, StartStep DEF ScanGiveUp, ScanEnd, ScanReturn, Inv, ControlInv
<1>4. CASE ScanOpener \/ ScanCloser \/ ScanComma \/ ScanOther
  BY <1>1, <1>4, Zenon DEF ScanOpener, ScanCloser, ScanComma, ScanOther, ScanOn
<1>5. CASE ParseLiteral
  <2> DEFINE v == LiteralValue(Peek)
  <2>1. pc = "value" /\ Return(v, current + 1) /\ frames' = frames /\ Peek \in Literals
    BY <1>5 DEF ParseLiteral
  <2>2. v \in Denoted(tokens[current])
    BY <2>1, LiteralDenoted DEF Peek
  <2> HIDE DEF v
  <2> QED
    BY <2>1, <2>2, TokenStep
<1>6. CASE ParseString
  <2> DEFINE v == StringValue(Text[tokens[current].raw])
  <2>1. CASE pc' = "failed"
    BY <1>1, <2>1
  <2>2. CASE pc' # "failed"
    <3>1. /\ pc = "value" /\ Return(v, current + 1) /\ frames' = frames /\ Peek = "String"
          /\ Text[tokens[current].raw] # Invalid
      BY <1>6, <2>2 DEF ParseString, Throw
    <3>2. v \in Denoted(tokens[current])
      BY <3>1, StringDenoted DEF Peek
    <3> HIDE DEF v
    <3> QED
      BY <3>1, <3>2, TokenStep
  <2> QED
    BY <2>1, <2>2
<1>7. CASE ParseNumber
  <2> DEFINE v == NumberValue(Number[tokens[current].raw])
  <2>1. CASE pc' = "failed"
    BY <1>1, <2>1
  <2>2. CASE pc' # "failed"
    <3>1. /\ pc = "value" /\ Return(v, current + 1) /\ frames' = frames /\ Peek = "Number"
          /\ Number[tokens[current].raw] # Invalid
      BY <1>7, <2>2 DEF ParseNumber, Fail, Throw
    <3>2. v \in Denoted(tokens[current])
      BY <3>1, NumberDenoted DEF Peek
    <3> HIDE DEF v
    <3> QED
      BY <3>1, <3>2, TokenStep
  <2> QED
    BY <2>1, <2>2
<1>8. CASE RejectStream \/ RejectValue \/ RejectDepth \/ RejectSeparator \/ RejectTrailing
  <2>1. ASSUME NEW why, NEW at, Fail(why, at) PROVE pc' = "failed"
    BY <2>1 DEF Fail, Throw
  <2>2. pc' = "failed"
    BY <1>8, <2>1, Zenon DEF RejectStream, RejectValue, RejectDepth, RejectSeparator, RejectTrailing
  <2> QED
    BY <1>1, <2>2
<1>9. CASE EnterObject
  <2> DEFINE g == [type |-> "LeftBrace", members |-> EmptyObject, key |-> Invalid]
  <2>1. pc = "value" /\ Peek = "LeftBrace" /\ currentDepth < MaxDepth /\ Enter(g)
    BY <1>9 DEF EnterObject
  <2>2. KindOf(g) = "members" /\ ContainerValue(g) = ObjectValue(EmptyObject)
    BY DEF KindOf, ContainerValue
  <2> HIDE DEF g
  <2>3. KindOf(g) \in ListKinds /\ Peek = Opener[KindOf(g)] /\ ContainerValue(g) = NoItems[KindOf(g)]
    BY <2>1, <2>2 DEF ListKinds, Opener, NoItems
  <2> QED
    BY <2>1, <2>3, EnterStep
<1>10. CASE EnterArray
  <2> DEFINE n == IF HasHint THEN arrayReservations[nextArrayReservation].size ELSE 0
             g == [type |-> "LeftBracket", elements |-> <<>>, reserved |-> 0, capacity |-> n]
  <2>1. pc = "value" /\ Peek = "LeftBracket" /\ currentDepth < MaxDepth /\ Enter(g)
    BY <1>10 DEF EnterArray
  <2> HIDE DEF n
  <2>2. KindOf(g) = "elements" /\ ContainerValue(g) = ArrayValue(<<>>)
    BY DEF KindOf, ContainerValue
  <2> HIDE DEF g
  <2>3. KindOf(g) \in ListKinds /\ Peek = Opener[KindOf(g)] /\ ContainerValue(g) = NoItems[KindOf(g)]
    BY <2>1, <2>2 DEF ListKinds, Opener, NoItems
  <2> QED
    BY <2>1, <2>3, EnterStep
<1>11. CASE CloseEmpty \/ EnterBody \/ CloseContainer \/ NextElement
  BY <1>11, CloseEmptyStep, EnterBodyStep, CloseContainerStep, NextElementStep
<1>12. CASE ParseKey
  BY <1>1, <1>12, ParseKeyStep
<1>13. CASE Finish
  BY <1>1, <1>13 DEF Finish, Advance
<1>14. CASE Ended \/ UNCHANGED vars
  <2>1. UNCHANGED vars
    BY <1>14 DEF Ended
  <2> QED
    BY <2>1 DEF vars, ReadInv, Running
<1> QED
  BY <1>2, <1>3, <1>4, <1>5, <1>6, <1>7, <1>8, <1>9, <1>10, <1>11, <1>12, <1>13, <1>14 DEF Next, Parse

-----------------------------------------------------------------------------
(* What completes the tokens that were read: the value or member that is    *)
(* due, and a closer for every list that is open.                           *)

\* Where closers follow a value, for the lists that are open around it.
Closed(us, L, K, e) ==
  /\ Len(us) = e + K + 1 /\ us[Len(us)].type = "EndOfFile"
  /\ \A j \in 1..K : us[e + j].type = Closer[L[K + 1 - j].kind]

\* A value, some of the open lists behind it closed.
ClosedBy(us, L, K, e, j) ==
  \E v \in Phrases(us) : /\ v.kind = "value" /\ v.to = e + j /\ v.depth + (K - j) <= MaxDepth
                         /\ ValueDue(us, L, K - j, v.from)

LEMMA CloseOne ==
  ASSUME NEW us \in Seq(Token), NEW L, NEW K \in Nat, NEW m, OpenLists(us, L, K, m),
         NEW e \in Nat, Closed(us, L, K, e), NEW j \in Nat, j < K, ClosedBy(us, L, K, e, j)
  PROVE  ClosedBy(us, L, K, e, j + 1)
<1> DEFINE k == K - j
           l == L[k]
           i == j + 1
           h == k - 1
<1>1. /\ k \in 1..K /\ k \in Nat /\ k # 0 /\ i \in 1..K /\ K - i = h /\ K + 1 - i = k /\ h \in Nat
      /\ e + j + 1 = e + i /\ e + i \in Nat
  OBVIOUS
<1>2. PICK v \in Phrases(us) : v.kind = "value" /\ v.to = e + j /\ v.depth + k <= MaxDepth /\ ValueDue(us, L, k, v.from)
  BY DEF ClosedBy
<1>3. /\ l \in Phrases(us) /\ l.kind \in ListKinds /\ l.from > 0 /\ us[l.from].type = Opener[l.kind]
      /\ l.depth + k <= MaxDepth /\ ValueDue(us, L, h, l.from - 1)
  BY <1>1 DEF OpenLists, IsOpen
<1>4. Due(us, l, v.from)
  BY <1>1, <1>2 DEF ValueDue
<1>5. us[e + i].type = Closer[l.kind]
  BY <1>1 DEF Closed
<1>6. Len(us) = e + K + 1 /\ Len(us) \in Nat
  BY LenProperties DEF Closed
<1>7. e + i \in 1..Len(us)
  BY <1>1, <1>6
<1> HIDE DEF k, l, i, h
<1>8. PICK x \in Phrases(us) : Extends(us, x, l, v)
  BY <1>2, <1>3, <1>4, MakeExtended
<1>9. x.kind = l.kind /\ x.from = l.from /\ x.to = v.to /\ x.depth = Larger(l.depth, v.depth)
  BY <1>8 DEF Extends, Alike
<1>10. x.to + 1 = e + i
  BY <1>1, <1>2, <1>9
<1>11. x.depth \in Nat /\ x.depth + k <= MaxDepth
  <2>1. l.depth \in Nat /\ v.depth \in Nat
    BY <1>3, PhraseShaped DEF Shaped
  <2>2. x.depth \in {l.depth, v.depth}
    BY <1>9, <2>1, LargerIs
  <2> QED
    BY <1>2, <1>3, <2>1, <2>2
<1>12. PICK r \in Phrases(us) : /\ r.kind = "value" /\ r.from = x.from - 1 /\ r.to = x.to + 1
                                /\ r.value = x.value /\ r.depth = x.depth + 1
  BY <1>3, <1>5, <1>7, <1>9, <1>10, MakeContainer
<1>13. r.depth + h <= MaxDepth
  BY <1>1, <1>11, <1>12 DEF h
<1>14. ValueDue(us, L, h, r.from)
  BY <1>3, <1>9, <1>12
<1>15. ClosedBy(us, L, K, e, i)
  BY <1>1, <1>10, <1>12, <1>13, <1>14 DEF ClosedBy
<1> QED
  BY <1>15 DEF i

\* Once all lists are closed it is a document.
LEMMA ClosedIsDocument ==
  ASSUME NEW us \in Seq(Token), NEW L, NEW K \in Nat, NEW m, OpenLists(us, L, K, m),
         NEW e \in Nat, Closed(us, L, K, e), NEW j \in 0..K, ClosedBy(us, L, K, e, j)
  PROVE  IsDocument(us)
<1> DEFINE S == {i \in Nat : j <= i /\ i <= K => ClosedBy(us, L, K, e, i)}
<1>1. 0 \in S
  <2>1. j <= 0 => j = 0
    OBVIOUS
  <2> QED
    BY <2>1
<1>2. ASSUME NEW i \in Nat, i \in S PROVE i + 1 \in S
  <2>1. SUFFICES ASSUME j <= i + 1, i + 1 <= K PROVE ClosedBy(us, L, K, e, i + 1)
    OBVIOUS
  <2>2. CASE j = i + 1
    BY <2>2
  <2>3. CASE j # i + 1
    <3>1. ClosedBy(us, L, K, e, i) /\ i < K
      BY <1>2, <2>1, <2>3
    <3> QED
      BY <3>1, CloseOne
  <2> QED
    BY <2>2, <2>3
<1>3. ClosedBy(us, L, K, e, K)
  <2>1. K \in S
    <3> HIDE DEF S
    <3> QED
      BY <1>1, <1>2, NatInduct
  <2> QED
    BY <2>1
<1>4. PICK v \in Phrases(us) : /\ v.kind = "value" /\ v.to = e + K /\ v.depth + (K - K) <= MaxDepth
                               /\ ValueDue(us, L, K - K, v.from)
  BY <1>3 DEF ClosedBy
<1>5. K - K = 0 /\ v.depth \in Nat
  BY PhraseShaped DEF Shaped
<1>6. v.from = 0 /\ v.depth <= MaxDepth
  BY <1>4, <1>5, ParserAssumption DEF ValueDue
<1>7. Len(us) = e + K + 1 /\ Len(us) \in Nat /\ us[Len(us)].type = "EndOfFile"
  BY LenProperties DEF Closed
<1>8. IsRoot(us, Len(us), v)
  BY <1>4, <1>6, <1>7 DEF IsRoot
<1> QED
  BY <1>7, <1>8 DEF IsDocument

-----------------------------------------------------------------------------
(* The completions of a beginning as sequences of tokens.                   *)

Eof == [type |-> "EndOfFile"]
ClosersOf(L, K) == [j \in 1..K |-> [type |-> Closer[L[K + 1 - j].kind]]]
CompletionBy(rest, L, K) == Completion(rest, ClosersOf(L, K))

\* us is the first b tokens of ts, then rest, then the closers and EOF.
IsCompleted(us, ts, b, rest, L, K) ==
  /\ us \in Seq(Token) /\ Len(us) = b + Len(rest) + K + 1 /\ Len(rest) \in Nat
  /\ Agree(ts, us, b)
  /\ \A i \in 1..Len(rest) : us[b + i] = rest[i]
  /\ Closed(us, L, K, b + Len(rest))

LEMMA SomeTokens ==
  /\ Eof \in Token
  /\ \A t \in Closers : [type |-> t] \in Token
  /\ [type |-> "Null"] \in Token /\ [type |-> "Colon"] \in Token
  /\ \A s \in Strings : [type |-> "String", raw |-> s] \in Token
<1>1. \A t \in Structural : [type |-> t] \in [type : Structural]
  OBVIOUS
<1>2. \A s \in Strings : [type |-> "String", raw |-> s] \in [type : {"String"}, raw : Strings]
  OBVIOUS
<1>3. \A t \in Closers \cup {"EndOfFile", "Null", "Colon"} : t \in Structural
  BY DEF Structural, Literals
<1> QED
  BY <1>1, <1>2, <1>3 DEF Token, Eof

LEMMA FunctionIsSeq ==
  ASSUME NEW S, NEW n \in Nat, NEW f \in [1..n -> S]
  PROVE  f \in Seq(S) /\ Len(f) = n
<1>1. f \in Seq(S)
  BY SeqDef
<1>2. DOMAIN f = 1..n /\ DOMAIN f = 1..Len(f) /\ Len(f) \in Nat
  BY <1>1, LenProperties
<1> QED
  BY <1>1, <1>2

LEMMA ClosersAre ==
  ASSUME NEW K \in Nat, NEW L, \A k \in 1..K : L[k].kind \in ListKinds
  PROVE  /\ ClosersOf(L, K) \in [1..K -> [type : Closers]]
         /\ ClosersOf(L, K) \in Seq(Token) /\ Len(ClosersOf(L, K)) = K
         /\ \A j \in 1..K : ClosersOf(L, K)[j].type = Closer[L[K + 1 - j].kind]
<1> DEFINE c == ClosersOf(L, K)
<1>1. ASSUME NEW j \in 1..K PROVE Closer[L[K + 1 - j].kind] \in Closers
  <2>1. K + 1 - j \in 1..K
    OBVIOUS
  <2> QED
    BY <2>1 DEF Closer, ListKinds, Closers
<1>2. c = [j \in 1..K |-> [type |-> Closer[L[K + 1 - j].kind]]]
  BY DEF ClosersOf
<1>3. \A j \in 1..K : c[j] = [type |-> Closer[L[K + 1 - j].kind]]
  BY <1>2
<1>4. ASSUME NEW j \in 1..K
      PROVE  c[j] \in [type : Closers] /\ c[j].type = Closer[L[K + 1 - j].kind] /\ c[j] \in Token
  <2> DEFINE t == Closer[L[K + 1 - j].kind]
  <2>1. t \in Closers /\ c[j] = [type |-> t]
    BY <1>1, <1>3
  <2> HIDE DEF c, t
  <2>2. c[j] \in [type : Closers] /\ c[j].type = t /\ c[j] \in Token
    BY <2>1, SomeTokens
  <2> QED
    BY <2>2 DEF t
<1>5. c \in [1..K -> [type : Closers]] /\ c \in [1..K -> Token]
  BY <1>2, <1>4
<1> HIDE DEF c
<1>6. c \in Seq(Token) /\ Len(c) = K
  BY <1>5, FunctionIsSeq
<1> QED
  BY <1>4, <1>5, <1>6 DEF c

LEMMA Completing ==
  ASSUME NEW ts \in Seq(Token), NEW b \in 0..Len(ts), NEW rest \in Seq(Token),
         NEW K \in Nat, NEW L, \A k \in 1..K : L[k].kind \in ListKinds
  PROVE  IsCompleted(SubSeq(ts, 1, b) \o CompletionBy(rest, L, K), ts, b, rest, L, K)
<1> DEFINE p == SubSeq(ts, 1, b)
           c == ClosersOf(L, K)
           d == rest \o c
           z == <<Eof>>
           f == d \o z
           us == p \o f
           q == Len(rest)
<1>0. Len(ts) \in Nat /\ b \in Nat /\ q \in Nat /\ b <= Len(ts)
  BY LenProperties
<1>1. p \in Seq(Token) /\ Len(p) = b /\ \A i \in 1..b : p[i] = ts[i]
  <2>1. \A i \in 1..b : ts[i] \in Token
    BY <1>0, ElementOfSeq
  <2>2. /\ p \in Seq(Token) /\ Len(p) = IF 1 <= b THEN b - 1 + 1 ELSE 0
        /\ \A i \in 1..(b - 1 + 1) : p[i] = ts[1 + i - 1]
    BY <1>0, <2>1, SubSeqProperties
  <2> HIDE DEF p
  <2>3. Len(p) = b
    BY <1>0, <2>2
  <2>4. \A i \in 1..b : p[i] = ts[i]
    BY <1>0, <2>2
  <2> QED
    BY <2>2, <2>3, <2>4
<1>2. c \in Seq(Token) /\ Len(c) = K /\ \A j \in 1..K : c[j].type = Closer[L[K + 1 - j].kind]
  BY ClosersAre
<1>3. z \in Seq(Token) /\ Len(z) = 1 /\ z[1].type = "EndOfFile"
  BY SomeTokens DEF Eof
<1> HIDE DEF p, c, z
<1>4. d \in Seq(Token) /\ Len(d) = q + K /\ \A i \in 1..(q + K) : d[i] = IF i <= q THEN rest[i] ELSE c[i - q]
  BY <1>2, ConcatProperties
<1> HIDE DEF d
<1>5. f \in Seq(Token) /\ Len(f) = q + K + 1 /\ \A i \in 1..(q + K + 1) : f[i] = IF i <= q + K THEN d[i] ELSE z[i - (q + K)]
  <2>1. /\ f \in Seq(Token) /\ Len(f) = Len(d) + Len(z)
        /\ \A i \in 1..(Len(d) + Len(z)) : f[i] = IF i <= Len(d) THEN d[i] ELSE z[i - Len(d)]
    <3>1. d \in Seq(Token) /\ z \in Seq(Token)
      BY <1>3, <1>4
    <3> QED
      BY <3>1, ConcatProperties
  <2>2. Len(d) = q + K /\ Len(z) = 1
    BY <1>3, <1>4
  <2> HIDE DEF f, q
  <2> QED
    BY <2>1, <2>2
<1> HIDE DEF f
<1>6. /\ us \in Seq(Token) /\ Len(us) = b + (q + K + 1)
      /\ \A i \in 1..(b + (q + K + 1)) : us[i] = IF i <= b THEN p[i] ELSE f[i - b]
  <2>1. /\ us \in Seq(Token) /\ Len(us) = Len(p) + Len(f)
        /\ \A i \in 1..(Len(p) + Len(f)) : us[i] = IF i <= Len(p) THEN p[i] ELSE f[i - Len(p)]
    BY <1>1, <1>5, ConcatProperties, Zenon
  <2>2. Len(p) = b /\ Len(f) = q + K + 1
    BY <1>1, <1>5
  <2> HIDE DEF us, q
  <2> QED
    BY <2>1, <2>2
<1> HIDE DEF us, q
<1>7. \A i \in 1..b : us[i] = ts[i]
  BY <1>0, <1>1, <1>6
<1>8. \A i \in 1..(q + K + 1) : us[b + i] = f[i]
  BY <1>0, <1>6
<1>9. \A i \in 1..q : us[b + i] = rest[i]
  BY <1>0, <1>4, <1>5, <1>8
<1>10. \A j \in 1..K : us[(b + q) + j] = c[j]
  <2>1. SUFFICES ASSUME NEW j \in 1..K PROVE us[(b + q) + j] = c[j]
    OBVIOUS
  <2>2. (b + q) + j = b + (q + j) /\ q + j \in 1..(q + K) /\ q + j \in 1..(q + K + 1) /\ (q + j) - q = j /\ ~(q + j <= q)
    BY <1>0
  <2>3. us[b + (q + j)] = f[q + j] /\ f[q + j] = d[q + j] /\ d[q + j] = c[j]
    BY <1>4, <1>5, <1>8, <2>2
  <2> QED
    BY <2>2, <2>3
<1>11. us[Len(us)].type = "EndOfFile"
  <2>1. q + K + 1 \in 1..(q + K + 1) /\ ~(q + K + 1 <= q + K) /\ (q + K + 1) - (q + K) = 1 /\ Len(us) = b + (q + K + 1)
    BY <1>0, <1>6
  <2>2. us[b + (q + K + 1)] = f[q + K + 1] /\ f[q + K + 1] = z[1]
    BY <1>5, <1>8, <2>1
  <2> QED
    BY <1>3, <2>1, <2>2
<1>12. Len(us) = b + q + K + 1 /\ Len(us) = (b + q) + K + 1 /\ b <= Len(us) /\ q \in Nat
  BY <1>0, <1>6
<1>13. Agree(ts, us, b)
  BY <1>0, <1>7, <1>12 DEF Agree
<1>14. Closed(us, L, K, b + q)
  BY <1>2, <1>10, <1>11, <1>12 DEF Closed
<1>15. IsCompleted(us, ts, b, rest, L, K)
  BY <1>6, <1>9, <1>12, <1>13, <1>14 DEF IsCompleted, q
<1> QED
  BY <1>15 DEF us, p, f, d, c, z, CompletionBy, Completion, Eof

LEMMA AmongIs ==
  ASSUME NEW ts \in Seq(Token), NEW b \in 0..Len(ts), NEW types
  PROVE  Among(SubSeq(ts, 1, b), types) = CountOf(ts, types, b)
<1> DEFINE p == SubSeq(ts, 1, b)
<1>0. Len(ts) \in Nat /\ b \in Nat /\ b <= Len(ts)
  BY LenProperties
<1>1. \A i \in 1..b : ts[i] \in Token
  BY <1>0, ElementOfSeq
<1>2. /\ p \in Seq(Token) /\ Len(p) = IF 1 <= b THEN b - 1 + 1 ELSE 0
      /\ \A i \in 1..(b - 1 + 1) : p[i] = ts[1 + i - 1]
  BY <1>0, <1>1, SubSeqProperties
<1> HIDE DEF p
<1>3. DOMAIN p = 1..b
  BY <1>0, <1>2, LenProperties
<1>4. \A i \in 1..b : p[i] = ts[i]
  BY <1>0, <1>2
<1>5. {i \in DOMAIN p : p[i].type \in types} = {i \in 1..b : ts[i].type \in types}
  BY <1>3, <1>4
<1> QED
  BY <1>5 DEF Among, CountOf, p

\* A completion of this form that is a document makes a beginning.
LEMMA BeginningIs ==
  ASSUME NEW ts \in Seq(Token), NEW b \in 0..Len(ts), NEW rest \in Rests,
         NEW K \in Nat, NEW L, \A k \in 1..K : L[k].kind \in ListKinds, Balanced(ts, b, K),
         IsDocument(SubSeq(ts, 1, b) \o CompletionBy(rest, L, K))
  PROVE  IsBeginning(SubSeq(ts, 1, b))
<1> DEFINE p == SubSeq(ts, 1, b)
           c == ClosersOf(L, K)
<1>1. Among(p, Openers) - Among(p, Closers) = K
  <2>1. b \in Nat
    OBVIOUS
  <2>2. CountOf(ts, Openers, b) \in Nat /\ CountOf(ts, Closers, b) \in Nat
    BY <2>1, CountStep
  <2>3. Among(p, Openers) = CountOf(ts, Openers, b) /\ Among(p, Closers) = CountOf(ts, Closers, b)
    BY AmongIs
  <2> HIDE DEF p
  <2> QED
    BY <2>2, <2>3 DEF Balanced
<1>2. c \in [1..K -> [type : Closers]]
  BY ClosersAre
<1> HIDE DEF p, c
<1>3. c \in BracketsFor(p)
  BY <1>1, <1>2 DEF BracketsFor
<1>4. Completion(rest, c) \in Completions(p)
  BY <1>3 DEF Completions
<1>5. IsDocument(p \o Completion(rest, c))
  BY Zenon DEF CompletionBy, p, c
<1> DEFINE e == Completion(rest, c)
           us == p \o e
<1>6. e \in Completions(p) /\ IsDocument(us)
  BY <1>4, <1>5
<1>7. IsBeginning(p)
  BY <1>6, Zenon DEF IsBeginning
<1> QED
  BY <1>7 DEF p

\* What was read is a beginning, if rest makes a value that the closers follow.
LEMMA CompleteWith ==
  ASSUME NEW ts \in Seq(Token), NEW b \in 0..Len(ts), NEW rest \in Rests, rest \in Seq(Token),
         NEW K \in Nat, NEW L, OpenLists(ts, L, K, b), Balanced(ts, b, K),
         \A us : IsCompleted(us, ts, b, rest, L, K) =>
                   \E j \in 0..K : ClosedBy(us, L, K, b + Len(rest), j)
  PROVE  IsBeginning(SubSeq(ts, 1, b))
<1> DEFINE us == SubSeq(ts, 1, b) \o CompletionBy(rest, L, K)
           e == b + Len(rest)
<1>0. b \in Nat /\ Len(ts) \in Nat
  BY LenProperties
<1>1. \A k \in 1..K : L[k].kind \in ListKinds
  BY DEF OpenLists, IsOpen
<1>2. IsCompleted(us, ts, b, rest, L, K)
  BY <1>1, Completing
<1> HIDE DEF us
<1>3. /\ us \in Seq(Token) /\ Len(rest) \in Nat /\ Agree(ts, us, b) /\ Closed(us, L, K, e) /\ e \in Nat
  BY <1>0, <1>2 DEF IsCompleted
<1>4. OpenLists(us, L, K, b)
  BY <1>0, <1>3, LocalOpen
<1>5. PICK j \in 0..K : ClosedBy(us, L, K, e, j)
  BY <1>2
<1> HIDE DEF e
<1>6. IsDocument(us)
  BY <1>3, <1>4, <1>5, ClosedIsDocument
<1> QED
  BY <1>1, <1>6, BeginningIs DEF us

LEMMA RestTokens ==
  /\ <<>> \in Rests /\ <<>> \in Seq(Token) /\ Len(<<>>) = 0
  /\ <<[type |-> "Null"]>> \in Rests /\ <<[type |-> "Null"]>> \in Seq(Token)
  /\ <<[type |-> "Colon"], [type |-> "Null"]>> \in Rests
  /\ <<[type |-> "Colon"], [type |-> "Null"]>> \in Seq(Token)
  /\ \A key \in [type : {"String"}, raw : Strings] :
       /\ <<key, [type |-> "Colon"], [type |-> "Null"]>> \in Rests
       /\ <<key, [type |-> "Colon"], [type |-> "Null"]>> \in Seq(Token)
<1> DEFINE null == [type |-> "Null"]
           colon == [type |-> "Colon"]
<1>1. null \in Token /\ colon \in Token /\ \A key \in [type : {"String"}, raw : Strings] : key \in Token
  BY SomeTokens DEF Token
<1>2. Rests = {<<>>, <<null>>, <<colon, null>>} \cup {<<key, colon, null>> : key \in [type : {"String"}, raw : Strings]}
  BY DEF Rests
<1> HIDE DEF null, colon
<1>3. <<>> \in Rests /\ <<null>> \in Rests /\ <<colon, null>> \in Rests
  BY <1>2
<1>4. \A key \in [type : {"String"}, raw : Strings] : <<key, colon, null>> \in Rests
  BY <1>2
<1>5. <<>> \in Seq(Token) /\ <<null>> \in Seq(Token) /\ <<colon, null>> \in Seq(Token) /\ Len(<<>>) = 0
  BY <1>1
<1>6. \A key \in [type : {"String"}, raw : Strings] : <<key, colon, null>> \in Seq(Token)
  BY <1>1
<1> QED
  BY <1>3, <1>4, <1>5, <1>6 DEF null, colon

\* The null of a completion is a value.
LEMMA NullValueAt ==
  ASSUME NEW us \in Seq(Token), NEW f \in Nat, f + 1 \in 1..Len(us), us[f + 1] = [type |-> "Null"],
         NEW K \in Nat, K <= MaxDepth, NEW L, ValueDue(us, L, K, f)
  PROVE  ClosedBy(us, L, K, f + 1, 0)
<1>1. NullValue \in Denoted(us[f + 1])
  <2> DEFINE t == us[f + 1]
  <2>1. t.type = "Null"
    OBVIOUS
  <2> HIDE DEF t
  <2>2. t.type \in Literals /\ LiteralValue(t.type) = NullValue
    BY <2>1 DEF Literals, LiteralValue
  <2> QED
    BY <2>2, LiteralDenoted DEF t
<1>2. PICK v \in Phrases(us) : Spans(v, "value", f, f + 1, NullValue, 0)
  BY <1>1, MakeSingle
<1>3. v.kind = "value" /\ v.from = f /\ v.to = (f + 1) + 0 /\ v.depth + (K - 0) <= MaxDepth /\ K - 0 = K
  BY <1>2 DEF Spans
<1> QED
  BY <1>3 DEF ClosedBy

\* A value stays due if what follows instead does not close the list.
LEMMA DueAgain ==
  ASSUME NEW ts \in Seq(Token), NEW us \in Seq(Token), NEW f \in Nat, Agree(ts, us, f),
         NEW l \in Phrases(ts), Due(ts, l, f), us[f + 1].type = "Null"
  PROVE  Due(us, l, f)
<1>1. l.kind \in ListKinds /\ l.to \in Nat /\ l.from \in Nat /\ Start(l) \in Nat /\ l.to <= Start(l)
  BY DueIs
<1>2. MayGoOn(ts, l)
  BY DEF Due
<1>3. CASE l.kind = "elements"
  <2>1. f = Start(l)
    BY <1>3 DEF Due
  <2>2. CASE l.from = l.to
    <3>1. l.to = f
      BY <2>1, <2>2 DEF Start
    <3>2. us[l.to + 1].type # Closer[l.kind]
      BY <1>3, <3>1 DEF Closer, ListKinds
    <3> QED
      BY <1>3, <2>1, <2>2, <3>2 DEF Due, MayGoOn
  <2>3. CASE l.from # l.to
    <3>1. l.to + 1 = f
      BY <2>1, <2>3 DEF Start
    <3>2. l.to + 1 \in 1..f
      BY <1>1, <3>1
    <3>3. us[l.to + 1] = ts[l.to + 1]
      BY <3>2 DEF Agree
    <3>4. MayGoOn(us, l)
      BY <1>2, <2>3, <3>3 DEF MayGoOn
    <3> QED
      BY <1>3, <2>1, <3>4 DEF Due
  <2> QED
    BY <2>2, <2>3
<1>4. CASE l.kind = "members"
  <2>1. f = Start(l) + 2 /\ NameAt(ts, Start(l))
    BY <1>4 DEF Due
  <2>2. Start(l) + 1 \in 1..f /\ Start(l) + 2 \in 1..f /\ l.to + 1 \in 1..f
    BY <1>1, <2>1
  <2>3. us[Start(l) + 1] = ts[Start(l) + 1] /\ us[Start(l) + 2] = ts[Start(l) + 2] /\ us[l.to + 1] = ts[l.to + 1]
    BY <2>2 DEF Agree
  <2>4. NameAt(us, Start(l)) /\ MayGoOn(us, l)
    <3>1. NameAt(us, Start(l))
      BY <2>1, <2>3 DEF NameAt, KeyAt
    <3>2. MayGoOn(us, l)
      <4>1. CASE l.from = l.to
        BY <1>2, <2>3, <4>1 DEF MayGoOn
      <4>2. CASE l.from # l.to
        BY <1>2, <2>3, <4>2 DEF MayGoOn
      <4> QED
        BY <4>1, <4>2
    <3> QED
      BY <3>1, <3>2
  <2> QED
    BY <1>4, <2>1, <2>4 DEF Due
<1> QED
  BY <1>1, <1>3, <1>4 DEF ListKinds

\* A beginning where a value is due.
LEMMA ValueMissing ==
  ASSUME NEW ts \in Seq(Token), NEW b \in 0..Len(ts), NEW K \in Nat, K <= MaxDepth, NEW L,
         OpenLists(ts, L, K, b), Balanced(ts, b, K), ValueDue(ts, L, K, b)
  PROVE  IsBeginning(SubSeq(ts, 1, b))
<1> DEFINE null == [type |-> "Null"]
           rest == <<null>>
<1>1. rest \in Rests /\ rest \in Seq(Token) /\ Len(rest) = 1 /\ rest[1] = null /\ b \in Nat
  BY RestTokens, LenProperties
<1>2. ASSUME NEW us, IsCompleted(us, ts, b, rest, L, K) PROVE ClosedBy(us, L, K, b + Len(rest), 0)
  <2>1. /\ us \in Seq(Token) /\ Len(us) = b + Len(rest) + K + 1 /\ Agree(ts, us, b)
        /\ \A i \in 1..Len(rest) : us[b + i] = rest[i]
    BY <1>2 DEF IsCompleted
  <2> HIDE DEF rest
  <2>2. us[b + 1] = null /\ b + 1 \in 1..Len(us) /\ b + Len(rest) = b + 1
    BY <1>1, <2>1
  <2>3. ValueDue(us, L, K, b)
    <3>1. CASE K = 0
      BY <3>1 DEF ValueDue
    <3>2. CASE K # 0
      <4> DEFINE l == L[K]
      <4>1. K \in 1..K
        BY <3>2
      <4>2. l \in Phrases(ts) /\ Due(ts, l, b)
        BY <3>2, <4>1 DEF ValueDue, OpenLists, IsOpen
      <4>3. us[b + 1].type = "Null"
        BY <2>2
      <4> HIDE DEF l
      <4>4. Due(us, l, b)
        BY <1>1, <2>1, <4>2, <4>3, DueAgain
      <4> QED
        BY <3>2, <4>4 DEF ValueDue, l
    <3> QED
      BY <3>1, <3>2
  <2> QED
    BY <1>1, <2>1, <2>2, <2>3, NullValueAt
<1>3. \A us : IsCompleted(us, ts, b, rest, L, K) => \E j \in 0..K : ClosedBy(us, L, K, b + Len(rest), j)
  BY <1>2
<1> HIDE DEF rest
<1> QED
  BY <1>1, <1>3, CompleteWith

\* A beginning after an item of a list, or after its opener.
LEMMA CloserMissing ==
  ASSUME NEW ts \in Seq(Token), NEW b \in 0..Len(ts), NEW K \in Nat, K # 0, NEW L,
         OpenLists(ts, L, K, b), Balanced(ts, b, K),
         NEW x \in Phrases(ts), Alike(x, L[K]), x.to = b, x.depth + K <= MaxDepth
  PROVE  IsBeginning(SubSeq(ts, 1, b))
<1> DEFINE rest == <<>>
           J == K - 1
           l == L[K]
<1>1. rest \in Rests /\ rest \in Seq(Token) /\ Len(rest) = 0 /\ b \in Nat /\ b + Len(rest) = b
  BY RestTokens, LenProperties
<1>2. ASSUME NEW us, IsCompleted(us, ts, b, rest, L, K) PROVE ClosedBy(us, L, K, b + Len(rest), 1)
  <2>1. /\ us \in Seq(Token) /\ Len(us) = b + Len(rest) + K + 1 /\ Agree(ts, us, b)
        /\ Closed(us, L, K, b + Len(rest))
    BY <1>2 DEF IsCompleted
  <2> HIDE DEF rest
  <2>2. OpenLists(us, L, K, b)
    BY <1>1, <2>1, LocalOpen
  <2>3. /\ l.kind \in ListKinds /\ l.from > 0 /\ us[l.from].type = Opener[l.kind] /\ ValueDue(us, L, J, l.from - 1)
        /\ 1 \in 1..K /\ K + 1 - 1 = K /\ J \in Nat
    BY <2>2 DEF OpenLists, IsOpen
  <2>4. us[b + 1].type = Closer[l.kind] /\ b + 1 \in 1..Len(us)
    BY <1>1, <2>1, <2>3 DEF Closed
  <2>5. x \in Phrases(us) /\ x.kind = l.kind /\ x.from = l.from
    BY <1>1, <2>1, Locality DEF Alike
  <2> HIDE DEF J, l
  <2>10. /\ x.kind \in ListKinds /\ x.from > 0 /\ us[x.from].type = Opener[x.kind]
         /\ x.to + 1 \in 1..Len(us) /\ us[x.to + 1].type = Closer[x.kind]
    BY <2>3, <2>4, <2>5
  <2>6. PICK r \in Phrases(us) : /\ r.kind = "value" /\ r.from = x.from - 1 /\ r.to = x.to + 1
                                 /\ r.value = x.value /\ r.depth = x.depth + 1
    BY <2>1, <2>5, <2>10, MakeContainer
  <2>7. r.depth + (K - 1) <= MaxDepth
    <3>1. x.depth \in Nat
      BY PhraseShaped DEF Shaped
    <3> QED
      BY <2>6, <3>1
  <2>8. ValueDue(us, L, K - 1, r.from)
    BY <2>3, <2>5, <2>6 DEF J
  <2>9. r.to = (b + Len(rest)) + 1
    BY <1>1, <2>6
  <2> QED
    BY <2>6, <2>7, <2>8, <2>9 DEF ClosedBy
<1>3. \A us : IsCompleted(us, ts, b, rest, L, K) => \E j \in 0..K : ClosedBy(us, L, K, b + Len(rest), j)
  BY <1>2
<1> HIDE DEF rest
<1> QED
  BY <1>1, <1>3, CompleteWith

\* A beginning that lacks only EOF.
LEMMA EofMissing ==
  ASSUME NEW ts \in Seq(Token), NEW b \in 0..Len(ts), Balanced(ts, b, 0),
         NEW r \in Phrases(ts), r.kind = "value", r.from = 0, r.to = b, r.depth <= MaxDepth
  PROVE  IsBeginning(SubSeq(ts, 1, b))
<1> DEFINE rest == <<>>
           L == <<>>
<1>1. rest \in Rests /\ rest \in Seq(Token) /\ Len(rest) = 0 /\ b \in Nat /\ b + Len(rest) = b
  BY RestTokens, LenProperties
<1>2. OpenLists(ts, L, 0, b)
  BY DEF OpenLists
<1> HIDE DEF L
<1>3. ASSUME NEW us, IsCompleted(us, ts, b, rest, L, 0) PROVE ClosedBy(us, L, 0, b + Len(rest), 0)
  <2>1. us \in Seq(Token) /\ Agree(ts, us, b)
    BY <1>3 DEF IsCompleted
  <2> HIDE DEF rest
  <2>2. r \in Phrases(us) /\ r.depth \in Nat
    BY <1>1, <2>1, Locality, PhraseShaped DEF Shaped
  <2>3. r.to = (b + Len(rest)) + 0 /\ r.depth + (0 - 0) <= MaxDepth /\ 0 - 0 = 0
    BY <1>1, <2>2, ParserAssumption
  <2>4. ValueDue(us, L, 0, r.from)
    BY DEF ValueDue
  <2> QED
    BY <2>2, <2>3, <2>4 DEF ClosedBy
<1>4. \A us : IsCompleted(us, ts, b, rest, L, 0) => \E j \in 0..0 : ClosedBy(us, L, 0, b + Len(rest), j)
  BY <1>3
<1> HIDE DEF rest
<1> QED
  BY <1>1, <1>2, <1>4, CompleteWith

\* Of an object that has members, one has a name.
LEMMA SomeKey ==
  ASSUME NEW ts \in Seq(Token), NEW l \in Phrases(ts), l.kind = "members", l.from # l.to
  PROVE  \E key \in [type : {"String"}, raw : Strings] : Text[key.raw] # Invalid
<1>1. PICK s \in Phrases(ts), i \in Phrases(ts) : IsLonger(ts, l, s, i)
  BY ListIs DEF ListKinds
<1>2. i.kind = "member"
  BY <1>1 DEF IsLonger, GoesOn, Item
<1>3. i.from + 1 \in 1..Len(ts) /\ \E v \in Phrases(ts) : MemberStart(ts, i, v)
  BY <1>2, MemberStarts
<1> DEFINE t == ts[i.from + 1]
<1>4. t \in Token /\ t.type = "String" /\ Text[t.raw] # Invalid
  BY <1>3, ElementOfSeq DEF MemberStart
<1> HIDE DEF t
<1>5. "String" \notin Structural
  BY DEF Structural, Openers, Closers, Literals
<1>6. t \in [type : {"String"}, raw : Strings]
  BY <1>4, <1>5 DEF Token
<1> QED
  BY <1>4, <1>6

\* A beginning where a name is due, and one where its colon is.
LEMMA KeyMissing ==
  ASSUME NEW ts \in Seq(Token), NEW b \in 0..Len(ts), NEW K \in Nat, K # 0, K <= MaxDepth, NEW L,
         OpenLists(ts, L, K, b), Balanced(ts, b, K),
         L[K].kind = "members", MayGoOn(ts, L[K]), Start(L[K]) = b
  PROVE  IsBeginning(SubSeq(ts, 1, b))
<1> DEFINE l == L[K]
<1>0. K \in 1..K /\ b \in Nat
  BY LenProperties
<1>1. l \in Phrases(ts) /\ l.depth + K <= MaxDepth /\ l.to <= b /\ l.to \in Nat /\ l.from \in Nat
  BY <1>0, PhraseShaped DEF OpenLists, IsOpen, Shaped
<1>2. CASE l.from = l.to
  <2>1. l.to = b /\ Alike(l, L[K])
    BY <1>2 DEF Start, Alike
  <2> QED
    BY <1>1, <2>1, CloserMissing
<1>3. CASE l.from # l.to
  <2>1. PICK key \in [type : {"String"}, raw : Strings] : Text[key.raw] # Invalid
    BY <1>1, <1>3, SomeKey
  <2> DEFINE null == [type |-> "Null"]
             colon == [type |-> "Colon"]
             rest == <<key, colon, null>>
  <2>2. /\ rest \in Rests /\ rest \in Seq(Token) /\ Len(rest) = 3
        /\ rest[1] = key /\ rest[2] = colon /\ rest[3] = null
    BY RestTokens
  <2>3. b = l.to + 1 /\ ts[l.to + 1].type = "Comma"
    BY <1>3 DEF Start, MayGoOn
  <2>4. ASSUME NEW us, IsCompleted(us, ts, b, rest, L, K) PROVE ClosedBy(us, L, K, b + Len(rest), 0)
    <3>1. /\ us \in Seq(Token) /\ Len(us) = b + Len(rest) + K + 1 /\ Agree(ts, us, b)
          /\ \A i \in 1..Len(rest) : us[b + i] = rest[i]
      BY <2>4 DEF IsCompleted
    <3> HIDE DEF rest
    <3>2. us[b + 1] = key /\ us[b + 2] = colon /\ us[b + 3] = null
      BY <2>2, <3>1
    <3>3. NameAt(us, b)
      BY <2>1, <3>2 DEF NameAt, KeyAt
    <3>4. us[l.to + 1] = ts[l.to + 1]
      <4> DEFINE i == l.to + 1
      <4>1. i \in 1..b
        BY <1>0, <1>1, <2>3
      <4> HIDE DEF i
      <4>2. us[i] = ts[i]
        BY <3>1, <4>1 DEF Agree
      <4> QED
        BY <4>2 DEF i
    <3>5. MayGoOn(us, l)
      BY <1>3, <2>3, <3>4 DEF MayGoOn
    <3>6. ValueDue(us, L, K, b + 2)
      BY <3>3, <3>5 DEF ValueDue, Due
    <3>7. b + 2 \in Nat /\ (b + 2) + 1 = b + 3 /\ (b + 2) + 1 \in 1..Len(us) /\ b + Len(rest) = (b + 2) + 1
      BY <1>0, <2>2, <3>1
    <3>8. us[(b + 2) + 1] = [type |-> "Null"]
      BY <3>2, <3>7
    <3>9. ClosedBy(us, L, K, (b + 2) + 1, 0)
      BY <3>1, <3>6, <3>7, <3>8, NullValueAt
    <3> QED
      BY <3>7, <3>9
  <2>5. \A us : IsCompleted(us, ts, b, rest, L, K) => \E j \in 0..K : ClosedBy(us, L, K, b + Len(rest), j)
    BY <2>4
  <2> HIDE DEF rest
  <2> QED
    BY <2>2, <2>5, CompleteWith
<1> QED
  BY <1>2, <1>3

LEMMA ColonMissing ==
  ASSUME NEW ts \in Seq(Token), NEW b \in 0..Len(ts), NEW K \in Nat, K # 0, K <= MaxDepth, NEW L,
         OpenLists(ts, L, K, b), Balanced(ts, b, K),
         L[K].kind = "members", MayGoOn(ts, L[K]), Start(L[K]) + 1 = b, KeyAt(ts, Start(L[K]))
  PROVE  IsBeginning(SubSeq(ts, 1, b))
<1> DEFINE l == L[K]
           null == [type |-> "Null"]
           colon == [type |-> "Colon"]
           rest == <<colon, null>>
<1>0. K \in 1..K /\ b \in Nat
  BY LenProperties
<1>1. l \in Phrases(ts) /\ l.to \in Nat /\ l.from \in Nat
  BY <1>0, PhraseShaped DEF OpenLists, IsOpen, Shaped
<1>2. Start(l) \in Nat /\ l.to <= Start(l)
  BY <1>1 DEF Start
<1>3. rest \in Rests /\ rest \in Seq(Token) /\ Len(rest) = 2 /\ rest[1] = colon /\ rest[2] = null
  BY RestTokens
<1>4. ASSUME NEW us, IsCompleted(us, ts, b, rest, L, K) PROVE ClosedBy(us, L, K, b + Len(rest), 0)
  <2>1. /\ us \in Seq(Token) /\ Len(us) = b + Len(rest) + K + 1 /\ Agree(ts, us, b)
        /\ \A i \in 1..Len(rest) : us[b + i] = rest[i]
    BY <1>4 DEF IsCompleted
  <2> HIDE DEF rest
  <2>2. us[b + 1] = colon /\ us[b + 2] = null
    BY <1>3, <2>1
  <2>3. Start(l) + 1 \in 1..b /\ l.to + 1 \in 1..b /\ Start(l) + 1 = b /\ Start(l) + 2 = b + 1
    BY <1>0, <1>1, <1>2
  <2>4. us[Start(l) + 1] = ts[Start(l) + 1] /\ us[l.to + 1] = ts[l.to + 1]
    BY <2>1, <2>3 DEF Agree
  <2>5. NameAt(us, Start(l)) /\ MayGoOn(us, l)
    BY <2>2, <2>3, <2>4 DEF NameAt, KeyAt, MayGoOn
  <2>6. ValueDue(us, L, K, b + 1)
    BY <2>3, <2>5 DEF ValueDue, Due
  <2>7. b + 1 \in Nat /\ (b + 1) + 1 = b + 2 /\ (b + 1) + 1 \in 1..Len(us) /\ b + Len(rest) = (b + 1) + 1
    BY <1>0, <1>3, <2>1
  <2>8. us[(b + 1) + 1] = [type |-> "Null"]
    BY <2>2, <2>7
  <2>9. ClosedBy(us, L, K, (b + 1) + 1, 0)
    BY <2>1, <2>6, <2>7, <2>8, NullValueAt
  <2> QED
    BY <2>7, <2>9
<1>5. \A us : IsCompleted(us, ts, b, rest, L, K) => \E j \in 0..K : ClosedBy(us, L, K, b + Len(rest), j)
  BY <1>4
<1> HIDE DEF rest
<1> QED
  BY <1>3, <1>5, CompleteWith

-----------------------------------------------------------------------------
(* Where the parser refuses a stream.                                       *)

\* The token an exception is about, and what a refused stream is.
Bad == IF error.why = "depth" THEN error.at - 1 ELSE error.at
NoEofBefore(ts, n) == \A i \in 1..(n - 1) : ts[i].type # "EndOfFile"
RefusedAt(ts, bad) ==
  /\ bad \in 1..Len(ts) /\ NoEofBefore(ts, bad)
  /\ NoDocument(ts, bad) /\ IsBeginning(SubSeq(ts, 1, bad - 1))

RefusedInv == pc = "failed" /\ error.why # "no EOF" => RefusedAt(tokens, Bad)
AnswerInv == pc = "done" => NoEofBefore(tokens, current) /\ Document(tokens, current, ret)

\* No EOF is consumed before the answer.
LEMMA EofStep ==
  ASSUME Inv, EofAhead, [Next]_vars
  PROVE  EofAhead'
<1> SUFFICES ASSUME Running', NEW i \in 1..(current' - 1) PROVE tokens'[i].type # "EndOfFile"
  BY DEF EofAhead
<1>1. ASSUME current' = 1 PROVE FALSE
  BY <1>1
<1>2. current \in Nat /\ tokens' = tokens
  BY TokensStay DEF Inv, TypeInv
<1>3. ASSUME Running, current' = current PROVE tokens'[i].type # "EndOfFile"
  BY <1>2, <1>3 DEF EofAhead
<1>4. ASSUME Running, current' = current + 1, Peek # "EndOfFile" PROVE tokens'[i].type # "EndOfFile"
  <2>1. i \in 1..(current - 1) \/ i = current
    BY <1>2, <1>4
  <2> QED
    BY <1>2, <1>4, <2>1 DEF EofAhead, Peek
<1>5. CASE Construct \/ ScanGiveUp \/ ScanEnd
  BY <1>1, <1>5 DEF Construct, ScanGiveUp, ScanEnd, ScanReturn, Inv, ControlInv
<1>6. CASE ScanOpener \/ ScanCloser \/ ScanComma \/ ScanOther
  BY <1>6 DEF ScanOpener, ScanCloser, ScanComma, ScanOther, ScanOn, Running
<1>7. CASE ParseLiteral \/ ParseString \/ ParseNumber \/ EnterObject \/ EnterArray
  <2>1. ASSUME NEW why, NEW at PROVE ~Fail(why, at) /\ ~Throw(why, at)
    BY DEF Fail, Throw, Running
  <2>2. pc = "value" /\ Peek # "EndOfFile" /\ current' = current + 1
    BY <1>7, <2>1 DEF ParseLiteral, ParseString, ParseNumber, EnterObject, EnterArray, Enter, Return, Literals
  <2> QED
    BY <1>4, <2>2 DEF Running
<1>8. CASE CloseEmpty \/ CloseContainer \/ NextElement
  BY <1>4, <1>8 DEF CloseEmpty, CloseContainer, NextElement, Leave, Return, Advance, Running, CloserOf
<1>9. CASE EnterBody
  BY <1>3, <1>9 DEF EnterBody, Advance, Running
<1>10. CASE ParseKey
  <2>1. ASSUME NEW why, NEW at PROVE ~Fail(why, at)
    BY DEF Fail, Throw, Running
  <2>2. /\ pc = "key" /\ Peek = "String" /\ current' = current + 2
        /\ tokens[current + 1].type = "Colon"
    BY <1>10, <2>1 DEF ParseKey, Advance
  <2>3. i \in 1..(current - 1) \/ i = current \/ i = current + 1
    BY <1>2, <2>2
  <2> QED
    BY <1>2, <2>2, <2>3 DEF EofAhead, Peek, Running
<1>11. CASE RejectStream \/ RejectValue \/ RejectDepth \/ RejectSeparator \/ RejectTrailing
  <2>1. ASSUME NEW why, NEW at PROVE ~Fail(why, at)
    BY DEF Fail, Throw, Running
  <2> QED
    BY <1>11, <2>1, Zenon DEF RejectStream, RejectValue, RejectDepth, RejectSeparator, RejectTrailing
<1>12. CASE Finish
  BY <1>12 DEF Finish, Advance, Running
<1>13. CASE Ended \/ UNCHANGED vars
  BY <1>3, <1>13 DEF Ended, vars, Running
<1> QED
  BY <1>5, <1>6, <1>7, <1>8, <1>9, <1>10, <1>11, <1>12, <1>13 DEF Next, Parse

\* What is known where the parser looks at a token.
LEMMA LooksAt ==
  ASSUME Inv, NestInv, ReadInv, EofAhead, Running
  PROVE  \E b \in Nat, K \in Nat :
           /\ current = b + 1 /\ K = Len(frames) /\ K <= MaxDepth /\ currentDepth = K
           /\ tokens \in Seq(Token) /\ b + 1 \in 1..Len(tokens) /\ b \in 0..Len(tokens)
           /\ (frames = <<>> <=> K = 0) /\ tokens[b + 1].type = Peek
           /\ Balanced(tokens, b, K) /\ NoEofBefore(tokens, b + 1) /\ HasRead(tokens, frames, K, b, pc, ret)
<1> DEFINE b == current - 1
           K == Len(frames)
<1>1. /\ tokens \in Seq(Token) /\ Len(tokens) \in Nat
      /\ b \in Nat /\ b + 1 = current /\ b + 1 \in 1..Len(tokens) /\ tokens[b + 1].type = Peek
      /\ K \in Nat /\ (frames = <<>> <=> K = 0) /\ currentDepth = K /\ K <= MaxDepth
  BY Where
<1>2. b \in 0..Len(tokens) /\ (b + 1) - 1 = b
  BY <1>1
<1>3. Balanced(tokens, b, K) /\ HasRead(tokens, frames, K, b, pc, ret)
  BY <1>1 DEF NestInv, ReadInv
<1>4. NoEofBefore(tokens, b + 1)
  BY <1>2 DEF EofAhead, NoEofBefore
<1>5. b \in Nat /\ K \in Nat
  BY <1>1
<1> WITNESS b \in Nat, K \in Nat
<1> QED
  BY <1>1, <1>2, <1>3, <1>4

LEMMA RefusedIs ==
  ASSUME NEW ts, NEW b \in Nat, b + 1 \in 1..Len(ts), NoEofBefore(ts, b + 1),
         NoDocument(ts, b + 1), IsBeginning(SubSeq(ts, 1, b))
  PROVE  RefusedAt(ts, b + 1)
<1>1. (b + 1) - 1 = b
  OBVIOUS
<1> QED
  BY <1>1 DEF RefusedAt

\* parseValue refuses.
LEMMA ValueRefused ==
  ASSUME Inv, NestInv, ReadInv, EofAhead, pc = "value", Denoted(tokens[current]) = {},
         Peek \notin Openers \/ currentDepth >= MaxDepth
  PROVE  RefusedAt(tokens, current)
<1>1. PICK b \in Nat, K \in Nat :
           /\ current = b + 1 /\ K = Len(frames) /\ K <= MaxDepth /\ currentDepth = K
           /\ tokens \in Seq(Token) /\ b + 1 \in 1..Len(tokens) /\ b \in 0..Len(tokens)
           /\ (frames = <<>> <=> K = 0) /\ tokens[b + 1].type = Peek
           /\ Balanced(tokens, b, K) /\ NoEofBefore(tokens, b + 1) /\ HasRead(tokens, frames, K, b, pc, ret)
  BY LooksAt DEF Running
<1>2. PICK L : OpenLists(tokens, L, K, b) /\ ValueDue(tokens, L, K, b)
  BY <1>1 DEF HasRead, AtPoint, Read, ValueAt
<1>3. Denoted(tokens[b + 1]) = {} /\ (tokens[b + 1].type \notin Openers \/ K >= MaxDepth)
  BY <1>1
<1>4. NoDocument(tokens, b + 1)
  BY <1>1, <1>2, <1>3, BadValue
<1>5. IsBeginning(SubSeq(tokens, 1, b))
  BY <1>1, <1>2, ValueMissing
<1>6. RefusedAt(tokens, b + 1)
  BY <1>1, <1>4, <1>5, RefusedIs
<1> QED
  BY <1>1, <1>6

\* parseObject refuses a name, and what is in the place of its colon.
LEMMA KeyRefused ==
  ASSUME Inv, NestInv, ReadInv, EofAhead, pc = "key"
  PROVE  /\ Peek # "String" \/ Text[tokens[current].raw] = Invalid => RefusedAt(tokens, current)
         /\ /\ Peek = "String" /\ Text[tokens[current].raw] # Invalid
            /\ tokens[current + 1].type # "Colon"
            => RefusedAt(tokens, current + 1)
<1>1. PICK b \in Nat, K \in Nat :
           /\ current = b + 1 /\ K = Len(frames) /\ K <= MaxDepth /\ currentDepth = K
           /\ tokens \in Seq(Token) /\ b + 1 \in 1..Len(tokens) /\ b \in 0..Len(tokens)
           /\ (frames = <<>> <=> K = 0) /\ tokens[b + 1].type = Peek
           /\ Balanced(tokens, b, K) /\ NoEofBefore(tokens, b + 1) /\ HasRead(tokens, frames, K, b, pc, ret)
  BY LooksAt DEF Running
<1>2. K # 0
  BY <1>1 DEF Inv, ControlInv
<1>3. PICK L : /\ OpenLists(tokens, L, K, b)
               /\ L[K].kind = "members" /\ MayGoOn(tokens, L[K]) /\ Start(L[K]) = b
  BY <1>1 DEF HasRead, AtPoint, Read
<1>4. tokens[current] = tokens[b + 1]
  BY <1>1
<1>5. ASSUME Peek # "String" \/ Text[tokens[current].raw] = Invalid PROVE RefusedAt(tokens, current)
  <2>1. ~KeyAt(tokens, b)
    BY <1>1, <1>4, <1>5 DEF KeyAt
  <2>2. NoDocument(tokens, b + 1)
    BY <1>1, <1>2, <1>3, <2>1, BadMember
  <2>3. IsBeginning(SubSeq(tokens, 1, b))
    BY <1>1, <1>2, <1>3, KeyMissing
  <2>4. RefusedAt(tokens, b + 1)
    BY <1>1, <2>2, <2>3, RefusedIs
  <2> QED
    BY <1>1, <2>4
<1>6. ASSUME Peek = "String", Text[tokens[current].raw] # Invalid, tokens[current + 1].type # "Colon"
      PROVE  RefusedAt(tokens, current + 1)
  <2> DEFINE c == b + 1
  <2>1. c \in Nat /\ c \in 0..Len(tokens) /\ c = current /\ Start(L[K]) + 1 = c
    BY <1>1, <1>3
  <2>2. c + 1 \in 1..Len(tokens)
    <3>1. current \in 1..Len(tokens) /\ tokens[current].type # "EndOfFile"
      BY <1>1, <1>6 DEF Peek
    <3>2. current + 1 \in 1..Len(tokens)
      BY <1>6, <3>1, NextToken
    <3> QED
      BY <2>1, <3>2
  <2>3. KeyAt(tokens, Start(L[K])) /\ tokens[c + 1].type # "Colon"
    BY <1>1, <1>3, <1>4, <1>6 DEF KeyAt
  <2>4. Balanced(tokens, c, K)
    <3>1. tokens[b + 1].type \notin Openers \cup Closers
      BY <1>1, <1>6 DEF Openers, Closers
    <3> QED
      BY <1>1, <3>1, BalancedStep
  <2>5. NoEofBefore(tokens, c + 1)
    <3>1. \A i \in 1..((c + 1) - 1) : i \in 1..((b + 1) - 1) \/ i = b + 1
      OBVIOUS
    <3>2. tokens[b + 1].type # "EndOfFile"
      BY <1>1, <1>6
    <3> QED
      BY <1>1, <3>1, <3>2 DEF NoEofBefore
  <2>6. OpenLists(tokens, L, K, c)
    <3>1. \A k \in 1..K : L[k].to <= b => L[k].to <= b + 1
      <4>1. ASSUME NEW k \in 1..K, L[k].to <= b PROVE L[k].to <= b + 1
        <5>1. L[k] \in Phrases(tokens)
          BY <1>3, <4>1 DEF OpenLists, IsOpen
        <5>2. L[k].to \in Nat
          BY <1>1, <5>1, PhraseShaped DEF Shaped
        <5> QED
          BY <1>1, <4>1, <5>2
      <4> QED
        BY <4>1
    <3> QED
      BY <1>3, <3>1 DEF OpenLists, IsOpen
  <2> HIDE DEF c
  <2>7. NoDocument(tokens, c + 1)
    BY <1>1, <1>2, <1>3, <2>1, <2>2, <2>3, <2>6, BadMember
  <2>8. IsBeginning(SubSeq(tokens, 1, c))
    BY <1>1, <1>2, <1>3, <2>1, <2>3, <2>4, <2>6, ColonMissing
  <2>9. RefusedAt(tokens, c + 1)
    BY <2>1, <2>2, <2>5, <2>7, <2>8, RefusedIs
  <2> QED
    BY <2>1, <2>9
<1> QED
  BY <1>5, <1>6

\* What follows an item is refused.
LEMMA SeparatorRefused ==
  ASSUME Inv, NestInv, ReadInv, EofAhead, pc = "return", frames # <<>>,
         Peek \notin {CloserOf(Top.type), "Comma"}
  PROVE  RefusedAt(tokens, current)
<1>1. PICK b \in Nat, K \in Nat :
           /\ current = b + 1 /\ K = Len(frames) /\ K <= MaxDepth /\ currentDepth = K
           /\ tokens \in Seq(Token) /\ b + 1 \in 1..Len(tokens) /\ b \in 0..Len(tokens)
           /\ (frames = <<>> <=> K = 0) /\ tokens[b + 1].type = Peek
           /\ Balanced(tokens, b, K) /\ NoEofBefore(tokens, b + 1) /\ HasRead(tokens, frames, K, b, pc, ret)
  BY LooksAt DEF Running
<1>2. current - 1 = b /\ K # 0
  BY <1>1
<1>3. PICK L : /\ Read(tokens, frames, L, K, b)
               /\ \E x \in Phrases(tokens) : Lengthened(x, L[K], K, b, Stored)
  BY <1>1, <1>2, StoredRead
<1>4. PICK x \in Phrases(tokens) : Lengthened(x, L[K], K, b, Stored)
  BY <1>3
<1>5. OpenLists(tokens, L, K, b)
  BY <1>3 DEF Read
<1>6. Alike(x, L[K]) /\ x.to = b /\ x.from # b /\ x.depth + K <= MaxDepth /\ x.kind = KindOf(Top)
  <2>1. KindOf(Stored) = KindOf(Top)
    BY StoredIs
  <2> QED
    BY <1>4, <2>1 DEF Lengthened, Holds
<1>7. tokens[b + 1].type # "Comma" /\ tokens[b + 1].type # Closer[x.kind]
  BY <1>1, <1>6, WhereTop DEF Running
<1>8. NoDocument(tokens, b + 1)
  BY <1>1, <1>2, <1>5, <1>6, <1>7, BadSeparator
<1>9. IsBeginning(SubSeq(tokens, 1, b))
  BY <1>1, <1>2, <1>5, <1>6, CloserMissing
<1>10. RefusedAt(tokens, b + 1)
  BY <1>1, <1>8, <1>9, RefusedIs
<1> QED
  BY <1>1, <1>10

\* The value of the whole stream, and what follows it.
LEMMA WholeValue ==
  ASSUME Inv, NestInv, ReadInv, EofAhead, pc = "return", frames = <<>>
  PROVE  /\ NoEofBefore(tokens, current)
         /\ Peek = "EndOfFile" => Document(tokens, current, ret)
         /\ Peek # "EndOfFile" => RefusedAt(tokens, current)
<1>1. PICK b \in Nat, K \in Nat :
           /\ current = b + 1 /\ K = Len(frames) /\ K <= MaxDepth /\ currentDepth = K
           /\ tokens \in Seq(Token) /\ b + 1 \in 1..Len(tokens) /\ b \in 0..Len(tokens)
           /\ (frames = <<>> <=> K = 0) /\ tokens[b + 1].type = Peek
           /\ Balanced(tokens, b, K) /\ NoEofBefore(tokens, b + 1) /\ HasRead(tokens, frames, K, b, pc, ret)
  BY LooksAt DEF Running
<1>2. K = 0
  BY <1>1
<1>3. PICK L : ReadValue(tokens, frames, L, 0, b, ret)
  BY <1>1, <1>2 DEF HasRead, AtPoint
<1>4. PICK r \in Phrases(tokens) : /\ r.kind = "value" /\ r.to = b /\ r.value = ret /\ r.depth + 0 <= MaxDepth
                                   /\ ValueAt(tokens, frames, L, 0, r.from)
  BY <1>3 DEF ReadValue
<1>5. r.from = 0 /\ r.depth <= MaxDepth
  <2>1. r.depth \in Nat
    BY <1>1, <1>4, PhraseShaped DEF Shaped
  <2> QED
    BY <1>4, <2>1 DEF ValueAt, ValueDue
<1>6. ASSUME Peek = "EndOfFile" PROVE Document(tokens, current, ret)
  <2>1. (b + 1) - 1 = b
    OBVIOUS
  <2>2. IsRoot(tokens, b + 1, r)
    BY <1>1, <1>4, <1>5, <1>6, <2>1 DEF IsRoot
  <2> QED
    BY <1>1, <1>4, <2>2 DEF Document
<1>7. ASSUME Peek # "EndOfFile" PROVE RefusedAt(tokens, current)
  <2>1. NoDocument(tokens, b + 1)
    BY <1>1, <1>4, <1>5, <1>7, BadEnd
  <2>2. IsBeginning(SubSeq(tokens, 1, b))
    BY <1>1, <1>2, <1>4, <1>5, EofMissing
  <2>3. RefusedAt(tokens, b + 1)
    BY <1>1, <2>1, <2>2, RefusedIs
  <2> QED
    BY <1>1, <2>3
<1> QED
  BY <1>1, <1>6, <1>7

LEMMA OneBack == \A n \in Nat : (n + 1) - 1 = n
  OBVIOUS

\* A step that throws: from where, for what reason and at which token.
LEMMA FailStep ==
  ASSUME Inv, NestInv, ReadInv, EofAhead, Next, pc # "failed", pc' = "failed",
         error'.why # "no EOF"
  PROVE  RefusedAt(tokens, IF error'.why = "depth" THEN error'.at - 1 ELSE error'.at)
<1> DEFINE e == error'
<1>0. current \in Nat
  BY DEF Inv, TypeInv
<1>1. ASSUME NEW why \in {"range", "value", "key", "surrogate", "colon", "comma", "trailing"}, NEW at,
             e = [why |-> why, at |-> at], RefusedAt(tokens, at)
      PROVE  RefusedAt(tokens, IF e.why = "depth" THEN e.at - 1 ELSE e.at)
  BY <1>1
<1>2. ASSUME NEW why, NEW at, Fail(why, at) \/ Throw(why, at) PROVE e = [why |-> why, at |-> at]
  BY <1>2 DEF Fail, Throw
<1> HIDE DEF e
<1>3. CASE ParseString
  <2>1. pc = "value" /\ Peek = "String" /\ Text[tokens[current].raw] = Invalid /\ Throw("surrogate", current)
    BY <1>3 DEF ParseString, Return
  <2>2. Denoted(tokens[current]) = {} /\ Peek \notin Openers
    BY <2>1, StringDenoted DEF Peek, Openers
  <2>3. RefusedAt(tokens, current)
    BY <2>1, <2>2, ValueRefused
  <2> QED
    BY <1>1, <1>2, <2>1, <2>3 DEF e
<1>4. CASE ParseNumber
  <2>1. pc = "value" /\ Peek = "Number" /\ Number[tokens[current].raw] = Invalid /\ Fail("range", current)
    BY <1>4 DEF ParseNumber, Return
  <2>2. Denoted(tokens[current]) = {} /\ Peek \notin Openers
    BY <2>1, NumberDenoted DEF Peek, Openers
  <2>3. RefusedAt(tokens, current)
    BY <2>1, <2>2, ValueRefused
  <2> QED
    BY <1>1, <1>2, <2>1, <2>3 DEF e
<1>5. CASE RejectValue
  <2>1. /\ pc = "value" /\ Fail("value", current)
        /\ Peek \in {"RightBrace", "RightBracket", "Colon", "Comma", "EndOfFile"}
    BY <1>5 DEF RejectValue
  <2>2. Denoted(tokens[current]) = {} /\ Peek \notin Openers
    BY <2>1 DEF Denoted, Words, Peek, Openers
  <2>3. RefusedAt(tokens, current)
    BY <2>1, <2>2, ValueRefused
  <2> QED
    BY <1>1, <1>2, <2>1, <2>3 DEF e
<1>6. CASE RejectDepth
  <2>1. pc = "value" /\ Peek \in Openers /\ currentDepth >= MaxDepth /\ Fail("depth", current + 1)
    BY <1>6 DEF RejectDepth
  <2>2. Denoted(tokens[current]) = {}
    BY <2>1 DEF Denoted, Words, Peek, Openers
  <2>3. RefusedAt(tokens, current)
    BY <2>1, <2>2, ValueRefused
  <2>4. e = [why |-> "depth", at |-> current + 1]
    BY <1>2, <2>1
  <2>5. (current + 1) - 1 = current
    BY <1>0, OneBack
  <2>6. e.why = "depth" /\ e.at = current + 1
    BY <2>4
  <2> QED
    BY <2>3, <2>5, <2>6 DEF e
<1>7. CASE ParseKey
  <2>1. pc = "key"
    BY <1>7 DEF ParseKey
  <2>2. CASE Peek # "String" /\ Fail("key", current)
    BY <1>1, <1>2, <2>1, <2>2, KeyRefused DEF e
  <2>3. CASE Text[tokens[current].raw] = Invalid /\ Fail("surrogate", current)
    BY <1>1, <1>2, <2>1, <2>3, KeyRefused DEF e
  <2>4. CASE /\ Peek = "String" /\ Text[tokens[current].raw] # Invalid
             /\ tokens[current + 1].type # "Colon" /\ Fail("colon", current + 1)
    BY <1>1, <1>2, <2>1, <2>4, KeyRefused DEF e
  <2>5. \A next, to : ~Advance(next, to) \/ to = "failed"
    BY DEF Advance
  <2> QED
    BY <1>7, <2>2, <2>3, <2>4, <2>5 DEF ParseKey
<1>8. CASE RejectSeparator
  <2>1. pc = "return" /\ frames # <<>> /\ Peek \notin {CloserOf(Top.type), "Comma"} /\ Fail("comma", current)
    BY <1>8 DEF RejectSeparator
  <2>2. RefusedAt(tokens, current)
    BY <2>1, SeparatorRefused
  <2> QED
    BY <1>1, <1>2, <2>1, <2>2 DEF e
<1>9. CASE RejectTrailing
  <2>1. pc = "return" /\ frames = <<>> /\ Peek # "EndOfFile" /\ Fail("trailing", current)
    BY <1>9 DEF RejectTrailing
  <2>2. RefusedAt(tokens, current)
    BY <2>1, WholeValue
  <2> QED
    BY <1>1, <1>2, <2>1, <2>2 DEF e
<1>10. CASE RejectStream
  <2>1. Fail("no EOF", 1)
    BY <1>10 DEF RejectStream
  <2>2. e = [why |-> "no EOF", at |-> 1]
    BY <1>2, <2>1
  <2> QED
    BY <2>2 DEF e
<1>11. CASE \/ Construct \/ ScanGiveUp \/ ScanOpener \/ ScanCloser \/ ScanComma \/ ScanOther \/ ScanEnd
  BY <1>11, Zenon DEF Construct, ScanGiveUp, ScanOpener, ScanCloser, ScanComma, ScanOther, ScanEnd, ScanOn, ScanReturn
<1>12. CASE \/ ParseLiteral \/ EnterObject \/ EnterArray \/ CloseEmpty \/ EnterBody \/ CloseContainer
            \/ NextElement \/ Finish \/ Ended
  BY <1>12 DEF ParseLiteral, EnterObject, EnterArray, CloseEmpty, EnterBody, CloseContainer, NextElement, Finish,
    Ended, Enter, Leave, Return, Advance, vars
<1> QED
  BY <1>3, <1>4, <1>5, <1>6, <1>7, <1>8, <1>9, <1>10, <1>11, <1>12 DEF Next, Parse

LEMMA RefusedStep ==
  ASSUME Inv, NestInv, ReadInv, EofAhead, RefusedInv, [Next]_vars
  PROVE  RefusedInv'
<1>1. tokens' = tokens
  BY TokensStay
<1>2. CASE pc = "failed"
  <2>1. UNCHANGED vars
    BY <1>2, Zenon DEF Next, Parse, Ended, RejectStream, Construct, ScanGiveUp, ScanOpener, ScanCloser, ScanComma,
      ScanOther, ScanEnd, ParseLiteral, ParseString, ParseNumber, RejectValue, RejectDepth, EnterObject, EnterArray,
      CloseEmpty, EnterBody, ParseKey, CloseContainer, NextElement, RejectSeparator, Finish, RejectTrailing
  <2> QED
    BY <2>1, Zenon DEF vars, RefusedInv, Bad
<1>3. CASE pc # "failed"
  <2>1. SUFFICES ASSUME pc' = "failed", error'.why # "no EOF" PROVE RefusedAt(tokens, Bad')
    BY <1>1, Zenon DEF RefusedInv
  <2>2. Next
    BY <1>3, <2>1 DEF vars
  <2>3. RefusedAt(tokens, IF error'.why = "depth" THEN error'.at - 1 ELSE error'.at)
    BY <1>3, <2>1, <2>2, FailStep
  <2> QED
    BY <2>3 DEF Bad
<1> QED
  BY <1>2, <1>3

LEMMA AnswerStep ==
  ASSUME Inv, NestInv, ReadInv, EofAhead, AnswerInv, [Next]_vars
  PROVE  AnswerInv'
<1> SUFFICES ASSUME pc' = "done" PROVE NoEofBefore(tokens', current') /\ Document(tokens', current', ret')
  BY DEF AnswerInv
<1>1. CASE Finish
  <2>1. /\ pc = "return" /\ frames = <<>> /\ Peek = "EndOfFile"
        /\ current' = current /\ tokens' = tokens /\ ret' = ret
    BY <1>1 DEF Finish, Advance
  <2> QED
    BY <2>1, WholeValue
<1>2. CASE Ended \/ UNCHANGED vars
  <2>1. UNCHANGED vars
    BY <1>2 DEF Ended
  <2> QED
    BY <2>1 DEF vars, AnswerInv
<1>3. ASSUME NEW why, NEW at PROVE ~Fail(why, at) /\ ~Throw(why, at)
  BY DEF Fail, Throw
<1>4. CASE \/ Construct \/ ScanGiveUp \/ ScanOpener \/ ScanCloser \/ ScanComma \/ ScanOther \/ ScanEnd
  BY <1>4 DEF Construct, ScanGiveUp, ScanOpener, ScanCloser, ScanComma, ScanOther, ScanEnd, ScanOn, ScanReturn
<1>5. CASE \/ RejectStream \/ RejectValue \/ RejectDepth \/ RejectSeparator \/ RejectTrailing
  BY <1>3, <1>5, Zenon DEF RejectStream, RejectValue, RejectDepth, RejectSeparator, RejectTrailing
<1>6. CASE \/ ParseLiteral \/ ParseString \/ ParseNumber \/ EnterObject \/ EnterArray \/ CloseEmpty \/ EnterBody
           \/ ParseKey \/ CloseContainer \/ NextElement
  BY <1>3, <1>6 DEF ParseLiteral, ParseString, ParseNumber, EnterObject, EnterArray, CloseEmpty, EnterBody, ParseKey,
    CloseContainer, NextElement, Enter, Leave, Return, Advance
<1> QED
  BY <1>1, <1>2, <1>4, <1>5, <1>6 DEF Next, Parse

\* No completion of tokens that no document begins with is one.
LEMMA NotBeginning ==
  ASSUME NEW ts \in Seq(Token), NEW bad \in 1..Len(ts), NoDocument(ts, bad)
  PROVE  ~IsBeginning(SubSeq(ts, 1, bad))
<1> DEFINE p == SubSeq(ts, 1, bad)
<1>0. Len(ts) \in Nat /\ bad \in Nat /\ bad \in 0..Len(ts)
  BY LenProperties
<1>1. p \in Seq(Token) /\ Len(p) = bad /\ \A i \in 1..bad : p[i] = ts[i]
  <2>1. \A i \in 1..bad : ts[i] \in Token
    BY <1>0, ElementOfSeq
  <2>2. /\ p \in Seq(Token) /\ Len(p) = IF 1 <= bad THEN bad - 1 + 1 ELSE 0
        /\ \A i \in 1..(bad - 1 + 1) : p[i] = ts[1 + i - 1]
    BY <1>0, <2>1, SubSeqProperties
  <2> HIDE DEF p
  <2>3. Len(p) = bad
    BY <1>0, <2>2
  <2>4. \A i \in 1..bad : p[i] = ts[i]
    BY <1>0, <2>2
  <2> QED
    BY <2>2, <2>3, <2>4
<1>2. Among(p, Openers) \in Nat /\ Among(p, Closers) \in Nat
  <2>1. CountOf(ts, Openers, bad) \in Nat /\ CountOf(ts, Closers, bad) \in Nat
    BY <1>0, CountStep
  <2> QED
    BY <1>0, <2>1, AmongIs
<1> HIDE DEF p
<1>3. ASSUME NEW c \in BracketsFor(p) PROVE c \in Seq(Token)
  <2> DEFINE m == Among(p, Openers) - Among(p, Closers)
  <2>1. m \in Int /\ c \in [1..m -> [type : Closers]]
    BY <1>2, <1>3 DEF BracketsFor
  <2> HIDE DEF m
  <2>2. PICK k \in Nat : 1..k = 1..m
    <3>1. CASE m >= 0
      <4>1. m \in Nat
        BY <2>1, <3>1
      <4> QED
        BY <4>1, Zenon
    <3>2. CASE m < 0
      <4>1. 1..m = {} /\ 1..0 = {}
        BY <2>1, <3>2
      <4> QED
        BY <4>1
    <3> QED
      BY <2>1, <3>1, <3>2
  <2>3. \A j \in 1..k : c[j] \in Token
    <3>1. [type : Closers] \subseteq Token
      BY SomeTokens DEF Token, Closers, Structural
    <3> QED
      BY <2>1, <2>2, <3>1
  <2>4. c \in [1..k -> Token]
    BY <2>1, <2>2, <2>3
  <2> QED
    BY <2>2, <2>4, FunctionIsSeq
<1>4. ASSUME NEW rest \in Rests PROVE rest \in Seq(Token)
  <2> DEFINE null == [type |-> "Null"]
             colon == [type |-> "Colon"]
             keys == [type : {"String"}, raw : Strings]
  <2>1. Rests = {<<>>, <<null>>, <<colon, null>>} \cup {<<key, colon, null>> : key \in keys}
    BY DEF Rests
  <2>2. /\ <<>> \in Seq(Token) /\ <<null>> \in Seq(Token) /\ <<colon, null>> \in Seq(Token)
        /\ \A key \in keys : <<key, colon, null>> \in Seq(Token)
    BY RestTokens
  <2> HIDE DEF null, colon, keys
  <2> QED
    BY <1>4, <2>1, <2>2
<1>5. ASSUME NEW e \in Completions(p) PROVE e \in Seq(Token)
  <2>1. CASE e = <<>>
    BY <2>1
  <2>2. ASSUME NEW rest \in Rests, NEW c \in BracketsFor(p), e = Completion(rest, c) PROVE e \in Seq(Token)
    <3> DEFINE d == rest \o c
               z == <<[type |-> "EndOfFile"]>>
    <3>1. rest \in Seq(Token) /\ c \in Seq(Token)
      BY <1>3, <1>4, <2>2
    <3>2. d \in Seq(Token)
      BY <3>1, ConcatProperties
    <3>3. z \in Seq(Token)
      BY SomeTokens DEF Eof
    <3> HIDE DEF d, z
    <3>4. d \o z \in Seq(Token)
      BY <3>2, <3>3, ConcatProperties
    <3> QED
      BY <2>2, <3>4, Zenon DEF Completion, d, z
  <2>3. e = <<>> \/ \E rest \in Rests, c \in BracketsFor(p) : e = Completion(rest, c)
    BY <1>5, SMT DEF Completions
  <2> QED
    BY <2>1, <2>2, <2>3, Zenon
<1>6. SUFFICES ASSUME NEW e \in Completions(p), IsDocument(p \o e) PROVE FALSE
  BY Zenon DEF IsBeginning, p
<1> DEFINE us == p \o e
<1>7. /\ us \in Seq(Token) /\ Len(us) = Len(p) + Len(e) /\ Len(e) \in Nat
      /\ \A i \in 1..(Len(p) + Len(e)) : us[i] = IF i <= Len(p) THEN p[i] ELSE e[i - Len(p)]
  <2>1. e \in Seq(Token)
    BY <1>5, <1>6
  <2> QED
    BY <1>1, <2>1, ConcatProperties, LenProperties, Zenon
<1>8. IsDocument(us)
  BY <1>6, Zenon
<1> HIDE DEF us
<1>9. Len(us) \in Nat /\ bad <= Len(us) /\ \A i \in 1..bad : ts[i] = us[i]
  BY <1>0, <1>1, <1>7
<1>10. PICK r \in Phrases(us) : IsRoot(us, Len(us), r)
  BY <1>8 DEF IsDocument
<1>11. Len(us) \in bad..Len(us)
  BY <1>0, <1>9
<1> QED
  BY <1>7, <1>9, <1>10, <1>11 DEF NoDocument

\* A stream is a document in at most one way, and has one meaning.
LEMMA OneDocument ==
  ASSUME NEW ts \in Seq(Token), NEW n \in 1..Len(ts), NEW m \in 1..Len(ts), NEW v, NEW w,
         Document(ts, n, v), Document(ts, m, w)
  PROVE  n = m /\ v = w
<1>1. PICK p \in Phrases(ts) : IsRoot(ts, n, p) /\ p.value = v
  BY DEF Document
<1>2. PICK q \in Phrases(ts) : IsRoot(ts, m, q) /\ q.value = w
  BY DEF Document
<1>3. Alike(p, q)
  BY <1>1, <1>2 DEF IsRoot, Alike
<1>4. p = q
  BY <1>1, <1>2, <1>3, Determinism DEF IsRoot, Comparable
<1>5. n - 1 = m - 1 /\ Len(ts) \in Nat
  BY <1>1, <1>2, <1>4, LenProperties DEF IsRoot
<1> QED
  BY <1>1, <1>2, <1>4, <1>5

-----------------------------------------------------------------------------
(* The theorems.                                                            *)

\* The inductive invariant of what the parser reads, refuses and answers.
DoneInv == pc = "done" => current \in 1..Len(tokens)

AllInv == Inv /\ NestInv /\ ReadInv /\ EofAhead /\ RefusedInv /\ AnswerInv /\ DoneInv

LEMMA DoneStep == Inv /\ DoneInv /\ [Next]_vars => DoneInv'
<1> SUFFICES ASSUME Inv, DoneInv, [Next]_vars, pc' = "done" PROVE current' \in 1..Len(tokens')
  BY DEF DoneInv
<1>1. CASE Finish
  BY <1>1, TokensStay DEF Finish, Advance, Inv, ControlInv, Running
<1>2. CASE Ended \/ UNCHANGED vars
  BY <1>2 DEF Ended, vars, DoneInv
<1>3. ASSUME NEW why, NEW at PROVE ~Fail(why, at) /\ ~Throw(why, at)
  BY DEF Fail, Throw
<1>4. CASE \/ Construct \/ ScanGiveUp \/ ScanOpener \/ ScanCloser \/ ScanComma \/ ScanOther \/ ScanEnd
  BY <1>4 DEF Construct, ScanGiveUp, ScanOpener, ScanCloser, ScanComma, ScanOther, ScanEnd, ScanOn, ScanReturn,
    Inv, ControlInv
<1>5. CASE \/ RejectStream \/ RejectValue \/ RejectDepth \/ RejectSeparator \/ RejectTrailing
  BY <1>3, <1>5, Zenon DEF RejectStream, RejectValue, RejectDepth, RejectSeparator, RejectTrailing
<1>6. CASE \/ ParseLiteral \/ ParseString \/ ParseNumber \/ EnterObject \/ EnterArray \/ CloseEmpty \/ EnterBody
           \/ ParseKey \/ CloseContainer \/ NextElement
  BY <1>3, <1>6 DEF ParseLiteral, ParseString, ParseNumber, EnterObject, EnterArray, CloseEmpty, EnterBody, ParseKey,
    CloseContainer, NextElement, Enter, Leave, Return, Advance
<1> QED
  BY <1>1, <1>2, <1>4, <1>5, <1>6 DEF Next, Parse

LEMMA InitAllInv == Init => AllInv
<1> SUFFICES ASSUME Init PROVE AllInv
  OBVIOUS
<1>1. Inv
  BY InitInv
<1> QED
  BY <1>1 DEF Init, AllInv, NestInv, ReadInv, EofAhead, RefusedInv, AnswerInv, DoneInv, Running

LEMMA NextAllInv == AllInv /\ [Next]_vars => AllInv'
<1> SUFFICES ASSUME AllInv, [Next]_vars PROVE AllInv'
  OBVIOUS
<1>1. Inv /\ Inv' /\ NestInv /\ ReadInv /\ EofAhead /\ RefusedInv /\ AnswerInv /\ DoneInv
  BY NextInv DEF AllInv
<1>2. NestInv' /\ ReadInv' /\ EofAhead'
  BY <1>1, NestStep, ReadStep, EofStep
<1>3. RefusedInv' /\ AnswerInv' /\ DoneInv'
  BY <1>1, RefusedStep, AnswerStep, DoneStep
<1> QED
  BY <1>1, <1>2, <1>3 DEF AllInv

\* An exception points at the first token that no continuation can repair,
\* however long the stream and however deep the limit: what is before it can be
\* completed with a few tokens and the closers of the open containers, and
\* with it nothing can.
THEOREM ErrorsAreAtFirstBadToken == Spec => []ErrorAtFirstBadToken
<1>1. AllInv => ErrorAtFirstBadToken
  <2> SUFFICES ASSUME AllInv, pc = "failed", error.why # "no EOF"
               PROVE  IsBeginning(SubSeq(tokens, 1, Bad - 1)) /\ ~IsBeginning(SubSeq(tokens, 1, Bad))
    BY Zenon DEF ErrorAtFirstBadToken, Bad
  <2>1. RefusedAt(tokens, Bad) /\ tokens \in Seq(Token)
    BY DEF AllInv, RefusedInv, Inv, TypeInv
  <2> QED
    BY <2>1, NotBeginning DEF RefusedAt
<1> QED
  BY <1>1, InitAllInv, NextAllInv, PTL DEF Spec

\* No document of any length, whatever its meaning, begins with the tokens that
\* an exception covers, not only none of the completions in ErrorAtFirstBadToken.
RefusalIsFinal == pc = "failed" /\ error.why # "no EOF" => NoDocument(tokens, Bad)

\* For every stream that parse() refuses, of whatever length.
THEOREM RefusalsAreFinal == Spec => []RefusalIsFinal
<1>1. AllInv => RefusalIsFinal
  BY DEF AllInv, RefusedInv, RefusedAt, RefusalIsFinal
<1> QED
  BY <1>1, InitAllInv, NextAllInv, PTL DEF Spec

\* What parse() returns is the meaning the grammar gives the stream: the tokens
\* before the EOF it stopped at are a value with that meaning, within the limit,
\* and neither the tokens nor any other beginning of the stream have another.
AnswerIsTheMeaning ==
  pc = "done" => \A n \in 1..Len(tokens) : \A v : Document(tokens, n, v) <=> n = current /\ v = ret

\* For every stream that parse() accepts, of whatever length and nesting.
THEOREM AnswersAreTheMeaning == Spec => []AnswerIsTheMeaning
<1>1. AllInv => AnswerIsTheMeaning
  <2> SUFFICES ASSUME AllInv, pc = "done", NEW n \in 1..Len(tokens), NEW v
               PROVE  Document(tokens, n, v) <=> n = current /\ v = ret
    BY DEF AnswerIsTheMeaning
  <2>1. Document(tokens, current, ret) /\ current \in 1..Len(tokens) /\ tokens \in Seq(Token)
    BY DEF AllInv, AnswerInv, DoneInv, Inv, TypeInv
  <2> QED
    BY <2>1, OneDocument
<1> QED
  BY <1>1, InitAllInv, NextAllInv, PTL DEF Spec

-----------------------------------------------------------------------------
\* A stream with a meaning ends with an EOF and has a beginning, up to an EOF,
\* that is a document; the values are in no set, those of a stream's phrases are.
IsEnded(ts) == Len(ts) > 0 /\ ts[Len(ts)].type = "EndOfFile"
Roots(ts) == {p \in Phrases(ts) : \E n \in 1..Len(ts) : IsRoot(ts, n, p)}
Outcome ==
  IF pc = "done" THEN [kind |-> "accepted", value |-> ret]
  ELSE [kind |-> IF pc = "failed" THEN "rejected" ELSE "pending"]
Reading ==
  INSTANCE TextPass WITH
    text <- tokens, outcome <- Outcome,
    Sentences <- {ts \in Seq(Token) : IsEnded(ts) /\ Roots(ts) # {}},
    Meaning <- UNION {{<<ts, p.value>> : p \in Roots(ts)} : ts \in {us \in Seq(Token) : IsEnded(us)}}

\* A refused stream has no document, not even up to an EOF in its middle.
LEMMA RefusedHasNone ==
  ASSUME NEW ts \in Seq(Token), NEW bad, RefusedAt(ts, bad)
  PROVE  Roots(ts) = {}
<1> SUFFICES ASSUME NEW p \in Phrases(ts), NEW n \in 1..Len(ts), IsRoot(ts, n, p) PROVE FALSE
  BY DEF Roots
<1>1. bad \in 1..Len(ts) /\ Len(ts) \in Nat
  BY LenProperties DEF RefusedAt
<1>2. CASE n < bad
  <2>1. n \in 1..(bad - 1)
    BY <1>1, <1>2
  <2> QED
    BY <2>1 DEF RefusedAt, NoEofBefore, IsRoot
<1>3. CASE n >= bad
  <2>1. n \in bad..Len(ts)
    BY <1>1, <1>3
  <2> QED
    BY <2>1 DEF RefusedAt, NoDocument
<1> QED
  BY <1>1, <1>2, <1>3

LEMMA StepReads == AllInv /\ [Next]_vars => [Reading!Next]_<<tokens, Outcome>>
<1> SUFFICES ASSUME AllInv, [Next]_vars PROVE Reading!Next \/ UNCHANGED <<tokens, Outcome>>
  OBVIOUS
<1>0. AllInv' /\ tokens' = tokens /\ tokens \in Seq(Token)
  BY NextAllInv, TokensStay DEF AllInv, Inv, TypeInv
<1>1. CASE pc \in {"done", "failed"}
  <2>1. UNCHANGED vars
    BY <1>1, Zenon DEF Next, Parse, Ended, RejectStream, Construct, ScanGiveUp, ScanOpener, ScanCloser, ScanComma,
      ScanOther, ScanEnd, ParseLiteral, ParseString, ParseNumber, RejectValue, RejectDepth, EnterObject, EnterArray,
      CloseEmpty, EnterBody, ParseKey, CloseContainer, NextElement, RejectSeparator, Finish, RejectTrailing
  <2> QED
    BY <2>1 DEF vars, Outcome
<1>2. CASE pc \notin {"done", "failed"} /\ pc' = "done"
  <2>1. Outcome = Reading!Pending /\ Outcome'.kind = "accepted" /\ Outcome'.value = ret'
    BY <1>2 DEF Outcome, Reading!Pending
  <2>2. Document(tokens, current', ret') /\ current' \in 1..Len(tokens) /\ IsEnded(tokens)
    BY <1>0, <1>2 DEF AllInv, AnswerInv, DoneInv, Inv, EofInv, IsEnded
  <2>3. PICK p \in Roots(tokens) : p.value = ret'
    BY <2>2 DEF Document, Roots
  <2>4. <<tokens, ret'>> \in UNION {{<<ts, q.value>> : q \in Roots(ts)} : ts \in {us \in Seq(Token) : IsEnded(us)}}
    BY <1>0, <2>2, <2>3
  <2> QED
    BY <1>0, <2>1, <2>4 DEF Reading!Next, Reading!Accept
<1>3. CASE pc \notin {"done", "failed"} /\ pc' = "failed"
  <2>1. Outcome = Reading!Pending /\ Outcome' = Reading!Rejected
    BY <1>3 DEF Outcome, Reading!Pending, Reading!Rejected
  <2>2. CASE RejectStream
    <3>1. ~IsEnded(tokens)
      <4>1. ~EndsWithEof(tokens)
        BY <2>2 DEF RejectStream
      <4>2. Len(tokens) > 0 => tokens # <<>>
        BY <1>0
      <4> QED
        BY <4>1, <4>2 DEF EndsWithEof, IsEnded, Last
    <3> QED
      BY <1>0, <2>1, <3>1 DEF Reading!Next, Reading!Reject
  <2>3. CASE error'.why # "no EOF"
    <3>1. RefusedAt(tokens, Bad')
      BY <1>0, <1>3, <2>3 DEF AllInv, RefusedInv
    <3>2. Roots(tokens) = {}
      BY <1>0, <3>1, RefusedHasNone
    <3> QED
      BY <1>0, <2>1, <3>2 DEF Reading!Next, Reading!Reject
  <2>4. RejectStream \/ error'.why # "no EOF"
    <3>1. ASSUME NEW why \in {"range", "value", "key", "surrogate", "colon", "comma", "trailing", "depth"}, NEW at,
                 Fail(why, at) \/ Throw(why, at)
          PROVE  error'.why # "no EOF"
      <4> DEFINE e == error'
      <4>1. e = [why |-> why, at |-> at]
        BY <3>1 DEF Fail, Throw
      <4> HIDE DEF e
      <4>2. e.why = why /\ why # "no EOF"
        BY <3>1, <4>1
      <4> QED
        BY <4>2 DEF e
    <3>2. CASE RejectValue \/ RejectDepth \/ RejectSeparator \/ RejectTrailing
      BY <3>1, <3>2 DEF RejectValue, RejectDepth, RejectSeparator, RejectTrailing
    <3>3. CASE ParseString \/ ParseNumber \/ ParseKey
      BY <1>3, <3>1, <3>3 DEF ParseString, ParseNumber, ParseKey, Return, Advance
    <3>4. CASE \/ Construct \/ ScanGiveUp \/ ScanOpener \/ ScanCloser \/ ScanComma \/ ScanOther \/ ScanEnd
      BY <1>3, <3>4 DEF Construct, ScanGiveUp, ScanOpener, ScanCloser, ScanComma, ScanOther, ScanEnd,
        ScanOn, ScanReturn
    <3>5. CASE \/ ParseLiteral \/ EnterObject \/ EnterArray \/ CloseEmpty \/ EnterBody \/ CloseContainer
               \/ NextElement \/ Finish \/ Ended \/ UNCHANGED vars
      BY <1>3, <3>5 DEF ParseLiteral, EnterObject, EnterArray, CloseEmpty, EnterBody, CloseContainer, NextElement,
        Finish, Ended, Enter, Leave, Return, Advance, vars
    <3> QED
      BY <3>2, <3>3, <3>4, <3>5 DEF Next, Parse
  <2> QED
    BY <2>2, <2>3, <2>4
<1>4. CASE pc \notin {"done", "failed"} /\ pc' \notin {"done", "failed"}
  BY <1>0, <1>4 DEF Outcome
<1> QED
  BY <1>1, <1>2, <1>3, <1>4

\* parse() implements a pass over token streams: it answers a stream with what
\* this means in the grammar, and throws only where it means nothing, whatever
\* its length, its nesting and its strings and numbers.
THEOREM ParserReadsTheGrammar == Spec => Reading!SafeSpec
<1>1. Init => Reading!Init
  BY DEF Init, Outcome, Reading!Init, Reading!Pending
<1> QED
  BY <1>1, InitAllInv, NextAllInv, StepReads, PTL DEF Spec, Reading!SafeSpec

-----------------------------------------------------------------------------
(* What is within a value.                                                  *)

InsideUpTo(json, f, n) ==
  f = [k \in 0..n |-> IF k = 0 THEN {json} ELSE UNION {Contained(v) : v \in f[k - 1]}]

LEMMA InsideSome ==
  ASSUME NEW json, NEW n \in Nat
  PROVE  \E f : InsideUpTo(json, f, n)
<1> DEFINE S == {m \in Nat : \E f : InsideUpTo(json, f, m)}
<1>1. 0 \in S
  <2> DEFINE f == [k \in 0..0 |-> {json}]
  <2>1. \A k \in 0..0 : k = 0
    OBVIOUS
  <2>2. f = [k \in 0..0 |-> IF k = 0 THEN {json} ELSE UNION {Contained(v) : v \in f[k - 1]}]
    BY <2>1
  <2> QED
    BY <2>2 DEF InsideUpTo
<1>2. ASSUME NEW m \in Nat, m \in S PROVE m + 1 \in S
  <2>1. PICK f : InsideUpTo(json, f, m)
    BY <1>2
  <2> DEFINE g == [k \in 0..(m + 1) |-> IF k = m + 1 THEN UNION {Contained(v) : v \in f[m]} ELSE f[k]]
  <2>2. \A k \in 0..m : g[k] = f[k]
    OBVIOUS
  <2>3. ASSUME NEW k \in 0..(m + 1)
        PROVE  g[k] = IF k = 0 THEN {json} ELSE UNION {Contained(v) : v \in g[k - 1]}
    <3>1. CASE k = m + 1
      <4>1. g[k] = UNION {Contained(v) : v \in f[m]} /\ k # 0 /\ k - 1 = m /\ m \in 0..m
        BY <3>1
      <4> HIDE DEF g
      <4> QED
        BY <2>2, <4>1
    <3>2. CASE k # m + 1
      <4>1. k \in 0..m /\ (k # 0 => k - 1 \in 0..m)
        BY <3>2
      <4>2. f[k] = IF k = 0 THEN {json} ELSE UNION {Contained(v) : v \in f[k - 1]}
        BY <2>1, <4>1 DEF InsideUpTo
      <4>3. k # 0 => g[k - 1] = f[k - 1]
        BY <2>2, <4>1
      <4>4. g[k] = f[k]
        BY <2>2, <4>1
      <4> HIDE DEF g
      <4> QED
        BY <4>2, <4>3, <4>4
    <3> QED
      BY <3>1, <3>2
  <2>4. g = [k \in 0..(m + 1) |-> IF k = 0 THEN {json} ELSE UNION {Contained(v) : v \in g[k - 1]}]
    <3>1. g = [k \in 0..(m + 1) |-> g[k]]
      OBVIOUS
    <3> HIDE DEF g
    <3> QED
      BY <2>3, <3>1
  <2>5. InsideUpTo(json, g, m + 1)
    BY <2>4, Zenon DEF InsideUpTo
  <2> QED
    BY <2>5
<1> HIDE DEF S
<1>3. Nat \subseteq S
  BY <1>1, <1>2, NatInduct
<1> QED
  BY <1>3 DEF S

LEMMA InsideOnce ==
  ASSUME NEW json, NEW m \in Nat, NEW n \in Nat, NEW f, NEW g,
         InsideUpTo(json, f, m), InsideUpTo(json, g, n), NEW k \in Nat, k <= m, k <= n
  PROVE  f[k] = g[k]
<1> DEFINE S == {j \in Nat : j <= m /\ j <= n => f[j] = g[j]}
<1>1. 0 \in S
  BY DEF InsideUpTo
<1>2. ASSUME NEW j \in Nat, j \in S PROVE j + 1 \in S
  <2>1. SUFFICES ASSUME j + 1 <= m, j + 1 <= n PROVE f[j + 1] = g[j + 1]
    OBVIOUS
  <2>2. f[j] = g[j] /\ j + 1 # 0 /\ (j + 1) - 1 = j /\ j + 1 \in 0..m /\ j + 1 \in 0..n
    BY <1>2, <2>1
  <2>3. f[j + 1] = UNION {Contained(v) : v \in f[j]}
    BY <2>2 DEF InsideUpTo
  <2>4. g[j + 1] = UNION {Contained(v) : v \in g[j]}
    BY <2>2 DEF InsideUpTo
  <2> QED
    BY <2>2, <2>3, <2>4
<1> HIDE DEF S
<1>3. Nat \subseteq S
  BY <1>1, <1>2, NatInduct
<1> QED
  BY <1>3 DEF S

LEMMA InsideIs ==
  ASSUME NEW json
  PROVE  /\ Inside(json)[0] = {json}
         /\ \A n \in Nat : Inside(json)[n + 1] = UNION {Contained(v) : v \in Inside(json)[n]}
<1> DEFINE At(n) == CHOOSE f : InsideUpTo(json, f, n)
           F == [n \in Nat |-> At(n)[n]]
           G(h) == h = [n \in Nat |-> IF n = 0 THEN {json} ELSE UNION {Contained(v) : v \in h[n - 1]}]
<1>0. ASSUME NEW n \in Nat PROVE InsideUpTo(json, At(n), n)
  BY InsideSome, Zenon
<1>1. ASSUME NEW n \in Nat PROVE F[n] = IF n = 0 THEN {json} ELSE UNION {Contained(v) : v \in F[n - 1]}
  <2> HIDE DEF At
  <2>1. PICK f : f = At(n)
    OBVIOUS
  <2>2. InsideUpTo(json, f, n) /\ F[n] = f[n]
    BY <1>0, <2>1
  <2>3. f[n] = IF n = 0 THEN {json} ELSE UNION {Contained(v) : v \in f[n - 1]}
    <3>1. n \in 0..n
      OBVIOUS
    <3>2. f = [k \in 0..n |-> IF k = 0 THEN {json} ELSE UNION {Contained(v) : v \in f[k - 1]}]
      BY <2>2, Zenon DEF InsideUpTo
    <3> QED
      BY <3>1, <3>2, Zenon
  <2>4. CASE n # 0
    <3>1. n - 1 \in Nat /\ n - 1 <= n /\ n - 1 <= n - 1
      BY <2>4
    <3>2. InsideUpTo(json, At(n - 1), n - 1) /\ F[n - 1] = At(n - 1)[n - 1]
      BY <1>0, <3>1
    <3>3. F[n - 1] = f[n - 1]
      <4> HIDE DEF F
      <4> QED
        BY <2>2, <3>1, <3>2, InsideOnce
    <3> HIDE DEF F
    <3> QED
      BY <2>2, <2>3, <3>3
  <2> QED
    BY <2>2, <2>3, <2>4
<1>2. F = [n \in Nat |-> F[n]]
  OBVIOUS
<1> HIDE DEF F
<1>3. G(F)
  BY <1>1, <1>2
<1>4. Inside(json) = CHOOSE h : G(h)
  BY Zenon DEF Inside
<1>5. G(Inside(json))
  <2> HIDE DEF G
  <2> QED
    BY <1>3, <1>4
<1>6. ASSUME NEW n \in Nat PROVE Inside(json)[n] = IF n = 0 THEN {json} ELSE UNION {Contained(v) : v \in Inside(json)[n - 1]}
  BY <1>5
<1>7. ASSUME NEW n \in Nat PROVE n + 1 \in Nat /\ n + 1 # 0 /\ (n + 1) - 1 = n
  OBVIOUS
<1> HIDE DEF G
<1> QED
  BY <1>6, <1>7

-----------------------------------------------------------------------------
(* The tokens of a text, of its parts together those of its parts.           *)

Piece == Token \cup Blank

BlanksUpTo(text, f, n) ==
  f = [k \in 0..n |-> IF k = 0 THEN <<>>
                      ELSE IF text[k].type = "Blank" THEN f[k - 1] ELSE Append(f[k - 1], text[k])]

LEMMA BlanksSome ==
  ASSUME NEW text, NEW n \in Nat
  PROVE  \E f : BlanksUpTo(text, f, n)
<1> DEFINE On(e, k) == IF text[k].type = "Blank" THEN e ELSE Append(e, text[k])
           S == {m \in Nat : \E f : f = [k \in 0..m |-> IF k = 0 THEN <<>> ELSE On(f[k - 1], k)]}
<1>0. \A f, m : BlanksUpTo(text, f, m) <=> f = [k \in 0..m |-> IF k = 0 THEN <<>> ELSE On(f[k - 1], k)]
  BY Zenon DEF BlanksUpTo
<1> HIDE DEF On
<1>1. 0 \in S
  <2> DEFINE f == [k \in 0..0 |-> <<>>]
  <2>1. \A k \in 0..0 : k = 0
    OBVIOUS
  <2>2. f = [k \in 0..0 |-> IF k = 0 THEN <<>> ELSE On(f[k - 1], k)]
    BY <2>1
  <2> QED
    BY <2>2
<1>2. ASSUME NEW m \in Nat, m \in S PROVE m + 1 \in S
  <2>1. PICK f : f = [k \in 0..m |-> IF k = 0 THEN <<>> ELSE On(f[k - 1], k)]
    BY <1>2
  <2> DEFINE g == [k \in 0..(m + 1) |-> IF k = m + 1 THEN On(f[m], m + 1) ELSE f[k]]
  <2>2. \A k \in 0..m : g[k] = f[k]
    OBVIOUS
  <2>3. ASSUME NEW k \in 0..(m + 1)
        PROVE  g[k] = IF k = 0 THEN <<>> ELSE On(g[k - 1], k)
    <3>1. CASE k = m + 1
      <4>1. g[k] = On(f[m], k) /\ k # 0 /\ k - 1 = m /\ m \in 0..m
        BY <3>1
      <4> HIDE DEF g
      <4> QED
        BY <2>2, <4>1
    <3>2. CASE k # m + 1
      <4>1. k \in 0..m /\ (k # 0 => k - 1 \in 0..m)
        BY <3>2
      <4>2. f[k] = IF k = 0 THEN <<>> ELSE On(f[k - 1], k)
        BY <2>1, <4>1
      <4>3. k # 0 => g[k - 1] = f[k - 1]
        BY <2>2, <4>1
      <4>4. g[k] = f[k]
        BY <2>2, <4>1
      <4> HIDE DEF g
      <4> QED
        BY <4>2, <4>3, <4>4
    <3> QED
      BY <3>1, <3>2
  <2>4. g = [k \in 0..(m + 1) |-> IF k = 0 THEN <<>> ELSE On(g[k - 1], k)]
    <3>1. g = [k \in 0..(m + 1) |-> g[k]]
      OBVIOUS
    <3> HIDE DEF g
    <3> QED
      BY <2>3, <3>1
  <2> HIDE DEF g
  <2>5. \E h : h = [k \in 0..(m + 1) |-> IF k = 0 THEN <<>> ELSE On(h[k - 1], k)]
    BY <2>4
  <2> QED
    BY <2>5
<1>3. n \in S
  <2> HIDE DEF S
  <2>1. Nat \subseteq S
    BY <1>1, <1>2, NatInduct
  <2> QED
    BY <2>1
<1> QED
  BY <1>0, <1>3

LEMMA BlanksAre ==
  ASSUME NEW text, Len(text) \in Nat
  PROVE  \E f : BlanksUpTo(text, f, Len(text)) /\ WithoutBlanks(text) = f[Len(text)]
<1> DEFINE f == CHOOSE g : BlanksUpTo(text, g, Len(text))
<1>1. BlanksUpTo(text, f, Len(text))
  BY BlanksSome, Zenon
<1>2. WithoutBlanks(text) = f[Len(text)]
  BY Zenon DEF WithoutBlanks, BlanksUpTo
<1> HIDE DEF f
<1> QED
  BY <1>1, <1>2

LEMMA BlanksStep ==
  ASSUME NEW text, NEW f, NEW n \in Nat, BlanksUpTo(text, f, n), NEW k \in Nat
  PROVE  /\ f[0] = <<>>
         /\ k + 1 <= n => f[k + 1] = IF text[k + 1].type = "Blank" THEN f[k] ELSE Append(f[k], text[k + 1])
<1>1. 0 \in 0..n /\ (k + 1 <= n => k + 1 \in 0..n /\ k + 1 # 0 /\ (k + 1) - 1 = k)
  OBVIOUS
<1> QED
  BY <1>1, Zenon DEF BlanksUpTo

LEMMA BlanksOnce ==
  ASSUME NEW text, NEW other, NEW m \in Nat, NEW n \in Nat, NEW f, NEW g,
         BlanksUpTo(text, f, m), BlanksUpTo(other, g, n),
         NEW k \in Nat, k <= m, k <= n, \A i \in 1..k : text[i] = other[i]
  PROVE  f[k] = g[k]
<1> DEFINE S == {j \in Nat : j <= k => f[j] = g[j]}
<1>1. 0 \in S
  BY BlanksStep
<1>2. ASSUME NEW j \in Nat, j \in S PROVE j + 1 \in S
  <2>1. SUFFICES ASSUME j + 1 <= k PROVE f[j + 1] = g[j + 1]
    OBVIOUS
  <2>2. f[j] = g[j] /\ j + 1 <= m /\ j + 1 <= n /\ text[j + 1] = other[j + 1]
    BY <1>2, <2>1
  <2>3. f[j + 1] = IF text[j + 1].type = "Blank" THEN f[j] ELSE Append(f[j], text[j + 1])
    BY <2>2, BlanksStep
  <2>4. g[j + 1] = IF other[j + 1].type = "Blank" THEN g[j] ELSE Append(g[j], other[j + 1])
    BY <2>2, BlanksStep
  <2> QED
    BY <2>2, <2>3, <2>4
<1> HIDE DEF S
<1>3. Nat \subseteq S
  BY <1>1, <1>2, NatInduct
<1> QED
  BY <1>3 DEF S

LEMMA BlanksEmpty == WithoutBlanks(<<>>) = <<>>
<1>1. Len(<<>>) = 0 /\ Len(<<>>) \in Nat
  OBVIOUS
<1>2. PICK f : BlanksUpTo(<<>>, f, Len(<<>>)) /\ WithoutBlanks(<<>>) = f[Len(<<>>)]
  BY <1>1, BlanksAre
<1> QED
  BY <1>1, <1>2, BlanksStep

LEMMA BlanksAppend ==
  ASSUME NEW text \in Seq(Piece), NEW t \in Piece
  PROVE  WithoutBlanks(Append(text, t)) =
           IF t.type = "Blank" THEN WithoutBlanks(text) ELSE Append(WithoutBlanks(text), t)
<1> DEFINE n == Len(text)
           longer == Append(text, t)
<1>1. n \in Nat /\ Len(longer) = n + 1 /\ longer[n + 1] = t /\ \A i \in 1..n : longer[i] = text[i]
  BY AppendProperties, LenProperties
<1> HIDE DEF longer
<1>2. PICK f : BlanksUpTo(text, f, n) /\ WithoutBlanks(text) = f[n]
  BY <1>1, BlanksAre
<1>3. Len(longer) \in Nat
  BY <1>1
<1>4. PICK g : BlanksUpTo(longer, g, Len(longer)) /\ WithoutBlanks(longer) = g[Len(longer)]
  BY <1>3, BlanksAre
<1> HIDE DEF n
<1>5. BlanksUpTo(longer, g, n + 1) /\ WithoutBlanks(longer) = g[n + 1] /\ n + 1 \in Nat /\ n <= n + 1 /\ n <= n
  BY <1>1, <1>4
<1>6. f[n] = g[n]
  BY <1>1, <1>2, <1>5, BlanksOnce
<1>7. g[n + 1] = IF longer[n + 1].type = "Blank" THEN g[n] ELSE Append(g[n], longer[n + 1])
  BY <1>1, <1>5, BlanksStep
<1>8. WithoutBlanks(longer) = IF t.type = "Blank" THEN WithoutBlanks(text) ELSE Append(WithoutBlanks(text), t)
  BY <1>1, <1>2, <1>5, <1>6, <1>7
<1> QED
  BY <1>8 DEF longer

\* A text of n + 1 pieces is one of n pieces and another piece.
LEMMA LastPiece ==
  ASSUME NEW P, NEW text \in Seq(P), NEW n \in Nat, Len(text) = n + 1
  PROVE  \E first \in Seq(P), t \in P : text = Append(first, t) /\ Len(first) = n
<1> DEFINE first == [i \in 1..n |-> text[i]]
<1>1. \A i \in 1..(n + 1) : text[i] \in P
  BY ElementOfSeq
<1>2. first \in Seq(P) /\ Len(first) = n
  BY <1>1
<1>3. text[n + 1] \in P
  BY <1>1
<1>4. /\ Append(first, text[n + 1]) \in Seq(P) /\ Len(Append(first, text[n + 1])) = n + 1
      /\ \A i \in 1..(n + 1) : Append(first, text[n + 1])[i] = text[i]
  BY <1>2, <1>3, AppendProperties
<1> HIDE DEF first
<1>5. text = Append(first, text[n + 1])
  BY <1>4, SeqEqual
<1> QED
  BY <1>2, <1>3, <1>5

LEMMA TokenNotBlank == \A t \in Token : t.type # "Blank"
  BY DEF Token, Structural, Openers, Closers, Literals

LEMMA BlanksTokens ==
  ASSUME NEW text \in Seq(Piece)
  PROVE  WithoutBlanks(text) \in Seq(Token)
<1> DEFINE S == {n \in Nat : \A x \in Seq(Piece) : Len(x) = n => WithoutBlanks(x) \in Seq(Token)}
<1>1. 0 \in S
  <2>1. ASSUME NEW x \in Seq(Piece), Len(x) = 0 PROVE WithoutBlanks(x) \in Seq(Token)
    <3>1. x = <<>>
      BY <2>1, EmptySeq
    <3>2. <<>> \in Seq(Token)
      OBVIOUS
    <3> QED
      BY <3>1, <3>2, BlanksEmpty, Zenon
  <2> QED
    BY <2>1
<1>2. ASSUME NEW n \in Nat, n \in S PROVE n + 1 \in S
  <2>1. SUFFICES ASSUME NEW x \in Seq(Piece), Len(x) = n + 1 PROVE WithoutBlanks(x) \in Seq(Token)
    OBVIOUS
  <2>2. PICK y \in Seq(Piece), t \in Piece : x = Append(y, t) /\ Len(y) = n
    BY <2>1, LastPiece
  <2>3. WithoutBlanks(y) \in Seq(Token)
    BY <1>2, <2>2
  <2>4. t.type # "Blank" => t \in Token
    BY DEF Piece, Blank
  <2>5. t.type # "Blank" => Append(WithoutBlanks(y), t) \in Seq(Token)
    BY <2>3, <2>4, AppendProperties
  <2> QED
    BY <2>2, <2>3, <2>5, BlanksAppend
<1> HIDE DEF S
<1>3. Nat \subseteq S
  BY <1>1, <1>2, NatInduct
<1>4. Len(text) \in Nat
  BY LenProperties
<1> QED
  BY <1>3, <1>4 DEF S

\* Blanks of a text are those of its parts.
LEMMA BlanksConcat ==
  ASSUME NEW x \in Seq(Piece), NEW y \in Seq(Piece)
  PROVE  WithoutBlanks(x \o y) = WithoutBlanks(x) \o WithoutBlanks(y)
<1> DEFINE B(z) == WithoutBlanks(z)
           S == {n \in Nat : \A z \in Seq(Piece) : Len(z) = n => B(x \o z) = B(x) \o B(z)}
<1>0. B(x) \in Seq(Token)
  BY BlanksTokens
<1>1. 0 \in S
  <2>1. ASSUME NEW z \in Seq(Piece), Len(z) = 0 PROVE B(x \o z) = B(x) \o B(z)
    <3>1. z = <<>>
      BY <2>1, EmptySeq
    <3>2. x \o z = x /\ B(z) = <<>>
      BY <3>1, BlanksEmpty, ConcatEmptySeq
    <3> QED
      BY <1>0, <3>2, ConcatEmptySeq
  <2> QED
    BY <2>1
<1>2. ASSUME NEW n \in Nat, n \in S PROVE n + 1 \in S
  <2>1. SUFFICES ASSUME NEW z \in Seq(Piece), Len(z) = n + 1 PROVE B(x \o z) = B(x) \o B(z)
    OBVIOUS
  <2>2. PICK w \in Seq(Piece), t \in Piece : z = Append(w, t) /\ Len(w) = n
    BY <2>1, LastPiece
  <2>3. B(x \o w) = B(x) \o B(w) /\ B(w) \in Seq(Token)
    BY <1>2, <2>2, BlanksTokens
  <2>4. x \o w \in Seq(Piece) /\ x \o z = Append(x \o w, t)
    BY <2>2
  <2>5. B(x \o z) = IF t.type = "Blank" THEN B(x \o w) ELSE Append(B(x \o w), t)
    BY <2>4, BlanksAppend
  <2>6. B(z) = IF t.type = "Blank" THEN B(w) ELSE Append(B(w), t)
    BY <2>2, BlanksAppend
  <2>7. t.type # "Blank" => t \in Token
    BY DEF Piece, Blank
  <2> HIDE DEF B
  <2>8. t.type # "Blank" => Append(B(x) \o B(w), t) = B(x) \o Append(B(w), t)
    <3>1. SUFFICES ASSUME t \in Token PROVE Append(B(x) \o B(w), t) = B(x) \o Append(B(w), t)
      BY <2>7
    <3>2. PICK b \in Seq(Token), c \in Seq(Token) : b = B(x) /\ c = B(w)
      BY <1>0, <2>3
    <3>3. Append(b \o c, t) = b \o Append(c, t)
      <4>1. b \o c \in Seq(Token) /\ <<t>> \in Seq(Token)
        BY <3>1
      <4>2. Append(b \o c, t) = (b \o c) \o <<t>> /\ Append(c, t) = c \o <<t>>
        BY <3>1, <4>1, AppendIsConcat
      <4> QED
        BY <4>1, <4>2, ConcatAssociative
    <3> QED
      BY <3>2, <3>3
  <2> QED
    BY <2>3, <2>5, <2>6, <2>8
<1> HIDE DEF S
<1>3. Nat \subseteq S
  BY <1>1, <1>2, NatInduct
<1>4. Len(y) \in Nat
  BY LenProperties
<1> QED
  BY <1>3, <1>4 DEF S

-----------------------------------------------------------------------------
(* What values phrases have.                                                *)

Plain == {BoolValue(TRUE), BoolValue(FALSE), NullValue}
         \cup {StringValue(x) : x \in Texts} \cup {NumberValue(n) : n \in Numbers}

\* The values of a stream's phrases that nest no deeper than d.
ValuesBy(ts, d) == {p.value : p \in {q \in Phrases(ts) : q.kind = "value" /\ q.depth <= d}}

IsArrayOf(v, S) == \E e \in Seq(S) : v = ArrayValue(e)
IsObjectOf(v, S) == \E K \in SUBSET Texts : IsFiniteSet(K) /\ \E m \in [K -> S] : v = ObjectValue(m)

LEMMA DenotedPlain ==
  ASSUME NEW t \in Token, NEW v \in Denoted(t)
  PROVE  v \in Plain
<1>1. CASE t.type \in DOMAIN Words
  <2>1. v = Words[t.type] /\ t.type \in {"True", "False", "Null"}
    BY <1>1 DEF Denoted, Words
  <2>2. Words.True = BoolValue(TRUE) /\ Words.False = BoolValue(FALSE) /\ Words.Null = NullValue
    BY DEF Words
  <2> QED
    BY <2>1, <2>2 DEF Plain
<1>2. CASE t.type \notin DOMAIN Words /\ t.type = "String"
  <2>1. t.raw \in Strings
    BY <1>2 DEF Token, Structural, Openers, Closers, Literals
  <2>2. v \in {StringValue(x) : x \in {Text[t.raw]} \ {Invalid}}
    BY <1>2, Zenon DEF Denoted
  <2>3. Text[t.raw] # Invalid => Text[t.raw] \in Texts
    BY <2>1 DEF Texts
  <2> QED
    BY <2>2, <2>3 DEF Plain
<1>3. CASE t.type \notin DOMAIN Words /\ t.type = "Number"
  <2>1. t.raw \in Numerals
    BY <1>3 DEF Token, Structural, Openers, Closers, Literals
  <2>2. v \in {NumberValue(x) : x \in {Number[t.raw]} \ {Invalid}}
    BY <1>3 DEF Denoted
  <2>3. Number[t.raw] # Invalid => Number[t.raw] \in Numbers
    BY <2>1 DEF Numbers
  <2> QED
    BY <2>2, <2>3 DEF Plain
<1>4. CASE t.type \notin DOMAIN Words /\ t.type # "Number" /\ t.type # "String"
  BY <1>4 DEF Denoted
<1> QED
  BY <1>1, <1>2, <1>3, <1>4

LEMMA ValuesMono ==
  ASSUME NEW ts \in Seq(Token), NEW d \in Nat, NEW e \in Nat, d <= e
  PROVE  ValuesBy(ts, d) \subseteq ValuesBy(ts, e)
<1> SUFFICES ASSUME NEW p \in Phrases(ts), p.kind = "value", p.depth <= d PROVE p.depth <= e
  BY DEF ValuesBy
<1>1. p.depth \in Nat
  BY PhraseShaped DEF Shaped
<1> QED
  BY <1>1

\* A member: a name, and a value.
LEMMA MemberParts ==
  ASSUME NEW ts \in Seq(Token), NEW i \in Phrases(ts), i.kind = "member"
  PROVE  \E t \in Texts, v \in ValuesBy(ts, i.depth) : i.value = ObjectValue(OneMember(t, v))
<1>1. PICK v \in Phrases(ts) : IsMember(ts, i, v)
  BY PhraseIs DEF IsSingle, IsEmpty, IsContainer, IsLonger, GoesOn, ListKinds
<1>2. v.from - 1 \in 1..Len(ts) /\ ts[v.from - 1].type = "String" /\ Text[ts[v.from - 1].raw] # Invalid
  <2>1. v.from > 1 /\ v.from \in Nat /\ v.from < v.to /\ v.to \in 1..Len(ts) /\ Len(ts) \in Nat
    BY <1>1, PhraseShaped, LenProperties DEF IsMember, IsNamed, Shaped, ListKinds
  <2> QED
    BY <1>1, <2>1 DEF IsMember, IsNamed
<1>3. ts[v.from - 1] \in Token
  BY <1>2, ElementOfSeq
<1>4. ts[v.from - 1].raw \in Strings
  BY <1>2, <1>3 DEF Token, Structural, Openers, Closers, Literals
<1>5. Text[ts[v.from - 1].raw] \in Texts
  BY <1>2, <1>4 DEF Texts
<1>6. v.kind = "value" /\ i.depth = v.depth /\ v.depth \in Nat /\ v.depth <= i.depth
  BY <1>1, PhraseShaped DEF IsMember, Shaped
<1>7. v.value \in ValuesBy(ts, i.depth)
  BY <1>6 DEF ValuesBy
<1> QED
  BY <1>1, <1>5, <1>7 DEF IsMember

LEMMA ArrayLonger ==
  ASSUME NEW S, NEW a, IsArrayOf(a, S), NEW v \in S
  PROVE  IsArrayOf(WithItem("elements", a, v), S)
<1>1. PICK e \in Seq(S) : a = ArrayValue(e)
  BY DEF IsArrayOf
<1>2. WithItem("elements", a, v) = ArrayValue(Append(e, v))
  BY <1>1 DEF WithItem, ArrayValue
<1>3. Append(e, v) \in Seq(S)
  BY AppendProperties
<1> QED
  BY <1>2, <1>3 DEF IsArrayOf

LEMMA ObjectLonger ==
  ASSUME NEW S, NEW a, IsObjectOf(a, S), NEW v \in S, NEW t \in Texts
  PROVE  IsObjectOf(WithItem("members", a, ObjectValue(OneMember(t, v))), S)
<1>1. PICK K \in SUBSET Texts : IsFiniteSet(K) /\ \E m \in [K -> S] : a = ObjectValue(m)
  BY DEF IsObjectOf
<1>2. PICK m \in [K -> S] : a = ObjectValue(m)
  BY <1>1
<1> DEFINE g == OneMember(t, v)
           f == WithMembers(m, g)
<1>3. g = [x \in {t} |-> v]
  BY DEF OneMember
<1>4. a.members = m /\ ObjectValue(g).members = g
  BY <1>2 DEF ObjectValue
<1>5. WithItem("members", a, ObjectValue(g)) = ObjectValue(f)
  <2> HIDE DEF g
  <2> QED
    BY <1>4 DEF WithItem
<1> HIDE DEF g
<1>6. f \in [K \cup {t} -> S]
  <2>1. DOMAIN m = K /\ DOMAIN g = {t} /\ g[t] = v
    BY <1>3
  <2>2. f = [x \in K \cup {t} |-> IF x \in K THEN m[x] ELSE g[x]]
    BY <2>1 DEF WithMembers
  <2>3. \A x \in K \cup {t} : (IF x \in K THEN m[x] ELSE g[x]) \in S
    BY <2>1
  <2> HIDE DEF f
  <2> QED
    BY <2>2, <2>3
<1>7. IsFiniteSet(K \cup {t}) /\ K \cup {t} \in SUBSET Texts
  BY <1>1, FS_AddElement
<1> HIDE DEF f
<1>8. IsObjectOf(ObjectValue(f), S)
  BY <1>6, <1>7 DEF IsObjectOf
<1> QED
  BY <1>5, <1>8 DEF g

LEMMA ArrayMono ==
  ASSUME NEW S, NEW T, S \subseteq T, NEW a, IsArrayOf(a, S)
  PROVE  IsArrayOf(a, T)
<1>1. PICK e \in Seq(S) : a = ArrayValue(e)
  BY DEF IsArrayOf
<1>2. e \in Seq(T)
  BY <1>1
<1> QED
  BY <1>1, <1>2 DEF IsArrayOf

LEMMA ObjectMono ==
  ASSUME NEW S, NEW T, S \subseteq T, NEW a, IsObjectOf(a, S)
  PROVE  IsObjectOf(a, T)
<1>1. PICK K \in SUBSET Texts : IsFiniteSet(K) /\ \E m \in [K -> S] : a = ObjectValue(m)
  BY DEF IsObjectOf
<1>2. PICK m \in [K -> S] : a = ObjectValue(m)
  BY <1>1
<1>3. m \in [K -> T]
  BY <1>2
<1> QED
  BY <1>1, <1>2, <1>3 DEF IsObjectOf

ListParts(ts, p) ==
  /\ p.kind = "elements" => IsArrayOf(p.value, ValuesBy(ts, p.depth))
  /\ p.kind = "members" => IsObjectOf(p.value, ValuesBy(ts, p.depth))

LEMMA EmptyParts ==
  ASSUME NEW ts, NEW p, IsEmpty(ts, p)
  PROVE  ListParts(ts, p)
<1> DEFINE S == ValuesBy(ts, p.depth)
<1>1. p.kind = "elements" => p.value = ArrayValue(<<>>)
  BY DEF IsEmpty, NoItems
<1>2. <<>> \in Seq(S)
  OBVIOUS
<1>3. p.kind = "members" => p.value = ObjectValue(EmptyObject)
  BY DEF IsEmpty, NoItems
<1>4. EmptyObject \in [{} -> S] /\ {} \in SUBSET Texts /\ IsFiniteSet({})
  BY FS_EmptySet DEF EmptyObject
<1> HIDE DEF S
<1>5. p.kind = "elements" => IsArrayOf(p.value, S)
  BY <1>1, <1>2 DEF IsArrayOf
<1>6. p.kind = "members" => IsObjectOf(p.value, S)
  BY <1>3, <1>4 DEF IsObjectOf
<1> QED
  BY <1>5, <1>6 DEF ListParts, S

LEMMA LongerListParts ==
  ASSUME NEW ts \in Seq(Token), NEW p, NEW l \in Phrases(ts), NEW i \in Phrases(ts),
         IsLonger(ts, p, l, i), ListParts(ts, l)
  PROVE  ListParts(ts, p)
<1> DEFINE S == ValuesBy(ts, p.depth)
<1>1. /\ p.kind = l.kind /\ i.kind = Item[l.kind] /\ l.kind \in ListKinds
      /\ p.value = WithItem(l.kind, l.value, i.value) /\ p.depth = Larger(l.depth, i.depth)
  BY DEF IsLonger, GoesOn
<1>2. l.depth \in Nat /\ i.depth \in Nat
  BY PhraseShaped DEF Shaped
<1>3. p.depth \in Nat /\ l.depth <= p.depth /\ i.depth <= p.depth
  BY <1>1, <1>2, LargerIs
<1>4. ValuesBy(ts, l.depth) \subseteq S /\ ValuesBy(ts, i.depth) \subseteq S
  BY <1>2, <1>3, ValuesMono
<1>5. ASSUME p.kind = "elements" PROVE IsArrayOf(p.value, S)
  <2>1. i.kind = "value"
    BY <1>1, <1>5 DEF Item
  <2>2. i.value \in S
    BY <1>3, <2>1 DEF ValuesBy
  <2> HIDE DEF S
  <2>3. IsArrayOf(l.value, S)
    BY <1>1, <1>4, <1>5, ArrayMono DEF ListParts
  <2> QED
    BY <1>1, <1>5, <2>2, <2>3, ArrayLonger
<1>6. ASSUME p.kind = "members" PROVE IsObjectOf(p.value, S)
  <2>1. i.kind = "member"
    BY <1>1, <1>6 DEF Item
  <2>2. PICK t \in Texts, v \in ValuesBy(ts, i.depth) : i.value = ObjectValue(OneMember(t, v))
    BY <2>1, MemberParts
  <2> HIDE DEF S
  <2>3. IsObjectOf(l.value, S) /\ v \in S
    BY <1>1, <1>4, <1>6, ObjectMono DEF ListParts
  <2>4. IsObjectOf(WithItem("members", l.value, ObjectValue(OneMember(t, v))), S)
    BY <2>3, ObjectLonger
  <2> QED
    BY <1>1, <1>6, <2>2, <2>4
<1> QED
  BY <1>5, <1>6 DEF ListParts

LEMMA ListsHaveParts ==
  ASSUME NEW ts \in Seq(Token), NEW p \in Phrases(ts), p.kind \in ListKinds
  PROVE  ListParts(ts, p)
<1> DEFINE S == {b \in Nat : \A q \in Phrases(ts) : q.kind \in ListKinds /\ q.to <= b => ListParts(ts, q)}
<1>0. \A q \in Phrases(ts) : q.to \in Nat /\ q.to >= 1
  BY PhraseShaped, LenProperties
<1>1. 0 \in S
  BY <1>0
<1>2. ASSUME NEW b \in Nat, b \in S PROVE b + 1 \in S
  <2>1. SUFFICES ASSUME NEW q \in Phrases(ts), q.kind \in ListKinds, q.to <= b + 1 PROVE ListParts(ts, q)
    OBVIOUS
  <2>2. \/ IsEmpty(ts, q)
        \/ \E l \in Phrases(ts), i \in Phrases(ts) : IsLonger(ts, q, l, i)
    BY <2>1, PhraseIs DEF IsSingle, IsContainer, IsMember, ListKinds
  <2>3. ASSUME NEW l \in Phrases(ts), NEW i \in Phrases(ts), IsLonger(ts, q, l, i) PROVE ListParts(ts, q)
    <3>1. l.kind \in ListKinds /\ i.kind \notin ListKinds /\ q.to = i.to
      BY <2>3 DEF IsLonger, GoesOn, Item, ListKinds
    <3>2. i.from \in Nat /\ l.to \in Nat /\ i.from < i.to
      BY <3>1, PhraseShaped DEF Shaped
    <3>3. l.to <= i.from
      BY <2>3, <3>2 DEF IsLonger, GoesOn
    <3>4. l.to <= b
      BY <2>1, <3>1, <3>2, <3>3, <1>0
    <3> QED
      BY <1>2, <2>3, <3>1, <3>4, LongerListParts
  <2> QED
    BY <2>2, <2>3, EmptyParts
<1> HIDE DEF S
<1>3. Nat \subseteq S
  BY <1>1, <1>2, NatInduct
<1>4. p.to \in Nat /\ p.to <= p.to
  BY <1>0
<1> QED
  BY <1>3, <1>4 DEF S

\* A value is a plain one, or a container of values that nest less deep.
LEMMA ValueParts ==
  ASSUME NEW ts \in Seq(Token), NEW d \in Nat, NEW v \in ValuesBy(ts, d)
  PROVE  \/ v \in Plain
         \/ d # 0 /\ (IsArrayOf(v, ValuesBy(ts, d - 1)) \/ IsObjectOf(v, ValuesBy(ts, d - 1)))
<1>1. PICK p \in Phrases(ts) : p.kind = "value" /\ p.depth <= d /\ p.value = v
  BY DEF ValuesBy
<1>2. Shaped(p) /\ p.to \in 1..Len(ts) /\ p.depth \in Nat
  BY PhraseShaped DEF Shaped
<1>3. IsSingle(ts, p) \/ \E l \in Phrases(ts) : IsContainer(ts, p, l)
  BY <1>1, PhraseIs DEF IsEmpty, IsMember, IsLonger, GoesOn, ListKinds
<1>4. ASSUME IsSingle(ts, p) PROVE v \in Plain
  <2>1. ts[p.to] \in Token
    BY <1>2, ElementOfSeq
  <2> QED
    BY <1>1, <1>4, <2>1, DenotedPlain DEF IsSingle
<1>5. ASSUME NEW l \in Phrases(ts), IsContainer(ts, p, l)
      PROVE  d # 0 /\ (IsArrayOf(v, ValuesBy(ts, d - 1)) \/ IsObjectOf(v, ValuesBy(ts, d - 1)))
  <2>1. l.kind \in ListKinds /\ p.value = l.value /\ p.depth = l.depth + 1
    BY <1>5 DEF IsContainer, IsEnclosed
  <2>2. l.depth \in Nat
    BY PhraseShaped DEF Shaped
  <2>3. d # 0 /\ d - 1 \in Nat /\ l.depth <= d - 1
    BY <1>1, <2>1, <2>2
  <2>4. ListParts(ts, l) /\ ValuesBy(ts, l.depth) \subseteq ValuesBy(ts, d - 1)
    BY <2>1, <2>2, <2>3, ListsHaveParts, ValuesMono
  <2>5. l.kind = "elements" \/ l.kind = "members"
    BY <2>1 DEF ListKinds
  <2> QED
    BY <1>1, <2>1, <2>3, <2>4, <2>5, ArrayMono, ObjectMono DEF ListParts
<1> QED
  BY <1>3, <1>4, <1>5

-----------------------------------------------------------------------------
(* Tokens that are a phrase wherever they stand.                            *)

StandsAt(us, a, c) == a + Len(c) <= Len(us) /\ \A i \in 1..Len(c) : us[a + i] = c[i]

Spells(c, kind, v, d) ==
  /\ c \in Seq(Token)
  /\ \A us \in Seq(Token), a \in Nat : StandsAt(us, a, c) =>
       \E r \in Phrases(us) : /\ r.kind = kind /\ r.from = a /\ r.to = a + Len(c)
                              /\ r.value = v /\ r.depth <= d

\* A list of n items, with the bracket before it.
SpellsList(c, k, v, d, n) ==
  /\ c \in Seq(Token) /\ Len(c) >= 1 /\ c[1].type = Opener[k]
  /\ \A us \in Seq(Token), a \in Nat : StandsAt(us, a, c) =>
       \E x \in Phrases(us) : /\ x.kind = k /\ x.from = a + 1 /\ x.to = a + Len(c)
                              /\ x.value = v /\ x.depth <= d /\ (x.from = x.to <=> n = 0)

\* z is x and then y.
Joins(z, x, y) == z = x \o y

StandsParted(z, x, y) ==
  \A us \in Seq(Token), a \in Nat : StandsAt(us, a, z) =>
     /\ StandsAt(us, a, x) /\ StandsAt(us, a + Len(x), y) /\ a + Len(x) \in Nat
     /\ (a + Len(x)) + Len(y) = a + Len(z)

LEMMA StandsBy ==
  ASSUME NEW x \in Seq(Token), NEW y \in Seq(Token), NEW z, Joins(z, x, y)
  PROVE  StandsParted(z, x, y)
<1> SUFFICES ASSUME NEW us \in Seq(Token), NEW a \in Nat, StandsAt(us, a, z)
             PROVE  /\ StandsAt(us, a, x) /\ StandsAt(us, a + Len(x), y) /\ a + Len(x) \in Nat
                    /\ (a + Len(x)) + Len(y) = a + Len(z)
  BY DEF StandsParted
<1>1. Len(x) \in Nat /\ Len(y) \in Nat /\ Len(us) \in Nat
  BY LenProperties
<1>2. /\ Len(z) = Len(x) + Len(y)
      /\ \A i \in 1..(Len(x) + Len(y)) : z[i] = IF i <= Len(x) THEN x[i] ELSE y[i - Len(x)]
  BY ConcatProperties DEF Joins
<1>3. /\ a + (Len(x) + Len(y)) <= Len(us)
      /\ \A i \in 1..(Len(x) + Len(y)) : us[a + i] = IF i <= Len(x) THEN x[i] ELSE y[i - Len(x)]
  BY <1>2 DEF StandsAt
<1>4. ASSUME NEW i \in 1..Len(x) PROVE us[a + i] = x[i]
  <2>1. i \in 1..(Len(x) + Len(y)) /\ i <= Len(x)
    BY <1>1
  <2> QED
    BY <1>3, <2>1
<1>5. ASSUME NEW i \in 1..Len(y) PROVE us[(a + Len(x)) + i] = y[i]
  <2>1. /\ Len(x) + i \in 1..(Len(x) + Len(y)) /\ ~(Len(x) + i <= Len(x)) /\ (Len(x) + i) - Len(x) = i
        /\ a + (Len(x) + i) = (a + Len(x)) + i
    BY <1>1
  <2>2. us[a + (Len(x) + i)] = y[(Len(x) + i) - Len(x)]
    BY <1>3, <2>1
  <2> QED
    BY <2>1, <2>2
<1>6. a + Len(x) <= Len(us) /\ (a + Len(x)) + Len(y) <= Len(us) /\ a + Len(x) \in Nat
      /\ (a + Len(x)) + Len(y) = a + (Len(x) + Len(y))
  BY <1>1, <1>3
<1> QED
  BY <1>2, <1>4, <1>5, <1>6 DEF StandsAt

LEMMA MarkIs ==
  ASSUME NEW t \in Structural
  PROVE  Mark(t) \in Seq(Token) /\ Len(Mark(t)) = 1 /\ Mark(t)[1].type = t
  BY DEF Mark, Token

\* One token stands where it stands.
LEMMA MarkStands ==
  ASSUME NEW t, NEW us \in Seq(Token), NEW a \in Nat, StandsAt(us, a, <<t>>)
  PROVE  a + 1 \in 1..Len(us) /\ us[a + 1] = t
<1>1. Len(<<t>>) = 1 /\ <<t>>[1] = t /\ Len(us) \in Nat
  BY LenProperties
<1> QED
  BY <1>1 DEF StandsAt

LEMMA ListBegins ==
  ASSUME NEW k \in ListKinds, NEW d \in Nat
  PROVE  SpellsList(Mark(Opener[k]), k, NoItems[k], d, 0)
<1> DEFINE c == Mark(Opener[k])
<1>1. Opener[k] \in Structural
  BY DEF ListKinds, Opener, Structural, Openers
<1>2. c \in Seq(Token) /\ Len(c) = 1 /\ c[1].type = Opener[k] /\ c = <<[type |-> Opener[k]]>>
  BY <1>1, MarkIs DEF Mark
<1> HIDE DEF c
<1>3. ASSUME NEW us \in Seq(Token), NEW a \in Nat, StandsAt(us, a, c)
      PROVE  \E x \in Phrases(us) : /\ x.kind = k /\ x.from = a + 1 /\ x.to = a + Len(c)
                                    /\ x.value = NoItems[k] /\ x.depth <= d /\ (x.from = x.to <=> 0 = 0)
  <2>1. a + 1 \in 1..Len(us) /\ us[a + 1] = [type |-> Opener[k]]
    BY <1>2, <1>3, MarkStands
  <2>2. us[a + 1].type = Opener[k]
    BY <2>1
  <2>3. PICK x \in Phrases(us) : x.kind = k /\ x.from = a + 1 /\ x.to = a + 1 /\ x.value = NoItems[k] /\ x.depth = 0
    BY <2>1, <2>2, MakeEmpty
  <2> QED
    BY <1>2, <2>3
<1> QED
  BY <1>2, <1>3 DEF SpellsList, c

LEMMA MakeOn ==
  ASSUME NEW us \in Seq(Token), NEW k \in ListKinds, NEW d \in Nat,
         NEW x \in Phrases(us), x.kind = k, x.depth <= d,
         NEW r \in Phrases(us), r.kind = Item[k], r.depth <= d,
         \/ x.from = x.to /\ r.from = x.to
         \/ x.from # x.to /\ r.from = x.to + 1 /\ us[r.from].type = "Comma"
  PROVE  \E y \in Phrases(us) : /\ y.kind = k /\ y.from = x.from /\ y.to = r.to /\ y.from # y.to
                                /\ y.value = WithItem(k, x.value, r.value) /\ y.depth <= d
<1>1. GoesOn(us, x, r)
  BY DEF GoesOn
<1>2. PICK y \in Phrases(us) : /\ Alike(y, x) /\ y.to = r.to /\ y.from # y.to
                               /\ y.depth = Larger(x.depth, r.depth)
                               /\ y.value = WithItem(x.kind, x.value, r.value)
  BY <1>1, MakeLonger
<1>3. y.depth <= d
  BY <1>2 DEF Larger
<1> QED
  BY <1>2, <1>3 DEF Alike

LEMMA ListGoesOnBy ==
  ASSUME NEW k \in ListKinds, NEW d \in Nat, NEW n \in Nat, NEW c, NEW l, NEW w, NEW v,
         SpellsList(c, k, l, d, n), Spells(w, Item[k], v, d),
         NEW sep, sep = IF n = 0 THEN <<>> ELSE Mark("Comma"), NEW c1, Joins(c1, c, sep), NEW c2, Joins(c2, c1, w)
  PROVE  SpellsList(c2, k, WithItem(k, l, v), d, n + 1)
<1>0. c \in Seq(Token) /\ w \in Seq(Token) /\ Len(c) \in Nat /\ Len(w) \in Nat /\ Len(c) >= 1 /\ c[1].type = Opener[k]
  BY LenProperties DEF SpellsList, Spells
<1>1. sep \in Seq(Token) /\ (n = 0 => Len(sep) = 0) /\ (n # 0 => Len(sep) = 1 /\ sep = <<[type |-> "Comma"]>>)
  BY MarkIs DEF Structural, Mark
<1>2. c1 \in Seq(Token) /\ Len(c1) = Len(c) + Len(sep) /\ c1[1] = c[1] /\ Len(c1) >= 1 /\ Len(c1) \in Nat
  BY <1>0, <1>1, ConcatProperties DEF Joins
<1>3. c2 \in Seq(Token) /\ Len(c2) = Len(c1) + Len(w) /\ c2[1] = c1[1] /\ Len(c2) >= 1
  <2>1. /\ c2 \in Seq(Token) /\ Len(c2) = Len(c1) + Len(w)
        /\ \A j \in 1..(Len(c1) + Len(w)) : c2[j] = IF j <= Len(c1) THEN c1[j] ELSE w[j - Len(c1)]
    BY <1>0, <1>2, ConcatProperties DEF Joins
  <2>2. 1 \in 1..(Len(c1) + Len(w)) /\ 1 <= Len(c1) /\ Len(c1) + Len(w) >= 1
    BY <1>0, <1>2
  <2> QED
    BY <2>1, <2>2
<1>j. StandsParted(c2, c1, w) /\ StandsParted(c1, c, sep)
  BY <1>0, <1>1, <1>2, StandsBy
<1>4. ASSUME NEW us \in Seq(Token), NEW a \in Nat, StandsAt(us, a, c2)
      PROVE  \E x \in Phrases(us) : /\ x.kind = k /\ x.from = a + 1 /\ x.to = a + Len(c2)
                                    /\ x.value = WithItem(k, l, v) /\ x.depth <= d /\ (x.from = x.to <=> n + 1 = 0)
  <2>0. n + 1 # 0
    OBVIOUS
  <2>1. StandsAt(us, a, c1) /\ StandsAt(us, a + Len(c1), w) /\ a + Len(c1) \in Nat /\ (a + Len(c1)) + Len(w) = a + Len(c2)
    BY <1>4, <1>j DEF StandsParted
  <2>2. StandsAt(us, a, c) /\ StandsAt(us, a + Len(c), sep) /\ a + Len(c) \in Nat /\ (a + Len(c)) + Len(sep) = a + Len(c1)
    BY <2>1, <1>j DEF StandsParted
  <2>3. PICK x \in Phrases(us) : /\ x.kind = k /\ x.from = a + 1 /\ x.to = a + Len(c)
                                 /\ x.value = l /\ x.depth <= d /\ (x.from = x.to <=> n = 0)
    BY <2>2 DEF SpellsList
  <2>4. PICK r \in Phrases(us) : /\ r.kind = Item[k] /\ r.from = a + Len(c1) /\ r.to = (a + Len(c1)) + Len(w)
                                 /\ r.value = v /\ r.depth <= d
    BY <2>1 DEF Spells
  <2>5. n # 0 => us[(a + Len(c)) + 1].type = "Comma"
    <3>1. SUFFICES ASSUME n # 0 PROVE us[(a + Len(c)) + 1].type = "Comma"
      OBVIOUS
    <3>2. us[(a + Len(c)) + 1] = [type |-> "Comma"]
      BY <1>1, <2>2, <3>1, MarkStands
    <3> QED
      BY <3>2
  <2>6. CASE n = 0
    <3>1. r.from = x.to /\ x.from = x.to
      BY <1>0, <1>1, <2>2, <2>3, <2>4, <2>6
    <3>a. x.kind = k /\ x.depth <= d /\ r.kind = Item[k] /\ r.depth <= d
      BY <2>3, <2>4
    <3>b. \/ x.from = x.to /\ r.from = x.to
          \/ x.from # x.to /\ r.from = x.to + 1 /\ us[r.from].type = "Comma"
      BY <3>1
    <3>2. PICK y \in Phrases(us) : /\ y.kind = k /\ y.from = x.from /\ y.to = r.to /\ y.from # y.to
                                   /\ y.value = WithItem(k, x.value, r.value) /\ y.depth <= d
      BY <3>a, <3>b, MakeOn
    <3>3. y.from = a + 1 /\ y.to = a + Len(c2) /\ y.value = WithItem(k, l, v)
      BY <2>1, <2>3, <2>4, <3>2
    <3> QED
      BY <3>2, <3>3, <2>0
  <2>7. CASE n # 0
    <3>1. r.from = x.to + 1 /\ x.from # x.to /\ us[r.from].type = "Comma"
      BY <1>0, <1>1, <2>2, <2>3, <2>4, <2>5, <2>7
    <3>a. x.kind = k /\ x.depth <= d /\ r.kind = Item[k] /\ r.depth <= d
      BY <2>3, <2>4
    <3>b. \/ x.from = x.to /\ r.from = x.to
          \/ x.from # x.to /\ r.from = x.to + 1 /\ us[r.from].type = "Comma"
      BY <3>1
    <3>2. PICK y \in Phrases(us) : /\ y.kind = k /\ y.from = x.from /\ y.to = r.to /\ y.from # y.to
                                   /\ y.value = WithItem(k, x.value, r.value) /\ y.depth <= d
      BY <3>a, <3>b, MakeOn
    <3>3. y.from = a + 1 /\ y.to = a + Len(c2) /\ y.value = WithItem(k, l, v)
      BY <2>1, <2>3, <2>4, <3>2
    <3> QED
      BY <3>2, <3>3, <2>0
  <2> QED
    BY <2>6, <2>7
<1>5. c2[1].type = Opener[k]
  BY <1>0, <1>2, <1>3
<1> QED
  BY <1>3, <1>4, <1>5 DEF SpellsList

LEMMA ListGoesOn ==
  ASSUME NEW k \in ListKinds, NEW d \in Nat, NEW n \in Nat, NEW c, NEW l, NEW w, NEW v,
         SpellsList(c, k, l, d, n), Spells(w, Item[k], v, d)
  PROVE  SpellsList((c \o (IF n = 0 THEN <<>> ELSE Mark("Comma"))) \o w, k, WithItem(k, l, v), d, n + 1)
  BY ListGoesOnBy, Zenon DEF Joins

LEMMA ListCloses ==
  ASSUME NEW k \in ListKinds, NEW d \in Nat, NEW n \in Nat, NEW c, NEW l, SpellsList(c, k, l, d, n)
  PROVE  Spells(c \o Mark(Closer[k]), "value", l, d + 1)
<1> DEFINE m == Mark(Closer[k])
           c2 == c \o m
<1>0. c \in Seq(Token) /\ Len(c) \in Nat /\ Len(c) >= 1 /\ c[1].type = Opener[k]
  BY LenProperties DEF SpellsList
<1>1. Closer[k] \in Structural
  BY DEF ListKinds, Closer, Structural, Closers
<1>2. m \in Seq(Token) /\ Len(m) = 1 /\ m = <<[type |-> Closer[k]]>>
  BY <1>1, MarkIs DEF Mark
<1> HIDE DEF m
<1>j. StandsParted(c2, c, m)
  <2>1. Joins(c2, c, m)
    BY Zenon DEF Joins
  <2> HIDE DEF c2
  <2> QED
    BY <1>0, <1>2, <2>1, StandsBy
<1>3. c2 \in Seq(Token) /\ Len(c2) = Len(c) + 1
  BY <1>0, <1>2, ConcatProperties
<1>4. ASSUME NEW us \in Seq(Token), NEW a \in Nat, StandsAt(us, a, c2)
      PROVE  \E r \in Phrases(us) : /\ r.kind = "value" /\ r.from = a /\ r.to = a + Len(c2)
                                    /\ r.value = l /\ r.depth <= d + 1
  <2>1. StandsAt(us, a, c) /\ StandsAt(us, a + Len(c), m) /\ a + Len(c) \in Nat
    <3> HIDE DEF c2
    <3> QED
      BY <1>j, <1>4 DEF StandsParted
  <2>2. PICK x \in Phrases(us) : /\ x.kind = k /\ x.from = a + 1 /\ x.to = a + Len(c)
                                 /\ x.value = l /\ x.depth <= d
    BY <2>1 DEF SpellsList
  <2>3. (a + Len(c)) + 1 \in 1..Len(us) /\ us[(a + Len(c)) + 1] = [type |-> Closer[k]]
    BY <1>2, <2>1, MarkStands
  <2>4. us[a + 1].type = Opener[k]
    <3>1. us[a + 1] = c[1]
      BY <1>0, <2>1 DEF StandsAt
    <3> QED
      BY <1>0, <3>1
  <2>5. x.from > 0 /\ us[x.from].type = Opener[x.kind] /\ x.to + 1 \in 1..Len(us) /\ us[x.to + 1].type = Closer[x.kind]
    BY <2>2, <2>3, <2>4
  <2>6. PICK r \in Phrases(us) : /\ r.kind = "value" /\ r.from = x.from - 1 /\ r.to = x.to + 1
                                 /\ r.value = x.value /\ r.depth = x.depth + 1
    BY <2>2, <2>5, MakeContainer
  <2>7. x.depth \in Nat
    BY PhraseShaped DEF Shaped
  <2>8. r.from = a /\ r.to = a + Len(c2) /\ r.depth <= d + 1
    BY <1>0, <1>3, <2>2, <2>6, <2>7
  <2> QED
    BY <2>2, <2>6, <2>8
<1> HIDE DEF c2
<1>5. Spells(c2, "value", l, d + 1)
  BY <1>3, <1>4 DEF Spells
<1> QED
  BY <1>5 DEF c2, m

-----------------------------------------------------------------------------
(* A container is spelled by brackets around what spells its parts.         *)

Break(pretty, n) == IF pretty THEN NewLine(2 * n) ELSE <<>>
Separator(i) == IF i = 1 THEN <<>> ELSE Mark("Comma")
WithPart(r, part, i, pretty, level) == ((r \o Separator(i)) \o Break(pretty, level + 1)) \o part
ResultUpTo(opener, parts, pretty, level, f, n) ==
  f = [i \in 0..n |-> IF i = 0 THEN Mark(opener) ELSE WithPart(f[i - 1], parts[i], i, pretty, level)]

LEMMA ResultSome ==
  ASSUME NEW opener, NEW parts, NEW pretty, NEW level, NEW n \in Nat
  PROVE  \E f : ResultUpTo(opener, parts, pretty, level, f, n)
<1> DEFINE On(e, k) == WithPart(e, parts[k], k, pretty, level)
           first == Mark(opener)
           S == {m \in Nat : \E f : f = [k \in 0..m |-> IF k = 0 THEN first ELSE On(f[k - 1], k)]}
<1>0. \A f, m : ResultUpTo(opener, parts, pretty, level, f, m)
                  <=> f = [k \in 0..m |-> IF k = 0 THEN first ELSE On(f[k - 1], k)]
  BY Zenon DEF ResultUpTo
<1> HIDE DEF On, first
<1>1. 0 \in S
  <2> DEFINE f == [k \in 0..0 |-> first]
  <2>1. \A k \in 0..0 : k = 0
    OBVIOUS
  <2>2. f = [k \in 0..0 |-> IF k = 0 THEN first ELSE On(f[k - 1], k)]
    BY <2>1
  <2> QED
    BY <2>2
<1>2. ASSUME NEW m \in Nat, m \in S PROVE m + 1 \in S
  <2>1. PICK f : f = [k \in 0..m |-> IF k = 0 THEN first ELSE On(f[k - 1], k)]
    BY <1>2
  <2> DEFINE g == [k \in 0..(m + 1) |-> IF k = m + 1 THEN On(f[m], m + 1) ELSE f[k]]
  <2>2. \A k \in 0..m : g[k] = f[k]
    OBVIOUS
  <2>3. ASSUME NEW k \in 0..(m + 1)
        PROVE  g[k] = IF k = 0 THEN first ELSE On(g[k - 1], k)
    <3>1. CASE k = m + 1
      <4>1. g[k] = On(f[m], k) /\ k # 0 /\ k - 1 = m /\ m \in 0..m
        BY <3>1
      <4> HIDE DEF g
      <4> QED
        BY <2>2, <4>1
    <3>2. CASE k # m + 1
      <4>1. k \in 0..m /\ (k # 0 => k - 1 \in 0..m)
        BY <3>2
      <4>2. f[k] = IF k = 0 THEN first ELSE On(f[k - 1], k)
        BY <2>1, <4>1
      <4>3. k # 0 => g[k - 1] = f[k - 1]
        BY <2>2, <4>1
      <4>4. g[k] = f[k]
        BY <2>2, <4>1
      <4> HIDE DEF g
      <4> QED
        BY <4>2, <4>3, <4>4
    <3> QED
      BY <3>1, <3>2
  <2>4. g = [k \in 0..(m + 1) |-> IF k = 0 THEN first ELSE On(g[k - 1], k)]
    <3>1. g = [k \in 0..(m + 1) |-> g[k]]
      OBVIOUS
    <3> HIDE DEF g
    <3> QED
      BY <2>3, <3>1
  <2> HIDE DEF g
  <2>5. \E h : h = [k \in 0..(m + 1) |-> IF k = 0 THEN first ELSE On(h[k - 1], k)]
    BY <2>4
  <2> QED
    BY <2>5
<1>3. n \in S
  <2> HIDE DEF S
  <2>1. Nat \subseteq S
    BY <1>1, <1>2, NatInduct
  <2> QED
    BY <2>1
<1> QED
  BY <1>0, <1>3

EnclosedBy(text, opener, parts, closer, pretty, level, f) ==
  /\ ResultUpTo(opener, parts, pretty, level, f, Len(parts))
  /\ text = IF Len(parts) = 0 THEN Mark(opener) \o Mark(closer)
            ELSE (f[Len(parts)] \o Break(pretty, level)) \o Mark(closer)

LEMMA EnclosedIs ==
  ASSUME NEW opener, NEW closer, NEW parts, Len(parts) \in Nat, NEW pretty, NEW level,
         \A i \in DOMAIN parts : parts[i] # Refused
  PROVE  \E f : EnclosedBy(Enclosed(opener, parts, closer, pretty, level), opener, parts, closer, pretty, level, f)
<1> DEFINE f == CHOOSE g : ResultUpTo(opener, parts, pretty, level, g, Len(parts))
<1>1. ResultUpTo(opener, parts, pretty, level, f, Len(parts))
  BY ResultSome, Zenon
<1>2. Enclosed(opener, parts, closer, pretty, level) =
        CASE \E i \in DOMAIN parts : parts[i] = Refused -> Refused
          [] Len(parts) = 0 -> Mark(opener) \o Mark(closer)
          [] OTHER -> (f[Len(parts)] \o Break(pretty, level)) \o Mark(closer)
  BY Zenon DEF Enclosed, ResultUpTo, WithPart, Separator, Break
<1> HIDE DEF f
<1>3. Enclosed(opener, parts, closer, pretty, level) =
        IF Len(parts) = 0 THEN Mark(opener) \o Mark(closer)
        ELSE (f[Len(parts)] \o Break(pretty, level)) \o Mark(closer)
  BY <1>2
<1> QED
  BY <1>1, <1>3, Zenon DEF EnclosedBy

LEMMA MarkPiece ==
  ASSUME NEW t \in Structural
  PROVE  Mark(t) \in Seq(Piece) /\ WithoutBlanks(Mark(t)) = Mark(t)
<1> DEFINE m == [type |-> t]
<1>1. m \in Piece /\ m.type # "Blank" /\ m \in Token
  BY DEF Piece, Token, Structural, Openers, Closers, Literals
<1> HIDE DEF m
<1>2. Append(<<>>, m) = <<m>> /\ <<>> \in Seq(Piece) /\ <<m>> \in Seq(Piece)
  BY <1>1
<1>3. WithoutBlanks(Append(<<>>, m)) = Append(WithoutBlanks(<<>>), m)
  BY <1>1, <1>2, BlanksAppend
<1>4. WithoutBlanks(<<m>>) = <<m>>
  BY <1>2, <1>3, BlanksEmpty
<1> QED
  BY <1>2, <1>4 DEF Mark, m

LEMMA OneBlank ==
  ASSUME NEW b \in Blank
  PROVE  <<b>> \in Seq(Piece) /\ WithoutBlanks(<<b>>) = <<>>
<1>1. b \in Piece /\ b.type = "Blank"
  BY DEF Piece, Blank
<1>2. Append(<<>>, b) = <<b>> /\ <<>> \in Seq(Piece) /\ <<b>> \in Seq(Piece)
  BY <1>1
<1>3. WithoutBlanks(Append(<<>>, b)) = WithoutBlanks(<<>>)
  BY <1>1, <1>2, BlanksAppend
<1> QED
  BY <1>2, <1>3, BlanksEmpty

LEMMA BreakBlank ==
  ASSUME NEW pretty \in BOOLEAN, NEW n \in Nat
  PROVE  Break(pretty, n) \in Seq(Piece) /\ WithoutBlanks(Break(pretty, n)) = <<>>
<1>1. CASE pretty
  <2> DEFINE b == [type |-> "Blank", width |-> 2 * n]
  <2>1. b \in Blank
    BY DEF Blank
  <2>2. Break(pretty, n) = <<b>>
    BY <1>1 DEF Break, NewLine
  <2> HIDE DEF b
  <2> QED
    BY <2>1, <2>2, OneBlank
<1>2. CASE ~pretty
  <2>1. Break(pretty, n) = <<>> /\ <<>> \in Seq(Piece)
    BY <1>2 DEF Break
  <2> QED
    BY <2>1, BlanksEmpty, Zenon
<1> QED
  BY <1>1, <1>2

LEMMA SeparatorIs ==
  ASSUME NEW i
  PROVE  /\ Separator(i) \in Seq(Piece) /\ Separator(i) \in Seq(Token)
         /\ WithoutBlanks(Separator(i)) = Separator(i)
<1>1. CASE i = 1
  <2>1. Separator(i) = <<>> /\ <<>> \in Seq(Piece) /\ <<>> \in Seq(Token)
    BY <1>1 DEF Separator
  <2> QED
    BY <2>1, BlanksEmpty, Zenon
<1>2. CASE i # 1
  <2>1. Separator(i) = Mark("Comma") /\ "Comma" \in Structural
    BY <1>2 DEF Separator, Structural
  <2> QED
    BY <2>1, MarkPiece, MarkIs, Zenon
<1> QED
  BY <1>1, <1>2

LEMMA PartTokens ==
  ASSUME NEW r \in Seq(Piece), NEW part \in Seq(Piece), NEW i, NEW pretty \in BOOLEAN, NEW level \in Nat
  PROVE  /\ WithPart(r, part, i, pretty, level) \in Seq(Piece)
         /\ WithoutBlanks(WithPart(r, part, i, pretty, level))
              = (WithoutBlanks(r) \o Separator(i)) \o WithoutBlanks(part)
<1> DEFINE s == Separator(i)
           b == Break(pretty, level + 1)
           B(x) == WithoutBlanks(x)
<1>0. level + 1 \in Nat
  OBVIOUS
<1>1. s \in Seq(Piece) /\ B(s) = s /\ b \in Seq(Piece) /\ B(b) = <<>> /\ s \in Seq(Token)
  BY <1>0, SeparatorIs, BreakBlank
<1>2. WithPart(r, part, i, pretty, level) = ((r \o s) \o b) \o part
  BY DEF WithPart
<1> HIDE DEF s, b
<1>3. r \o s \in Seq(Piece) /\ B(r \o s) = B(r) \o s
  BY <1>1, BlanksConcat, ConcatProperties
<1>4. (r \o s) \o b \in Seq(Piece) /\ B((r \o s) \o b) = B(r \o s) \o B(b)
  BY <1>1, <1>3, BlanksConcat, ConcatProperties
<1>5. B(r \o s) \in Seq(Token)
  BY <1>3, BlanksTokens
<1> HIDE DEF B
<1>6. B((r \o s) \o b) = B(r \o s)
  <2>1. PICK x \in Seq(Token) : x = B(r \o s)
    BY <1>5
  <2>2. x \o <<>> = x
    BY ConcatEmptySeq
  <2> QED
    BY <1>1, <1>4, <2>1, <2>2
<1>7. ((r \o s) \o b) \o part \in Seq(Piece) /\ B(((r \o s) \o b) \o part) = B((r \o s) \o b) \o B(part)
  <2>1. PICK x \in Seq(Piece) : x = (r \o s) \o b
    BY <1>4
  <2>2. x \o part \in Seq(Piece) /\ B(x \o part) = B(x) \o B(part)
    BY BlanksConcat, ConcatProperties DEF B
  <2> QED
    BY <2>1, <2>2
<1> QED
  BY <1>2, <1>3, <1>6, <1>7 DEF B, s

\* The parts of a container spell the items of a list: what the list is after each.
PartsSpell(parts, k, items, lists, d) ==
  /\ Len(parts) \in Nat /\ DOMAIN parts = 1..Len(parts)
  /\ lists[0] = NoItems[k]
  /\ \A i \in 1..Len(parts) :
       /\ parts[i] \in Seq(Piece) /\ Spells(WithoutBlanks(parts[i]), Item[k], items[i], d)
       /\ lists[i] = WithItem(k, lists[i - 1], items[i])

LEMMA ResultSpells ==
  ASSUME NEW k \in ListKinds, NEW d \in Nat, NEW pretty \in BOOLEAN, NEW level \in Nat,
         NEW parts, NEW items, NEW lists, PartsSpell(parts, k, items, lists, d),
         NEW f, ResultUpTo(Opener[k], parts, pretty, level, f, Len(parts)),
         NEW n \in Nat, n <= Len(parts)
  PROVE  f[n] \in Seq(Piece) /\ SpellsList(WithoutBlanks(f[n]), k, lists[n], d, n)
<1> DEFINE Good(j) == f[j] \in Seq(Piece) /\ SpellsList(WithoutBlanks(f[j]), k, lists[j], d, j)
           S == {j \in Nat : j <= Len(parts) => Good(j)}
<1>0. Len(parts) \in Nat
  BY DEF PartsSpell
<1>1. 0 \in S
  <2>1. 0 \in 0..Len(parts)
    BY <1>0
  <2>2. f[0] = Mark(Opener[k])
    BY <2>1, Zenon DEF ResultUpTo
  <2>3. Opener[k] \in Structural
    BY DEF ListKinds, Opener, Structural, Openers
  <2>4. f[0] \in Seq(Piece) /\ WithoutBlanks(f[0]) = Mark(Opener[k])
    BY <2>2, <2>3, MarkPiece
  <2>5. lists[0] = NoItems[k]
    BY DEF PartsSpell
  <2>6. SpellsList(Mark(Opener[k]), k, NoItems[k], d, 0)
    BY ListBegins
  <2>7. Good(0)
    BY <2>4, <2>5, <2>6
  <2> HIDE DEF Good
  <2> QED
    BY <2>7
<1>2. ASSUME NEW j \in Nat, j \in S PROVE j + 1 \in S
  <2>1. SUFFICES ASSUME j + 1 <= Len(parts) PROVE Good(j + 1)
    OBVIOUS
  <2>2. Good(j) /\ j + 1 \in 1..Len(parts) /\ j + 1 \in 0..Len(parts) /\ j + 1 # 0 /\ (j + 1) - 1 = j
        /\ (j + 1 = 1 <=> j = 0)
    BY <1>0, <1>2, <2>1
  <2>3. f[j + 1] = WithPart(f[j], parts[j + 1], j + 1, pretty, level)
    <3>1. f[j + 1] = IF j + 1 = 0 THEN Mark(Opener[k]) ELSE WithPart(f[(j + 1) - 1], parts[j + 1], j + 1, pretty, level)
      BY <2>2, Zenon DEF ResultUpTo
    <3> QED
      BY <2>2, <3>1
  <2>4. /\ parts[j + 1] \in Seq(Piece) /\ Spells(WithoutBlanks(parts[j + 1]), Item[k], items[j + 1], d)
        /\ lists[j + 1] = WithItem(k, lists[j], items[j + 1])
    BY <2>2 DEF PartsSpell
  <2>5. /\ f[j + 1] \in Seq(Piece)
        /\ WithoutBlanks(f[j + 1]) = (WithoutBlanks(f[j]) \o Separator(j + 1)) \o WithoutBlanks(parts[j + 1])
    <3>1. PICK x \in Seq(Piece), y \in Seq(Piece) : x = f[j] /\ y = parts[j + 1]
      BY <2>2, <2>4
    <3>2. /\ WithPart(x, y, j + 1, pretty, level) \in Seq(Piece)
          /\ WithoutBlanks(WithPart(x, y, j + 1, pretty, level))
               = (WithoutBlanks(x) \o Separator(j + 1)) \o WithoutBlanks(y)
      BY PartTokens
    <3> QED
      BY <2>3, <3>1, <3>2
  <2>6. Separator(j + 1) = IF j = 0 THEN <<>> ELSE Mark("Comma")
    BY <2>2 DEF Separator
  <2>7. SpellsList((WithoutBlanks(f[j]) \o (IF j = 0 THEN <<>> ELSE Mark("Comma"))) \o WithoutBlanks(parts[j + 1]),
                   k, WithItem(k, lists[j], items[j + 1]), d, j + 1)
    BY <2>2, <2>4, ListGoesOn
  <2>8. SpellsList(WithoutBlanks(f[j + 1]), k, lists[j + 1], d, j + 1)
    BY <2>4, <2>5, <2>6, <2>7, Zenon
  <2> QED
    BY <2>5, <2>8
<1> HIDE DEF S, Good
<1>3. Nat \subseteq S
  BY <1>1, <1>2, NatInduct
<1>4. Good(n)
  BY <1>3 DEF S
<1> QED
  BY <1>4 DEF Good

\* What is spelled is a text, which no exception is.
Good(x, kind, v, d) == x \in Seq(Piece) /\ Spells(WithoutBlanks(x), kind, v, d)

LEMMA NotRefused == Refused \notin Seq(Piece)
  BY SpellingAssumption DEF Piece

LEMMA EnclosedSpells ==
  ASSUME NEW k \in ListKinds, NEW d \in Nat, NEW pretty \in BOOLEAN, NEW level \in Nat,
         NEW parts, NEW items, NEW lists, PartsSpell(parts, k, items, lists, d)
  PROVE  Good(Enclosed(Opener[k], parts, Closer[k], pretty, level), "value", lists[Len(parts)], d + 1)
<1> DEFINE text == Enclosed(Opener[k], parts, Closer[k], pretty, level)
           m == Mark(Closer[k])
           B(x) == WithoutBlanks(x)
<1>0. Len(parts) \in Nat /\ \A i \in DOMAIN parts : parts[i] # Refused
  BY NotRefused DEF PartsSpell
<1>1. PICK f : /\ ResultUpTo(Opener[k], parts, pretty, level, f, Len(parts))
               /\ text = IF Len(parts) = 0 THEN Mark(Opener[k]) \o m
                         ELSE (f[Len(parts)] \o Break(pretty, level)) \o m
  <2>1. PICK opener, closer : opener = Opener[k] /\ closer = Closer[k]
    OBVIOUS
  <2>2. \E f : EnclosedBy(Enclosed(opener, parts, closer, pretty, level), opener, parts, closer, pretty, level, f)
    BY <1>0, EnclosedIs
  <2>3. PICK f : EnclosedBy(text, opener, parts, closer, pretty, level, f)
    BY <2>1, <2>2, Zenon
  <2> HIDE DEF text
  <2> QED
    BY <2>1, <2>3, Zenon DEF EnclosedBy
<1>2. f[Len(parts)] \in Seq(Piece) /\ SpellsList(B(f[Len(parts)]), k, lists[Len(parts)], d, Len(parts))
  <2>1. Len(parts) <= Len(parts)
    BY <1>0
  <2> QED
    BY <1>0, <1>1, <2>1, ResultSpells
<1> HIDE DEF text
<1>3. m \in Seq(Piece) /\ B(m) = m
  <2>1. Closer[k] \in Structural
    BY DEF ListKinds, Closer, Structural, Closers
  <2> QED
    BY <2>1, MarkPiece
<1>4. Len(parts) = 0 => f[Len(parts)] = Mark(Opener[k])
  <2>1. 0 \in 0..Len(parts)
    BY <1>0
  <2>2. f[0] = Mark(Opener[k])
    BY <1>1, <2>1, Zenon DEF ResultUpTo
  <2> QED
    BY <2>2
<1>5. PICK r : r = f[Len(parts)]
  OBVIOUS
<1>6. r \in Seq(Piece) /\ SpellsList(B(r), k, lists[Len(parts)], d, Len(parts)) /\ B(r) \in Seq(Token)
  BY <1>2, <1>5, BlanksTokens
<1>7. text \in Seq(Piece) /\ B(text) = B(r) \o m
  <2>1. CASE Len(parts) = 0
    <3>1. text = r \o m
      BY <1>1, <1>4, <1>5, <2>1
    <3>2. r \o m \in Seq(Piece) /\ B(r \o m) = B(r) \o B(m)
      BY <1>3, <1>6, BlanksConcat, ConcatProperties
    <3> HIDE DEF B, m
    <3> QED
      BY <1>3, <3>1, <3>2
  <2>2. CASE Len(parts) # 0
    <3>1. PICK b : b = Break(pretty, level)
      OBVIOUS
    <3>2. text = (r \o b) \o m
      BY <1>1, <1>5, <2>2, <3>1
    <3>3. b \in Seq(Piece) /\ B(b) = <<>>
      BY <3>1, BreakBlank
    <3>4. r \o b \in Seq(Piece) /\ B(r \o b) = B(r) \o B(b)
      BY <1>6, <3>3, BlanksConcat, ConcatProperties
    <3>5. B(r) \o <<>> = B(r)
      BY <1>6, ConcatEmptySeq
    <3>6. PICK x \in Seq(Piece) : x = r \o b
      BY <3>4
    <3>7. x \o m \in Seq(Piece) /\ B(x \o m) = B(x) \o B(m)
      BY <1>3, BlanksConcat, ConcatProperties
    <3> HIDE DEF B, m
    <3> QED
      BY <1>3, <3>2, <3>3, <3>4, <3>5, <3>6, <3>7
  <2> QED
    BY <2>1, <2>2
<1>8. Spells(B(r) \o m, "value", lists[Len(parts)], d + 1)
  BY <1>0, <1>6, ListCloses
<1>9. Good(text, "value", lists[Len(parts)], d + 1)
  <2> HIDE DEF m
  <2> QED
    BY <1>7, <1>8 DEF Good
<1> QED
  BY <1>9 DEF text

-----------------------------------------------------------------------------
(* What members and values that are no containers are spelled by.           *)

LEMMA SpelledText ==
  ASSUME NEW t \in Texts
  PROVE  /\ Escape[t] \in Strings /\ Escape[t] # Refused /\ Text[Escape[t]] = t /\ t # Invalid
         /\ [type |-> "String", raw |-> Escape[t]] \in Token
         /\ Spell("String", Escape[t]) = <<[type |-> "String", raw |-> Escape[t]]>>
<1>1. Escape[t] \in Strings /\ Escape[t] # Refused /\ Text[Escape[t]] = t
  BY SpellingAssumption
<1>2. t # Invalid
  BY DEF Texts
<1> QED
  BY <1>1, <1>2 DEF Spell, Token

LEMMA SpelledNumber ==
  ASSUME NEW t \in Numbers
  PROVE  /\ Written[t] \in Numerals /\ Written[t] # Refused /\ Number[Written[t]] = t /\ t # Invalid
         /\ [type |-> "Number", raw |-> Written[t]] \in Token
         /\ Spell("Number", Written[t]) = <<[type |-> "Number", raw |-> Written[t]]>>
<1>1. Written[t] \in Numerals /\ Written[t] # Refused /\ Number[Written[t]] = t
  BY SpellingAssumption
<1>2. t # Invalid
  BY DEF Numbers
<1> QED
  BY <1>1, <1>2 DEF Spell, Token

LEMMA JoinedTokens ==
  ASSUME NEW x \in Seq(Token), NEW y \in Seq(Token), NEW z, Joins(z, x, y)
  PROVE  z \in Seq(Token) /\ Len(z) = Len(x) + Len(y)
  BY ConcatProperties DEF Joins

LEMMA MemberSpells ==
  ASSUME NEW t \in Texts, NEW c, NEW v, NEW d \in Nat, Spells(c, "value", v, d),
         NEW s, s = <<[type |-> "String", raw |-> Escape[t]]>>,
         NEW m, m = Mark("Colon"),
         NEW c1, Joins(c1, s, m), NEW c2, Joins(c2, c1, c)
  PROVE  Spells(c2, "member", ObjectValue(OneMember(t, v)), d)
<1>0. c \in Seq(Token) /\ Len(c) \in Nat
  BY LenProperties DEF Spells
<1>1. s \in Seq(Token) /\ Len(s) = 1
  BY SpelledText
<1>2. m \in Seq(Token) /\ Len(m) = 1 /\ m = <<[type |-> "Colon"]>>
  BY MarkIs DEF Structural, Mark
<1>3. c1 \in Seq(Token) /\ Len(c1) = 2
  <2>1. c1 \in Seq(Token) /\ Len(c1) = Len(s) + Len(m)
    BY <1>1, <1>2, JoinedTokens, Zenon
  <2> QED
    BY <1>1, <1>2, <2>1
<1>4. c2 \in Seq(Token) /\ Len(c2) = 2 + Len(c)
  BY <1>0, <1>3, JoinedTokens
<1>5. StandsParted(c2, c1, c) /\ StandsParted(c1, s, m)
  BY <1>0, <1>1, <1>2, <1>3, StandsBy
<1>6. ASSUME NEW us \in Seq(Token), NEW a \in Nat, StandsAt(us, a, c2)
      PROVE  \E r \in Phrases(us) : /\ r.kind = "member" /\ r.from = a /\ r.to = a + Len(c2)
                                    /\ r.value = ObjectValue(OneMember(t, v)) /\ r.depth <= d
  <2>1. StandsAt(us, a, c1) /\ StandsAt(us, a + 2, c) /\ (a + 2) + Len(c) = a + Len(c2) /\ a + 2 \in Nat
    BY <1>3, <1>5, <1>6 DEF StandsParted
  <2>2. StandsAt(us, a, s) /\ StandsAt(us, a + 1, m)
    BY <1>1, <1>5, <2>1 DEF StandsParted
  <2>3. us[a + 1] = [type |-> "String", raw |-> Escape[t]]
    BY <2>2, MarkStands
  <2>4. us[(a + 1) + 1] = [type |-> "Colon"] /\ (a + 1) + 1 = a + 2
    BY <1>2, <2>2, MarkStands
  <2>5. PICK r \in Phrases(us) : /\ r.kind = "value" /\ r.from = a + 2 /\ r.to = (a + 2) + Len(c)
                                 /\ r.value = v /\ r.depth <= d
    BY <2>1 DEF Spells
  <2>6. r.from > 1 /\ r.from - 1 = a + 1 /\ r.from - 2 = a
    BY <2>5
  <2>7. us[r.from].type = "Colon" /\ us[r.from - 1].type = "String" /\ us[r.from - 1].raw = Escape[t]
    BY <2>3, <2>4, <2>5, <2>6
  <2>8. Text[us[r.from - 1].raw] = t /\ t # Invalid
    BY <2>7, SpelledText
  <2>9. IsNamed(us, r)
    BY <2>6, <2>7, <2>8 DEF IsNamed
  <2>10. PICK q \in Phrases(us) : /\ q.kind = "member" /\ q.from = r.from - 2 /\ q.to = r.to /\ q.depth = r.depth
                                  /\ q.value = ObjectValue(OneMember(Text[us[r.from - 1].raw], r.value))
    BY <2>5, <2>9, MakeMember
  <2> QED
    BY <2>1, <2>5, <2>6, <2>8, <2>10
<1> QED
  BY <1>4, <1>6 DEF Spells

LEMMA SingleSpells ==
  ASSUME NEW t \in Token, NEW v \in Denoted(t), NEW d \in Nat
  PROVE  Good(<<t>>, "value", v, d)
<1> DEFINE c == <<t>>
<1>1. c \in Seq(Token) /\ Len(c) = 1 /\ c[1] = t
  OBVIOUS
<1>2. c \in Seq(Piece) /\ WithoutBlanks(c) = c
  <2>1. t \in Piece /\ t.type # "Blank"
    BY TokenNotBlank DEF Piece
  <2>2. Append(<<>>, t) = <<t>> /\ <<>> \in Seq(Piece) /\ <<t>> \in Seq(Piece)
    BY <2>1
  <2>3. WithoutBlanks(Append(<<>>, t)) = Append(WithoutBlanks(<<>>), t)
    BY <2>1, <2>2, BlanksAppend
  <2> QED
    BY <2>2, <2>3, BlanksEmpty
<1>3. ASSUME NEW us \in Seq(Token), NEW a \in Nat, StandsAt(us, a, c)
      PROVE  \E r \in Phrases(us) : /\ r.kind = "value" /\ r.from = a /\ r.to = a + Len(c)
                                    /\ r.value = v /\ r.depth <= d
  <2>1. a + 1 \in 1..Len(us) /\ us[a + 1] = t
    BY <1>3, MarkStands
  <2>2. PICK r \in Phrases(us) : Spans(r, "value", a, a + 1, v, 0)
    BY <2>1, MakeSingle
  <2> QED
    BY <1>1, <2>2 DEF Spans
<1> HIDE DEF c
<1>4. Spells(c, "value", v, d)
  BY <1>1, <1>3 DEF Spells
<1> QED
  BY <1>2, <1>4 DEF Good, c

\* A plain value is spelled wherever it may be.
LEMMA PlainSpells ==
  ASSUME NEW v \in Plain, NEW f, NEW pretty, NEW level \in 0..MaxLevel, NEW d \in Nat
  PROVE  Good(TextOf(v, f, pretty, level), "value", v, d)
<1> DEFINE text == TextOf(v, f, pretty, level)
<1>1. CASE v \in {BoolValue(TRUE), BoolValue(FALSE), NullValue}
  <2>1. \E w \in {"True", "False", "Null"} : text = <<[type |-> w]>> /\ v = Words[w]
    BY <1>1 DEF TextOf, Mark, BoolValue, NullValue, Words
  <2> HIDE DEF text
  <2>2. PICK w \in {"True", "False", "Null"} : text = <<[type |-> w]>> /\ v = Words[w]
    BY <2>1
  <2>3. [type |-> w] \in Token /\ Denoted([type |-> w]) = {Words[w]}
    BY DEF Denoted, Words, Token, Structural, Openers, Closers, Literals
  <2>4. Good(text, "value", v, d)
    BY <2>2, <2>3, SingleSpells
  <2> QED
    BY <2>4 DEF text
<1>2. CASE \E x \in Texts : v = StringValue(x)
  <2>1. PICK x \in Texts : v = StringValue(x)
    BY <1>2
  <2>2. v.kind = "string" /\ v.text = x
    BY <2>1 DEF StringValue
  <2>3. text = Spell("String", Escape[x])
    BY <2>2 DEF TextOf
  <2> DEFINE t == [type |-> "String", raw |-> Escape[x]]
  <2>4. t \in Token /\ t.type = "String" /\ Text[t.raw] = x /\ x # Invalid /\ text = <<t>>
    BY <2>3, SpelledText
  <2> HIDE DEF text, t
  <2>5. Denoted(t) = {StringValue(y) : y \in {Text[t.raw]} \ {Invalid}}
    BY <2>4 DEF Denoted, Words
  <2>6. v \in Denoted(t)
    BY <2>1, <2>4, <2>5
  <2>7. Good(text, "value", v, d)
    BY <2>4, <2>6, SingleSpells
  <2> QED
    BY <2>7 DEF text
<1>3. CASE \E x \in Numbers : v = NumberValue(x)
  <2>1. PICK x \in Numbers : v = NumberValue(x)
    BY <1>3
  <2>2. v.kind = "number" /\ v.number = x
    BY <2>1 DEF NumberValue
  <2>3. text = Spell("Number", Written[x])
    BY <2>2 DEF TextOf
  <2> DEFINE t == [type |-> "Number", raw |-> Written[x]]
  <2>4. t \in Token /\ t.type = "Number" /\ Number[t.raw] = x /\ x # Invalid /\ text = <<t>>
    BY <2>3, SpelledNumber
  <2> HIDE DEF text, t
  <2>5. Denoted(t) = {NumberValue(y) : y \in {Number[t.raw]} \ {Invalid}}
    BY <2>4 DEF Denoted, Words
  <2>6. v \in Denoted(t)
    BY <2>1, <2>4, <2>5
  <2>7. Good(text, "value", v, d)
    BY <2>4, <2>6, SingleSpells
  <2> QED
    BY <2>7 DEF text
<1> QED
  BY <1>1, <1>2, <1>3 DEF Plain

NamedText(t, x, pretty) ==
  ((Spell("String", Escape[t]) \o Mark("Colon")) \o (IF pretty THEN Space ELSE <<>>)) \o x

LEMMA SpaceBlank ==
  ASSUME NEW pretty \in BOOLEAN
  PROVE  LET b == IF pretty THEN Space ELSE <<>> IN b \in Seq(Piece) /\ WithoutBlanks(b) = <<>>
<1>1. CASE pretty
  <2> DEFINE b == [type |-> "Blank", width |-> 1]
  <2>1. b \in Blank
    BY DEF Blank
  <2>2. Space = <<b>>
    BY DEF Space
  <2> HIDE DEF b
  <2> QED
    BY <1>1, <2>1, <2>2, OneBlank
<1>2. CASE ~pretty
  <2>1. <<>> \in Seq(Piece)
    OBVIOUS
  <2> QED
    BY <1>2, <2>1, BlanksEmpty, Zenon
<1> QED
  BY <1>1, <1>2

LEMMA NamedTokens ==
  ASSUME NEW t \in Texts, NEW x \in Seq(Piece), NEW pretty \in BOOLEAN
  PROVE  /\ NamedText(t, x, pretty) \in Seq(Piece)
         /\ WithoutBlanks(NamedText(t, x, pretty))
              = (<<[type |-> "String", raw |-> Escape[t]]>> \o Mark("Colon")) \o WithoutBlanks(x)
<1> DEFINE k == [type |-> "String", raw |-> Escape[t]]
           s == <<k>>
           m == Mark("Colon")
           b == IF pretty THEN Space ELSE <<>>
           B(z) == WithoutBlanks(z)
<1>1. NamedText(t, x, pretty) = ((s \o m) \o b) \o x
  BY SpelledText DEF NamedText
<1>2. b \in Seq(Piece) /\ B(b) = <<>>
  BY SpaceBlank
<1>3. m \in Seq(Piece) /\ B(m) = m
  BY MarkPiece DEF Structural
<1>4. s \in Seq(Piece) /\ B(s) = s
  <2>1. k \in Token
    BY SpelledText
  <2> HIDE DEF k
  <2>2. k \in Piece /\ k.type # "Blank"
    BY <2>1, TokenNotBlank DEF Piece
  <2>3. Append(<<>>, k) = <<k>> /\ <<>> \in Seq(Piece) /\ <<k>> \in Seq(Piece)
    BY <2>2
  <2>4. WithoutBlanks(Append(<<>>, k)) = Append(WithoutBlanks(<<>>), k)
    BY <2>2, <2>3, BlanksAppend
  <2> QED
    BY <2>3, <2>4, BlanksEmpty
<1> HIDE DEF s, m, b
<1>5. s \o m \in Seq(Piece) /\ B(s \o m) = s \o m
  <2>1. s \o m \in Seq(Piece) /\ B(s \o m) = B(s) \o B(m)
    BY <1>3, <1>4, BlanksConcat, ConcatProperties
  <2> HIDE DEF B
  <2> QED
    BY <1>3, <1>4, <2>1
<1>6. PICK y \in Seq(Piece) : y = s \o m
  BY <1>5
<1>7. y \o b \in Seq(Piece) /\ B(y \o b) = B(y) \o B(b) /\ B(y) \in Seq(Token)
  BY <1>2, BlanksConcat, BlanksTokens, ConcatProperties
<1> HIDE DEF B
<1>8. B(y) \o <<>> = B(y)
  BY <1>7, ConcatEmptySeq
<1>9. B(y \o b) = B(y)
  BY <1>2, <1>7, <1>8, Zenon
<1>10. PICK z \in Seq(Piece) : z = y \o b
  BY <1>7
<1>11. z \o x \in Seq(Piece) /\ B(z \o x) = B(z) \o B(x)
  BY BlanksConcat, ConcatProperties DEF B
<1>12. B(y) = s \o m
  BY <1>5, <1>6
<1>13. NamedText(t, x, pretty) = z \o x /\ B(z) = s \o m
  BY <1>1, <1>6, <1>9, <1>10, <1>12, Zenon
<1>14. NamedText(t, x, pretty) \in Seq(Piece) /\ B(NamedText(t, x, pretty)) = (s \o m) \o B(x)
  BY <1>11, <1>13, Zenon
<1> QED
  BY <1>14, Zenon DEF B, s, m

LEMMA MemberGood ==
  ASSUME NEW t \in Texts, NEW x, NEW v, NEW d \in Nat, NEW pretty \in BOOLEAN, Good(x, "value", v, d)
  PROVE  Good(NamedText(t, x, pretty), "member", ObjectValue(OneMember(t, v)), d)
<1>1. x \in Seq(Piece) /\ Spells(WithoutBlanks(x), "value", v, d)
  BY DEF Good
<1>2. Spells((<<[type |-> "String", raw |-> Escape[t]]>> \o Mark("Colon")) \o WithoutBlanks(x),
             "member", ObjectValue(OneMember(t, v)), d)
  BY <1>1, MemberSpells, Zenon DEF Joins
<1>3. NamedText(t, x, pretty) \in Seq(Piece)
      /\ WithoutBlanks(NamedText(t, x, pretty))
              = (<<[type |-> "String", raw |-> Escape[t]]>> \o Mark("Colon")) \o WithoutBlanks(x)
  BY <1>1, NamedTokens
<1> QED
  BY <1>2, <1>3, Zenon DEF Good

-----------------------------------------------------------------------------
(* Finitely many keys can be put in order.                                  *)

IsLast(m, K) == m \in K /\ \A k \in K \ {m} : <<k, m>> \in KeyOrder
Sorted(s, K) ==
  /\ {s[i] : i \in DOMAIN s} = K
  /\ \A i, j \in DOMAIN s : i < j => <<s[i], s[j]>> \in KeyOrder

LEMMA LastExists ==
  ASSUME NEW n \in Nat
  PROVE  \A K \in SUBSET Texts : IsFiniteSet(K) /\ Cardinality(K) = n + 1 => \E m : IsLast(m, K)
<1> DEFINE S == {j \in Nat : \A K \in SUBSET Texts :
                   IsFiniteSet(K) /\ Cardinality(K) = j + 1 => \E m : IsLast(m, K)}
<1>1. 0 \in S
  <2>1. SUFFICES ASSUME NEW K \in SUBSET Texts, IsFiniteSet(K), Cardinality(K) = 1
                 PROVE  \E m : IsLast(m, K)
    OBVIOUS
  <2>2. PICK m : K = {m}
    BY <2>1, FS_Singleton
  <2> QED
    BY <2>2 DEF IsLast
<1>2. ASSUME NEW j \in Nat, j \in S PROVE j + 1 \in S
  <2>1. SUFFICES ASSUME NEW K \in SUBSET Texts, IsFiniteSet(K), Cardinality(K) = (j + 1) + 1
                 PROVE  \E m : IsLast(m, K)
    OBVIOUS
  <2>2. PICK x : x \in K
    <3>1. Cardinality(K) # 0
      BY <2>1
    <3> QED
      BY <2>1, <3>1, FS_EmptySet
  <2> DEFINE L == K \ {x}
  <2>3. IsFiniteSet(L) /\ Cardinality(L) = j + 1 /\ L \in SUBSET Texts
    BY <2>1, <2>2, FS_RemoveElement
  <2>4. PICK m : IsLast(m, L)
    BY <1>2, <2>3
  <2>5. m \in K /\ m # x /\ m \in Texts /\ x \in Texts
    BY <2>1, <2>2, <2>4 DEF IsLast
  <2>6. CASE <<m, x>> \in KeyOrder
    <3>1. ASSUME NEW k \in K \ {x} PROVE <<k, x>> \in KeyOrder
      <4>1. k = m \/ <<k, m>> \in KeyOrder
        BY <2>4 DEF IsLast
      <4> QED
        BY <2>5, <2>6, <4>1, OrderAssumption
    <3> QED
      BY <2>2, <3>1 DEF IsLast
  <2>7. CASE <<x, m>> \in KeyOrder
    <3>1. ASSUME NEW k \in K \ {m} PROVE <<k, m>> \in KeyOrder
      <4>1. k = x \/ k \in L \ {m}
        OBVIOUS
      <4> QED
        BY <2>4, <2>7, <4>1 DEF IsLast
    <3> QED
      BY <2>5, <3>1 DEF IsLast
  <2> QED
    BY <2>5, <2>6, <2>7, OrderAssumption
<1> HIDE DEF S
<1>3. Nat \subseteq S
  BY <1>1, <1>2, NatInduct
<1> QED
  BY <1>3 DEF S

LEMMA SortExists ==
  ASSUME NEW n \in Nat
  PROVE  \A K \in SUBSET Texts : IsFiniteSet(K) /\ Cardinality(K) = n => \E s \in [1..n -> K] : Sorted(s, K)
<1> DEFINE S == {j \in Nat : \A K \in SUBSET Texts :
                   IsFiniteSet(K) /\ Cardinality(K) = j => \E s \in [1..j -> K] : Sorted(s, K)}
<1>1. 0 \in S
  <2>1. SUFFICES ASSUME NEW K \in SUBSET Texts, IsFiniteSet(K), Cardinality(K) = 0
                 PROVE  \E s \in [1..0 -> K] : Sorted(s, K)
    OBVIOUS
  <2>2. K = {}
    BY <2>1, FS_EmptySet
  <2> DEFINE s == [i \in 1..0 |-> NullValue]
  <2>3. s \in [1..0 -> K] /\ DOMAIN s = {}
    OBVIOUS
  <2> HIDE DEF s
  <2>4. Sorted(s, K)
    BY <2>2, <2>3 DEF Sorted
  <2> QED
    BY <2>3, <2>4
<1>2. ASSUME NEW j \in Nat, j \in S PROVE j + 1 \in S
  <2>1. SUFFICES ASSUME NEW K \in SUBSET Texts, IsFiniteSet(K), Cardinality(K) = j + 1
                 PROVE  \E s \in [1..(j + 1) -> K] : Sorted(s, K)
    OBVIOUS
  <2>2. PICK m : IsLast(m, K)
    BY <2>1, LastExists
  <2> DEFINE L == K \ {m}
  <2>3. IsFiniteSet(L) /\ Cardinality(L) = j /\ L \in SUBSET Texts
    BY <2>1, <2>2, FS_RemoveElement DEF IsLast
  <2>4. PICK r \in [1..j -> L] : Sorted(r, L)
    BY <1>2, <2>3
  <2> DEFINE s == [i \in 1..(j + 1) |-> IF i = j + 1 THEN m ELSE r[i]]
  <2>5. /\ s \in [1..(j + 1) -> K] /\ DOMAIN s = 1..(j + 1) /\ s[j + 1] = m
        /\ \A i \in 1..j : s[i] = r[i] /\ s[i] \in L
    <3>1. ASSUME NEW i \in 1..(j + 1), i # j + 1 PROVE i \in 1..j /\ r[i] \in L
      BY <3>1
    <3>2. \A i \in 1..j : i \in 1..(j + 1) /\ i # j + 1
      OBVIOUS
    <3>3. m \in K /\ j + 1 \in 1..(j + 1)
      BY <2>2 DEF IsLast
    <3>4. \A i \in 1..(j + 1) : (IF i = j + 1 THEN m ELSE r[i]) \in K
      BY <3>1, <3>3
    <3> HIDE DEF L
    <3> QED
      BY <3>1, <3>2, <3>3, <3>4
  <2>6. \A i \in 1..(j + 1) : i \in 1..j \/ i = j + 1
    OBVIOUS
  <2> HIDE DEF s
  <2>7. {s[i] : i \in DOMAIN s} = K
    <3>1. ASSUME NEW k \in K PROVE \E i \in 1..(j + 1) : s[i] = k
      <4>1. CASE k = m
        BY <2>5, <4>1
      <4>2. CASE k # m
        <5>1. k \in {r[i] : i \in DOMAIN r} /\ DOMAIN r = 1..j
          BY <2>4, <4>2 DEF Sorted
        <5>2. PICK i \in 1..j : r[i] = k
          BY <5>1
        <5>3. i \in 1..(j + 1) /\ s[i] = k
          BY <2>5, <5>2
        <5> QED
          BY <5>3
      <4> QED
        BY <4>1, <4>2
    <3>2. \A i \in 1..(j + 1) : s[i] \in K
      BY <2>5
    <3> QED
      BY <2>5, <3>1, <3>2
  <2>8. ASSUME NEW a \in 1..(j + 1), NEW b \in 1..(j + 1), a < b PROVE <<s[a], s[b]>> \in KeyOrder
    <3>1. a \in 1..j
      BY <2>8
    <3>2. CASE b = j + 1
      <4>1. s[a] \in K \ {m} /\ s[b] = m
        BY <2>5, <3>1, <3>2
      <4> QED
        BY <2>2, <4>1 DEF IsLast
    <3>3. CASE b \in 1..j
      <4>1. s[a] = r[a] /\ s[b] = r[b] /\ a \in DOMAIN r /\ b \in DOMAIN r
        BY <2>5, <3>1, <3>3
      <4> QED
        BY <2>4, <2>8, <4>1 DEF Sorted
    <3> QED
      BY <2>6, <3>2, <3>3
  <2>9. Sorted(s, K)
    BY <2>5, <2>7, <2>8 DEF Sorted
  <2> QED
    BY <2>5, <2>9
<1> HIDE DEF S
<1>3. Nat \subseteq S
  BY <1>1, <1>2, NatInduct
<1> QED
  BY <1>3 DEF S

\* InOrder gives each key once.
LEMMA InOrderIs ==
  ASSUME NEW K \in SUBSET Texts, IsFiniteSet(K)
  PROVE  /\ Cardinality(K) \in Nat
         /\ InOrder(K) \in [1..Cardinality(K) -> K]
         /\ {InOrder(K)[i] : i \in 1..Cardinality(K)} = K
         /\ \A i, j \in 1..Cardinality(K) : InOrder(K)[i] = InOrder(K)[j] => i = j
<1> DEFINE n == Cardinality(K)
<1>1. n \in Nat
  BY FS_CardinalityType
<1>2. \E s \in [1..n -> K] : Sorted(s, K)
  BY <1>1, SortExists
<1> DEFINE s == InOrder(K)
<1>3. s = CHOOSE r \in [1..n -> K] : Sorted(r, K)
  BY Zenon DEF InOrder, Sorted
<1> HIDE DEF n, s
<1>4. s \in [1..n -> K] /\ Sorted(s, K)
  BY <1>2, <1>3
<1>5. DOMAIN s = 1..n
  BY <1>4
<1>6. {s[i] : i \in 1..n} = K
  BY <1>4, <1>5 DEF Sorted
<1>7. ASSUME NEW i \in 1..n, NEW j \in 1..n, s[i] = s[j] PROVE i = j
  <2>1. SUFFICES ASSUME i < j \/ j < i PROVE FALSE
    BY <1>1
  <2>2. <<s[i], s[j]>> \in KeyOrder \/ <<s[j], s[i]>> \in KeyOrder
    BY <1>4, <1>5, <2>1 DEF Sorted
  <2>3. s[i] \in Texts
    BY <1>4
  <2> QED
    BY <1>7, <2>2, <2>3, OrderAssumption
<1> QED
  BY <1>1, <1>4, <1>6, <1>7 DEF n, s

-----------------------------------------------------------------------------
(* Containers are spelled when what they contain is.                        *)

AllGood(f, S, d) == \A v \in S : Good(f[v], "value", v, d)

Prefix(e, i) == [j \in 1..i |-> e[j]]

LEMMA PrefixIs ==
  ASSUME NEW S, NEW e \in Seq(S)
  PROVE  /\ Prefix(e, 0) = <<>> /\ Prefix(e, Len(e)) = e
         /\ \A i \in 1..Len(e) : Prefix(e, i) = Append(Prefix(e, i - 1), e[i])
<1>0. Len(e) \in Nat /\ \A j \in 1..Len(e) : e[j] \in S
  BY LenProperties, ElementOfSeq
<1>1. ASSUME NEW i \in Nat, i <= Len(e)
      PROVE  Prefix(e, i) \in Seq(S) /\ Len(Prefix(e, i)) = i /\ \A j \in 1..i : Prefix(e, i)[j] = e[j]
  <2>1. \A j \in 1..i : e[j] \in S
    BY <1>0, <1>1
  <2> QED
    BY <2>1 DEF Prefix
<1>2. Prefix(e, 0) = <<>>
  <2>1. 0 \in Nat /\ 0 <= Len(e)
    BY <1>0
  <2>2. Prefix(e, 0) \in Seq(S) /\ Len(Prefix(e, 0)) = 0
    BY <1>1, <2>1
  <2> QED
    BY <2>2, EmptySeq
<1>3. Prefix(e, Len(e)) = e
  <2>1. Len(e) <= Len(e)
    BY <1>0
  <2>2. Prefix(e, Len(e)) \in Seq(S) /\ Len(Prefix(e, Len(e))) = Len(e) /\ \A j \in 1..Len(e) : Prefix(e, Len(e))[j] = e[j]
    BY <1>0, <1>1, <2>1
  <2> QED
    BY <2>2, SeqEqual
<1>4. ASSUME NEW i \in 1..Len(e) PROVE Prefix(e, i) = Append(Prefix(e, i - 1), e[i])
  <2>1. i \in Nat /\ i <= Len(e) /\ i - 1 \in Nat /\ i - 1 <= Len(e) /\ (i - 1) + 1 = i
    BY <1>0
  <2>2. PICK x, y : x = Prefix(e, i) /\ y = Prefix(e, i - 1)
    OBVIOUS
  <2>3. x \in Seq(S) /\ Len(x) = i /\ \A j \in 1..i : x[j] = e[j]
    BY <1>1, <2>1, <2>2
  <2>4. y \in Seq(S) /\ Len(y) = i - 1 /\ \A j \in 1..(i - 1) : y[j] = e[j]
    BY <1>1, <2>1, <2>2
  <2>5. e[i] \in S
    BY <1>0
  <2>6. /\ Append(y, e[i]) \in Seq(S) /\ Len(Append(y, e[i])) = i
        /\ Append(y, e[i])[i] = e[i] /\ \A j \in 1..(i - 1) : Append(y, e[i])[j] = y[j]
    BY <2>1, <2>4, <2>5, AppendProperties
  <2>7. \A j \in 1..i : j = i \/ j \in 1..(i - 1)
    BY <2>1
  <2>8. \A j \in 1..i : x[j] = Append(y, e[i])[j]
    BY <2>3, <2>4, <2>6, <2>7
  <2>9. x = Append(y, e[i])
    BY <2>3, <2>6, <2>8, SeqEqual
  <2> QED
    BY <2>2, <2>9
<1> QED
  BY <1>2, <1>3, <1>4

LEMMA ArraySpells ==
  ASSUME NEW S, NEW e \in Seq(S), NEW f, NEW d \in Nat, AllGood(f, S, d),
         NEW pretty \in BOOLEAN, NEW level \in Nat
  PROVE  Good(serializeArray(e, f, pretty, level), "value", ArrayValue(e), d + 1)
<1> DEFINE parts == [i \in DOMAIN e |-> f[e[i]]]
           lists == [i \in 0..Len(e) |-> ArrayValue(Prefix(e, i))]
<1>0. Len(e) \in Nat /\ DOMAIN e = 1..Len(e) /\ \A j \in 1..Len(e) : e[j] \in S
  BY LenProperties, ElementOfSeq
<1>1. Len(parts) = Len(e) /\ DOMAIN parts = 1..Len(e) /\ \A i \in 1..Len(e) : parts[i] = f[e[i]]
  <2>1. parts = [i \in 1..Len(e) |-> f[e[i]]]
    BY <1>0
  <2> HIDE DEF parts
  <2> QED
    BY <1>0, <2>1
<1>2. lists[0] = ArrayValue(<<>>) /\ lists[Len(e)] = ArrayValue(e)
  <2>1. 0 \in 0..Len(e) /\ Len(e) \in 0..Len(e)
    BY <1>0
  <2> QED
    BY <2>1, PrefixIs
<1>3. ASSUME NEW i \in 1..Len(e) PROVE lists[i] = WithItem("elements", lists[i - 1], e[i])
  <2>1. i \in 0..Len(e) /\ i - 1 \in 0..Len(e)
    BY <1>0
  <2>2. lists[i] = ArrayValue(Prefix(e, i)) /\ lists[i - 1] = ArrayValue(Prefix(e, i - 1))
    BY <2>1
  <2>3. Prefix(e, i) = Append(Prefix(e, i - 1), e[i])
    BY PrefixIs
  <2> HIDE DEF lists
  <2> QED
    BY <2>2, <2>3 DEF WithItem, ArrayValue
<1> HIDE DEF parts, lists
<1>4. ASSUME NEW i \in 1..Len(e)
      PROVE  parts[i] \in Seq(Piece) /\ Spells(WithoutBlanks(parts[i]), Item.elements, e[i], d)
  BY <1>0, <1>1 DEF AllGood, Good, Item
<1>5. PartsSpell(parts, "elements", e, lists, d)
  BY <1>0, <1>1, <1>2, <1>3, <1>4 DEF PartsSpell, NoItems
<1>6. Good(Enclosed(Opener["elements"], parts, Closer["elements"], pretty, level), "value", lists[Len(parts)], d + 1)
  BY <1>5, EnclosedSpells DEF ListKinds
<1>7. serializeArray(e, f, pretty, level) = Enclosed("LeftBracket", parts, "RightBracket", pretty, level)
  BY Zenon DEF serializeArray, parts
<1>8. Opener["elements"] = "LeftBracket" /\ Closer["elements"] = "RightBracket"
  BY DEF Opener, Closer
<1> QED
  BY <1>1, <1>2, <1>6, <1>7, <1>8

\* The members of the first i keys.
FirstMembers(m, keys, i) == [k \in {keys[j] : j \in 1..i} |-> m[k]]

GrowsTo(m, keys, n) ==
  /\ FirstMembers(m, keys, 0) = EmptyObject /\ FirstMembers(m, keys, n) = m
  /\ \A i \in 1..n : FirstMembers(m, keys, i)
       = WithMembers(FirstMembers(m, keys, i - 1), OneMember(keys[i], m[keys[i]]))

LEMMA FirstMembersIs ==
  ASSUME NEW K, NEW S, NEW m \in [K -> S], NEW n \in Nat, NEW keys \in [1..n -> K], {keys[i] : i \in 1..n} = K
  PROVE  GrowsTo(m, keys, n)
<1>1. FirstMembers(m, keys, 0) = EmptyObject
  <2>1. {keys[j] : j \in 1..0} = {}
    OBVIOUS
  <2> QED
    BY <2>1 DEF FirstMembers, EmptyObject
<1>2. FirstMembers(m, keys, n) = m
  <2>1. FirstMembers(m, keys, n) = [k \in K |-> m[k]]
    BY DEF FirstMembers
  <2> QED
    BY <2>1
<1>3. ASSUME NEW i \in 1..n
      PROVE  FirstMembers(m, keys, i) = WithMembers(FirstMembers(m, keys, i - 1), OneMember(keys[i], m[keys[i]]))
  <2> DEFINE R(a) == {keys[j] : j \in 1..a}
  <2>1. R(i) = R(i - 1) \cup {keys[i]}
    <3>1. \A j \in 1..i : j = i \/ j \in 1..(i - 1)
      OBVIOUS
    <3>2. \A j \in 1..(i - 1) : j \in 1..i
      OBVIOUS
    <3>3. i \in 1..i
      OBVIOUS
    <3> QED
      BY <3>1, <3>2, <3>3
  <2>2. PICK a, b : a = FirstMembers(m, keys, i - 1) /\ b = OneMember(keys[i], m[keys[i]])
    OBVIOUS
  <2>3. DOMAIN a = R(i - 1) /\ (\A k \in R(i - 1) : a[k] = m[k]) /\ DOMAIN b = {keys[i]} /\ b[keys[i]] = m[keys[i]]
    BY <2>2 DEF FirstMembers, OneMember
  <2>4. FirstMembers(m, keys, i) = [k \in R(i) |-> m[k]]
    BY DEF FirstMembers
  <2> HIDE DEF R
  <2>5. WithMembers(a, b) = [k \in R(i) |-> IF k \in R(i - 1) THEN a[k] ELSE b[k]]
    BY <2>1, <2>3 DEF WithMembers
  <2>6. \A k \in R(i) : (IF k \in R(i - 1) THEN a[k] ELSE b[k]) = m[k]
    BY <2>1, <2>3
  <2>7. WithMembers(a, b) = FirstMembers(m, keys, i)
    BY <2>4, <2>5, <2>6
  <2> QED
    BY <2>2, <2>7
<1> QED
  BY <1>1, <1>2, <1>3 DEF GrowsTo

LEMMA ObjectSpells ==
  ASSUME NEW S, NEW K \in SUBSET Texts, IsFiniteSet(K), NEW m \in [K -> S],
         NEW f, NEW d \in Nat, AllGood(f, S, d), NEW pretty \in BOOLEAN, NEW level \in Nat
  PROVE  Good(serializeObject(m, f, pretty, level), "value", ObjectValue(m), d + 1)
<1> DEFINE keys == InOrder(K)
           n == Cardinality(K)
           member(k) == IF Refused \in {Escape[k], f[m[k]]} THEN Refused
                        ELSE NamedText(k, f[m[k]], pretty)
           parts == [i \in DOMAIN keys |-> member(keys[i])]
           items == [i \in 1..n |-> ObjectValue(OneMember(keys[i], m[keys[i]]))]
           lists == [i \in 0..n |-> ObjectValue(FirstMembers(m, keys, i))]
<1>0. n \in Nat /\ keys \in [1..n -> K] /\ {keys[i] : i \in 1..n} = K
  BY InOrderIs
<1>1. serializeObject(m, f, pretty, level) = Enclosed("LeftBrace", parts, "RightBrace", pretty, level)
  <2>1. DOMAIN m = K
    OBVIOUS
  <2> QED
    BY <2>1, Zenon DEF serializeObject, NamedText
<1> HIDE DEF keys, n
<1>2. ASSUME NEW k \in K
      PROVE  member(k) = NamedText(k, f[m[k]], pretty) /\ Good(member(k), "member", ObjectValue(OneMember(k, m[k])), d)
  <2>1. k \in Texts /\ m[k] \in S
    OBVIOUS
  <2>2. Good(f[m[k]], "value", m[k], d) /\ f[m[k]] # Refused
    BY <2>1, NotRefused DEF AllGood, Good
  <2>3. Escape[k] # Refused
    BY <2>1, SpelledText
  <2>4. member(k) = NamedText(k, f[m[k]], pretty)
    BY <2>2, <2>3
  <2> HIDE DEF member
  <2> QED
    BY <2>1, <2>2, <2>4, MemberGood
<1> HIDE DEF member
<1>3. Len(parts) = n /\ DOMAIN parts = 1..n /\ \A i \in 1..n : parts[i] = member(keys[i]) /\ keys[i] \in K
  <2>1. parts = [i \in 1..n |-> member(keys[i])]
    BY <1>0
  <2> HIDE DEF parts
  <2> QED
    BY <1>0, <2>1
<1>a. /\ FirstMembers(m, keys, 0) = EmptyObject /\ FirstMembers(m, keys, n) = m
      /\ \A i \in 1..n : FirstMembers(m, keys, i)
           = WithMembers(FirstMembers(m, keys, i - 1), OneMember(keys[i], m[keys[i]]))
  <2> HIDE DEF parts, lists, items
  <2>1. GrowsTo(m, keys, n)
    BY <1>0, FirstMembersIs
  <2> QED
    BY <2>1, Zenon DEF GrowsTo
<1>4. lists[0] = ObjectValue(EmptyObject) /\ lists[n] = ObjectValue(m)
  <2>1. 0 \in 0..n /\ n \in 0..n
    BY <1>0
  <2>2. lists[0] = ObjectValue(FirstMembers(m, keys, 0)) /\ lists[n] = ObjectValue(FirstMembers(m, keys, n))
    BY <2>1
  <2> HIDE DEF lists
  <2> QED
    BY <2>2, <1>a
<1>5. ASSUME NEW i \in 1..n PROVE lists[i] = WithItem("members", lists[i - 1], items[i])
  <2>1. i \in 0..n /\ i - 1 \in 0..n
    BY <1>0
  <2>2. lists[i] = ObjectValue(FirstMembers(m, keys, i)) /\ lists[i - 1] = ObjectValue(FirstMembers(m, keys, i - 1))
        /\ items[i] = ObjectValue(OneMember(keys[i], m[keys[i]]))
    BY <2>1
  <2>3. FirstMembers(m, keys, i) = WithMembers(FirstMembers(m, keys, i - 1), OneMember(keys[i], m[keys[i]]))
    BY <1>a
  <2> HIDE DEF lists, items
  <2>4. WithItem("members", lists[i - 1], items[i]) = ObjectValue(WithMembers(lists[i - 1].members, items[i].members))
    BY DEF WithItem
  <2>5. lists[i - 1].members = FirstMembers(m, keys, i - 1) /\ items[i].members = OneMember(keys[i], m[keys[i]])
    BY <2>2 DEF ObjectValue
  <2> QED
    BY <2>2, <2>3, <2>4, <2>5
<1>6. ASSUME NEW i \in 1..n
      PROVE  parts[i] \in Seq(Piece) /\ Spells(WithoutBlanks(parts[i]), Item.members, items[i], d)
  <2>1. Good(parts[i], "member", ObjectValue(OneMember(keys[i], m[keys[i]])), d)
    <3> HIDE DEF parts, items
    <3> QED
      BY <1>2, <1>3
  <2> QED
    BY <2>1 DEF Good, Item
<1> HIDE DEF parts, lists, items
<1>7. PartsSpell(parts, "members", items, lists, d)
  BY <1>0, <1>3, <1>4, <1>5, <1>6 DEF PartsSpell, NoItems
<1>8. Good(Enclosed(Opener["members"], parts, Closer["members"], pretty, level), "value", lists[Len(parts)], d + 1)
  BY <1>7, EnclosedSpells DEF ListKinds
<1>9. Opener["members"] = "LeftBrace" /\ Closer["members"] = "RightBrace"
  BY DEF Opener, Closer
<1> QED
  BY <1>1, <1>3, <1>4, <1>8, <1>9

\* A container of what is spelled is spelled, unless it is too deep.
LEMMA ContainerSpells ==
  ASSUME NEW S, NEW v, IsArrayOf(v, S) \/ IsObjectOf(v, S), NEW f, NEW d \in Nat, AllGood(f, S, d),
         NEW pretty \in BOOLEAN, NEW level \in Nat, level < MaxLevel
  PROVE  Good(TextOf(v, f, pretty, level), "value", v, d + 1)
<1>1. level \in 0..MaxLevel /\ ~ContainerTooDeep(level)
  BY SerializerAssumption DEF ContainerTooDeep
<1>2. CASE IsArrayOf(v, S)
  <2>1. PICK e \in Seq(S) : v = ArrayValue(e)
    BY <1>2 DEF IsArrayOf
  <2>2. v.kind = "array" /\ v.elements = e
    BY <2>1 DEF ArrayValue
  <2>3. TextOf(v, f, pretty, level) = serializeArray(e, f, pretty, level)
    BY <1>1, <2>2 DEF TextOf, Container
  <2> QED
    BY <2>1, <2>3, ArraySpells
<1>3. CASE IsObjectOf(v, S)
  <2>1. PICK K \in SUBSET Texts : IsFiniteSet(K) /\ \E m \in [K -> S] : v = ObjectValue(m)
    BY <1>3 DEF IsObjectOf
  <2>2. PICK m \in [K -> S] : v = ObjectValue(m)
    BY <2>1
  <2>3. v.kind = "object" /\ v.members = m
    BY <2>2 DEF ObjectValue
  <2>4. TextOf(v, f, pretty, level) = serializeObject(m, f, pretty, level)
    BY <1>1, <2>3 DEF TextOf, Container
  <2> QED
    BY <2>1, <2>2, <2>4, ObjectSpells
<1> QED
  BY <1>2, <1>3

-----------------------------------------------------------------------------
(* The texts of all values within a value, level by level.                  *)

\* The texts at a level, r being those one level deeper.
Layer(json, level, r, pretty, l) == [v \in Inside(json)[l - level] |-> TextOf(v, r, pretty, l)]

LayersUpTo(json, level, pretty, h, n) ==
  h = [k \in 0..n |-> IF k = 0 THEN Layer(json, level, <<>>, pretty, MaxLevel + 1)
                      ELSE Layer(json, level, h[k - 1], pretty, (MaxLevel + 1) - k)]

LEMMA LayersSome ==
  ASSUME NEW json, NEW level, NEW pretty, NEW n \in Nat
  PROVE  \E h : LayersUpTo(json, level, pretty, h, n)
<1> DEFINE On(e, k) == Layer(json, level, e, pretty, (MaxLevel + 1) - k)
           first == Layer(json, level, <<>>, pretty, MaxLevel + 1)
           S == {m \in Nat : \E f : f = [k \in 0..m |-> IF k = 0 THEN first ELSE On(f[k - 1], k)]}
<1>0. \A f, m : LayersUpTo(json, level, pretty, f, m)
                  <=> f = [k \in 0..m |-> IF k = 0 THEN first ELSE On(f[k - 1], k)]
  BY Zenon DEF LayersUpTo
<1> HIDE DEF On, first
<1>1. 0 \in S
  <2> DEFINE f == [k \in 0..0 |-> first]
  <2>1. \A k \in 0..0 : k = 0
    OBVIOUS
  <2>2. f = [k \in 0..0 |-> IF k = 0 THEN first ELSE On(f[k - 1], k)]
    BY <2>1
  <2> QED
    BY <2>2
<1>2. ASSUME NEW m \in Nat, m \in S PROVE m + 1 \in S
  <2>1. PICK f : f = [k \in 0..m |-> IF k = 0 THEN first ELSE On(f[k - 1], k)]
    BY <1>2
  <2> DEFINE g == [k \in 0..(m + 1) |-> IF k = m + 1 THEN On(f[m], m + 1) ELSE f[k]]
  <2>2. \A k \in 0..m : g[k] = f[k]
    OBVIOUS
  <2>3. ASSUME NEW k \in 0..(m + 1)
        PROVE  g[k] = IF k = 0 THEN first ELSE On(g[k - 1], k)
    <3>1. CASE k = m + 1
      <4>1. g[k] = On(f[m], k) /\ k # 0 /\ k - 1 = m /\ m \in 0..m
        BY <3>1
      <4> HIDE DEF g
      <4> QED
        BY <2>2, <4>1
    <3>2. CASE k # m + 1
      <4>1. k \in 0..m /\ (k # 0 => k - 1 \in 0..m)
        BY <3>2
      <4>2. f[k] = IF k = 0 THEN first ELSE On(f[k - 1], k)
        BY <2>1, <4>1
      <4>3. k # 0 => g[k - 1] = f[k - 1]
        BY <2>2, <4>1
      <4>4. g[k] = f[k]
        BY <2>2, <4>1
      <4> HIDE DEF g
      <4> QED
        BY <4>2, <4>3, <4>4
    <3> QED
      BY <3>1, <3>2
  <2>4. g = [k \in 0..(m + 1) |-> IF k = 0 THEN first ELSE On(g[k - 1], k)]
    <3>1. g = [k \in 0..(m + 1) |-> g[k]]
      OBVIOUS
    <3> HIDE DEF g
    <3> QED
      BY <2>3, <3>1
  <2> HIDE DEF g
  <2>5. \E h : h = [k \in 0..(m + 1) |-> IF k = 0 THEN first ELSE On(h[k - 1], k)]
    BY <2>4
  <2> QED
    BY <2>5
<1>3. n \in S
  <2> HIDE DEF S
  <2>1. Nat \subseteq S
    BY <1>1, <1>2, NatInduct
  <2> QED
    BY <2>1
<1> QED
  BY <1>0, <1>3

\* Nothing is written out of the range of levels.
LEMMA LayerOutside ==
  ASSUME NEW json, NEW level, NEW pretty, NEW l, l \notin 0..MaxLevel, NEW r, NEW s
  PROVE  Layer(json, level, r, pretty, l) = Layer(json, level, s, pretty, l)
<1>1. \A v : TextOf(v, r, pretty, l) = Refused /\ TextOf(v, s, pretty, l) = Refused
  BY DEF TextOf
<1> QED
  BY <1>1 DEF Layer

AllLayers(json, level, pretty, f) == f = [l \in Int |-> Layer(json, level, f[l + 1], pretty, l)]

LEMMA LayersExist ==
  ASSUME NEW json, NEW level, NEW pretty
  PROVE  \E f : AllLayers(json, level, pretty, f)
<1> DEFINE top == MaxLevel + 1
<1>0. top \in Nat /\ MaxLevel \in Nat
  BY SerializerAssumption
<1>1. PICK h : LayersUpTo(json, level, pretty, h, top)
  BY <1>0, LayersSome
<1>2. ASSUME NEW k \in 0..top
      PROVE  h[k] = IF k = 0 THEN Layer(json, level, <<>>, pretty, top)
                    ELSE Layer(json, level, h[k - 1], pretty, top - k)
  BY <1>1, <1>2, Zenon DEF LayersUpTo
<1> DEFINE f == [l \in Int |-> IF l \in 0..MaxLevel THEN h[top - l] ELSE Layer(json, level, <<>>, pretty, l)]
<1>3. ASSUME NEW l \in Int PROVE f[l] = Layer(json, level, f[l + 1], pretty, l)
  <2>1. CASE l \notin 0..MaxLevel
    <3>1. f[l] = Layer(json, level, <<>>, pretty, l)
      BY <2>1
    <3> HIDE DEF f
    <3> QED
      BY <2>1, <3>1, LayerOutside
  <2>2. CASE l \in 0..MaxLevel
    <3>1. f[l] = h[top - l] /\ top - l \in 0..top /\ top - l # 0 /\ (top - l) - 1 = top - (l + 1) /\ top - (top - l) = l
          /\ top - l \in Int
      BY <1>0, <2>2
    <3>2. f[l] = Layer(json, level, h[top - (l + 1)], pretty, l)
      <4> HIDE DEF f, top
      <4> QED
        BY <1>2, <3>1
    <3>3. h[top - (l + 1)] = f[l + 1]
      <4>1. CASE l + 1 \in 0..MaxLevel
        <5>1. l + 1 \in Int
          OBVIOUS
        <5> QED
          BY <4>1, <5>1
      <4>2. CASE l + 1 \notin 0..MaxLevel
        <5>1. l + 1 = top /\ top - (l + 1) = 0 /\ l + 1 \in Int /\ 0 \in 0..top
          BY <1>0, <2>2, <4>2
        <5>2. f[l + 1] = Layer(json, level, <<>>, pretty, l + 1)
          BY <4>2, <5>1
        <5>3. h[0] = Layer(json, level, <<>>, pretty, top)
          BY <1>2, <5>1
        <5> HIDE DEF f, top
        <5> QED
          BY <5>1, <5>2, <5>3
      <4> QED
        BY <4>1, <4>2
    <3> HIDE DEF f
    <3> QED
      BY <3>2, <3>3
  <2> QED
    BY <2>1, <2>2
<1>4. f = [l \in Int |-> f[l]]
  OBVIOUS
<1> HIDE DEF f
<1>5. f = [l \in Int |-> Layer(json, level, f[l + 1], pretty, l)]
  BY <1>3, <1>4
<1>6. AllLayers(json, level, pretty, f)
  BY <1>5, Zenon DEF AllLayers
<1> QED
  BY <1>6

LEMMA SerializeIs ==
  ASSUME NEW json, NEW level, NEW pretty
  PROVE  \E f : AllLayers(json, level, pretty, f) /\ serialize(json, pretty, level) = f[level][json]
<1> DEFINE f == CHOOSE g : AllLayers(json, level, pretty, g)
<1>1. AllLayers(json, level, pretty, f)
  BY LayersExist, Zenon
<1>2. serialize(json, pretty, level) = f[level][json]
  BY Zenon DEF serialize, AllLayers, Layer
<1> HIDE DEF f
<1> QED
  BY <1>1, <1>2

LEMMA LayerAt ==
  ASSUME NEW json, NEW level \in Int, NEW pretty, NEW f, AllLayers(json, level, pretty, f),
         NEW l \in Int, NEW v \in Inside(json)[l - level]
  PROVE  f[l][v] = TextOf(v, f[l + 1], pretty, l)
<1>1. f[l] = Layer(json, level, f[l + 1], pretty, l)
  BY Zenon DEF AllLayers
<1> QED
  BY <1>1 DEF Layer

\* A container is one of what it contains.
LEMMA ContainedIs ==
  ASSUME NEW S, NEW v, IsArrayOf(v, S) \/ IsObjectOf(v, S)
  PROVE  /\ Contained(v) \subseteq S
         /\ IsArrayOf(v, Contained(v)) \/ IsObjectOf(v, Contained(v))
<1>1. CASE IsArrayOf(v, S)
  <2>1. PICK e \in Seq(S) : v = ArrayValue(e)
    BY <1>1 DEF IsArrayOf
  <2>2. Contained(v) = {e[i] : i \in DOMAIN e} /\ DOMAIN e = 1..Len(e) /\ Len(e) \in Nat
    BY <2>1, LenProperties DEF Contained, ArrayValue
  <2>3. \A i \in 1..Len(e) : e[i] \in S /\ e[i] \in Contained(v)
    BY <2>2, ElementOfSeq
  <2>4. e = [i \in 1..Len(e) |-> e[i]]
    BY <2>2
  <2>5. e \in [1..Len(e) -> Contained(v)]
    BY <2>3, <2>4
  <2>6. e \in Seq(Contained(v))
    BY <2>2, <2>5
  <2> QED
    BY <2>1, <2>2, <2>3, <2>6 DEF IsArrayOf
<1>2. CASE IsObjectOf(v, S)
  <2>1. PICK K \in SUBSET Texts : IsFiniteSet(K) /\ \E m \in [K -> S] : v = ObjectValue(m)
    BY <1>2 DEF IsObjectOf
  <2>2. PICK m \in [K -> S] : v = ObjectValue(m)
    BY <2>1
  <2>3. Contained(v) = {m[k] : k \in DOMAIN m} /\ DOMAIN m = K
    BY <2>2 DEF Contained, ObjectValue
  <2>4. m \in [K -> Contained(v)]
    BY <2>3
  <2> QED
    BY <2>1, <2>2, <2>3, <2>4 DEF IsObjectOf
<1> QED
  BY <1>1, <1>2

\* Some container is n levels within v.
ContainerAt(v, n) == \E w \in Inside(v)[n] : w.kind \in {"object", "array"}

LEMMA InsideWithin ==
  ASSUME NEW v, NEW w \in Contained(v), NEW n \in Nat
  PROVE  Inside(w)[n] \subseteq Inside(v)[n + 1]
<1> DEFINE S == {m \in Nat : Inside(w)[m] \subseteq Inside(v)[m + 1]}
<1>1. 0 \in S
  <2>1. Inside(v)[0 + 1] = UNION {Contained(u) : u \in Inside(v)[0]} /\ Inside(v)[0] = {v} /\ Inside(w)[0] = {w}
    BY InsideIs
  <2>2. w \in Inside(v)[0 + 1]
    BY <2>1
  <2> QED
    BY <2>1, <2>2
<1>2. ASSUME NEW m \in Nat, m \in S PROVE m + 1 \in S
  <2>1. Inside(w)[m + 1] = UNION {Contained(u) : u \in Inside(w)[m]}
    BY InsideIs
  <2>2. Inside(v)[(m + 1) + 1] = UNION {Contained(u) : u \in Inside(v)[m + 1]}
    BY InsideIs
  <2>3. Inside(w)[m] \subseteq Inside(v)[m + 1]
    BY <1>2
  <2>4. Inside(w)[m + 1] \subseteq Inside(v)[(m + 1) + 1]
    BY <2>1, <2>2, <2>3
  <2> QED
    BY <2>4
<1> HIDE DEF S
<1>3. Nat \subseteq S
  BY <1>1, <1>2, NatInduct
<1> QED
  BY <1>3 DEF S

\* What has no container deeper than the levels that are left is spelled.
LEMMA LayersSpell ==
  ASSUME NEW ts \in Seq(Token), NEW D \in Nat,
         NEW json, NEW level \in Int, NEW pretty \in BOOLEAN, NEW f, AllLayers(json, level, pretty, f),
         NEW d \in Nat, NEW l \in Nat, l + d <= MaxLevel, l - level \in Nat,
         NEW v \in ValuesBy(ts, D), ~ContainerAt(v, d), v \in Inside(json)[l - level]
  PROVE  Good(f[l][v], "value", v, d)
<1> DEFINE Spelled(e) ==
             \A k \in Nat : k + e <= MaxLevel /\ k - level \in Nat =>
               \A w \in ValuesBy(ts, D) : ~ContainerAt(w, e) /\ w \in Inside(json)[k - level]
                                            => Good(f[k][w], "value", w, e)
           S == {e \in Nat : Spelled(e)}
<1>0. MaxLevel \in Nat
  BY SerializerAssumption
<1>1. ASSUME NEW e \in Nat, e # 0 => Spelled(e - 1) PROVE Spelled(e)
  <2>1. SUFFICES ASSUME NEW k \in Nat, k + e <= MaxLevel, k - level \in Nat,
                        NEW w \in ValuesBy(ts, D), ~ContainerAt(w, e), w \in Inside(json)[k - level]
                 PROVE  Good(f[k][w], "value", w, e)
    OBVIOUS
  <2>2. f[k][w] = TextOf(w, f[k + 1], pretty, k)
    BY <2>1, LayerAt
  <2>3. CASE w \in Plain
    <3>1. k \in 0..MaxLevel
      BY <1>0, <2>1
    <3> QED
      BY <2>2, <2>3, <3>1, PlainSpells
  <2>4. CASE D # 0 /\ (IsArrayOf(w, ValuesBy(ts, D - 1)) \/ IsObjectOf(w, ValuesBy(ts, D - 1)))
    <3>1. /\ Contained(w) \subseteq ValuesBy(ts, D - 1)
          /\ IsArrayOf(w, Contained(w)) \/ IsObjectOf(w, Contained(w))
      BY <2>4, ContainedIs
    <3>a. Contained(w) \subseteq ValuesBy(ts, D)
      <4>1. D - 1 \in Nat /\ D - 1 <= D
        BY <2>4
      <4> QED
        BY <3>1, <4>1, ValuesMono
    <3>b. e # 0
      <4>1. w.kind \in {"object", "array"}
        BY <2>4 DEF IsArrayOf, IsObjectOf, ArrayValue, ObjectValue
      <4>2. Inside(w)[0] = {w}
        BY InsideIs
      <4> QED
        BY <2>1, <4>1, <4>2 DEF ContainerAt
    <3>2. /\ k + 1 \in Nat /\ (k + 1) + (e - 1) <= MaxLevel /\ (k + 1) - level \in Nat /\ e - 1 \in Nat
          /\ (k + 1) - level = (k - level) + 1 /\ k < MaxLevel /\ (e - 1) + 1 = e
      BY <1>0, <2>1, <3>b
    <3>3. Inside(json)[(k - level) + 1] = UNION {Contained(u) : u \in Inside(json)[k - level]}
      BY <2>1, InsideIs
    <3>4. Contained(w) \subseteq Inside(json)[(k + 1) - level]
      BY <2>1, <3>2, <3>3
    <3>5. Spelled(e - 1)
      BY <1>1, <3>b
    <3>6. AllGood(f[k + 1], Contained(w), e - 1)
      <4>1. SUFFICES ASSUME NEW u \in Contained(w) PROVE Good(f[k + 1][u], "value", u, e - 1)
        BY DEF AllGood
      <4>2. u \in ValuesBy(ts, D) /\ u \in Inside(json)[(k + 1) - level]
        BY <3>a, <3>4
      <4>3. Inside(u)[e - 1] \subseteq Inside(w)[e]
        BY <3>2, InsideWithin
      <4>4. ~ContainerAt(u, e - 1)
        BY <2>1, <4>3 DEF ContainerAt
      <4> QED
        BY <3>2, <3>5, <4>2, <4>4
    <3>7. Good(TextOf(w, f[k + 1], pretty, k), "value", w, (e - 1) + 1)
      BY <3>1, <3>2, <3>6, ContainerSpells
    <3> QED
      BY <2>2, <3>2, <3>7
  <2> QED
    BY <2>3, <2>4, ValueParts
<1> HIDE DEF Spelled
<1>2. 0 \in S
  BY <1>1
<1>3. ASSUME NEW e \in Nat, e \in S PROVE e + 1 \in S
  <2>1. e + 1 \in Nat /\ (e + 1) - 1 = e
    OBVIOUS
  <2> QED
    BY <1>1, <1>3, <2>1
<1> HIDE DEF S
<1>4. Nat \subseteq S
  BY <1>2, <1>3, NatInduct
<1>5. Spelled(d)
  BY <1>4 DEF S
<1> QED
  BY <1>5 DEF Spelled

\* serialize writes a value that is not too deep for its level, and the tokens
\* of what it writes are this value.
LEMMA SerializeSpells ==
  ASSUME NEW ts \in Seq(Token), NEW D \in Nat, NEW v \in ValuesBy(ts, D), NEW d \in Nat, ~ContainerAt(v, d),
         NEW level \in Nat, level + d <= MaxLevel, NEW pretty \in BOOLEAN
  PROVE  Good(serialize(v, pretty, level), "value", v, d)
<1>1. PICK f : AllLayers(v, level, pretty, f) /\ serialize(v, pretty, level) = f[level][v]
  BY SerializeIs
<1>2. level - level = 0 /\ v \in Inside(v)[level - level]
  BY InsideIs
<1> QED
  BY <1>1, <1>2, LayersSpell

\* Containers nest no deeper in a value than in the phrase it is of.
LEMMA InsideBy ==
  ASSUME NEW ts \in Seq(Token), NEW d \in Nat, NEW v \in ValuesBy(ts, d), NEW n \in Nat, n <= d
  PROVE  Inside(v)[n] \subseteq ValuesBy(ts, d - n)
<1> DEFINE S == {m \in Nat : m <= d => Inside(v)[m] \subseteq ValuesBy(ts, d - m)}
<1>1. 0 \in S
  <2>1. Inside(v)[0] = {v} /\ d - 0 = d
    BY InsideIs
  <2> QED
    BY <2>1
<1>2. ASSUME NEW m \in Nat, m \in S PROVE m + 1 \in S
  <2>1. SUFFICES ASSUME m + 1 <= d, NEW w \in Inside(v)[m + 1] PROVE w \in ValuesBy(ts, d - (m + 1))
    OBVIOUS
  <2>2. d - m \in Nat /\ d - m # 0 /\ (d - m) - 1 = d - (m + 1) /\ m <= d
    BY <2>1
  <2>3. Inside(v)[m + 1] = UNION {Contained(u) : u \in Inside(v)[m]}
    BY InsideIs
  <2>4. PICK u \in Inside(v)[m] : w \in Contained(u)
    BY <2>3
  <2>5. u \in ValuesBy(ts, d - m)
    BY <1>2, <2>2
  <2>6. u \notin Plain
    BY <2>4 DEF Plain, Contained, BoolValue, NullValue, StringValue, NumberValue
  <2>7. IsArrayOf(u, ValuesBy(ts, d - (m + 1))) \/ IsObjectOf(u, ValuesBy(ts, d - (m + 1)))
    BY <2>2, <2>5, <2>6, ValueParts
  <2> QED
    BY <2>4, <2>7, ContainedIs
<1> HIDE DEF S
<1>3. Nat \subseteq S
  BY <1>1, <1>2, NatInduct
<1> QED
  BY <1>3 DEF S

LEMMA PlainIsNoContainer == \A v \in Plain : v.kind \notin {"object", "array"}
  BY DEF Plain, BoolValue, NullValue, StringValue, NumberValue

LEMMA NoDeeper ==
  ASSUME NEW ts \in Seq(Token), NEW d \in Nat, NEW v \in ValuesBy(ts, d)
  PROVE  ~ContainerAt(v, d)
<1>1. SUFFICES ASSUME NEW w \in Inside(v)[d] PROVE w.kind \notin {"object", "array"}
  BY DEF ContainerAt
<1>2. d <= d /\ d - d = 0 /\ 0 \in Nat
  OBVIOUS
<1>3. w \in ValuesBy(ts, 0)
  BY <1>2, InsideBy
<1> QED
  BY <1>2, <1>3, ValueParts, PlainIsNoContainer

LEMMA LexedIsDocument ==
  ASSUME NEW text, NEW v, NEW d \in Nat, d <= MaxDepth, Good(text, "value", v, d)
  PROVE  Lexed(text) \in Seq(Token) /\ Len(Lexed(text)) > 0 /\ Document(Lexed(text), Len(Lexed(text)), v)
<1> DEFINE c == WithoutBlanks(text)
           eof == [type |-> "EndOfFile"]
           us == Append(c, eof)
<1>0. MaxDepth \in Nat
  BY ParserAssumption
<1>1. Spells(c, "value", v, d) /\ c \in Seq(Token) /\ Len(c) \in Nat
  BY LenProperties DEF Good, Spells
<1>2. eof \in Token /\ eof.type = "EndOfFile"
  BY DEF Token, Structural
<1> HIDE DEF c, eof
<1>3. us \in Seq(Token) /\ Len(us) = Len(c) + 1 /\ us[Len(c) + 1] = eof /\ \A i \in 1..Len(c) : us[i] = c[i]
  BY <1>1, <1>2, AppendProperties
<1>4. Lexed(text) = us
  BY DEF Lexed, c, eof
<1> HIDE DEF us
<1>5. StandsAt(us, 0, c)
  BY <1>1, <1>3 DEF StandsAt
<1>6. PICK r \in Phrases(us) : /\ r.kind = "value" /\ r.from = 0 /\ r.to = 0 + Len(c)
                               /\ r.value = v /\ r.depth <= d
  BY <1>1, <1>3, <1>5 DEF Spells
<1>7. r.depth \in Nat
  BY <1>3, PhraseShaped DEF Shaped
<1>8. IsRoot(us, Len(us), r)
  BY <1>0, <1>1, <1>2, <1>3, <1>6, <1>7 DEF IsRoot
<1> QED
  BY <1>1, <1>3, <1>4, <1>6, <1>8 DEF Document

-----------------------------------------------------------------------------
(* A value is the same as itself.                                           *)

PairsUpTo(left, right, f, n) ==
  f = [k \in 0..n |-> IF k = 0 THEN {<<left, right>>}
                      ELSE UNION {PairsWithin(p[1], p[2]) : p \in {q \in f[k - 1] : SameHere(q[1], q[2])}}]

LEMMA PairsSome ==
  ASSUME NEW left, NEW right, NEW n \in Nat
  PROVE  \E f : PairsUpTo(left, right, f, n)
<1> DEFINE On(e) == UNION {PairsWithin(p[1], p[2]) : p \in {q \in e : SameHere(q[1], q[2])}}
           first == {<<left, right>>}
           S == {m \in Nat : \E f : f = [k \in 0..m |-> IF k = 0 THEN first ELSE On(f[k - 1])]}
<1>0. \A f, m : PairsUpTo(left, right, f, m)
                  <=> f = [k \in 0..m |-> IF k = 0 THEN first ELSE On(f[k - 1])]
  BY Zenon DEF PairsUpTo
<1> HIDE DEF On, first
<1>1. 0 \in S
  <2> DEFINE f == [k \in 0..0 |-> first]
  <2>1. \A k \in 0..0 : k = 0
    OBVIOUS
  <2>2. f = [k \in 0..0 |-> IF k = 0 THEN first ELSE On(f[k - 1])]
    BY <2>1
  <2> QED
    BY <2>2
<1>2. ASSUME NEW m \in Nat, m \in S PROVE m + 1 \in S
  <2>1. PICK f : f = [k \in 0..m |-> IF k = 0 THEN first ELSE On(f[k - 1])]
    BY <1>2
  <2> DEFINE g == [k \in 0..(m + 1) |-> IF k = m + 1 THEN On(f[m]) ELSE f[k]]
  <2>2. \A k \in 0..m : g[k] = f[k]
    OBVIOUS
  <2>3. ASSUME NEW k \in 0..(m + 1)
        PROVE  g[k] = IF k = 0 THEN first ELSE On(g[k - 1])
    <3>1. CASE k = m + 1
      <4>1. g[k] = On(f[m]) /\ k # 0 /\ k - 1 = m /\ m \in 0..m
        BY <3>1
      <4> HIDE DEF g
      <4> QED
        BY <2>2, <4>1
    <3>2. CASE k # m + 1
      <4>1. k \in 0..m /\ (k # 0 => k - 1 \in 0..m)
        BY <3>2
      <4>2. f[k] = IF k = 0 THEN first ELSE On(f[k - 1])
        BY <2>1, <4>1
      <4>3. k # 0 => g[k - 1] = f[k - 1]
        BY <2>2, <4>1
      <4>4. g[k] = f[k]
        BY <2>2, <4>1
      <4> HIDE DEF g
      <4> QED
        BY <4>2, <4>3, <4>4
    <3> QED
      BY <3>1, <3>2
  <2>4. g = [k \in 0..(m + 1) |-> IF k = 0 THEN first ELSE On(g[k - 1])]
    <3>1. g = [k \in 0..(m + 1) |-> g[k]]
      OBVIOUS
    <3> HIDE DEF g
    <3> QED
      BY <2>3, <3>1
  <2> HIDE DEF g
  <2>5. \E h : h = [k \in 0..(m + 1) |-> IF k = 0 THEN first ELSE On(h[k - 1])]
    BY <2>4
  <2> QED
    BY <2>5
<1>3. n \in S
  <2> HIDE DEF S
  <2>1. Nat \subseteq S
    BY <1>1, <1>2, NatInduct
  <2> QED
    BY <2>1
<1> QED
  BY <1>0, <1>3

LEMMA SameHereItself ==
  ASSUME NEW v
  PROVE  SameHere(v, v)
<1>1. SameNumber(v.number, v.number)
  BY DEF SameNumber
<1> QED
  BY <1>1 DEF SameHere

LEMMA WithinItself ==
  ASSUME NEW v, NEW p \in PairsWithin(v, v)
  PROVE  \E w : p = <<w, w>>
<1>1. CASE v.kind = "array"
  <2>1. p \in {<<v.elements[i], v.elements[i]>> : i \in DOMAIN v.elements}
    BY <1>1, Zenon DEF PairsWithin
  <2> QED
    BY <2>1
<1>2. CASE v.kind = "object"
  <2>1. p \in {<<v.members[k], v.members[k]>> : k \in DOMAIN v.members}
    BY <1>2 DEF PairsWithin
  <2> QED
    BY <2>1
<1>3. CASE v.kind # "array" /\ v.kind # "object"
  BY <1>3 DEF PairsWithin
<1> QED
  BY <1>1, <1>2, <1>3

LEMMA SameAsItself ==
  ASSUME NEW v
  PROVE  sameValue(v, v)
<1> DEFINE f == CHOOSE g : PairsUpTo(v, v, g, MaxDepth)
           Twins(X) == \A p \in X : \E w : p = <<w, w>>
           S == {n \in Nat : n <= MaxDepth => Twins(f[n])}
<1>0. MaxDepth \in Nat
  BY ParserAssumption
<1>1. PairsUpTo(v, v, f, MaxDepth)
  BY <1>0, PairsSome, Zenon
<1>2. sameValue(v, v) <=> \A n \in 0..MaxDepth : \A p \in f[n] : SameHere(p[1], p[2])
  BY Zenon DEF sameValue, PairsUpTo
<1> HIDE DEF f
<1>3. 0 \in S
  <2>1. 0 \in 0..MaxDepth
    BY <1>0
  <2>2. f[0] = {<<v, v>>}
    BY <1>1, <2>1, Zenon DEF PairsUpTo
  <2> QED
    BY <2>2
<1>4. ASSUME NEW n \in Nat, n \in S PROVE n + 1 \in S
  <2>1. SUFFICES ASSUME n + 1 <= MaxDepth PROVE Twins(f[n + 1])
    OBVIOUS
  <2>2. n + 1 \in 0..MaxDepth /\ n + 1 # 0 /\ (n + 1) - 1 = n /\ Twins(f[n])
    BY <1>0, <1>4, <2>1
  <2>3. f[n + 1] = UNION {PairsWithin(p[1], p[2]) : p \in {q \in f[n] : SameHere(q[1], q[2])}}
    <3>1. f[n + 1] = IF n + 1 = 0 THEN {<<v, v>>}
                     ELSE UNION {PairsWithin(p[1], p[2]) : p \in {q \in f[(n + 1) - 1] : SameHere(q[1], q[2])}}
      BY <1>1, <2>2, Zenon DEF PairsUpTo
    <3> QED
      BY <2>2, <3>1, Zenon
  <2>4. ASSUME NEW r \in f[n + 1] PROVE \E w : r = <<w, w>>
    <3>1. PICK p \in f[n] : r \in PairsWithin(p[1], p[2])
      BY <2>3, Zenon
    <3>2. PICK w : p = <<w, w>>
      BY <2>2
    <3>3. p[1] = w /\ p[2] = w
      BY <3>2
    <3>4. r \in PairsWithin(w, w)
      BY <3>1, <3>3, Zenon
    <3> QED
      BY <3>4, WithinItself
  <2> QED
    BY <2>4
<1> HIDE DEF S
<1>5. Nat \subseteq S
  BY <1>3, <1>4, NatInduct
<1>6. ASSUME NEW n \in 0..MaxDepth, NEW p \in f[n] PROVE SameHere(p[1], p[2])
  <2>1. n \in S /\ n <= MaxDepth
    BY <1>0, <1>5
  <2>2. PICK w : p = <<w, w>>
    BY <2>1 DEF S
  <2>3. p[1] = w /\ p[2] = w
    BY <2>2
  <2> QED
    BY <2>3, SameHereItself, Zenon
<1> QED
  BY <1>2, <1>6

-----------------------------------------------------------------------------
(* The fuzzed program: three calls of parse(), one after the other.         *)

\* parse() was called for a stream, and no exception is thrown for one with a meaning.
Fresh ==
  /\ tokens \in Seq(Token)
  /\ current = 1 /\ currentDepth = 0
  /\ arrayReservations = <<>> /\ nextArrayReservation = 1
  /\ scanAt = 1 /\ scanStack = <<>>
  /\ frames = <<>> /\ pc = "construct" /\ ret = NullValue /\ error = NoError

FailsRightly == pc = "failed" => ~(IsEnded(tokens) /\ Roots(tokens) # {})

LEMMA FreshInv == Fresh => AllInv /\ FailsRightly
<1> SUFFICES ASSUME Fresh PROVE AllInv /\ FailsRightly
  OBVIOUS
<1>1. IsSeq(frames) /\ Len(frames) = 0
  BY EmptyIsSeq DEF Fresh
<1>2. Len(tokens) \in Nat
  BY LenProperties DEF Fresh
<1>3. TypeInv
  BY <1>1, <1>2 DEF Fresh, TypeInv
<1>4. DepthInv
  BY <1>1, ParserAssumption DEF Fresh, DepthInv
<1>5. EofInv /\ ControlInv
  BY DEF Fresh, EofInv, ControlInv, Running
<1>6. Inv
  BY <1>3, <1>4, <1>5 DEF Inv
<1> QED
  BY <1>6 DEF Fresh, AllInv, NestInv, ReadInv, EofAhead, RefusedInv, AnswerInv, DoneInv, Running, FailsRightly

LEMMA InitFresh == Init => Fresh
  BY ParserAssumption DEF Init, Fresh

LEMMA FailsRightlyStep == AllInv /\ FailsRightly /\ [Next]_vars => FailsRightly'
<1> SUFFICES ASSUME AllInv, FailsRightly, [Next]_vars, pc' = "failed"
             PROVE  ~(IsEnded(tokens') /\ Roots(tokens') # {})
  BY DEF FailsRightly
<1>1. tokens' = tokens /\ tokens \in Seq(Token)
  BY TokensStay DEF AllInv, Inv, TypeInv
<1>2. CASE pc = "failed"
  BY <1>1, <1>2 DEF FailsRightly
<1>3. CASE pc # "failed"
  <2>1. Outcome' = Reading!Rejected /\ Outcome # Outcome'
    BY <1>3 DEF Outcome, Reading!Rejected
  <2>2. Reading!Next
    BY <2>1, StepReads
  <2>3. Outcome'.kind # "accepted"
    BY <2>1 DEF Reading!Rejected
  <2>4. tokens \notin {ts \in Seq(Token) : IsEnded(ts) /\ Roots(ts) # {}}
    BY <2>2, <2>3 DEF Reading!Next, Reading!Accept, Reading!Reject
  <2> QED
    BY <1>1, <2>4
<1> QED
  BY <1>2, <1>3

\* As FreshInv, of the next state.
LEMMA FreshInvNext == Fresh' => AllInv' /\ FailsRightly'
  BY FreshInv, PTL

\* A value of some stream that parse() accepts.
Meant(v) == \E ts \in Seq(Token) : v \in ValuesBy(ts, MaxDepth)

\* A stream that means v and nothing else.
Means(ts, v) == ts \in Seq(Token) /\ IsEnded(ts) /\ Document(ts, Len(ts), v)

LEMMA TextMeans ==
  ASSUME NEW v, Meant(v), NEW pretty \in BOOLEAN
  PROVE  serialize(v, pretty, 0) # Refused /\ Means(Lexed(serialize(v, pretty, 0)), v)
<1>0. MaxDepth \in Nat /\ MaxLevel \in Nat /\ 0 + MaxDepth <= MaxLevel
  BY ParserAssumption, SerializerAssumption, LimitsAssumption
<1>1. PICK ts \in Seq(Token) : v \in ValuesBy(ts, MaxDepth)
  BY DEF Meant
<1>2. Good(serialize(v, pretty, 0), "value", v, MaxDepth)
  BY <1>0, <1>1, NoDeeper, SerializeSpells
<1> DEFINE us == Lexed(serialize(v, pretty, 0))
<1>3. us \in Seq(Token) /\ Len(us) > 0 /\ Document(us, Len(us), v)
  BY <1>0, <1>2, LexedIsDocument
<1>4. serialize(v, pretty, 0) # Refused
  BY <1>2, NotRefused DEF Good
<1> HIDE DEF us
<1>5. us[Len(us)].type = "EndOfFile"
  BY <1>3 DEF Document, IsRoot
<1>6. Means(us, v)
  BY <1>3, <1>5 DEF Means, IsEnded
<1> QED
  BY <1>4, <1>6 DEF us

LEMMA AnswerMeant == AllInv /\ pc = "done" => Meant(ret)
<1> SUFFICES ASSUME AllInv, pc = "done" PROVE Meant(ret)
  OBVIOUS
<1>1. tokens \in Seq(Token) /\ Document(tokens, current, ret)
  BY DEF AllInv, AnswerInv, Inv, TypeInv
<1> QED
  BY <1>1 DEF Document, IsRoot, Meant, ValuesBy

LEMMA AnswerAgain ==
  ASSUME AllInv, pc = "done", NEW v, Means(tokens, v)
  PROVE  ret = v
<1>1. tokens \in Seq(Token) /\ Document(tokens, current, ret) /\ current \in 1..Len(tokens)
  BY DEF AllInv, AnswerInv, DoneInv, Inv, TypeInv
<1>2. Document(tokens, Len(tokens), v) /\ Len(tokens) \in 1..Len(tokens)
  BY <1>1, LenProperties DEF Means, IsEnded
<1> QED
  BY <1>1, <1>2, OneDocument

LEMMA NeverFails ==
  ASSUME FailsRightly, NEW v, Means(tokens, v)
  PROVE  pc # "failed"
<1>1. Roots(tokens) # {}
  <2>1. PICK p \in Phrases(tokens) : IsRoot(tokens, Len(tokens), p)
    BY DEF Means, Document
  <2>2. Len(tokens) \in 1..Len(tokens)
    BY LenProperties DEF Means, IsEnded
  <2> QED
    BY <2>1, <2>2 DEF Roots
<1> QED
  BY <1>1 DEF FailsRightly, Means

\* Once the input is parsed, its value and its compact text are kept, and every
\* text that is parsed means this value.
FuzzInv ==
  /\ AllInv /\ FailsRightly
  /\ stage \in Stages \cup {"accepted", "rejected"}
  /\ Meant(original)
  /\ stage \in {"compact", "pretty"} => compact = serialize(original, FALSE, 0) /\ Means(tokens, original)

LEMMA AgainIsFresh ==
  ASSUME NEW text, Lexed(text) \in Seq(Token), ParseAgain(text)
  PROVE  AllInv' /\ FailsRightly' /\ tokens' = Lexed(text)
<1>1. tokens' = Lexed(text)
  BY DEF ParseAgain
<1>2. Fresh'
  BY <1>1 DEF ParseAgain, Fresh
<1> QED
  BY <1>1, <1>2, FreshInvNext

LEMMA NullMeant == Meant(NullValue)
<1> DEFINE t == [type |-> "Null"]
           ts == <<t>>
<1>0. MaxDepth \in Nat
  BY ParserAssumption
<1>1. t \in Token /\ NullValue \in Denoted(t)
  BY DEF Token, Structural, Literals, Denoted, Words
<1> HIDE DEF t
<1>2. ts \in Seq(Token) /\ 0 + 1 \in 1..Len(ts) /\ ts[0 + 1] = t
  BY <1>1
<1> HIDE DEF ts
<1>3. PICK r \in Phrases(ts) : Spans(r, "value", 0, 0 + 1, NullValue, 0)
  BY <1>1, <1>2, MakeSingle
<1>4. r.kind = "value" /\ r.depth <= MaxDepth /\ r.value = NullValue
  BY <1>0, <1>3 DEF Spans
<1>5. NullValue \in ValuesBy(ts, MaxDepth)
  BY <1>4 DEF ValuesBy
<1> QED
  BY <1>2, <1>5 DEF Meant

LEMMA InitFuzzInv == FuzzInit => FuzzInv
<1> SUFFICES ASSUME FuzzInit PROVE FuzzInv
  OBVIOUS
<1>1. Fresh
  BY InitFresh DEF FuzzInit
<1>2. stage = "input" /\ original = NullValue
  BY DEF FuzzInit
<1> QED
  BY <1>1, <1>2, FreshInv, NullMeant DEF FuzzInv, Stages

LEMMA ParsingKeeps == FuzzInv /\ [Next]_vars /\ UNCHANGED check => FuzzInv'
<1> SUFFICES ASSUME FuzzInv, [Next]_vars, UNCHANGED check PROVE FuzzInv'
  OBVIOUS
<1>1. AllInv' /\ FailsRightly'
  BY NextAllInv, FailsRightlyStep DEF FuzzInv
<1>2. tokens' = tokens
  BY TokensStay DEF FuzzInv, AllInv
<1>3. stage' = stage /\ original' = original /\ compact' = compact
  BY DEF check
<1> QED
  BY <1>1, <1>2, <1>3 DEF FuzzInv

\* checkInput ends as it should.
LEMMA EndKeeps ==
  ASSUME FuzzInv, NEW how \in {"accepted", "rejected"}, End(how)
  PROVE  FuzzInv'
<1>1. UNCHANGED vars /\ stage' = how /\ original' = original
  BY DEF End
<1>2. AllInv' /\ FailsRightly'
  BY <1>1, NextAllInv, FailsRightlyStep DEF FuzzInv
<1>3. stage' \in {"accepted", "rejected"}
  BY <1>1
<1> QED
  BY <1>1, <1>2, <1>3 DEF FuzzInv

LEMMA NextFuzzInv == FuzzInv /\ [FuzzNext]_<<vars, check>> => FuzzInv'
<1> SUFFICES ASSUME FuzzInv, [FuzzNext]_<<vars, check>> PROVE FuzzInv'
  OBVIOUS
<1>0. AllInv /\ FailsRightly
  BY DEF FuzzInv
<1>1. CASE Parsing
  BY <1>1, ParsingKeeps DEF Parsing, Next
<1>2. CASE ParseFails
  <2>1. pc = "failed" /\ stage \in Stages
    BY <1>2 DEF ParseFails
  <2>2. stage \notin {"compact", "pretty"}
    BY <2>1, NeverFails DEF FuzzInv
  <2>3. stage = "input"
    BY <2>1, <2>2 DEF Stages
  <2>4. End("rejected")
    BY <1>2, <2>3 DEF ParseFails
  <2> QED
    BY <2>4, EndKeeps
<1>3. CASE Serialize
  <2> DEFINE text == serialize(ret, FALSE, 0)
  <2>1. pc = "done"
    BY <1>3 DEF Serialize
  <2>2. Meant(ret)
    BY <1>0, <2>1, AnswerMeant
  <2>3. text # Refused /\ Means(Lexed(text), ret)
    BY <2>2, TextMeans
  <2>4. original' = ret /\ compact' = text /\ stage' = "compact" /\ ParseAgain(text)
    BY <1>3, <2>3 DEF Serialize
  <2>5. AllInv' /\ FailsRightly' /\ tokens' = Lexed(text)
    <3> HIDE DEF text
    <3> QED
      BY <2>3, <2>4, AgainIsFresh DEF Means
  <2>6. compact' = serialize(original', FALSE, 0)
    BY <2>4
  <2> HIDE DEF text
  <2> QED
    BY <2>2, <2>3, <2>4, <2>5, <2>6 DEF FuzzInv, Stages
<1>4. CASE CompareCompact
  <2> DEFINE text == serialize(original, TRUE, 0)
  <2>1. pc = "done" /\ stage = "compact"
    BY <1>4 DEF CompareCompact
  <2>2. Meant(original) /\ compact = serialize(original, FALSE, 0) /\ Means(tokens, original)
    BY <2>1 DEF FuzzInv
  <2>3. ret = original
    BY <1>0, <2>1, <2>2, AnswerAgain
  <2>4. sameValue(original, ret) /\ serialize(ret, FALSE, 0) = compact
    BY <2>2, <2>3, SameAsItself
  <2>5. text # Refused /\ Means(Lexed(text), original)
    BY <2>2, TextMeans
  <2>6. stage' = "pretty" /\ ParseAgain(text) /\ UNCHANGED <<original, compact>>
    BY <1>4, <2>4, <2>5 DEF CompareCompact
  <2> HIDE DEF text
  <2>7. AllInv' /\ FailsRightly' /\ tokens' = Lexed(text)
    BY <2>5, <2>6, AgainIsFresh DEF Means
  <2> QED
    BY <2>2, <2>5, <2>6, <2>7 DEF FuzzInv, Stages
<1>5. CASE ComparePretty
  <2>1. pc = "done" /\ stage = "pretty"
    BY <1>5 DEF ComparePretty
  <2>2. compact = serialize(original, FALSE, 0) /\ Means(tokens, original)
    BY <2>1 DEF FuzzInv
  <2>3. ret = original
    BY <1>0, <2>1, <2>2, AnswerAgain
  <2>4. sameValue(original, ret) /\ serialize(ret, FALSE, 0) = compact
    BY <2>2, <2>3, SameAsItself
  <2>5. End("accepted")
    BY <1>5, <2>4 DEF ComparePretty
  <2> QED
    BY <2>5, EndKeeps
<1>6. CASE FuzzEnded \/ UNCHANGED <<vars, check>>
  BY <1>6, ParsingKeeps DEF FuzzEnded
<1> QED
  BY <1>1, <1>2, <1>3, <1>4, <1>5, <1>6 DEF FuzzNext, FuzzStep

\* checkInput never finds a bug, for a document of any length and depth and
\* whatever strings and numbers it is of.
THEOREM RoundTripsHold == FuzzSpec => []RoundTripHolds
<1>1. FuzzInv => RoundTripHolds
  BY DEF FuzzInv, RoundTripHolds, Stages
<1> QED
  BY <1>1, InitFuzzInv, NextFuzzInv, PTL DEF FuzzSpec

-----------------------------------------------------------------------------
(* The level limit is one of depth.                                         *)

\* A container of something that cannot be written cannot be.
LEMMA EnclosedRefused ==
  ASSUME NEW opener, NEW closer, NEW parts, NEW pretty, NEW level,
         NEW i \in DOMAIN parts, parts[i] = Refused, Len(parts) # 0
  PROVE  Enclosed(opener, parts, closer, pretty, level) = Refused
<1> DEFINE A == Mark(opener) \o Mark(closer)
<1>1. PICK z : Enclosed(opener, parts, closer, pretty, level) =
        CASE \E j \in DOMAIN parts : parts[j] = Refused -> Refused
          [] Len(parts) = 0 -> A
          [] OTHER -> z
  BY Zenon DEF Enclosed
<1> HIDE DEF A
<1> QED
  BY <1>1

LEMMA ContainerRefused ==
  ASSUME NEW S, NEW v, IsArrayOf(v, S) \/ IsObjectOf(v, S), NEW f, NEW pretty, NEW level,
         NEW w \in Contained(v), f[w] = Refused
  PROVE  TextOf(v, f, pretty, level) = Refused
<1>1. CASE level \notin 0..MaxLevel
  BY <1>1 DEF TextOf
<1>2. CASE ContainerTooDeep(level) /\ level \in 0..MaxLevel
  <2>1. v.kind \in {"object", "array"}
    BY DEF IsArrayOf, IsObjectOf, ArrayValue, ObjectValue
  <2> QED
    BY <1>2, <2>1 DEF TextOf, Container
<1>3. CASE IsArrayOf(v, S) /\ ~ContainerTooDeep(level) /\ level \in 0..MaxLevel
  <2>1. PICK e \in Seq(S) : v = ArrayValue(e)
    BY <1>3 DEF IsArrayOf
  <2>2. v.kind = "array" /\ v.elements = e
    BY <2>1 DEF ArrayValue
  <2>3. TextOf(v, f, pretty, level) = serializeArray(e, f, pretty, level)
    BY <1>3, <2>2 DEF TextOf, Container
  <2>4. PICK i \in DOMAIN e : w = e[i]
    BY <2>2 DEF Contained
  <2> DEFINE parts == [j \in DOMAIN e |-> f[e[j]]]
  <2>5. Len(e) \in Nat /\ DOMAIN e = 1..Len(e)
    BY LenProperties
  <2>6. parts = [j \in 1..Len(e) |-> f[e[j]]]
    BY <2>5
  <2>7. serializeArray(e, f, pretty, level) = Enclosed("LeftBracket", parts, "RightBracket", pretty, level)
    BY Zenon DEF serializeArray
  <2> HIDE DEF parts
  <2>8. i \in DOMAIN parts /\ parts[i] = Refused /\ Len(parts) # 0
    BY <2>4, <2>5, <2>6
  <2> QED
    BY <2>3, <2>7, <2>8, EnclosedRefused
<1>4. CASE IsObjectOf(v, S) /\ ~ContainerTooDeep(level) /\ level \in 0..MaxLevel
  <2>1. PICK K \in SUBSET Texts : IsFiniteSet(K) /\ \E m \in [K -> S] : v = ObjectValue(m)
    BY <1>4 DEF IsObjectOf
  <2>2. PICK m \in [K -> S] : v = ObjectValue(m)
    BY <2>1
  <2>3. v.kind = "object" /\ v.members = m
    BY <2>2 DEF ObjectValue
  <2>4. TextOf(v, f, pretty, level) = serializeObject(m, f, pretty, level)
    BY <1>4, <2>3 DEF TextOf, Container
  <2>5. PICK k \in K : w = m[k]
    BY <2>3 DEF Contained
  <2> DEFINE keys == InOrder(K)
             n == Cardinality(K)
             member(x) == IF Refused \in {Escape[x], f[m[x]]} THEN Refused
                          ELSE NamedText(x, f[m[x]], pretty)
             parts == [j \in DOMAIN keys |-> member(keys[j])]
  <2>6. n \in Nat /\ keys \in [1..n -> K] /\ {keys[j] : j \in 1..n} = K
    BY <2>1, InOrderIs
  <2>7. serializeObject(m, f, pretty, level) = Enclosed("LeftBrace", parts, "RightBrace", pretty, level)
    <3>1. DOMAIN m = K
      OBVIOUS
    <3> QED
      BY <3>1, Zenon DEF serializeObject, NamedText
  <2>8. member(k) = Refused
    BY <2>5
  <2> HIDE DEF keys, n, member
  <2>9. PICK i \in 1..n : keys[i] = k
    BY <2>6
  <2>10. parts = [j \in 1..n |-> member(keys[j])]
    BY <2>6
  <2> HIDE DEF parts
  <2>11. i \in DOMAIN parts /\ parts[i] = Refused /\ Len(parts) # 0
    BY <2>6, <2>8, <2>9, <2>10
  <2> QED
    BY <2>4, <2>7, <2>11, EnclosedRefused
<1> QED
  BY <1>1, <1>2, <1>3, <1>4

\* What is within a value and contains something is an array or an object.
LEMMA InsideIsProper ==
  ASSUME NEW ts \in Seq(Token), NEW d \in Nat, NEW v \in ValuesBy(ts, d), NEW n \in Nat,
         NEW u \in Inside(v)[n], NEW w \in Contained(u)
  PROVE  \E T : IsArrayOf(u, T) \/ IsObjectOf(u, T)
<1>1. Inside(v)[n] \subseteq ValuesBy(ts, d)
  <2> DEFINE S == {m \in Nat : Inside(v)[m] \subseteq ValuesBy(ts, d)}
  <2>1. 0 \in S
    BY InsideIs
  <2>2. ASSUME NEW m \in Nat, m \in S PROVE m + 1 \in S
    <3>1. SUFFICES ASSUME NEW x \in Inside(v)[m + 1] PROVE x \in ValuesBy(ts, d)
      OBVIOUS
    <3>2. PICK y \in Inside(v)[m] : x \in Contained(y)
      BY InsideIs
    <3>3. y \in ValuesBy(ts, d) /\ y \notin Plain
      BY <2>2, <3>2 DEF Plain, Contained, BoolValue, NullValue, StringValue, NumberValue
    <3>4. d # 0 /\ (IsArrayOf(y, ValuesBy(ts, d - 1)) \/ IsObjectOf(y, ValuesBy(ts, d - 1)))
      BY <3>3, ValueParts
    <3>5. x \in ValuesBy(ts, d - 1)
      BY <3>2, <3>4, ContainedIs
    <3>6. d - 1 \in Nat /\ d - 1 <= d
      BY <3>4
    <3> QED
      BY <3>5, <3>6, ValuesMono
  <2> HIDE DEF S
  <2>3. Nat \subseteq S
    BY <2>1, <2>2, NatInduct
  <2> QED
    BY <2>3 DEF S
<1>2. u \in ValuesBy(ts, d) /\ u \notin Plain
  BY <1>1 DEF Plain, Contained, BoolValue, NullValue, StringValue, NumberValue
<1> QED
  BY <1>2, ValueParts

\* A container at the last level leaves nothing to write.
LEMMA TooDeepRefused ==
  ASSUME NEW ts \in Seq(Token), NEW d \in Nat, NEW v \in ValuesBy(ts, d), NEW pretty,
         NEW level \in 0..MaxLevel, ContainerAt(v, MaxLevel - level)
  PROVE  serialize(v, pretty, level) = Refused
<1>0. MaxLevel \in Nat /\ level \in Nat
  BY SerializerAssumption
<1>1. PICK f : AllLayers(v, level, pretty, f) /\ serialize(v, pretty, level) = f[level][v]
  BY SerializeIs
<1> DEFINE Lost(l) == \E w \in Inside(v)[l - level] : f[l][w] = Refused
           S == {n \in Nat : level <= MaxLevel - n => Lost(MaxLevel - n)}
<1>2. 0 \in S
  <2>1. PICK w \in Inside(v)[MaxLevel - level] : w.kind \in {"object", "array"}
    BY DEF ContainerAt
  <2>2. f[MaxLevel][w] = TextOf(w, f[MaxLevel + 1], pretty, MaxLevel)
    BY <1>0, <1>1, LayerAt
  <2>3. TextOf(w, f[MaxLevel + 1], pretty, MaxLevel) = Refused
    BY <1>0, <2>1 DEF TextOf, Container, ContainerTooDeep
  <2>4. MaxLevel - 0 = MaxLevel
    BY <1>0
  <2> QED
    BY <2>2, <2>3, <2>4
<1>3. ASSUME NEW n \in Nat, n \in S PROVE n + 1 \in S
  <2> DEFINE l == MaxLevel - (n + 1)
  <2>1. SUFFICES ASSUME level <= l PROVE Lost(l)
    OBVIOUS
  <2>2. l \in Nat /\ l + 1 = MaxLevel - n /\ level <= l + 1 /\ l - level \in Nat /\ (l + 1) - level = (l - level) + 1
    BY <1>0, <2>1
  <2>3. PICK w \in Inside(v)[(l + 1) - level] : f[l + 1][w] = Refused
    BY <1>3, <2>2
  <2> HIDE DEF l
  <2>4. Inside(v)[(l - level) + 1] = UNION {Contained(u) : u \in Inside(v)[l - level]}
    BY <2>2, InsideIs
  <2>5. PICK u \in Inside(v)[l - level] : w \in Contained(u)
    BY <2>2, <2>3, <2>4
  <2>6. f[l][u] = TextOf(u, f[l + 1], pretty, l)
    BY <1>0, <1>1, <2>2, LayerAt
  <2>7. \E T : IsArrayOf(u, T) \/ IsObjectOf(u, T)
    BY <2>2, <2>5, InsideIsProper
  <2>8. TextOf(u, f[l + 1], pretty, l) = Refused
    BY <2>3, <2>5, <2>7, ContainerRefused
  <2>9. Lost(l)
    BY <2>6, <2>8
  <2> QED
    BY <2>9
<1> HIDE DEF S
<1>4. Nat \subseteq S
  BY <1>2, <1>3, NatInduct
<1>5. MaxLevel - level \in Nat /\ MaxLevel - (MaxLevel - level) = level /\ level - level = 0
  BY <1>0
<1>6. Lost(level)
  <2>1. MaxLevel - level \in S
    BY <1>4, <1>5
  <2>2. level <= MaxLevel - (MaxLevel - level)
    BY <1>0, <1>5
  <2> HIDE DEF Lost
  <2>3. Lost(MaxLevel - (MaxLevel - level))
    BY <2>1, <2>2 DEF S
  <2> QED
    BY <1>5, <2>3
<1>7. Inside(v)[0] = {v}
  BY InsideIs
<1> QED
  BY <1>1, <1>5, <1>6, <1>7

LEMMA OutsideRefused ==
  ASSUME NEW v, NEW pretty, NEW level \in Int, level \notin 0..MaxLevel
  PROVE  serialize(v, pretty, level) = Refused
<1>1. PICK f : AllLayers(v, level, pretty, f) /\ serialize(v, pretty, level) = f[level][v]
  BY SerializeIs
<1>2. level - level = 0 /\ v \in Inside(v)[level - level]
  BY InsideIs
<1>3. f[level][v] = TextOf(v, f[level + 1], pretty, level)
  BY <1>1, <1>2, LayerAt
<1> QED
  BY <1>1, <1>3 DEF TextOf

\* Containers nest without gaps: there is one at a level if there is one below.
LEMMA ContainersNest ==
  ASSUME NEW v, NEW n \in Nat, ContainerAt(v, n + 1)
  PROVE  ContainerAt(v, n)
<1>1. PICK w \in Inside(v)[n + 1] : w.kind \in {"object", "array"}
  BY DEF ContainerAt
<1>2. PICK u \in Inside(v)[n] : w \in Contained(u)
  BY InsideIs
<1>3. u.kind \in {"object", "array"}
  BY <1>2 DEF Contained
<1> QED
  BY <1>2, <1>3 DEF ContainerAt

LEMMA DepthExists ==
  ASSUME NEW v, NEW d \in Nat, ~ContainerAt(v, d)
  PROVE  \E k \in 0..d : \A n \in Nat : ContainerAt(v, n) <=> n < k
<1> DEFINE C(n) == ContainerAt(v, n)
           Below == {n \in Nat : \A j \in 0..n : C(n) => C(j)}
           S == {n \in Nat : ~C(n) => \E k \in 0..n : \A j \in Nat : C(j) <=> j < k}
<1>0. ASSUME NEW n \in Nat, C(n + 1) PROVE C(n)
  BY <1>0, ContainersNest
<1> HIDE DEF C
<1>1. \A n \in Nat : n \in Below
  <2>1. 0 \in Below
    OBVIOUS
  <2>2. ASSUME NEW n \in Nat, n \in Below PROVE n + 1 \in Below
    <3>1. SUFFICES ASSUME NEW j \in 0..(n + 1), C(n + 1) PROVE C(j)
      OBVIOUS
    <3>2. C(n)
      BY <1>0, <3>1
    <3>3. j = n + 1 \/ j \in 0..n
      OBVIOUS
    <3> QED
      BY <2>2, <3>1, <3>2, <3>3
  <2> HIDE DEF Below
  <2> QED
    BY <2>1, <2>2, NatInduct
<1>2. 0 \in S
  <2>1. SUFFICES ASSUME ~C(0) PROVE \A j \in Nat : C(j) <=> j < 0
    OBVIOUS
  <2>2. ASSUME NEW j \in Nat PROVE ~C(j)
    BY <1>1, <2>1
  <2> QED
    BY <2>2
<1>3. ASSUME NEW n \in Nat, n \in S PROVE n + 1 \in S
  <2>1. SUFFICES ASSUME ~C(n + 1) PROVE \E k \in 0..(n + 1) : \A j \in Nat : C(j) <=> j < k
    OBVIOUS
  <2>2. CASE ~C(n)
    <3>1. PICK k \in 0..n : \A j \in Nat : C(j) <=> j < k
      BY <1>3, <2>2
    <3> QED
      BY <3>1
  <2>3. CASE C(n)
    <3>1. ASSUME NEW j \in Nat PROVE C(j) <=> j < n + 1
      <4>1. j < n + 1 => j \in 0..n
        OBVIOUS
      <4>2. ~(j < n + 1) => n + 1 \in 0..j
        OBVIOUS
      <4>3. ASSUME j \in 0..n PROVE C(j)
        BY <1>1, <2>3, <4>3
      <4>4. ASSUME n + 1 \in 0..j PROVE ~C(j)
        BY <1>1, <2>1, <4>4
      <4> QED
        BY <4>1, <4>2, <4>3, <4>4
    <3> QED
      BY <3>1
  <2> QED
    BY <2>2, <2>3
<1> HIDE DEF S, Below
<1>4. Nat \subseteq S
  BY <1>2, <1>3, NatInduct
<1>5. \E k \in 0..d : \A j \in Nat : C(j) <=> j < k
  BY <1>4 DEF S, C
<1> QED
  BY <1>5 DEF C

\* DepthOf counts these levels.
LEMMA DepthOfIs ==
  ASSUME NEW ts \in Seq(Token), NEW v \in ValuesBy(ts, MaxDepth)
  PROVE  DepthOf(v) \in 0..MaxDepth /\ \A n \in Nat : ContainerAt(v, n) <=> n < DepthOf(v)
<1>0. MaxDepth \in Nat
  BY ParserAssumption
<1>1. PICK k \in 0..MaxDepth : \A n \in Nat : ContainerAt(v, n) <=> n < k
  BY <1>0, NoDeeper, DepthExists
<1>2. DepthOf(v) = Cardinality({n \in 0..MaxDepth : ContainerAt(v, n)})
  BY DEF DepthOf, ContainerAt
<1>3. {n \in 0..MaxDepth : ContainerAt(v, n)} = 0..(k - 1)
  <2>1. ASSUME NEW n \in 0..MaxDepth PROVE ContainerAt(v, n) <=> n \in 0..(k - 1)
    BY <1>0, <1>1
  <2>2. \A n \in 0..(k - 1) : n \in 0..MaxDepth
    BY <1>0
  <2> QED
    BY <2>1, <2>2
<1>4. Cardinality(0..(k - 1)) = k
  <2>1. k \in Nat
    BY <1>0
  <2> QED
    BY <2>1, FS_Interval
<1> QED
  BY <1>1, <1>2, <1>3, <1>4

LEMMA LimitOfMeant ==
  ASSUME NEW v, Meant(v), NEW level \in Int, NEW pretty \in BOOLEAN
  PROVE  serialize(v, pretty, level) = Refused
           <=> level \notin 0..MaxLevel \/ level + DepthOf(v) > MaxLevel
<1>0. MaxDepth \in Nat /\ MaxLevel \in Nat
  BY ParserAssumption, SerializerAssumption
<1>1. PICK ts \in Seq(Token) : v \in ValuesBy(ts, MaxDepth)
  BY DEF Meant
<1>2. PICK d : d = DepthOf(v)
  OBVIOUS
<1>3. d \in Nat /\ \A n \in Nat : ContainerAt(v, n) <=> n < d
  BY <1>0, <1>1, <1>2, DepthOfIs
<1>4. CASE level \notin 0..MaxLevel
  BY <1>4, OutsideRefused
<1>5. CASE level \in 0..MaxLevel /\ level + d > MaxLevel
  <2>1. MaxLevel - level \in Nat /\ MaxLevel - level < d
    BY <1>0, <1>3, <1>5
  <2>2. ContainerAt(v, MaxLevel - level)
    BY <1>3, <2>1
  <2>3. serialize(v, pretty, level) = Refused
    BY <1>0, <1>1, <1>5, <2>2, TooDeepRefused
  <2> QED
    BY <1>2, <1>5, <2>3
<1>6. CASE level \in 0..MaxLevel /\ ~(level + d > MaxLevel)
  <2>1. level \in Nat /\ level + d <= MaxLevel
    BY <1>0, <1>3, <1>6
  <2>2. ~ContainerAt(v, d)
    BY <1>3
  <2>3. Good(serialize(v, pretty, level), "value", v, d)
    BY <1>0, <1>1, <1>3, <2>1, <2>2, SerializeSpells
  <2>4. serialize(v, pretty, level) # Refused
    BY <2>3, NotRefused DEF Good
  <2> QED
    BY <1>2, <1>6, <2>4
<1> QED
  BY <1>2, <1>4, <1>5, <1>6

\* serialize refuses a value exactly where its deepest part would be too deep,
\* for every value that parse() accepts and at every level.
THEOREM LimitsAreDepth == FuzzSpec => []LimitIsDepth
<1>1. FuzzInv => LimitIsDepth
  <2> SUFFICES ASSUME FuzzInv, NEW level \in -1..(MaxLevel + 1), NEW pretty \in BOOLEAN
               PROVE  serialize(original, pretty, level) = Refused
                        <=> level \notin 0..MaxLevel \/ level + DepthOf(original) > MaxLevel
    BY DEF LimitIsDepth
  <2>1. level \in Int
    BY SerializerAssumption
  <2> QED
    BY <2>1, LimitOfMeant DEF FuzzInv
<1> QED
  BY <1>1, InitFuzzInv, NextFuzzInv, PTL DEF FuzzSpec
=============================================================================
