----------------------------- MODULE JsonParser -----------------------------
(***************************************************************************)
(* JsonParser: the recursive-descent parser that turns a token stream into *)
(* a Json value, with its nesting limit (DepthGuard) and the array         *)
(* capacity hints computed in one pass before parsing.                     *)
(*                                                                         *)
(* The C++ call stack is the variable frames: one record per activation of *)
(* parseObject or parseArray that has passed its depth check, holding that *)
(* activation's locals.  pc says where the innermost activation stands:    *)
(*   "construct" the constructor has not run                               *)
(*   "scan"      the constructor is in findArrayReservations               *)
(*   "value"     parseValue is about to look at a token                    *)
(*   "open"      a container was entered, its first token not yet seen     *)
(*   "key"       parseObject is about to read a member's key               *)
(*   "return"    parseValue returned ret to the innermost activation       *)
(*   "done", "failed"   parse() returned ret, or threw                     *)
(* Token positions count from 1, so current is the C++ current plus one.   *)
(***************************************************************************)
EXTENDS SyntaxGrammar, Naturals, FiniteSets, Sequences, SequencesExt

CONSTANTS
  Strings,    \* raw contents of string tokens
  Commas,     \* the raw contents spelled with a comma
  Numerals,   \* spellings of number tokens
  Inputs      \* the token streams the parser is run on

Openers == {"LeftBrace", "LeftBracket"}
Closers == {"RightBrace", "RightBracket"}
Literals == {"True", "False", "Null"}
Structural == Openers \cup Closers \cup Literals \cup {"Colon", "Comma", "EndOfFile"}

Token == [type : Structural]
         \cup [type : {"String"}, raw : Strings]
         \cup [type : {"Number"}, raw : Numerals]

ASSUME ParserAssumption ==
  /\ MaxDepth \in Nat
  /\ Inputs \subseteq Seq(Token)

VARIABLES
  tokens, current, currentDepth, arrayReservations, nextArrayReservation,
  scanAt, scanStack,  \* locals i and stack of findArrayReservations
  frames, pc, ret,
  error       \* what was thrown: the reason and the token it is reported at

vars == <<tokens, current, currentDepth, arrayReservations,
          nextArrayReservation, scanAt, scanStack, frames, pc, ret, error>>

hints == <<arrayReservations, scanAt, scanStack>>

NoError == [why |-> "none", at |-> 0]

-----------------------------------------------------------------------------
Peek == tokens[current].type

\* An exception leaves parse(): every activation is unwound, and with each its
\* DepthGuard, whose destructor decrements the depth.
Throw(why, at) ==
  /\ pc' = "failed"
  /\ error' = [why |-> why, at |-> at]
  /\ currentDepth' = currentDepth - Len(frames)
  /\ frames' = <<>>
  /\ UNCHANGED <<tokens, hints, nextArrayReservation, ret>>

\* fail() reports the token the parser is looking at.
Fail(why, at) == current' = at /\ Throw(why, at)

\* parseValue returns v to its caller, with the parser at token next.
Return(v, next) ==
  /\ pc' = "return"
  /\ ret' = v
  /\ current' = next
  /\ UNCHANGED <<tokens, hints, nextArrayReservation, error>>

\* The parser moves on to token next and to the control point to.
Advance(next, to) ==
  /\ pc' = to
  /\ current' = next
  /\ UNCHANGED <<tokens, currentDepth, hints, nextArrayReservation, ret, error>>

SetTop(frame) == [frames EXCEPT ![Len(frames)] = frame]

Init ==
  /\ tokens \in Inputs
  /\ current = 1
  /\ currentDepth = 0
  /\ arrayReservations = <<>>
  /\ nextArrayReservation = 1
  /\ scanAt = 1
  /\ scanStack = <<>>
  /\ frames = <<>>
  /\ pc = "construct"
  /\ ret = NullValue
  /\ error = NoError

(***************************************************************************)
(* The constructor.                                                        *)
(***************************************************************************)
\* Mutant: the constructor accepts any stream that is not empty.
EndsAnyhow(ts) == ts # <<>>

EndsWithEof(ts) == ts # <<>> /\ Last(ts).type = "EndOfFile"

RejectStream ==
  /\ pc = "construct"
  /\ ~EndsWithEof(tokens)
  /\ Fail("no EOF", 1)

\* source.find(',') != npos: a comma token, or a comma inside a string.
SourceHasComma ==
  \E i \in DOMAIN tokens : \/ tokens[i].type = "Comma"
                           \/ tokens[i].type = "String" /\ tokens[i].raw \in Commas

Construct ==
  /\ pc = "construct"
  /\ EndsWithEof(tokens)
  /\ pc' = IF SourceHasComma THEN "scan" ELSE "value"
  /\ UNCHANGED <<tokens, current, currentDepth, nextArrayReservation, hints, frames, ret, error>>

(***************************************************************************)
(* findArrayReservations: one scan of the tokens, with a stack of the open *)
(* containers.  An array's hint is one more than its commas, none if it is *)
(* empty; a stream that does not nest, or nests too deep, has no hints.    *)
(***************************************************************************)
ScanType == tokens[scanAt].type
ScanTop == Last(scanStack)
OpenerOf(closer) == IF closer = "RightBracket" THEN "LeftBracket" ELSE "LeftBrace"
ScanMatches == scanStack # <<>> /\ ScanTop.type = OpenerOf(ScanType)
ScanInArray == scanStack # <<>> /\ ScanTop.type = "LeftBracket"

\* One more token scanned, the hints and the stack as given.
ScanOn(reservations, stack) ==
  /\ scanAt' = scanAt + 1
  /\ arrayReservations' = reservations
  /\ scanStack' = stack
  /\ UNCHANGED <<tokens, current, currentDepth, nextArrayReservation, frames, pc, ret, error>>

\* The scan returns the hints, or an empty vector.
ScanReturn(reservations) ==
  /\ pc' = "value"
  /\ arrayReservations' = reservations
  /\ UNCHANGED <<tokens, current, currentDepth, nextArrayReservation,
                 scanAt, scanStack, frames, ret, error>>

\* Mutant: the stack has one frame less than the parser may nest.
ScanFullEarly == Len(scanStack) + 1 = MaxDepth

\* The stack has as many frames as the parser may nest.
ScanFull == Len(scanStack) = MaxDepth

ScanGiveUp ==
  /\ pc = "scan"
  /\ scanAt <= Len(tokens)
  /\ \/ ScanType \in Openers /\ ScanFull
     \/ ScanType \in Closers /\ ~ScanMatches
  /\ ScanReturn(<<>>)

\* The hint of the array that opens at the scanned token.
NewHint ==
  [at |-> scanAt,
   size |-> IF scanAt < Len(tokens) /\ tokens[scanAt + 1].type = "RightBracket" THEN 0 ELSE 1]

ScanOpener ==
  /\ pc = "scan"
  /\ scanAt <= Len(tokens)
  /\ ScanType \in Openers
  /\ ~ScanFull
  /\ ScanOn(IF ScanType = "LeftBracket" THEN Append(arrayReservations, NewHint)
                                       ELSE arrayReservations,
            Append(scanStack, [type |-> ScanType, reservation |-> Len(arrayReservations) + 1]))

ScanCloser ==
  /\ pc = "scan"
  /\ scanAt <= Len(tokens)
  /\ ScanType \in Closers
  /\ ScanMatches
  /\ ScanOn(arrayReservations, Front(scanStack))

ScanComma ==
  /\ pc = "scan"
  /\ scanAt <= Len(tokens)
  /\ ScanType = "Comma"
  /\ ScanInArray
  /\ ScanOn([arrayReservations EXCEPT ![ScanTop.reservation].size = @ + 1], scanStack)

ScanOther ==
  /\ pc = "scan"
  /\ scanAt <= Len(tokens)
  /\ ScanType \notin Openers \cup Closers
  /\ ~(ScanType = "Comma" /\ ScanInArray)
  /\ ScanOn(arrayReservations, scanStack)

ScanEnd ==
  /\ pc = "scan"
  /\ scanAt > Len(tokens)
  /\ ScanReturn(IF scanStack = <<>> THEN arrayReservations ELSE <<>>)

(***************************************************************************)
(* parseValue.                                                             *)
(***************************************************************************)
LiteralValue(type) == IF type = "Null" THEN NullValue ELSE BoolValue(type = "True")

ParseLiteral ==
  /\ pc = "value"
  /\ Peek \in Literals
  /\ Return(LiteralValue(Peek), current + 1)
  /\ UNCHANGED <<frames, currentDepth>>

\* match() has consumed the token when unescapeString throws; the exception
\* nevertheless carries the position of the string.
ParseString ==
  /\ pc = "value"
  /\ Peek = "String"
  /\ LET text == Text[tokens[current].raw]
     IN  \/ /\ text # Invalid
            /\ Return(StringValue(text), current + 1)
            /\ UNCHANGED <<frames, currentDepth>>
         \/ /\ text = Invalid
            /\ current' = current + 1
            /\ Throw("surrogate", current)

ParseNumber ==
  /\ pc = "value"
  /\ Peek = "Number"
  /\ LET number == Number[tokens[current].raw]
     IN  \/ /\ number # Invalid
            /\ Return(NumberValue(number), current + 1)
            /\ UNCHANGED <<frames, currentDepth>>
         \/ /\ number = Invalid
            /\ Fail("range", current)

RejectValue ==
  /\ pc = "value"
  /\ Peek \in {"RightBrace", "RightBracket", "Colon", "Comma", "EndOfFile"}
  /\ Fail("value", current)

\* The opener is consumed before the depth is checked, so the depth error is
\* reported at the token after it.
RejectDepth ==
  /\ pc = "value"
  /\ Peek \in Openers
  /\ currentDepth >= MaxDepth
  /\ Fail("depth", current + 1)

Enter(frame) ==
  /\ frames' = Append(frames, frame)
  /\ currentDepth' = currentDepth + 1
  /\ current' = current + 1
  /\ pc' = "open"
  /\ UNCHANGED <<tokens, hints, ret, error>>

EnterObject ==
  /\ pc = "value"
  /\ Peek = "LeftBrace"
  /\ currentDepth < MaxDepth
  /\ Enter([type |-> "LeftBrace", members |-> EmptyObject, key |-> Invalid])
  /\ UNCHANGED nextArrayReservation

\* The next hint is taken only if it was computed for this very bracket.
HasHint ==
  /\ nextArrayReservation <= Len(arrayReservations)
  /\ arrayReservations[nextArrayReservation].at = current

\* Mutant: the hint is read without moving on to the next one.
SameHint == nextArrayReservation

AfterHint == IF HasHint THEN nextArrayReservation + 1 ELSE nextArrayReservation

\* capacity is the hint, reserved what has been allocated on its account.
EnterArray ==
  /\ pc = "value"
  /\ Peek = "LeftBracket"
  /\ currentDepth < MaxDepth
  /\ Enter([type |-> "LeftBracket", elements |-> <<>>, reserved |-> 0,
            capacity |-> IF HasHint THEN arrayReservations[nextArrayReservation].size
                                    ELSE 0])
  /\ nextArrayReservation' = AfterHint

(***************************************************************************)
(* parseObject and parseArray, after DepthGuard.                           *)
(***************************************************************************)
Top == Last(frames)
CloserOf(type) == IF type = "LeftBrace" THEN "RightBrace" ELSE "RightBracket"

ContainerValue(frame) == IF frame.type = "LeftBrace" THEN ObjectValue(frame.members)
                                                     ELSE ArrayValue(frame.elements)

\* Mutant: an empty container returns without giving its depth back.
DepthKeptIfEmpty == IF pc = "open" THEN currentDepth ELSE currentDepth - 1

\* ~DepthGuard.
DepthGivenBack == currentDepth - 1

\* The closer is consumed, the activation returns and its DepthGuard with it.
Leave(frame) ==
  /\ Return(ContainerValue(frame), current + 1)
  /\ frames' = Front(frames)
  /\ currentDepth' = DepthGivenBack

CloseEmpty ==
  /\ pc = "open"
  /\ Peek = CloserOf(Top.type)
  /\ Leave(Top)

EnterBody ==
  /\ pc = "open"
  /\ Peek # CloserOf(Top.type)
  /\ Advance(current, IF Top.type = "LeftBrace" THEN "key" ELSE "value")
  /\ UNCHANGED frames

\* The key is unescaped before it is consumed and before the colon is tried.
ParseKey ==
  /\ pc = "key"
  /\ \/ Peek # "String" /\ Fail("key", current)
     \/ /\ Peek = "String"
        /\ LET key == Text[tokens[current].raw]
           IN  \/ key = Invalid /\ Fail("surrogate", current)
               \/ /\ key # Invalid
                  /\ tokens[current + 1].type # "Colon"
                  /\ Fail("colon", current + 1)
               \/ /\ key # Invalid
                  /\ tokens[current + 1].type = "Colon"
                  /\ frames' = SetTop([Top EXCEPT !.key = key])
                  /\ Advance(current + 2, "value")

\* Mutant: assignment in place of emplace, the last member of a name wins.
Assign(members, key, value) == WithMembers(OneMember(key, value), members)

\* map::emplace keeps the member that is already there.
Emplace(members, key, value) == WithMembers(members, OneMember(key, value))

\* The value just returned is stored.  An array allocates its hint when its
\* first element arrives.
Stored ==
  IF Top.type = "LeftBrace"
  THEN [Top EXCEPT !.members = Emplace(@, Top.key, ret)]
  ELSE [Top EXCEPT !.elements = Append(@, ret),
                   !.reserved = IF Top.elements = <<>> THEN Top.capacity ELSE @]

CloseContainer ==
  /\ pc = "return"
  /\ frames # <<>>
  /\ Peek = CloserOf(Top.type)
  /\ Leave(Stored)

NextElement ==
  /\ pc = "return"
  /\ frames # <<>>
  /\ Peek = "Comma"
  /\ frames' = SetTop(Stored)
  /\ Advance(current + 1, IF Top.type = "LeftBrace" THEN "key" ELSE "value")

\* Mutant: the token is consumed before the error is raised.
RejectSeparatorLate ==
  /\ pc = "return"
  /\ frames # <<>>
  /\ Peek \notin {CloserOf(Top.type), "Comma"}
  /\ Fail("comma", current + 1)

RejectSeparator ==
  /\ pc = "return"
  /\ frames # <<>>
  /\ Peek \notin {CloserOf(Top.type), "Comma"}
  /\ Fail("comma", current)

(***************************************************************************)
(* parse(), after its parseValue returned.                                 *)
(***************************************************************************)
\* Mutant: what follows the value is not looked at.
FinishAnywhere ==
  /\ pc = "return"
  /\ frames = <<>>
  /\ Advance(current, "done")
  /\ UNCHANGED frames

Finish ==
  /\ pc = "return"
  /\ frames = <<>>
  /\ Peek = "EndOfFile"
  /\ Advance(current, "done")
  /\ UNCHANGED frames

RejectTrailing ==
  /\ pc = "return"
  /\ frames = <<>>
  /\ Peek # "EndOfFile"
  /\ Fail("trailing", current)

\* parse() has returned or thrown; nothing is left to run.
Ended ==
  /\ pc \in {"done", "failed"}
  /\ UNCHANGED vars

Parse ==
  \/ RejectStream \/ Construct
  \/ ScanGiveUp \/ ScanOpener \/ ScanCloser \/ ScanComma \/ ScanOther \/ ScanEnd
  \/ ParseLiteral \/ ParseString \/ ParseNumber \/ RejectValue
  \/ RejectDepth \/ EnterObject \/ EnterArray
  \/ CloseEmpty \/ EnterBody \/ ParseKey
  \/ CloseContainer \/ NextElement \/ RejectSeparator
  \/ Finish \/ RejectTrailing

Next == Parse \/ Ended

\* A call of parse() runs until it returns or throws.
Spec == Init /\ [][Next]_vars /\ WF_vars(Parse)

-----------------------------------------------------------------------------
Running == pc \in {"value", "open", "key", "return"}

ObjectFrame(f) == f.type = "LeftBrace" /\ DOMAIN f = {"type", "members", "key"}
ArrayFrame(f) ==
  /\ f.type = "LeftBracket"
  /\ DOMAIN f = {"type", "elements", "capacity", "reserved"}
  /\ f.capacity \in Nat /\ f.reserved \in {0, f.capacity}

\* The types of the variables.  The parser stays on the tokens: the token it
\* looks at exists at every step of a run, so tokens.at(current) never throws.
TypeOK ==
  /\ tokens \in Seq(Token)
  /\ pc \in {"construct", "scan", "value", "open", "key", "return", "done", "failed"}
  /\ current \in Nat
  /\ Running => current \in DOMAIN tokens
  /\ currentDepth \in 0..MaxDepth
  /\ scanAt \in 1..(Len(tokens) + 1)
  /\ nextArrayReservation \in 1..(Len(arrayReservations) + 1)
  /\ \A i \in DOMAIN frames : ObjectFrame(frames[i]) \/ ArrayFrame(frames[i])

\* Every DepthGuard is released exactly once, whether its container is empty,
\* is closed or is left by an exception: the depth is the number of openers
\* not yet closed among the tokens consumed, and nothing once parse() is over.
Count(types, n) == Cardinality({i \in 1..n : tokens[i].type \in types})

DepthIsNesting ==
  /\ Running => Count(Openers, current - 1) = Count(Closers, current - 1) + currentDepth
  /\ ~Running => currentDepth = 0

\* The hints stay aligned with the brackets the parser meets: once hints have
\* been computed, no array is closed whose hint was not exactly the number of
\* its elements, however arrays and objects nest.  So no array grows past the
\* allocation its hint bought, and none buys more than it uses.
Closing == pc \in {"open", "return"} /\ pc' = "return" /\ Len(frames') < Len(frames)

HintsExact ==
  [][Closing /\ Top.type = "LeftBracket" /\ arrayReservations # <<>>
       => Top.capacity = Len(ret'.elements)]_vars

\* The scan gives up only on streams that parse() refuses: in a document with a
\* comma, whatever its depth, every array has met a hint of its own.
EveryArrayHinted ==
  pc = "done" /\ SourceHasComma /\ current = Len(tokens)
    => nextArrayReservation = Count({"LeftBracket"}, Len(tokens)) + 1

\* What may complete the beginning p of a document: what is missing of a value
\* or a member, the brackets that are open, and EOF; or nothing.
Rests ==
  LET null == [type |-> "Null"]
      colon == [type |-> "Colon"]
  IN  {<<>>, <<null>>, <<colon, null>>} \cup {<<key, colon, null>> : key \in [type : {"String"}, raw : Strings]}
Among(p, types) == Cardinality({i \in DOMAIN p : p[i].type \in types})
BracketsFor(p) == [1..(Among(p, Openers) - Among(p, Closers)) -> [type : Closers]]
Completion(rest, brackets) == rest \o brackets \o <<[type |-> "EndOfFile"]>>
Completions(p) ==
  {<<>>} \cup {Completion(rest, brackets) : rest \in Rests, brackets \in BracketsFor(p)}
IsBeginning(p) == \E rest \in Completions(p) : IsDocument(p \o rest)

\* The exception points at the first token that no continuation can repair:
\* everything before it is the beginning of some document, and with it no
\* longer.  (The depth is checked one token after the bracket too many.)
ErrorAtFirstBadToken ==
  pc = "failed" /\ error.why # "no EOF" =>
    LET bad == IF error.why = "depth" THEN error.at - 1 ELSE error.at
    IN  IsBeginning(SubSeq(tokens, 1, bad - 1)) /\ ~IsBeginning(SubSeq(tokens, 1, bad))
=============================================================================
