------------------------------ MODULE MCParser ------------------------------
(***************************************************************************)
(* JsonParser on small inputs, beside the grammar of JsonGrammar, which    *)
(* says what the inputs mean.  Two families of inputs: all short streams   *)
(* over every kind of token, whether or not a lexer can produce them, and  *)
(* the documents of a smaller alphabet together with those one token off.  *)
(***************************************************************************)
EXTENDS JsonParser, JsonGrammar

CONSTANTS
  StreamLength,    \* tokens of an exhaustive stream, at most, its EOF not counted
  DocumentLength   \* tokens of a document, at most, its EOF not counted

\* Raw strings: two spellings of one name, one of them with a comma in it,
\* and an unpaired surrogate.  Numbers: one in range and one out of it.
MCText == [a |-> "A", u0061 |-> "A", surrogate |-> Invalid]
MCNumber == [one |-> 1, huge |-> Invalid]

StringToken(raw) == [type |-> "String", raw |-> raw]
NumberToken(raw) == [type |-> "Number", raw |-> raw]

Eof == Tok("EndOfFile")

\* The tokens a family of inputs is made of.
Vocabulary(literals, strings, numerals) ==
  {Tok(type) : type \in (Structural \ (Literals \cup {"EndOfFile"})) \cup literals}
  \cup {StringToken(s) : s \in strings} \cup {NumberToken(n) : n \in numerals}
StreamTokens == Vocabulary({"True", "Null"}, {"a", "surrogate"}, {"one", "huge"})
DocumentTokens == Vocabulary({"Null"}, {"a", "u0061"}, {})

\* What these tokens spell: names, documents of one token, and all documents.
Keys(vocabulary) ==
  {[token |-> t, key |-> Text[t.raw]]
   : t \in {s \in vocabulary : s.type = "String" /\ Text[s.raw] # Invalid}}
Scalars(vocabulary) ==
  UNION {{Doc(<<t>>, v, 0) : v \in Denoted(t)} : t \in vocabulary}
Spelled(vocabulary, depth, length) ==
  Documents(Scalars(vocabulary), Keys(vocabulary), depth, length)

\* Every stream of at most StreamLength tokens and an EOF, as the lexer ends
\* them, and those streams without one, for the constructor to refuse.
Streams ==
  LET unended == BoundedSeq(StreamTokens, StreamLength)
  IN  unended \cup {Append(s, Eof) : s \in unended}

\* The documents, those one level too deep included, and with them every
\* stream that has one token less or one token changed.  To keep them few, a
\* string with a comma in it is not an element nor a member's value here.
Elementary == {d \in Scalars(DocumentTokens) : d.text[1] \notin {StringToken(s) : s \in Commas}}
WellFormed ==
  {d.text : d \in Documents(Elementary, Keys(DocumentTokens), MaxDepth + 1, DocumentLength)}

Edits(text) ==
  {RemoveAt(text, i) : i \in DOMAIN text}
  \cup {ReplaceAt(text, i, t) : i \in DOMAIN text, t \in DocumentTokens}

DocumentsAndEdits ==
  {Append(t, Eof) : t \in UNION {{text} \cup Edits(text) : text \in WellFormed}}

MCInputs == Streams \cup DocumentsAndEdits

\* Every input that is a document is one of these.
Language ==
  Spelled(StreamTokens, MaxDepth, StreamLength) \cup Spelled(DocumentTokens, MaxDepth, DocumentLength)

-----------------------------------------------------------------------------
Sentences == {Append(d.text, Eof) : d \in Language}
Meaning == {<<Append(d.text, Eof), d.value>> : d \in Language}

\* The documents and their values are those of SyntaxGrammar, too.
ASSUME GrammarsAgree == \A d \in Language : Document(Append(d.text, Eof), Len(d.text) + 1, d.value)

\* parse() answers every stream: with the value the grammar gives it, the
\* first member of a name counting, or with an exception when the grammar
\* gives none, because of its structure, its depth, a number or a surrogate.
Outcome == INSTANCE TextPass WITH
  text <- tokens,
  outcome <- IF pc = "done" THEN [kind |-> "accepted", value |-> ret]
             ELSE [kind |-> IF pc = "failed" THEN "rejected" ELSE "pending"]

ImplementsTextPass == Outcome!Spec
=============================================================================
