------------------------------ MODULE Lexemes -------------------------------
(***************************************************************************)
(* The lexical grammar of JSON, written down without the lexer: which byte *)
(* sequences are numbers, strings and words, and which texts are lexemes   *)
(* with white space between them, each with its tokens.  Texts are built   *)
(* from shorter texts; nothing here reads a text from left to right.       *)
(***************************************************************************)
EXTENDS LexicalGrammar

\* All sequences of one to n bytes of a set, and concatenations up to n bytes.
Words(bytes, n) == BoundedSeq(bytes, n) \ {<<>>}
Joined(A, B, n) == {s \in {a \o b : a \in A, b \in B} : Len(s) <= n}

Numbers(bytes, n) ==
  LET digits   == Words(bytes \cap Digit, n)
      integer  == {d \in digits : Len(d) = 1 \/ d[1] # 48}
      signed   == Joined({<<>>, <<45>>}, integer, n)
      fraction == {<<>>} \cup Joined({<<46>>}, digits, n)
      power    == Joined({<<101>>, <<69>>}, Joined({<<>>, <<43>>, <<45>>}, digits, n), n)
  IN  Joined(Joined(signed, fraction, n), {<<>>} \cup power, n)

\* The well-formed encodings of a character outside ASCII (Unicode, table 3-7).
Trail == 128..191
Encodings ==
  {<<194..223, Trail>>, <<{224}, 160..191, Trail>>, <<225..236, Trail, Trail>>,
   <<{237}, 128..159, Trail>>, <<238..239, Trail, Trail>>,
   <<{240}, 144..191, Trail, Trail>>, <<241..243, Trail, Trail, Trail>>,
   <<{244}, 128..143, Trail, Trail>>}

\* What the inside of a string is made of: characters and escapes.
Pieces(bytes, hexDigits) ==
  {<<b>> : b \in bytes \cap ((32..127) \ {34, 92})}
  \cup {s \in BoundedSeq(bytes \cap (128..255), 4) :
          \E e \in Encodings : Len(e) = Len(s) /\ \A i \in DOMAIN s : s[i] \in e[i]}
  \cup {<<92, b>> : b \in bytes \cap {34, 47, 92, 98, 102, 110, 114, 116}}
  \cup {<<92, 117>> \o h : h \in [1..hexDigits -> bytes \cap (Digit \cup HexLetters)]}

Contents(bytes, hexDigits, n) ==
  LET pieces == Pieces(bytes, hexDigits)
      longer(levels, k) ==
        UNION {{c \o p : c \in levels[k + 1 - Len(p)]} : p \in {q \in pieces : Len(q) <= k}}
      levels == FoldLeft(LAMBDA ls, k : Append(ls, longer(ls, k)), <<{<<>>}>>,
                         [k \in 1..n |-> k])
  IN  UNION Range(levels)

Lexeme(type, text, skip) == [type |-> type, text |-> text, skip |-> skip]

Punctuators ==
  {Lexeme("LeftBrace", <<123>>, 0), Lexeme("RightBrace", <<125>>, 0),
   Lexeme("LeftBracket", <<91>>, 0), Lexeme("RightBracket", <<93>>, 0),
   Lexeme("Colon", <<58>>, 0), Lexeme("Comma", <<44>>, 0)}

Literal ==
  {Lexeme("True", <<116, 114, 117, 101>>, 0), Lexeme("False", <<102, 97, 108, 115, 101>>, 0),
   Lexeme("Null", <<110, 117, 108, 108>>, 0)}

\* skip is what a token leaves out at either end of its lexeme: the quotes.
AllLexemes(bytes, hexDigits, n) ==
  {l \in Punctuators \cup Literal : ToSet(l.text) \subseteq bytes}
  \cup {Lexeme("Number", s, 0) : s \in Numbers(bytes, n)}
  \cup (IF n < 2 \/ 34 \notin bytes THEN {}
        ELSE {Lexeme("String", <<34>> \o c \o <<34>>, 1) : c \in Contents(bytes, hexDigits, n - 2)})

TokenOf(lexeme, at) ==
  [type |-> lexeme.type, position |-> at, start |-> at + lexeme.skip,
   length |-> Len(lexeme.text) - 2 * lexeme.skip]

\* A number is not cut short before a digit, nor a word before a letter.
MayFollow(t, lexeme) ==
  \/ t.tokens = <<>>
  \/ LET last == Last(t.tokens)
         touches == last.start + last.length = Len(t.text)
     IN  /\ touches /\ last.type = "Number" => lexeme.text[1] \notin Digit
         /\ touches /\ last.type \in {"True", "False", "Null"} => lexeme.text[1] \notin Letters

\* The texts of k bytes with their tokens, given those of 0 to k - 1 bytes.
OneMore(levels, lexemes, bytes, k) ==
  {[t EXCEPT !.text = Append(@, b)] : t \in levels[k], b \in bytes \cap Blank}
  \cup UNION {{[text |-> t.text \o l.text, tokens |-> Append(t.tokens, TokenOf(l, k - Len(l.text)))]
               : t \in {u \in levels[k + 1 - Len(l.text)] : MayFollow(u, l)}}
              : l \in {m \in lexemes : Len(m.text) <= k}}

TextsOf(bytes, hexDigits, n) ==
  LET lexemes == AllLexemes(bytes, hexDigits, n)
      levels == FoldLeft(LAMBDA ls, k : Append(ls, OneMore(ls, lexemes, bytes, k)),
                         <<{[text |-> <<>>, tokens |-> <<>>]}>>, [k \in 1..n |-> k])
  IN  UNION Range(levels)
=============================================================================
