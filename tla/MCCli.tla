------------------------------- MODULE MCCli --------------------------------
(* JsonCli for TLC: command lines, and small texts and disks.               *)
EXTENDS JsonCli, FiniteSets

CONSTANT LineLength   \* of a command line, the command apart

MCDocument == <<"[", "]">>
MCPretty   == <<"pretty [", "pretty ]">>
MCCompact  == <<"compact [", "compact ]">>
MCTexts    == {MCDocument, <<"[", "]", "]">>}   \* the second begins with a document
MCDocuments == {MCDocument, MCPretty, MCCompact}

\* "-" names a file only as the output.
Arguments == {"file", "-", "", "--", "-o", "--compact", "-x"}

\* Files of the other names come into being as outputs only.
MCDisks ==
  {d \in [Arguments \ {Empty} -> MCTexts \cup {Missing}] :
     \A p \in Arguments \ {Empty, "file", "-"} : d[p] = Missing}

\* Lines long enough for a second output.
LongerLines ==
  {<<"format">> \o words : words \in
     {w \in [1..(LineLength + 1) -> {"-o", "file", "--compact"}] : Cardinality({i \in DOMAIN w : w[i] = "-o"}) >= 2}}

MCCommandLines ==
  {<<>>, <<"--help">>, <<"--version">>, <<"--help", "file">>, <<"chekc", "file">>}
    \cup {<<command>> \o words : command \in {"check", "format"}, words \in BoundedSeq(Arguments, LineLength)}
    \cup LongerLines
=============================================================================
