----------------------------- MODULE Diagnostics -----------------------------
(***************************************************************************)
(* DiagnosticFormatter: the message of an exception shows a line of the    *)
(* source and, below it, a caret in the column of the error.  The lines    *)
(* are counted here once more, by std::getline.                            *)
(***************************************************************************)
EXTENDS Naturals, Sequences

LineEnd == 10

\* Mutant: the first line has number 0.
FirstIsZero == [number |-> 0, text |-> <<>>]

FirstLine == [number |-> 1, text |-> <<>>]

\* One more byte of the source; text is what there is so far of the target.
Scan(state, byte, target) ==
  IF byte = LineEnd THEN [state EXCEPT !.number = @ + 1]
  ELSE IF state.number = target THEN [state EXCEPT !.text = Append(@, byte)]
  ELSE state

\* Where the scan stands behind each byte.
Scanned(source, target) ==
  LET state[k \in 0..Len(source)] ==
        IF k = 0 THEN FirstLine ELSE Scan(state[k - 1], source[k], target)
  IN  state

\* Nothing if there is no such line, or nothing on it.
getLine(source, target) == Scanned(source, target)[Len(source)].text

\* The line shown, and the byte of it above the caret; None behind its last one.
None == 256
Marked(source, line, column) ==
  LET shown == getLine(source, line)
  IN  IF column \in DOMAIN shown THEN shown[column] ELSE None
=============================================================================
