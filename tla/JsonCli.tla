------------------------------ MODULE JsonCli -------------------------------
(***************************************************************************)
(* JsonCli and JsonFile: one call of main(), or of JsonFile::write(), with *)
(* the files and streams it reads and writes.  Any operation on them may   *)
(* fail, and the process may be killed between any two.                    *)
(*                                                                         *)
(* A text is a sequence of blocks, large enough for a write to stop in its *)
(* middle: the texts in Documents are valid JSON and no other text is, as  *)
(* it is with objects and arrays.  pc says what main() is about to do:     *)
(*   "options"   parseOptions       "open input", "read"  readInput        *)
(*   "parse"     JsonParser::parse  "serialize"  the text is to be written *)
(*   "open output", "put", "flush", "close"   writeOutput, or write        *)
(*   "exited"    status is set      "killed"     it never will be          *)
(***************************************************************************)
EXTENDS Naturals, Sequences, SequencesExt

CONSTANTS
  Paths,         \* names of files
  Texts,         \* texts a file or the standard input holds to begin with
  Documents,     \* those that are valid JSON
  Missing,       \* the text of a file there is not
  Disks,         \* what the files may be to begin with
  Pretty,        \* what a document is formatted as ...
  Compact,       \* ... and formatted as with --compact
  CommandLines   \* what follows the name of the program

ASSUME CliAssumption ==
  /\ {Pretty, Compact} \subseteq Documents
  /\ Disks \subseteq [Paths -> Texts \cup {Missing}]
  /\ Missing \notin Texts \cup Documents
  /\ \A t \in Texts \cup Documents \cup CommandLines : t \in Seq(ToSet(t))

VARIABLES
  args, options, pc, status,
  disk, stdin, stdout,
  unread,    \* blocks of the input still to be read
  text,      \* what has been read, then what is to be written
  buffer,    \* written to the output stream and not yet to its file
  bad,       \* state of that stream
  before,    \* the disk when the call began, and ...
  content,   \* ... the text of its input, for the properties
  fault      \* whether an operation on a file or a stream has failed

vars == <<args, options, pc, status, disk, stdin, stdout, unread, text, buffer, bad,
          before, content, fault>>

constantly == <<args, stdin, before>>   \* never changed

Empty == ""

(***************************************************************************)
(* status is what main() returns.  For JsonFile::write(), Success is that  *)
(* it returns, IoError that it throws FileException, and InternalError     *)
(* that it throws OperationException.                                      *)
(***************************************************************************)
Success == 0
InvalidJson == 1
UsageError == 2
IoError == 3
InternalError == 4
NoStatus == 5
-----------------------------------------------------------------------------
(***************************************************************************)
(* parseOptions: one argument after the other.                             *)
(***************************************************************************)
NoOptions == [command |-> Empty, input |-> Empty, output |-> Empty, compact |-> FALSE]

\* only is positionalOnly; awaits says that the next argument is the output.
FirstOptions(command) ==
  [command |-> command, input |-> Empty, output |-> Empty, compact |-> FALSE,
   only |-> FALSE, awaits |-> FALSE, wrong |-> FALSE]

Wrong(o) == [o EXCEPT !.wrong = TRUE]

\* A mutant of the next: check accepts an output too.
AwaitAnyOutput(o) == IF o.output # Empty THEN Wrong(o) ELSE [o EXCEPT !.awaits = TRUE]

AwaitOutput(o) ==
  IF o.command # "format" \/ o.output # Empty THEN Wrong(o) ELSE [o EXCEPT !.awaits = TRUE]

ReadArgument(o, arg) ==
  IF o.wrong THEN o
  ELSE CASE o.awaits /\ arg = Empty           -> Wrong(o)
         [] o.awaits /\ arg # Empty           -> [o EXCEPT !.output = arg, !.awaits = FALSE]
         [] ~o.awaits /\ ~o.only /\ arg = "--"        -> [o EXCEPT !.only = TRUE]
         [] ~o.awaits /\ ~o.only /\ arg = "--compact" ->
              IF o.command # "format" THEN Wrong(o) ELSE [o EXCEPT !.compact = TRUE]
         [] ~o.awaits /\ ~o.only /\ arg = "-o"        -> AwaitOutput(o)
         [] ~o.awaits /\ ~o.only /\ arg = "-x"        -> Wrong(o)
         [] ~o.awaits /\ (o.only \/ arg \notin {"--", "--compact", "-o", "-x"}) ->
              IF o.input # Empty THEN Wrong(o) ELSE [o EXCEPT !.input = arg]

\* The options behind each word of a line.
Parsed(line) ==
  LET read[k \in 1..Len(line)] ==
        IF k = 1 THEN FirstOptions(line[1]) ELSE ReadArgument(read[k - 1], line[k])
  IN  read

Options(o) == [command |-> o.command, input |-> o.input, output |-> o.output, compact |-> o.compact]

\* The options, or NoOptions for a command line that is refused.
parseOptions(line) ==
  IF line = <<>> \/ Head(line) \notin {"check", "format"} THEN NoOptions
  ELSE LET o == Parsed(line)[Len(line)]
       IN  IF o.wrong \/ o.awaits \/ o.input = Empty THEN NoOptions ELSE Options(o)

Informing(line) == line \in {<<"--help">>, <<"--version">>}
-----------------------------------------------------------------------------
\* main() is called with a command line, or write() with a value, whose text is
\* a document unless the value cannot be serialized.
Unserializable == <<"NaN">>

Init ==
  /\ disk \in Disks
  /\ before = disk
  /\ stdin \in Texts
  /\ stdout = <<>> /\ unread = <<>> /\ content = <<>> /\ buffer = <<>>
  /\ bad = FALSE /\ fault = FALSE
  /\ status = NoStatus
  /\ \/ /\ args \in CommandLines
        /\ options = NoOptions
        /\ text = <<>>
        /\ pc = "options"
     \/ /\ args = <<"write">>
        /\ options \in {[NoOptions EXCEPT !.command = "write", !.output = p] : p \in Paths}
        /\ text \in {Pretty, Unserializable}
        /\ pc = "serialize"

Exit(code) == pc' = "exited" /\ status' = code

\* An operation on a file or a stream fails, and the call with it.
FailIo ==
  /\ Exit(IoError)
  /\ fault' = TRUE

\* Opening either file, reading or closing fails; "-" is opened by setting its
\* mode, on the system that has one.
IoFails ==
  /\ pc \in {"open input", "read", "open output", "close"}
  /\ FailIo
  /\ UNCHANGED <<constantly, options, disk, stdout, unread, text, buffer, bad, content>>

ParseOptions ==
  /\ pc = "options"
  /\ ~Informing(args)
  /\ options' = parseOptions(args)
  /\ IF options' = NoOptions THEN Exit(UsageError) ELSE pc' = "open input" /\ UNCHANGED status
  /\ UNCHANGED <<constantly, disk, stdout, unread, text, buffer, bad, content, fault>>

(***************************************************************************)
(* readInput and JsonFile::read.                                           *)
(***************************************************************************)
\* A mutant of the next: the output is opened together with the input.
OpenBoth ==
  /\ pc = "open input"
  /\ options.input \in {"-"} \cup Paths
  /\ content' = IF options.input = "-" THEN stdin ELSE disk[options.input]
  /\ content' # Missing
  /\ unread' = content'
  /\ disk' = [p \in Paths |-> IF p = options.output THEN <<>> ELSE disk[p]]
  /\ pc' = "read"
  /\ UNCHANGED <<constantly, options, status, stdout, text, buffer, bad, fault>>

OpenInput ==
  /\ pc = "open input"
  /\ options.input \in {"-"} \cup Paths
  /\ content' = IF options.input = "-" THEN stdin ELSE disk[options.input]
  /\ content' # Missing
  /\ unread' = content'
  /\ pc' = "read"
  /\ UNCHANGED <<constantly, options, status, disk, stdout, text, buffer, bad, fault>>

ReadBlock ==
  /\ pc = "read"
  /\ unread # <<>>
  /\ text' = Append(text, Head(unread))
  /\ unread' = Tail(unread)
  /\ UNCHANGED <<constantly, options, pc, status, disk, stdout, buffer, bad, content, fault>>

\* The end of the file, and nothing but the end, ends the reading well.
ReadEnd ==
  /\ pc = "read"
  /\ unread = <<>>
  /\ pc' = "parse"
  /\ UNCHANGED <<constantly, options, status, disk, stdout, unread, text, buffer, bad, content, fault>>

Parse ==
  /\ pc = "parse"
  /\ IF text \in Documents THEN pc' = "serialize" /\ UNCHANGED status ELSE Exit(InvalidJson)
  /\ UNCHANGED <<constantly, options, disk, stdout, unread, text, buffer, bad, content, fault>>

(***************************************************************************)
(* writeOutput and JsonFile::write.                                        *)
(***************************************************************************)
Formatted == IF options.compact THEN Compact ELSE Pretty

Written ==
  CASE options.command = "check"  -> <<"Valid JSON">>
    [] options.command = "format" -> Formatted
    [] options.command = "write"  -> text

\* The file it is written to, or Empty for the standard output.
Output == IF options.command = "check" THEN Empty ELSE options.output

Serialize ==
  /\ pc = "serialize"
  /\ IF text = Unserializable
     THEN Exit(InternalError) /\ UNCHANGED text
     ELSE /\ text' = Written
          /\ pc' = IF Output = Empty THEN "put" ELSE "open output"
          /\ UNCHANGED status
  /\ UNCHANGED <<constantly, options, disk, stdout, unread, buffer, bad, content, fault>>

\* Opening creates the file, or truncates it.
OpenOutput ==
  /\ pc = "open output"
  /\ disk' = [disk EXCEPT ![Output] = <<>>]
  /\ pc' = "put"
  /\ UNCHANGED <<constantly, options, status, stdout, unread, text, buffer, bad, content, fault>>

\* The stream passes a part of what it holds on to its file.
PassOn(blocks, n) ==
  /\ buffer' = SubSeq(blocks, n + 1, Len(blocks))
  /\ IF Output = Empty
     THEN stdout' = stdout \o SubSeq(blocks, 1, n) /\ UNCHANGED disk
     ELSE disk' = [disk EXCEPT ![Output] = @ \o SubSeq(blocks, 1, n)] /\ UNCHANGED stdout

\* Output goes to the stream's buffer; if that overflows, some of it goes on,
\* or the stream turns bad, which nobody looks at yet.
Put ==
  /\ pc = "put"
  /\ \E n \in 0..Len(text) : PassOn(text, n)
  /\ bad' \in BOOLEAN
  /\ fault' = (fault \/ bad')
  /\ pc' = "flush"
  /\ UNCHANGED <<constantly, options, status, unread, text, content>>

\* --help and --version: the stream is asked whether it is bad, not flushed.
Inform ==
  /\ pc = "options"
  /\ Informing(args)
  /\ \E n \in 0..Len(args) : PassOn(args, n)
  /\ bad' \in BOOLEAN
  /\ fault' = bad'
  /\ Exit(IF bad' THEN IoError ELSE Success)
  /\ UNCHANGED <<constantly, options, unread, text, content>>

\* A mutant of the next: the output is not flushed before the stream is asked.
FlushNothing ==
  /\ pc = "flush"
  /\ ~bad
  /\ IF Output = Empty THEN Exit(Success) ELSE pc' = "close" /\ UNCHANGED status
  /\ UNCHANGED <<constantly, options, disk, stdout, unread, text, buffer, bad, content, fault>>

Flush ==
  /\ pc = "flush"
  /\ ~bad
  /\ PassOn(buffer, Len(buffer))
  /\ IF Output = Empty THEN Exit(Success) ELSE pc' = "close" /\ UNCHANGED status
  /\ UNCHANGED <<constantly, options, unread, text, bad, content, fault>>

\* A bad stream passes nothing on, one that turns bad some of it; the stream's
\* destructor may pass on some more.
FlushFails ==
  /\ pc = "flush"
  /\ \E n \in 0..Len(buffer) : PassOn(buffer, n)
  /\ bad' = TRUE
  /\ FailIo
  /\ UNCHANGED <<constantly, options, unread, text, content>>

Close ==
  /\ pc = "close"
  /\ Exit(Success)
  /\ UNCHANGED <<constantly, options, disk, stdout, unread, text, buffer, bad, content, fault>>

\* The process is killed; what its streams still hold is lost.
Kill ==
  /\ pc \notin {"exited", "killed"}
  /\ pc' = "killed"
  /\ buffer' = <<>>
  /\ UNCHANGED <<constantly, options, status, disk, stdout, unread, text, bad, content, fault>>

\* At exit the standard output is flushed, and nobody is told if that fails.
FlushAtExit ==
  /\ pc = "exited"
  /\ Output = Empty /\ buffer # <<>> /\ ~bad
  /\ \E n \in 0..Len(buffer) :
       /\ stdout' = stdout \o SubSeq(buffer, 1, n)
       /\ fault' = (fault \/ n < Len(buffer))
  /\ buffer' = <<>>
  /\ UNCHANGED <<constantly, options, pc, status, disk, unread, text, bad, content>>

Next ==
  \/ Inform \/ ParseOptions
  \/ OpenInput \/ ReadBlock \/ ReadEnd \/ Parse \/ Serialize
  \/ OpenOutput \/ Put \/ Flush \/ FlushFails \/ Close
  \/ IoFails \/ Kill \/ FlushAtExit

Spec == Init /\ [][Next]_vars
-----------------------------------------------------------------------------
\* Whatever happens, and wherever the process is killed, no file changes but
\* the output, which keeps its text until the whole input has been read, found
\* valid and formatted; from then on it holds a beginning of the new text.
Readable == IF options.command = "write" THEN text # Unserializable ELSE content \in Documents

FilesSafe ==
  \A p \in Paths :
    \/ disk[p] = before[p]
    \/ p = Output /\ Readable /\ IsPrefix(disk[p], Formatted)

\* The exit status tells the truth: 0 that the complete result is where it was
\* asked for, and nowhere else; 1 that the input, all of it, is not JSON; 3
\* that some operation failed, and whenever one did; and unless something was
\* to be written, nothing has been.
Delivered ==
  IF Output = Empty
  THEN disk = before /\ stdout = Written
  ELSE disk = [before EXCEPT ![Output] = Formatted] /\ stdout = <<>>

StatusTells ==
  pc = "exited" /\ ~Informing(args) =>
    /\ status = Success => Readable /\ Delivered
    /\ status = InvalidJson => content \notin Documents
    /\ status \in {InvalidJson, UsageError, InternalError} => disk = before /\ stdout = <<>>
    /\ status = IoError <=> fault

(***************************************************************************)
(* The usage text: a line is one of                                        *)
(*     check INPUT                                                         *)
(*     format [--compact] [-o FILE] INPUT                                  *)
(* with the options before or after INPUT, and nothing but inputs after    *)
(* "--"; inputs that are empty do not count before the one that does.  The *)
(* word at o is the -o of the line, the one at end its "--" and the one at *)
(* i its INPUT; o is 0, and end behind the line, where it has none.        *)
(***************************************************************************)
InOptions(o, end, k) == k \in 2..(end - 1) /\ k \notin {o, o + 1}

InputsOf(line, o, end) ==
  {k \in 2..Len(line) : (InOptions(o, end, k) /\ line[k] # "--compact") \/ k > end}

Used(line, o, end, i) ==
  /\ line[1] \in {"check", "format"}
  /\ o # 0 => line[1] = "format" /\ line[o] = "-o" /\ line[o + 1] # Empty /\ o + 1 < end
  /\ end <= Len(line) => line[end] = "--"
  /\ \A k \in 2..Len(line) : InOptions(o, end, k) =>
       line[k] \notin {"--", "-o", "-x"} /\ (line[k] = "--compact" => line[1] = "format")
  /\ i \in InputsOf(line, o, end) /\ line[i] # Empty
  /\ \A k \in InputsOf(line, o, end) \ {i} : k < i /\ line[k] = Empty

Meant(line, o, end, i) ==
  [command |-> line[1], input |-> line[i],
   output  |-> IF o = 0 THEN Empty ELSE line[o + 1],
   compact |-> \E k \in 2..Len(line) : InOptions(o, end, k) /\ line[k] = "--compact"]

\* The options are those the usage text gives the command line, and a command
\* line is refused when the usage text gives it none: parseOptions reads it from
\* left to right, and knows neither the whole line nor the order of its options.
OptionsByUsage ==
  pc \notin {"options", "killed"} /\ args # <<"write">> /\ ~Informing(args) =>
    LET n == Len(args)
    IN  IF options = NoOptions
        THEN \A o \in 0..(n - 1), end \in 2..(n + 1), i \in 2..n : ~Used(args, o, end, i)
        ELSE \E o \in 0..(n - 1), end \in 2..(n + 1), i \in 2..n :
               Used(args, o, end, i) /\ options = Meant(args, o, end, i)

\* "Exit codes: 0 success, [...] 3 I/O error": an operation that failed shows
\* in the status, whatever the command line asked for.
FaultsReported == pc = "exited" /\ fault => status = IoError
=============================================================================
