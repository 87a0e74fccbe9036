--------------------------- MODULE UmbraConnector ---------------------------
(***************************************************************************)
(* factDB/algebra/visitors/umbra/UmbraConnector: a database process that   *)
(* is given commands through one pipe and read from another.  Nothing in   *)
(* what it writes tells where the answer to a command ends: the connector  *)
(* takes it to end where a read ends with the end of a line.               *)
(*                                                                         *)
(* A character is the number of the command that it answers, 0 for the     *)
(* greeting, whether it is of a header and whether it ends a line.  An     *)
(* answer is a header line and the lines of the result: one for a count,   *)
(* any number for the query of a Print.  A count is the number of its      *)
(* digits.                                                                 *)
(***************************************************************************)
EXTENDS Integers, Sequences, SequencesExt

CONSTANTS
  Results,     \* the results that commands may have: per character, whether it ends a line
  Buffer,      \* the characters that one read takes; 255 in the code
  WritesWhole, \* whether the child writes an answer with one write
  MaxCommands  \* bound: commands

ASSUME ResultsAssumption == Results \subseteq Seq(BOOLEAN)
ASSUME BufferAssumption == Buffer \in Nat \ {0}
ASSUME WritesWholeAssumption == WritesWhole \in BOOLEAN

VARIABLES
  childAlive, \* whether the child runs
  commands,   \* pipeInput: the numbers of the commands
  writing,    \* what the child has still to write
  pipe,       \* pipeOutput: characters
  pipePc,     \* "startup", "idle", "read", "exited" or "killed"
  sent,       \* the number of the last command
  output,     \* what was read for it
  expected    \* per command that the child has taken: its whole answer

pipeVars == <<childAlive, commands, writing, pipe, pipePc, sent, output, expected>>

Line(n, length) == [i \in 1 .. length |-> [command |-> n, head |-> n > 0, ends |-> i = length]]
Header(n) == Line(n, 2)
Body(n, result) ==
  [i \in DOMAIN result |-> [command |-> n, head |-> FALSE, ends |-> result[i]]]
Answer(n, result) == Header(n) \o Body(n, result)
Greeting == Line(0, 2)

PipeInit ==
  /\ childAlive = TRUE
  /\ commands = <<>>
  /\ writing = Greeting
  /\ pipe = <<>>
  /\ pipePc = "startup"
  /\ sent = 0
  /\ output = <<>>
  /\ expected = <<>>

EndsLine(text) == text # <<>> /\ Last(text).ends
EndsAnything(text) == text # <<>>
ReadEnds(chunk) == EndsLine(chunk)

\* read() takes what is there, and as much as fits.
CountRead == IF Len(pipe) < Buffer THEN Len(pipe) ELSE Buffer
Chunk == SubSeq(pipe, 1, CountRead)
Rest == SubSeq(pipe, CountRead + 1, Len(pipe))

-----------------------------------------------------------------------------
(* The child.                                                              *)

Take ==
  /\ childAlive
  /\ writing = <<>>
  /\ commands # <<>>
  /\ commands' = Tail(commands)
  /\ \E result \in Results :
       /\ writing' = Answer(Head(commands), result)
       /\ expected' = Append(expected, writing')
  /\ UNCHANGED <<childAlive, pipe, pipePc, sent, output>>

Write ==
  /\ childAlive
  /\ \E n \in 1 .. Len(writing) :
       /\ WritesWhole => n = Len(writing)
       /\ pipe' = pipe \o SubSeq(writing, 1, n)
       /\ writing' = SubSeq(writing, n + 1, Len(writing))
  /\ UNCHANGED <<childAlive, commands, pipePc, sent, output, expected>>

Die ==
  /\ childAlive
  /\ pipePc # "startup"
  /\ childAlive' = FALSE
  /\ UNCHANGED <<commands, writing, pipe, pipePc, sent, output, expected>>

-----------------------------------------------------------------------------
(* The connector.                                                          *)

\* The constructor reads for a second; the child is taken to greet in time.
SkipStartup == UNCHANGED <<pipe, output>>
ReadStartup == pipe' = Rest /\ output' = <<>>
Startup ==
  /\ pipePc = "startup"
  /\ writing = <<>>
  /\ ReadStartup
  /\ pipePc' = IF pipe = <<>> \/ EndsLine(Chunk) THEN "idle" ELSE "startup"
  /\ UNCHANGED <<childAlive, commands, writing, sent, expected>>

Send ==
  /\ pipePc = "idle"
  /\ sent < MaxCommands
  /\ sent' = sent + 1
  /\ output' = <<>>
  /\ IF childAlive THEN pipePc' = "read" /\ commands' = Append(commands, sent')
              ELSE pipePc' = "killed" /\ UNCHANGED commands
  /\ UNCHANGED <<childAlive, writing, pipe, expected>>

Read ==
  /\ pipePc = "read"
  /\ pipe # <<>>
  /\ output' = output \o Chunk
  /\ pipe' = Rest
  /\ pipePc' = IF ReadEnds(Chunk) THEN "idle" ELSE "read"
  /\ UNCHANGED <<childAlive, commands, writing, sent, expected>>

\* Nothing can come any more: read() returns 0.
ReadEnd ==
  /\ pipePc = "read"
  /\ ~childAlive
  /\ pipe = <<>>
  /\ pipePc' = "idle"
  /\ UNCHANGED <<childAlive, commands, writing, pipe, sent, output, expected>>

\* The destructor tells the child to quit and waits for it.
Quit ==
  /\ pipePc = "idle"
  /\ pipePc' = IF childAlive THEN "exited" ELSE "killed"
  /\ childAlive' = FALSE
  /\ UNCHANGED <<commands, writing, pipe, sent, output, expected>>

PipeNext == Take \/ Write \/ Die \/ Startup \/ Send \/ Read \/ ReadEnd \/ Quit

PipeSpec == PipeInit /\ [][PipeNext]_pipeVars

-----------------------------------------------------------------------------
\* parseCountStarResult: the digits between the header and the last character,
\* which is taken for the end of the line; anything else is an exception.
NoCount == -1
HasHeader(text) == text[1].head /\ ~text[1].ends /\ text[2].head /\ text[2].ends
Counted(text) ==
  IF \/ Len(text) < 3
     \/ ~HasHeader(text)
     \/ \E i \in 3 .. Len(text) - 1 : text[i].ends \/ text[i].head
  THEN NoCount
  ELSE Len(text) - 3

\* The digits of a count that is on one line.
CountOf(n) == Len(expected[n]) - 3

-----------------------------------------------------------------------------
Answered == pipePc = "idle" /\ sent > 0

\* "Break the loop if we have read the expected output": what was read for a
\* command is its whole answer, unless the child died over it.
OutputWhole == Answered /\ childAlive => Len(expected) = sent /\ output = expected[sent]

\* If the count of a command is taken from its output at all, it is the right
\* one, be the child alive or not.
CountRight ==
  Answered /\ Counted(output) # NoCount =>
    Len(expected) = sent /\ Counted(output) = CountOf(sent)

\* A read may end with a line of the answer that is not the last one: where a full
\* buffer ends, and anywhere if the child writes the answer in parts.
Risky(text) ==
  \E i \in 1 .. Len(text) - 1 : text[i].ends /\ (WritesWhole => i % Buffer = 0)

\* Until the first answer that a read can cut, no part of an answer is taken for
\* another one, whatever the answers' lines and whenever the child dies.
AnswersMatch ==
  (\A n \in 1 .. Len(expected) : ~Risky(expected[n])) => OutputWhole /\ CountRight
=============================================================================
