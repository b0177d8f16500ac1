----------------------------- MODULE RunCommand -----------------------------
(***************************************************************************)
(* The command run of interpreter.c in batch mode: the shell forks, the    *)
(* child becomes another program or fails to, and the shell waits for it.  *)
(*                                                                         *)
(* Parent and child are processes of their own.  They share the offset of  *)
(* the standard input, but each has the buffers of the C library for       *)
(* itself: the child starts with copies of what the shell has read and not *)
(* yet used, and of what it has printed and not yet written.  Lines are    *)
(* numbered; a line and the output it causes have the same number.         *)
(***************************************************************************)
EXTENDS Integers, FiniteSets, SequencesExt

CONSTANTS
  Length,    \* the number of lines of the input
  BlockSize, \* lines that one read of the input takes into a buffer
  OutSize    \* lines that the buffer of the output can hold

ASSUME RunAssumption ==
  Length \in Nat /\ BlockSize \in Nat \ {0} /\ OutSize \in Nat \ {0}

VARIABLES
  input,            \* input[n]: what line n is, "print" or "run"
  offset,           \* lines of the input read so far, by whatever process
  taken,            \* lines that the shell has interpreted or a program has read
  unread,           \* the shell's input buffer: lines read and not interpreted
  unwritten,        \* the shell's output buffer
  printed,          \* lines whose command, or the program it runs, has printed
  written,          \* their output, as far as it has been written and in that order
  phase,            \* the shell: "read", "run", "wait" or "exited"
  line,             \* the line it has read last
  child,            \* "none", "forked", "program", "failed", "closed" or "ended"
  child_unread,     \* the child's copies of the buffers
  child_unwritten

shellVars == <<unread, unwritten, phase, line>>
childVars == <<child, child_unread, child_unwritten>>
vars == <<input, offset, taken, printed, written, shellVars, childVars>>
-----------------------------------------------------------------------------
Lines == 1 .. Length
FromTo(i, j) == [k \in 1 .. j - i + 1 |-> i + k - 1]
LastBlock == IF offset + BlockSize <= Length THEN offset + BlockSize ELSE Length

\* What has been written when the buffer s is flushed.
Flushed(s) == written \o s

Init ==
  /\ input \in [Lines -> {"print", "run"}]
  /\ offset = 0 /\ taken = {} /\ printed = {} /\ written = <<>>
  /\ unread = <<>> /\ unwritten = <<>> /\ phase = "read" /\ line = 0
  /\ child = "none" /\ child_unread = <<>> /\ child_unwritten = <<>>

\* fgets with an empty buffer reads a block ...
FillBuffer ==
  /\ phase = "read" /\ unread = <<>> /\ offset < Length
  /\ unread' = FromTo(offset + 1, LastBlock)
  /\ offset' = LastBlock
  /\ UNCHANGED <<input, taken, printed, written, unwritten, phase, line, childVars>>

\* ... and otherwise takes a line out of the buffer.  A command other than run
\* prints, into the buffer of the output.
TakeLine ==
  /\ phase = "read" /\ unread # <<>>
  /\ line' = Head(unread)
  /\ unread' = Tail(unread)
  /\ taken' = taken \cup {line'}
  /\ IF input[line'] = "run" THEN phase' = "run" /\ UNCHANGED <<printed, unwritten, written>>
     ELSE /\ UNCHANGED phase
          /\ printed' = printed \cup {line'}
          /\ IF Len(unwritten) < OutSize
             THEN unwritten' = Append(unwritten, line') /\ UNCHANGED written
             ELSE unwritten' = <<line'>> /\ written' = Flushed(unwritten)
  /\ UNCHANGED <<input, offset, childVars>>

\* The end of the input: main returns, which flushes the output.
EndOfInput ==
  /\ phase = "read" /\ unread = <<>> /\ offset = Length
  /\ phase' = "exited"
  /\ written' = Flushed(unwritten) /\ unwritten' = <<>>
  /\ UNCHANGED <<input, offset, taken, printed, unread, line, childVars>>

\* Three broken Forks, without the flush ...
ForkUnflushed ==
  /\ phase = "run"
  /\ phase' = "wait"
  /\ child' = "forked" /\ child_unread' = unread /\ child_unwritten' = unwritten
  /\ UNCHANGED <<input, offset, taken, printed, written, unread, unwritten, line>>

\* ... or throwing away what should be flushed ...
ForkDiscarding ==
  /\ phase = "run"
  /\ unwritten' = <<>>
  /\ phase' = "wait"
  /\ child' = "forked" /\ child_unread' = unread /\ child_unwritten' = <<>>
  /\ UNCHANGED <<input, offset, taken, printed, written, unread, line>>

\* ... or without waiting for the child.
ForkUnawaited ==
  /\ phase = "run"
  /\ written' = Flushed(unwritten) /\ unwritten' = <<>>
  /\ phase' = "read"
  /\ child' = "forked" /\ child_unread' = unread /\ child_unwritten' = <<>>
  /\ UNCHANGED <<input, offset, taken, printed, unread, line>>

\* run: the output is flushed, and the shell is forked ...
Fork ==
  /\ phase = "run"
  /\ written' = Flushed(unwritten) /\ unwritten' = <<>>
  /\ phase' = "wait"
  /\ child' = "forked" /\ child_unread' = unread /\ child_unwritten' = <<>>
  /\ UNCHANGED <<input, offset, taken, printed, unread, line>>

\* ... or cannot be.
ForkFails ==
  /\ phase = "run"
  /\ written' = Flushed(unwritten) /\ unwritten' = <<>>
  /\ phase' = "read"
  /\ UNCHANGED <<input, offset, taken, printed, unread, line, childVars>>

\* waitpid.
Wait ==
  /\ phase = "wait" /\ child = "ended"
  /\ phase' = "read" /\ child' = "none"
  /\ UNCHANGED <<input, offset, taken, printed, written, unread, unwritten, line, child_unread,
                 child_unwritten>>
-----------------------------------------------------------------------------
\* execvp replaces the child and its buffers by the program, or returns.
Exec ==
  /\ child = "forked"
  /\ \/ child' = "program" /\ child_unread' = <<>> /\ child_unwritten' = <<>>
     \/ child' = "failed" /\ UNCHANGED <<child_unread, child_unwritten>>
  /\ UNCHANGED <<input, offset, taken, printed, written, shellVars>>

\* The program may read the input on, and ends with its output.
ProgramReads ==
  /\ child = "program" /\ offset < Length
  /\ offset' = LastBlock
  /\ taken' = taken \cup offset + 1 .. LastBlock
  /\ UNCHANGED <<input, printed, written, shellVars, childVars>>

ProgramEnds ==
  /\ child = "program"
  /\ printed' = printed \cup {line} /\ written' = Append(written, line)
  /\ child' = "ended"
  /\ UNCHANGED <<input, offset, taken, shellVars, child_unread, child_unwritten>>

\* A broken CloseStdin: the buffer of the input stays open.
KeepStdin ==
  /\ child = "failed"
  /\ child' = "closed"
  /\ UNCHANGED <<input, offset, taken, printed, written, shellVars, child_unread, child_unwritten>>

\* fclose(stdin) drops the buffer without going back in the input.
CloseStdin ==
  /\ child = "failed"
  /\ child' = "closed" /\ child_unread' = <<>>
  /\ UNCHANGED <<input, offset, taken, printed, written, shellVars, child_unwritten>>

\* exit flushes the output, and moves the offset of an input that is still open
\* back over what its buffer holds.
ChildExits ==
  /\ child = "closed"
  /\ written' = Flushed(child_unwritten)
  /\ offset' = IF offset >= Len(child_unread) THEN offset - Len(child_unread) ELSE offset
  /\ child' = "ended" /\ child_unread' = <<>> /\ child_unwritten' = <<>>
  /\ UNCHANGED <<input, taken, printed, shellVars>>
-----------------------------------------------------------------------------
ShellNext == FillBuffer \/ TakeLine \/ EndOfInput \/ Fork \/ ForkFails \/ Wait
ChildNext == Exec \/ ProgramEnds \/ CloseStdin \/ ChildExits

Next == ShellNext \/ ChildNext \/ ProgramReads

\* Both processes are scheduled, and the programs that are run end.
Spec == Init /\ [][Next]_vars /\ WF_vars(ShellNext) /\ WF_vars(ChildNext)
-----------------------------------------------------------------------------
TypeOK ==
  /\ input \in [Lines -> {"print", "run"}]
  /\ offset \in 0 .. Length /\ taken \subseteq Lines
  /\ line \in Lines \cup {0} /\ printed \subseteq Lines
  /\ {unread, child_unread, unwritten, child_unwritten, written} \subseteq Seq(Lines)
  /\ Len(unwritten) <= OutSize
  /\ phase \in {"read", "run", "wait", "exited"}
  /\ child \in {"none", "forked", "program", "failed", "closed", "ended"}
  /\ phase = "wait" <=> child # "none"

\* Whatever becomes of the child, every line of the input that has been read has
\* been used exactly once or is waiting in the shell's buffer, in its order: none
\* is lost and the shell reads none again.
LinesOnce ==
  /\ taken = 1 .. offset \ ToSet(unread)
  /\ \A i, j \in DOMAIN unread : i < j => unread[i] < unread[j]

\* What has been written, followed by what the shell has still to write, is the
\* output of every line that has printed, once and in the order of the lines: none
\* of it is lost or written by both processes, and that of a program follows what
\* the shell printed before it.
OutputOnce ==
  LET output == written \o unwritten
  IN  /\ ToSet(output) = printed
      /\ \A i, j \in DOMAIN output : i < j => output[i] < output[j]

\* The shell gets through its input.
Terminates == <>(phase = "exited")
=============================================================================
