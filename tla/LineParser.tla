----------------------------- MODULE LineParser -----------------------------
(***************************************************************************)
(* parseInput of shell.c: a line of the terminal or of a script is split   *)
(* into words at blanks and into commands at semicolons, and each command  *)
(* is interpreted before the rest of the line is looked at.                *)
(*                                                                         *)
(* Of a character only its class matters.  A word is the pair of the       *)
(* places where it begins and where it ends.                               *)
(***************************************************************************)
EXTENDS Integers, SequencesExt

CONSTANT MaxLength  \* bound on the characters of a line, without the final zero

ASSUME LengthAssumption == MaxLength \in Nat

VARIABLES
  inp,          \* inp[i]: the class of character i
  ix,           \* the character the parser has come to
  words,        \* the words of the command so far
  phase,        \* "words", "call", "chain", "done", or "exited"
  interpreted   \* the commands that have been interpreted

vars == <<inp, ix, words, phase, interpreted>>
-----------------------------------------------------------------------------
Classes == {"letter", "blank", "newline", "semicolon"}

\* A line as fgets returns it: a newline can only be its last character.
Lines ==
  {l \in UNION {[1 .. n -> Classes] : n \in 0 .. MaxLength} :
     \A i \in 1 .. Len(l) - 1 : l[i] # "newline"}

At(i) == IF i <= Len(inp) THEN inp[i] ELSE "zero"

IsSpace(i) == At(i) \in {"blank", "newline"}

\* Two broken wordEndings, without the semicolon or without the blanks.
EndsAtBlank(i) == At(i) = "zero" \/ IsSpace(i)
EndsAtNewline(i) == At(i) \in {"zero", "newline", "semicolon"}

WordEnding(i) == At(i) \in {"zero", "semicolon"} \/ IsSpace(i)
LineEnding(i) == At(i) \in {"zero", "newline"}

\* The first place from i on that satisfies P.
First(i, P(_)) == CHOOSE k \in i .. Len(inp) + 1 : P(k) /\ \A j \in i .. k - 1 : ~P(j)
AfterBlanks(i) == First(i, LAMBDA k : At(k) # "blank")
WordEnd(i) == First(i, WordEnding)

Init ==
  /\ inp \in Lines
  /\ ix = 1 /\ words = <<>> /\ phase = "words"
  /\ interpreted = <<>>

\* A round of the loop: blanks are skipped and a word is copied, ...
TakeWord ==
  /\ phase = "words" /\ ~LineEnding(ix)
  /\ LET start == AfterBlanks(ix) IN
       /\ ~WordEnding(start)
       /\ words' = Append(words, <<start, WordEnd(start) - 1>>)
       /\ ix' = WordEnd(start)
  /\ phase' = IF At(ix') = "zero" THEN "call" ELSE "words"
  /\ UNCHANGED <<inp, interpreted>>

\* ... unless there is a semicolon or the end of the line.
NoMoreWords ==
  /\ phase = "words"
  /\ ix' = IF LineEnding(ix) THEN ix ELSE AfterBlanks(ix)
  /\ WordEnding(ix')
  /\ phase' = "call"
  /\ UNCHANGED <<inp, words, interpreted>>

\* The command is interpreted if it has a word.  It may end the shell.
CallInterpreter ==
  /\ phase = "call"
  /\ IF words = <<>>
     THEN phase' = "chain" /\ UNCHANGED interpreted
     ELSE /\ interpreted' = Append(interpreted, words)
          /\ phase' \in {"chain", "exited"}
  /\ words' = <<>>
  /\ UNCHANGED <<inp, ix>>

\* A broken Chain, which does not step over the semicolon.
ChainInPlace ==
  /\ phase = "chain"
  /\ phase' = IF At(ix) = "semicolon" THEN "words" ELSE "done"
  /\ UNCHANGED <<inp, ix, words, interpreted>>

\* The rest of the line, by recursion.
Chain ==
  /\ phase = "chain"
  /\ IF At(ix) = "semicolon" THEN ix' = ix + 1 /\ phase' = "words"
     ELSE UNCHANGED ix /\ phase' = "done"
  /\ UNCHANGED <<inp, words, interpreted>>

Next == TakeWord \/ NoMoreWords \/ CallInterpreter \/ Chain

Spec == Init /\ [][Next]_vars /\ WF_vars(Next)
-----------------------------------------------------------------------------
\* The words of the line: its longest runs of letters.
IsWord(i, j) ==
  /\ i <= j
  /\ \A k \in i .. j : At(k) = "letter"
  /\ i > 1 => At(i - 1) # "letter"
  /\ At(j + 1) # "letter"

WordsOfLine == {w \in (DOMAIN inp) \X (DOMAIN inp) : IsWord(w[1], w[2])}

\* Two words belong to the same command unless there is a semicolon between them.
Separated(v, w) == \E k \in v[2] .. w[1] : At(k) = "semicolon"

\* A command has a word, and its words stand one after the other.
IsCommand(command) ==
  /\ command # <<>>
  /\ \A i, j \in DOMAIN command :
       i < j => command[i][2] < command[j][1] /\ ~Separated(command[i], command[j])

Interpreted == UNION {ToSet(interpreted[c]) : c \in DOMAIN interpreted}

\* The parser hands the interpreter the commands of the line one after the other,
\* each with all its words, and gives up none of them unless one ends the shell:
\* empty commands, blanks around semicolons and ends of lines in any place do not
\* matter.
CommandsInOrder ==
  /\ \A c \in DOMAIN interpreted : IsCommand(interpreted[c])
  /\ \A c, d \in DOMAIN interpreted : c < d =>
       \A v \in ToSet(interpreted[c]), w \in ToSet(interpreted[d]) : Separated(v, w)
  /\ Interpreted \subseteq WordsOfLine
  /\ \A v \in WordsOfLine, w \in Interpreted : v[1] < w[1] \/ ~Separated(w, v) => v \in Interpreted
  /\ phase = "done" => Interpreted = WordsOfLine

\* The parser gets to the end of every line.
Ends == <>(phase \in {"done", "exited"})
=============================================================================
