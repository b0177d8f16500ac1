-------------------------- MODULE LineParserProofs --------------------------
(***************************************************************************)
(* Lines of any length are split into exactly their commands and words.    *)
(***************************************************************************)
EXTENDS LineParser, SequenceTheorems, WellFoundedInduction, TLAPS

Places == Nat \X Nat

Length == Len(inp)

\* The parser never stops inside a word.
AtBoundary ==
  IF phase = "words" THEN ix = 1 \/ At(ix - 1) = "semicolon" \/ WordEnding(ix)
  ELSE At(ix) \in {"zero", "newline", "semicolon"}

Taken == Interpreted \cup ToSet(words)

CommandsApart ==
  /\ \A c \in DOMAIN interpreted : IsCommand(interpreted[c])
  /\ \A c, d \in DOMAIN interpreted : c < d =>
       \A v \in ToSet(interpreted[c]), w \in ToSet(interpreted[d]) : Separated(v, w)

\* The words up to ix have been taken, those after the last semicolon are in words
\* until they are interpreted.
ParserInv ==
  /\ /\ inp \in Lines
     /\ ix \in 1 .. Length + 1
     /\ phase \in {"words", "call", "chain", "done", "exited"}
     /\ words \in Seq(Places)
     /\ interpreted \in Seq(Seq(Places))
  /\ AtBoundary
  /\ phase = "done" => At(ix) # "semicolon"
  /\ Taken = {w \in WordsOfLine : w[2] < ix}
  /\ phase \in {"chain", "done", "exited"} => words = <<>>
  /\ \A i, j \in DOMAIN words : i < j => words[i][2] < words[j][1]
  /\ \A w \in ToSet(words) : \A k \in w[1] .. ix - 1 : At(k) # "semicolon"
  /\ phase \in {"words", "call"} =>
       \A w \in Interpreted : \E k \in w[2] .. ix - 1 : At(k) = "semicolon"
  /\ CommandsApart
-----------------------------------------------------------------------------
LEMMA LineChars ==
  ASSUME inp \in Lines
  PROVE  /\ Length \in Nat /\ DOMAIN inp = 1 .. Length
         /\ \A i \in Nat \ {0} :
              /\ At(i) \in {"letter", "blank", "newline", "semicolon", "zero"}
              /\ At(i) = "zero" <=> i > Length
              /\ At(i) = "newline" => i = Length
         /\ Length + 1 \in Nat \ {0} /\ At(Length + 1) = "zero"
<1>1. PICK n \in 0 .. MaxLength : inp \in [1 .. n -> Classes]
  BY DEF Lines
<1>2. n \in Nat /\ inp \in Seq(Classes)
  BY <1>1, LengthAssumption, SeqDef
<1>3. Length \in Nat /\ DOMAIN inp = 1 .. Length
  BY <1>2, LenProperties DEF Length
<1>4. \A i \in 1 .. Length - 1 : inp[i] # "newline"
  BY DEF Lines, Length
<1>5. \A i : At(i) = IF i <= Length THEN inp[i] ELSE "zero"
  BY DEF At, Length
<1>6. ASSUME NEW i \in Nat \ {0}
      PROVE  /\ At(i) \in {"letter", "blank", "newline", "semicolon", "zero"}
             /\ At(i) = "zero" <=> i > Length
             /\ At(i) = "newline" => i = Length
  <2>1. CASE i > Length
    BY <1>3, <1>5, <2>1
  <2>2. CASE i <= Length
    <3>1. i \in 1 .. Length /\ At(i) = inp[i]
      BY <1>3, <1>5, <2>2
    <3>2. inp[i] \in Classes
      BY <1>2, <1>3, <3>1, ElementOfSeq DEF Length
    <3>3. At(i) # "newline" \/ i = Length
      BY <1>3, <1>4, <3>1
    <3>4. ~(i > Length)
      BY <1>3, <2>2
    <3> QED BY <3>1, <3>2, <3>3, <3>4 DEF Classes
  <2> QED BY <1>3, <2>1, <2>2
<1>7. Length + 1 \in Nat \ {0} /\ Length + 1 > Length
  BY <1>3
<1> QED BY <1>3, <1>6, <1>7

LEMMA Letters ==
  ASSUME inp \in Lines, NEW i \in Nat \ {0}
  PROVE  WordEnding(i) <=> At(i) # "letter"
  BY LineChars DEF WordEnding, IsSpace

\* Sets of natural numbers have a least element.
LessOnNat == {ss \in Nat \X Nat : ss[1] < ss[2]}

LEMMA LeastNat ==
  ASSUME NEW S \in SUBSET Nat, NEW n \in S
  PROVE  \E m \in S : \A k \in S : m <= k
<1>1. IsWellFoundedOn(LessOnNat, Nat)
  BY NatLessThanWellFounded DEF OpToRel, LessOnNat
<1>2. PICK m \in S : \A k \in S : ~(<<k, m>> \in LessOnNat)
  BY <1>1, WFMin
<1>3. ASSUME NEW k \in S PROVE m <= k
  <2>1. m \in Nat /\ k \in Nat /\ <<k, m>> \notin LessOnNat
    BY <1>2
  <2> QED BY <2>1 DEF LessOnNat
<1> QED BY <1>3

\* What the two inner loops of parseInput stop at.
LEMMA AfterBlanksIs ==
  ASSUME inp \in Lines, NEW i \in 1 .. Length + 1
  PROVE  /\ AfterBlanks(i) \in i .. Length + 1
         /\ At(AfterBlanks(i)) # "blank"
         /\ \A j \in i .. AfterBlanks(i) - 1 : At(j) = "blank"
<1> DEFINE stops == {k \in i .. Length + 1 : At(k) # "blank"}
<1>1. Length \in Nat /\ At(Length + 1) = "zero"
  BY LineChars
<1>2. stops \in SUBSET Nat /\ Length + 1 \in stops
  BY <1>1
<1>3. PICK m \in stops : \A k \in stops : m <= k
  BY <1>2, LeastNat
<1>4. \A j \in i .. m - 1 : ~(At(j) # "blank")
  <2> SUFFICES ASSUME NEW j \in i .. m - 1, At(j) # "blank" PROVE FALSE
    OBVIOUS
  <2>1. j \in stops /\ j < m
    BY <1>1
  <2> QED BY <1>1, <1>3, <2>1
<1>5. \E k \in i .. Length + 1 : At(k) # "blank" /\ \A j \in i .. k - 1 : ~(At(j) # "blank")
  BY <1>4
<1>6. AfterBlanks(i) =
        CHOOSE k \in i .. Length + 1 : At(k) # "blank" /\ \A j \in i .. k - 1 : ~(At(j) # "blank")
  BY DEF AfterBlanks, First, Length
<1> QED BY <1>5, <1>6

LEMMA WordEndIs ==
  ASSUME inp \in Lines, NEW i \in 1 .. Length + 1
  PROVE  /\ WordEnd(i) \in i .. Length + 1
         /\ At(WordEnd(i)) # "letter"
         /\ \A j \in i .. WordEnd(i) - 1 : At(j) = "letter"
<1> DEFINE stops == {k \in i .. Length + 1 : WordEnding(k)}
<1>1. Length \in Nat /\ WordEnding(Length + 1)
  BY LineChars DEF WordEnding
<1>2. stops \in SUBSET Nat /\ Length + 1 \in stops
  BY <1>1
<1>3. PICK m \in stops : \A k \in stops : m <= k
  BY <1>2, LeastNat
<1>4. \A j \in i .. m - 1 : ~WordEnding(j)
  <2> SUFFICES ASSUME NEW j \in i .. m - 1, WordEnding(j) PROVE FALSE
    OBVIOUS
  <2>1. j \in stops /\ j < m
    BY <1>1
  <2> QED BY <1>1, <1>3, <2>1
<1>5. \E k \in i .. Length + 1 : WordEnding(k) /\ \A j \in i .. k - 1 : ~WordEnding(j)
  BY <1>4
<1>6. WordEnd(i) = CHOOSE k \in i .. Length + 1 : WordEnding(k) /\ \A j \in i .. k - 1 : ~WordEnding(j)
  BY DEF WordEnd, First, Length
<1>7. /\ WordEnd(i) \in i .. Length + 1 /\ WordEnding(WordEnd(i))
      /\ \A j \in i .. WordEnd(i) - 1 : ~WordEnding(j)
  BY <1>5, <1>6
<1> QED BY <1>7, <1>1, Letters

\* A place that is not a letter lies on one side of a word.
LEMMA WordAvoids ==
  ASSUME inp \in Lines, NEW w \in WordsOfLine, NEW k \in Nat \ {0}, At(k) # "letter"
  PROVE  w[1] \in Nat \ {0} /\ w[2] \in Nat \ {0} /\ w[1] <= w[2] /\ (k < w[1] \/ w[2] < k)
<1>1. w[1] \in 1 .. Length /\ w[2] \in 1 .. Length /\ Length \in Nat
  BY LineChars DEF WordsOfLine
<1>2. w[1] <= w[2] /\ \A j \in w[1] .. w[2] : At(j) = "letter"
  BY DEF WordsOfLine, IsWord
<1> QED BY <1>1, <1>2

LEMMA WordsApart ==
  ASSUME inp \in Lines, NEW v \in WordsOfLine, NEW w \in WordsOfLine, v[1] < w[1]
  PROVE  v[2] < w[1]
<1>1. /\ v[1] \in 1 .. Length /\ v[2] \in 1 .. Length /\ Length \in Nat
      /\ w[1] \in 1 .. Length
  BY LineChars DEF WordsOfLine
<1>2. w[1] - 1 \in Nat \ {0} /\ At(w[1] - 1) # "letter"
  BY <1>1 DEF WordsOfLine, IsWord
<1>3. w[1] - 1 < v[1] \/ v[2] < w[1] - 1
  BY <1>2, WordAvoids
<1> QED BY <1>1, <1>3

\* No word ends where there are no letters.
LEMMA NoWordIn ==
  ASSUME inp \in Lines, NEW i \in Nat \ {0}, NEW k \in Nat \ {0}, i <= k,
         \A j \in i .. k - 1 : At(j) # "letter"
  PROVE  {w \in WordsOfLine : w[2] < k} = {w \in WordsOfLine : w[2] < i}
<1>1. ASSUME NEW w \in WordsOfLine PROVE w[2] < k <=> w[2] < i
  <2>1. w[2] \in Nat \ {0} /\ w[1] \in Nat \ {0} /\ w[1] <= w[2]
    BY LineChars DEF WordsOfLine, IsWord
  <2>2. At(w[2]) = "letter"
    BY <2>1 DEF WordsOfLine, IsWord
  <2> QED BY <2>1, <2>2
<1> QED BY <1>1

\* As long as the line is the same, so are its words.
LEMMA SameLine ==
  ASSUME inp' = inp
  PROVE  /\ Length' = Length /\ WordsOfLine' = WordsOfLine
         /\ \A k : At(k)' = At(k) /\ (WordEnding(k)' <=> WordEnding(k))
         /\ \A v, w : Separated(v, w)' <=> Separated(v, w)
         /\ \A command : IsCommand(command)' <=> IsCommand(command)
<1>1. Length' = Length /\ \A k : At(k)' = At(k)
  BY DEF Length, At
<1>2. \A k : WordEnding(k)' <=> WordEnding(k)
  BY <1>1 DEF WordEnding, IsSpace
<1>3. \A v, w : Separated(v, w)' <=> Separated(v, w)
  BY <1>1 DEF Separated
<1>4. \A command : IsCommand(command)' <=> IsCommand(command)
  BY <1>3 DEF IsCommand
<1>5. WordsOfLine' = WordsOfLine
  BY <1>1 DEF WordsOfLine, IsWord
<1> QED BY <1>1, <1>2, <1>3, <1>4, <1>5

\* Every word taken lies before ix.
LEMMA TakenPlaces ==
  ASSUME ParserInv, NEW w \in Taken
  PROVE  /\ w \in WordsOfLine /\ w[1] \in Nat \ {0} /\ w[2] \in Nat \ {0}
         /\ w[1] <= w[2] /\ w[2] < ix
<1>1. w \in WordsOfLine /\ w[2] < ix
  BY DEF ParserInv
<1>2. w[1] \in Nat \ {0} /\ w[2] \in Nat \ {0} /\ w[1] <= w[2]
  BY <1>1, LineChars DEF ParserInv, WordsOfLine, IsWord
<1> QED BY <1>1, <1>2

LEMMA AppendSet ==
  ASSUME NEW S, NEW s \in Seq(S), NEW x \in S
  PROVE  /\ Append(s, x) \in Seq(S) /\ Append(s, x) # <<>>
         /\ Len(s) \in Nat /\ DOMAIN s = 1 .. Len(s)
         /\ DOMAIN Append(s, x) = 1 .. Len(s) + 1
         /\ \A i \in 1 .. Len(s) : Append(s, x)[i] = s[i]
         /\ Append(s, x)[Len(s) + 1] = x
         /\ ToSet(Append(s, x)) = ToSet(s) \cup {x}
<1>1. /\ Append(s, x) \in Seq(S) /\ Append(s, x) # <<>>
      /\ Len(s) \in Nat /\ DOMAIN s = 1 .. Len(s)
      /\ DOMAIN Append(s, x) = 1 .. Len(s) + 1
      /\ \A i \in 1 .. Len(s) : Append(s, x)[i] = s[i]
      /\ Append(s, x)[Len(s) + 1] = x
  BY AppendProperties, LenProperties
<1>2. ToSet(Append(s, x)) = ToSet(s) \cup {x}
  <2>1. 1 .. Len(s) + 1 = (1 .. Len(s)) \cup {Len(s) + 1}
    BY <1>1
  <2> QED BY <1>1, <2>1 DEF ToSet
<1> QED BY <1>1, <1>2

LEMMA CommandsStayApart ==
  ASSUME inp' = inp, interpreted' = interpreted, CommandsApart
  PROVE  CommandsApart'
<1>1. \A k : At(k)' = At(k)
  BY SameLine
<1>2. \A c \in DOMAIN interpreted : IsCommand(interpreted[c])'
  BY <1>1 DEF CommandsApart, IsCommand, Separated
<1>3. \A c, d \in DOMAIN interpreted : c < d =>
        \A v \in ToSet(interpreted[c]), w \in ToSet(interpreted[d]) : Separated(v, w)'
  BY <1>1 DEF CommandsApart, Separated
<1> QED BY <1>2, <1>3 DEF CommandsApart

LEMMA TakeWordInv ==
  ASSUME ParserInv, TakeWord
  PROVE  ParserInv'
<1>0. /\ inp \in Lines /\ Length \in Nat /\ ix \in 1 .. Length + 1 /\ ix \in Nat \ {0}
      /\ words \in Seq(Places) /\ interpreted \in Seq(Seq(Places))
      /\ inp' = inp /\ interpreted' = interpreted /\ phase = "words"
      /\ ~LineEnding(ix)
  BY LineChars DEF ParserInv, TakeWord
<1>1. PICK start : start = AfterBlanks(ix)
  OBVIOUS
<1>2. PICK end : end = WordEnd(start)
  OBVIOUS
<1>3. PICK w : w = <<start, end - 1>>
  OBVIOUS
<1>4. /\ start \in ix .. Length + 1 /\ start \in Nat \ {0} /\ At(start) = "letter"
      /\ \A j \in ix .. start - 1 : At(j) = "blank"
  <2>1. start \in ix .. Length + 1 /\ \A j \in ix .. start - 1 : At(j) = "blank"
    BY <1>0, <1>1, AfterBlanksIs
  <2>2. start \in Nat \ {0} /\ ~WordEnding(start)
    BY <1>0, <1>1, <2>1 DEF TakeWord
  <2> QED BY <1>0, <2>1, <2>2, Letters
<1>5. /\ end \in start .. Length + 1 /\ end \in Nat \ {0} /\ At(end) # "letter" /\ start < end
      /\ \A j \in start .. end - 1 : At(j) = "letter"
  <2>1. start \in 1 .. Length + 1
    BY <1>0, <1>4
  <2>2. /\ end \in start .. Length + 1 /\ At(end) # "letter"
        /\ \A j \in start .. end - 1 : At(j) = "letter"
    BY <1>0, <1>2, <2>1, WordEndIs
  <2>3. start # end
    BY <1>4, <2>2
  <2> QED BY <1>0, <1>4, <2>2, <2>3
<1>6. start > 1 => At(start - 1) # "letter"
  <2> SUFFICES ASSUME start > 1 PROVE At(start - 1) # "letter"
    OBVIOUS
  <2>1. CASE ix < start
    BY <1>0, <1>4, <2>1
  <2>2. CASE ix = start
    BY <1>0, <1>4, <2>2, Letters DEF ParserInv, AtBoundary
  <2> QED BY <1>0, <1>4, <2>1, <2>2
<1>7. w \in WordsOfLine /\ w \in Places /\ w[1] = start /\ w[2] = end - 1
  <2>1. start \in 1 .. Length /\ end - 1 \in 1 .. Length /\ start <= end - 1 /\ (end - 1) + 1 = end
    BY <1>0, <1>4, <1>5
  <2>2. IsWord(start, end - 1)
    BY <1>5, <1>6, <2>1 DEF IsWord
  <2>3. w \in (DOMAIN inp) \X (DOMAIN inp) /\ w[1] = start /\ w[2] = end - 1
    BY <1>0, <1>3, <2>1, LineChars
  <2>4. w \in Places
    BY <1>0, <1>3, <2>1 DEF Places
  <2> QED BY <2>2, <2>3, <2>4 DEF WordsOfLine
<1>8. words' = Append(words, w) /\ ix' = end /\ phase' = IF At(ix') = "zero" THEN "call" ELSE "words"
  BY <1>1, <1>2, <1>3 DEF TakeWord
<1>9. /\ words' \in Seq(Places) /\ Len(words) \in Nat /\ DOMAIN words = 1 .. Len(words)
      /\ DOMAIN words' = 1 .. Len(words) + 1
      /\ \A i \in 1 .. Len(words) : words'[i] = words[i]
      /\ words'[Len(words) + 1] = w /\ ToSet(words') = ToSet(words) \cup {w}
  BY <1>0, <1>7, <1>8, AppendSet
<1>10. {v \in WordsOfLine : v[2] < end} = {v \in WordsOfLine : v[2] < ix} \cup {w}
  <2>1. {v \in WordsOfLine : v[2] < start} = {v \in WordsOfLine : v[2] < ix}
    <3>1. ix <= start /\ \A j \in ix .. start - 1 : At(j) # "letter"
      BY <1>0, <1>4
    <3> QED BY <1>0, <1>4, <3>1, NoWordIn
  <2>2. ASSUME NEW v \in WordsOfLine, v[2] < end, ~(v[2] < start) PROVE v = w
    <3>0. /\ v[1] \in Nat \ {0} /\ v[2] \in Nat \ {0} /\ v = <<v[1], v[2]>> /\ v[1] <= v[2]
      BY <1>0, LineChars DEF WordsOfLine, IsWord
    <3>1. v[1] < start \/ v[1] = start \/ start < v[1]
      BY <1>4, <3>0
    <3>2. ~(v[1] < start)
      BY <1>0, <1>7, <2>2, <3>0, WordsApart
    <3>3. ~(start < v[1])
      BY <1>0, <1>5, <1>7, <2>2, <3>0, WordsApart
    <3>4. ~(v[2] < end - 1)
      <4> SUFFICES ASSUME v[2] < end - 1 PROVE FALSE
        OBVIOUS
      <4>1. v[2] + 1 \in start .. end - 1
        BY <1>4, <1>5, <2>2, <3>0
      <4> QED BY <1>5, <4>1 DEF WordsOfLine, IsWord
    <3>5. v[2] = end - 1
      BY <1>5, <2>2, <3>0, <3>4
    <3> QED BY <1>3, <3>0, <3>1, <3>2, <3>3, <3>5
  <2>3. ASSUME NEW v \in WordsOfLine, v[2] < start PROVE v[2] < end
    BY <1>0, <1>4, <1>5, <2>3, LineChars DEF WordsOfLine
  <2>4. w[2] < end
    BY <1>5, <1>7
  <2>5. {v \in WordsOfLine : v[2] < end} = {v \in WordsOfLine : v[2] < start} \cup {w}
    BY <1>7, <2>2, <2>3, <2>4
  <2> QED BY <2>1, <2>5
<1>11. Interpreted' = Interpreted /\ Taken' = {v \in WordsOfLine' : v[2] < ix'}
  <2>1. Interpreted' = Interpreted
    BY <1>0 DEF Interpreted
  <2>2. Taken = {v \in WordsOfLine : v[2] < ix}
    BY DEF ParserInv
  <2>3. WordsOfLine' = WordsOfLine
    BY <1>0, SameLine
  <2>4. Taken' = Taken \cup {w}
    BY <1>9, <2>1 DEF Taken
  <2>5. Taken' = {v \in WordsOfLine : v[2] < end}
    BY <1>10, <2>2, <2>4
  <2> QED BY <1>8, <2>1, <2>3, <2>5
<1>12. \A i, j \in DOMAIN words' : i < j => words'[i][2] < words'[j][1]
  <2> SUFFICES ASSUME NEW i \in 1 .. Len(words) + 1, NEW j \in 1 .. Len(words) + 1, i < j
               PROVE  words'[i][2] < words'[j][1]
    BY <1>9
  <2>1. i \in 1 .. Len(words) /\ words'[i] = words[i]
    BY <1>9
  <2>2. CASE j \in 1 .. Len(words)
    BY <1>9, <2>1, <2>2 DEF ParserInv
  <2>3. CASE j = Len(words) + 1
    <3>1. words[i] \in Taken
      BY <1>9, <2>1 DEF Taken, ToSet
    <3>2. words[i][2] \in Nat /\ words[i][2] < ix
      BY <3>1, TakenPlaces
    <3>3. words[i][2] < start
      BY <1>0, <1>4, <3>2
    <3> QED BY <1>7, <1>9, <2>1, <2>3, <3>3
  <2> QED BY <1>9, <2>2, <2>3
<1>13. \A v \in ToSet(words') : \A k \in v[1] .. ix' - 1 : At(k) # "semicolon"
  <2>1. ASSUME NEW v \in ToSet(words), NEW k \in v[1] .. end - 1 PROVE At(k) # "semicolon"
    <3>1. v[1] \in Nat \ {0}
      BY TakenPlaces DEF Taken
    <3>2. k \in v[1] .. ix - 1 \/ k \in ix .. start - 1 \/ k \in start .. end - 1
      BY <1>0, <1>4, <1>5, <3>1
    <3> QED BY <1>4, <1>5, <3>2 DEF ParserInv
  <2>2. ASSUME NEW k \in w[1] .. end - 1 PROVE At(k) # "semicolon"
    BY <1>5, <1>7
  <2> QED BY <1>8, <1>9, <2>1, <2>2
<1>14. \A v \in Interpreted : \E k \in v[2] .. ix' - 1 : At(k) = "semicolon"
  <2> SUFFICES ASSUME NEW v \in Interpreted PROVE \E k \in v[2] .. end - 1 : At(k) = "semicolon"
    BY <1>8
  <2>1. PICK k \in v[2] .. ix - 1 : At(k) = "semicolon"
    BY <1>0 DEF ParserInv
  <2>2. v[2] \in Nat
    BY TakenPlaces DEF Taken
  <2>3. k \in v[2] .. end - 1
    BY <1>0, <1>4, <1>5, <2>2
  <2> QED BY <2>1, <2>3
<1>15. AtBoundary' /\ phase' \in {"words", "call"} /\ ix' \in 1 .. Length' + 1
  <2>1. WordEnding(end)
    BY <1>0, <1>5, Letters
  <2>2. end \in 1 .. Length + 1
    BY <1>0, <1>4, <1>5
  <2>3. \A k : At(k)' = At(k) /\ (WordEnding(k)' <=> WordEnding(k))
    BY <1>0, SameLine
  <2>4. Length' = Length
    BY <1>0, SameLine
  <2>5. AtBoundary' <=> IF phase' = "words" THEN end = 1 \/ At(end - 1) = "semicolon" \/ WordEnding(end)
                        ELSE At(end) \in {"zero", "newline", "semicolon"}
    BY <1>8, <2>3 DEF AtBoundary
  <2> QED BY <1>8, <2>1, <2>2, <2>4, <2>5
<1>16. CommandsApart'
  BY <1>0, CommandsStayApart DEF ParserInv
<1>17. inp' \in Lines /\ interpreted' \in Seq(Seq(Places))
  BY <1>0
<1>18. (\A v \in ToSet(words) : \A k \in v[1] .. ix - 1 : At(k) # "semicolon")'
  <2>1. \A k : At(k)' = At(k)
    BY <1>0, SameLine
  <2> QED BY <1>13, <2>1
<1>19. (\A v \in Interpreted : \E k \in v[2] .. ix - 1 : At(k) = "semicolon")'
  <2>1. \A k : At(k)' = At(k)
    BY <1>0, SameLine
  <2> QED BY <1>11, <1>14, <2>1
<1> QED BY <1>9, <1>11, <1>12, <1>15, <1>16, <1>17, <1>18, <1>19 DEF ParserInv

LEMMA NoMoreWordsInv ==
  ASSUME ParserInv, NoMoreWords
  PROVE  ParserInv'
<1>0. /\ inp \in Lines /\ Length \in Nat /\ ix \in 1 .. Length + 1 /\ ix \in Nat \ {0}
      /\ inp' = inp /\ interpreted' = interpreted /\ words' = words
      /\ phase = "words" /\ phase' = "call"
  BY LineChars DEF ParserInv, NoMoreWords
<1>1. PICK end : end = ix'
  OBVIOUS
<1>2. /\ end \in ix .. Length + 1 /\ end \in Nat \ {0} /\ At(end) \in {"zero", "newline", "semicolon"}
      /\ \A j \in ix .. end - 1 : At(j) = "blank"
  <2>1. CASE LineEnding(ix)
    <3>1. end = ix
      BY <1>1, <2>1 DEF NoMoreWords
    <3> QED BY <1>0, <2>1, <3>1 DEF LineEnding
  <2>2. CASE ~LineEnding(ix)
    <3>1. end = AfterBlanks(ix) /\ WordEnding(ix')
      BY <1>1, <2>2 DEF NoMoreWords
    <3>2. /\ end \in ix .. Length + 1 /\ At(end) # "blank"
          /\ \A j \in ix .. end - 1 : At(j) = "blank"
      BY <1>0, <3>1, AfterBlanksIs
    <3>3. end \in Nat \ {0} /\ WordEnding(end)
      BY <1>0, <1>1, <3>1, <3>2
    <3>4. At(end) # "letter" /\ At(end) \in {"letter", "blank", "newline", "semicolon", "zero"}
      BY <1>0, <3>3, LineChars, Letters
    <3> QED BY <3>2, <3>3, <3>4
  <2> QED BY <2>1, <2>2
<1>3. /\ Length' = Length /\ WordsOfLine' = WordsOfLine
      /\ \A k : At(k)' = At(k)
  BY <1>0, SameLine
<1>4. Interpreted' = Interpreted /\ Taken' = {v \in WordsOfLine' : v[2] < ix'}
  <2>1. Interpreted' = Interpreted /\ Taken' = Taken
    BY <1>0 DEF Interpreted, Taken
  <2>2. ix <= end /\ \A j \in ix .. end - 1 : At(j) # "letter"
    BY <1>0, <1>2
  <2>3. {v \in WordsOfLine : v[2] < end} = {v \in WordsOfLine : v[2] < ix}
    BY <1>0, <1>2, <2>2, NoWordIn
  <2> QED BY <1>1, <1>3, <2>1, <2>3 DEF ParserInv
<1>5. (\A v \in ToSet(words) : \A k \in v[1] .. ix - 1 : At(k) # "semicolon")'
  <2>1. ASSUME NEW v \in ToSet(words), NEW k \in v[1] .. end - 1 PROVE At(k) # "semicolon"
    <3>1. v[1] \in Nat \ {0}
      BY TakenPlaces DEF Taken
    <3>2. k \in v[1] .. ix - 1 \/ k \in ix .. end - 1
      BY <1>0, <1>2, <3>1
    <3> QED BY <1>2, <3>2 DEF ParserInv
  <2> QED BY <1>0, <1>1, <1>3, <2>1
<1>6. (\A v \in Interpreted : \E k \in v[2] .. ix - 1 : At(k) = "semicolon")'
  <2>1. ASSUME NEW v \in Interpreted PROVE \E k \in v[2] .. end - 1 : At(k) = "semicolon"
    <3>1. PICK k \in v[2] .. ix - 1 : At(k) = "semicolon"
      BY <1>0 DEF ParserInv
    <3>2. v[2] \in Nat
      BY TakenPlaces DEF Taken
    <3>3. k \in v[2] .. end - 1
      BY <1>0, <1>2, <3>2
    <3> QED BY <3>1, <3>3
  <2> QED BY <1>1, <1>3, <1>4, <2>1
<1>7. AtBoundary' /\ ix' \in 1 .. Length' + 1
  <2>1. ix' \in 1 .. Length' + 1
    BY <1>0, <1>1, <1>2, <1>3
  <2> QED BY <1>0, <1>1, <1>2, <1>3, <2>1 DEF AtBoundary
<1>8. CommandsApart'
  BY <1>0, CommandsStayApart DEF ParserInv
<1>9. /\ inp' \in Lines /\ words' \in Seq(Places) /\ interpreted' \in Seq(Seq(Places))
      /\ \A i, j \in DOMAIN words' : i < j => words'[i][2] < words'[j][1]
  BY <1>0 DEF ParserInv
<1> QED BY <1>0, <1>4, <1>5, <1>6, <1>7, <1>8, <1>9 DEF ParserInv

LEMMA CallInterpreterInv ==
  ASSUME ParserInv, CallInterpreter
  PROVE  ParserInv'
<1>0. /\ inp \in Lines /\ ix \in Nat \ {0} /\ words \in Seq(Places)
      /\ interpreted \in Seq(Seq(Places)) /\ inp' = inp /\ ix' = ix
      /\ words' = <<>> /\ phase = "call" /\ phase' \in {"chain", "exited"}
  BY LineChars DEF ParserInv, CallInterpreter
<1>1. /\ Length' = Length /\ WordsOfLine' = WordsOfLine
      /\ \A k : At(k)' = At(k)
      /\ \A v, w : Separated(v, w)' <=> Separated(v, w)
      /\ \A command : IsCommand(command)' <=> IsCommand(command)
  BY <1>0, SameLine
<1>2. AtBoundary' /\ ix' \in 1 .. Length' + 1 /\ inp' \in Lines
  BY <1>0, <1>1 DEF AtBoundary, ParserInv
<1>3. ToSet(words') = {}
  BY <1>0 DEF ToSet
<1>4. CASE words = <<>>
  <2>1. interpreted' = interpreted /\ phase' = "chain" /\ Interpreted' = Interpreted
    BY <1>4 DEF CallInterpreter, Interpreted
  <2>2. Taken' = Taken
    BY <1>0, <1>4, <2>1 DEF Taken
  <2>3. CommandsApart'
    BY <1>0, <2>1, CommandsStayApart DEF ParserInv
  <2> QED BY <1>0, <1>1, <1>2, <1>3, <2>1, <2>2, <2>3 DEF ParserInv
<1>5. CASE words # <<>>
  <2>1. interpreted' = Append(interpreted, words)
    BY <1>5 DEF CallInterpreter
  <2>2. /\ interpreted' \in Seq(Seq(Places)) /\ Len(interpreted) \in Nat
        /\ DOMAIN interpreted = 1 .. Len(interpreted)
        /\ DOMAIN interpreted' = 1 .. Len(interpreted) + 1
        /\ \A c \in 1 .. Len(interpreted) : interpreted'[c] = interpreted[c]
        /\ interpreted'[Len(interpreted) + 1] = words
    BY <1>0, <2>1, AppendSet
  <2>3. Taken' = Taken
    <3>1. DOMAIN interpreted' = DOMAIN interpreted \cup {Len(interpreted) + 1}
      BY <2>2
    <3>2. Interpreted' = Interpreted \cup ToSet(words)
      BY <2>2, <3>1 DEF Interpreted
    <3> QED BY <1>3, <3>2 DEF Taken
  <2>4. IsCommand(words)
    <3> SUFFICES ASSUME NEW i \in DOMAIN words, NEW j \in DOMAIN words, i < j
                 PROVE  words[i][2] < words[j][1] /\ ~Separated(words[i], words[j])
      BY <1>5 DEF IsCommand
    <3>1. words[i][2] < words[j][1]
      BY DEF ParserInv
    <3>2. PICK v, w : v = words[i] /\ w = words[j]
      OBVIOUS
    <3>3. v \in Taken /\ w \in Taken /\ v \in ToSet(words)
      BY <3>2 DEF Taken, ToSet
    <3>4. /\ v[1] \in Nat /\ v[2] \in Nat /\ v[1] <= v[2] /\ w[1] \in Nat /\ w[2] \in Nat
          /\ w[1] <= w[2] /\ w[2] < ix
      BY <3>3, TakenPlaces
    <3>5. v[2] .. w[1] \subseteq v[1] .. ix - 1
      BY <1>0, <3>4
    <3>6. ~Separated(v, w)
      BY <3>3, <3>5 DEF ParserInv, Separated
    <3> QED BY <3>1, <3>2, <3>6
  <2>5. ASSUME NEW c \in DOMAIN interpreted, NEW v \in ToSet(interpreted[c]), NEW w \in ToSet(words)
        PROVE  Separated(v, w)
    <3>1. v \in Interpreted /\ v \in Taken /\ w \in Taken
      BY DEF Interpreted, Taken
    <3>2. PICK k \in v[2] .. ix - 1 : At(k) = "semicolon"
      BY <1>0, <3>1 DEF ParserInv
    <3>3. v[2] \in Nat /\ w[1] \in Nat
      BY <3>1, TakenPlaces
    <3>4. ~(k \in w[1] .. ix - 1)
      BY <3>2 DEF ParserInv
    <3>5. k \in v[2] .. w[1]
      BY <1>0, <3>2, <3>3, <3>4
    <3> QED BY <3>2, <3>5 DEF Separated
  <2>6. CommandsApart'
    <3>1. \A c \in DOMAIN interpreted' : IsCommand(interpreted'[c])
      <4>1. \A c \in 1 .. Len(interpreted) : IsCommand(interpreted[c])
        BY <2>2 DEF ParserInv, CommandsApart
      <4>2. \A c \in 1 .. Len(interpreted) + 1 : c \in 1 .. Len(interpreted) \/ c = Len(interpreted) + 1
        BY <2>2
      <4>3. ASSUME NEW c \in DOMAIN interpreted' PROVE IsCommand(interpreted'[c])
        <5>1. CASE c \in 1 .. Len(interpreted)
          <6>1. interpreted'[c] = interpreted[c]
            BY <2>2, <5>1
          <6> QED BY <4>1, <5>1, <6>1
        <5>2. CASE c = Len(interpreted) + 1
          BY <2>2, <2>4, <5>2
        <5> QED BY <2>2, <4>2, <5>1, <5>2
      <4> QED BY <4>3
    <3>2. ASSUME NEW c \in DOMAIN interpreted', NEW d \in DOMAIN interpreted', c < d,
                 NEW v \in ToSet(interpreted'[c]), NEW w \in ToSet(interpreted'[d])
          PROVE  Separated(v, w)
      <4>1. c \in DOMAIN interpreted /\ interpreted'[c] = interpreted[c]
        BY <2>2, <3>2
      <4>2. CASE d \in DOMAIN interpreted
        BY <2>2, <3>2, <4>1, <4>2 DEF ParserInv, CommandsApart
      <4>3. CASE d = Len(interpreted) + 1
        BY <2>2, <2>5, <4>1, <4>3
      <4> QED BY <2>2, <4>2, <4>3
    <3>3. \A c \in DOMAIN interpreted' :
            interpreted'[c] # <<>> /\ \A i, j \in DOMAIN interpreted'[c] :
              i < j => /\ interpreted'[c][i][2] < interpreted'[c][j][1]
                       /\ \A k \in interpreted'[c][i][2] .. interpreted'[c][j][1] : At(k) # "semicolon"
      BY <3>1 DEF IsCommand, Separated
    <3>4. \A c, d \in DOMAIN interpreted' : c < d =>
            \A v \in ToSet(interpreted'[c]), w \in ToSet(interpreted'[d]) :
              \E k \in v[2] .. w[1] : At(k) = "semicolon"
      BY <3>2 DEF Separated
    <3> QED BY <1>1, <3>3, <3>4 DEF CommandsApart, IsCommand, Separated
  <2>7. words' \in Seq(Places) /\ DOMAIN words' = {}
    BY <1>0
  <2> QED BY <1>0, <1>1, <1>2, <1>3, <2>2, <2>3, <2>6, <2>7 DEF ParserInv
<1> QED BY <1>4, <1>5

LEMMA ChainInv ==
  ASSUME ParserInv, Chain
  PROVE  ParserInv'
<1>0. /\ inp \in Lines /\ Length \in Nat /\ ix \in 1 .. Length + 1 /\ ix \in Nat \ {0}
      /\ words = <<>> /\ interpreted \in Seq(Seq(Places)) /\ phase = "chain"
      /\ inp' = inp /\ words' = words /\ interpreted' = interpreted
      /\ Interpreted' = Interpreted /\ Taken' = Taken
      /\ At(ix) \in {"zero", "newline", "semicolon"}
  BY LineChars DEF ParserInv, Chain, AtBoundary, Interpreted, Taken
<1>1. /\ Length' = Length /\ WordsOfLine' = WordsOfLine
      /\ \A k : At(k)' = At(k)
  BY <1>0, SameLine
<1>2. CommandsApart'
  BY <1>0, CommandsStayApart DEF ParserInv
<1>3. ToSet(words') = {} /\ DOMAIN words' = {} /\ words' \in Seq(Places)
  BY <1>0 DEF ToSet
<1>4. CASE At(ix) = "semicolon"
  <2>1. ix' = ix + 1 /\ phase' = "words"
    BY <1>4 DEF Chain
  <2>2. ix < Length + 1
    BY <1>0, <1>4, LineChars
  <2>3. ix' \in 1 .. Length' + 1 /\ ix' - 1 = ix
    BY <1>0, <1>1, <2>1, <2>2
  <2>4. Taken' = {v \in WordsOfLine' : v[2] < ix'}
    <3>1. ix <= ix + 1 /\ ix + 1 \in Nat \ {0} /\ \A j \in ix .. ix + 1 - 1 : At(j) # "letter"
      BY <1>0
    <3>2. {v \in WordsOfLine : v[2] < ix + 1} = {v \in WordsOfLine : v[2] < ix}
      BY <1>0, <3>1, NoWordIn
    <3> QED BY <1>0, <1>1, <2>1, <3>2 DEF ParserInv
  <2>5. (\A v \in Interpreted : \E k \in v[2] .. ix - 1 : At(k) = "semicolon")'
    <3>1. ASSUME NEW v \in Interpreted PROVE \E k \in v[2] .. ix' - 1 : At(k) = "semicolon"
      <4>1. v[2] \in Nat /\ v[2] < ix
        BY TakenPlaces DEF Taken
      <4>2. ix \in v[2] .. ix
        BY <1>0, <4>1
      <4> QED BY <1>4, <2>3, <4>2
    <3> QED BY <1>0, <1>1, <3>1
  <2>6. AtBoundary'
    BY <1>1, <1>4, <2>1, <2>3 DEF AtBoundary
  <2> QED BY <1>0, <1>2, <1>3, <2>1, <2>3, <2>4, <2>5, <2>6 DEF ParserInv
<1>5. CASE At(ix) # "semicolon"
  <2>1. ix' = ix /\ phase' = "done"
    BY <1>5 DEF Chain
  <2>2. ix' \in 1 .. Length' + 1 /\ AtBoundary' /\ At(ix)' # "semicolon"
    BY <1>0, <1>1, <1>5, <2>1 DEF AtBoundary
  <2>3. Taken' = {v \in WordsOfLine' : v[2] < ix'}
    BY <1>0, <1>1, <2>1 DEF ParserInv
  <2> QED BY <1>0, <1>2, <1>3, <2>1, <2>2, <2>3 DEF ParserInv
<1> QED BY <1>4, <1>5

LEMMA ParserStep == ParserInv /\ [Next]_vars => ParserInv'
<1> SUFFICES ASSUME ParserInv, [Next]_vars PROVE ParserInv'
  OBVIOUS
<1>1. CASE UNCHANGED vars
  <2>1. /\ inp' = inp /\ ix' = ix /\ phase' = phase /\ words' = words
        /\ interpreted' = interpreted
    BY <1>1 DEF vars
  <2>2. /\ Length' = Length /\ WordsOfLine' = WordsOfLine
        /\ \A k : At(k)' = At(k) /\ (WordEnding(k)' <=> WordEnding(k))
    BY <2>1, SameLine
  <2>3. CommandsApart'
    BY <2>1, CommandsStayApart DEF ParserInv
  <2>4. Interpreted' = Interpreted /\ Taken' = Taken
    BY <2>1 DEF Interpreted, Taken
  <2>5. AtBoundary'
    BY <2>1, <2>2 DEF ParserInv, AtBoundary
  <2> QED BY <2>1, <2>2, <2>3, <2>4, <2>5 DEF ParserInv
<1> QED
  BY <1>1, TakeWordInv, NoMoreWordsInv, CallInterpreterInv, ChainInv DEF Next

LEMMA ParserStart == Init => ParserInv
<1> SUFFICES ASSUME Init PROVE ParserInv
  OBVIOUS
<1>1. /\ inp \in Lines /\ ix = 1 /\ words = <<>> /\ phase = "words" /\ interpreted = <<>>
      /\ ix \in 1 .. Length + 1
  BY LineChars DEF Init
<1>2. Interpreted = {} /\ ToSet(words) = {} /\ CommandsApart
  BY <1>1 DEF Interpreted, ToSet, CommandsApart
<1>3. Taken = {w \in WordsOfLine : w[2] < ix}
  BY <1>1, <1>2, LineChars DEF Taken, WordsOfLine
<1> QED BY <1>1, <1>2, <1>3 DEF ParserInv, AtBoundary

\* Between two calls of the interpreter all words up to ix have been interpreted.
LEMMA NoneGivenUp ==
  ASSUME ParserInv
  PROVE  CommandsInOrder
<1>0. inp \in Lines /\ Length \in Nat /\ ix \in Nat \ {0}
  BY LineChars DEF ParserInv
<1>1. Interpreted \subseteq Taken /\ Taken = {w \in WordsOfLine : w[2] < ix}
  BY DEF ParserInv, Taken
<1>2. phase \notin {"words", "call"} => Interpreted = Taken
  BY DEF ParserInv, Taken, ToSet
<1>3. \A w \in WordsOfLine : w[1] \in Nat \ {0} /\ w[2] \in 1 .. Length /\ w[1] <= w[2]
  BY <1>0, LineChars DEF WordsOfLine, IsWord
<1>4. ASSUME phase = "done" PROVE Interpreted = WordsOfLine
  <2>1. At(ix) \in {"zero", "newline"}
    BY <1>4 DEF ParserInv, AtBoundary
  <2>2. ix >= Length
    BY <1>0, <2>1, LineChars
  <2>3. ASSUME NEW w \in WordsOfLine PROVE w[2] < ix
    <3>1. ~(ix < w[1])
      BY <1>0, <1>3, <2>2
    <3> QED BY <1>0, <2>1, <3>1, WordAvoids
  <2> QED BY <1>1, <1>2, <1>4, <2>3
<1>5. ASSUME NEW v \in WordsOfLine, NEW w \in Interpreted, v[1] < w[1] \/ ~Separated(w, v)
      PROVE  v \in Interpreted
  <2>0. w \in WordsOfLine /\ w \in Taken
    BY <1>1
  <2>1. /\ v[1] \in Nat \ {0} /\ v[2] \in 1 .. Length /\ v[1] <= v[2]
        /\ w[1] \in Nat \ {0} /\ w[2] \in 1 .. Length /\ w[1] <= w[2] /\ w[2] < ix
    BY <1>1, <1>3, <2>0
  <2>2. CASE v[1] < w[1]
    <3>1. v[2] < w[1]
      BY <1>0, <2>0, <2>2, WordsApart
    <3>2. v \in Taken
      BY <1>0, <1>1, <2>1, <3>1
    <3>3. v \notin ToSet(words) \/ phase \notin {"words", "call"}
      <4> SUFFICES ASSUME v \in ToSet(words), phase \in {"words", "call"} PROVE FALSE
        OBVIOUS
      <4>1. PICK k \in w[2] .. ix - 1 : At(k) = "semicolon"
        BY DEF ParserInv
      <4>2. k \in v[1] .. ix - 1
        BY <1>0, <2>1, <3>1, <4>1
      <4> QED BY <4>1, <4>2 DEF ParserInv
    <3> QED BY <1>2, <3>2, <3>3 DEF Taken
  <2>3. CASE ~(v[1] < w[1]) /\ ~Separated(w, v)
    <3>1. CASE phase \in {"words", "call"}
      <4>1. PICK k \in w[2] .. ix - 1 : At(k) = "semicolon"
        BY <3>1 DEF ParserInv
      <4>2. k > v[1]
        <5>1. ~(k \in w[2] .. v[1])
          BY <2>3, <4>1 DEF Separated
        <5> QED BY <1>0, <2>1, <4>1, <5>1
      <4>3. k \in Nat \ {0} /\ At(k) # "letter"
        BY <1>0, <2>1, <4>1
      <4>4. v[2] < k
        BY <1>0, <2>1, <4>2, <4>3, WordAvoids
      <4>5. v \in Taken
        BY <1>0, <1>1, <2>1, <4>1, <4>4
      <4>6. v \notin ToSet(words)
        <5>1. k \in v[1] .. ix - 1
          BY <1>0, <2>1, <4>1, <4>2
        <5> QED BY <4>1, <5>1 DEF ParserInv
      <4> QED BY <4>5, <4>6 DEF Taken
    <3>2. CASE phase \notin {"words", "call"}
      <4>1. At(ix) \in {"zero", "newline", "semicolon"}
        BY <3>2 DEF ParserInv, AtBoundary
      <4>2. ix < v[1] \/ v[2] < ix
        BY <1>0, <4>1, WordAvoids
      <4>3. ~(ix < v[1])
        <5>1. At(ix) = "semicolon" => ~(ix \in w[2] .. v[1])
          BY <2>3 DEF Separated
        <5>2. At(ix) # "semicolon" => ix >= Length
          BY <1>0, <4>1, LineChars
        <5> QED BY <1>0, <2>1, <5>1, <5>2
      <4> QED BY <1>1, <1>2, <3>2, <4>2, <4>3
    <3> QED BY <3>1, <3>2
  <2> QED BY <1>5, <2>2, <2>3
<1> QED BY <1>1, <1>4, <1>5 DEF CommandsInOrder, ParserInv, CommandsApart

\* Wherever in a line of any length there are blanks, semicolons and its end, the
\* interpreter is called with the commands between the semicolons, in order, each
\* with its words, and every word is used unless a command ends the shell.
THEOREM LineIsItsCommands == Spec => []CommandsInOrder
  BY ParserStart, ParserStep, NoneGivenUp, PTL DEF Spec
=============================================================================
