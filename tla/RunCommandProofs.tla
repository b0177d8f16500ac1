-------------------------- MODULE RunCommandProofs --------------------------
(***************************************************************************)
(* With inputs of any length and buffers of any size, running programs     *)
(* neither loses nor repeats a line of the input, nor any output.          *)
(***************************************************************************)
EXTENDS RunCommand, SequenceTheorems, TLAPS

\* The shell takes the lines in order, so what waits in its buffer comes after
\* line, and what has been printed does not; the program that a line runs is the
\* first to print for it.  While there is a child the shell has nothing unwritten,
\* and the child never has.
BuffersInOrder ==
  /\ line <= offset
  /\ \A i \in DOMAIN unread : line < unread[i] /\ unread[i] <= offset
  /\ \A n \in printed : n <= line
  /\ phase = "run" \/ child \in {"forked", "program"} => line \in Lines \ printed
  /\ child # "none" => unwritten = <<>>
  /\ child_unwritten = <<>>
  /\ child = "closed" => child_unread = <<>>

RunInv == TypeOK /\ LinesOnce /\ OutputOnce /\ BuffersInOrder
-----------------------------------------------------------------------------
LEMMA FromToSeq ==
  ASSUME NEW i \in 1 .. Length, NEW j \in i .. Length
  PROVE  /\ FromTo(i, j) \in Seq(Lines)
         /\ DOMAIN FromTo(i, j) = 1 .. j - i + 1
         /\ \A k \in 1 .. j - i + 1 : FromTo(i, j)[k] = i + k - 1
         /\ ToSet(FromTo(i, j)) = i .. j
<1>1. i \in Int /\ j \in Int /\ j - i + 1 \in Nat /\ Length \in Nat
  BY RunAssumption
<1>2. FromTo(i, j) \in [1 .. j - i + 1 -> Lines]
  BY <1>1 DEF FromTo, Lines
<1>3. FromTo(i, j) \in Seq(Lines)
  BY <1>1, <1>2, SeqDef
<1>4. /\ DOMAIN FromTo(i, j) = 1 .. j - i + 1
      /\ \A k \in 1 .. j - i + 1 : FromTo(i, j)[k] = i + k - 1
  BY DEF FromTo
<1>5. ToSet(FromTo(i, j)) = i .. j
  <2>1. ASSUME NEW n \in i .. j PROVE \E k \in 1 .. j - i + 1 : FromTo(i, j)[k] = n
    <3>1. n - i + 1 \in 1 .. j - i + 1 /\ i + (n - i + 1) - 1 = n
      BY <1>1
    <3>2. FromTo(i, j)[n - i + 1] = n
      BY <1>4, <3>1
    <3> QED BY <3>1, <3>2
  <2>2. ASSUME NEW k \in 1 .. j - i + 1 PROVE FromTo(i, j)[k] \in i .. j
    BY <1>1, <1>4
  <2> QED BY <1>4, <2>1, <2>2 DEF ToSet
<1> QED BY <1>3, <1>4, <1>5

LEMMA NextBlock ==
  ASSUME TypeOK, offset < Length
  PROVE  offset + 1 \in 1 .. Length /\ LastBlock \in offset + 1 .. Length
  BY RunAssumption DEF TypeOK, LastBlock

\* A line that comes after all others keeps a sequence in order.
LEMMA AppendInOrder ==
  ASSUME NEW s \in Seq(Lines), NEW n \in Lines, \A m \in ToSet(s) : m < n,
         \A i, j \in DOMAIN s : i < j => s[i] < s[j]
  PROVE  /\ ToSet(Append(s, n)) = ToSet(s) \cup {n}
         /\ \A i, j \in DOMAIN Append(s, n) : i < j => Append(s, n)[i] < Append(s, n)[j]
<1>1. PICK t : t = Append(s, n)
  OBVIOUS
<1>2. /\ Len(s) \in Nat /\ DOMAIN s = 1 .. Len(s) /\ DOMAIN t = 1 .. Len(s) + 1
      /\ \A i \in 1 .. Len(s) : t[i] = s[i]
      /\ t[Len(s) + 1] = n
  BY <1>1, AppendProperties, LenProperties
<1>3. \A i \in 1 .. Len(s) : s[i] < n
  BY <1>2 DEF ToSet
<1>4. ToSet(t) = ToSet(s) \cup {n}
  <2>1. ToSet(t) = {t[i] : i \in 1 .. Len(s)} \cup {t[Len(s) + 1]}
    BY <1>2 DEF ToSet
  <2>2. {t[i] : i \in 1 .. Len(s)} = ToSet(s)
    BY <1>2 DEF ToSet
  <2> QED BY <1>2, <2>1, <2>2
<1>5. ASSUME NEW i \in DOMAIN t, NEW j \in DOMAIN t, i < j PROVE t[i] < t[j]
  <2>1. i \in 1 .. Len(s)
    BY <1>2, <1>5
  <2>2. CASE j = Len(s) + 1
    BY <1>2, <1>3, <2>1, <2>2
  <2>3. CASE j \in 1 .. Len(s)
    BY <1>2, <1>5, <2>1, <2>3
  <2> QED BY <1>2, <2>2, <2>3
<1> QED BY <1>1, <1>4, <1>5

\* What is appended to the buffer is appended to the output.
LEMMA AppendIsLast ==
  ASSUME NEW s \in Seq(Lines), NEW u \in Seq(Lines), NEW n \in Lines
  PROVE  s \o Append(u, n) = Append(s \o u, n)
<1>0. <<n>> \in Seq(Lines)
  OBVIOUS
<1>1. PICK t \in Seq(Lines) : t = <<n>>
  BY <1>0
<1>2. (s \o u) \o t = s \o (u \o t)
  BY ConcatAssociative
<1>3. s \o u \in Seq(Lines)
  BY ConcatProperties
<1>4. Append(u, n) = u \o t /\ Append(s \o u, n) = (s \o u) \o t
  BY <1>1, <1>3, AppendIsConcat
<1> QED BY <1>2, <1>4

\* Printing, into the buffer or past it, adds one line to the end of the output.
LEMMA OutputGrows ==
  ASSUME RunInv, NEW n \in Lines, \A m \in printed : m < n,
         printed' = printed \cup {n},
         written' \o unwritten' = Append(written \o unwritten, n)
  PROVE  OutputOnce'
<1>1. PICK s : s = written \o unwritten
  OBVIOUS
<1>2. s \in Seq(Lines)
  BY <1>1, ConcatProperties DEF RunInv, TypeOK
<1>3. ToSet(s) = printed /\ \A i, j \in DOMAIN s : i < j => s[i] < s[j]
  BY <1>1 DEF RunInv, OutputOnce
<1>4. /\ ToSet(Append(s, n)) = printed \cup {n}
      /\ \A i, j \in DOMAIN Append(s, n) : i < j => Append(s, n)[i] < Append(s, n)[j]
  BY <1>2, <1>3, AppendInOrder
<1> QED BY <1>1, <1>4 DEF OutputOnce

\* A flush moves the buffer, so that the output as a whole stays as it is.
LEMMA FlushKeepsOutput ==
  ASSUME TypeOK
  PROVE  /\ Flushed(unwritten) \in Seq(Lines)
         /\ Flushed(unwritten) \o <<>> = written \o unwritten
<1>1. written \in Seq(Lines) /\ unwritten \in Seq(Lines)
  BY DEF TypeOK
<1> QED BY <1>1, ConcatProperties, ConcatEmptySeq DEF Flushed
-----------------------------------------------------------------------------
LEMMA FillBufferInv == ASSUME RunInv, FillBuffer PROVE RunInv'
<1>1. /\ unread = <<>> /\ unread' = FromTo(offset + 1, LastBlock) /\ offset' = LastBlock
      /\ UNCHANGED <<input, taken, printed, written, unwritten, phase, line, childVars>>
  BY DEF FillBuffer
<1>2. /\ offset + 1 \in 1 .. Length /\ LastBlock \in offset + 1 .. Length /\ offset \in Nat /\ Length \in Nat
  BY NextBlock, RunAssumption DEF FillBuffer, RunInv, TypeOK
<1>3. /\ unread' \in Seq(Lines) /\ DOMAIN unread' = 1 .. LastBlock - (offset + 1) + 1
      /\ \A k \in 1 .. LastBlock - (offset + 1) + 1 : unread'[k] = (offset + 1) + k - 1
      /\ ToSet(unread') = offset + 1 .. LastBlock
  BY <1>1, <1>2, FromToSeq
<1>4. taken = 1 .. offset
  <2>1. ToSet(unread) = {}
    <3>1. Len(unread) = 0
      BY <1>1
    <3> QED BY <3>1, <1>1, LenProperties, EmptySeq DEF ToSet
  <2>2. taken = 1 .. offset \ ToSet(unread)
    BY DEF RunInv, LinesOnce
  <2> QED BY <2>1, <2>2
<1>5. TypeOK'
  BY <1>1, <1>2, <1>3 DEF RunInv, TypeOK, childVars
<1>6. LinesOnce'
  <2>1. taken' = 1 .. offset' \ ToSet(unread')
    BY <1>1, <1>2, <1>3, <1>4
  <2> QED BY <1>2, <1>3, <2>1 DEF LinesOnce
<1>7. OutputOnce'
  BY <1>1 DEF RunInv, OutputOnce
<1>8. BuffersInOrder'
  <2>1. line \in Nat /\ line <= offset
    BY DEF RunInv, TypeOK, Lines, BuffersInOrder
  <2> QED BY <1>1, <1>2, <1>3, <2>1 DEF RunInv, BuffersInOrder, childVars
<1> QED BY <1>5, <1>6, <1>7, <1>8 DEF RunInv

LEMMA TakeLineInv == ASSUME RunInv, TakeLine PROVE RunInv'
<1>1. /\ unread # <<>> /\ phase = "read" /\ line' = Head(unread) /\ unread' = Tail(unread)
      /\ taken' = taken \cup {line'}
      /\ UNCHANGED <<input, offset, childVars>>
  BY DEF TakeLine
<1>2. /\ unread \in Seq(Lines) /\ unwritten \in Seq(Lines) /\ unread' \in Seq(Lines)
      /\ Len(unread) \in Nat \ {0} /\ DOMAIN unread = 1 .. Len(unread)
      /\ Len(unread') = Len(unread) - 1 /\ DOMAIN unread' = 1 .. Len(unread')
      /\ line' = unread[1] /\ \A i \in 1 .. Len(unread') : unread'[i] = unread[i + 1]
  <2>1. unread \in Seq(Lines) /\ unwritten \in Seq(Lines)
    BY DEF RunInv, TypeOK
  <2> QED BY <1>1, <2>1, LenProperties, EmptySeq, HeadTailProperties
<1>3. \A i \in 1 .. Len(unread) : unread[i] \in Lines /\ line < unread[i] /\ unread[i] <= offset
  BY <1>2, ElementOfSeq DEF RunInv, BuffersInOrder
<1>4. line' \in Lines /\ line < line' /\ line' <= offset /\ line \in Nat /\ offset \in 0 .. Length
  BY <1>2, <1>3 DEF RunInv, TypeOK, Lines
<1>5. \A i \in 1 .. Len(unread') : line' < unread'[i] /\ unread'[i] <= offset
  <2> SUFFICES ASSUME NEW i \in 1 .. Len(unread') PROVE line' < unread'[i] /\ unread'[i] <= offset
    OBVIOUS
  <2>1. 1 \in DOMAIN unread /\ i + 1 \in DOMAIN unread /\ 1 < i + 1
    BY <1>2
  <2>2. unread[1] < unread[i + 1]
    BY <2>1 DEF RunInv, LinesOnce
  <2> QED BY <1>2, <1>3, <2>1, <2>2
<1>6. LinesOnce'
  <2>1. taken' = 1 .. offset' \ ToSet(unread')
    <3>1. ToSet(unread) = ToSet(unread') \cup {line'}
      <4>1. \A i \in 1 .. Len(unread) : i = 1 \/ i - 1 \in 1 .. Len(unread')
        BY <1>2
      <4>2. \A i \in 1 .. Len(unread) : unread[i] = line' \/ \E j \in 1 .. Len(unread') : unread'[j] = unread[i]
        <5> SUFFICES ASSUME NEW i \in 1 .. Len(unread), i # 1
                     PROVE  unread'[i - 1] = unread[i] /\ i - 1 \in 1 .. Len(unread')
          BY <1>2
        <5> QED BY <1>2
      <4>3. \A j \in 1 .. Len(unread') : \E i \in 1 .. Len(unread) : unread'[j] = unread[i]
        <5> SUFFICES ASSUME NEW j \in 1 .. Len(unread')
                     PROVE  unread'[j] = unread[j + 1] /\ j + 1 \in 1 .. Len(unread)
          OBVIOUS
        <5> QED BY <1>2
      <4>4. 1 \in DOMAIN unread
        BY <1>2
      <4>5. ToSet(unread) = {unread[i] : i \in 1 .. Len(unread)}
        BY <1>2 DEF ToSet
      <4>6. ToSet(unread') = {unread'[i] : i \in 1 .. Len(unread')}
        BY <1>2 DEF ToSet
      <4>7. ToSet(unread) \subseteq ToSet(unread') \cup {line'}
        BY <4>2, <4>5, <4>6
      <4>8. ToSet(unread') \subseteq ToSet(unread)
        BY <4>3, <4>5, <4>6
      <4>9. line' \in ToSet(unread)
        BY <1>2, <4>4 DEF ToSet
      <4> QED BY <4>7, <4>8, <4>9
    <3>2. line' \notin ToSet(unread')
      <4>1. \A i \in 1 .. Len(unread') : unread'[i] # line'
        BY <1>2, <1>3, <1>4, <1>5 DEF Lines
      <4> QED BY <1>2, <4>1 DEF ToSet
    <3>3. line' \in 1 .. offset
      BY <1>4 DEF Lines
    <3>4. taken = 1 .. offset \ ToSet(unread)
      BY DEF RunInv, LinesOnce
    <3> QED BY <1>1, <3>1, <3>2, <3>3, <3>4
  <2>2. ASSUME NEW i \in DOMAIN unread', NEW j \in DOMAIN unread', i < j
        PROVE  unread'[i] < unread'[j]
    <3>1. i + 1 \in DOMAIN unread /\ j + 1 \in DOMAIN unread /\ i + 1 < j + 1
      BY <1>2, <2>2
    <3>2. unread[i + 1] < unread[j + 1]
      BY <3>1 DEF RunInv, LinesOnce
    <3> QED BY <1>2, <3>2
  <2> QED BY <2>1, <2>2 DEF LinesOnce
<1>7. /\ written' \in Seq(Lines) /\ unwritten' \in Seq(Lines) /\ Len(unwritten') <= OutSize
      /\ OutputOnce'
      /\ \/ printed' = printed
         \/ printed' = printed \cup {line'} /\ phase' = "read"
      /\ phase' \in {"read", "run"}
  <2>0. /\ written \in Seq(Lines) /\ Len(unwritten) \in Nat /\ Len(unwritten) <= OutSize
        /\ \A m \in printed : m < line'
    <3>1. \A m \in printed : m \in Nat /\ m <= line
      BY DEF RunInv, TypeOK, BuffersInOrder, Lines
    <3>2. line' \in Nat
      BY <1>4 DEF Lines
    <3> QED BY <1>2, <1>4, <3>1, <3>2, LenProperties DEF RunInv, TypeOK
  <2>1. CASE phase' = "run" /\ UNCHANGED <<printed, unwritten, written>>
    BY <2>1 DEF RunInv, TypeOK, OutputOnce
  <2>2. CASE /\ UNCHANGED phase /\ printed' = printed \cup {line'} /\ Len(unwritten) < OutSize
             /\ unwritten' = Append(unwritten, line') /\ UNCHANGED written
    <3>1. unwritten' \in Seq(Lines) /\ Len(unwritten') = Len(unwritten) + 1
      BY <1>2, <1>4, <2>2, AppendProperties
    <3>2. written \o Append(unwritten, line') = Append(written \o unwritten, line')
      BY <1>2, <1>4, <2>0, AppendIsLast
    <3>3. OutputOnce'
      BY <1>4, <2>0, <2>2, <3>2, OutputGrows
    <3>4. Len(unwritten') <= OutSize
      BY <2>0, <2>2, <3>1, RunAssumption
    <3> QED BY <1>1, <2>0, <2>2, <3>1, <3>3, <3>4
  <2>3. CASE /\ UNCHANGED phase /\ printed' = printed \cup {line'}
             /\ unwritten' = <<line'>> /\ written' = Flushed(unwritten)
    <3>1. unwritten' \in Seq(Lines) /\ Len(unwritten') = 1 /\ 1 <= OutSize
      BY <1>4, <2>3, RunAssumption
    <3>2. written' \in Seq(Lines)
      BY <2>3, FlushKeepsOutput DEF RunInv
    <3>3. written' \o unwritten' = Append(written \o unwritten, line')
      BY <1>4, <2>3, <3>2, AppendIsConcat DEF Flushed
    <3>4. OutputOnce'
      BY <1>4, <2>0, <2>3, <3>3, OutputGrows
    <3> QED BY <1>1, <2>3, <3>1, <3>2, <3>4
  <2> QED BY <2>1, <2>2, <2>3 DEF TakeLine
<1>8. child = "none"
  BY <1>1 DEF RunInv, TypeOK
<1>9. TypeOK'
  <2>1. taken' \subseteq Lines /\ printed' \subseteq Lines
    BY <1>1, <1>4, <1>7 DEF RunInv, TypeOK
  <2> QED BY <1>1, <1>2, <1>4, <1>7, <1>8, <2>1 DEF RunInv, TypeOK, childVars
<1>10. BuffersInOrder'
  <2>1. \A n \in printed : n < line' /\ n <= line'
    <3>1. \A n \in printed : n \in Nat /\ n <= line
      BY DEF RunInv, TypeOK, BuffersInOrder, Lines
    <3> QED BY <1>4, <3>1 DEF Lines
  <2>2. line' \in Nat /\ line' <= line' /\ line' \notin printed
    BY <1>4, <2>1 DEF Lines
  <2>3. \A n \in printed' : n <= line'
    BY <1>7, <2>1, <2>2
  <2> QED BY <1>1, <1>2, <1>4, <1>5, <1>7, <1>8, <2>2, <2>3 DEF RunInv, BuffersInOrder, childVars
<1> QED BY <1>6, <1>7, <1>9, <1>10 DEF RunInv

\* The buffer of the output is written, and nothing of the input is used.
LEMMA FlushInv ==
  ASSUME RunInv, EndOfInput \/ Fork \/ ForkFails
  PROVE  RunInv'
<1>1. /\ written' = Flushed(unwritten) /\ unwritten' = <<>>
      /\ UNCHANGED <<input, offset, taken, printed, unread, line, child_unwritten>>
  BY DEF EndOfInput, Fork, ForkFails, childVars, RunInv, BuffersInOrder
<1>2. written' \in Seq(Lines) /\ written' \o unwritten' = written \o unwritten
  BY <1>1, FlushKeepsOutput DEF RunInv
<1>3. TypeOK'
  <2>1. <<>> \in Seq(Lines) /\ Len(<<>>) <= OutSize
    BY RunAssumption
  <2> QED BY <1>1, <1>2, <2>1 DEF RunInv, TypeOK, EndOfInput, Fork, ForkFails, childVars
<1>4. LinesOnce' /\ OutputOnce'
  BY <1>1, <1>2 DEF RunInv, LinesOnce, OutputOnce
<1>5. BuffersInOrder'
  <2>1. CASE EndOfInput
    BY <1>1, <2>1 DEF RunInv, TypeOK, BuffersInOrder, EndOfInput, childVars
  <2>2. CASE Fork \/ ForkFails
    BY <1>1, <2>2 DEF RunInv, TypeOK, BuffersInOrder, Fork, ForkFails, childVars
  <2> QED BY <2>1, <2>2
<1> QED BY <1>3, <1>4, <1>5 DEF RunInv

\* The child, and the shell that awaits it.
LEMMA ChildInv ==
  ASSUME RunInv, Wait \/ Exec \/ ProgramEnds \/ CloseStdin \/ ChildExits
  PROVE  RunInv'
<1>1. UNCHANGED <<input, taken, unread, unwritten, line>>
  BY DEF Wait, Exec, ProgramEnds, CloseStdin, ChildExits, shellVars
<1>2. offset' = offset
  <2>1. CASE ChildExits
    <3>1. child_unread = <<>> /\ offset \in Nat
      BY <2>1 DEF ChildExits, RunInv, BuffersInOrder, TypeOK
    <3> QED BY <2>1, <3>1 DEF ChildExits
  <2> QED BY <2>1 DEF Wait, Exec, ProgramEnds, CloseStdin, ChildExits
<1>3. child # "none" /\ unwritten = <<>> /\ written \in Seq(Lines) /\ printed \subseteq Lines
  BY DEF Wait, Exec, ProgramEnds, CloseStdin, ChildExits, RunInv, TypeOK, BuffersInOrder
<1>4. /\ written' \in Seq(Lines) /\ printed' \subseteq printed \cup {line} /\ printed' \subseteq Lines
      /\ OutputOnce'
  <2>1. CASE ProgramEnds
    <3>1. line \in Lines /\ \A m \in printed : m < line
      <4>1. child = "program"
        BY <2>1 DEF ProgramEnds
      <4>2. line \in Lines \ printed /\ \A m \in printed : m <= line
        BY <4>1 DEF RunInv, BuffersInOrder
      <4> QED BY <1>3, <4>2 DEF Lines
    <3>2. written' = Append(written, line) /\ printed' = printed \cup {line}
      BY <2>1 DEF ProgramEnds
    <3>3. written' \in Seq(Lines)
      BY <1>3, <3>1, <3>2, AppendProperties
    <3>4. written' \o unwritten' = Append(written \o unwritten, line)
      BY <1>1, <1>3, <3>2, <3>3, ConcatEmptySeq
    <3> QED BY <1>3, <3>1, <3>2, <3>3, <3>4, OutputGrows
  <2>2. CASE UNCHANGED <<written, printed>>
    BY <1>1, <1>3, <2>2 DEF RunInv, OutputOnce
  <2>3. CASE ChildExits
    <3>1. written' = written /\ printed' = printed
      BY <1>3, <2>3, ConcatEmptySeq DEF ChildExits, Flushed, RunInv, BuffersInOrder
    <3> QED BY <2>2, <3>1
  <2> QED BY <2>1, <2>2, <2>3 DEF Wait, Exec, CloseStdin
<1>5. TypeOK'
  <2>1. <<>> \in Seq(Lines)
    OBVIOUS
  <2> QED BY <1>1, <1>2, <1>4, <2>1
         DEF RunInv, TypeOK, Wait, Exec, ProgramEnds, CloseStdin, ChildExits, shellVars
<1>6. LinesOnce'
  BY <1>1, <1>2 DEF RunInv, LinesOnce
<1>7. BuffersInOrder'
  <2>1. line \in Nat /\ \A n \in printed' : n <= line
    BY <1>4 DEF RunInv, TypeOK, Lines, BuffersInOrder
  <2>2. child_unwritten' = <<>> /\ (child' = "closed" => child_unread' = <<>>)
    BY DEF RunInv, BuffersInOrder, Wait, Exec, ProgramEnds, CloseStdin, ChildExits
  <2>3. phase' = "run" \/ child' \in {"forked", "program"} => line \in Lines \ printed'
    BY DEF RunInv, TypeOK, BuffersInOrder, Wait, Exec, ProgramEnds, CloseStdin, ChildExits, shellVars
  <2> QED BY <1>1, <1>2, <1>3, <2>1, <2>2, <2>3 DEF RunInv, BuffersInOrder
<1> QED BY <1>4, <1>5, <1>6, <1>7 DEF RunInv

\* A program takes lines from the input that the shell has not read.
LEMMA ProgramReadsInv == ASSUME RunInv, ProgramReads PROVE RunInv'
<1>1. /\ offset' = LastBlock /\ taken' = taken \cup (offset + 1 .. LastBlock)
      /\ UNCHANGED <<input, printed, written, shellVars, childVars>>
  BY DEF ProgramReads
<1>2. offset + 1 \in 1 .. Length /\ LastBlock \in offset + 1 .. Length /\ offset \in Nat /\ Length \in Nat
  BY NextBlock, RunAssumption DEF ProgramReads, RunInv, TypeOK
<1>3. \A i \in DOMAIN unread : unread[i] \in Lines /\ unread[i] <= offset
  BY LenProperties, ElementOfSeq DEF RunInv, TypeOK, BuffersInOrder
<1>4. TypeOK'
  BY <1>1, <1>2 DEF RunInv, TypeOK, Lines, shellVars, childVars
<1>5. LinesOnce'
  <2>1. \A n \in ToSet(unread) : n \in Lines /\ n <= offset
    BY <1>3 DEF ToSet
  <2>2. taken = 1 .. offset \ ToSet(unread)
    BY DEF RunInv, LinesOnce
  <2>3. taken \cup (offset + 1 .. LastBlock) = 1 .. LastBlock \ ToSet(unread)
    BY <1>2, <2>1, <2>2 DEF Lines
  <2> QED BY <1>1, <2>3 DEF RunInv, LinesOnce, shellVars
<1>6. OutputOnce'
  BY <1>1 DEF RunInv, OutputOnce, shellVars
<1>7. BuffersInOrder'
  <2>1. line \in Nat /\ line <= offset
    BY DEF RunInv, TypeOK, Lines, BuffersInOrder
  <2> QED BY <1>1, <1>2, <1>3, <2>1 DEF RunInv, BuffersInOrder, Lines, shellVars, childVars
<1> QED BY <1>4, <1>5, <1>6, <1>7 DEF RunInv

LEMMA RunInvariant == Spec => []RunInv
<1>1. Init => RunInv
  <2> SUFFICES ASSUME Init PROVE RunInv
    OBVIOUS
  <2>1. TypeOK
    BY RunAssumption DEF Init, TypeOK
  <2>2. LinesOnce
    BY DEF Init, LinesOnce, ToSet
  <2>3. OutputOnce
    BY DEF Init, OutputOnce, ToSet
  <2> QED BY <2>1, <2>2, <2>3 DEF Init, RunInv, BuffersInOrder
<1>2. RunInv /\ [Next]_vars => RunInv'
  <2> SUFFICES ASSUME RunInv, [Next]_vars PROVE RunInv'
    OBVIOUS
  <2>1. CASE UNCHANGED vars
    BY <2>1 DEF RunInv, TypeOK, LinesOnce, OutputOnce, BuffersInOrder, vars, shellVars, childVars
  <2>2. CASE Next
    BY <2>2, FillBufferInv, TakeLineInv, FlushInv, ChildInv, ProgramReadsInv
       DEF Next, ShellNext, ChildNext
  <2> QED BY <2>1, <2>2
<1> QED BY <1>1, <1>2, PTL DEF Spec
-----------------------------------------------------------------------------
\* Buffers, offsets and the two processes stay in their ranges for every input: no
\* block is read past the end and no process waits for a child that does not exist.
THEOREM RunTypeCorrect == Spec => []TypeOK
  BY RunInvariant, PTL DEF RunInv

\* Every line of the input is interpreted by the shell or read by a program, once,
\* however many programs are run and whether or not they can be.
THEOREM EveryLineOnce == Spec => []LinesOnce
  BY RunInvariant, PTL DEF RunInv

\* The output of the shell and of the programs it runs is written in the order of
\* the lines that caused it, and of all that has been printed nothing is lost or
\* written twice.
THEOREM OutputInOrder == Spec => []OutputOnce
  BY RunInvariant, PTL DEF RunInv
=============================================================================
