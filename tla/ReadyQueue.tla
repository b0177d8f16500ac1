----------------------------- MODULE ReadyQueue -----------------------------
(***************************************************************************)
(* The operations of ready_queue.c on the sequence of waiting processes,   *)
(* head first.  A score or a job time is a function of the process: in the *)
(* code it is a field of the PCB that is linked into the list.             *)
(***************************************************************************)
EXTENDS Integers, Sequences, SequencesExt

\* ready_queue_add_to_tail
AddToTail(queue, p) == Append(queue, p)

\* ready_queue_add_to_head
AddToHead(queue, p) == <<p>> \o queue

\* ready_queue_pop_head returns Head(queue) and leaves:
PopHead(queue) == Tail(queue)

\* ready_queue_insert_sorted: before the first process with a greater score.
\* The scan starts at the head whether or not the queue is sorted.
InsertSorted(queue, p, score) ==
  LET greater == {i \in DOMAIN queue : score[queue[i]] > score[p]}
  IN  IF greater = {} THEN Append(queue, p) ELSE InsertAt(queue, Min(greater), p)

\* A broken AgeAll, without the test for zero.
AgeAllBelowZero(queue, score) ==
  [p \in DOMAIN score |-> IF p \in ToSet(queue) THEN score[p] - 1 ELSE score[p]]

\* ready_queue_age_all: every waiting process, down to zero.
AgeAll(queue, score) ==
  [p \in DOMAIN score |->
     IF p \in ToSet(queue) /\ score[p] > 0 THEN score[p] - 1 ELSE score[p]]

\* Two broken pops: the head is taken for the shortest, or the head is unlinked
\* in its place.
FirstIndex(queue, job_time) == 1
UnlinkHead(queue, job_time) == Tail(queue)

\* ready_queue_pop_shortest removes the first process of least job time ...
ShortestIndex(queue, job_time) ==
  CHOOSE i \in DOMAIN queue : \A j \in DOMAIN queue :
    \/ job_time[queue[i]] < job_time[queue[j]]
    \/ job_time[queue[i]] = job_time[queue[j]] /\ i <= j
\* ... and leaves:
PopShortest(queue, job_time) == RemoveAt(queue, ShortestIndex(queue, job_time))

\* "keep AGING queue ordered by score (low score first)"
SortedByScore(queue, score) ==
  \A i, j \in DOMAIN queue : i < j => score[queue[i]] <= score[queue[j]]
=============================================================================
