--------------------------- MODULE ReadyQueueList ---------------------------
(***************************************************************************)
(* ready_queue.c as it is written: a singly linked list through the next   *)
(* fields of the PCBs, with head and tail pointers that five operations    *)
(* keep up by hand, and loops that search it one node at a time.           *)
(*                                                                         *)
(* Straight-line code is one step; each round of a loop is a step.         *)
(***************************************************************************)
EXTENDS Integers, FiniteSets, Sequences

CONSTANTS
  Processes,  \* the PCBs there can be
  NULL,       \* the null pointer
  job_time,   \* job_time[p], set once by make_pcb
  MaxScore    \* bound on the scores that make_pcb sets

ASSUME ListAssumption ==
  /\ IsFiniteSet(Processes)
  /\ NULL \notin Processes
  /\ job_time \in [Processes -> Nat]
  /\ MaxScore \in Nat

VARIABLES
  head, tail, next,  \* the list
  job_length_score,
  loose,             \* PCBs that the callers hold: new ones, or popped ones
  done,              \* the last call: its name, its argument or its result
  loop,              \* the loop that runs: "seek", "scan", "age" or "none"
  arg,               \* the locals of the loops, NULL when none runs: p of insert_sorted
  curr, prev,        \* ... the cursors
  min_node, min_prev \* ... the shortest so far

listVars == <<head, tail, next>>
localVars == <<arg, curr, prev, min_node, min_prev>>
vars == <<listVars, job_length_score, loose, done, loop, localVars>>

NoLocals ==
  arg' = NULL /\ curr' = NULL /\ prev' = NULL /\ min_node' = NULL /\ min_prev' = NULL

Pointers == Processes \cup {NULL}
Call(name, p) == [op |-> name, process |-> p]
-----------------------------------------------------------------------------
Init ==
  /\ head = NULL /\ tail = NULL
  /\ next = [p \in Processes |-> NULL]
  /\ job_length_score \in [Processes -> 0 .. MaxScore]
  /\ loose = Processes
  /\ done = Call("none", NULL)
  /\ loop = "none"
  /\ arg = NULL /\ curr = NULL /\ prev = NULL /\ min_node = NULL /\ min_prev = NULL

Queued(name, p) ==
  /\ loose' = loose \ {p}
  /\ done' = Call(name, p)

AddToTail(p) ==
  /\ loop = "none" /\ p \in loose
  /\ head' = IF head = NULL THEN p ELSE head
  /\ tail' = p
  /\ next' = [q \in Processes |->
       IF q = p THEN NULL ELSE IF head # NULL /\ q = tail THEN p ELSE next[q]]
  /\ Queued("add_to_tail", p)
  /\ UNCHANGED <<job_length_score, loop, localVars>>

AddToHead(p) ==
  /\ loop = "none" /\ p \in loose
  /\ head' = p
  /\ tail' = IF head = NULL THEN p ELSE tail
  /\ next' = [next EXCEPT ![p] = head]
  /\ Queued("add_to_head", p)
  /\ UNCHANGED <<job_length_score, loop, localVars>>

\* A broken PopHead: the tail still points to the last process popped.
PopHeadKeepsTail ==
  /\ loop = "none" /\ head # NULL
  /\ head' = next[head]
  /\ next' = [next EXCEPT ![head] = NULL]
  /\ loose' = loose \cup {head}
  /\ done' = Call("pop_head", head)
  /\ UNCHANGED <<tail, job_length_score, loop, localVars>>

PopHead ==
  /\ loop = "none" /\ head # NULL
  /\ head' = next[head]
  /\ tail' = IF next[head] = NULL THEN NULL ELSE tail
  /\ next' = [next EXCEPT ![head] = NULL]
  /\ loose' = loose \cup {head}
  /\ done' = Call("pop_head", head)
  /\ UNCHANGED <<job_length_score, loop, localVars>>

PopNothing ==
  /\ loop = "none" /\ head = NULL
  /\ \E name \in {"pop_head", "pop_shortest"} : done' = Call(name, NULL)
  /\ UNCHANGED <<listVars, job_length_score, loose, loop, localVars>>
-----------------------------------------------------------------------------
\* ready_queue_insert_sorted up to its loop: into an empty queue ...
InsertIntoEmpty(p) ==
  /\ loop = "none" /\ p \in loose /\ head = NULL
  /\ head' = p /\ tail' = p
  /\ next' = [next EXCEPT ![p] = NULL]
  /\ Queued("insert_sorted", p)
  /\ UNCHANGED <<job_length_score, loop, localVars>>

\* ... or before the head ...
InsertBeforeHead(p) ==
  /\ loop = "none" /\ p \in loose
  /\ head # NULL /\ job_length_score[p] < job_length_score[head]
  /\ head' = p
  /\ next' = [next EXCEPT ![p] = head]
  /\ Queued("insert_sorted", p)
  /\ UNCHANGED <<tail, job_length_score, loop, localVars>>

\* ... or the search for its place begins.
Seek(p) ==
  /\ loop = "none" /\ p \in loose
  /\ head # NULL /\ job_length_score[p] >= job_length_score[head]
  /\ next' = [next EXCEPT ![p] = NULL]
  /\ loop' = "seek"
  /\ arg' = p /\ curr' = head
  /\ UNCHANGED <<head, tail, job_length_score, loose, done, prev, min_node, min_prev>>

\* A broken search, which stops at the first process of the same score.
StopsAtTies(c) ==
  next[c] # NULL /\ job_length_score[next[c]] < job_length_score[arg]

\* The condition of the loop.
GoesOn(c) == next[c] # NULL /\ job_length_score[next[c]] <= job_length_score[arg]

SeekOn ==
  /\ loop = "seek" /\ GoesOn(curr)
  /\ curr' = next[curr]
  /\ UNCHANGED <<listVars, job_length_score, loose, done, loop, arg, prev, min_node, min_prev>>

\* A broken InsertAfter: the tail stays where it was.
InsertAfterKeepsTail ==
  /\ loop = "seek" /\ ~GoesOn(curr)
  /\ next' = [next EXCEPT ![arg] = next[curr], ![curr] = arg]
  /\ Queued("insert_sorted", arg)
  /\ loop' = "none"
  /\ NoLocals
  /\ UNCHANGED <<head, tail, job_length_score>>

InsertAfter ==
  /\ loop = "seek" /\ ~GoesOn(curr)
  /\ next' = [next EXCEPT ![arg] = next[curr], ![curr] = arg]
  /\ tail' = IF next[curr] = NULL THEN arg ELSE tail
  /\ Queued("insert_sorted", arg)
  /\ loop' = "none"
  /\ NoLocals
  /\ UNCHANGED <<head, job_length_score>>
-----------------------------------------------------------------------------
Scan ==
  /\ loop = "none" /\ head # NULL
  /\ loop' = "scan"
  /\ prev' = NULL /\ curr' = head /\ min_prev' = NULL /\ min_node' = head
  /\ UNCHANGED <<listVars, job_length_score, loose, done, arg>>

ScanOn ==
  /\ loop = "scan" /\ curr # NULL
  /\ IF job_time[curr] < job_time[min_node]
     THEN min_node' = curr /\ min_prev' = prev
     ELSE UNCHANGED <<min_node, min_prev>>
  /\ prev' = curr
  /\ curr' = next[curr]
  /\ UNCHANGED <<listVars, job_length_score, loose, done, loop, arg>>

\* min_node is taken out of the list.
Unlink ==
  /\ loop = "scan" /\ curr = NULL
  /\ head' = IF min_prev = NULL THEN next[min_node] ELSE head
  /\ next' = [q \in Processes |->
       IF q = min_node THEN NULL ELSE IF q = min_prev THEN next[min_node] ELSE next[q]]
  /\ tail' = IF tail = min_node THEN min_prev ELSE tail
  /\ loose' = loose \cup {min_node}
  /\ done' = Call("pop_shortest", min_node)
  /\ loop' = "none"
  /\ NoLocals
  /\ UNCHANGED job_length_score
-----------------------------------------------------------------------------
\* ready_queue_age_all walks the list.
Age ==
  /\ loop = "none"
  /\ loop' = "age"
  /\ curr' = head
  /\ done' = Call("age_all", NULL)
  /\ UNCHANGED <<listVars, job_length_score, loose, arg, prev, min_node, min_prev>>

\* Two broken rounds: a score of 0 is lowered too, or the walk stays at a
\* process whose score it has not lowered.
AgeBelowZero ==
  /\ loop = "age" /\ curr # NULL
  /\ job_length_score' = [job_length_score EXCEPT ![curr] = @ - 1]
  /\ curr' = next[curr]
  /\ UNCHANGED <<listVars, loose, done, loop, arg, prev, min_node, min_prev>>

AgeStays ==
  /\ loop = "age" /\ curr # NULL
  /\ IF job_length_score[curr] > 0
     THEN /\ job_length_score' = [job_length_score EXCEPT ![curr] = @ - 1]
          /\ curr' = next[curr]
     ELSE UNCHANGED <<job_length_score, curr>>
  /\ UNCHANGED <<listVars, loose, done, loop, arg, prev, min_node, min_prev>>

AgeOn ==
  /\ loop = "age" /\ curr # NULL
  /\ job_length_score' =
       [job_length_score EXCEPT ![curr] = IF @ > 0 THEN @ - 1 ELSE @]
  /\ curr' = next[curr]
  /\ UNCHANGED <<listVars, loose, done, loop, arg, prev, min_node, min_prev>>

Aged ==
  /\ loop = "age" /\ curr = NULL
  /\ loop' = "none"
  /\ NoLocals
  /\ UNCHANGED <<listVars, job_length_score, loose, done>>
-----------------------------------------------------------------------------
CallNext ==
  \/ \E p \in Processes :
       \/ AddToTail(p) \/ AddToHead(p)
       \/ InsertIntoEmpty(p) \/ InsertBeforeHead(p) \/ Seek(p)
  \/ PopHead \/ PopNothing \/ Scan \/ Age

LoopNext == SeekOn \/ InsertAfter \/ ScanOn \/ Unlink \/ AgeOn \/ Aged

Next == CallNext \/ LoopNext

\* A loop that has begun goes on.
Spec == Init /\ [][Next]_vars /\ WF_vars(LoopNext)
-----------------------------------------------------------------------------
TypeOK ==
  /\ {head, tail, arg, curr, prev, min_node, min_prev} \subseteq Pointers
  /\ next \in [Processes -> Pointers]
  /\ job_length_score \in [Processes -> Nat]
  /\ loose \subseteq Processes
  /\ done \in [op : {"none", "add_to_tail", "add_to_head", "insert_sorted", "pop_head",
                     "pop_shortest", "age_all"}, process : Pointers]
  /\ loop \in {"none", "seek", "scan", "age"}

\* The sequences in which the processes that are not loose can wait.
Orders ==
  LET waiting == Processes \ loose
  IN  {s \in [1 .. Cardinality(waiting) -> waiting] : {s[i] : i \in DOMAIN s} = waiting}

\* The pointers spell out the sequence s.
Spells(s) ==
  /\ head = IF s = <<>> THEN NULL ELSE s[1]
  /\ tail = IF s = <<>> THEN NULL ELSE s[Len(s)]
  /\ \A i \in DOMAIN s : next[s[i]] = IF i = Len(s) THEN NULL ELSE s[i + 1]

Contents == CHOOSE s \in Orders : Spells(s)

\* No operation loses a process, queues one twice or leaves the tail behind: the
\* list from head to tail is at all times the processes that were queued and not
\* popped, and those that were popped point nowhere into it.
ListIntact ==
  /\ \E s \in Orders : Spells(s)
  /\ \A p \in loose : next[p] = NULL
-----------------------------------------------------------------------------
\* Processes that a walk at node c of the list has still to visit.
Ahead(c) ==
  {Contents[j] : j \in {k \in DOMAIN Contents :
                          \E i \in DOMAIN Contents : i <= k /\ Contents[i] = c}}

\* The scores as a caller sees them: aging takes effect when it is called.
SeenScore ==
  [p \in Processes |->
     IF loop = "age" /\ job_length_score[p] > 0 /\ p \in Ahead(curr)
     THEN job_length_score[p] - 1 ELSE job_length_score[p]]

Queue == INSTANCE WaitingQueue WITH queue <- Contents, job_length_score <- SeenScore

\* The list behaves as the queue of ReadyQueue that the scheduler is written
\* against: every call has the effect of its operation on the sequence, popping
\* the head or the shortest and placing a process among equal scores included.
ImplementsQueue == Queue!QueueSpec

\* Every call returns: no sequence of calls ties the list into a loop.
CallsReturn == loop # "none" ~> loop = "none"
=============================================================================
