---------------------------- MODULE WaitingQueue ----------------------------
(***************************************************************************)
(* What the ready queue promises its callers: a sequence of distinct       *)
(* processes on which each call of ready_queue.h does one of the           *)
(* operations of ReadyQueue, at once.                                      *)
(***************************************************************************)
EXTENDS ReadyQueue

CONSTANTS
  Processes,  \* the PCBs there can be
  NULL,       \* the result of popping an empty queue
  job_time    \* job_time[p], set once by make_pcb

VARIABLES
  queue,             \* the waiting processes, head first
  job_length_score,  \* job_length_score[p], lowered by aging
  done               \* the last call: its name, its argument or its result

queueVars == <<queue, job_length_score, done>>

Call(name, p) == [op |-> name, process |-> p]

QueueInit ==
  queue = <<>> /\ job_length_score \in [Processes -> Nat] /\ done = Call("none", NULL)

\* Only a process that is not waiting is ever queued.
Queued(name, p, after) ==
  /\ p \notin ToSet(queue)
  /\ queue' = after
  /\ done' = Call(name, p)
  /\ UNCHANGED job_length_score

Popped(name, after, p) ==
  /\ queue' = after
  /\ done' = Call(name, p)
  /\ UNCHANGED job_length_score

QueueNext ==
  \/ \E p \in Processes :
       \/ Queued("add_to_tail", p, AddToTail(queue, p))
       \/ Queued("add_to_head", p, AddToHead(queue, p))
       \/ Queued("insert_sorted", p, InsertSorted(queue, p, job_length_score))
  \/ queue # <<>> /\ Popped("pop_head", PopHead(queue), Head(queue))
  \/ /\ queue # <<>>
     /\ Popped("pop_shortest", PopShortest(queue, job_time),
               queue[ShortestIndex(queue, job_time)])
  \/ queue = <<>> /\ \E name \in {"pop_head", "pop_shortest"} : Popped(name, <<>>, NULL)
  \/ /\ job_length_score' = AgeAll(queue, job_length_score)
     /\ done' = Call("age_all", NULL)
     /\ UNCHANGED queue

QueueSpec == QueueInit /\ [][QueueNext]_queueVars
=============================================================================
