----------------------------- MODULE MyshProofs -----------------------------
(***************************************************************************)
(* Two things are proved of the running shell.  It uses its memory only    *)
(* through the operations of ShellMemory, so what is proved of those holds *)
(* of the shell; and no path through the loader and the scheduling loops   *)
(* loses a process, lists one twice, or takes away the line that is being  *)
(* interpreted.  ShellInv is the inductive invariant.                      *)
(***************************************************************************)
EXTENDS Mysh, ShellMemoryProofs

\* The locals of load_and_schedule_programs.
LoaderType ==
  [scripts : Requests \cup {<<>>}, policy : Policies, needs_load : SUBSET (1 .. 3),
   loaded : SUBSET Scripts, pcbs : Seq(Pids)]

\* The three places a process can be in.
Waiting == ToSet(ready_queue)
Made == ToSet(loader.pcbs)
Popped == IF current = NoPid THEN {} ELSE {current}

\* Every live process is in one of them, once.
Accounted ==
  /\ Lists(ready_queue, Waiting) /\ Lists(loader.pcbs, Made)
  /\ live_pcbs = Waiting \cup Made \cup Popped
  /\ Waiting \cap Made = {} /\ Waiting \cap Popped = {} /\ Made \cap Popped = {}

\* Which of them can be occupied when.
Control ==
  /\ loader.pcbs # <<>> => phase \in {"loading", "queueing", "rollback"}
  /\ active = "none" =>
       /\ phase \notin {"dispatch", "slice", "yield"}
       /\ current = NoPid
       /\ ready_queue # <<>> => phase = "queueing"
  /\ active # "none" => phase # "prompt" /\ (current = NoPid <=> phase = "dispatch")

\* A line is being interpreted, directly or by what it has called.
Interpreting == {"parse", "planning", "loading", "queueing", "rollback"}

LineKept ==
  phase \in Interpreting /\ current # NoPid => CurrentPage \in AllPages /\ Resident

ShellInv ==
  /\ MemInv
  /\ MyshTypeOK
  /\ loader.needs_load \subseteq DOMAIN loader.scripts
  /\ Accounted
  /\ Control
  /\ LineKept
-----------------------------------------------------------------------------
LEMMA LoaderFields == ShellInv => loader \in LoaderType
  BY DEF ShellInv, MyshTypeOK, LoaderType

LEMMA RequestedAreScripts ==
  ASSUME ShellInv, NEW i \in DOMAIN loader.scripts
  PROVE  loader.scripts[i] \in Scripts
<1>1. loader.scripts \in Requests \/ loader.scripts = <<>>
  BY DEF ShellInv, MyshTypeOK
<1>2. CASE loader.scripts = <<>>
  BY <1>2
<1>3. CASE loader.scripts \in Requests
  BY <1>3 DEF Requests
<1> QED BY <1>1, <1>2, <1>3

LEMMA NewLoader ==
  ASSUME NEW scripts \in Requests \cup {<<>>}, NEW policy \in Policies
  PROVE  /\ Loader(scripts, policy) \in LoaderType
         /\ Loader(scripts, policy).needs_load = {}
         /\ Loader(scripts, policy).pcbs = <<>>
<1>1. <<>> \in Seq(Pids)
  OBVIOUS
<1> QED BY <1>1 DEF Loader, LoaderType

LEMMA NoLoaderType ==
  NoLoader \in LoaderType /\ NoLoader.needs_load = {} /\ NoLoader.pcbs = <<>>
<1>1. <<>> \in Requests \cup {<<>>} /\ "FCFS" \in Policies
  BY DEF Policies
<1> QED BY <1>1, NewLoader DEF NoLoader

\* A command from the prompt or from a script leaves a well-formed loader.
LEMMA InterpretType ==
  ASSUME ShellInv, NEW cmd \in Commands, Interpret(cmd), phase = "parse"
  PROVE  /\ loader' \in LoaderType /\ loader'.needs_load \subseteq DOMAIN loader'.scripts
         /\ home' \in BOOLEAN
         /\ phase' \in {"parse", "exited", "planning"}
         /\ loader'.pcbs = <<>>
<1>1. loader \in LoaderType /\ loader.pcbs = <<>> /\ home \in BOOLEAN
  BY LoaderFields DEF ShellInv, Control, MyshTypeOK
<1>2. CASE UNCHANGED <<phase, loader, home>>
  BY <1>1, <1>2 DEF ShellInv
<1>3. CASE cmd.op = "cd" /\ home' = cmd.home /\ UNCHANGED <<phase, loader>>
  <2>1. cmd.home \in BOOLEAN
    BY <1>3 DEF Commands, Requests, Policies
  <2> QED BY <1>1, <1>3, <2>1 DEF ShellInv
<1>4. CASE phase' = "exited" /\ UNCHANGED <<loader, home>>
  BY <1>1, <1>4 DEF ShellInv
<1>5. CASE /\ cmd.op \in {"exec", "source"} /\ loader' = Loader(cmd.scripts, cmd.policy)
           /\ phase' = "planning" /\ UNCHANGED home
  <2>1. cmd.scripts \in Requests /\ cmd.policy \in Policies
    BY <1>5 DEF Commands, Requests, Policies
  <2> QED BY <1>1, <1>5, <2>1, NewLoader
<1> QED BY <1>2, <1>3, <1>4, <1>5 DEF Interpret
-----------------------------------------------------------------------------
\* Every step of the shell is a step of the memory or leaves it alone.
LEMMA MemoryStep ==
  ASSUME ShellInv, [Next]_vars
  PROVE  [MemNext]_memVars
<1>1. CASE UNCHANGED vars
  BY <1>1 DEF vars
<1>2. CASE UserNext
  BY <1>2 DEF UserNext, EndOfInput, Prompt
<1>3. CASE \/ Parse \/ LineEnds \/ PlanFails \/ Plan \/ MakePcbFails \/ Enqueue \/ Schedule
           \/ Dispatch \/ Idle \/ PassOver \/ Requeue
  BY <1>3 DEF Parse, LineEnds, PlanFails, Plan, MakePcbFails, Enqueue, Schedule, Dispatch, Idle,
              PassOver, Requeue
<1>4. CASE LoadNext \/ LoadFails
  <2>1. PICK i \in ToLoad : LoadScript(loader.scripts[i]) \/ LoadScriptFails(loader.scripts[i])
    BY <1>4 DEF LoadNext, LoadFails
  <2>2. loader.scripts[i] \in Scripts
    BY RequestedAreScripts DEF ToLoad, ShellInv
  <2> QED BY <2>1, <2>2 DEF MemNext
<1>5. CASE MakePcb
  <2>1. RegisterPcb(pid_counter + 1, loader.scripts[Len(loader.pcbs) + 1])
    BY <1>5 DEF MakePcb
  <2>2. pid_counter + 1 \in Pids
    BY <2>1 DEF RegisterPcb
  <2>3. loader.scripts[Len(loader.pcbs) + 1] \in Scripts
    BY <2>1 DEF RegisterPcb, ShellInv, MemInv, MemTypeOK
  <2> QED BY <2>1, <2>2, <2>3 DEF MemNext
<1>6. CASE Unwind
  <2>1. Rollback(loader.loaded, ToSet(loader.pcbs))
    BY <1>6 DEF Unwind
  <2>2. loader.loaded \in SUBSET loaded_scripts /\ ToSet(loader.pcbs) \in SUBSET live_pcbs
    BY <2>1 DEF Rollback
  <2> QED BY <2>1, <2>2 DEF MemNext
<1>7. CASE RunLine \/ PageFault \/ FaultFails
  <2>1. \/ Fetch(current, CurrentPage)
        \/ DemandLoad(current, CurrentPage)
        \/ DemandLoadFails(current, CurrentPage)
    BY <1>7 DEF RunLine, PageFault, FaultFails
  <2>2. current \in live_pcbs /\ CurrentPage \in Pages(pcb_script[current])
    BY <2>1 DEF Fetch, DemandLoad, DemandLoadFails, Faulting
  <2>3. current \in Pids /\ CurrentPage \in AllPages
    BY <2>2, PagesType DEF ShellInv, MemInv, MemTypeOK, TablesAgree
  <2> QED BY <2>1, <2>3 DEF MemNext
<1>8. CASE Finish
  <2>1. UnregisterPcb(current)
    BY <1>8 DEF Finish
  <2>2. current \in Pids
    BY <2>1 DEF UnregisterPcb, ShellInv, MemInv, MemTypeOK
  <2> QED BY <2>1, <2>2 DEF MemNext
<1>9. CASE Exited
  BY <1>9 DEF Exited, vars
<1> QED
  BY <1>1, <1>2, <1>3, <1>4, <1>5, <1>6, <1>7, <1>8, <1>9 DEF Next, SystemNext

LEMMA MemLater == ShellInv /\ [Next]_vars => MemInv'
  BY MemoryStep, StepInv DEF ShellInv

LEMMA JobTimeType == ShellInv => JobTime \in [Pids -> Nat]
<1> SUFFICES ASSUME ShellInv, NEW q \in Pids PROVE JobTime[q] \in Nat
  BY DEF JobTime
<1>1. pcb_script[q] \in Scripts \cup {NoScript}
  BY DEF ShellInv, MemInv, MemTypeOK
<1> QED BY <1>1, ScriptsAssumption DEF JobTime

\* The scheduling loop takes one process out of the queue.
LEMMA Popping ==
  ASSUME ShellInv, Dispatch
  PROVE  /\ current' \in Waiting
         /\ Lists(ready_queue', Waiting \ {current'})
         /\ current' # NoPid
<1>1. /\ Lists(ready_queue, Waiting) /\ ready_queue # <<>>
      /\ \A p \in Waiting : p \in Pids
  BY DEF Dispatch, ShellInv, Accounted, MemInv, MemTypeOK
<1>2. CASE active = "SJF"
  <2>1. \A p \in Waiting : JobTime[p] \in Nat
    BY <1>1, JobTimeType
  <2>2. LET q == ready_queue[ShortestIndex(ready_queue, JobTime)] IN
          q \in Waiting /\ Lists(PopShortest(ready_queue, JobTime), Waiting \ {q})
    BY <1>1, <2>1, PopShortestLists
  <2>3. /\ current' = ready_queue[ShortestIndex(ready_queue, JobTime)]
        /\ ready_queue' = PopShortest(ready_queue, JobTime)
    BY <1>2 DEF Dispatch
  <2> QED BY <1>1, <2>2, <2>3, ProgramAssumption
<1>3. CASE active # "SJF"
  <2>1. current' = ready_queue[1] /\ ready_queue' = PopHead(ready_queue)
    BY <1>3 DEF Dispatch
  <2> QED BY <1>1, <2>1, PopHeadLists, ProgramAssumption
<1> QED BY <1>2, <1>3

\* What the shell keeps of itself on every step: where the thread can be.
LEMMA ControlStep ==
  ASSUME ShellInv, [Next]_vars
  PROVE  Control'
<1> USE DEF Control
<1>0. Control /\ phase \in {"prompt", "parse", "planning", "loading", "queueing", "rollback",
                            "dispatch", "slice", "yield", "exited"}
  BY DEF ShellInv, MyshTypeOK
<1>1. CASE UNCHANGED vars \/ Exited
  BY <1>0, <1>1 DEF Exited, vars, schedVars
<1>2. CASE EndOfInput
  BY <1>0, <1>2 DEF EndOfInput, schedVars
<1>3. CASE \E chain \in Typed : Prompt(chain)
  BY <1>0, <1>3 DEF Prompt, schedVars
<1>4. CASE Parse
  <2>1. \E cmd \in Commands : Interpret(cmd)
    <3>1. /\ current = NoPid => typed # <<>> /\ Interpret(Head(typed))
          /\ current # NoPid => line # <<>> /\ Interpret(Head(line))
      BY <1>4 DEF Parse
    <3>2. typed \in Seq(Commands) /\ line \in Seq(Commands)
      BY DEF ShellInv, MyshTypeOK
    <3> QED BY <3>1, <3>2, HeadTailProperties
  <2>2. /\ phase = "parse" /\ UNCHANGED <<ready_queue, active, current>>
        /\ phase' \in {"parse", "exited", "planning"} /\ loader'.pcbs = <<>>
    BY <1>4, <2>1, InterpretType DEF Parse, schedVars
  <2> QED BY <1>0, <2>2
<1>5. CASE LineEnds
  BY <1>0, <1>5 DEF LineEnds
<1>6. CASE PlanFails \/ Plan
  <2>1. /\ phase = "planning" /\ phase' \in {"parse", "loading"}
        /\ loader'.pcbs = <<>> /\ UNCHANGED <<ready_queue, active, current>>
    <3>1. loader.pcbs = <<>> /\ loader \in LoaderType
      BY <1>0, <1>6, LoaderFields DEF PlanFails, Plan
    <3>2. CASE Return
      BY <1>6, <3>2, NoLoaderType DEF Return, PlanFails, Plan, schedVars
    <3>3. CASE loader' = [loader EXCEPT !.needs_load = NeedsLoad(loader.scripts)] /\ Plan
      BY <3>1, <3>3, NoLoaderType DEF Plan, schedVars, LoaderType, Return
    <3> QED BY <1>6, <3>2, <3>3 DEF PlanFails, Plan
  <2> QED BY <1>0, <2>1
<1>7. CASE LoadNext \/ LoadFails \/ MakePcb \/ MakePcbFails
  BY <1>0, <1>7 DEF LoadNext, LoadFails, MakePcb, MakePcbFails, schedVars
<1>8. CASE Unwind
  BY <1>0, <1>8, NoLoaderType DEF Unwind, Return, schedVars
<1>9. CASE Enqueue
  BY <1>0, <1>9 DEF Enqueue
<1>10. CASE Schedule
  <2>1. loader.policy # "none"
    BY LoaderFields DEF LoaderType, Policies
  <2> QED BY <1>0, <1>10, <2>1, NoLoaderType DEF Schedule, Return
<1>11. CASE Dispatch
  <2>1. current' # NoPid
    BY <1>11, Popping
  <2> QED BY <1>0, <1>11, <2>1 DEF Dispatch
<1>12. CASE Idle
  BY <1>0, <1>12 DEF Idle
<1>13. CASE RunLine
  BY <1>0, <1>13 DEF RunLine, schedVars
<1>14. CASE PageFault \/ FaultFails \/ PassOver
  BY <1>0, <1>14 DEF PageFault, FaultFails, PassOver, schedVars
<1>15. CASE Finish
  BY <1>0, <1>15 DEF Finish, SliceEnds
<1>16. CASE Requeue
  BY <1>0, <1>16 DEF Requeue, SliceEnds
<1> QED
  BY <1>1, <1>2, <1>3, <1>4, <1>5, <1>6, <1>7, <1>8, <1>9, <1>10, <1>11, <1>12, <1>13, <1>14,
     <1>15, <1>16 DEF Next, UserNext, SystemNext
-----------------------------------------------------------------------------
\* Places that stay as they are stay accounted for.
LEMMA PlacesKept ==
  ASSUME Accounted, UNCHANGED <<ready_queue, loader.pcbs, current, live_pcbs>>
  PROVE  Accounted'
  BY DEF Accounted, Waiting, Made, Popped

\* An empty list of PCBs for another.
LEMMA NoneMade ==
  ASSUME Accounted, UNCHANGED <<ready_queue, current, live_pcbs>>,
         loader.pcbs = <<>>, loader'.pcbs = <<>>
  PROVE  Accounted'
  BY DEF Accounted, Waiting, Made, Popped

\* A step by which p moves from one place to another, or comes or goes.
LEMMA AccountedStep ==
  ASSUME ShellInv, [Next]_vars
  PROVE  Accounted'
<1>0. Accounted /\ NoPid \notin Pids /\ live_pcbs \subseteq Pids
  BY ProgramAssumption DEF ShellInv, MemInv, MemTypeOK
<1>1. CASE UNCHANGED vars \/ Exited
  BY <1>0, <1>1, PlacesKept DEF Exited, vars, memVars, schedVars
<1>2. CASE EndOfInput \/ LineEnds \/ MakePcbFails \/ Idle \/ PassOver
  BY <1>0, <1>2, PlacesKept
     DEF EndOfInput, LineEnds, MakePcbFails, Idle, PassOver, memVars, schedVars
<1>3. CASE \E chain \in Typed : Prompt(chain)
  BY <1>0, <1>3, PlacesKept DEF Prompt, memVars, schedVars
<1>4. CASE Parse
  <2>1. \E cmd \in Commands : Interpret(cmd)
    <3>1. /\ current = NoPid => typed # <<>> /\ Interpret(Head(typed))
          /\ current # NoPid => line # <<>> /\ Interpret(Head(line))
      BY <1>4 DEF Parse
    <3>2. typed \in Seq(Commands) /\ line \in Seq(Commands)
      BY DEF ShellInv, MyshTypeOK
    <3> QED BY <3>1, <3>2, HeadTailProperties
  <2>2. loader.pcbs = <<>> /\ loader'.pcbs = <<>>
    BY <1>4, <2>1, InterpretType DEF Parse, ShellInv, Control
  <2> QED BY <1>0, <1>4, <2>2, NoneMade DEF Parse, memVars, schedVars
<1>5. CASE PlanFails \/ Plan
  <2>1. loader.pcbs = <<>> /\ loader \in LoaderType
    BY <1>5, LoaderFields DEF PlanFails, Plan, ShellInv, Control
  <2>2. loader'.pcbs = <<>>
    BY <1>5, <2>1, NoLoaderType DEF PlanFails, Plan, Return, LoaderType
  <2> QED BY <1>0, <1>5, <2>1, <2>2, NoneMade DEF PlanFails, Plan, memVars, schedVars
<1>6. CASE LoadNext \/ LoadFails
  <2>1. UNCHANGED <<ready_queue, current, live_pcbs>>
    BY <1>6 DEF LoadNext, LoadFails, LoadScript, LoadScriptFails, schedVars
  <2>2. loader'.pcbs = loader.pcbs
    BY <1>6, LoaderFields DEF LoadNext, LoadFails, LoaderType
  <2> QED BY <1>0, <2>1, <2>2, PlacesKept
<1>7. CASE MakePcb
  <2>1. PICK q : q = pid_counter + 1
    OBVIOUS
  <2>2. /\ q \in Pids \ live_pcbs /\ live_pcbs' = live_pcbs \cup {q}
        /\ loader' = [loader EXCEPT !.pcbs = Append(@, q)]
        /\ UNCHANGED <<ready_queue, current>>
    BY <1>7, <2>1 DEF MakePcb, RegisterPcb, schedVars
  <2>3. loader'.pcbs = AddToTail(loader.pcbs, q)
    BY <2>2, LoaderFields DEF LoaderType, AddToTail
  <2>4. q \notin Made /\ q \notin Waiting /\ q \notin Popped
    BY <1>0, <2>2 DEF Accounted
  <2>5. Lists(loader'.pcbs, Made \cup {q})
    BY <1>0, <2>3, <2>4, AddToTailLists DEF Accounted
  <2>6. Made' = Made \cup {q} /\ UNCHANGED <<Waiting, Popped>>
    BY <2>2, <2>5, ListsSet DEF Made, Waiting, Popped
  <2> QED BY <1>0, <2>2, <2>4, <2>5, <2>6 DEF Accounted
<1>8. CASE Unwind
  <2>1. live_pcbs' = live_pcbs \ Made /\ UNCHANGED <<ready_queue, current>>
    BY <1>8 DEF Unwind, Rollback, DropPcbs, Made, schedVars
  <2>2. loader'.pcbs = <<>>
    BY <1>8, NoLoaderType DEF Unwind, Return
  <2>3. Made' = {} /\ Lists(loader'.pcbs, {}) /\ UNCHANGED <<Waiting, Popped>>
    BY <2>1, <2>2, ListsEmpty, ListsSet DEF Made, Waiting, Popped
  <2> QED BY <1>0, <2>1, <2>3 DEF Accounted
<1>9. CASE Enqueue
  <2>1. PICK q : q = loader.pcbs[1]
    OBVIOUS
  <2>2. q \in Made /\ Lists(Tail(loader.pcbs), Made \ {q})
    BY <1>0, <1>9, <2>1, PopHeadLists DEF Accounted, Enqueue, PopHead
  <2>3. Lists(ready_queue', Waiting \cup {q})
    <3>1. q \notin Waiting /\ Lists(ready_queue, Waiting)
      BY <1>0, <2>2 DEF Accounted
    <3>2. \/ ready_queue' = InsertSorted(ready_queue, q, job_length_score)
          \/ ready_queue' = AddToTail(ready_queue, q)
      BY <1>9, <2>1 DEF Enqueue
    <3> QED BY <3>1, <3>2, InsertSortedLists, AddToTailLists
  <2>4. loader'.pcbs = Tail(loader.pcbs) /\ UNCHANGED <<current, live_pcbs>>
    BY <1>9, LoaderFields DEF Enqueue, LoaderType, memVars
  <2>5. Made' = Made \ {q} /\ Waiting' = Waiting \cup {q} /\ Popped' = Popped
    BY <2>2, <2>3, <2>4, ListsSet DEF Made, Waiting, Popped
  <2> QED BY <1>0, <2>2, <2>3, <2>4, <2>5 DEF Accounted
<1>10. CASE Schedule
  <2>1. loader.pcbs = <<>> /\ loader'.pcbs = <<>>
    BY <1>10, NoLoaderType DEF Schedule, Return
  <2> QED BY <1>0, <1>10, <2>1, NoneMade DEF Schedule, memVars
<1>11. CASE Dispatch
  <2>1. current = NoPid
    BY <1>11 DEF Dispatch, ShellInv, Control
  <2>2. UNCHANGED <<loader, live_pcbs>>
    BY <1>11 DEF Dispatch, memVars
  <2>3. /\ current' \in Waiting /\ current' # NoPid
        /\ Lists(ready_queue', Waiting \ {current'})
    BY <1>11, Popping
  <2>4. Waiting' = Waiting \ {current'} /\ Popped' = {current'} /\ Made' = Made /\ Popped = {}
    BY <2>1, <2>2, <2>3, ListsSet DEF Made, Waiting, Popped
  <2> QED BY <1>0, <2>2, <2>3, <2>4 DEF Accounted
<1>12. CASE RunLine \/ PageFault \/ FaultFails
  BY <1>0, <1>12, PlacesKept
     DEF RunLine, PageFault, FaultFails, Fetch, DemandLoad, DemandLoadFails, schedVars
<1>13. CASE Finish
  <2>1. /\ live_pcbs' = live_pcbs \ {current} /\ current \in live_pcbs
        /\ current' = NoPid /\ UNCHANGED <<ready_queue, loader>>
    BY <1>13 DEF Finish, UnregisterPcb, DropPcbs
  <2>2. Popped = {current} /\ Popped' = {} /\ UNCHANGED <<Waiting, Made>>
    BY <1>0, <2>1 DEF Made, Waiting, Popped
  <2> QED BY <1>0, <2>1, <2>2 DEF Accounted
<1>14. CASE Requeue
  <2>1. current # NoPid
    BY <1>14 DEF Requeue, SliceEnds, ShellInv, Control
  <2>2. /\ current' = NoPid /\ UNCHANGED <<loader, live_pcbs>>
        /\ \/ ready_queue' = AddToHead(ready_queue, current)
           \/ ready_queue' = InsertSorted(ready_queue, current, AgedScores)
           \/ ready_queue' = AddToTail(ready_queue, current)
    BY <1>14 DEF Requeue, RequeueAging, memVars
  <2>3. Popped = {current} /\ Popped' = {} /\ Made' = Made /\ current \notin Waiting
    BY <1>0, <2>1, <2>2 DEF Accounted, Popped, Made
  <2>4. Lists(ready_queue', Waiting \cup {current})
    <3>1. Lists(ready_queue, Waiting)
      BY <1>0 DEF Accounted
    <3> QED BY <2>2, <2>3, <3>1, AddToHeadLists, InsertSortedLists, AddToTailLists
  <2>5. Waiting' = Waiting \cup {current}
    BY <2>4, ListsSet DEF Waiting
  <2> QED BY <1>0, <2>2, <2>3, <2>4, <2>5 DEF Accounted
<1> QED
  BY <1>1, <1>2, <1>3, <1>4, <1>5, <1>6, <1>7, <1>8, <1>9, <1>10, <1>11, <1>12, <1>13, <1>14
     DEF Next, UserNext, SystemNext
-----------------------------------------------------------------------------
\* Whatever the loader does in the middle of a line, it leaves the PC and the page
\* table of the running process alone.
LEMMA LineStep ==
  ASSUME ShellInv, [Next]_vars
  PROVE  LineKept'
<1>1. LineKept /\ Control /\ (current # NoPid => current \in live_pcbs /\ current \in Pids)
  BY DEF ShellInv, Accounted, Popped, MemInv, MemTypeOK
<1>2. ASSUME current # NoPid /\ phase \in Interpreting => phase' \notin Interpreting \/
               UNCHANGED <<current, PC[current], pcb_table[current]>>,
             phase' \in Interpreting => phase \in Interpreting \/ current' = NoPid,
             current = NoPid => current' = NoPid \/ phase' \notin Interpreting
      PROVE  LineKept'
  BY <1>1, <1>2 DEF LineKept, Resident, CurrentPage
<1>3. CASE UNCHANGED vars \/ Exited
  BY <1>2, <1>3 DEF Exited, vars, pcbVars, schedVars, memVars
<1>4. CASE UserNext
  <2>1. current' = NoPid
    BY <1>1, <1>4 DEF UserNext, EndOfInput, Prompt, Control, schedVars
  <2> QED BY <2>1 DEF LineKept
<1>5. CASE Parse
  BY <1>2, <1>5 DEF Parse, Interpreting, schedVars, memVars, pcbVars
<1>6. CASE LineEnds
  BY <1>2, <1>6 DEF LineEnds, Interpreting
<1>7. CASE PlanFails \/ Plan \/ MakePcbFails
  BY <1>2, <1>7 DEF PlanFails, Plan, MakePcbFails, Interpreting, schedVars, memVars, pcbVars
<1>8. CASE LoadNext \/ LoadFails
  BY <1>2, <1>8 DEF LoadNext, LoadFails, LoadScript, LoadScriptFails, Interpreting, schedVars, pcbVars
<1>9. CASE MakePcb
  <2>1. PICK q : q = pid_counter + 1
    OBVIOUS
  <2>2. /\ q \in Pids \ live_pcbs /\ UNCHANGED current /\ phase \in Interpreting
        /\ pcb_table' = [pcb_table EXCEPT ![q] = script_table[loader.scripts[Len(loader.pcbs) + 1]]]
        /\ PC' = [PC EXCEPT ![q] = 0]
    BY <1>9, <2>1 DEF MakePcb, RegisterPcb, Interpreting, schedVars
  <2>3. current # NoPid => current # q
    BY <1>1, <2>2
  <2>4. current # NoPid => UNCHANGED <<current, PC[current], pcb_table[current]>>
    BY <1>1, <2>2, <2>3 DEF ShellInv, MyshTypeOK, MemInv, MemTypeOK
  <2> QED BY <1>2, <2>2, <2>4
<1>10. CASE Unwind
  <2>1. /\ UNCHANGED <<PC, current>> /\ phase \in Interpreting
        /\ pcb_table' = [q \in Pids |-> IF q \in Made THEN EmptyTable ELSE pcb_table[q]]
    BY <1>10 DEF Unwind, Rollback, DropPcbs, Made, Interpreting, schedVars
  <2>2. current # NoPid => current \notin Made
    BY DEF ShellInv, Accounted, Popped
  <2>3. current # NoPid => UNCHANGED <<current, PC[current], pcb_table[current]>>
    BY <1>1, <2>1, <2>2
  <2> QED BY <1>2, <2>1, <2>3
<1>11. CASE Enqueue
  BY <1>2, <1>11 DEF Enqueue, Interpreting, memVars, pcbVars
<1>12. CASE Schedule
  BY <1>2, <1>12 DEF Schedule, Interpreting, memVars, pcbVars
<1>13. CASE Dispatch
  BY <1>13 DEF Dispatch, LineKept, Interpreting
<1>14. CASE Idle
  <2>1. current' = NoPid
    BY <1>1, <1>14 DEF Idle, Control
  <2> QED BY <2>1 DEF LineKept
<1>15. CASE RunLine
  <2>1. /\ CurrentPage \in Pages(pcb_script[current]) /\ Resident /\ current \in live_pcbs
        /\ UNCHANGED <<current, PC, pcb_table>>
    BY <1>15 DEF RunLine, Fetch, schedVars, pcbVars
  <2>2. CurrentPage \in AllPages
    BY <2>1, PagesType DEF ShellInv, MemInv, MemTypeOK, TablesAgree
  <2> QED BY <2>1, <2>2 DEF LineKept, Resident, CurrentPage
<1>16. CASE PageFault \/ FaultFails \/ PassOver
  BY <1>16 DEF PageFault, FaultFails, PassOver, LineKept, Interpreting
<1>17. CASE Finish \/ Requeue
  BY <1>17 DEF Finish, Requeue, LineKept, Interpreting
<1> QED
  BY <1>3, <1>4, <1>5, <1>6, <1>7, <1>8, <1>9, <1>10, <1>11, <1>12, <1>13, <1>14, <1>15, <1>16, <1>17
     DEF Next, SystemNext
-----------------------------------------------------------------------------
\* Counting a line keeps the counters natural numbers.
LEMMA LineDoneType ==
  ASSUME MyshTypeOK, LineDone
  PROVE  PC' \in [Pids -> Nat] /\ executed' \in Nat
<1>1. PC \in [Pids -> Nat] /\ PC' = [PC EXCEPT ![current] = @ + 1]
  BY DEF MyshTypeOK, LineDone
<1>2. executed' \in Nat
  BY DEF MyshTypeOK, LineDone
<1>3. CASE current \in Pids
  <2>1. PC[current] + 1 \in Nat
    BY <1>1, <1>3
  <2> QED BY <1>1, <1>2, <2>1
<1>4. CASE current \notin Pids
  BY <1>1, <1>2, <1>4
<1> QED BY <1>3, <1>4

\* The part of the type invariant that is neither the queue nor the loader.
Fields ==
  /\ phase \in {"prompt", "parse", "planning", "loading", "queueing", "rollback", "dispatch",
               "slice", "yield", "exited"}
  /\ {typed, line} \subseteq Seq(Commands)
  /\ backing_store \subseteq Scripts
  /\ home \in BOOLEAN
  /\ pid_counter \in Nat
  /\ PC \in [Pids -> Nat]
  /\ has_backing_path \in [Pids -> BOOLEAN]
  /\ job_length_score \in [Pids -> Nat]
  /\ active \in Policies \cup {"none"}
  /\ current \in Pids \cup {NoPid}
  /\ executed \in Nat

LEMMA ScheduleType ==
  ASSUME ShellInv, Dispatch \/ Idle \/ RunLine \/ PageFault \/ FaultFails \/ PassOver \/ Finish \/ Requeue
  PROVE  Fields'
<1>0. Fields /\ MyshTypeOK
  BY DEF ShellInv, MyshTypeOK, Fields
<1>1. CASE Dispatch
  <2>1. current' \in Pids
    BY <1>1, Popping DEF ShellInv, Accounted, MemInv, MemTypeOK
  <2> QED BY <1>0, <1>1, <2>1 DEF Dispatch, Fields, lineVars, pcbVars
<1>2. CASE Idle
  BY <1>0, <1>2 DEF Idle, Fields, lineVars, pcbVars
<1>3. CASE RunLine
  <2>1. current \in live_pcbs /\ current \in Pids /\ pcb_script[current] \in Scripts
    BY <1>3 DEF RunLine, Fetch, ShellInv, MemInv, MemTypeOK, TablesAgree
  <2>2. JobTime[current] = LineCount[pcb_script[current]]
    BY <2>1, ScriptsAssumption DEF JobTime
  <2>3. PC[current] \in Nat /\ PC[current] < Len(Program[pcb_script[current]])
    BY <1>0, <1>3, <2>1, <2>2, ProgramAssumption, ScriptsAssumption DEF RunLine, SliceOver, Fields
  <2>4. CurrentLine \in Seq(Commands)
    BY <2>1, <2>3, ProgramAssumption, ElementOfSeq DEF CurrentLine
  <2> QED BY <1>0, <1>3, <2>4 DEF RunLine, Fields, pcbVars, schedVars
<1>4. CASE PageFault
  BY <1>0, <1>4 DEF PageFault, Fields, lineVars, pcbVars, schedVars
<1>5. CASE FaultFails \/ PassOver
  BY <1>0, <1>5, LineDoneType DEF FaultFails, PassOver, Fields, lineVars
<1>6. CASE Finish
  BY <1>0, <1>6 DEF Finish, Fields, lineVars
<1>7. CASE Requeue
  <2>1. job_length_score' \in [Pids -> Nat]
    <3>1. AgedScores \in [Pids -> Nat]
      <4>1. \A q \in Pids : job_length_score[q] \in Nat
        BY <1>0 DEF Fields
      <4>2. AgedScores = [q \in Pids |->
              IF q \in ToSet(ready_queue) /\ job_length_score[q] > 0
              THEN job_length_score[q] - 1 ELSE job_length_score[q]]
        BY <1>0 DEF AgedScores, AgeAll, Fields
      <4>3. \A q \in Pids : AgedScores[q] \in Nat
        BY <4>1, <4>2
      <4> QED BY <4>2, <4>3
    <3> QED BY <1>0, <1>7, <3>1 DEF Requeue, RequeueAging, Fields
  <2> QED BY <1>0, <1>7, <2>1 DEF Requeue, Fields, lineVars
<1> QED BY <1>1, <1>2, <1>3, <1>4, <1>5, <1>6, <1>7

\* The loader only puts into backing_store what the request names.
LEMMA LoadType ==
  ASSUME ShellInv, PlanFails \/ Plan \/ LoadNext \/ LoadFails \/ MakePcb \/ MakePcbFails \/ Unwind
  PROVE  Fields' /\ loader' \in LoaderType /\ loader'.needs_load \subseteq DOMAIN loader'.scripts
<1>0. /\ Fields /\ MyshTypeOK /\ loader \in LoaderType
      /\ loader.needs_load \subseteq DOMAIN loader.scripts
  BY LoaderFields DEF ShellInv, MyshTypeOK, Fields
<1>1. NeedsLoad(loader.scripts) \subseteq DOMAIN loader.scripts
  BY DEF NeedsLoad
<1>c. ASSUME NEW I \in SUBSET NeedsLoad(loader.scripts), Copied(I) PROVE backing_store' \subseteq Scripts
  BY <1>0, <1>1, <1>c, RequestedAreScripts DEF Copied, Fields
<1>2. CASE PlanFails
  <2>1. PICK copied \in SUBSET NeedsLoad(loader.scripts) : Copied(copied)
    BY <1>2 DEF PlanFails
  <2>2. backing_store' \subseteq Scripts
    BY <1>c, <2>1
  <2> QED BY <1>0, <1>2, <2>2, NoLoaderType DEF PlanFails, Return, Fields, lineVars, pcbVars, schedVars
<1>3. CASE Plan
  <2>1. backing_store' \subseteq Scripts
    BY <1>3, <1>c DEF Plan
  <2>2. loader' \in LoaderType /\ loader'.needs_load \subseteq DOMAIN loader'.scripts
    <3>1. loader.scripts \in Requests \cup {<<>>} /\ DOMAIN loader.scripts \subseteq 1 .. 3
      BY <1>0 DEF LoaderType, Requests
    <3> QED BY <1>0, <1>1, <1>3, <3>1, NoLoaderType DEF Plan, Return, LoaderType
  <2> QED BY <1>0, <1>3, <2>1, <2>2 DEF Plan, Return, Fields, lineVars, pcbVars, schedVars
<1>4. CASE LoadNext
  <2>1. PICK i \in ToLoad : loader' = [loader EXCEPT !.loaded = @ \cup {loader.scripts[i]}]
    BY <1>4 DEF LoadNext
  <2>2. loader.scripts[i] \in Scripts
    BY <1>0, RequestedAreScripts DEF ToLoad
  <2>3. loader' \in LoaderType /\ loader'.needs_load \subseteq DOMAIN loader'.scripts
    BY <1>0, <2>1, <2>2 DEF LoaderType
  <2> QED BY <1>0, <1>4, <2>3 DEF LoadNext, Fields, lineVars, pcbVars, schedVars
<1>5. CASE LoadFails
  BY <1>0, <1>5 DEF LoadFails, Fields, lineVars, pcbVars, schedVars
<1>6. CASE MakePcb
  <2>1. PICK q, i : q = pid_counter + 1 /\ i = Len(loader.pcbs) + 1
    OBVIOUS
  <2>2. /\ q \in Pids /\ i \in 1 .. Len(loader.scripts) /\ pid_counter' = q
        /\ PC' = [PC EXCEPT ![q] = 0]
        /\ has_backing_path' = [has_backing_path EXCEPT ![q] = i \in loader.needs_load]
        /\ job_length_score' = [job_length_score EXCEPT ![q] = LineCount[loader.scripts[i]]]
        /\ loader' = [loader EXCEPT !.pcbs = Append(@, q)]
    BY <1>0, <1>6, <2>1 DEF MakePcb, RegisterPcb, LoaderType
  <2>3. LineCount[loader.scripts[i]] \in Nat
    <3>1. DOMAIN loader.scripts = 1 .. Len(loader.scripts)
      BY <1>0 DEF LoaderType, Requests
    <3> QED BY <2>2, <3>1, RequestedAreScripts, ScriptsAssumption
  <2>4. Append(loader.pcbs, q) \in Seq(Pids)
    BY <1>0, <2>2 DEF LoaderType
  <2>5. /\ PC' \in [Pids -> Nat] /\ has_backing_path' \in [Pids -> BOOLEAN]
        /\ job_length_score' \in [Pids -> Nat] /\ pid_counter' \in Nat
    BY <1>0, <2>2, <2>3, PidsAssumption DEF Fields
  <2>6. loader' \in LoaderType /\ loader'.needs_load \subseteq DOMAIN loader'.scripts
    BY <1>0, <2>2, <2>4 DEF LoaderType
  <2>7. phase' \in {"loading", "queueing"}
    BY <1>6 DEF MakePcb
  <2> QED BY <1>0, <1>6, <2>5, <2>6, <2>7 DEF MakePcb, Fields, lineVars, schedVars
<1>7. CASE MakePcbFails
  BY <1>0, <1>7 DEF MakePcbFails, Fields, lineVars, pcbVars, schedVars
<1>8. CASE Unwind
  <2>1. has_backing_path' \in [Pids -> BOOLEAN] /\ job_length_score' \in [Pids -> Nat]
    BY <1>0, <1>8 DEF Unwind, Fields
  <2> QED BY <1>0, <1>8, <2>1, NoLoaderType DEF Unwind, Return, Fields, lineVars, schedVars
<1> QED BY <1>2, <1>3, <1>4, <1>5, <1>6, <1>7, <1>8

LEMMA TypeStep ==
  ASSUME ShellInv, [Next]_vars
  PROVE  Fields' /\ loader' \in LoaderType /\ loader'.needs_load \subseteq DOMAIN loader'.scripts
<1>0. /\ Fields /\ MyshTypeOK /\ loader \in LoaderType
      /\ loader.needs_load \subseteq DOMAIN loader.scripts
  BY LoaderFields DEF ShellInv, MyshTypeOK, Fields
<1>1. CASE UNCHANGED vars \/ Exited
  BY <1>0, <1>1 DEF Exited, vars, lineVars, pcbVars, schedVars, Fields
<1>2. CASE UserNext
  BY <1>0, <1>2, ProgramAssumption
     DEF UserNext, EndOfInput, Prompt, lineVars, pcbVars, schedVars, Fields
<1>3. CASE Parse
  <2>1. PICK cmd \in Commands : Interpret(cmd)
    <3>1. /\ current = NoPid => typed # <<>> /\ Interpret(Head(typed))
          /\ current # NoPid => line # <<>> /\ Interpret(Head(line))
      BY <1>3 DEF Parse
    <3> QED BY <1>0, <3>1, HeadTailProperties DEF Fields
  <2>2. {typed', line'} \subseteq Seq(Commands)
    <3>1. \/ typed # <<>> /\ typed' = Tail(typed) /\ UNCHANGED line
          \/ line # <<>> /\ line' = Tail(line) /\ UNCHANGED typed
      BY <1>3 DEF Parse
    <3>2. typed \in Seq(Commands) /\ line \in Seq(Commands)
      BY <1>0 DEF Fields
    <3> QED BY <3>1, <3>2, HeadTailProperties
  <2>3. /\ loader' \in LoaderType /\ loader'.needs_load \subseteq DOMAIN loader'.scripts
        /\ home' \in BOOLEAN /\ phase' \in {"parse", "exited", "planning"}
    BY <1>3, <2>1, InterpretType DEF Parse
  <2> QED BY <1>0, <1>3, <2>2, <2>3 DEF Parse, pcbVars, schedVars, Fields
<1>4. CASE LineEnds
  <2>1. PC' \in [Pids -> Nat] /\ executed' \in Nat
    BY <1>0, <1>4, LineDoneType DEF LineEnds, Fields
  <2> QED BY <1>0, <1>4, <2>1 DEF LineEnds, lineVars, Fields
<1>5. CASE PlanFails \/ Plan \/ LoadNext \/ LoadFails \/ MakePcb \/ MakePcbFails \/ Unwind
  BY <1>5, LoadType
<1>6. CASE Enqueue
  <2>1. loader' = [loader EXCEPT !.pcbs = Tail(@)] /\ Tail(loader.pcbs) \in Seq(Pids)
    BY <1>0, <1>6, HeadTailProperties DEF Enqueue, LoaderType
  <2>2. loader' \in LoaderType /\ loader'.needs_load \subseteq DOMAIN loader'.scripts
    BY <1>0, <2>1 DEF LoaderType
  <2> QED BY <1>0, <1>6, <2>2 DEF Enqueue, lineVars, pcbVars, Fields
<1>7. CASE Schedule
  BY <1>0, <1>7, NoLoaderType DEF Schedule, Return, lineVars, pcbVars, Fields, LoaderType
<1>8. CASE Dispatch \/ Idle \/ RunLine \/ PageFault \/ FaultFails \/ PassOver \/ Finish \/ Requeue
  <2>1. UNCHANGED loader
    BY <1>8 DEF Dispatch, Idle, RunLine, PageFault, FaultFails, PassOver, Finish, Requeue
  <2> QED BY <1>0, <1>8, <2>1, ScheduleType
<1> QED
  BY <1>1, <1>2, <1>3, <1>4, <1>5, <1>6, <1>7, <1>8 DEF Next, SystemNext
-----------------------------------------------------------------------------
LEMMA StartInv == Init => ShellInv
<1> SUFFICES ASSUME Init PROVE ShellInv
  OBVIOUS
<1>1. MemInv /\ live_pcbs = {}
  BY InitInv DEF Init, MemInit
<1>2. loader \in LoaderType /\ loader.needs_load = {} /\ loader.pcbs = <<>>
  BY NoLoaderType DEF Init
<1>3. MyshTypeOK
  BY <1>2 DEF Init, MyshTypeOK, LoaderType
<1>4. Accounted
  <2>1. Waiting = {} /\ Made = {} /\ Popped = {}
    BY <1>2, ListsEmpty, ListsSet DEF Init, Waiting, Made, Popped
  <2> QED BY <1>1, <1>2, <2>1, ListsEmpty DEF Init, Accounted
<1>5. Control /\ LineKept
  BY <1>2 DEF Init, Control, LineKept
<1> QED BY <1>1, <1>2, <1>3, <1>4, <1>5 DEF ShellInv

LEMMA ShellStep == ShellInv /\ [Next]_vars => ShellInv'
<1> SUFFICES ASSUME ShellInv, [Next]_vars PROVE ShellInv'
  OBVIOUS
<1>1. MemInv' /\ live_pcbs' \subseteq Pids
  BY MemLater DEF MemInv, MemTypeOK
<1>2. /\ Fields' /\ loader' \in LoaderType
      /\ loader'.needs_load \subseteq DOMAIN loader'.scripts
  BY TypeStep
<1>3. Accounted' /\ Control' /\ LineKept'
  BY AccountedStep, ControlStep, LineStep
<1>4. ready_queue' \in Seq(Pids)
  <2>1. ready_queue' \in Seq(Waiting') /\ Waiting' \subseteq Pids
    BY <1>1, <1>3 DEF Accounted, Lists
  <2> QED BY <2>1, SeqMonotonic
<1>5. MyshTypeOK'
  BY <1>2, <1>4 DEF MyshTypeOK, Fields, LoaderType
<1> QED BY <1>1, <1>2, <1>3, <1>5 DEF ShellInv

LEMMA ShellInvariant == Spec => []ShellInv
  BY StartInv, ShellStep, PTL DEF Spec

\* Every variable of the shell holds what its C declaration allows: no index
\* arithmetic on the queue, the PC or the scores leaves its range.
THEOREM ShellTypeCorrect == Spec => []MyshTypeOK
  BY ShellInvariant, PTL DEF ShellInv

\* No path through the loader, its failures and rollbacks, nested requests and the
\* five scheduling loops loses a process or lists it twice, and none is left over
\* when the prompt is reached again.
THEOREM NoProcessIsLost == Spec => []LiveAccounted
<1>1. ShellInv => LiveAccounted
  <2> SUFFICES ASSUME ShellInv PROVE LiveAccounted
    OBVIOUS
  <2>1. PICK front, made : front = (IF current = NoPid THEN <<>> ELSE <<current>>) /\ made = loader.pcbs
    OBVIOUS
  <2>2. Accounted /\ Lists(front, Popped)
    BY <2>1, ListsEmpty, ListsOne DEF ShellInv, Popped
  <2>3. Lists(ready_queue \o made, Waiting \cup Made)
    BY <2>1, <2>2, ListsConcat DEF Accounted
  <2>4. (Waiting \cup Made) \cap Popped = {}
    BY <2>2 DEF Accounted
  <2>5. Lists(ready_queue \o made \o front, (Waiting \cup Made) \cup Popped)
    BY <2>2, <2>3, <2>4, ListsConcat
  <2>6. Lists(ready_queue \o made \o front, live_pcbs)
    BY <2>2, <2>5 DEF Accounted
  <2>7. /\ ToSet(ready_queue \o made \o front) = live_pcbs
        /\ Len(ready_queue \o made \o front) = Cardinality(live_pcbs)
    BY <2>6, ListsSet, ListsCardinality
  <2>8. phase = "prompt" => ready_queue \o made \o front = <<>> /\ active = "none"
    <3> SUFFICES ASSUME phase = "prompt" PROVE ready_queue \o made \o front = <<>> /\ active = "none"
      OBVIOUS
    <3>1. active = "none" /\ ready_queue = <<>> /\ made = <<>> /\ front = <<>>
      BY <2>1 DEF ShellInv, Control
    <3> QED BY <3>1
  <2> QED BY <2>1, <2>7, <2>8 DEF LiveAccounted
<1> QED BY <1>1, ShellInvariant, PTL

\* While a line that has called exec or source is still being read, no step of that
\* load, and no unwinding of it, takes the frame the line is in.
THEOREM LineStaysResident == Spec => []NestedLoadKeepsLine
<1>1. ShellInv => NestedLoadKeepsLine
  <2> SUFFICES ASSUME ShellInv, phase \in Interpreting, current # NoPid
               PROVE  /\ Resident
                      /\ frame_table[pcb_table[current][CurrentPage]].script = pcb_script[current]
                      /\ frame_table[pcb_table[current][CurrentPage]].page = CurrentPage
    BY DEF NestedLoadKeepsLine, Interpreting
  <2>1. CurrentPage \in AllPages /\ Resident
    BY DEF ShellInv, LineKept
  <2>2. current \in live_pcbs
    BY DEF ShellInv, Accounted, Popped
  <2>3. pcb_script[current] \in loaded_scripts /\ pcb_table[current] = script_table[pcb_script[current]]
    BY <2>2 DEF ShellInv, MemInv, TablesAgree
  <2> QED BY <2>1, <2>3 DEF ShellInv, MemInv, NoDanglingEntry, Resident
<1> QED BY <1>1, ShellInvariant, PTL
-----------------------------------------------------------------------------
\* The loader, the scheduler and the process table of the shell, with nested
\* loads, failures and changes of directory, implement the memory specification:
\* they never touch frames or tables but through its operations.
THEOREM ShellImplementsMemory == Spec => MemSpec
<1>1. Init => MemInit
  BY DEF Init
<1>2. ShellInv /\ [Next]_vars => [MemNext]_memVars
  BY MemoryStep
<1> QED BY <1>1, <1>2, ShellInvariant, PTL DEF Spec, MemSpec

\* In the running shell no page table, canonical or private, names a frame that
\* holds another page: a fetch reads the line it means to read.
THEOREM ShellReadsItsOwnPages == Spec => [](TablesAgree /\ NoDanglingEntry)
  BY ShellImplementsMemory, MemoryInvariant, PTL DEF MemInv

\* No request, however nested, overflows the list of users of a frame, and the
\* list stays exact while there is room.
THEOREM ShellTracksUsers == Spec => [](UsersFit /\ UsersTracked)
  BY ShellImplementsMemory, UsersListFits, UsersListExact, PTL

\* So the running shell, too, pages as a least-recently-used cache does.
THEOREM ShellEvictsLeastRecent == Spec => EvictsLeastRecent
  BY ShellImplementsMemory, MemoryIsLruCache
=============================================================================
