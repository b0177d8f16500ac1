-------------------------------- MODULE Mysh --------------------------------
(***************************************************************************)
(* The shell: the prompt (shell.c), exec and source (interpreter.c), the   *)
(* five scheduling loops (scheduler.c) over the ready queue and the        *)
(* processes (pcb.c), on top of the paged memory of ShellMemory.           *)
(*                                                                         *)
(* Everything runs in one thread.  phase says where that thread is:        *)
(*   prompt    main waits for a line of input                              *)
(*   parse     parseInput is about to take the next command of a line      *)
(*   planning  load_and_schedule_programs, up to its admission test        *)
(*   loading   ... loading scripts and making PCBs                         *)
(*   queueing  ... putting them into the queue                             *)
(*   rollback  ... on one of its failure paths                             *)
(*   dispatch  a scheduling loop is about to pop the next process          *)
(*   slice     run_process_slice is about to fetch a line of current       *)
(*   yield     run_process_slice has returned because of a page fault      *)
(*   exited    quit, or the end of the input                               *)
(* A script can itself exec or source: planning, loading and rollback then *)
(* happen in the middle of a line of current, and because a scheduling     *)
(* loop is active the inner scheduler_run returns at once.                 *)
(***************************************************************************)
EXTENDS ShellMemory, ReadyQueue

CONSTANTS
  Program,    \* Program[s]: the lines of script s, each a chain of commands
  Typed,      \* the lines that may be typed at the prompt
  NoPid,      \* the process when no PCB has been popped
  IOFails     \* whether allocations and file operations may fail

Policies == {"FCFS", "SJF", "RR", "AGING", "RR30"}
Requests == UNION {[1 .. n -> Scripts] : n \in 1 .. 3}

\* Commands that only touch variables, directories or the terminal are "plain".
\* "cd" says whether the relative path of backing_store resolves afterwards.
Commands ==
  [op : {"plain", "quit"}] \cup [op : {"cd"}, home : BOOLEAN]
  \cup [op : {"exec"}, scripts : Requests, policy : Policies]
  \cup [op : {"source"}, scripts : [1 .. 1 -> Scripts], policy : {"FCFS"}]

ASSUME ProgramAssumption ==
  /\ NoPid \notin Pids
  /\ IOFails \in BOOLEAN
  /\ Typed \subseteq Seq(Commands)
  /\ \A s \in Scripts : Program[s] \in Seq(Seq(Commands)) /\ LineCount[s] = Len(Program[s])

VARIABLES
  phase,            \* where the thread is
  typed,            \* commands still to be interpreted of the line main has read
  line,             \* ... and of the line of current
  loader,           \* locals of load_and_schedule_programs
  backing_store,    \* scripts that have a file in the directory backing_store
  home,             \* the relative path "backing_store" names that directory
  pid_counter,
  PC,               \* the fields of the PCBs that ShellMemory leaves out
  has_backing_path, \* has_backing_path[q]: backing_path is not ""
  job_length_score,
  ready_queue,
  active,           \* policy of the scheduling loop that runs, or "none"
  current,          \* the process it has popped
  executed          \* instructions current has run in this slice, else 0

pcbVars == <<PC, has_backing_path, job_length_score>>
schedVars == <<ready_queue, active, current, executed>>
lineVars == <<typed, line>>
vars == <<memVars, phase, lineVars, loader, backing_store, home, pid_counter, pcbVars, schedVars>>
-----------------------------------------------------------------------------
\* The job_time of a process is the number of lines of its script.
JobTime == [q \in Pids |-> IF pcb_script[q] = NoScript THEN 0 ELSE LineCount[pcb_script[q]]]

\* FCFS and SJF pass max_instructions = -1, which is no limit.
Quantum == CASE active = "RR" -> 2 [] active = "RR30" -> 30 [] active = "AGING" -> 1
Unlimited == active \in {"FCFS", "SJF"}

SliceOver ==
  \/ PC[current] >= JobTime[current]
  \/ ~Unlimited /\ executed >= Quantum

CurrentPage == PC[current] \div PAGE_SIZE
CurrentLine == Program[pcb_script[current]][PC[current] + 1]
Resident == pcb_table[current][CurrentPage] # NoFrame

\* A broken NeedsLoad: scripts that are loaded are loaded again.
NeedsLoadAgain(scripts) ==
  {i \in DOMAIN scripts : \A j \in 1 .. i - 1 : scripts[j] # scripts[i]}

\* Places of the request whose script it has to load: a script that is not
\* loaded yet, where the request names it first.
NeedsLoad(scripts) ==
  {i \in DOMAIN scripts :
     scripts[i] \notin loaded_scripts /\ \A j \in 1 .. i - 1 : scripts[j] # scripts[i]}

\* Two broken counts of the admission test: one page for every script.
OnePage(s) == 1
OnePageEach(scripts) == Cardinality(NeedsLoad(scripts))

\* What the admission test counts; it does not look at num_pages.  The sum over
\* the scripts is the number of pairs of a script and one of its pages.
Initial(s) == IF LineCount[s] >= PAGE_SIZE THEN 2 ELSE 1
TotalInitialPages(scripts) ==
  Cardinality(UNION {{i} \X (0 .. Initial(scripts[i]) - 1) : i \in NeedsLoad(scripts)})

Loader(scripts, policy) ==
  [scripts |-> scripts, policy |-> policy, needs_load |-> {}, loaded |-> {}, pcbs |-> <<>>]
NoLoader == Loader(<<>>, "FCFS")

\* The next script to load, in the order of the request.
ToLoad == {i \in loader.needs_load : loader.scripts[i] \notin loader.loaded}

\* A broken LineDone: the PC stays at the line.
LineDoneInPlace == UNCHANGED PC /\ executed' = executed + 1

\* The line of current has been dealt with.
LineDone ==
  /\ PC' = [PC EXCEPT ![current] = @ + 1]
  /\ executed' = executed + 1

\* load_and_schedule_programs returns to the line that called it.
Return == loader' = NoLoader /\ phase' = "parse"

\* What interpreter does with a command, before any loading.  source first
\* tries to open the file.
Interpret(c) ==
  \/ c.op = "plain" /\ UNCHANGED <<phase, loader, home>>
  \/ c.op = "source" /\ (IOFails \/ ~home) /\ UNCHANGED <<phase, loader, home>>
  \/ c.op = "cd" /\ home' = c.home /\ UNCHANGED <<phase, loader>>
  \/ c.op = "quit" /\ phase' = "exited" /\ UNCHANGED <<loader, home>>
  \/ /\ c.op \in {"exec", "source"}
     /\ phase' = "planning"
     /\ loader' = Loader(c.scripts, c.policy)
     /\ UNCHANGED home
-----------------------------------------------------------------------------
Init ==
  /\ MemInit
  /\ phase = "prompt"
  /\ typed = <<>> /\ line = <<>>
  /\ loader = NoLoader
  /\ backing_store = {}
  /\ home = TRUE
  /\ pid_counter = 0
  /\ PC = [q \in Pids |-> 0]
  /\ has_backing_path = [q \in Pids |-> FALSE]
  /\ job_length_score = [q \in Pids |-> 0]
  /\ ready_queue = <<>>
  /\ active = "none"
  /\ current = NoPid
  /\ executed = 0

\* main reads a line, or the end of the input.
Prompt(chain) ==
  /\ phase = "prompt"
  /\ typed' = chain
  /\ phase' = "parse"
  /\ UNCHANGED <<memVars, line, loader, backing_store, home, pid_counter, pcbVars, schedVars>>

EndOfInput ==
  /\ phase = "prompt"
  /\ phase' = "exited"
  /\ UNCHANGED <<memVars, lineVars, loader, backing_store, home, pid_counter, pcbVars, schedVars>>

\* parseInput takes the next command of the chain.  The line of a script is read
\* where it is, in its frame, so the rest of it must stay there meanwhile.
Parse ==
  /\ phase = "parse"
  /\ IF current = NoPid
     THEN typed # <<>> /\ Interpret(Head(typed)) /\ typed' = Tail(typed) /\ UNCHANGED line
     ELSE line # <<>> /\ Interpret(Head(line)) /\ line' = Tail(line) /\ UNCHANGED typed
  /\ UNCHANGED <<memVars, backing_store, pid_counter, pcbVars, schedVars>>

\* It returns to main, or to run_process_slice.
LineEnds ==
  /\ phase = "parse"
  /\ IF current = NoPid
     THEN typed = <<>> /\ phase' = "prompt" /\ UNCHANGED <<PC, executed>>
     ELSE line = <<>> /\ phase' = "slice" /\ LineDone
  /\ UNCHANGED <<memVars, lineVars, loader, backing_store, home, pid_counter, has_backing_path,
                 job_length_score, ready_queue, active, current>>
-----------------------------------------------------------------------------
\* The places I of the request are copied, to the home directory's backing_store or
\* to one that the present directory has.
Copied(I) ==
  backing_store' =
    IF home THEN backing_store \cup {loader.scripts[i] : i \in I} ELSE backing_store

\* The planning loop stops at script k of the request, whose copy cannot be
\* made, or is made but cannot be read; the copies before it stay.  Another
\* directory need not have a backing_store in which to open a copy.
PlanFails ==
  /\ phase = "planning"
  /\ IOFails \/ ~home
  /\ \E k \in NeedsLoad(loader.scripts) :
       LET before == {i \in NeedsLoad(loader.scripts) : i < k}
       IN  \E copied \in {before, before \cup {k}} : Copied(copied)
  /\ Return
  /\ UNCHANGED <<memVars, lineVars, home, pid_counter, pcbVars, schedVars>>

\* The loop ends and the admission test follows.
Plan ==
  /\ phase = "planning"
  /\ Copied(NeedsLoad(loader.scripts))
  /\ IF Cardinality(FreeFrames) < TotalInitialPages(loader.scripts)
     THEN Return
     ELSE /\ phase' = "loading"
          /\ loader' = [loader EXCEPT !.needs_load = NeedsLoad(loader.scripts)]
  /\ UNCHANGED <<memVars, lineVars, home, pid_counter, pcbVars, schedVars>>

\* mem_load_initial_pages and mem_register_script for the next script.
LoadNext ==
  /\ phase = "loading"
  /\ \E i \in ToLoad :
       /\ IsLowest(i, ToLoad)
       /\ LoadScript(loader.scripts[i])
       /\ loader' = [loader EXCEPT !.loaded = @ \cup {loader.scripts[i]}]
  /\ UNCHANGED <<phase, lineVars, backing_store, home, pid_counter, pcbVars, schedVars>>

\* One of them fails: no frame, no free entry in loaded_scripts[], or an error.
LoadFails ==
  /\ phase = "loading"
  /\ \E i \in ToLoad :
       /\ IsLowest(i, ToLoad)
       /\ \/ IOFails
          \/ Cardinality(loaded_scripts) = MAX_FRAMES
          \/ Cardinality(FreeFrames) < Cardinality(InitialPages(loader.scripts[i]))
       /\ LoadScriptFails(loader.scripts[i])
  /\ phase' = "rollback"
  /\ UNCHANGED <<lineVars, loader, backing_store, home, pid_counter, pcbVars, schedVars>>

\* mem_clone_script_page_table and make_pcb for the next program.  Only the
\* place that loaded the script has a backing path in its plan.
MakePcb ==
  LET i == Len(loader.pcbs) + 1
      q == pid_counter + 1
  IN  /\ phase = "loading" /\ ToLoad = {} /\ i <= Len(loader.scripts)
      /\ RegisterPcb(q, loader.scripts[i])
      /\ pid_counter' = q
      /\ PC' = [PC EXCEPT ![q] = 0]
      /\ has_backing_path' = [has_backing_path EXCEPT ![q] = i \in loader.needs_load]
      /\ job_length_score' = [job_length_score EXCEPT ![q] = LineCount[loader.scripts[i]]]
      /\ loader' = [loader EXCEPT !.pcbs = Append(@, q)]
      /\ phase' = IF i = Len(loader.scripts) THEN "queueing" ELSE phase
      /\ UNCHANGED <<lineVars, backing_store, home, schedVars>>

\* The table, the PCB or its registry node cannot be allocated.
MakePcbFails ==
  /\ phase = "loading" /\ ToLoad = {} /\ Len(loader.pcbs) < Len(loader.scripts)
  /\ IOFails
  /\ pid_counter' \in {pid_counter, pid_counter + 1}
  /\ phase' = "rollback"
  /\ UNCHANGED <<memVars, lineVars, loader, backing_store, home, pcbVars, schedVars>>

\* rollback_loaded_scripts and free_planned_pcbs.
Unwind ==
  /\ phase = "rollback"
  /\ Rollback(loader.loaded, ToSet(loader.pcbs))
  /\ has_backing_path' = [q \in Pids |-> has_backing_path[q] /\ q \notin ToSet(loader.pcbs)]
  /\ job_length_score' =
       [q \in Pids |-> IF q \in ToSet(loader.pcbs) THEN 0 ELSE job_length_score[q]]
  /\ Return
  /\ UNCHANGED <<lineVars, backing_store, home, pid_counter, PC, schedVars>>

\* A broken Enqueue: all policies queue at the tail.
EnqueueAtTail ==
  /\ phase = "queueing" /\ loader.pcbs # <<>>
  /\ ready_queue' = AddToTail(ready_queue, Head(loader.pcbs))
  /\ loader' = [loader EXCEPT !.pcbs = Tail(@)]
  /\ UNCHANGED <<memVars, phase, lineVars, backing_store, home, pid_counter, pcbVars, active,
                 current, executed>>

\* All PCBs are made: the next one goes to its place in the queue, ...
Enqueue ==
  /\ phase = "queueing" /\ loader.pcbs # <<>>
  /\ LET q == Head(loader.pcbs) IN
       ready_queue' = IF loader.policy = "AGING"
                      THEN InsertSorted(ready_queue, q, job_length_score)
                      ELSE AddToTail(ready_queue, q)
  /\ loader' = [loader EXCEPT !.pcbs = Tail(@)]
  /\ UNCHANGED <<memVars, phase, lineVars, backing_store, home, pid_counter, pcbVars, active,
                 current, executed>>

\* ... and then scheduler_run is called, which does nothing if a scheduling loop
\* is already active.
Schedule ==
  /\ phase = "queueing" /\ loader.pcbs = <<>>
  /\ IF active = "none"
     THEN active' = loader.policy /\ phase' = "dispatch" /\ loader' = NoLoader
     ELSE Return /\ UNCHANGED active
  /\ UNCHANGED <<memVars, lineVars, backing_store, home, pid_counter, pcbVars, ready_queue,
                 current, executed>>
-----------------------------------------------------------------------------
\* The scheduling loop pops a process and calls run_process_slice.
Dispatch ==
  /\ phase = "dispatch" /\ ready_queue # <<>>
  /\ LET i == IF active = "SJF" THEN ShortestIndex(ready_queue, JobTime) ELSE 1
     IN  current' = ready_queue[i]
  /\ ready_queue' =
       IF active = "SJF" THEN PopShortest(ready_queue, JobTime) ELSE PopHead(ready_queue)
  /\ phase' = "slice"
  /\ UNCHANGED <<memVars, lineVars, loader, backing_store, home, pid_counter, pcbVars, active, executed>>

\* The queue is empty: scheduler_run returns to the line that main has read.
Idle ==
  /\ phase = "dispatch" /\ ready_queue = <<>>
  /\ active' = "none"
  /\ phase' = "parse"
  /\ UNCHANGED <<memVars, lineVars, loader, backing_store, home, pid_counter, pcbVars,
                 ready_queue, current, executed>>

\* The line is resident: fetch it for parseInput.
RunLine ==
  /\ phase = "slice" /\ ~SliceOver /\ Resident
  /\ Fetch(current, CurrentPage)
  /\ line' = CurrentLine
  /\ phase' = "parse"
  /\ UNCHANGED <<typed, loader, backing_store, home, pid_counter, pcbVars, schedVars>>

\* A page fault that is served ends the slice; a page that is resident after
\* all does not.  Away from home it is served from a file of the same name in a
\* backing_store of the present directory.
PageFault ==
  /\ phase = "slice" /\ ~SliceOver /\ ~Resident /\ has_backing_path[current]
  /\ DemandLoad(current, CurrentPage)
  /\ phase' = IF ResidentForScript(pcb_script[current], CurrentPage) THEN phase ELSE "yield"
  /\ UNCHANGED <<lineVars, loader, backing_store, home, pid_counter, pcbVars, schedVars>>

\* A broken FaultFails: the line is tried again.
FaultRetried ==
  /\ phase = "slice" /\ ~SliceOver /\ ~Resident /\ has_backing_path[current]
  /\ IOFails \/ ~home
  /\ DemandLoadFails(current, CurrentPage)
  /\ IOFails \/ UNCHANGED clock_value
  /\ UNCHANGED <<phase, lineVars, loader, backing_store, home, pid_counter, pcbVars, schedVars>>

\* The page cannot be loaded: line stays NULL and the PC moves on.  A copy that is
\* not where the path leads is not opened, so nothing gets stamped.
FaultFails ==
  /\ phase = "slice" /\ ~SliceOver /\ ~Resident /\ has_backing_path[current]
  /\ IOFails \/ ~home
  /\ DemandLoadFails(current, CurrentPage)
  /\ IOFails \/ UNCHANGED clock_value
  /\ LineDone
  /\ UNCHANGED <<phase, lineVars, loader, backing_store, home, pid_counter, has_backing_path,
                 job_length_score, ready_queue, active, current>>

\* A broken PassOver: every miss passes over its line.
PassOverMiss ==
  /\ phase = "slice" /\ ~SliceOver /\ ~Resident
  /\ LineDone
  /\ UNCHANGED <<memVars, phase, lineVars, loader, backing_store, home, pid_counter, has_backing_path,
                 job_length_score, ready_queue, active, current>>

\* A process without a backing path does not fault: the line is passed over.
PassOver ==
  /\ phase = "slice" /\ ~SliceOver /\ ~Resident /\ ~has_backing_path[current]
  /\ LineDone
  /\ UNCHANGED <<memVars, phase, lineVars, loader, backing_store, home, pid_counter, has_backing_path,
                 job_length_score, ready_queue, active, current>>

SliceEnds == phase = "yield" \/ (phase = "slice" /\ SliceOver)

\* A broken Finish: the frames of the process are given back with it.
FinishReleasing ==
  /\ SliceEnds /\ PC[current] >= JobTime[current]
  /\ DropPcbs({current})
  /\ frame_table' = [f \in Frames |->
       IF current \in Mapping(f) THEN ClearFrame ELSE frame_table[f]]
  /\ PC' = [PC EXCEPT ![current] = 0]
  /\ has_backing_path' = [has_backing_path EXCEPT ![current] = FALSE]
  /\ job_length_score' = [job_length_score EXCEPT ![current] = 0]
  /\ current' = NoPid
  /\ executed' = 0
  /\ phase' = "dispatch"
  /\ UNCHANGED <<loaded_scripts, script_table, clock_value, lineVars, loader, backing_store, home,
                 pid_counter, ready_queue, active>>

\* free_pcb for a process that has run all its lines.
Finish ==
  /\ SliceEnds /\ PC[current] >= JobTime[current]
  /\ UnregisterPcb(current)
  /\ PC' = [PC EXCEPT ![current] = 0]
  /\ has_backing_path' = [has_backing_path EXCEPT ![current] = FALSE]
  /\ job_length_score' = [job_length_score EXCEPT ![current] = 0]
  /\ current' = NoPid
  /\ executed' = 0
  /\ phase' = "dispatch"
  /\ UNCHANGED <<lineVars, loader, backing_store, home, pid_counter, ready_queue, active>>

\* The AGING rule: age those who wait, then keep current in front unless the
\* head now has a lower score.
AgedScores == AgeAll(ready_queue, job_length_score)
RequeueAging ==
  /\ job_length_score' = AgedScores
  /\ ready_queue' =
       IF ready_queue = <<>> \/ AgedScores[Head(ready_queue)] >= AgedScores[current]
       THEN AddToHead(ready_queue, current)
       ELSE InsertSorted(ready_queue, current, AgedScores)

Requeue ==
  /\ SliceEnds /\ PC[current] < JobTime[current]
  /\ IF active = "AGING" THEN RequeueAging
     ELSE ready_queue' = AddToTail(ready_queue, current) /\ UNCHANGED job_length_score
  /\ current' = NoPid
  /\ executed' = 0
  /\ phase' = "dispatch"
  /\ UNCHANGED <<memVars, lineVars, loader, backing_store, home, pid_counter, PC, has_backing_path,
                 active>>
-----------------------------------------------------------------------------
Exited == phase = "exited" /\ UNCHANGED vars

UserNext == EndOfInput \/ \E chain \in Typed : Prompt(chain)

SystemNext ==
  \/ Parse \/ LineEnds
  \/ PlanFails \/ Plan \/ LoadNext \/ LoadFails \/ MakePcb \/ MakePcbFails \/ Unwind
  \/ Enqueue \/ Schedule
  \/ Dispatch \/ Idle \/ RunLine \/ PageFault \/ FaultFails \/ PassOver \/ Finish \/ Requeue

Next == UserNext \/ SystemNext \/ Exited

\* The shell is a program that runs on its own until it reads its input.
Spec == Init /\ [][Next]_vars /\ WF_vars(SystemNext)
-----------------------------------------------------------------------------
MyshTypeOK ==
  /\ phase \in {"prompt", "parse", "planning", "loading", "queueing", "rollback", "dispatch",
               "slice", "yield", "exited"}
  /\ {typed, line} \subseteq Seq(Commands)
  /\ loader \in [scripts : Requests \cup {<<>>}, policy : Policies, needs_load : SUBSET (1 .. 3),
                 loaded : SUBSET Scripts, pcbs : Seq(Pids)]
  /\ backing_store \subseteq Scripts
  /\ home \in BOOLEAN
  /\ pid_counter \in Nat
  /\ PC \in [Pids -> Nat]
  /\ has_backing_path \in [Pids -> BOOLEAN]
  /\ job_length_score \in [Pids -> Nat]
  /\ ready_queue \in Seq(Pids)
  /\ active \in Policies \cup {"none"}
  /\ current \in Pids \cup {NoPid}
  /\ executed \in Nat

\* No process is lost or listed twice on any path through the loader and the
\* scheduling loops: a live PCB is in the queue, or is current, or is being
\* made by a request, in exactly one place; and none is left at the prompt.
LiveAccounted ==
  LET places == ready_queue \o loader.pcbs \o (IF current = NoPid THEN <<>> ELSE <<current>>)
  IN  /\ ToSet(places) = live_pcbs
      /\ Len(places) = Cardinality(live_pcbs)
      /\ phase = "prompt" => places = <<>> /\ active = "none"

\* The pages that the scripts at the places I of a request start with.
FirstPages(scripts, I) == UNION {{i} \X InitialPages(scripts[i]) : i \in I}

\* What the admission test lets through fits: all the scripts still to be loaded
\* find their frames, whatever the scripts loaded before them took, also when the
\* request comes from inside a running script.
AdmittedFits ==
  phase = "loading" =>
    Cardinality(FirstPages(loader.scripts, ToLoad)) <= Cardinality(FreeFrames)

\* Conversely, a request is refused only when the pages its scripts start with
\* do not fit: "we only need enough space for the initial resident pages"
\* (interpreter.c:338).  The code does not keep to it.
RefusesOnlyWhatDoesNotFit ==
  phase = "planning" /\ Cardinality(FreeFrames) < TotalInitialPages(loader.scripts) =>
    Cardinality(FreeFrames) <
      Cardinality(FirstPages(loader.scripts, NeedsLoad(loader.scripts)))

\* The line that parseInput is reading sits in a frame (the pointer returned by
\* mem_get_frame_line), and the rest of it is read after a command on it has loaded
\* other programs, or has unwound their load: the frame keeps the page all along.
NestedLoadKeepsLine ==
  phase \in {"parse", "planning", "loading", "queueing", "rollback"} /\ current # NoPid =>
    /\ Resident
    /\ frame_table[pcb_table[current][CurrentPage]].script = pcb_script[current]
    /\ frame_table[pcb_table[current][CurrentPage]].page = CurrentPage

\* The memory trusts its callers, and they deserve it: a line is fetched, and a page
\* fault taken, inside the script; a script is loaded, and a process entered in the
\* registry, that is not there yet; its script is; and a failing request takes back
\* scripts that nobody but its own processes has come to run.
CallsAreLegal ==
  /\ phase = "slice" /\ ~SliceOver => CurrentPage \in Pages(pcb_script[current])
  /\ phase = "loading" =>
       /\ \A i \in ToLoad : loader.scripts[i] \notin loaded_scripts
       /\ ToLoad = {} => ToSet(loader.scripts) \subseteq loaded_scripts
       /\ pid_counter + 1 \notin live_pcbs
  /\ phase = "rollback" =>
       /\ loader.loaded \subseteq loaded_scripts
       /\ \A q \in live_pcbs : pcb_script[q] \in loader.loaded => q \in ToSet(loader.pcbs)

\* A process moves past a line only when the page of that line is resident, so
\* that the line has been interpreted: a page fault is served and retried, it
\* does not swallow the instruction.
NoLineSkipped ==
  [][\A q \in live_pcbs :
       PC'[q] > PC[q] => pcb_table[q][PC[q] \div PAGE_SIZE] # NoFrame]_vars

\* Under AGING the queue is ordered by score, with the requeued process in its
\* place, whenever the loop is about to pop.
AgingSorted ==
  active = "AGING" /\ phase = "dispatch" => SortedByScore(ready_queue, job_length_score)

\* Under SJF a process starts only once every shorter one has finished, page
\* faults and requeueing notwithstanding.
ShortestFirst ==
  active = "SJF" =>
    \A p, q \in live_pcbs : JobTime[p] < JobTime[q] => PC[q] = 0

\* Every command typed comes to an end: programs that fault do not evict each
\* other's pages forever, and no failure path or nested command strands the
\* thread.
Termination == phase # "prompt" ~> phase \in {"prompt", "exited"}
=============================================================================
