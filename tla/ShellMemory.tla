---------------------------- MODULE ShellMemory ----------------------------
(***************************************************************************)
(* The paged code memory of mysh (shellmemory.c, with the page tables that *)
(* live in the PCBs of pcb.c).                                             *)
(*                                                                         *)
(* Script text is held in MAX_FRAMES frames of PAGE_SIZE lines.  Every     *)
(* loaded script has one canonical page table, and every live PCB has a    *)
(* private clone of the table of its script.  A frame that is reused must  *)
(* disappear from all of those tables, and a page that is brought in must  *)
(* appear in all the tables of its script.                                 *)
(*                                                                         *)
(* The module is open: Next lets the callers (the program loader and the   *)
(* scheduler) issue these operations in any order their own code permits.  *)
(* A line of text is abstracted to its place, so the contents of a frame   *)
(* are the script and the page that were read into it.                     *)
(***************************************************************************)
EXTENDS Integers, FiniteSets

CONSTANTS
  Scripts,        \* script names: the part of a path after the last '/'
  NoScript,       \* the name of no script, in entries that are empty
  LineCount,      \* LineCount[s]: lines in the file of script s
  Pids,           \* process identifiers that can be handed out
  MAX_FRAMES,     \* FRAME_STORE_SIZE / PAGE_SIZE
  PAGE_SIZE,      \* lines in a frame, 3 in the code
  MAX_PROCESSES   \* size of FrameEntry.using_pcb_pids

ASSUME ScriptsAssumption ==
  /\ NoScript \notin Scripts
  /\ LineCount \in [Scripts -> Nat]
ASSUME SizesAssumption ==
  /\ MAX_FRAMES \in Nat \ {0}
  /\ PAGE_SIZE \in Nat \ {0}
  /\ MAX_PROCESSES \in Nat \ {0}
ASSUME PidsAssumption == Pids \subseteq Nat

VARIABLES
  frame_table,    \* frame_table[f]: entry and contents of frame f
  loaded_scripts, \* names with an in_use entry in loaded_scripts[]
  script_table,   \* script_table[s]: canonical page table of s
  live_pcbs,      \* pids in the live PCB registry
  pcb_script,     \* pcb_script[q]: script run by process q
  pcb_table,      \* pcb_table[q]: private page table of process q
  clock_value     \* logical time of the replacement policy

memVars == <<frame_table, loaded_scripts, script_table, live_pcbs, pcb_script,
             pcb_table, clock_value>>
-----------------------------------------------------------------------------
Frames == 0 .. MAX_FRAMES - 1
NoFrame == -1

\* (total_lines + PAGE_SIZE - 1) / PAGE_SIZE
NumPages(s) == (LineCount[s] + PAGE_SIZE - 1) \div PAGE_SIZE
Pages(s) == 0 .. NumPages(s) - 1
AllPages == UNION {Pages(s) : s \in Scripts}

\* A broken InitialPages, not capped by the number of pages of the script.
UncappedInitialPages(s) ==
  {p \in AllPages : p < IF LineCount[s] >= PAGE_SIZE THEN 2 ELSE 1}

\* Pages that mem_load_initial_pages brings in: two when the script has at
\* least PAGE_SIZE lines, else one, and never more than the script has.
InitialPages(s) ==
  {p \in Pages(s) : p < IF LineCount[s] >= PAGE_SIZE THEN 2 ELSE 1}

PageTable == [AllPages -> Frames \cup {NoFrame}]
EmptyTable == [p \in AllPages |-> NoFrame]

FrameEntry == [occupied : BOOLEAN, script : Scripts \cup {NoScript},
               page : AllPages \cup {-1}, last_used : Nat,
               using : SUBSET Pids]

\* What clear_frame leaves in a frame.
ClearFrame == [occupied |-> FALSE, script |-> NoScript, page |-> -1,
               last_used |-> 0, using |-> {}]

\* Two broken FilledFrames: the stamp is taken after a decrement, or not written.
EarlyStampFrame(e, s, p, stamp) ==
  [e EXCEPT !.occupied = TRUE, !.script = s, !.page = p, !.last_used = stamp - 1]
UnstampedFrame(e, s, p, stamp) == [e EXCEPT !.occupied = TRUE, !.script = s, !.page = p]

\* What loading page p of s writes in entry e: the users are not reset.
FilledFrame(e, s, p, stamp) ==
  [e EXCEPT !.occupied = TRUE, !.script = s, !.page = p, !.last_used = stamp]

FreeFrames == {f \in Frames : ~frame_table[f].occupied}

\* find_free_frame: the unoccupied frame of lowest index in a set of frames.
IsLowest(f, S) == f \in S /\ \A g \in S : f <= g

\* A broken victim: the most recently used frame.
IsNewest(f) ==
  /\ frame_table[f].occupied
  /\ \A g \in Frames : frame_table[g].occupied =>
       frame_table[g].last_used <= frame_table[f].last_used

\* The scan of mem_evict_lru_frame keeps the first entry with the smallest
\* stamp among the occupied frames.
IsVictim(f) ==
  /\ frame_table[f].occupied
  /\ \A g \in Frames :
       frame_table[g].occupied =>
         \/ frame_table[f].last_used < frame_table[g].last_used
         \/ frame_table[f].last_used = frame_table[g].last_used /\ f <= g

\* Live processes that run script s.
Sharers(s) == {q \in live_pcbs : pcb_script[q] = s}

\* Live processes whose page table names frame f.
Mapping(f) == {q \in live_pcbs : \E p \in AllPages : pcb_table[q][p] = f}

\* A broken Registered, which does not look at the size of the list.
RegisteredUnbounded(using, new) == using \cup new

\* mem_register_pcb_uses_frame for each pid of new, in registry order (the
\* most recent process first): a pid is dropped once the list is full.
Registered(using, new) ==
  using \cup {q \in new \ using :
                Cardinality(using) + Cardinality({r \in new \ using : r > q})
                  < MAX_PROCESSES}
-----------------------------------------------------------------------------
MemInit ==
  /\ frame_table = [f \in Frames |-> ClearFrame]
  /\ loaded_scripts = {}
  /\ script_table = [s \in Scripts |-> EmptyTable]
  /\ live_pcbs = {}
  /\ pcb_script = [q \in Pids |-> NoScript]
  /\ pcb_table = [q \in Pids |-> EmptyTable]
  /\ clock_value = 0

\* mem_load_initial_pages followed by mem_register_script, both successful.
\* Each page takes the lowest free frame, in page order.
LoadScript(s) ==
  /\ s \notin loaded_scripts
  /\ Cardinality(loaded_scripts) < MAX_FRAMES
  /\ \E at \in [InitialPages(s) -> FreeFrames] :
       /\ \A p \in InitialPages(s) :
            IsLowest(at[p], FreeFrames \ {at[o] : o \in {r \in InitialPages(s) : r < p}})
       /\ frame_table' = [f \in Frames |->
            IF \E p \in InitialPages(s) : at[p] = f
            THEN LET p == CHOOSE r \in InitialPages(s) : at[r] = f
                 IN  FilledFrame(frame_table[f], s, p, clock_value + p)
            ELSE frame_table[f]]
       /\ script_table' = [script_table EXCEPT ![s] =
            [p \in AllPages |-> IF p \in InitialPages(s) THEN at[p] ELSE NoFrame]]
  /\ loaded_scripts' = loaded_scripts \cup {s}
  /\ clock_value' = clock_value + Cardinality(InitialPages(s))
  /\ UNCHANGED <<live_pcbs, pcb_script, pcb_table>>

\* Two broken cleanups of a failed load: the frames are marked free without being
\* cleared, or the loop over the pages clears the frames of the same numbers.
LoadScriptFailsUncleared(s) ==
  /\ s \notin loaded_scripts
  /\ \E taken \in SUBSET FreeFrames :
       /\ Cardinality(taken) <= Cardinality(InitialPages(s))
       /\ frame_table' = [f \in Frames |->
            IF f \in taken
            THEN [FilledFrame(frame_table[f], s, 0, clock_value) EXCEPT !.occupied = FALSE]
            ELSE frame_table[f]]
       /\ clock_value' = clock_value + Cardinality(taken)
  /\ UNCHANGED <<loaded_scripts, script_table, live_pcbs, pcb_script, pcb_table>>
LoadScriptFailsByIndex(s) ==
  /\ s \notin loaded_scripts
  /\ \E taken \in SUBSET FreeFrames :
       /\ Cardinality(taken) <= Cardinality(InitialPages(s))
       /\ frame_table' = [f \in Frames |->
            IF f < Cardinality(taken) THEN ClearFrame ELSE frame_table[f]]
       /\ clock_value' = clock_value + Cardinality(taken)
  /\ UNCHANGED <<loaded_scripts, script_table, live_pcbs, pcb_script, pcb_table>>

\* The same pair of calls failing: the frames taken so far are cleared again
\* and nothing is registered, but the clock has advanced by a tick per page
\* that was stamped.
LoadScriptFails(s) ==
  /\ s \notin loaded_scripts
  /\ \E taken \in SUBSET FreeFrames :
       /\ Cardinality(taken) <= Cardinality(InitialPages(s))
       /\ frame_table' = [f \in Frames |->
            IF f \in taken THEN ClearFrame ELSE frame_table[f]]
       /\ clock_value' = clock_value + Cardinality(taken)
  /\ UNCHANGED <<loaded_scripts, script_table, live_pcbs, pcb_script, pcb_table>>
-----------------------------------------------------------------------------
\* mem_clone_script_page_table, then mem_register_pcb called by make_pcb: the
\* new process q gets a copy of the canonical table and is entered in the
\* users of every frame it maps.
RegisterPcb(q, s) ==
  /\ q \in Pids \ live_pcbs
  /\ s \in loaded_scripts
  /\ live_pcbs' = live_pcbs \cup {q}
  /\ pcb_script' = [pcb_script EXCEPT ![q] = s]
  /\ pcb_table' = [pcb_table EXCEPT ![q] = script_table[s]]
  /\ frame_table' = [f \in Frames |->
       IF \E p \in AllPages : script_table[s][p] = f
       THEN [frame_table[f] EXCEPT !.using = Registered(@, {q})]
       ELSE frame_table[f]]
  /\ UNCHANGED <<loaded_scripts, script_table, clock_value>>

\* A broken WithoutPcbs: the users of the frames are left alone.
WithPcbs(ft, Q) == ft

\* Entries of the tables without the processes in Q (mem_unregister_pcb).
WithoutPcbs(ft, Q) ==
  [f \in Frames |->
     [ft[f] EXCEPT !.using = @ \ {q \in Q : \E p \in AllPages : pcb_table[q][p] = f}]]

\* A broken DropPcbs: the processes stay in the registry.
DropTablesOnly(Q) ==
  /\ UNCHANGED live_pcbs
  /\ pcb_script' = [q \in Pids |-> IF q \in Q THEN NoScript ELSE pcb_script[q]]
  /\ pcb_table' = [q \in Pids |-> IF q \in Q THEN EmptyTable ELSE pcb_table[q]]

\* The registry, scripts and page tables once the processes in Q are freed.
DropPcbs(Q) ==
  /\ live_pcbs' = live_pcbs \ Q
  /\ pcb_script' = [q \in Pids |-> IF q \in Q THEN NoScript ELSE pcb_script[q]]
  /\ pcb_table' = [q \in Pids |-> IF q \in Q THEN EmptyTable ELSE pcb_table[q]]

\* free_pcb: frames survive the process, only its users' entries go.
UnregisterPcb(q) ==
  /\ q \in live_pcbs
  /\ frame_table' = WithoutPcbs(frame_table, {q})
  /\ DropPcbs({q})
  /\ UNCHANGED <<loaded_scripts, script_table, clock_value>>

\* rollback_loaded_scripts for the scripts S, whose frames are cleared, and
\* free_planned_pcbs for the processes Q.  The loader calls it for scripts it
\* has just loaded: no process outside Q runs one of them.
Rollback(S, Q) ==
  /\ S \subseteq loaded_scripts
  /\ Q \subseteq live_pcbs
  /\ \A q \in live_pcbs \ Q : pcb_script[q] \notin S
  /\ loaded_scripts' = loaded_scripts \ S
  /\ script_table' = [s \in Scripts |-> IF s \in S THEN EmptyTable ELSE script_table[s]]
  /\ frame_table' = WithoutPcbs([f \in Frames |->
       IF \E s \in S, p \in AllPages : script_table[s][p] = f
       THEN ClearFrame ELSE frame_table[f]], Q)
  /\ DropPcbs(Q)
  /\ UNCHANGED clock_value
-----------------------------------------------------------------------------
\* A broken Fetch, which does not stamp the frame.
FetchUnstamped(q, p) ==
  /\ q \in live_pcbs
  /\ p \in Pages(pcb_script[q])
  /\ pcb_table[q][p] # NoFrame
  /\ UNCHANGED memVars

\* mem_get_frame_line on a resident page: the frame becomes the most recent.
Fetch(q, p) ==
  /\ q \in live_pcbs
  /\ p \in Pages(pcb_script[q])
  /\ pcb_table[q][p] # NoFrame
  /\ frame_table' = [frame_table EXCEPT ![pcb_table[q][p]].last_used =
       IF frame_table[pcb_table[q][p]].occupied THEN clock_value ELSE @]
  /\ clock_value' =
       IF frame_table[pcb_table[q][p]].occupied THEN clock_value + 1 ELSE clock_value
  /\ UNCHANGED <<loaded_scripts, script_table, live_pcbs, pcb_script, pcb_table>>

\* mem_publish_page_mapping of page p of s in frame f, on top of the frame
\* table ft, the canonical tables st and the private tables pt.
Publish(ft, st, pt, s, p, f) ==
  /\ script_table' = [r \in Scripts |->
       IF r = s /\ s \in loaded_scripts THEN [st[r] EXCEPT ![p] = f] ELSE st[r]]
  /\ pcb_table' = [q \in Pids |->
       IF q \in Sharers(s) THEN [pt[q] EXCEPT ![p] = f] ELSE pt[q]]
  /\ frame_table' = [g \in Frames |->
       IF g = f THEN [ft[g] EXCEPT !.using = Registered(@, Sharers(s))]
       ELSE [ft[g] EXCEPT !.using = @ \ {q \in Sharers(s) : pt[q][p] = g}]]

\* mem_invalidate_frame_references on one page table.
Invalidated(table, f) ==
  [p \in AllPages |-> IF table[p] = f THEN NoFrame ELSE table[p]]

\* The frame a page fault will use: the lowest free one or, in a full store,
\* the victim of the LRU scan.
IsFaultFrame(f) ==
  IF FreeFrames # {} THEN IsLowest(f, FreeFrames) ELSE IsVictim(f)

\* Three broken evictions: the users of the victim survive, or the canonical
\* tables or the private ones keep their entries.
AvailableWithUsers(f) ==
  IF f \in FreeFrames THEN frame_table
  ELSE [frame_table EXCEPT ![f] = [ClearFrame EXCEPT !.using = frame_table[f].using]]
ScriptTablesKept(f) == script_table
PcbTablesKept(f) == pcb_table

\* The frames and the page tables after the chosen frame f has been made
\* available: only an evicted frame is cleared, looked up in the tables and
\* invalidated there.
Available(f) ==
  IF f \in FreeFrames THEN frame_table ELSE [frame_table EXCEPT ![f] = ClearFrame]
ScriptTablesWithout(f) ==
  [s \in Scripts |->
     IF f \in FreeFrames \/ s \notin loaded_scripts THEN script_table[s]
     ELSE Invalidated(script_table[s], f)]
PcbTablesWithout(f) ==
  [q \in Pids |->
     IF f \in FreeFrames \/ q \notin live_pcbs THEN pcb_table[q]
     ELSE Invalidated(pcb_table[q], f)]

\* The state in which the scheduler calls mem_demand_load_page.
Faulting(q, p) ==
  /\ q \in live_pcbs
  /\ p \in Pages(pcb_script[q])
  /\ pcb_table[q][p] = NoFrame

\* mem_get_loaded_script_page_frame finds the page resident for the script.
ResidentForScript(s, p) == s \in loaded_scripts /\ script_table[s][p] # NoFrame

\* mem_demand_load_page returning 0 or 2: the page is resident afterwards, by
\* adopting the canonical mapping (2) or by a real load (0).
DemandLoad(q, p) ==
  LET s == pcb_script[q] IN
  /\ Faulting(q, p)
  /\ IF ResidentForScript(s, p)
     THEN /\ Publish(frame_table, script_table, pcb_table, s, p, script_table[s][p])
          /\ UNCHANGED clock_value
     ELSE \E f \in Frames :
          /\ IsFaultFrame(f)
          /\ Publish([Available(f) EXCEPT ![f] = FilledFrame(@, s, p, clock_value)],
                     ScriptTablesWithout(f), PcbTablesWithout(f), s, p, f)
          /\ clock_value' = clock_value + 1
  /\ UNCHANGED <<loaded_scripts, live_pcbs, pcb_script>>

\* mem_demand_load_page returning 1: the backing copy cannot be opened, or
\* memory runs out while the lines are copied, after the victim was discarded.
DemandLoadFails(q, p) ==
  /\ Faulting(q, p)
  /\ ~ResidentForScript(pcb_script[q], p)
  /\ \E f \in Frames :
       /\ IsFaultFrame(f)
       /\ \/ frame_table' = Available(f) /\ UNCHANGED clock_value
          \/ /\ frame_table' = [Available(f) EXCEPT ![f] = ClearFrame]
             /\ clock_value' = clock_value + 1
       /\ script_table' = ScriptTablesWithout(f)
       /\ pcb_table' = PcbTablesWithout(f)
  /\ UNCHANGED <<loaded_scripts, live_pcbs, pcb_script>>
-----------------------------------------------------------------------------
MemNext ==
  \/ \E s \in Scripts : LoadScript(s) \/ LoadScriptFails(s)
  \/ \E q \in Pids, s \in Scripts : RegisterPcb(q, s)
  \/ \E q \in Pids : UnregisterPcb(q)
  \/ \E S \in SUBSET loaded_scripts, Q \in SUBSET live_pcbs : Rollback(S, Q)
  \/ \E q \in Pids, p \in AllPages :
       Fetch(q, p) \/ DemandLoad(q, p) \/ DemandLoadFails(q, p)

MemSpec == MemInit /\ [][MemNext]_memVars
-----------------------------------------------------------------------------
\* Every variable holds what its C declaration allows.
MemTypeOK ==
  /\ frame_table \in [Frames -> FrameEntry]
  /\ loaded_scripts \subseteq Scripts
  /\ script_table \in [Scripts -> PageTable]
  /\ live_pcbs \subseteq Pids
  /\ pcb_script \in [Pids -> Scripts \cup {NoScript}]
  /\ pcb_table \in [Pids -> PageTable]
  /\ clock_value \in Nat

\* A live process runs a script that is still registered, and its private page
\* table is at all times the canonical one: invalidation and publication reach
\* every clone (mem_invalidate_frame_references, mem_publish_page_mapping).
\* In particular a page that a process misses is resident for nobody, so the
\* "already resident through script sharing" result 2 cannot occur.
TablesAgree ==
  \A q \in live_pcbs :
    /\ pcb_script[q] \in loaded_scripts
    /\ pcb_table[q] = script_table[pcb_script[q]]

\* A page-table entry that names a frame names an occupied frame that holds
\* exactly that page of that script: no table entry survives the eviction or
\* the rollback of its frame, and none points into a recycled one.
NoDanglingEntry ==
  \A s \in loaded_scripts, p \in AllPages :
    script_table[s][p] # NoFrame =>
      LET e == frame_table[script_table[s][p]]
      IN  e.occupied /\ e.script = s /\ e.page = p

\* An occupied frame is in the table of the script it holds, so no frame is
\* lost: a failed load gives back every frame it took ...
NoOrphanFrame ==
  \A f \in Frames :
    frame_table[f].occupied =>
      /\ frame_table[f].script \in loaded_scripts
      /\ frame_table[f].page \in Pages(frame_table[f].script)
      /\ script_table[frame_table[f].script][frame_table[f].page] = f

\* ... and gives it back as clear_frame leaves it: mem_load_initial_pages and
\* mem_demand_load_page reset no users, so they trust the entry of a free frame
\* to have none.
FreeFramesClear == \A f \in FreeFrames : frame_table[f] = ClearFrame

\* using_pcb_pids names only live processes that map the frame ...
UsersSound ==
  \A f \in Frames : frame_table[f].using \subseteq Mapping(f)

\* ... and all of them, as long as there can be no more processes than the list
\* has room for.
UsersComplete ==
  IsFiniteSet(Pids) /\ Cardinality(Pids) <= MAX_PROCESSES =>
    \A f \in Frames : Mapping(f) \subseteq frame_table[f].using

\* The bookkeeping of using_pcb_pids agrees with the page tables.
UsersTracked == UsersSound /\ UsersComplete

\* using_pcb_pids holds no more entries than it has room for, although nested
\* requests can make more processes share a frame.
UsersFit == \A f \in Frames : Cardinality(frame_table[f].using) <= MAX_PROCESSES

\* The stamps of occupied frames are distinct and in the past, so the victim of
\* mem_evict_lru_frame is unique and does not depend on the frame's index.
StampsDistinct ==
  \A f, g \in Frames :
    frame_table[f].occupied =>
      /\ frame_table[f].last_used < clock_value
      /\ frame_table[g].occupied /\ f # g =>
           frame_table[f].last_used # frame_table[g].last_used
-----------------------------------------------------------------------------
\* The memory as a cache: the pages in the occupied frames, by their stamps.
Occupied == {f \in Frames : frame_table[f].occupied}
Held(f) == <<frame_table[f].script, frame_table[f].page>>
HeldPages == {Held(f) : f \in Occupied}
ByLastUse ==
  {pair \in HeldPages \X HeldPages :
     \E f, g \in Occupied : /\ pair = <<Held(f), Held(g)>>
                            /\ frame_table[f].last_used < frame_table[g].last_used}

Cache == INSTANCE LruCache WITH
  Numbers <- AllPages, Capacity <- MAX_FRAMES, resident <- HeldPages, older <- ByLastUse

\* Demand paging implements a least-recently-used cache: pages enter free frames
\* while there are any, only a page fault in a full store evicts, and its victim
\* is the page whose last use, by whichever process shares it, lies longest ago.
EvictsLeastRecent == Cache!CacheSpec
=============================================================================
