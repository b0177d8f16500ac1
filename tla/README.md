# Verification of mysh

`mysh` is a teaching shell with demand paging.  Scripts are run as processes by
`exec` (one to three programs under a scheduling policy) and `source`; their
text is copied to a directory `backing_store` and paged into a small frame
store, three lines to a page, with LRU replacement.  The shell is one thread:
what makes it hard is not parallelism but that several processes share frames,
that every page table is kept twice, that a page fault suspends a process at a
line it has not run, that scripts can load scripts, and that any allocation or
file operation can fail in the middle of a load.  Only `run` has two processes
at a time, a fork of the shell and the shell itself, with one input between them.

All line numbers refer to `src/src/`.

## Inventory

| part | code | state | operations |
|---|---|---|---|
| paged memory | `shellmemory.c` | `frame_table`, `frame_store`, `loaded_scripts`, `live_pcbs`, `clock_value` | load, demand load, evict, invalidate, publish, register, release |
| PCBs | `pcb.c` | `pid_counter`, the fields of each PCB | `make_pcb`, `free_pcb` |
| ready queue | `ready_queue.c` | `head`, `tail`, the `next` fields | add to tail or head, sorted insertion, pop head or shortest, age |
| scheduler | `scheduler.c` | `g_scheduler_active`, the process that runs | five policies over `run_process_slice` |
| program loader | `interpreter.c` 246-438 | locals of `load_and_schedule_programs` | plan, admit, load, make PCBs, roll back, queue |
| prompt, parser, dispatch | `shell.c`, `interpreter.c` 98-185 | one line of input | read, split into commands and words, dispatch |
| backing store | `shellmemory.c` 385-456 | files | copy, count lines, reopen |
| variable store | `shellmemory.c` 359-383 | an array of pairs | set, get |
| directory commands | `interpreter.c` 492-640 | files, working directory | `my_ls`, `my_mkdir`, `my_touch`, `my_cd` |
| `run` | `interpreter.c` 671, `shell.c` | buffers of input and output, offset of the input | fork, exec, wait, exit |

**How they interact.**  `main` reads a line; `parseInput` splits off a command,
gives it to `interpreter`, and goes on with the rest of the line.  `exec` and
`source` enter the loader, which asks the memory for pages and tables, makes
PCBs (`make_pcb` registers each with the memory), queues them and calls
`scheduler_run`.  A scheduling loop pops a process and `run_process_slice`
fetches its lines from the memory and gives each to `parseInput`, so a line of a
script can enter the loader again; because a loop is then active the inner
`scheduler_run` returns at once, the new processes wait in the queue of the
outer loop, and the rest of the line is read from its frame.  A line whose page
is not resident is a page fault: the memory loads the page, possibly evicting
one of any program, and the process is queued again without having moved.

**What has to be right.**

* Memory: a table entry names a frame that holds that page, in the canonical
  table and in every clone; no frame is lost; what is freed is clear; the victim
  is the page used longest ago.
* Loader: an admitted request fits; a request that fails leaves no trace in
  memory; it never disturbs the line that issued it.
* Scheduler and queue: no process is lost or duplicated; the linked list is a
  queue; SJF and AGING run processes in the order they promise; every command
  ends.
* Page faults: a fault is retried, it does not swallow the instruction.
* Parser: no command of a line is lost or run twice.
* Variables: a name has the value last set.  Directories: what is made has a
  legal name, what is listed is sorted.
* `run`: no line of the input and no output is lost or used twice, whichever of
  the two processes gets there first.

The hazards this list comes from are in `PROJECT.json` at their lines.

## Modules

| module | of | is implemented by |
|---|---|---|
| `LruCache` | what the memory promises | `ShellMemory` |
| `ShellMemory` | the memory | `Mysh`, the running shell, which also builds on `ReadyQueue` |
| `WaitingQueue`, on the operators of `ReadyQueue` | what the ready queue promises | `ReadyQueueList` |
| `Variables` | what the variables promise | `VariableStore` |
| `Directory`, and with `VariableStore` `PlainCommands` | commands that load nothing | |
| `LineParser` | `parseInput` | |
| `RunCommand` | `run` in batch mode | |

Every refinement in the table is checked by a run and proved.
`MC*` modules instantiate them for TLC.  Proofs are in `ShellMemoryProofs`
(the memory; users, cache and uses), `ReadyQueueProofs` (the operations on sequences),
`MyshProofs` and `SchedulingProofs` (the shell; admission, order of execution,
lines run, failed loads), `ReadyQueueListProofs`, `PlainCommandsProofs` (variables and
directories), `LineParserProofs` and `RunCommandProofs`.

**`ShellMemory`** is the memory with the page tables of the PCBs.  It is an open
module: `MemNext` lets callers issue its operations whenever their own code
permits, so `MemSpec` is also the abstract specification the shell implements.

| definition | code |
|---|---|
| `frame_table[f]` | `frame_table[f]` and the lines of frame `f`; a line is identified by its place, so the contents are a script and a page |
| `loaded_scripts`, `script_table` | the `in_use` entries of `loaded_scripts[]` and their tables |
| `live_pcbs`, `pcb_script`, `pcb_table` | the registry and, of each PCB, `script_name` and `page_table` |
| `LoadScript`, `LoadScriptFails` | `mem_load_initial_pages` with `mem_register_script` |
| `RegisterPcb`, `UnregisterPcb` | `mem_clone_script_page_table` with `make_pcb`; `free_pcb` |
| `Rollback` | `rollback_loaded_scripts` with `free_planned_pcbs` |
| `Fetch` | `mem_get_frame_line` |
| `DemandLoad`, `DemandLoadFails` | `mem_demand_load_page`, with `mem_evict_lru_frame`, `mem_invalidate_frame_references`, `mem_publish_page_mapping` |

The users of a frame are a set; that the code keeps a list of bounded length
appears in `Registered`, which drops the processes that come too late in the
order of the registry (the newest process first).

**`LruCache`** is the same memory without frames, tables, stamps or processes: a
set of pages in the order of their last use.  `EvictsLeastRecent` maps the
occupied frames to the pages they hold and the stamps to that order.

**`UseHistory`** adds to `ShellMemory` two history variables: `uses` counts the
loads of a page and the reads of a line, and `last_use` has the number of the last
use of each page. They constrain nothing. `StampsFollowUse` and
`EvictsLongestUnused` say of the clock in terms of them what LRU means, without
speaking of stamps, publications or rollbacks.

**`ReadyQueue`** gives the result of each operation of `ready_queue.c` on the
sequence of waiting processes; **`WaitingQueue`** makes a state machine of them.
**`ReadyQueueList`** is the code: pointers and loops, where each round of a loop
is a step.  Its `Contents` is the sequence that the pointers spell out, and
`SeenScore` the scores as a caller sees them, for whom aging happens when it is
called although the walk lowers one score at a time.

**`Mysh`** is the running shell.  `phase` says where its one thread is, and each
action is the code between two points where something else can be observed: a
command of a line, a step of the loader, a line fetched, the end of a slice.
`typed` and `line` are what `parseInput` has still to interpret of the line at
the prompt and of the line of a script; `Parse` takes the next command,
`LineEnds` returns to `main` or to `run_process_slice`.  `loader` holds the
locals of `load_and_schedule_programs`; `current` and `executed` those of the
scheduling loop.  `Interpret` is the dispatch on a command; commands that touch
neither programs nor the directory are `plain`.  `IOFails` says whether
allocations and file operations may fail.  `home` says whether the relative path
`backing_store` still names the directory made at start-up.  Another directory may
or may not have a `backing_store` with the files in it, so away from home every
copy and every fault may fail and may succeed; the variable `backing_store` holds
the copies made at home.

**`LoadHistory`** adds to `Mysh` a history variable, `saved`, with the state that
a failing load has to restore; `Save` constrains nothing but `saved`.
**`RunHistory`** likewise adds `ran`, the lines each process has handed to
`parseInput`.

**`VariableStore`** is the array with its sentinel "none"; **`Variables`** the
map it implements, which has room for as many names as the array has entries.
Both keep the arguments of the last call if it was an assignment (`asked`), and
what it returned if it was a lookup (`found`): an assignment that is dropped is a
step of the map too, and one the map allows only when it is full.
**`Directory`** has a tree of files, the working directory and the last listing,
names being sequences of character codes because `my_ls` compares them.
**`PlainCommands`** puts the two side by side, for `my_mkdir $x` takes the name
from a variable.

**`LineParser`** is `parseInput` on lines of character classes.  `Mysh` starts
where it ends, with a line that is a sequence of commands.

**`RunCommand`** is batch mode with `run`: lines are numbered, and the variables
are what the C library and the kernel keep of them: the offset of the input,
which the processes share, and the buffers, of which each has its own.  `written`
is the output in the order in which it was written; `printed`, the lines that have
printed, is what it is held against.

Where an operator is preceded by "A broken ...", it is a plausible mistake in
the definition that follows.  Nothing uses it; substituted for that definition
it makes the property named in `PROJECT.json` fail, which shows that the
property depends on that piece of code.

## Runs

| run | question | bounds |
|---|---|---|
| `memory` | do tables, frames, users and stamps agree under any order of operations and failures, and is the victim the page used longest ago, by the stamps and by the history of uses? | three frames of one line; scripts of three, one and no pages; two processes; seven ticks |
| `shell` | do programs that compete for frames under every policy run each of their lines once, in order, and end? | five frames of two lines; scripts of four, one and four pages; three programs at a time |
| `nested` | are failures unwound exactly, also inside a line with more commands to come; do callers ask the memory only for what it allows, and do users lists that are full stay right? | five frames of two lines; lists of two users; a script that execs three programs, one that changes directory and sources; users that also chain commands, change directory and quit; every fallible call may fail; ten ticks |
| `list` | is the linked list the queue, call by call? | four processes, two equally long and two equally short; scores of 0 and 1 |
| `plain` | is the array a map, are names legal, is the listing sorted? | a store of two for three names, "none" among the values; three files, two levels |
| `run_command` | is the input used once, and is all that is printed written, once and in order? | six lines of any kind, read in blocks of three; an output buffer of two |
| `parser` | is a line split into exactly its commands? | all lines of up to six characters |
| `shared_backing`, `wandering`, `admission`, `mixed_policies`, `digits` | what comments in the code say and the code does not do (below) | |

*Why the bounds are enough.* Three frames with three-page scripts make a full
store, evictions of another script's page, of one's own and of a page of a
script nobody runs. Two processes of one script are what sharing needs; a third
matters when a users list is full, which `nested` reaches with lists of two.
Three is the largest number of programs a request can name. The programs of
`shell` need nine pages of five frames, so they must evict each other's; a store
of one frame less would not admit them. In `nested` a program of three pages
holds two frames while a line of it loads scripts of one and three pages under
AGING, and what they leave makes its last page evict one of theirs; the nested
script runs into a fault outside the home directory. In `list`, scores of 0 and
1 with four processes give ties at the head, in the middle and at the tail, and
a score that aging cannot lower. In `plain` one name more than entries makes the
store drop an assignment, and two entries make it keep one while there is room. Six lines in blocks of three fill the input buffer
twice, with a `run` at its beginning, in its middle and at its end; the output
buffer of two overflows. Six characters are two commands of two letters with
blanks and semicolons around them.

`Spare` is the number of processes the longest command can make, so that no
command runs out of identifiers: nine in `nested`, where `exec a c` makes two, the
script `a` three more, one of them a second `c`, and each `c` sources `b` twice.
`MaxClock` and `MaxPid` in the MC modules only
stop the user from typing more; a command in progress is never cut short except
by `ClockCap`, which no run reaches (were it reached, the shell would stop and
`Termination` would fail). `PAGE_SIZE` is two instead of three in the shell
runs: one page has then a first and a last line, and the edges of the admission
test (no line, one, a page, a page and one) are still different. RR30 with
scripts of at most eight lines never uses up its quantum; it stands for a
quantum longer than the program.

`shell` assumes that a script is asked for only while it is not loaded
(`Once`), that nothing changes directory and nothing fails: without these the
code does skip lines, as the first two findings show. `memory` runs
`UseHistory`, `shell` runs `RunHistory` and `nested` runs `LoadHistory`.

*Deadlock* is checked in the shell runs (`Exited` stands for the process that is
gone) and of the list. It is not where the system really stops: in the memory
run the callers stop at `MaxClock`, batch mode and the parser end, and a crash
of `my_touch` ends the shell in `plain` and `digits`.

*Fairness.*  `Mysh`: weak fairness of `SystemNext`. Once a command has been read
the shell is an ordinary program and takes its next step unless it blocks, and
nothing in it blocks but reading input; of the user nothing is assumed.
`ReadyQueueList`: weak fairness of `LoopNext`, since a loop that has begun is
that same thread; `LineParser`: of `Next`, for the same reason. `RunCommand`:
weak fairness of `ShellNext` and of `ChildNext`, as the kernel schedules both
processes. This includes `ProgramEnds`: that a program which is run ends is an
assumption, without which `waitpid` waits for ever; that it reads its input
(`ProgramReads`) is not assumed.

## Findings

1. `shared_backing`: the second process of a loaded script has an empty
   `backing_path` (`interpreter.c` 294-296 and 306-311 leave it empty, 421 copies
   it), so a miss is not a page fault (`scheduler.c` 52) and its lines are passed
   over; `scheduler.c` 85-87 says that the miss preserves the current
   instruction.  It shows with `exec a a RR`, or `exec a FCFS` twice, whenever
   `a` has pages that are not resident.
2. `wandering`: `my_cd` in a script breaks the relative backing path, faults fail
   and lines are skipped; `shellmemory.c` 404-406 says that the original source
   path no longer matters once the copy is made, yet the copy's path does.
3. `admission`: `interpreter.c` 343 counts two pages for a script of exactly one
   page and one for an empty script, so programs are refused that fit;
   `interpreter.c` 338 says that only the initial pages need space.
4. `mixed_policies`: a `source` inside an AGING run queues at the tail;
   `ready_queue.c` 59 says the AGING queue is kept ordered by score.
5. `digits`: of two names of which one goes on with a digit where the other ends,
   `ls_compare_char` finds either smaller than the other (`interpreter.c` 533),
   so `n1` may be listed before `n`; `interpreter.c` 524-526 says the comparison
   is right when `b` ends first.

Two more facts met while modelling have no run of their own.  `set none x` uses
the first unused entry, which is still unused afterwards, and an unset variable
of that name prints `none` (`shellmemory.c` 378): the model has this behaviour,
and `StoreIsMap` assumes that no name is "none".  `my_touch` of a directory
closes a null pointer (`interpreter.c` 615), although the comment there says that
what goes wrong is ignored: in `Directory` the shell stops, `running` becoming
FALSE.

## Proofs

Everything in this section is proved by TLAPS for all values of the constants
that satisfy the named assumptions of the modules (names are not reused as null
values, sizes are positive, a script has as many lines as its program).

**Memory.**  `MemInv`, the conjunction of `MemTypeOK`, `TablesAgree`,
`NoDanglingEntry`, `NoOrphanFrame`, `FreeFramesClear`, `UsersSound` and
`StampsDistinct`, is inductive.  None of the parts is so alone: that an eviction
leaves no dangling entry needs that each occupied frame is named by exactly one
entry (`NoDanglingEntry` with `NoOrphanFrame`); that a clone agrees after a
publication needs that it agreed before; that a loaded frame has no false users
needs that a free frame is clear.  There is one lemma per action, `StepInv` joins
them, and each invariant is a theorem of its own.
The runs `memory` and `nested` check all parts but `StampsDistinct`, which
`StampsFollowUse` implies, as no two pages have the same last use.

`UsersInv` adds to it: live processes are finitely many, no list is
longer than its bound, and, if there can be no more processes than a list has
room for, a list names all that map the frame.  The finiteness is what lets the
registry be put in order.

`MemoryIsLruCache` is `MemSpec => EvictsLeastRecent`.  By `MemInv` no two frames
hold the same page and no two stamps are equal, so the order of pages is the
order of stamps; `Kept` and `Refilled` say what a step that leaves a set of
frames alone does to that order, and each operation is one of these.

`StampsAreOrderOfUse` and `VictimIsLongestUnused` are about `UseHistory`. `UseInv`
says that the order of the pages in the cache is that of their last uses, and that
no page was used later than the count; it is needed because a stamp alone does not
tell when the page was used. `UsedAfter` is the one case an operation can be: some
pages stay as they are and others are used after all of them (`PageUse`,
`LoadScriptUse`). `OldestGoes` then gives the victim from the refinement.

**Shell.**  `ShellInv` adds to `MemInv` the types; that queue, loader and
processor hold every live process, each in one place (`Accounted`); which of the
three can be occupied in which phase (`Control`); and that the page of the line
being interpreted is resident (`LineKept`), which nested loads keep because they
only take free frames, and unwinding because it only clears what it has loaded.
`Accounted` needs the lemmas of `ReadyQueueProofs` on what an operation does to
the elements of a duplicate-free sequence.  From `ShellInv` every step of the
shell is a step of `MemNext` or leaves the memory alone (`MemoryStep`), hence
`ShellImplementsMemory`: `Spec => MemSpec`, and all results on the memory hold in
the shell (`ShellReadsItsOwnPages`, `ShellTracksUsers`, `ShellEvictsLeastRecent`).

**Scheduling and loading.**  All of this is in `SchedulingProofs` and starts from
`ShellInv`.

* `AdmittedRequestsFit`.  `Admission` adds that no two places of a request that
  have to be loaded have the same script, so that loading one takes one place off
  the rest. It takes no more frames than the pages it starts with, and the
  admission test counts at least those of every place (`CountedPages`), if often
  more: the run `admission` shows the excess.
* `RefusalsAreJust`.  `CountIsExact`: the formula of the admission test is the
  number of initial pages, except for a script of no line or of exactly one page,
  of which it counts one too many. The theorem assumes that there is no such script;
  the run `admission` shows what happens with one.
* `GuardsNeverBlock` (`CallsAreLegal`).  An action of the shell that uses an operation
  of the memory has the guard of that operation, which the code does not test; if it
  could be false, the model would stop where the code goes on. `LoaderInv` says that
  a script still to be loaded is not loaded, that every script of a request is loaded
  or still to come, that no process outside the request runs a script it has loaded,
  and that `pid_counter` is ahead of all live processes. `FirstPlace` (a script is
  loaded where it is named first) and `PageInScript` (the page of a line that exists
  is a page of the script) are the two lemmas behind it.
* `NoLineIsSkipped`.  Only the current process moves forward, and only past a
  line that was read from its frame, whose fault failed, or that is not a fault for
  want of a backing path (`OnlyCurrentAdvances`); at the end of a line its page is
  resident by `LineKept`.  That leaves two conditions to establish. `HomeInv`: nobody
  is away from home and no `my_cd` that leaves it is left on a line being read, if
  neither users nor scripts use one (`AllStayHome`). `CopiesInv`: every process has a
  backing path, if no request names a script that is loaded or that it names twice
  (`Fresh`, which is about what is requested, so it is a condition on the behaviour;
  the requests of the run `shell` all satisfy it).
  With them and no failures the theorem follows; the runs `wandering` and
  `shared_backing` show that both conditions are needed. `CopiesSufferNoSkip`
  has no `Fresh`: whatever is requested, processes that do have a backing path skip
  no line.
* `NoLineIsRunTwice`, about `RunHistory`, without assumptions: failures, shared
  scripts and other directories included.  `RanInv` says that the lines recorded of
  a process are ones it has passed (`Passed`: those before its PC, and the one at
  its PC while that is being interpreted).
* `EveryLineIsRun`.  Conversely (`AllRan`) all lines passed have been recorded, if no
  line is passed over, so under the assumptions of `NoLineIsSkipped`; a program that
  ends has passed them all.
* `ShortestRunsFirst`.  `ShortestInv` adds that nobody has run a line before the
  loop starts and that the process that runs is no longer than any other.  When it
  faults it is queued again, and being the only one that may have moved it is
  popped before any longer one.  The theorem assumes that no line of a script execs
  or sources (`ScriptsKeepTo(LoadingNone)`): a shorter program that arrives
  later comes after a longer one that has begun, as SJF is not preemptive.
* `AgingQueueSorted`.  The queue is sorted by score at every step of an AGING
  loop, by `InsertSortedSorted`, `AddToHeadSorted`, `PopHeadSorted` and
  `AgeAllSorted`.  It assumes that what a script loads is loaded under AGING
  (`ScriptsKeepTo(LoadingAged)`); `mixed_policies` shows what happens otherwise.
* `FailedLoadLeavesNoTrace`, about `LoadHistory`.  `Restored` is the state
  that unwinding the load in progress now would give; `History` says that it is
  `saved` at every step of the load.  For this a script that is registered must
  have had no table before (`FreshScripts`), and a PCB that is made no script, table,
  path or score (`FreshPcbs`), or unwinding would clear what was there before.
  `Unwound` shows that the roll-back arrives at `Restored`.

**Queue.**  `ListInv` says that the pointers spell out a sequence of the waiting
processes, and where the cursors of a loop stand in it: a search has passed only
processes of no greater score, a scan has the first of the shortest so far, a
walk is somewhere in the list or at its end.  All operations are one insertion
or one removal at a place (`Inserted`, `Removed`): `InsertedLinked` and
`RemovedLinked` say that the pointers follow, `LinkedOnce` that they spell out
one sequence only, so `Contents` is determined; the `Queue...` lemmas identify
insertion and removal with the operators of `ReadyQueue`.  `SeenAging` makes a
round of the aging walk a step that no caller sees.  Hence `ListIsQueue`.

**Variables.**  `OneEntryEach` with the types is inductive, and makes the first
entry of a name its only one, so an assignment changes the map at one name.  The
map is full just when no entry is unused: while one is, the names that have a
value inject into the others (`RoomLeft`); when none is, the entries and the names
that have a value correspond (`NoRoomLeft`), so an assignment may be dropped.

**Directories.**  `DirInv` has the tree, in which every parent is a directory, and
the working directory, which is a path of words.  `TreeStaysWellFormed` needs the
invariant of the variables too, for `my_mkdir $x` makes what a lookup finds.
`ListingStaysInOrder` says of the comparison, on names without digits, that
`ls_compare_char` is the comparison of a key, that `ComparedPrecedes` hence holds
of two names that differ, and that their order is transitive
(`PrecedesTransitive`); so a sequence whose neighbours are in order, all that
`Sorts` asks of `qsort`, is in order throughout.  It assumes that no word and no
value has a digit in it (`NoDigits`), which the run `digits` shows is needed.

**Parser.**  `ParserInv` says that the words that end before the place the parser
has come to are those it has taken (`Taken`), that it never stops inside a word
(`AtBoundary`), that no semicolon lies after a word of the command in progress and
one after every word already interpreted.  `AfterBlanksIs` and `WordEndIs` say
where the two inner loops of `parseInput` stop, `WordsApart` that words do not
overlap; `NoneGivenUp` derives `CommandsInOrder`.

**`run`.**  `RunInv` adds `BuffersInOrder` to the two invariants: while a child
lives the shell's output buffer is empty, the child has nothing to write, and
once it has closed its input it has nothing to give back; and nothing that comes
after `line` has been printed, nor `line` itself while its program has not ended.
So whatever is printed is appended to an output in order (`OutputGrows`), and a
flush only moves the border between what is written and what is not
(`FlushKeepsOutput`).

**Only model-checked:** liveness (`Termination`, `CallsReturn`, `Terminates`,
`Ends`), which is out of the prover's reach. Every other property that a passing
run checks is a theorem.

## Not modelled

* `mem_load_script_from_backing_store` is never called.
* The text that commands print, return codes, `help`, and the numbers of
  arguments each command checks.
* The fixed sizes of `parseInput` (a word of 199 characters, 100 words), which
  it does not check, and of `mem_set_value`'s copies.
* The clock is unbounded; the code's is an `unsigned long`.
* Base-name identity: a script *is* its base name, as in the code, so two files
  of the same name are one script, one in the `backing_store` of another directory
  included; the file does not change while it is loaded.
* Words given to `my_touch` and `my_cd` that are not alphanumeric, such as `..` or
  a path.  "We're told we can assume this" is the comment on the assertions at
  `interpreter.c` 612 and 621, but line 8 defines `NDEBUG` unless `DEBUG` is
  defined, so the program does not check it: given such a word it would create or
  enter it.  `Touch` and `Cd` take the assumption as their guard, and
  `TreeWellFormed` rests on it for what they make, while `my_mkdir` checks its name.
* `exec backing_store/x`, which would copy a file onto itself.
* Other C libraries: `RunCommand` takes from the comment at `interpreter.c` 690-697
  that closing the input drops the child's buffer and leaves the shared offset
  where it is, while `exit` with the input open moves the offset back.
* `run` in interactive mode, where input and output are not buffered in blocks;
  `run` inside a script that is being scheduled differs in nothing `RunCommand`
  shows.
* Makefile and test cases, which are not behaviour of the program.

## Plan

Done: the memory, the cache it implements and their proofs; the running shell
with chains of commands; the linked list and the queue it implements; variables,
directories, parser and `run`; the inductive invariants and refinements above;
every invariant and action property the passing runs check as a theorem.  What
could come next: `Fresh` from the requests that users and scripts make, with the
scripts that are loaded when they make them; `Mysh` on the lines of characters
that `LineParser` splits.
