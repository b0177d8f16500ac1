-------------------------- MODULE SchedulingProofs --------------------------
(***************************************************************************)
(* What load_and_schedule_programs and the scheduling loops promise the    *)
(* programs they run, on top of the invariant ShellInv of the shell.       *)
(***************************************************************************)
EXTENDS MyshProofs, LoadHistory, RunHistory

-----------------------------------------------------------------------------
(***************************************************************************)
(* Admission: the frames that are counted once, before anything is loaded, *)
(* are enough for all the scripts of the request.                          *)
(***************************************************************************)

\* The scripts to load are different ones.
Admission ==
  /\ \A i, j \in loader.needs_load : loader.scripts[i] = loader.scripts[j] => i = j
  /\ AdmittedFits

LEMMA InitialPagesSize ==
  ASSUME NEW s \in Scripts
  PROVE  /\ InitialPages(s) \subseteq 0 .. Initial(s) - 1
         /\ Initial(s) \in {1, 2}
         /\ IsFiniteSet(InitialPages(s))
<1>1. Initial(s) \in {1, 2}
  BY DEF Initial
<1>2. InitialPages(s) \subseteq 0 .. Initial(s) - 1
  <2>1. NumPages(s) \in Nat
    BY NumPagesType
  <2> QED BY <2>1 DEF InitialPages, Initial, Pages
<1>3. IsFiniteSet(0 .. Initial(s) - 1)
  BY <1>1, FS_Interval
<1> QED BY <1>1, <1>2, <1>3, FS_Subset

\* What the admission test counts is at least what is loaded.
Counted(scripts, I) == UNION {{i} \X (0 .. Initial(scripts[i]) - 1) : i \in I}

LEMMA CountedPages ==
  ASSUME NEW scripts \in Requests \cup {<<>>}, NEW I \in SUBSET DOMAIN scripts
  PROVE  /\ IsFiniteSet(Counted(scripts, I)) /\ IsFiniteSet(FirstPages(scripts, I))
         /\ Cardinality(Counted(scripts, I)) \in Nat
         /\ Cardinality(FirstPages(scripts, I)) <= Cardinality(Counted(scripts, I))
<1>1. I \subseteq 1 .. 3 /\ \A i \in I : scripts[i] \in Scripts
  BY DEF Requests
<1>2. \A i \in I : /\ InitialPages(scripts[i]) \subseteq 0 .. Initial(scripts[i]) - 1
                   /\ Initial(scripts[i]) \in {1, 2}
  BY <1>1, InitialPagesSize
<1>3. Counted(scripts, I) \subseteq (1 .. 3) \X (0 .. 1)
  BY <1>1, <1>2 DEF Counted
<1>4. IsFiniteSet((1 .. 3) \X (0 .. 1))
  <2>1. 0 \in Int /\ 1 \in Int /\ 3 \in Int
    OBVIOUS
  <2>2. IsFiniteSet(1 .. 3) /\ IsFiniteSet(0 .. 1)
    BY <2>1, FS_Interval
  <2> QED BY <2>2, FS_Product
<1>5. IsFiniteSet(Counted(scripts, I))
  BY <1>3, <1>4, FS_Subset
<1>6. FirstPages(scripts, I) \subseteq Counted(scripts, I)
  BY <1>2 DEF FirstPages, Counted
<1> QED BY <1>5, <1>6, FS_Subset, FS_CardinalityType

LEMMA FreeFramesFinite ==
  ASSUME MemInv
  PROVE  IsFiniteSet(FreeFrames) /\ Cardinality(FreeFrames) \in Nat
<1>1. IsFiniteSet(Frames)
  BY SizesAssumption, FS_Interval DEF Frames
<1>2. FreeFrames \subseteq Frames
  BY DEF FreeFrames
<1> QED BY <1>1, <1>2, FS_Subset, FS_CardinalityType

\* The frames a script takes are as many as its initial pages.
LEMMA LoadTakes ==
  ASSUME MemInv, NEW s \in Scripts, LoadScript(s)
  PROVE  Cardinality(FreeFrames') = Cardinality(FreeFrames) - Cardinality(InitialPages(s))
<1> DEFINE I == InitialPages(s)
<1>1. PICK at \in [I -> FreeFrames] :
        /\ \A o, p \in I : at[o] = at[p] => o = p
        /\ \A p \in I : frame_table'[at[p]].occupied
        /\ \A f \in Frames : (\A p \in I : at[p] # f) => frame_table'[f] = frame_table[f]
  BY LoadScriptFrames
<1> HIDE DEF I
<1> DEFINE taken == {at[p] : p \in I}
<1>2. at \in Bijection(I, taken)
  BY <1>1 DEF Bijection, Injection, Surjection, IsInjective
<1>3. IsFiniteSet(I)
  BY InitialPagesSize DEF I
<1>4. Cardinality(taken) = Cardinality(I)
  BY <1>2, <1>3, FS_Bijection DEF ExistsBijection
<1>5. taken \subseteq FreeFrames
  BY <1>1
<1>6. FreeFrames' = FreeFrames \ taken
  <2>1. FreeFrames' = {f \in Frames : ~frame_table'[f].occupied}
    BY DEF FreeFrames, Frames
  <2>2. FreeFrames = {f \in Frames : ~frame_table[f].occupied}
    BY DEF FreeFrames
  <2>3. \A f \in taken : frame_table'[f].occupied
    BY <1>1
  <2>4. \A f \in Frames \ taken : frame_table'[f] = frame_table[f]
    BY <1>1
  <2> QED BY <1>5, <2>1, <2>2, <2>3, <2>4
<1>7. Cardinality(FreeFrames \ taken) = Cardinality(FreeFrames) - Cardinality(FreeFrames \cap taken)
  BY FreeFramesFinite, FS_Difference
<1>8. FreeFrames \cap taken = taken
  BY <1>5
<1> QED BY <1>4, <1>6, <1>7, <1>8 DEF I

\* A script that has been loaded leaves the pages of the others to load.
LEMMA OneLess ==
  ASSUME NEW scripts \in Requests \cup {<<>>}, NEW I \in SUBSET DOMAIN scripts, NEW i \in I
  PROVE  Cardinality(FirstPages(scripts, I \ {i})) =
           Cardinality(FirstPages(scripts, I)) - Cardinality(InitialPages(scripts[i]))
<1> DEFINE own == {i} \X InitialPages(scripts[i])
<1>1. scripts[i] \in Scripts
  BY DEF Requests
<1>2. IsFiniteSet(InitialPages(scripts[i])) /\ Cardinality(InitialPages(scripts[i])) \in Nat
  BY <1>1, InitialPagesSize, FS_CardinalityType
<1>3. IsFiniteSet({i}) /\ Cardinality({i}) = 1
  BY FS_Singleton
<1>4. Cardinality(own) = Cardinality(InitialPages(scripts[i]))
  BY <1>2, <1>3, FS_Product
<1>5. FirstPages(scripts, I \ {i}) = FirstPages(scripts, I) \ own
  BY DEF FirstPages
<1>6. FirstPages(scripts, I) \cap own = own
  BY DEF FirstPages
<1>7. IsFiniteSet(FirstPages(scripts, I))
  BY CountedPages
<1> HIDE DEF own
<1>8. Cardinality(FirstPages(scripts, I) \ own) =
        Cardinality(FirstPages(scripts, I)) - Cardinality(FirstPages(scripts, I) \cap own)
  BY <1>7, FS_Difference
<1> QED BY <1>4, <1>5, <1>6, <1>8

LEMMA AdmissionStep == ShellInv /\ Admission /\ [Next]_vars => Admission'
<1> SUFFICES ASSUME ShellInv, Admission, [Next]_vars PROVE Admission'
  OBVIOUS
<1>0. /\ MemInv /\ loader \in LoaderType /\ loader.needs_load \subseteq DOMAIN loader.scripts
      /\ loader.scripts \in Requests \cup {<<>>} /\ loader.needs_load \subseteq 1 .. 3
  BY LoaderFields DEF ShellInv, LoaderType
<1>1. ASSUME loader'.needs_load = {}, phase' # "loading" PROVE Admission'
  BY <1>1 DEF Admission, AdmittedFits
<1>2. ASSUME phase' # "loading", UNCHANGED <<loader.scripts, loader.needs_load>> PROVE Admission'
  BY <1>2 DEF Admission, AdmittedFits
<1>3. CASE UNCHANGED vars \/ Exited
  BY <1>3 DEF Exited, vars, memVars, Admission, AdmittedFits, FreeFrames, ToLoad
<1>4. CASE UserNext \/ LineEnds \/ Dispatch \/ Idle \/ RunLine \/ PageFault \/ FaultFails
           \/ PassOver \/ Finish \/ Requeue
  BY <1>2, <1>4 DEF UserNext, EndOfInput, Prompt, LineEnds, Dispatch, Idle, RunLine, PageFault,
       FaultFails, PassOver, Finish, Requeue
<1>5. CASE Parse
  <2>1. PICK cmd \in Commands : Interpret(cmd)
    <3>1. /\ current = NoPid => typed # <<>> /\ Interpret(Head(typed))
          /\ current # NoPid => line # <<>> /\ Interpret(Head(line))
      BY <1>5 DEF Parse
    <3>2. typed \in Seq(Commands) /\ line \in Seq(Commands)
      BY DEF ShellInv, MyshTypeOK
    <3> QED BY <3>1, <3>2, HeadTailProperties
  <2>2. CASE UNCHANGED loader /\ phase' \in {"parse", "exited"}
    BY <1>2, <2>2
  <2>3. CASE loader' = Loader(cmd.scripts, cmd.policy) /\ phase' = "planning"
    BY <1>1, <2>3 DEF Loader
  <2> QED BY <1>5, <2>1, <2>2, <2>3 DEF Parse, Interpret
<1>6. CASE PlanFails \/ Unwind \/ Schedule
  BY <1>1, <1>6, <1>2, NoLoaderType DEF PlanFails, Unwind, Schedule, Return
<1>7. CASE Plan
  <2>1. CASE Return
    BY <1>1, <2>1, NoLoaderType DEF Return
  <2>2. CASE /\ ~(Cardinality(FreeFrames) < TotalInitialPages(loader.scripts))
             /\ phase' = "loading"
             /\ loader' = [loader EXCEPT !.needs_load = NeedsLoad(loader.scripts)]
    <3>1. PICK scripts, I : scripts = loader.scripts /\ I = NeedsLoad(loader.scripts)
      OBVIOUS
    <3>2. loader'.scripts = scripts /\ loader'.needs_load = I /\ I \subseteq DOMAIN scripts
      BY <1>0, <2>2, <3>1 DEF LoaderType, NeedsLoad
    <3>3. \A i, j \in I : scripts[i] = scripts[j] => i = j
      <4>1. DOMAIN scripts \subseteq 1 .. 3
        BY <1>0, <3>1 DEF Requests
      <4> QED BY <3>1, <3>2, <4>1 DEF NeedsLoad
    <3>4. Cardinality(FirstPages(scripts, ToLoad')) <= Cardinality(FreeFrames')
      <4>1. UNCHANGED FreeFrames
        BY <1>7 DEF Plan, memVars, FreeFrames
      <4>2. PICK J \in SUBSET I : J = ToLoad'
        BY <3>2 DEF ToLoad
      <4>3. FirstPages(scripts, J) \subseteq FirstPages(scripts, I)
        BY DEF FirstPages
      <4>4. /\ IsFiniteSet(FirstPages(scripts, I))
            /\ Cardinality(FirstPages(scripts, I)) <= TotalInitialPages(scripts)
            /\ TotalInitialPages(scripts) \in Nat
        <5>1. TotalInitialPages(scripts) = Cardinality(Counted(scripts, I))
          BY <3>1 DEF TotalInitialPages, Counted
        <5> QED BY <1>0, <3>1, <3>2, <5>1, CountedPages
      <4>5. /\ Cardinality(FirstPages(scripts, J)) <= Cardinality(FirstPages(scripts, I))
            /\ Cardinality(FirstPages(scripts, J)) \in Nat /\ Cardinality(FirstPages(scripts, I)) \in Nat
        BY <4>3, <4>4, FS_Subset, FS_CardinalityType
      <4>6. Cardinality(FreeFrames) \in Nat
        BY <1>0, FreeFramesFinite
      <4>7. TotalInitialPages(scripts) <= Cardinality(FreeFrames)
        BY <2>2, <3>1, <4>4, <4>6
      <4> QED BY <4>1, <4>2, <4>4, <4>5, <4>6, <4>7
    <3> QED BY <3>2, <3>3, <3>4 DEF Admission, AdmittedFits
  <2> QED BY <1>7, <2>1, <2>2 DEF Plan
<1>8. CASE LoadNext
  <2>1. PICK i, scripts, I, s :
          /\ i \in ToLoad /\ LoadScript(loader.scripts[i])
          /\ loader' = [loader EXCEPT !.loaded = @ \cup {loader.scripts[i]}]
          /\ scripts = loader.scripts /\ I = ToLoad /\ s = loader.scripts[i]
    BY <1>8 DEF LoadNext
  <2>2. /\ loader'.scripts = scripts /\ loader'.needs_load = loader.needs_load
        /\ loader'.loaded = loader.loaded \cup {s}
    BY <1>0, <2>1 DEF LoaderType
  <2>3. i \in I /\ I \subseteq loader.needs_load /\ I \subseteq DOMAIN scripts
    BY <1>0, <2>1 DEF ToLoad
  <2>4. s \in Scripts
    BY <2>1, <2>3, RequestedAreScripts
  <2>5. ToLoad' = I \ {i}
    BY <2>1, <2>2, <2>3 DEF ToLoad, Admission
  <2>6. Cardinality(FirstPages(scripts, I \ {i})) =
          Cardinality(FirstPages(scripts, I)) - Cardinality(InitialPages(s))
    BY <1>0, <2>1, <2>3, OneLess
  <2>7. Cardinality(FreeFrames') = Cardinality(FreeFrames) - Cardinality(InitialPages(s))
    BY <1>0, <2>1, <2>4, LoadTakes
  <2>8. Cardinality(FirstPages(scripts, I)) <= Cardinality(FreeFrames)
    BY <1>8, <2>1 DEF LoadNext, Admission, AdmittedFits
  <2>9. /\ Cardinality(FirstPages(scripts, I)) \in Nat /\ Cardinality(FreeFrames) \in Nat
        /\ Cardinality(InitialPages(s)) \in Nat
    BY <1>0, <2>1, <2>3, <2>4, CountedPages, FreeFramesFinite, InitialPagesSize, FS_CardinalityType
  <2>10. Cardinality(FirstPages(scripts, I \ {i})) <= Cardinality(FreeFrames')
    BY <2>6, <2>7, <2>8, <2>9
  <2>11. AdmittedFits'
    BY <2>2, <2>5, <2>10 DEF AdmittedFits, FirstPages
  <2>12. \A m, n \in loader'.needs_load : loader'.scripts[m] = loader'.scripts[n] => m = n
    BY <2>1, <2>2 DEF Admission
  <2> QED BY <2>11, <2>12 DEF Admission
<1>9. CASE LoadFails \/ MakePcbFails \/ Enqueue
  BY <1>0, <1>2, <1>9 DEF LoadFails, MakePcbFails, Enqueue, LoaderType
<1>10. CASE MakePcb
  <2>1. PICK q : loader' = [loader EXCEPT !.pcbs = Append(@, q)] /\ ToLoad = {}
    BY <1>10 DEF MakePcb
  <2>2. UNCHANGED <<loader.scripts, loader.needs_load, loader.loaded>>
    BY <1>0, <2>1 DEF LoaderType
  <2>3. ToLoad' = {}
    BY <2>1, <2>2 DEF ToLoad
  <2>4. Cardinality(FirstPages(loader'.scripts, {})) = 0
    BY FS_EmptySet DEF FirstPages
  <2>5. Cardinality(FreeFrames') \in Nat
    <3>1. IsFiniteSet(Frames) /\ FreeFrames' \subseteq Frames
      BY SizesAssumption, FS_Interval DEF Frames, FreeFrames
    <3> QED BY <3>1, FS_Subset, FS_CardinalityType
  <2> QED BY <2>2, <2>3, <2>4, <2>5 DEF Admission, AdmittedFits
<1> QED
  BY <1>3, <1>4, <1>5, <1>6, <1>7, <1>8, <1>9, <1>10 DEF Next, SystemNext

\* A request that has passed the admission test finds the frames for all its
\* scripts, in any order of scripts of any length and whoever has asked.
THEOREM AdmittedRequestsFit == Spec => []AdmittedFits
<1>1. Init => Admission
  BY NoLoaderType DEF Init, Admission, AdmittedFits
<1>2. Admission => AdmittedFits
  BY DEF Admission
<1> QED BY <1>1, <1>2, AdmissionStep, ShellInvariant, PTL DEF Spec

LEMMA CountIsExact ==
  ASSUME NEW s \in Scripts, LineCount[s] # 0, LineCount[s] # PAGE_SIZE
  PROVE  0 .. Initial(s) - 1 = InitialPages(s)
<1>1. PICK n \in Nat, k \in Nat : n = LineCount[s] /\ k = PAGE_SIZE /\ k > 0
  BY ScriptsAssumption, SizesAssumption
<1>2. NumPages(s) = (n + k - 1) \div k /\ NumPages(s) \in Nat
  BY <1>1, NumPagesType DEF NumPages
<1>3. CASE n < k
  <2>1. NumPages(s) >= 1
    <3>1. n + k - 1 \in Nat /\ n + k - 1 >= k
      BY <1>1
    <3>2. (n + k - 1) \div k >= 1
      BY <1>1, <3>1
    <3> QED BY <1>2, <3>2
  <2>2. Initial(s) = 1
    BY <1>1, <1>3 DEF Initial
  <2> QED BY <1>1, <1>2, <1>3, <2>1, <2>2 DEF InitialPages, Pages
<1>4. CASE n > k
  <2>1. NumPages(s) >= 2
    <3>1. n + k - 1 \in Nat /\ n + k - 1 >= 2 * k
      BY <1>1, <1>4
    <3>2. (n + k - 1) \div k >= 2
      BY <1>1, <3>1
    <3> QED BY <1>2, <3>2
  <2>2. Initial(s) = 2
    BY <1>1, <1>4 DEF Initial
  <2> QED BY <1>1, <1>2, <1>4, <2>1, <2>2 DEF InitialPages, Pages
<1> QED BY <1>1, <1>3, <1>4

\* Empty scripts and scripts of exactly one page are the only ones for which the
\* admission test asks for more than it needs, as it does in the run admission:
\* without them a request is refused only when its initial pages do not fit.
THEOREM RefusalsAreJust ==
  (\A s \in Scripts : LineCount[s] \notin {0, PAGE_SIZE}) => (Spec => []RefusesOnlyWhatDoesNotFit)
<1> SUFFICES ASSUME \A s \in Scripts : LineCount[s] \notin {0, PAGE_SIZE}
             PROVE  Spec => []RefusesOnlyWhatDoesNotFit
  OBVIOUS
<1>1. ShellInv => RefusesOnlyWhatDoesNotFit
  <2> SUFFICES ASSUME ShellInv
               PROVE  TotalInitialPages(loader.scripts) =
                        Cardinality(FirstPages(loader.scripts, NeedsLoad(loader.scripts)))
    BY DEF RefusesOnlyWhatDoesNotFit
  <2>1. \A i \in NeedsLoad(loader.scripts) : loader.scripts[i] \in Scripts
    BY RequestedAreScripts DEF NeedsLoad
  <2>2. \A i \in NeedsLoad(loader.scripts) :
          0 .. Initial(loader.scripts[i]) - 1 = InitialPages(loader.scripts[i])
    BY <2>1, CountIsExact
  <2> QED BY <2>2 DEF TotalInitialPages, FirstPages
<1> QED BY <1>1, ShellInvariant, PTL
-----------------------------------------------------------------------------
(***************************************************************************)
(* Page faults: a line is passed over for one of three reasons only.       *)
(***************************************************************************)

\* The page of the line can be fetched from the copy in backing_store.
CanFault(q) == home /\ ~IOFails /\ has_backing_path[q]

PassesLine(q) == PC'[q] > PC[q] => pcb_table[q][PC[q] \div PAGE_SIZE] # NoFrame

\* Only the process that runs advances, by one line.
LEMMA OnlyCurrentAdvances ==
  ASSUME ShellInv, [Next]_vars, NEW q \in live_pcbs, PC'[q] > PC[q]
  PROVE  q = current /\ (LineEnds \/ FaultFails \/ PassOver)
<1>0. PC \in [Pids -> Nat] /\ q \in Pids
  BY DEF ShellInv, MyshTypeOK, MemInv, MemTypeOK
<1>1. PC[q] \in Nat /\ PC' # PC
  BY <1>0
<1>2. CASE UNCHANGED vars \/ Exited \/ UserNext \/ Parse \/ PlanFails \/ Plan \/ LoadNext \/ LoadFails
           \/ MakePcbFails \/ Unwind \/ Enqueue \/ Schedule \/ Dispatch \/ Idle \/ RunLine
           \/ PageFault \/ Requeue
  BY <1>1, <1>2 DEF vars, pcbVars, Exited, UserNext, EndOfInput, Prompt, Parse, PlanFails, Plan,
       LoadNext, LoadFails, MakePcbFails, Unwind, Enqueue, Schedule, Dispatch, Idle, RunLine,
       PageFault, Requeue
<1>3. CASE MakePcb
  <2>1. PICK p : p \notin live_pcbs /\ PC' = [PC EXCEPT ![p] = 0]
    BY <1>3 DEF MakePcb, RegisterPcb
  <2> QED BY <1>0, <2>1
<1>4. CASE Finish
  <2>1. PC' = [PC EXCEPT ![current] = 0]
    BY <1>4 DEF Finish
  <2>2. PC'[q] = PC[q] \/ PC'[q] = 0
    BY <1>0, <2>1
  <2> QED BY <1>1, <2>2
<1>5. CASE LineEnds \/ FaultFails \/ PassOver
  <2>1. PC' = [PC EXCEPT ![current] = @ + 1] \/ UNCHANGED PC
    BY <1>5 DEF LineEnds, FaultFails, PassOver, LineDone
  <2> QED BY <1>0, <1>5, <2>1
<1> QED BY <1>2, <1>3, <1>4, <1>5 DEF Next, SystemNext

\* What is resident when a line ends is the page it was read from.
LEMMA LinePassed ==
  ASSUME ShellInv, [Next]_vars, NEW q \in live_pcbs, CanFault(q)
  PROVE  PassesLine(q)
<1> SUFFICES ASSUME PC'[q] > PC[q] PROVE pcb_table[q][PC[q] \div PAGE_SIZE] # NoFrame
  BY DEF PassesLine
<1>1. q = current /\ current # NoPid /\ (LineEnds \/ FaultFails \/ PassOver)
  BY OnlyCurrentAdvances, ProgramAssumption DEF ShellInv, MemInv, MemTypeOK
<1>2. ~FaultFails /\ ~PassOver
  BY <1>1 DEF CanFault, FaultFails, PassOver
<1>3. phase = "parse"
  BY <1>1, <1>2 DEF LineEnds
<1>4. Resident
  BY <1>1, <1>3 DEF ShellInv, LineKept, Interpreting
<1> QED BY <1>1, <1>4 DEF Resident, CurrentPage

-----------------------------------------------------------------------------
(***************************************************************************)
(* What one step can change, whichever scheduling loop runs.               *)
(***************************************************************************)

\* The scripts only use the commands S.
ScriptsKeepTo(S) == \A s \in Scripts : Program[s] \in Seq(Seq(S))

\* The line of current comes from its script.
LEMMA LineKeepsTo ==
  ASSUME ShellInv, [Next]_vars, NEW S, ScriptsKeepTo(S), line \in Seq(S)
  PROVE  line' \in Seq(S)
<1>1. CASE UNCHANGED vars \/ Exited \/ UserNext \/ LineEnds \/ PlanFails \/ Plan \/ LoadNext
           \/ LoadFails \/ MakePcb \/ MakePcbFails \/ Unwind \/ Enqueue \/ Schedule \/ Dispatch
           \/ Idle \/ PageFault \/ FaultFails \/ PassOver \/ Finish \/ Requeue
  <2>1. UNCHANGED line
    BY <1>1 DEF vars, lineVars, Exited, UserNext, EndOfInput, Prompt, LineEnds, PlanFails, Plan,
         LoadNext, LoadFails, MakePcb, MakePcbFails, Unwind, Enqueue, Schedule, Dispatch, Idle,
         PageFault, FaultFails, PassOver, Finish, Requeue
  <2> QED BY <2>1
<1>2. CASE Parse
  <2>1. UNCHANGED line \/ (line # <<>> /\ line' = Tail(line))
    BY <1>2 DEF Parse
  <2> QED BY <2>1, HeadTailProperties
<1>3. CASE RunLine
  <2>1. /\ PC \in [Pids -> Nat] /\ current \in live_pcbs /\ current \in Pids
        /\ pcb_script[current] \in Scripts
    BY <1>3 DEF RunLine, Fetch, ShellInv, MyshTypeOK, MemInv, MemTypeOK, TablesAgree
  <2>2. JobTime[current] = LineCount[pcb_script[current]]
    BY <2>1, ScriptsAssumption DEF JobTime
  <2>3. PC[current] \in Nat /\ PC[current] < Len(Program[pcb_script[current]])
    BY <1>3, <2>1, <2>2, ProgramAssumption, ScriptsAssumption DEF RunLine, SliceOver
  <2>4. PICK program : program = Program[pcb_script[current]] /\ program \in Seq(Seq(S))
    BY <2>1 DEF ScriptsKeepTo
  <2>5. PC[current] + 1 \in 1 .. Len(program)
    BY <2>3, <2>4, LenProperties
  <2>6. program[PC[current] + 1] \in Seq(S)
    BY <2>4, <2>5, ElementOfSeq
  <2> QED BY <1>3, <2>4, <2>6 DEF RunLine, CurrentLine
<1> QED BY <1>1, <1>2, <1>3 DEF Next, SystemNext

\* Processes come from the loader, at their first line.
LEMMA NewProcess ==
  ASSUME ShellInv, [Next]_vars, NEW q \in live_pcbs' \ live_pcbs
  PROVE  MakePcb /\ PC'[q] = 0
<1>1. CASE UNCHANGED vars \/ Exited \/ UserNext \/ Parse \/ LineEnds \/ PlanFails \/ Plan
           \/ MakePcbFails \/ Enqueue \/ Schedule \/ Dispatch \/ Idle \/ PassOver \/ Requeue
  BY <1>1 DEF vars, memVars, Exited, UserNext, EndOfInput, Prompt, Parse, LineEnds, PlanFails, Plan,
       MakePcbFails, Enqueue, Schedule, Dispatch, Idle, PassOver, Requeue
<1>2. CASE LoadNext \/ LoadFails \/ RunLine \/ PageFault \/ FaultFails
  BY <1>2 DEF LoadNext, LoadScript, LoadFails, LoadScriptFails, RunLine, Fetch,
       PageFault, DemandLoad, FaultFails, DemandLoadFails
<1>3. CASE Unwind \/ Finish
  BY <1>3 DEF Unwind, Rollback, Finish, UnregisterPcb, DropPcbs
<1>4. CASE MakePcb
  <2>1. live_pcbs' = live_pcbs \cup {pid_counter + 1} /\ PC' = [PC EXCEPT ![pid_counter + 1] = 0]
    BY <1>4 DEF MakePcb, RegisterPcb
  <2>2. PC \in [Pids -> Nat] /\ q = pid_counter + 1 /\ q \in Pids
    BY <2>1, MemLater DEF ShellInv, MyshTypeOK, MemInv, MemTypeOK
  <2> QED BY <1>4, <2>1, <2>2
<1> QED BY <1>1, <1>2, <1>3, <1>4 DEF Next, SystemNext

\* A process keeps its script for as long as it lives.
LEMMA JobTimesKept ==
  ASSUME ShellInv, [Next]_vars, NEW q \in live_pcbs \cap live_pcbs'
  PROVE  JobTime'[q] = JobTime[q]
<1>0. q \in Pids /\ pcb_script \in [Pids -> Scripts \cup {NoScript}]
  BY DEF ShellInv, MemInv, MemTypeOK
<1> SUFFICES pcb_script'[q] = pcb_script[q]
  BY <1>0 DEF JobTime
<1>1. CASE UNCHANGED vars \/ Exited \/ UserNext \/ Parse \/ LineEnds \/ PlanFails \/ Plan
           \/ MakePcbFails \/ Enqueue \/ Schedule \/ Dispatch \/ Idle \/ PassOver \/ Requeue
  BY <1>1 DEF vars, memVars, Exited, UserNext, EndOfInput, Prompt, Parse, LineEnds, PlanFails, Plan,
       MakePcbFails, Enqueue, Schedule, Dispatch, Idle, PassOver, Requeue
<1>2. CASE LoadNext \/ LoadFails \/ RunLine \/ PageFault \/ FaultFails
  BY <1>2 DEF LoadNext, LoadScript, LoadFails, LoadScriptFails, RunLine, Fetch,
       PageFault, DemandLoad, FaultFails, DemandLoadFails
<1>3. CASE Unwind \/ Finish
  BY <1>0, <1>3 DEF Unwind, Rollback, Finish, UnregisterPcb, DropPcbs
<1>4. CASE MakePcb
  <2>1. PICK p, s : p \notin live_pcbs /\ pcb_script' = [pcb_script EXCEPT ![p] = s]
    BY <1>4 DEF MakePcb, RegisterPcb
  <2> QED BY <1>0, <2>1
<1> QED BY <1>1, <1>2, <1>3, <1>4 DEF Next, SystemNext

\* A loop is entered and left, and a process is popped, in one place each.
LEMMA LoopChanges ==
  ASSUME [Next]_vars
  PROVE  /\ active' # active => (Schedule /\ active = "none" /\ active' = loader.policy) \/ Idle
         /\ current' # current => Dispatch \/ current' = NoPid
<1>1. CASE Schedule
  BY <1>1 DEF Schedule
<1>2. CASE Idle
  BY <1>2 DEF Idle
<1>3. CASE Dispatch
  BY <1>3 DEF Dispatch
<1>4. CASE Finish \/ Requeue
  BY <1>4 DEF Finish, Requeue
<1>5. CASE UNCHANGED vars \/ Exited \/ UserNext \/ Parse \/ LineEnds \/ PlanFails \/ Plan \/ LoadNext
           \/ LoadFails \/ MakePcb \/ MakePcbFails \/ Unwind \/ Enqueue \/ RunLine
           \/ PageFault \/ FaultFails \/ PassOver
  BY <1>5 DEF vars, schedVars, Exited, UserNext, EndOfInput, Prompt, Parse, LineEnds, PlanFails,
       Plan, LoadNext, LoadFails, MakePcb, MakePcbFails, Unwind, Enqueue, RunLine, PageFault,
       FaultFails, PassOver
<1> QED BY <1>1, <1>2, <1>3, <1>4, <1>5 DEF Next, SystemNext

\* The loader is called from a line, and only by a command that loads.
LEMMA LoaderCalled ==
  ASSUME ShellInv, [Next]_vars, phase' \in {"planning", "loading", "queueing", "rollback"}
  PROVE  \/ /\ phase \in {"planning", "loading", "queueing", "rollback"}
            /\ UNCHANGED <<active, loader.policy>>
         \/ /\ phase = "parse" /\ UNCHANGED active
            /\ \E cmd \in Commands :
                 /\ cmd.op \in {"exec", "source"}
                 /\ loader'.policy = cmd.policy
                 /\ current # NoPid => line # <<>> /\ cmd = Head(line)
<1>0. loader \in LoaderType
  BY LoaderFields
<1>1. CASE UNCHANGED vars \/ Exited
  BY <1>1 DEF vars, schedVars, Exited
<1>2. CASE Parse
  <2>1. PICK cmd \in Commands : Interpret(cmd) /\ (current # NoPid => line # <<>> /\ cmd = Head(line))
    <3>1. /\ current = NoPid => typed # <<>> /\ Interpret(Head(typed))
          /\ current # NoPid => line # <<>> /\ Interpret(Head(line))
      BY <1>2 DEF Parse
    <3>2. typed \in Seq(Commands) /\ line \in Seq(Commands)
      BY DEF ShellInv, MyshTypeOK
    <3> QED BY <3>1, <3>2, HeadTailProperties
  <2>2. cmd.op \in {"exec", "source"} /\ loader' = Loader(cmd.scripts, cmd.policy)
    BY <1>2, <2>1 DEF Parse, Interpret
  <2>3. loader'.policy = cmd.policy
    BY <2>2 DEF Loader
  <2> QED BY <1>2, <2>1, <2>2, <2>3 DEF Parse, schedVars
<1>3. CASE Plan
  BY <1>0, <1>3 DEF Plan, Return, LoaderType, schedVars
<1>4. CASE LoadNext \/ LoadFails \/ MakePcb \/ MakePcbFails \/ Enqueue
  BY <1>0, <1>4 DEF LoadNext, LoadFails, MakePcb, MakePcbFails, Enqueue, LoaderType, schedVars
<1>5. CASE UserNext \/ LineEnds \/ PlanFails \/ Unwind \/ Schedule \/ Dispatch \/ Idle \/ RunLine
           \/ PageFault \/ FaultFails \/ PassOver \/ Finish \/ Requeue
  BY <1>5 DEF UserNext, EndOfInput, Prompt, LineEnds, PlanFails, Unwind, Schedule, Return, Dispatch,
       Idle, RunLine, PageFault, FaultFails, PassOver, Finish, Requeue
<1> QED BY <1>1, <1>2, <1>3, <1>4, <1>5 DEF Next, SystemNext
-----------------------------------------------------------------------------
(***************************************************************************)
(* No line is passed over unless a command says so: the directory is left  *)
(* only by cd, and a process lacks a copy of its script only when its      *)
(* request named a script that was loaded before, or named it twice.       *)
(***************************************************************************)

\* Commands that do not leave the directory in which backing_store resolves.
AtHome == {command \in Commands : command.op = "cd" => command.home}

\* Neither the user nor a script uses any other.
AllStayHome == Typed \subseteq Seq(AtHome) /\ ScriptsKeepTo(AtHome)

HomeInv == home /\ typed \in Seq(AtHome) /\ line \in Seq(AtHome)

LEMMA HomeStep ==
  ASSUME AllStayHome, ShellInv, HomeInv, [Next]_vars
  PROVE  HomeInv'
<1>1. line' \in Seq(AtHome)
  BY LineKeepsTo DEF AllStayHome, HomeInv
<1>2. CASE Parse
  <2>1. /\ UNCHANGED typed \/ (typed # <<>> /\ typed' = Tail(typed))
        /\ \/ typed # <<>> /\ Interpret(Head(typed))
           \/ line # <<>> /\ Interpret(Head(line))
    BY <1>2 DEF Parse
  <2>2. typed' \in Seq(AtHome)
    BY <2>1, HeadTailProperties DEF HomeInv
  <2>3. PICK cmd \in AtHome : Interpret(cmd)
    BY <2>1, HeadTailProperties DEF HomeInv
  <2>4. home'
    BY <2>3 DEF Interpret, AtHome, HomeInv
  <2> QED BY <1>1, <2>2, <2>4 DEF HomeInv
<1>3. CASE \E chain \in Typed : Prompt(chain)
  <2>1. typed' \in Seq(AtHome) /\ UNCHANGED home
    BY <1>3 DEF Prompt, AllStayHome
  <2> QED BY <1>1, <2>1 DEF HomeInv
<1>4. CASE UNCHANGED vars \/ Exited \/ EndOfInput \/ LineEnds \/ PlanFails \/ Plan \/ LoadNext
           \/ LoadFails \/ MakePcb \/ MakePcbFails \/ Unwind \/ Enqueue \/ Schedule \/ Dispatch
           \/ Idle \/ RunLine \/ PageFault \/ FaultFails \/ PassOver \/ Finish \/ Requeue
  <2>1. UNCHANGED <<typed, home>>
    BY <1>4 DEF vars, lineVars, Exited, EndOfInput, LineEnds, PlanFails, Plan, LoadNext, LoadFails,
         MakePcb, MakePcbFails, Unwind, Enqueue, Schedule, Dispatch, Idle, RunLine, PageFault,
         FaultFails, PassOver, Finish, Requeue
  <2> QED BY <1>1, <2>1 DEF HomeInv
<1> QED BY <1>2, <1>3, <1>4 DEF Next, UserNext, SystemNext

LEMMA HomeInvariant == AllStayHome => (Spec => [](ShellInv /\ HomeInv))
<1> SUFFICES ASSUME AllStayHome
             PROVE  Spec => [](ShellInv /\ HomeInv)
  OBVIOUS
<1>1. Init => HomeInv
  BY EmptySeq DEF Init, HomeInv
<1>2. ShellInv /\ HomeInv /\ [Next]_vars => HomeInv'
  BY HomeStep
<1> QED BY <1>1, <1>2, ShellInvariant, PTL DEF Spec

\* A process that has a copy of its script to read from runs each of its lines,
\* however often its pages are evicted and whatever is loaded meanwhile.
THEOREM CopiesSufferNoSkip ==
  ~IOFails /\ AllStayHome =>
    (Spec => [][\A q \in live_pcbs : has_backing_path[q] => PassesLine(q)]_vars)
<1> SUFFICES ASSUME ~IOFails, AllStayHome
             PROVE  Spec => [][\A q \in live_pcbs : has_backing_path[q] => PassesLine(q)]_vars
  OBVIOUS
<1>1. ShellInv /\ HomeInv /\ [Next]_vars
        => [\A q \in live_pcbs : has_backing_path[q] => PassesLine(q)]_vars
  BY LinePassed DEF CanFault, PassesLine, HomeInv
<1> QED BY <1>1, HomeInvariant, PTL DEF Spec

\* Every place of a request that is being planned names a script of its own that
\* is not loaded.
Fresh == phase = "planning" => NeedsLoad(loader.scripts) = DOMAIN loader.scripts

CopiesInv ==
  /\ \A q \in live_pcbs : has_backing_path[q]
  /\ phase = "loading" => loader.needs_load = DOMAIN loader.scripts

LEMMA CopiesStep ==
  ASSUME ShellInv, ShellInv', CopiesInv, Fresh, [Next]_vars
  PROVE  CopiesInv'
<1>0. /\ loader \in LoaderType
      /\ has_backing_path \in [Pids -> BOOLEAN]
      /\ live_pcbs \subseteq Pids
  BY LoaderFields DEF ShellInv, MyshTypeOK, MemInv, MemTypeOK
<1>1. CASE Plan
  <2>1. UNCHANGED <<live_pcbs, has_backing_path>>
    BY <1>1 DEF Plan, memVars, pcbVars
  <2>2. phase' = "loading" => loader'.needs_load = DOMAIN loader'.scripts
    BY <1>0, <1>1 DEF Plan, Return, Fresh, LoaderType
  <2> QED BY <2>1, <2>2 DEF CopiesInv
<1>2. CASE LoadNext
  <2>1. UNCHANGED <<live_pcbs, has_backing_path, phase>>
    BY <1>2 DEF LoadNext, LoadScript, pcbVars
  <2>2. loader'.needs_load = loader.needs_load /\ loader'.scripts = loader.scripts
    BY <1>0, <1>2 DEF LoadNext, LoaderType
  <2> QED BY <2>1, <2>2 DEF CopiesInv
<1>3. CASE MakePcb
  <2>1. PICK q \in Pids :
          /\ live_pcbs' = live_pcbs \cup {q}
          /\ has_backing_path' =
               [has_backing_path EXCEPT ![q] = Len(loader.pcbs) + 1 \in loader.needs_load]
    BY <1>3 DEF MakePcb, RegisterPcb
  <2>2. loader'.needs_load = loader.needs_load /\ loader'.scripts = loader.scripts
    BY <1>0, <1>3 DEF MakePcb, LoaderType
  <2>3. phase = "loading" /\ loader.needs_load = DOMAIN loader.scripts
    BY <1>3 DEF MakePcb, CopiesInv
  <2>4. Len(loader.pcbs) + 1 \in DOMAIN loader.scripts
    <3>1. Len(loader.pcbs) \in Nat /\ Len(loader.pcbs) + 1 <= Len(loader.scripts)
      BY <1>0, <1>3, LenProperties DEF MakePcb, LoaderType
    <3>2. Len(loader.scripts) \in Nat /\ DOMAIN loader.scripts = 1 .. Len(loader.scripts)
      BY <1>0, LenProperties DEF LoaderType
    <3> QED BY <3>1, <3>2
  <2>5. \A p \in live_pcbs' : has_backing_path'[p]
    BY <1>0, <2>1, <2>3, <2>4 DEF CopiesInv
  <2> QED BY <2>2, <2>3, <2>5 DEF CopiesInv
<1>4. CASE Unwind
  <2>1. /\ live_pcbs' = live_pcbs \ Made
        /\ has_backing_path' = [q \in Pids |-> has_backing_path[q] /\ q \notin Made]
        /\ phase' = "parse"
    BY <1>4 DEF Unwind, Rollback, DropPcbs, Return, Made
  <2> QED BY <1>0, <2>1 DEF CopiesInv
<1>5. CASE Finish
  <2>1. /\ live_pcbs' = live_pcbs \ {current}
        /\ has_backing_path' = [has_backing_path EXCEPT ![current] = FALSE]
        /\ phase' = "dispatch"
    BY <1>5 DEF Finish, UnregisterPcb, DropPcbs
  <2> QED BY <1>0, <2>1 DEF CopiesInv
<1>6. CASE UNCHANGED vars \/ Exited \/ UserNext \/ Parse \/ LineEnds \/ PlanFails \/ MakePcbFails
           \/ Enqueue \/ Schedule \/ Dispatch \/ Idle \/ PassOver \/ Requeue
  <2>1. UNCHANGED <<live_pcbs, has_backing_path>> /\ (UNCHANGED <<phase, loader>> \/ phase' # "loading")
    BY <1>6 DEF vars, memVars, pcbVars, Exited, UserNext, EndOfInput, Prompt, Parse, Interpret,
         LineEnds, PlanFails, Return, MakePcbFails, Enqueue, Schedule, Dispatch, Idle, PassOver,
         Requeue
  <2> QED BY <2>1 DEF CopiesInv
<1>7. CASE LoadFails \/ RunLine \/ PageFault \/ FaultFails
  <2>1. UNCHANGED <<live_pcbs, has_backing_path>> /\ phase' # "loading"
    BY <1>7 DEF LoadFails, LoadScriptFails, RunLine, Fetch, PageFault, DemandLoad, FaultFails,
         DemandLoadFails, pcbVars
  <2> QED BY <2>1 DEF CopiesInv
<1> QED BY <1>1, <1>2, <1>3, <1>4, <1>5, <1>6, <1>7 DEF Next, SystemNext

LEMMA CopiesInvariant == Spec /\ []Fresh => []CopiesInv
<1>1. Init => CopiesInv
  BY DEF Init, MemInit, CopiesInv
<1>2. ShellInv /\ ShellInv' /\ CopiesInv /\ Fresh /\ [Next]_vars => CopiesInv'
  BY CopiesStep
<1> QED BY <1>1, <1>2, ShellInvariant, PTL DEF Spec

\* The page of every line is resident when a process moves past it, if nothing
\* fails, nobody leaves the home directory and no request repeats a script.  The
\* runs wandering and shared_backing show that the last two conditions are needed.
THEOREM NoLineIsSkipped ==
  ~IOFails /\ AllStayHome => (Spec /\ []Fresh => NoLineSkipped)
<1> SUFFICES ASSUME ~IOFails, AllStayHome
             PROVE  Spec /\ []Fresh => NoLineSkipped
  OBVIOUS
<1>1. ShellInv /\ HomeInv /\ CopiesInv /\ [Next]_vars
        => [\A q \in live_pcbs :
              PC'[q] > PC[q] => pcb_table[q][PC[q] \div PAGE_SIZE] # NoFrame]_vars
  BY LinePassed DEF CanFault, PassesLine, HomeInv, CopiesInv
<1> QED BY <1>1, CopiesInvariant, HomeInvariant, PTL DEF Spec, NoLineSkipped
-----------------------------------------------------------------------------
(***************************************************************************)
(* SJF: the process that runs is a shortest one, from start to end, unless *)
(* a script loads another, which may be shorter and comes too late.        *)
(***************************************************************************)
Called == {"planning", "loading", "queueing", "rollback"}

\* Commands that load no script.
LoadingNone == {command \in Commands : command.op \notin {"exec", "source"}}

ShortestInv ==
  /\ line \in Seq(LoadingNone)
  /\ phase \in Called => active = "none"
  /\ active = "none" => \A q \in live_pcbs : PC[q] = 0
  /\ ShortestFirst
  /\ active = "SJF" /\ current # NoPid => \A q \in live_pcbs : JobTime[current] <= JobTime[q]

LEMMA ShortestStep ==
  ScriptsKeepTo(LoadingNone) => (ShellInv /\ ShortestInv /\ [Next]_vars => ShortestInv')
<1> SUFFICES ASSUME ScriptsKeepTo(LoadingNone), ShellInv, ShortestInv, [Next]_vars
             PROVE  ShortestInv'
  OBVIOUS
<1>0. /\ PC \in [Pids -> Nat] /\ live_pcbs \subseteq Pids /\ NoPid \notin Pids
      /\ JobTime \in [Pids -> Nat] /\ Control
      /\ (current # NoPid => current \in live_pcbs)
  BY JobTimeType, ProgramAssumption
     DEF ShellInv, MyshTypeOK, MemInv, MemTypeOK, Accounted, Popped
<1>1. line' \in Seq(LoadingNone)
  BY LineKeepsTo DEF ShortestInv
<1>2. phase' \in Called => active' = "none"
  <2> SUFFICES ASSUME phase' \in Called PROVE active' = "none"
    OBVIOUS
  <2>1. CASE phase \in Called /\ UNCHANGED active
    BY <2>1 DEF ShortestInv
  <2>2. CASE /\ phase = "parse" /\ UNCHANGED active
             /\ \E cmd \in Commands :
                  /\ cmd.op \in {"exec", "source"}
                  /\ current # NoPid => line # <<>> /\ cmd = Head(line)
    <3>1. line # <<>> => Head(line).op \notin {"exec", "source"}
      <4>1. line # <<>> => Head(line) \in LoadingNone
        BY HeadTailProperties DEF ShortestInv
      <4> QED BY <4>1 DEF LoadingNone
    <3>2. current = NoPid
      BY <2>2, <3>1
    <3> QED BY <1>0, <2>2, <3>2 DEF Control
  <2> QED BY <2>1, <2>2, LoaderCalled DEF Called
<1>3. ASSUME NEW q \in live_pcbs', active = "none" PROVE PC'[q] = 0
  <2>1. CASE q \in live_pcbs
    <3>1. PC[q] = 0 /\ current = NoPid
      BY <1>0, <1>3, <2>1 DEF ShortestInv, Control
    <3>2. ~(PC'[q] > PC[q])
      BY <1>0, <2>1, <3>1, OnlyCurrentAdvances
    <3>3. PC' \in [Pids -> Nat]
      BY TypeStep DEF Fields
    <3> QED BY <1>0, <2>1, <3>1, <3>2, <3>3
  <2>2. CASE q \notin live_pcbs
    BY <2>2, NewProcess
  <2> QED BY <2>1, <2>2
<1>4. ASSUME active' = "none", active # "none", NEW q \in live_pcbs' PROVE FALSE
  <2>1. Idle
    BY <1>4, LoopChanges
  <2>2. ready_queue = <<>> /\ current = NoPid /\ loader.pcbs = <<>> /\ live_pcbs' = live_pcbs
    BY <1>0, <2>1 DEF Idle, Control, memVars
  <2>3. live_pcbs = {}
    BY <2>2, ListsEmpty DEF ShellInv, Accounted, Popped
  <2> QED BY <1>4, <2>2, <2>3
<1>5. active' = "none" => \A q \in live_pcbs' : PC'[q] = 0
  BY <1>3, <1>4
<1>6. ASSUME active' = "SJF", active # "none"
      PROVE  active = "SJF" /\ live_pcbs' \subseteq live_pcbs
  <2>1. active = "SJF"
    BY <1>6, LoopChanges DEF Idle
  <2>2. ASSUME NEW q \in live_pcbs' \ live_pcbs PROVE FALSE
    BY <1>6, <2>2, NewProcess DEF MakePcb, ShortestInv, Called
  <2> QED BY <2>1, <2>2
<1>7. ShortestFirst'
  <2> SUFFICES ASSUME active' = "SJF", NEW p \in live_pcbs', NEW q \in live_pcbs',
                      JobTime'[p] < JobTime'[q]
               PROVE  PC'[q] = 0
    BY DEF ShortestFirst
  <2>1. CASE active = "none"
    BY <1>3, <2>1
  <2>2. CASE active # "none"
    <3>1. active = "SJF" /\ p \in live_pcbs /\ q \in live_pcbs
      BY <1>6, <2>2
    <3>2. JobTime[p] < JobTime[q]
      BY <3>1, JobTimesKept
    <3>3. PC[q] = 0
      BY <3>1, <3>2 DEF ShortestInv, ShortestFirst
    <3>4. CASE PC'[q] > PC[q]
      <4>1. q = current /\ current # NoPid
        BY <1>0, <3>1, <3>4, OnlyCurrentAdvances
      <4>2. JobTime[q] <= JobTime[p]
        BY <3>1, <4>1 DEF ShortestInv
      <4> QED BY <1>0, <3>1, <3>2, <4>2
    <3>5. CASE ~(PC'[q] > PC[q])
      <4>1. PC' \in [Pids -> Nat]
        BY TypeStep DEF Fields
      <4> QED BY <1>0, <3>1, <3>3, <3>5, <4>1
    <3> QED BY <3>4, <3>5
  <2> QED BY <2>1, <2>2
<1>8. ASSUME active' = "SJF", current' # NoPid, NEW q \in live_pcbs'
      PROVE  JobTime'[current'] <= JobTime'[q]
  <2>1. CASE current' # current
    <3>1. Dispatch
      BY <1>8, <2>1, LoopChanges
    <3>2. /\ active = "SJF" /\ ready_queue # <<>> /\ UNCHANGED <<JobTime, live_pcbs>>
          /\ current' = ready_queue[ShortestIndex(ready_queue, JobTime)]
      BY <1>8, <3>1 DEF Dispatch, memVars, JobTime
    <3>3. Lists(ready_queue, Waiting) /\ live_pcbs = Waiting
      <4>1. current = NoPid /\ loader.pcbs = <<>>
        BY <1>0, <3>1, <3>2 DEF Dispatch, Control
      <4> QED BY <4>1, ListsEmpty DEF ShellInv, Accounted, Popped
    <3>4. \A p \in Waiting : JobTime[p] \in Nat
      BY <1>0, <3>3
    <3>5. \A j \in 1 .. Len(ready_queue) : JobTime[current'] <= JobTime[ready_queue[j]]
      BY <3>2, <3>3, <3>4, ShortestIndexExists
    <3>6. PICK j \in DOMAIN ready_queue : ready_queue[j] = q
      BY <1>8, <3>2, <3>3 DEF Lists
    <3>7. DOMAIN ready_queue = 1 .. Len(ready_queue)
      BY <3>3, LenProperties DEF Lists
    <3> QED BY <3>2, <3>5, <3>6, <3>7
  <2>2. CASE current' = current
    <3>1. active # "none"
      BY <1>0, <1>8, <2>2 DEF Control
    <3>2. active = "SJF" /\ q \in live_pcbs
      BY <1>6, <1>8, <3>1
    <3>3. JobTime[current] <= JobTime[q]
      BY <1>8, <2>2, <3>2 DEF ShortestInv
    <3>4. current \in live_pcbs'
      <4>1. Popped' = {current'} /\ Popped' \subseteq live_pcbs'
        BY <1>8, AccountedStep DEF Accounted, Popped
      <4> QED BY <2>2, <4>1
    <3> QED BY <1>0, <1>8, <2>2, <3>2, <3>3, <3>4, JobTimesKept
  <2> QED BY <2>1, <2>2
<1> QED BY <1>1, <1>2, <1>5, <1>7, <1>8 DEF ShortestInv

\* Under SJF no process starts before a shorter one has finished, however often
\* they fault and are queued again, provided that no script loads another.
THEOREM ShortestRunsFirst == ScriptsKeepTo(LoadingNone) => (Spec => []ShortestFirst)
<1> SUFFICES ASSUME ScriptsKeepTo(LoadingNone) PROVE Spec => []ShortestFirst
  OBVIOUS
<1>1. Init => ShortestInv
  BY DEF Init, MemInit, ShortestInv, ShortestFirst, Called
<1>2. ShortestInv => ShortestFirst
  BY DEF ShortestInv
<1>3. ShellInv /\ ShortestInv /\ [Next]_vars => ShortestInv'
  BY ShortestStep
<1> QED BY <1>1, <1>2, <1>3, ShellInvariant, PTL DEF Spec
-----------------------------------------------------------------------------
(***************************************************************************)
(* AGING: the queue is sorted by score whenever the loop runs, unless a    *)
(* script queues another under a policy that appends it.                   *)
(***************************************************************************)

\* Commands that queue what they load by its score, if they load anything.
LoadingAged ==
  {command \in Commands : command.op \in {"exec", "source"} => command.policy = "AGING"}

AgedQueue == SortedByScore(ready_queue, job_length_score)

AgingInv ==
  /\ line \in Seq(LoadingAged)
  /\ active = "AGING" /\ phase \in Called => loader.policy = "AGING"
  /\ active = "AGING" => AgedQueue
  /\ active = "none" /\ phase = "queueing" /\ loader.policy = "AGING" => AgedQueue

\* A step that leaves the queue and the scores of those who wait alone.
LEMMA QueueUntouched ==
  ASSUME ShellInv, UNCHANGED ready_queue,
         \A q \in Waiting : job_length_score'[q] = job_length_score[q], AgedQueue
  PROVE  AgedQueue'
<1>1. \A i \in DOMAIN ready_queue : ready_queue[i] \in Waiting
  BY DEF Waiting, ToSet
<1> QED BY <1>1 DEF AgedQueue, SortedByScore

LEMMA AgedQueueStep ==
  ASSUME ShellInv, [Next]_vars, AgedQueue, phase # "queueing" => active = "AGING",
         phase = "queueing" => loader.policy = "AGING"
  PROVE  AgedQueue'
<1>0. /\ job_length_score \in [Pids -> Nat] /\ ready_queue \in Seq(Pids)
      /\ \A q \in Pids : job_length_score[q] \in Int
      /\ Waiting \subseteq Pids
  BY DEF ShellInv, MyshTypeOK, Accounted, MemInv, MemTypeOK
<1>1. CASE UNCHANGED vars \/ Exited \/ UserNext \/ Parse \/ LineEnds \/ PlanFails \/ Plan \/ LoadNext
           \/ LoadFails \/ MakePcbFails \/ Schedule \/ Idle \/ RunLine \/ PageFault \/ FaultFails
           \/ PassOver
  <2>1. UNCHANGED <<ready_queue, job_length_score>>
    BY <1>1 DEF vars, pcbVars, schedVars, Exited, UserNext, EndOfInput, Prompt, Parse, LineEnds,
         PlanFails, Plan, LoadNext, LoadFails, MakePcbFails, Schedule, Idle, RunLine, PageFault,
         FaultFails, PassOver
  <2> QED BY <2>1, QueueUntouched
<1>2. CASE MakePcb
  <2>1. PICK p, n : /\ p \notin live_pcbs /\ UNCHANGED ready_queue
                    /\ job_length_score' = [job_length_score EXCEPT ![p] = n]
    BY <1>2 DEF MakePcb, RegisterPcb, schedVars
  <2>2. p \notin Waiting
    BY <2>1 DEF ShellInv, Accounted
  <2> QED BY <1>0, <2>1, <2>2, QueueUntouched
<1>3. CASE Unwind
  <2>1. /\ UNCHANGED ready_queue
        /\ \A q \in Pids : q \notin Made => job_length_score'[q] = job_length_score[q]
    BY <1>3 DEF Unwind, Made, schedVars
  <2>2. Waiting \cap Made = {}
    BY DEF ShellInv, Accounted
  <2> QED BY <1>0, <2>1, <2>2, QueueUntouched
<1>4. CASE Finish
  <2>1. UNCHANGED ready_queue /\ job_length_score' = [job_length_score EXCEPT ![current] = 0]
    BY <1>4 DEF Finish
  <2>2. current # NoPid
    BY <1>4 DEF Finish, SliceEnds, ShellInv, Control
  <2>3. current \notin Waiting
    BY <2>2 DEF ShellInv, Accounted, Popped
  <2> QED BY <1>0, <2>1, <2>3, QueueUntouched
<1>5. CASE Enqueue
  <2>1. PICK p : p = Head(loader.pcbs)
    OBVIOUS
  <2>2. /\ ready_queue' = InsertSorted(ready_queue, p, job_length_score)
        /\ UNCHANGED job_length_score
    BY <1>5, <2>1 DEF Enqueue, pcbVars
  <2>3. p \in Pids
    BY <1>5, <2>1, LoaderFields, HeadTailProperties DEF Enqueue, LoaderType
  <2>4. \A q \in Pids \cup {p} : job_length_score[q] \in Int
    BY <1>0, <2>3
  <2>5. SortedByScore(InsertSorted(ready_queue, p, job_length_score), job_length_score)
    BY <1>0, <2>4, InsertSortedSorted DEF AgedQueue
  <2> QED BY <2>2, <2>5 DEF AgedQueue
<1>6. CASE Dispatch
  <2>1. /\ ready_queue # <<>> /\ ready_queue' = PopHead(ready_queue)
        /\ UNCHANGED job_length_score
    BY <1>6 DEF Dispatch, pcbVars
  <2> QED BY <1>0, <2>1, PopHeadSorted DEF AgedQueue
<1>7. CASE Requeue
  <2>0. active = "AGING"
    BY <1>7 DEF Requeue, SliceEnds
  <2>1. PICK p, score : p = current /\ score = AgedScores
    OBVIOUS
  <2>2. /\ job_length_score' = score
        /\ ready_queue' =
             IF ready_queue = <<>> \/ score[Head(ready_queue)] >= score[p]
             THEN AddToHead(ready_queue, p) ELSE InsertSorted(ready_queue, p, score)
    BY <1>7, <2>0, <2>1 DEF Requeue, RequeueAging
  <2>3. score \in [Pids -> Nat]
    BY <2>2, TypeStep DEF Fields
  <2>4. p \in Pids
    <3>1. current # NoPid
      BY <1>7 DEF Requeue, SliceEnds, ShellInv, Control
    <3> QED BY <2>1, <3>1 DEF ShellInv, MyshTypeOK
  <2>5. \A q \in Pids \cup {p} : score[q] \in Int
    BY <2>3, <2>4
  <2>6. SortedByScore(ready_queue, score)
    <3>1. \A i \in DOMAIN ready_queue : ready_queue[i] \in DOMAIN job_length_score
      BY <1>0, ElementOfSeq, LenProperties
    <3>2. \A q \in DOMAIN job_length_score : job_length_score[q] \in Nat
      BY <1>0
    <3> QED BY <2>1, <3>1, <3>2, AgeAllSorted DEF AgedQueue, AgedScores
  <2>7. CASE ready_queue = <<>> \/ score[Head(ready_queue)] >= score[p]
    <3>1. ready_queue = <<>> \/ score[p] <= score[Head(ready_queue)]
      <4>1. ready_queue # <<>> => Head(ready_queue) \in Pids
        BY <1>0, HeadTailProperties
      <4>2. ready_queue # <<>> => score[p] \in Nat /\ score[Head(ready_queue)] \in Nat
        BY <2>3, <2>4, <4>1
      <4> QED BY <2>7, <4>2
    <3>2. SortedByScore(AddToHead(ready_queue, p), score)
      BY <1>0, <2>5, <2>6, <3>1, AddToHeadSorted
    <3> QED BY <2>2, <2>7, <3>2 DEF AgedQueue
  <2>8. CASE ~(ready_queue = <<>> \/ score[Head(ready_queue)] >= score[p])
    <3>1. SortedByScore(InsertSorted(ready_queue, p, score), score)
      BY <1>0, <2>5, <2>6, InsertSortedSorted
    <3> QED BY <2>2, <2>8, <3>1 DEF AgedQueue
  <2> QED BY <2>7, <2>8
<1> QED BY <1>1, <1>2, <1>3, <1>4, <1>5, <1>6, <1>7 DEF Next, SystemNext

\* The loader starts to queue once it has made its last PCB.
LEMMA LoaderReady ==
  ASSUME ShellInv, [Next]_vars, phase' = "queueing"
  PROVE  phase = "queueing" \/ MakePcb
<1>1. CASE UNCHANGED vars \/ Exited
  BY <1>1 DEF vars, Exited
<1>2. CASE Parse
  <2>1. \E cmd \in Commands : Interpret(cmd)
    <3>1. /\ current = NoPid => typed # <<>> /\ Interpret(Head(typed))
          /\ current # NoPid => line # <<>> /\ Interpret(Head(line))
      BY <1>2 DEF Parse
    <3>2. typed \in Seq(Commands) /\ line \in Seq(Commands)
      BY DEF ShellInv, MyshTypeOK
    <3> QED BY <3>1, <3>2, HeadTailProperties
  <2> QED BY <1>2, <2>1, InterpretType DEF Parse
<1>3. CASE UserNext \/ LineEnds \/ PlanFails \/ Plan \/ LoadNext \/ LoadFails \/ MakePcbFails \/ Unwind
           \/ Enqueue \/ Schedule \/ Dispatch \/ Idle \/ RunLine \/ PageFault \/ FaultFails
           \/ PassOver \/ Finish \/ Requeue
  BY <1>3 DEF UserNext, EndOfInput, Prompt, LineEnds, PlanFails, Plan, LoadNext, LoadFails,
       MakePcbFails, Unwind, Enqueue, Schedule, Return, Dispatch, Idle, RunLine, PageFault,
       FaultFails, PassOver, Finish, Requeue
<1> QED BY <1>1, <1>2, <1>3 DEF Next, SystemNext

LEMMA AgingStep ==
  ScriptsKeepTo(LoadingAged) => (ShellInv /\ AgingInv /\ [Next]_vars => AgingInv')
<1> SUFFICES ASSUME ScriptsKeepTo(LoadingAged), ShellInv, AgingInv, [Next]_vars
             PROVE  AgingInv'
  OBVIOUS
<1>0. Control /\ Control'
  BY ControlStep DEF ShellInv
<1>1. line' \in Seq(LoadingAged)
  BY LineKeepsTo DEF AgingInv
<1>2. ASSUME active' = "AGING", phase' \in Called PROVE loader'.policy = "AGING"
  <2>1. CASE phase \in Called /\ UNCHANGED <<active, loader.policy>>
    BY <1>2, <2>1 DEF AgingInv
  <2>2. CASE /\ phase = "parse" /\ UNCHANGED active
             /\ \E cmd \in Commands :
                  /\ cmd.op \in {"exec", "source"} /\ loader'.policy = cmd.policy
                  /\ current # NoPid => line # <<>> /\ cmd = Head(line)
    <3>1. current # NoPid
      BY <1>0, <1>2, <2>2 DEF Control
    <3>2. line # <<>> /\ Head(line).op \in {"exec", "source"} /\ loader'.policy = Head(line).policy
      BY <2>2, <3>1
    <3>3. Head(line) \in LoadingAged
      BY <3>2, HeadTailProperties DEF AgingInv
    <3> QED BY <3>2, <3>3 DEF LoadingAged
  <2> QED BY <1>2, <2>1, <2>2, LoaderCalled DEF Called
<1>3. ASSUME active' = "AGING" PROVE AgedQueue'
  <2>1. CASE active = "AGING"
    BY <2>1, AgedQueueStep DEF AgingInv, Called
  <2>2. CASE active # "AGING"
    <3>1. Schedule /\ active = "none" /\ loader.policy = "AGING"
      BY <1>3, <2>2, LoopChanges DEF Idle
    <3>2. AgedQueue /\ UNCHANGED <<ready_queue, job_length_score>>
      BY <3>1 DEF AgingInv, Schedule, pcbVars
    <3> QED BY <3>2, QueueUntouched
  <2> QED BY <2>1, <2>2
<1>4. ASSUME active' = "none", phase' = "queueing", loader'.policy = "AGING" PROVE AgedQueue'
  <2>1. phase \in Called /\ active = "none" /\ loader.policy = "AGING"
    <3>1. phase = "queueing" \/ MakePcb
      BY <1>4, LoaderReady
    <3>2. phase \in Called
      BY <3>1 DEF MakePcb, Called
    <3> QED BY <1>4, <3>2, LoaderCalled DEF Called
  <2>2. CASE phase = "queueing"
    BY <2>1, <2>2, AgedQueueStep DEF AgingInv
  <2>3. CASE phase # "queueing"
    <3>1. ready_queue = <<>>
      BY <1>0, <2>1, <2>3 DEF Control
    <3>2. UNCHANGED ready_queue
      <4>1. MakePcb
        BY <1>4, <2>1, <2>3, LoaderReady DEF Called
      <4> QED BY <4>1 DEF MakePcb, schedVars
    <3>3. DOMAIN ready_queue' = {}
      BY <3>1, <3>2
    <3> QED BY <3>3 DEF AgedQueue, SortedByScore
  <2> QED BY <2>2, <2>3
<1> QED BY <1>1, <1>2, <1>3, <1>4 DEF AgingInv

\* A process moves up and down the AGING queue as the scores say: whatever is
\* inserted, aged, popped or kept in front, the queue stays sorted and the loop pops
\* the least score, provided that what the scripts load is queued the same way.
THEOREM AgingQueueSorted == ScriptsKeepTo(LoadingAged) => (Spec => []AgingSorted)
<1> SUFFICES ASSUME ScriptsKeepTo(LoadingAged) PROVE Spec => []AgingSorted
  OBVIOUS
<1>1. Init => AgingInv
  BY DEF Init, AgingInv, Called
<1>2. AgingInv => AgingSorted
  BY DEF AgingInv, AgingSorted, AgedQueue
<1>3. ShellInv /\ AgingInv /\ [Next]_vars => AgingInv'
  BY AgingStep
<1> QED BY <1>1, <1>2, <1>3, ShellInvariant, PTL DEF Spec
-----------------------------------------------------------------------------
(***************************************************************************)
(* Failure: unwinding a load that was admitted restores what there was     *)
(* before it.  What unwinding would leave at any time, Restored, does not  *)
(* change while the load goes on.                                          *)
(***************************************************************************)

\* The entries of scripts that are not loaded and of processes that do not live
\* are blank.
FreshScripts == \A s \in Scripts \ loaded_scripts : script_table[s] = EmptyTable
FreshPcbs ==
  \A q \in Pids \ live_pcbs :
    /\ pcb_script[q] = NoScript /\ pcb_table[q] = EmptyTable
    /\ has_backing_path[q] = FALSE /\ job_length_score[q] = 0

LEMMA FreshScriptsStep ==
  ASSUME ShellInv, [Next]_vars, FreshScripts
  PROVE  FreshScripts'
<1>0. script_table \in [Scripts -> PageTable]
  BY DEF ShellInv, MemInv, MemTypeOK
<1>1. CASE UNCHANGED vars \/ Exited \/ UserNext \/ Parse \/ LineEnds \/ PlanFails \/ Plan
           \/ MakePcbFails \/ Enqueue \/ Schedule \/ Dispatch \/ Idle \/ PassOver \/ Requeue
           \/ LoadFails \/ MakePcb \/ RunLine \/ Finish
  <2>1. UNCHANGED <<script_table, loaded_scripts>>
    BY <1>1 DEF vars, memVars, Exited, UserNext, EndOfInput, Prompt, Parse, LineEnds, PlanFails,
         Plan, MakePcbFails, Enqueue, Schedule, Dispatch, Idle, PassOver, Requeue, LoadFails,
         LoadScriptFails, MakePcb, RegisterPcb, RunLine, Fetch, Finish, UnregisterPcb
  <2> QED BY <2>1 DEF FreshScripts
<1>2. CASE LoadNext
  <2>1. PICK s, table : /\ script_table' = [script_table EXCEPT ![s] = table]
                        /\ loaded_scripts' = loaded_scripts \cup {s}
    BY <1>2 DEF LoadNext, LoadScript
  <2> QED BY <1>0, <2>1 DEF FreshScripts
<1>3. CASE Unwind
  BY <1>3 DEF Unwind, Rollback, FreshScripts
<1>4. CASE PageFault \/ FaultFails
  <2>1. UNCHANGED loaded_scripts
    BY <1>4 DEF PageFault, FaultFails, DemandLoad, DemandLoadFails
  <2>2. \A s \in Scripts \ loaded_scripts : script_table'[s] = script_table[s]
    BY <1>0, <1>4 DEF PageFault, FaultFails, DemandLoad, DemandLoadFails, Publish, ScriptTablesWithout
  <2> QED BY <2>1, <2>2 DEF FreshScripts
<1> QED BY <1>1, <1>2, <1>3, <1>4 DEF Next, SystemNext

LEMMA FreshPcbsStep ==
  ASSUME ShellInv, [Next]_vars, FreshPcbs
  PROVE  FreshPcbs'
<1>0. /\ pcb_script \in [Pids -> Scripts \cup {NoScript}] /\ pcb_table \in [Pids -> PageTable]
      /\ has_backing_path \in [Pids -> BOOLEAN] /\ job_length_score \in [Pids -> Nat]
      /\ (current # NoPid => current \in live_pcbs)
  BY DEF ShellInv, MemInv, MemTypeOK, MyshTypeOK, Accounted, Popped
<1>1. CASE UNCHANGED vars \/ Exited \/ UserNext \/ Parse \/ LineEnds \/ PlanFails \/ Plan
           \/ MakePcbFails \/ Enqueue \/ Schedule \/ Dispatch \/ Idle \/ PassOver
           \/ LoadNext \/ LoadFails \/ RunLine
  <2>1. UNCHANGED <<live_pcbs, pcb_script, pcb_table, has_backing_path, job_length_score>>
    BY <1>1 DEF vars, memVars, pcbVars, Exited, UserNext, EndOfInput, Prompt, Parse, LineEnds,
         PlanFails, Plan, MakePcbFails, Enqueue, Schedule, Dispatch, Idle, PassOver, LoadFails,
         LoadScriptFails, LoadNext, LoadScript, RunLine, Fetch
  <2> QED BY <2>1 DEF FreshPcbs
<1>2. CASE MakePcb
  <2>1. PICK q, s, table, b, n :
          /\ live_pcbs' = live_pcbs \cup {q} /\ pcb_script' = [pcb_script EXCEPT ![q] = s]
          /\ pcb_table' = [pcb_table EXCEPT ![q] = table]
          /\ has_backing_path' = [has_backing_path EXCEPT ![q] = b]
          /\ job_length_score' = [job_length_score EXCEPT ![q] = n]
    BY <1>2 DEF MakePcb, RegisterPcb
  <2> QED BY <1>0, <2>1 DEF FreshPcbs
<1>3. CASE Unwind
  <2>1. \A q \in Pids : has_backing_path'[q] = (has_backing_path[q] /\ q \notin ToSet(loader.pcbs))
    BY <1>3 DEF Unwind
  <2>2. \A q \in Pids \ live_pcbs' :
          /\ pcb_script'[q] = NoScript /\ pcb_table'[q] = EmptyTable /\ job_length_score'[q] = 0
    BY <1>3 DEF Unwind, Rollback, DropPcbs, FreshPcbs
  <2>3. \A q \in Pids \ live_pcbs' : q \in live_pcbs => q \in ToSet(loader.pcbs)
    BY <1>3 DEF Unwind, Rollback, DropPcbs
  <2>4. \A q \in Pids \ live_pcbs' : has_backing_path'[q] = FALSE
    BY <2>1, <2>3 DEF FreshPcbs
  <2> QED BY <2>2, <2>4 DEF FreshPcbs
<1>4. CASE Finish
  BY <1>0, <1>4 DEF Finish, UnregisterPcb, DropPcbs, FreshPcbs
<1>5. CASE PageFault \/ FaultFails
  <2>1. UNCHANGED <<live_pcbs, pcb_script, has_backing_path, job_length_score>>
    BY <1>5 DEF PageFault, FaultFails, DemandLoad, DemandLoadFails, pcbVars
  <2>2. \A q \in Pids \ live_pcbs : pcb_table'[q] = pcb_table[q]
    BY <1>0, <1>5 DEF PageFault, FaultFails, DemandLoad, DemandLoadFails, Publish, PcbTablesWithout,
         Sharers
  <2> QED BY <2>1, <2>2 DEF FreshPcbs
<1>6. CASE Requeue
  <2>1. UNCHANGED <<live_pcbs, pcb_script, pcb_table, has_backing_path>>
    BY <1>6 DEF Requeue, memVars
  <2>2. \A q \in Pids \ live_pcbs : job_length_score'[q] = job_length_score[q]
    <3>1. \A q \in Pids \ live_pcbs : q \notin ToSet(ready_queue)
      BY DEF ShellInv, Accounted, Waiting
    <3> QED BY <1>0, <1>6, <3>1 DEF Requeue, RequeueAging, AgedScores, AgeAll
  <2> QED BY <2>1, <2>2 DEF FreshPcbs
<1> QED BY <1>1, <1>2, <1>3, <1>4, <1>5, <1>6 DEF Next, SystemNext

\* What unwinding would leave.
WithoutUsers(entry, users) == [entry EXCEPT !.using = @ \ users]
RestoredEntry(f) ==
  IF f \in FramesOf(loader.loaded) THEN ClearFrame ELSE WithoutUsers(frame_table[f], Made)
RestoredFrames == [f \in Frames |-> RestoredEntry(f)]
RestoredTables ==
  [s \in Scripts |-> IF s \in loader.loaded THEN EmptyTable ELSE script_table[s]]
RestoredScript == [q \in Pids |-> IF q \in Made THEN NoScript ELSE pcb_script[q]]
RestoredTable == [q \in Pids |-> IF q \in Made THEN EmptyTable ELSE pcb_table[q]]
RestoredPath == [q \in Pids |-> has_backing_path[q] /\ q \notin Made]
RestoredScore == [q \in Pids |-> IF q \in Made THEN 0 ELSE job_length_score[q]]
Restored ==
  <<RestoredFrames, loaded_scripts \ loader.loaded, RestoredTables, live_pcbs \ Made,
    RestoredScript, RestoredTable, RestoredPath, RestoredScore, ready_queue, active, current>>

LEMMA WithoutUsersFields ==
  ASSUME NEW entry \in FrameEntry, NEW users
  PROVE  /\ WithoutUsers(entry, users) \in FrameEntry
         /\ WithoutUsers(entry, users).occupied = entry.occupied
         /\ WithoutUsers(entry, users).script = entry.script
         /\ WithoutUsers(entry, users).page = entry.page
         /\ WithoutUsers(entry, users).last_used = entry.last_used
         /\ WithoutUsers(entry, users).using = entry.using \ users
         /\ entry.using \cap users = {} => WithoutUsers(entry, users) = entry
<1>1. /\ WithoutUsers(entry, users) \in FrameEntry
      /\ WithoutUsers(entry, users).occupied = entry.occupied
      /\ WithoutUsers(entry, users).script = entry.script
      /\ WithoutUsers(entry, users).page = entry.page
      /\ WithoutUsers(entry, users).last_used = entry.last_used
      /\ WithoutUsers(entry, users).using = entry.using \ users
  BY DEF WithoutUsers, FrameEntry
<1>2. ASSUME entry.using \cap users = {} PROVE WithoutUsers(entry, users) = entry
  <2>1. entry.using \ users = entry.using
    BY <1>2
  <2> QED BY <1>1, <2>1, EntryExtensionality
<1> QED BY <1>1, <1>2

\* Nothing is to be undone when a load begins.
LEMMA RestoredAtStart ==
  ASSUME ShellInv, loader.loaded = {}, loader.pcbs = <<>>
  PROVE  Restored = Image
<1>0. /\ frame_table \in [Frames -> FrameEntry] /\ script_table \in [Scripts -> PageTable]
      /\ pcb_script \in [Pids -> Scripts \cup {NoScript}] /\ pcb_table \in [Pids -> PageTable]
      /\ has_backing_path \in [Pids -> BOOLEAN] /\ job_length_score \in [Pids -> Nat]
  BY DEF ShellInv, MemInv, MemTypeOK, MyshTypeOK
<1>1. Made = {}
  BY ListsEmpty DEF ShellInv, Accounted
<1>2. RestoredFrames = frame_table
  <2>1. ASSUME NEW f \in Frames PROVE RestoredEntry(f) = frame_table[f]
    <3>1. f \notin FramesOf(loader.loaded)
      BY DEF FramesOf
    <3>2. frame_table[f] \in FrameEntry /\ frame_table[f].using \cap Made = {}
      BY <1>0, <1>1
    <3> QED BY <3>1, <3>2, WithoutUsersFields DEF RestoredEntry
  <2> QED BY <1>0, <2>1 DEF RestoredFrames
<1>3. RestoredTables = script_table /\ RestoredScript = pcb_script /\ RestoredTable = pcb_table
  BY <1>0, <1>1 DEF RestoredTables, RestoredScript, RestoredTable
<1>4. RestoredPath = has_backing_path
  <2>1. \A q \in Pids : (has_backing_path[q] /\ q \notin Made) = has_backing_path[q]
    BY <1>0, <1>1
  <2> QED BY <1>0, <2>1 DEF RestoredPath
<1>5. RestoredScore = job_length_score
  BY <1>0, <1>1 DEF RestoredScore
<1> QED BY <1>1, <1>2, <1>3, <1>4, <1>5 DEF Restored, Image

\* Loading a script adds what unwinding would take away again.
LEMMA RestoredAfterLoad ==
  ASSUME ShellInv, FreshScripts, LoadNext
  PROVE  Restored' = Restored
<1>0. MemInv /\ loader \in LoaderType /\ frame_table \in [Frames -> FrameEntry]
      /\ script_table \in [Scripts -> PageTable] /\ FreeFramesClear
  BY LoaderFields DEF ShellInv, MemInv, MemTypeOK
<1>1. PICK i, s : /\ i \in ToLoad /\ s = loader.scripts[i] /\ LoadScript(s)
                  /\ loader' = [loader EXCEPT !.loaded = @ \cup {s}]
  BY DEF LoadNext
<1>2. s \in Scripts
  BY <1>1, RequestedAreScripts DEF ToLoad, ShellInv
<1>3. loader'.loaded = loader.loaded \cup {s} /\ loader'.pcbs = loader.pcbs /\ Made' = Made
  BY <1>0, <1>1 DEF LoaderType, Made
<1>4. /\ s \notin loaded_scripts /\ loaded_scripts' = loaded_scripts \cup {s}
      /\ UNCHANGED <<live_pcbs, pcb_script, pcb_table>>
      /\ UNCHANGED <<has_backing_path, job_length_score, ready_queue, active, current>>
  BY <1>1 DEF LoadNext, LoadScript, pcbVars, schedVars
<1>5. PICK at \in [InitialPages(s) -> FreeFrames] :
        /\ \A f \in Frames :
             (\A p \in InitialPages(s) : at[p] # f) => frame_table'[f] = frame_table[f]
        /\ script_table' = [script_table EXCEPT ![s] =
             [p \in AllPages |-> IF p \in InitialPages(s) THEN at[p] ELSE NoFrame]]
  <2>1. MemInv /\ s \in Scripts /\ LoadScript(s)
    BY <1>0, <1>1, <1>2
  <2> QED BY <2>1, LoadScriptFrames
<1>6. /\ InitialPages(s) \subseteq AllPages
      /\ \A p \in AllPages : script_table'[s][p] = IF p \in InitialPages(s) THEN at[p] ELSE NoFrame
      /\ \A r \in Scripts \ {s} : script_table'[r] = script_table[r]
      /\ script_table[s] = EmptyTable
  <2>1. InitialPages(s) \subseteq AllPages
    BY <1>2, InitialPagesInterval, PagesType
  <2> QED BY <1>0, <1>2, <1>4, <1>5, <2>1 DEF FreshScripts
<1>7. RestoredFrames' = RestoredFrames
  <2>1. ASSUME NEW f \in Frames PROVE RestoredEntry(f)' = RestoredEntry(f)
    <3>1. \A p \in AllPages : script_table[s][p] # f
      BY <1>6 DEF EmptyTable, NoFrame, Frames
    <3>2. loader.loaded \subseteq Scripts
      BY <1>0 DEF LoaderType
    <3>3. CASE \E p \in InitialPages(s) : at[p] = f
      <4>1. f \in FreeFrames
        BY <3>3
      <4>2. frame_table[f] = ClearFrame /\ ClearFrame \in FrameEntry /\ ClearFrame.using = {}
        BY <1>0, <4>1, ClearFrameType DEF FreeFramesClear
      <4>3. WithoutUsers(frame_table[f], Made) = ClearFrame
        BY <4>2, WithoutUsersFields
      <4>4. RestoredEntry(f) = ClearFrame
        BY <4>3 DEF RestoredEntry
      <4>5. PICK p \in AllPages : script_table'[s][p] = f
        BY <1>6, <3>3
      <4>6. f \in FramesOf(loader.loaded)'
        BY <1>3, <4>5 DEF FramesOf
      <4>7. RestoredEntry(f)' = ClearFrame
        BY <4>6 DEF RestoredEntry
      <4> QED BY <4>4, <4>7
    <3>4. CASE \A p \in InitialPages(s) : at[p] # f
      <4>1. frame_table'[f] = frame_table[f]
        BY <1>5, <3>4
      <4>2. \A p \in AllPages : script_table'[s][p] # f
        BY <1>6, <3>4 DEF NoFrame, Frames
      <4>3. \A r \in Scripts, p \in AllPages : script_table'[r][p] = f <=> script_table[r][p] = f
        BY <1>6, <3>1, <4>2
      <4>4. f \in FramesOf(loader.loaded)' <=> f \in FramesOf(loader.loaded)
        BY <1>2, <1>3, <3>1, <3>2, <4>3 DEF FramesOf
      <4> QED BY <1>3, <4>1, <4>4 DEF RestoredEntry
    <3> QED BY <3>3, <3>4
  <2> QED BY <2>1 DEF RestoredFrames
<1>8. RestoredTables' = RestoredTables
  BY <1>3, <1>6 DEF RestoredTables
<1>9. /\ loaded_scripts' \ loader'.loaded = loaded_scripts \ loader.loaded
      /\ live_pcbs' \ Made' = live_pcbs \ Made
  BY <1>3, <1>4
<1>10. /\ UNCHANGED <<RestoredScript, RestoredTable>>
       /\ UNCHANGED <<RestoredPath, RestoredScore>>
  BY <1>3, <1>4 DEF RestoredScript, RestoredTable, RestoredPath, RestoredScore
<1> QED BY <1>4, <1>7, <1>8, <1>9, <1>10 DEF Restored

\* So does making a PCB.
LEMMA RestoredAfterMake ==
  ASSUME ShellInv, FreshPcbs, MakePcb
  PROVE  Restored' = Restored
<1>0. /\ frame_table \in [Frames -> FrameEntry] /\ live_pcbs \subseteq Pids
      /\ pcb_script \in [Pids -> Scripts \cup {NoScript}] /\ pcb_table \in [Pids -> PageTable]
      /\ has_backing_path \in [Pids -> BOOLEAN] /\ job_length_score \in [Pids -> Nat]
      /\ loader \in LoaderType /\ frame_table' \in [Frames -> FrameEntry] /\ UsersSound
  <2>1. [Next]_vars
    BY DEF Next, SystemNext
  <2> QED BY <2>1, MemLater, LoaderFields DEF ShellInv, MemInv, MemTypeOK, MyshTypeOK
<1>1. PICK q, s, b, n :
        /\ q \in Pids \ live_pcbs /\ live_pcbs' = live_pcbs \cup {q}
        /\ pcb_script' = [pcb_script EXCEPT ![q] = s]
        /\ pcb_table' = [pcb_table EXCEPT ![q] = script_table[s]]
        /\ frame_table' = [f \in Frames |->
             IF \E p \in AllPages : script_table[s][p] = f
             THEN [frame_table[f] EXCEPT !.using = Registered(@, {q})] ELSE frame_table[f]]
        /\ has_backing_path' = [has_backing_path EXCEPT ![q] = b]
        /\ job_length_score' = [job_length_score EXCEPT ![q] = n]
        /\ loader' = [loader EXCEPT !.pcbs = Append(@, q)]
  BY DEF MakePcb, RegisterPcb
<1>2. /\ UNCHANGED <<loaded_scripts, script_table>> /\ UNCHANGED <<ready_queue, active, current>>
      /\ loader'.loaded = loader.loaded /\ loader'.pcbs = Append(loader.pcbs, q)
  BY <1>0, <1>1 DEF MakePcb, RegisterPcb, schedVars, LoaderType
<1>3. q \notin Made /\ Made' = Made \cup {q}
  <2>1. q \notin Made
    BY <1>1 DEF ShellInv, Accounted
  <2>2. Lists(AddToTail(loader.pcbs, q), Made \cup {q})
    BY <2>1, AddToTailLists DEF ShellInv, Accounted
  <2>3. Made' = ToSet(AddToTail(loader.pcbs, q))
    BY <1>2 DEF Made, AddToTail
  <2> QED BY <2>1, <2>2, <2>3, ListsSet
<1>4. RestoredFrames' = RestoredFrames
  <2>1. ASSUME NEW f \in Frames PROVE RestoredEntry(f)' = RestoredEntry(f)
    <3>1. FramesOf(loader.loaded)' = FramesOf(loader.loaded)
      BY <1>2 DEF FramesOf
    <3>2. frame_table[f] \in FrameEntry /\ frame_table'[f] \in FrameEntry
      BY <1>0
    <3>3. q \notin frame_table[f].using
      BY <1>0, <1>1 DEF UsersSound, Mapping
    <3>4. /\ frame_table'[f].occupied = frame_table[f].occupied
          /\ frame_table'[f].script = frame_table[f].script
          /\ frame_table'[f].page = frame_table[f].page
          /\ frame_table'[f].last_used = frame_table[f].last_used
          /\ frame_table[f].using \subseteq frame_table'[f].using
          /\ frame_table'[f].using \subseteq frame_table[f].using \cup {q}
      <4>1. CASE \E p \in AllPages : script_table[s][p] = f
        <5>1. frame_table'[f] = [frame_table[f] EXCEPT !.using = Registered(@, {q})]
          BY <1>1, <4>1
        <5> QED BY <3>2, <5>1, RegisteredBounds DEF FrameEntry
      <4>2. CASE ~\E p \in AllPages : script_table[s][p] = f
        BY <1>1, <4>2
      <4> QED BY <4>1, <4>2
    <3>5. frame_table'[f].using \ Made' = frame_table[f].using \ Made
      BY <1>3, <3>3, <3>4
    <3>6. WithoutUsers(frame_table'[f], Made') = WithoutUsers(frame_table[f], Made)
      <4>1. PICK d, e : /\ d = WithoutUsers(frame_table'[f], Made')
                        /\ e = WithoutUsers(frame_table[f], Made)
        OBVIOUS
      <4>2. /\ d \in FrameEntry /\ d.occupied = frame_table'[f].occupied
            /\ d.script = frame_table'[f].script /\ d.page = frame_table'[f].page
            /\ d.last_used = frame_table'[f].last_used
            /\ d.using = frame_table'[f].using \ Made'
        BY <3>2, <4>1, WithoutUsersFields
      <4>3. /\ e \in FrameEntry /\ e.occupied = frame_table[f].occupied
            /\ e.script = frame_table[f].script /\ e.page = frame_table[f].page
            /\ e.last_used = frame_table[f].last_used
            /\ e.using = frame_table[f].using \ Made
        BY <3>2, <4>1, WithoutUsersFields
      <4>4. d = e
        BY <3>4, <3>5, <4>2, <4>3, EntryExtensionality
      <4> QED BY <4>1, <4>4
    <3> QED BY <3>1, <3>6 DEF RestoredEntry
  <2> QED BY <2>1 DEF RestoredFrames
<1>5. RestoredTables' = RestoredTables
  BY <1>2 DEF RestoredTables
<1>6. loaded_scripts' \ loader'.loaded = loaded_scripts \ loader.loaded
  BY <1>2
<1>7. live_pcbs' \ Made' = live_pcbs \ Made
  BY <1>1, <1>3
<1>8. /\ pcb_script[q] = NoScript /\ pcb_table[q] = EmptyTable
      /\ has_backing_path[q] = FALSE /\ job_length_score[q] = 0
  BY <1>1 DEF FreshPcbs
<1>9. RestoredScript' = RestoredScript /\ RestoredTable' = RestoredTable
  BY <1>0, <1>1, <1>3, <1>8 DEF RestoredScript, RestoredTable
<1>10. RestoredPath' = RestoredPath
  <2>1. ASSUME NEW r \in Pids
        PROVE  (has_backing_path'[r] /\ r \notin Made') = (has_backing_path[r] /\ r \notin Made)
    <3>1. CASE r = q
      BY <1>3, <1>8, <3>1
    <3>2. CASE r # q
      <4>1. has_backing_path'[r] = has_backing_path[r] /\ (r \in Made' <=> r \in Made)
        BY <1>0, <1>1, <1>3, <3>2
      <4> QED BY <4>1
    <3> QED BY <3>1, <3>2
  <2> QED BY <2>1 DEF RestoredPath
<1>11. RestoredScore' = RestoredScore
  BY <1>0, <1>1, <1>3, <1>8 DEF RestoredScore
<1> QED BY <1>2, <1>4, <1>5, <1>6, <1>7, <1>9, <1>10, <1>11 DEF Restored

\* And unwinding leaves what is to be restored.
LEMMA Unwound ==
  ASSUME ShellInv, Unwind
  PROVE  Image' = Restored
<1> DEFINE S == loader.loaded
           cleared == [f \in Frames |-> IF f \in FramesOf(S) THEN ClearFrame ELSE frame_table[f]]
<1>0. /\ MemInv /\ frame_table \in [Frames -> FrameEntry] /\ UsersSound
  BY DEF ShellInv, MemInv, MemTypeOK
<1>1. /\ loaded_scripts' = loaded_scripts \ S /\ S \subseteq loaded_scripts /\ Made \subseteq live_pcbs
      /\ script_table' = [s \in Scripts |-> IF s \in S THEN EmptyTable ELSE script_table[s]]
      /\ live_pcbs' = live_pcbs \ Made
      /\ pcb_script' = [q \in Pids |-> IF q \in Made THEN NoScript ELSE pcb_script[q]]
      /\ pcb_table' = [q \in Pids |-> IF q \in Made THEN EmptyTable ELSE pcb_table[q]]
      /\ has_backing_path' = [q \in Pids |-> has_backing_path[q] /\ q \notin Made]
      /\ job_length_score' = [q \in Pids |-> IF q \in Made THEN 0 ELSE job_length_score[q]]
      /\ UNCHANGED <<ready_queue, active, current>>
  BY DEF Unwind, Rollback, DropPcbs, Made, schedVars
<1>2. frame_table' = WithoutPcbs(cleared, Made)
  BY DEF Unwind, Rollback, WithoutPcbs, FramesOf, Made
<1>3. cleared \in [Frames -> FrameEntry]
  BY <1>0, ClearFrameType
<1>4. \A f \in Frames : cleared[f] = IF f \in FramesOf(S) THEN ClearFrame ELSE frame_table[f]
  OBVIOUS
<1> HIDE DEF cleared
<1>5. frame_table' = RestoredFrames
  <2>1. ASSUME NEW f \in Frames PROVE frame_table'[f] = RestoredEntry(f)
    <3>1. PICK d : d = frame_table'[f]
      OBVIOUS
    <3>2. /\ d \in FrameEntry /\ d.occupied = cleared[f].occupied
          /\ d.script = cleared[f].script /\ d.page = cleared[f].page
          /\ d.last_used = cleared[f].last_used
          /\ d.using = cleared[f].using \ {q \in Made : \E p \in AllPages : pcb_table[q][p] = f}
      BY <1>2, <1>3, <3>1, WithoutPcbsFields
    <3>3. CASE f \in FramesOf(S)
      <4>1. cleared[f] = ClearFrame /\ d.using = ClearFrame.using
        BY <1>4, <3>2, <3>3, ClearFrameType
      <4>2. d = ClearFrame
        BY <3>2, <4>1, ClearFrameType, EntryExtensionality
      <4> QED BY <3>1, <3>3, <4>2 DEF RestoredEntry
    <3>4. CASE f \notin FramesOf(S)
      <4>1. cleared[f] = frame_table[f] /\ frame_table[f] \in FrameEntry
        BY <1>0, <1>4, <3>4
      <4>2. d.using = frame_table[f].using \ Made
        <5>1. \A q \in frame_table[f].using : \E p \in AllPages : pcb_table[q][p] = f
          BY <1>0 DEF UsersSound, Mapping
        <5> QED BY <3>2, <4>1, <5>1
      <4>3. PICK e : e = WithoutUsers(frame_table[f], Made)
        OBVIOUS
      <4>4. /\ e \in FrameEntry /\ e.occupied = frame_table[f].occupied
            /\ e.script = frame_table[f].script /\ e.page = frame_table[f].page
            /\ e.last_used = frame_table[f].last_used
            /\ e.using = frame_table[f].using \ Made
        BY <4>1, <4>3, WithoutUsersFields
      <4>5. d = e
        BY <3>2, <4>1, <4>2, <4>4, EntryExtensionality
      <4> QED BY <3>1, <3>4, <4>3, <4>5 DEF RestoredEntry
    <3> QED BY <3>3, <3>4
  <2>2. frame_table' = [f \in Frames |-> frame_table'[f]]
    BY <1>2 DEF WithoutPcbs
  <2>3. RestoredFrames = [f \in Frames |-> frame_table'[f]]
    BY <2>1 DEF RestoredFrames
  <2> QED BY <2>2, <2>3
<1> QED
  BY <1>1, <1>5
     DEF Image, Restored, RestoredTables, RestoredScript, RestoredTable, RestoredPath, RestoredScore

History ==
  /\ FreshScripts /\ FreshPcbs
  /\ phase = "planning" => loader.loaded = {} /\ loader.pcbs = <<>>
  /\ phase \in {"loading", "rollback"} => Restored = saved

LEMMA HistoryStep == ShellInv /\ History /\ [HistoryNext]_historyVars => History'
<1> SUFFICES ASSUME ShellInv, History, [HistoryNext]_historyVars PROVE History'
  OBVIOUS
<1>0. [Next]_vars /\ loader \in LoaderType
  BY LoaderFields DEF HistoryNext, historyVars
<1>1. FreshScripts' /\ FreshPcbs'
  BY <1>0, FreshScriptsStep, FreshPcbsStep DEF History
<1>2. phase' = "planning" => loader'.loaded = {} /\ loader'.pcbs = <<>>
  <2> SUFFICES ASSUME phase' = "planning" PROVE loader'.loaded = {} /\ loader'.pcbs = <<>>
    OBVIOUS
  <2>1. CASE UNCHANGED vars \/ Exited
    BY <2>1 DEF vars, Exited, History
  <2>2. CASE Parse
    <3>1. PICK cmd : loader' = Loader(cmd.scripts, cmd.policy)
      BY <2>2 DEF Parse, Interpret
    <3> QED BY <3>1 DEF Loader
  <2>3. CASE UserNext \/ LineEnds \/ PlanFails \/ Plan \/ LoadNext \/ LoadFails \/ MakePcb
             \/ MakePcbFails \/ Unwind \/ Enqueue \/ Schedule \/ Dispatch \/ Idle \/ RunLine
             \/ PageFault \/ FaultFails \/ PassOver \/ Finish \/ Requeue
    BY <2>3 DEF UserNext, EndOfInput, Prompt, LineEnds, PlanFails, Plan, LoadNext, LoadFails, MakePcb,
         MakePcbFails, Unwind, Enqueue, Schedule, Return, Dispatch, Idle, RunLine, PageFault,
         FaultFails, PassOver, Finish, Requeue
  <2> QED BY <1>0, <2>1, <2>2, <2>3 DEF Next, SystemNext
<1>3. ASSUME phase' \in {"loading", "rollback"} PROVE Restored' = saved'
  <2>1. CASE UNCHANGED historyVars
    <3>1. UNCHANGED <<memVars, phase, loader, pcbVars, schedVars, saved>>
      BY <2>1 DEF historyVars, vars
    <3>2. UNCHANGED Restored
      BY <3>1 DEF Restored, RestoredFrames, RestoredEntry, RestoredTables, RestoredScript,
           RestoredTable, RestoredPath, RestoredScore, FramesOf, Made, memVars, pcbVars, schedVars
    <3> QED BY <1>3, <3>1, <3>2 DEF History
  <2>2. CASE Plan /\ Save
    <3>1. /\ phase = "planning" /\ phase' = "loading"
          /\ loader' = [loader EXCEPT !.needs_load = NeedsLoad(loader.scripts)]
          /\ UNCHANGED <<memVars, pcbVars, schedVars>>
      BY <1>3, <2>2 DEF Plan, Return
    <3>2. loader.loaded = {} /\ loader.pcbs = <<>>
      BY <3>1 DEF History
    <3>3. UNCHANGED <<loader.loaded, loader.pcbs>>
      BY <1>0, <3>1 DEF LoaderType
    <3>4. UNCHANGED Restored
      BY <3>1, <3>3 DEF Restored, RestoredFrames, RestoredEntry, RestoredTables, RestoredScript,
           RestoredTable, RestoredPath, RestoredScore, FramesOf, Made, memVars, pcbVars, schedVars
    <3>5. saved' = Image
      BY <2>2, <3>1 DEF Save
    <3> QED BY <3>2, <3>4, <3>5, RestoredAtStart
  <2>3. CASE (LoadNext \/ LoadFails \/ MakePcb \/ MakePcbFails) /\ Save
    <3>1. phase = "loading"
      BY <2>3 DEF LoadNext, LoadFails, MakePcb, MakePcbFails
    <3>2. saved' = saved /\ Restored = saved
      BY <1>3, <2>3, <3>1 DEF Save, History
    <3>3. Restored' = Restored
      <4>1. CASE LoadNext
        BY <4>1, RestoredAfterLoad DEF History
      <4>2. CASE MakePcb
        BY <4>2, RestoredAfterMake DEF History
      <4>3. CASE LoadFails \/ MakePcbFails
        <5>1. frame_table' = frame_table
          <6>1. CASE LoadFails
            <7>1. PICK taken \in SUBSET FreeFrames :
                    frame_table' = [f \in Frames |-> IF f \in taken THEN ClearFrame ELSE frame_table[f]]
              BY <6>1 DEF LoadFails, LoadScriptFails
            <7> QED BY <7>1 DEF ShellInv, MemInv, MemTypeOK, FreeFramesClear
          <6>2. CASE MakePcbFails
            BY <6>2 DEF MakePcbFails, memVars
          <6> QED BY <4>3, <6>1, <6>2
        <5>2. /\ UNCHANGED <<loaded_scripts, script_table, live_pcbs, pcb_script, pcb_table>>
              /\ UNCHANGED <<loader, pcbVars, schedVars>>
          BY <4>3 DEF LoadFails, LoadScriptFails, MakePcbFails, memVars
        <5> QED BY <5>1, <5>2 DEF Restored, RestoredFrames, RestoredEntry, RestoredTables,
              RestoredScript, RestoredTable, RestoredPath, RestoredScore, FramesOf, Made, pcbVars,
              schedVars
      <4> QED BY <2>3, <4>1, <4>2, <4>3
    <3> QED BY <3>2, <3>3
  <2>4. CASE Exited \/ UserNext \/ LineEnds \/ PlanFails \/ Unwind \/ Enqueue \/ Schedule
             \/ Dispatch \/ Idle \/ RunLine \/ PageFault \/ FaultFails \/ PassOver \/ Finish \/ Requeue
    BY <1>3, <2>4 DEF Exited, vars, UserNext, EndOfInput, Prompt, LineEnds, PlanFails, Unwind, Enqueue,
         Schedule, Return, Dispatch, Idle, RunLine, PageFault, FaultFails, PassOver, Finish, Requeue
  <2>5. CASE Parse
    BY <1>3, <2>5 DEF Parse, Interpret
  <2> QED BY <2>1, <2>2, <2>3, <2>4, <2>5 DEF HistoryNext, Next, SystemNext
<1> QED BY <1>1, <1>2, <1>3 DEF History

\* The rollback phase is left by unwinding.
LEMMA RollbackLeft ==
  ASSUME ShellInv, History, [HistoryNext]_historyVars
  PROVE  [phase = "rollback" /\ phase' # "rollback" => Image' = saved]_historyVars
<1> SUFFICES ASSUME HistoryNext, phase = "rollback", phase' # "rollback" PROVE Image' = saved
  BY DEF historyVars
<1>1. Unwind
  BY DEF HistoryNext, Next, SystemNext, Exited, vars, UserNext, EndOfInput, Prompt, Parse, LineEnds,
       PlanFails, Plan, LoadNext, LoadFails, MakePcb, MakePcbFails, Enqueue, Schedule, Dispatch, Idle,
       RunLine, PageFault, FaultFails, PassOver, Finish, SliceEnds, Requeue
<1> QED BY <1>1, Unwound DEF History

\* A request that fails after its admission, at whatever script or PCB and in the
\* middle of whatever line, leaves frames and stamps, page tables, registry and
\* ready queue as if it had never been made.
THEOREM FailedLoadLeavesNoTrace == HistorySpec => RollbackRestores
<1>1. HistorySpec => Spec
  <2>1. [HistoryNext]_historyVars => [Next]_vars
    BY DEF HistoryNext, historyVars
  <2> QED BY <2>1, PTL DEF HistorySpec, HistoryInit, Spec
<1>2. HistoryInit => History
  BY DEF HistoryInit, Init, MemInit, History, FreshScripts, FreshPcbs
<1>3. ShellInv /\ History /\ [HistoryNext]_historyVars
        => [phase = "rollback" /\ phase' # "rollback" => Image' = saved]_historyVars
  BY RollbackLeft
<1> QED
  BY <1>1, <1>2, <1>3, HistoryStep, ShellInvariant, PTL DEF HistorySpec, RollbackRestores

-----------------------------------------------------------------------------
(***************************************************************************)
(* The lines that are run: those that the PC has passed, and the line that *)
(* is being interpreted.                                                   *)
(***************************************************************************)
BeingRun == Interpreting \cup {"exited"}

Passed(q) == IF q = current /\ phase \in BeingRun THEN 0 .. PC[q] ELSE 0 .. PC[q] - 1

\* A line is started in one place only.
LEMMA StartedHere ==
  ASSUME [Next]_vars, StartsLine
  PROVE  RunLine
<1>1. CASE UNCHANGED vars \/ Exited \/ UserNext \/ Parse \/ LineEnds \/ PlanFails \/ Plan \/ LoadNext
           \/ LoadFails \/ MakePcb \/ MakePcbFails \/ Unwind \/ Enqueue \/ Schedule \/ Dispatch \/ Idle
  BY <1>1 DEF StartsLine, vars, Exited, UserNext, EndOfInput, Prompt, Parse, LineEnds, PlanFails,
       Plan, LoadNext, LoadFails, MakePcb, MakePcbFails, Unwind, Enqueue, Schedule, Dispatch, Idle
<1>2. CASE PageFault \/ FaultFails \/ PassOver \/ Finish \/ Requeue
  BY <1>2 DEF StartsLine, PageFault, FaultFails, PassOver, Finish, Requeue
<1> QED BY <1>1, <1>2 DEF Next, SystemNext

\* A process passes a line by running it, or by failing to load it.
LEMMA PassedStep ==
  ASSUME ShellInv, [Next]_vars, NEW q \in live_pcbs \cap live_pcbs'
  PROVE  \/ RunLine /\ q = current /\ Passed(q)' = Passed(q) \cup {PC[q]}
         \/ (FaultFails \/ PassOver) /\ q = current /\ Passed(q) \subseteq Passed(q)'
         \/ Passed(q)' = Passed(q) /\ ~(StartsLine /\ q = current)
<1>0. PC \in [Pids -> Nat] /\ PC[q] \in Nat /\ q \in Pids /\ q # NoPid /\ Control
  BY ProgramAssumption DEF ShellInv, MyshTypeOK, MemInv, MemTypeOK
<1> DEFINE Same == UNCHANGED <<PC, current>> /\ (phase \in BeingRun <=> phase' \in BeingRun)
<1>1. ASSUME Same, ~StartsLine
      PROVE  Passed(q)' = Passed(q) /\ ~(StartsLine /\ q = current)
  BY <1>1 DEF Passed
<1>2. CASE UNCHANGED vars \/ Exited \/ Parse \/ PlanFails \/ Plan \/ LoadNext \/ LoadFails
           \/ MakePcbFails \/ Unwind \/ Enqueue
  <2>1. Same /\ ~StartsLine
    BY <1>2 DEF vars, pcbVars, schedVars, Exited, Parse, Interpret, PlanFails, Plan, Return, LoadNext,
         LoadFails, MakePcbFails, Unwind, Enqueue, BeingRun, Interpreting, StartsLine
  <2> QED BY <1>1, <2>1
<1>3. CASE PageFault
  <2>1. Same /\ ~StartsLine
    BY <1>3 DEF PageFault, pcbVars, schedVars, BeingRun, Interpreting, StartsLine
  <2> QED BY <1>1, <2>1
<1>4. CASE UserNext \/ Schedule \/ Idle \/ (LineEnds /\ current = NoPid)
  <2>1. CASE current = NoPid
    <3>1. UNCHANGED <<PC, current>>
      BY <1>4, <2>1 DEF UserNext, EndOfInput, Prompt, Schedule, Idle, LineEnds, pcbVars, schedVars
    <3> QED BY <1>0, <2>1, <3>1 DEF Passed
  <2>2. CASE current # NoPid
    <3>1. Schedule /\ active # "none"
      BY <1>0, <1>4, <2>2 DEF UserNext, EndOfInput, Prompt, Idle, Control
    <3>2. Same /\ ~StartsLine
      BY <3>1 DEF Schedule, Return, pcbVars, BeingRun, Interpreting, StartsLine
    <3> QED BY <1>1, <3>2
  <2> QED BY <2>1, <2>2
<1>5. CASE Dispatch
  <2>1. phase = "dispatch" /\ phase' = "slice" /\ UNCHANGED PC
    BY <1>5 DEF Dispatch, pcbVars
  <2> QED BY <2>1 DEF Passed, BeingRun, Interpreting, StartsLine
<1>6. CASE Finish \/ Requeue
  <2>1. phase \in {"slice", "yield"} /\ phase' = "dispatch" /\ PC'[q] = PC[q]
    BY <1>0, <1>6 DEF Finish, Requeue, SliceEnds, UnregisterPcb, DropPcbs
  <2> QED BY <2>1 DEF Passed, BeingRun, Interpreting, StartsLine
<1>7. CASE LineEnds /\ current # NoPid
  <2>1. /\ phase = "parse" /\ phase' = "slice" /\ UNCHANGED current
        /\ PC' = [PC EXCEPT ![current] = @ + 1]
    BY <1>7 DEF LineEnds, LineDone
  <2>2. CASE q = current
    <3>1. Passed(q) = 0 .. PC[q] /\ Passed(q)' = 0 .. PC[q] + 1 - 1
      BY <1>0, <2>1, <2>2 DEF Passed, BeingRun, Interpreting
    <3> QED BY <1>0, <2>1, <3>1 DEF StartsLine
  <2>3. CASE q # current
    BY <1>0, <2>1, <2>3 DEF Passed
  <2> QED BY <2>2, <2>3
<1>8. CASE RunLine
  <2>1. phase = "slice" /\ phase' = "parse" /\ UNCHANGED <<PC, current>>
    BY <1>8 DEF RunLine, pcbVars, schedVars
  <2>2. CASE q = current
    <3>1. Passed(q) = 0 .. PC[q] - 1 /\ Passed(q)' = 0 .. PC[q]
      BY <2>1, <2>2 DEF Passed, BeingRun, Interpreting
    <3>2. 0 .. PC[q] = (0 .. PC[q] - 1) \cup {PC[q]}
      BY <1>0
    <3> QED BY <1>8, <2>2, <3>1, <3>2
  <2>3. CASE q # current
    BY <2>1, <2>3 DEF Passed
  <2> QED BY <2>2, <2>3
<1>9. CASE FaultFails \/ PassOver
  <2>1. /\ phase = "slice" /\ phase' = "slice" /\ UNCHANGED current
        /\ PC' = [PC EXCEPT ![current] = @ + 1]
    BY <1>9 DEF FaultFails, PassOver, LineDone
  <2>2. CASE q = current
    <3>1. Passed(q) = 0 .. PC[q] - 1 /\ Passed(q)' = 0 .. PC[q] + 1 - 1
      BY <1>0, <2>1, <2>2 DEF Passed, BeingRun, Interpreting
    <3> QED BY <1>0, <1>9, <2>2, <3>1
  <2>3. CASE q # current
    BY <1>0, <2>1, <2>3 DEF Passed, StartsLine
  <2> QED BY <2>2, <2>3
<1>10. CASE MakePcb
  <2>1. /\ PC' = [PC EXCEPT ![pid_counter + 1] = 0] /\ pid_counter + 1 \notin live_pcbs
        /\ UNCHANGED current /\ phase = "loading" /\ phase' \in {"loading", "queueing"}
    BY <1>10 DEF MakePcb, RegisterPcb, schedVars
  <2>2. PC'[q] = PC[q]
    BY <1>0, <2>1
  <2> QED BY <2>1, <2>2 DEF Passed, BeingRun, Interpreting, StartsLine
<1> QED
  BY <1>2, <1>3, <1>4, <1>5, <1>6, <1>7, <1>8, <1>9, <1>10 DEF Next, SystemNext

\* A new process has passed none.
LEMMA PassedNone ==
  ASSUME ShellInv, [Next]_vars, NEW q \in live_pcbs' \ live_pcbs
  PROVE  Passed(q)' = {} /\ ~StartsLine /\ q \in Pids
<1>1. MakePcb /\ PC'[q] = 0
  BY NewProcess
<1>2. q \in Pids /\ q \notin live_pcbs
  BY MemLater DEF MemInv, MemTypeOK
<1>3. current' = current /\ phase = "loading"
  BY <1>1 DEF MakePcb, schedVars
<1>4. q # current
  BY <1>2, ProgramAssumption DEF ShellInv, Accounted, Popped
<1> QED BY <1>1, <1>2, <1>3, <1>4 DEF Passed, StartsLine


\* What is recorded of a process are lines of its script that it has passed, or all
\* of them.
RanInv ==
  /\ ran \in [Pids -> SUBSET Nat]
  /\ \A q \in Pids \ live_pcbs : ran[q] = {}
  /\ \A q \in live_pcbs : ran[q] \subseteq Passed(q) /\ ran[q] \subseteq 0 .. JobTime[q] - 1

LEMMA RecordedLine ==
  ASSUME ShellInv, RanInv, [Next]_vars, Record, NEW q \in live_pcbs \cap live_pcbs'
  PROVE  ran'[q] = IF StartsLine /\ q = current THEN ran[q] \cup {PC[q]} ELSE ran[q]
<1>1. q \in Pids
  BY DEF ShellInv, MemInv, MemTypeOK
<1> QED BY <1>1 DEF Record

LEMMA RanStep ==
  ASSUME ShellInv, RanInv, [RunNext]_runVars
  PROVE  RanInv'
<1>1. CASE UNCHANGED runVars
  <2>1. UNCHANGED <<ran, live_pcbs, PC, current, phase, pcb_script>>
    BY <1>1 DEF runVars, vars, memVars, pcbVars, schedVars
  <2> QED BY <2>1 DEF RanInv, Passed, JobTime
<1>2. CASE Next /\ Record
  <2>0. [Next]_vars /\ PC \in [Pids -> Nat] /\ live_pcbs' \subseteq Pids
    BY <1>2, MemLater DEF ShellInv, MyshTypeOK, MemInv, MemTypeOK
  <2>1. \A q \in Pids \ live_pcbs' : ran'[q] = {}
    BY <1>2 DEF Record
  <2>2. \A q \in Pids : ran[q] \in SUBSET Nat /\ PC[q] \in Nat
    BY <2>0 DEF RanInv
  <2>3. ran' \in [Pids -> SUBSET Nat]
    BY <1>2, <2>2 DEF Record
  <2>4. ASSUME NEW q \in live_pcbs' \ live_pcbs
        PROVE  ran'[q] \subseteq Passed(q)' /\ ran'[q] \subseteq 0 .. JobTime'[q] - 1
    <3>1. Passed(q)' = {} /\ ~StartsLine /\ q \in Pids
      BY <2>0, PassedNone
    <3>2. ran[q] = {}
      BY <3>1 DEF RanInv
    <3>3. ran'[q] = {}
      BY <1>2, <3>1, <3>2 DEF Record
    <3> QED BY <3>3
  <2>5. ASSUME NEW q \in live_pcbs' \cap live_pcbs
        PROVE  ran'[q] \subseteq Passed(q)' /\ ran'[q] \subseteq 0 .. JobTime'[q] - 1
    <3>1. JobTime'[q] = JobTime[q]
      BY <2>0, JobTimesKept
    <3>2. ran'[q] = IF StartsLine /\ q = current THEN ran[q] \cup {PC[q]} ELSE ran[q]
      BY <1>2, <2>0, RecordedLine
    <3>3. ran[q] \subseteq Passed(q) /\ ran[q] \subseteq 0 .. JobTime[q] - 1
      BY DEF RanInv
    <3>4. CASE StartsLine /\ q = current
      <4>1. RunLine
        BY <2>0, <3>4, StartedHere
      <4>2. Passed(q)' = Passed(q) \cup {PC[q]}
        BY <2>0, <3>4, <4>1, PassedStep DEF RunLine, FaultFails, PassOver, StartsLine
      <4>3. PC[q] \in 0 .. JobTime[q] - 1
        <5>1. PC[q] \in Nat /\ JobTime[q] \in Nat
          BY <2>2, JobTimeType DEF ShellInv, MemInv, MemTypeOK
        <5> QED BY <3>4, <4>1, <5>1 DEF RunLine, SliceOver
      <4> QED BY <3>1, <3>2, <3>3, <3>4, <4>2, <4>3
    <3>5. CASE ~(StartsLine /\ q = current)
      <4>1. Passed(q) \subseteq Passed(q)'
        BY <2>0, PassedStep
      <4> QED BY <3>1, <3>2, <3>3, <3>5, <4>1
    <3> QED BY <3>4, <3>5
  <2> QED BY <2>1, <2>3, <2>4, <2>5 DEF RanInv
<1> QED BY <1>1, <1>2 DEF RunNext

LEMMA RunStepInShell == [RunNext]_runVars => [Next]_vars
  BY DEF RunNext, runVars

LEMMA RanInvariant == RunSpec => [](ShellInv /\ RanInv)
<1>1. RunInit => ShellInv /\ RanInv
  BY StartInv DEF RunInit, RanInv, Init, MemInit
<1>2. ShellInv /\ RanInv /\ [RunNext]_runVars => (ShellInv /\ RanInv)'
  BY RunStepInShell, ShellStep, RanStep
<1> QED BY <1>1, <1>2, PTL DEF RunSpec

\* Nothing that happens to a program, be it page faults that fail, turns in the
\* queue, or loads in the middle of a line, makes it run a line twice.
THEOREM NoLineIsRunTwice == RunSpec => NoLineTwice
<1>1. ShellInv /\ RanInv /\ [RunNext]_runVars => [StartsLine => PC[current] \notin ran[current]]_runVars
  <2> SUFFICES ASSUME ShellInv, RanInv, [RunNext]_runVars, StartsLine
               PROVE  PC[current] \notin ran[current]
    OBVIOUS
  <2>1. RunLine
    BY RunStepInShell, StartedHere
  <2>2. current \in live_pcbs /\ current \in Pids /\ PC[current] \in Nat
    BY <2>1 DEF RunLine, Fetch, ShellInv, MyshTypeOK, MemInv, MemTypeOK
  <2>3. ran[current] \subseteq 0 .. PC[current] - 1
    BY <2>1, <2>2 DEF RanInv, Passed, RunLine, BeingRun, Interpreting
  <2> QED BY <2>2, <2>3
<1> QED BY <1>1, RanInvariant, PTL DEF RunSpec, NoLineTwice


LEMMA RecordingShell == RunSpec => Spec
<1>1. RunInit => Init
  BY DEF RunInit
<1> QED BY <1>1, RunStepInShell, PTL DEF RunSpec, Spec

\* All lines passed have been run.
AllRan == \A q \in live_pcbs : Passed(q) \subseteq ran[q]

LEMMA AllRanStep ==
  ASSUME ~IOFails, ShellInv, HomeInv, CopiesInv, RanInv, AllRan, [RunNext]_runVars
  PROVE  AllRan'
<1>1. CASE UNCHANGED runVars
  <2>1. UNCHANGED <<ran, live_pcbs, PC, current, phase>>
    BY <1>1 DEF runVars, vars, memVars, pcbVars, schedVars
  <2> QED BY <2>1 DEF AllRan, Passed
<1>2. CASE Next /\ Record
  <2>1. ASSUME NEW q \in live_pcbs' \ live_pcbs
        PROVE  Passed(q)' = {}
    BY <1>2, PassedNone
  <2>2. ASSUME NEW q \in live_pcbs' \cap live_pcbs
        PROVE  Passed(q)' \subseteq ran'[q]
    <3>1. ran'[q] = IF StartsLine /\ q = current THEN ran[q] \cup {PC[q]} ELSE ran[q]
      BY <1>2, RecordedLine
    <3>2. Passed(q) \subseteq ran[q]
      BY DEF AllRan
    <3>3. ~((FaultFails \/ PassOver) /\ q = current)
      BY DEF FaultFails, PassOver, HomeInv, CopiesInv
    <3>4. RunLine => StartsLine
      BY DEF RunLine, StartsLine
    <3>5. \/ RunLine /\ q = current /\ Passed(q)' = Passed(q) \cup {PC[q]}
          \/ Passed(q)' = Passed(q)
      BY <1>2, <3>3, PassedStep
    <3> QED BY <3>1, <3>2, <3>4, <3>5
  <2> QED BY <2>1, <2>2 DEF AllRan
<1> QED BY <1>1, <1>2 DEF RunNext

\* A program that ends has run each of its lines, under the conditions that the
\* code does not see to: nothing fails, backing_store can be reached, and the
\* script was not asked for before.
THEOREM EveryLineIsRun ==
  ~IOFails /\ AllStayHome => (RunSpec /\ []Fresh => RunsEveryLine)
<1> SUFFICES ASSUME ~IOFails, AllStayHome
             PROVE  RunSpec /\ []Fresh => RunsEveryLine
  OBVIOUS
<1>1. RunInit => AllRan
  BY DEF RunInit, Init, MemInit, AllRan
<1>2. ShellInv /\ HomeInv /\ CopiesInv /\ RanInv /\ AllRan /\ [RunNext]_runVars => AllRan'
  BY AllRanStep
<1>3. ShellInv /\ RanInv /\ AllRan /\ [RunNext]_runVars
        => [\A q \in live_pcbs \ live_pcbs' :
              phase # "rollback" => ran[q] = 0 .. LineCount[pcb_script[q]] - 1]_runVars
  <2> SUFFICES ASSUME ShellInv, RanInv, AllRan, [RunNext]_runVars,
                      NEW q \in live_pcbs \ live_pcbs', phase # "rollback"
               PROVE  ran[q] = 0 .. LineCount[pcb_script[q]] - 1
    OBVIOUS
  <2>1. Finish
    <3>1. [Next]_vars
      BY RunStepInShell
    <3>2. CASE UNCHANGED vars \/ Exited \/ UserNext \/ Parse \/ LineEnds \/ PlanFails \/ Plan
               \/ MakePcbFails \/ Enqueue \/ Schedule \/ Dispatch \/ Idle \/ PassOver \/ Requeue
      BY <3>2 DEF vars, memVars, Exited, UserNext, EndOfInput, Prompt, Parse, LineEnds, PlanFails,
           Plan, MakePcbFails, Enqueue, Schedule, Dispatch, Idle, PassOver, Requeue
    <3>3. CASE LoadNext \/ LoadFails \/ MakePcb \/ Unwind \/ RunLine \/ PageFault \/ FaultFails
      BY <3>3 DEF LoadNext, LoadScript, LoadFails, LoadScriptFails, MakePcb, RegisterPcb, Unwind,
           RunLine, Fetch, PageFault, DemandLoad, FaultFails, DemandLoadFails
    <3> QED BY <3>1, <3>2, <3>3 DEF Next, SystemNext
  <2>2. q = current /\ phase \in {"slice", "yield"} /\ PC[q] >= JobTime[q]
    BY <2>1 DEF Finish, SliceEnds, UnregisterPcb, DropPcbs
  <2>3. /\ q \in Pids /\ PC[q] \in Nat
        /\ pcb_script[q] \in Scripts /\ JobTime[q] = LineCount[pcb_script[q]]
    BY ScriptsAssumption DEF ShellInv, MyshTypeOK, MemInv, MemTypeOK, TablesAgree, JobTime
  <2>4. LineCount[pcb_script[q]] \in Nat
    BY <2>3, ScriptsAssumption
  <2>5. 0 .. PC[q] - 1 \subseteq ran[q]
    BY <2>2 DEF AllRan, Passed, BeingRun, Interpreting
  <2>6. 0 .. LineCount[pcb_script[q]] - 1 \subseteq 0 .. PC[q] - 1
    BY <2>2, <2>3, <2>4
  <2> QED BY <2>3, <2>5, <2>6 DEF RanInv
<1> QED
  BY <1>1, <1>2, <1>3, RanInvariant, RecordingShell, HomeInvariant, CopiesInvariant, PTL
     DEF RunSpec, RunsEveryLine

-----------------------------------------------------------------------------
(***************************************************************************)
(* The guards of the memory's operations never hold the shell up: what     *)
(* ShellMemory asks of its callers, the loader and the loops see to.       *)
(***************************************************************************)

LEMMA DivBound ==
  ASSUME NEW n \in Nat, NEW m \in Nat, NEW k \in Nat \ {0}, n < m
  PROVE  n \div k \in 0 .. ((m + k - 1) \div k) - 1
<1>1. PICK a \in Nat : a = n \div k /\ a * k <= n
  BY Z3
<1>2. (a + 1) * k = a * k + k
  BY Z3
<1>3. (a + 1) * k <= m + k - 1
  BY <1>1, <1>2
<1>4. PICK b \in Nat : b = (m + k - 1) \div k /\ m + k - 1 < (b + 1) * k
  BY Z3
<1>5. a + 1 < b + 1
  <2>1. (a + 1) * k < (b + 1) * k
    <3>1. (a + 1) * k \in Nat /\ (b + 1) * k \in Nat
      BY <1>1, <1>4
    <3> QED BY <1>3, <1>4, <3>1
  <2> QED BY <2>1, <1>1, <1>4, Z3
<1> QED BY <1>1, <1>4, <1>5

\* A process that has lines left stands on a page of its script.
LEMMA PageInScript ==
  ASSUME ShellInv, phase = "slice", ~SliceOver
  PROVE  CurrentPage \in Pages(pcb_script[current])
<1>1. current \in live_pcbs /\ current \in Pids
  BY DEF ShellInv, Control, Accounted, Popped, MemInv, MemTypeOK
<1>2. /\ PC[current] \in Nat /\ pcb_script[current] \in Scripts
      /\ JobTime[current] = LineCount[pcb_script[current]]
  BY <1>1, ScriptsAssumption DEF ShellInv, MyshTypeOK, MemInv, MemTypeOK, TablesAgree, JobTime
<1>3. LineCount[pcb_script[current]] \in Nat /\ PC[current] < LineCount[pcb_script[current]]
  BY <1>2, ScriptsAssumption DEF SliceOver
<1> QED BY <1>2, <1>3, DivBound, SizesAssumption DEF CurrentPage, Pages, NumPages

\* The scripts of a request are loaded, or one of its places is going to load them.
LEMMA FirstPlace ==
  ASSUME ShellInv, NEW i \in DOMAIN loader.scripts, loader.scripts[i] \notin loaded_scripts
  PROVE  \E j \in NeedsLoad(loader.scripts) : loader.scripts[j] = loader.scripts[i]
<1>1. i \in Nat /\ DOMAIN loader.scripts \subseteq Nat /\ \A j \in 1 .. i : j \in DOMAIN loader.scripts
  BY LoaderFields DEF LoaderType, Requests
<1> DEFINE same == {j \in DOMAIN loader.scripts : loader.scripts[j] = loader.scripts[i]}
<1>2. same \in SUBSET Nat /\ same # {}
  BY <1>1
<1>3. PICK j \in same : \A k \in same : j <= k
  BY <1>2, LeastNat
<1>4. \A k \in 1 .. j - 1 : loader.scripts[k] # loader.scripts[j]
  <2> SUFFICES ASSUME NEW k \in 1 .. j - 1, loader.scripts[k] = loader.scripts[j]
               PROVE  FALSE
    OBVIOUS
  <2>1. j \in Nat /\ j <= i /\ k \in Nat /\ k < j /\ 1 <= k
    BY <1>1, <1>3
  <2>2. k \in 1 .. i
    BY <1>1, <2>1
  <2>3. k \in same
    BY <1>1, <1>3, <2>2
  <2> QED BY <1>3, <2>1, <2>3
<1> QED BY <1>3, <1>4 DEF NeedsLoad

LoaderInv ==
  /\ phase = "planning" => loader.loaded = {}
  /\ phase \in {"loading", "rollback"} =>
       /\ loader.loaded \subseteq loaded_scripts
       /\ \A q \in live_pcbs \ Made : pcb_script[q] \notin loader.loaded
  /\ phase = "loading" =>
       /\ \A i \in ToLoad : loader.scripts[i] \notin loaded_scripts
       /\ \A i \in DOMAIN loader.scripts :
            \/ loader.scripts[i] \in loaded_scripts
            \/ \E j \in ToLoad : loader.scripts[j] = loader.scripts[i]
  /\ \A q \in live_pcbs : q <= pid_counter

LEMMA LoaderInvStep ==
  ASSUME ShellInv, LoaderInv, [Next]_vars
  PROVE  LoaderInv'
<1>0. loader \in LoaderType /\ pid_counter \in Nat /\ live_pcbs \subseteq Nat
  BY LoaderFields, PidsAssumption DEF ShellInv, MyshTypeOK, MemInv, MemTypeOK
<1>1. CASE UNCHANGED vars \/ Exited
  BY <1>1 DEF LoaderInv, ToLoad, Made, vars, memVars, Exited
<1>2. CASE Parse
  <2>1. PICK cmd : Interpret(cmd)
    BY <1>2 DEF Parse
  <2>2. phase' = "planning" => loader'.loaded = {}
    BY <1>2, <2>1 DEF Parse, Interpret, Loader
  <2>3. phase' \in {"parse", "planning", "exited"} /\ UNCHANGED <<live_pcbs, pid_counter>>
    BY <1>2, <2>1 DEF Parse, Interpret, memVars
  <2> QED BY <2>2, <2>3 DEF LoaderInv
<1>3. CASE Plan
  <2>1. /\ phase = "planning" /\ UNCHANGED <<loaded_scripts, live_pcbs, pcb_script, pid_counter>>
        /\ \/ phase' = "parse"
           \/ /\ phase' = "loading"
              /\ loader' = [loader EXCEPT !.needs_load = NeedsLoad(loader.scripts)]
    BY <1>3 DEF Plan, Return, memVars
  <2>2. CASE phase' = "parse"
    BY <2>1, <2>2 DEF LoaderInv
  <2>3. CASE phase' = "loading"
    <3>1. /\ loader'.needs_load = NeedsLoad(loader.scripts) /\ loader'.scripts = loader.scripts
          /\ loader'.loaded = {}
      BY <1>0, <2>1, <2>3 DEF LoaderInv, LoaderType
    <3>2. ToLoad' = NeedsLoad(loader.scripts)
      BY <3>1 DEF ToLoad
    <3>3. \A i \in ToLoad' : loader'.scripts[i] \notin loaded_scripts'
      BY <2>1, <3>1, <3>2 DEF NeedsLoad
    <3>4. \A i \in DOMAIN loader'.scripts :
            \/ loader'.scripts[i] \in loaded_scripts'
            \/ \E j \in ToLoad' : loader'.scripts[j] = loader'.scripts[i]
      BY <2>1, <3>1, <3>2, FirstPlace
    <3> QED BY <2>1, <2>3, <3>1, <3>3, <3>4 DEF LoaderInv
  <2> QED BY <2>1, <2>2, <2>3
<1>4. CASE LoadNext
  <2>1. PICK i \in ToLoad :
          /\ LoadScript(loader.scripts[i])
          /\ loader' = [loader EXCEPT !.loaded = @ \cup {loader.scripts[i]}]
    BY <1>4 DEF LoadNext
  <2> DEFINE s == loader.scripts[i]
  <2>2. /\ s \notin loaded_scripts /\ loaded_scripts' = loaded_scripts \cup {s}
        /\ phase = "loading" /\ phase' = "loading"
        /\ UNCHANGED <<live_pcbs, pcb_script, pid_counter>>
    BY <1>4, <2>1 DEF LoadScript, LoadNext
  <2>3. /\ loader'.loaded = loader.loaded \cup {s} /\ loader'.scripts = loader.scripts
        /\ loader'.needs_load = loader.needs_load /\ loader'.pcbs = loader.pcbs
    BY <1>0, <2>1 DEF LoaderType
  <2> HIDE DEF s
  <2>4. Made' = Made /\ ToLoad' = {j \in ToLoad : loader.scripts[j] # s}
    BY <2>3 DEF Made, ToLoad
  <2>5. \A q \in live_pcbs : pcb_script[q] # s
    BY <2>2 DEF ShellInv, MemInv, TablesAgree
  <2>6. \A j \in ToLoad' : loader'.scripts[j] \notin loaded_scripts'
    BY <2>2, <2>3, <2>4 DEF LoaderInv
  <2>7. \A j \in DOMAIN loader'.scripts :
          \/ loader'.scripts[j] \in loaded_scripts'
          \/ \E k \in ToLoad' : loader'.scripts[k] = loader'.scripts[j]
    BY <2>2, <2>3, <2>4 DEF LoaderInv
  <2> QED BY <2>2, <2>3, <2>4, <2>5, <2>6, <2>7 DEF LoaderInv
<1>5. CASE LoadFails \/ MakePcbFails
  <2>1. /\ phase = "loading" /\ phase' = "rollback"
        /\ UNCHANGED <<loader, loaded_scripts, live_pcbs, pcb_script>>
        /\ pid_counter' \in {pid_counter, pid_counter + 1}
    BY <1>5 DEF LoadFails, LoadScriptFails, MakePcbFails, memVars
  <2> QED BY <1>0, <2>1 DEF LoaderInv, Made
<1>6. CASE MakePcb
  <2> DEFINE p == pid_counter + 1
  <2>1. PICK s :
          /\ live_pcbs' = live_pcbs \cup {p} /\ p \in Pids \ live_pcbs /\ pid_counter' = p
          /\ pcb_script' = [pcb_script EXCEPT ![p] = s]
          /\ UNCHANGED loaded_scripts
          /\ loader' = [loader EXCEPT !.pcbs = Append(@, p)]
          /\ phase = "loading" /\ phase' \in {"loading", "queueing"}
    BY <1>6 DEF MakePcb, RegisterPcb
  <2>2. /\ loader'.loaded = loader.loaded /\ loader'.scripts = loader.scripts
        /\ loader'.needs_load = loader.needs_load /\ loader'.pcbs = Append(loader.pcbs, p)
    BY <1>0, <2>1 DEF LoaderType
  <2>3. Made \subseteq Made' /\ p \in Made'
    <3>1. loader.pcbs \in Seq(Pids)
      BY <1>0 DEF LoaderType
    <3>2. /\ Len(loader.pcbs) \in Nat /\ DOMAIN loader.pcbs = 1 .. Len(loader.pcbs)
          /\ DOMAIN loader'.pcbs = 1 .. Len(loader.pcbs) + 1
          /\ \A j \in 1 .. Len(loader.pcbs) : loader'.pcbs[j] = loader.pcbs[j]
          /\ loader'.pcbs[Len(loader.pcbs) + 1] = p
      BY <2>1, <2>2, <3>1, AppendProperties, LenProperties
    <3> HIDE DEF p
    <3>3. \A j \in DOMAIN loader.pcbs : j \in DOMAIN loader'.pcbs /\ loader'.pcbs[j] = loader.pcbs[j]
      BY <3>2
    <3>4. Len(loader.pcbs) + 1 \in DOMAIN loader'.pcbs
      BY <3>2
    <3> QED BY <3>2, <3>3, <3>4 DEF Made, ToSet
  <2>4. \A q \in live_pcbs : pcb_script'[q] = pcb_script[q]
    BY <2>1 DEF ShellInv, MemInv, MemTypeOK
  <2>5. ToLoad' = ToLoad
    BY <2>2 DEF ToLoad
  <2>6. \A q \in live_pcbs' : q <= pid_counter'
    BY <1>0, <2>1 DEF LoaderInv
  <2> HIDE DEF p
  <2> QED BY <2>1, <2>2, <2>3, <2>4, <2>5, <2>6 DEF LoaderInv
<1>7. CASE Unwind \/ Finish
  <2>1. live_pcbs' \subseteq live_pcbs /\ UNCHANGED pid_counter /\ phase' \in {"parse", "dispatch"}
    BY <1>7 DEF Unwind, Rollback, Finish, UnregisterPcb, DropPcbs, Return
  <2> QED BY <2>1 DEF LoaderInv
<1>8. CASE UserNext \/ LineEnds \/ PlanFails \/ Enqueue \/ Schedule \/ Dispatch \/ Idle \/ RunLine
           \/ PageFault \/ FaultFails \/ PassOver \/ Requeue
  <2>1. UNCHANGED <<live_pcbs, pid_counter>> /\ phase' \notin {"planning", "loading", "rollback"}
    BY <1>8 DEF UserNext, EndOfInput, Prompt, LineEnds, PlanFails, Return, Enqueue, Schedule,
         Dispatch, Idle, RunLine, Fetch, PageFault, DemandLoad, FaultFails, DemandLoadFails, PassOver,
         Requeue, memVars
  <2> QED BY <2>1 DEF LoaderInv
<1> QED BY <1>1, <1>2, <1>3, <1>4, <1>5, <1>6, <1>7, <1>8 DEF Next, SystemNext

\* Neither a scheduling loop nor the loader, on any of its paths, asks the memory for
\* what its operations do not allow: no guard of theirs ever blocks the shell.
THEOREM GuardsNeverBlock == Spec => []CallsAreLegal
<1>1. Init => LoaderInv
  BY DEF Init, MemInit, LoaderInv
<1>2. ShellInv /\ LoaderInv /\ [Next]_vars => LoaderInv'
  BY LoaderInvStep
<1>3. ShellInv /\ LoaderInv => CallsAreLegal
  <2> SUFFICES ASSUME ShellInv, LoaderInv
               PROVE  CallsAreLegal
    OBVIOUS
  <2>1. phase = "slice" /\ ~SliceOver => CurrentPage \in Pages(pcb_script[current])
    BY PageInScript
  <2>2. ASSUME phase = "loading"
        PROVE  /\ \A i \in ToLoad : loader.scripts[i] \notin loaded_scripts
               /\ ToLoad = {} => ToSet(loader.scripts) \subseteq loaded_scripts
               /\ pid_counter + 1 \notin live_pcbs
    <3>1. pid_counter + 1 \notin live_pcbs
      BY DEF LoaderInv, ShellInv, MyshTypeOK
    <3> QED BY <2>2, <3>1 DEF LoaderInv, ToSet
  <2>3. ASSUME phase = "rollback"
        PROVE  /\ loader.loaded \subseteq loaded_scripts
               /\ \A q \in live_pcbs : pcb_script[q] \in loader.loaded => q \in ToSet(loader.pcbs)
    BY <2>3 DEF LoaderInv, Made
  <2> QED BY <2>1, <2>2, <2>3 DEF CallsAreLegal
<1> QED BY <1>1, <1>2, <1>3, ShellInvariant, PTL DEF Spec
=============================================================================
