------------------------- MODULE ShellMemoryProofs -------------------------
(***************************************************************************)
(* Machine-checked proofs about ShellMemory, for every store size, every   *)
(* set of scripts and any number of processes: the inductive invariant     *)
(* first, then the users of the frames, then the cache.                    *)
(***************************************************************************)
EXTENDS UseHistory, ReadyQueueProofs, FiniteSetTheorems, FunctionTheorems, TLAPS

MemInv ==
  /\ MemTypeOK
  /\ TablesAgree
  /\ NoDanglingEntry
  /\ NoOrphanFrame
  /\ FreeFramesClear
  /\ UsersSound
  /\ StampsDistinct
-----------------------------------------------------------------------------
LEMMA NumPagesType == \A s \in Scripts : NumPages(s) \in Nat
  BY ScriptsAssumption, SizesAssumption DEF NumPages

LEMMA PagesType ==
  /\ AllPages \subseteq Nat
  /\ \A s \in Scripts : Pages(s) \subseteq AllPages
  BY NumPagesType DEF AllPages, Pages

\* mem_load_initial_pages brings in pages 0 .. k-1 for some k at most 2.
LEMMA InitialPagesInterval ==
  ASSUME NEW s \in Scripts
  PROVE  /\ InitialPages(s) \subseteq Pages(s)
         /\ Cardinality(InitialPages(s)) \in Nat
         /\ \A p \in InitialPages(s) : p \in Nat /\ p < Cardinality(InitialPages(s))
<1>1. PICK k \in Nat : InitialPages(s) = 0 .. k - 1
  <2>1. NumPages(s) \in Nat
    BY NumPagesType
  <2>2. CASE LineCount[s] >= PAGE_SIZE
    <3>1. InitialPages(s) = 0 .. (IF NumPages(s) < 2 THEN NumPages(s) ELSE 2) - 1
      BY <2>1, <2>2 DEF InitialPages, Pages
    <3> QED BY <2>1, <3>1
  <2>3. CASE ~(LineCount[s] >= PAGE_SIZE)
    <3>1. InitialPages(s) = 0 .. (IF NumPages(s) < 1 THEN NumPages(s) ELSE 1) - 1
      BY <2>1, <2>3 DEF InitialPages, Pages
    <3> QED BY <2>1, <3>1
  <2> QED BY <2>2, <2>3
<1>2. Cardinality(InitialPages(s)) = k
  BY <1>1, FS_Interval
<1>3. InitialPages(s) \subseteq Pages(s)
  BY DEF InitialPages
<1> QED
  BY <1>1, <1>2, <1>3

\* Entries that agree on their fields are equal.
LEMMA EntryExtensionality ==
  ASSUME NEW d \in FrameEntry, NEW e \in FrameEntry,
         d.occupied = e.occupied, d.script = e.script, d.page = e.page,
         d.last_used = e.last_used, d.using = e.using
  PROVE  d = e
  BY DEF FrameEntry

LEMMA ClearFrameType ==
  /\ ClearFrame \in FrameEntry
  /\ ~ClearFrame.occupied
  /\ ClearFrame.using = {}
  BY DEF ClearFrame, FrameEntry

\* A page that is loaded into a clean frame has no users yet.
LEMMA FilledClearFrame ==
  ASSUME NEW s \in Scripts, NEW p \in AllPages, NEW stamp \in Nat
  PROVE  /\ FilledFrame(ClearFrame, s, p, stamp) \in FrameEntry
         /\ FilledFrame(ClearFrame, s, p, stamp).occupied
         /\ FilledFrame(ClearFrame, s, p, stamp).script = s
         /\ FilledFrame(ClearFrame, s, p, stamp).page = p
         /\ FilledFrame(ClearFrame, s, p, stamp).last_used = stamp
         /\ FilledFrame(ClearFrame, s, p, stamp).using = {}
  BY ClearFrameType DEF FilledFrame, FrameEntry

LEMMA InitInv == MemInit => MemInv
<1> SUFFICES ASSUME MemInit PROVE MemInv
  OBVIOUS
<1>1. MemTypeOK
  BY ClearFrameType DEF MemInit, MemTypeOK, PageTable, EmptyTable
<1>2. TablesAgree /\ NoDanglingEntry
  BY DEF MemInit, TablesAgree, NoDanglingEntry
<1>3. NoOrphanFrame /\ FreeFramesClear /\ UsersSound /\ StampsDistinct
  BY ClearFrameType DEF MemInit, NoOrphanFrame, FreeFramesClear, FreeFrames, UsersSound,
                        StampsDistinct, Mapping
<1> QED BY <1>1, <1>2, <1>3 DEF MemInv
\* Registering users keeps the users there are and adds none but the new ones.
LEMMA RegisteredBounds ==
  ASSUME NEW using, NEW new
  PROVE  using \subseteq Registered(using, new) /\ Registered(using, new) \subseteq using \cup new
  BY DEF Registered
-----------------------------------------------------------------------------
\* Loading a script fills as many free frames as it has initial pages, with
\* stamps in page order, and leaves the other frames alone.
LEMMA LoadScriptFrames ==
  ASSUME MemInv, NEW s \in Scripts, LoadScript(s)
  PROVE  \E at \in [InitialPages(s) -> FreeFrames] :
           /\ \A o, p \in InitialPages(s) : at[o] = at[p] => o = p
           /\ \A p \in InitialPages(s) :
                LET e == frame_table'[at[p]]
                IN  /\ e \in FrameEntry /\ e.occupied /\ e.script = s /\ e.page = p
                    /\ e.last_used = clock_value + p /\ e.using = {}
           /\ \A f \in Frames :
                (\A p \in InitialPages(s) : at[p] # f) => frame_table'[f] = frame_table[f]
           /\ frame_table' = [f \in Frames |-> frame_table'[f]]
           /\ script_table' = [script_table EXCEPT ![s] =
                [p \in AllPages |-> IF p \in InitialPages(s) THEN at[p] ELSE NoFrame]]
<1> USE DEF MemInv
<1> DEFINE I == InitialPages(s)
<1>0. /\ I \subseteq Pages(s) /\ I \subseteq AllPages /\ I \subseteq Nat
      /\ Cardinality(I) \in Nat /\ \A p \in I : p < Cardinality(I)
  BY InitialPagesInterval, PagesType
<1>1. PICK at \in [I -> FreeFrames] :
        /\ \A p \in I : IsLowest(at[p], FreeFrames \ {at[o] : o \in {r \in I : r < p}})
        /\ frame_table' = [f \in Frames |->
             IF \E p \in I : at[p] = f
             THEN LET p == CHOOSE r \in I : at[r] = f
                  IN  FilledFrame(frame_table[f], s, p, clock_value + p)
             ELSE frame_table[f]]
        /\ script_table' = [script_table EXCEPT ![s] =
             [p \in AllPages |-> IF p \in I THEN at[p] ELSE NoFrame]]
  BY DEF LoadScript
<1> HIDE DEF I
<1>2. \A o, p \in I : at[o] = at[p] => o = p
  <2> SUFFICES ASSUME NEW o \in I, NEW p \in I, o < p
               PROVE  at[o] # at[p]
    BY <1>0
  <2> QED BY <1>1 DEF IsLowest
<1>3. \A p \in I : at[p] \in Frames /\ ~frame_table[at[p]].occupied
  BY <1>1 DEF FreeFrames
<1>4. \A p \in I : LET e == frame_table'[at[p]]
                  IN  /\ e \in FrameEntry /\ e.occupied /\ e.script = s /\ e.page = p
                      /\ e.last_used = clock_value + p /\ e.using = {}
  <2> SUFFICES ASSUME NEW p \in I
               PROVE  LET e == frame_table'[at[p]]
                      IN  /\ e \in FrameEntry /\ e.occupied /\ e.script = s /\ e.page = p
                          /\ e.last_used = clock_value + p /\ e.using = {}
    OBVIOUS
  <2>1. frame_table'[at[p]] = FilledFrame(frame_table[at[p]], s, p, clock_value + p)
    BY <1>1, <1>2, <1>3
  <2>2. p \in AllPages /\ clock_value + p \in Nat
    BY <1>0 DEF MemTypeOK
  <2>3. frame_table[at[p]] = ClearFrame
    BY <1>1 DEF FreeFramesClear
  <2> QED BY <2>1, <2>2, <2>3, FilledClearFrame
<1>5. \A f \in Frames : (\A p \in I : at[p] # f) => frame_table'[f] = frame_table[f]
  BY <1>1
<1>6. frame_table' = [f \in Frames |-> frame_table'[f]]
  BY <1>1
<1> QED BY <1>1, <1>2, <1>4, <1>5, <1>6 DEF I

LEMMA LoadScriptInv ==
  ASSUME MemInv, NEW s \in Scripts, LoadScript(s)
  PROVE  MemInv'
<1> USE DEF MemInv
<1> DEFINE I == InitialPages(s)
<1>0. /\ I \subseteq Pages(s) /\ I \subseteq AllPages /\ I \subseteq Nat
      /\ Cardinality(I) \in Nat /\ \A p \in I : p < Cardinality(I)
  BY InitialPagesInterval, PagesType
<1>1. PICK at \in [I -> FreeFrames] :
        /\ \A o, p \in I : at[o] = at[p] => o = p
        /\ \A p \in I : LET e == frame_table'[at[p]]
                        IN  /\ e \in FrameEntry /\ e.occupied /\ e.script = s /\ e.page = p
                            /\ e.last_used = clock_value + p /\ e.using = {}
        /\ \A f \in Frames : (\A p \in I : at[p] # f) => frame_table'[f] = frame_table[f]
        /\ frame_table' = [f \in Frames |-> frame_table'[f]]
        /\ script_table' = [script_table EXCEPT ![s] =
             [p \in AllPages |-> IF p \in I THEN at[p] ELSE NoFrame]]
  BY LoadScriptFrames
<1> HIDE DEF I
<1>3. \A p \in I : at[p] \in Frames /\ ~frame_table[at[p]].occupied
  BY <1>1 DEF FreeFrames
<1>4. \A p \in I : LET e == frame_table'[at[p]]
                  IN  /\ e \in FrameEntry /\ e.occupied /\ e.script = s /\ e.page = p
                      /\ e.last_used = clock_value + p /\ e.using = {}
  BY <1>1
<1>5. \A f \in Frames : (\A p \in I : at[p] # f) => frame_table'[f] = frame_table[f]
  BY <1>1
<1>6. /\ s \notin loaded_scripts
      /\ loaded_scripts' = loaded_scripts \cup {s}
      /\ clock_value' = clock_value + Cardinality(I)
      /\ UNCHANGED <<live_pcbs, pcb_script, pcb_table>>
  BY DEF LoadScript, I
<1>7. /\ script_table'[s] = [p \in AllPages |-> IF p \in I THEN at[p] ELSE NoFrame]
      /\ \A r \in Scripts : r # s => script_table'[r] = script_table[r]
  BY <1>1 DEF MemTypeOK
<1>10. MemTypeOK'
  <2>1. frame_table' \in [Frames -> FrameEntry]
    <3> SUFFICES ASSUME NEW f \in Frames PROVE frame_table'[f] \in FrameEntry
      BY <1>1
    <3>1. CASE \E p \in I : at[p] = f
      BY <3>1, <1>0, <1>4 DEF MemTypeOK
    <3>2. CASE \A p \in I : at[p] # f
      BY <3>2, <1>5 DEF MemTypeOK
    <3> QED BY <3>1, <3>2
  <2>2. script_table' \in [Scripts -> PageTable]
    BY <1>1, <1>3 DEF MemTypeOK, PageTable
  <2> QED BY <2>1, <2>2, <1>0, <1>6 DEF MemTypeOK
<1>11. TablesAgree'
  BY <1>6, <1>7 DEF TablesAgree, MemTypeOK
<1>12. NoDanglingEntry'
  <2> SUFFICES ASSUME NEW r \in loaded_scripts', NEW p \in AllPages, script_table'[r][p] # NoFrame
               PROVE  LET e == frame_table'[script_table'[r][p]]
                      IN  e.occupied /\ e.script = r /\ e.page = p
    BY DEF NoDanglingEntry
  <2>1. CASE r = s
    BY <2>1, <1>7, <1>4
  <2>2. CASE r # s
    <3>1. r \in loaded_scripts /\ r \in Scripts /\ script_table'[r][p] = script_table[r][p]
      BY <2>2, <1>6, <1>7 DEF MemTypeOK
    <3>2. script_table[r][p] \in Frames
      BY <3>1 DEF MemTypeOK, PageTable
    <3>3. frame_table[script_table[r][p]].occupied
      BY <3>1 DEF NoDanglingEntry
    <3>4. frame_table'[script_table[r][p]] = frame_table[script_table[r][p]]
      BY <3>2, <3>3, <1>3, <1>5
    <3> QED BY <3>1, <3>4 DEF NoDanglingEntry
  <2> QED BY <2>1, <2>2
<1>13. NoOrphanFrame'
  <2> SUFFICES ASSUME NEW f \in Frames, frame_table'[f].occupied
               PROVE  /\ frame_table'[f].script \in loaded_scripts'
                      /\ frame_table'[f].page \in Pages(frame_table'[f].script)
                      /\ script_table'[frame_table'[f].script][frame_table'[f].page] = f
    BY DEF NoOrphanFrame
  <2>1. CASE \E p \in I : at[p] = f
    BY <2>1, <1>0, <1>4, <1>6, <1>7
  <2>2. CASE \A p \in I : at[p] # f
    <3>1. frame_table'[f] = frame_table[f]
      BY <2>2, <1>5
    <3>2. /\ frame_table[f].script \in loaded_scripts
          /\ frame_table[f].page \in Pages(frame_table[f].script)
          /\ script_table[frame_table[f].script][frame_table[f].page] = f
      BY <3>1 DEF NoOrphanFrame
    <3> QED BY <3>1, <3>2, <1>6, <1>7 DEF MemTypeOK
  <2> QED BY <2>1, <2>2
<1>14. UsersSound'
  <2> SUFFICES ASSUME NEW f \in Frames
               PROVE  frame_table'[f].using \subseteq Mapping(f)'
    BY DEF UsersSound
  <2>1. Mapping(f)' = Mapping(f)
    BY <1>6 DEF Mapping
  <2>2. CASE \E p \in I : at[p] = f
    BY <2>2, <1>4
  <2>3. CASE \A p \in I : at[p] # f
    BY <2>1, <2>3, <1>5 DEF UsersSound
  <2> QED BY <2>2, <2>3
<1>15. StampsDistinct'
  <2>1. \A f \in Frames : frame_table'[f].occupied =>
           \/ frame_table[f].occupied /\ frame_table'[f] = frame_table[f]
           \/ \E p \in I : at[p] = f /\ frame_table'[f].last_used = clock_value + p
    BY <1>4, <1>5
  <2>2. clock_value \in Nat /\ clock_value' = clock_value + Cardinality(I)
    BY <1>6 DEF MemTypeOK
  <2>3. \A f \in Frames : frame_table[f].last_used \in Nat
    BY DEF MemTypeOK, FrameEntry
  <2> SUFFICES ASSUME NEW f \in Frames, NEW g \in Frames, frame_table'[f].occupied
               PROVE  /\ frame_table'[f].last_used < clock_value'
                      /\ frame_table'[g].occupied /\ f # g =>
                           frame_table'[f].last_used # frame_table'[g].last_used
    BY DEF StampsDistinct
  <2>4. frame_table'[f].last_used < clock_value'
    BY <1>0, <2>1, <2>2, <2>3 DEF StampsDistinct
  <2>5. ASSUME frame_table'[g].occupied, f # g
        PROVE  frame_table'[f].last_used # frame_table'[g].last_used
    BY <2>5, <1>0, <2>1, <2>2, <2>3 DEF StampsDistinct
  <2> QED BY <2>4, <2>5
<1>16. FreeFramesClear'
  BY <1>4, <1>5 DEF FreeFramesClear, FreeFrames
<1> QED BY <1>10, <1>11, <1>12, <1>13, <1>14, <1>15, <1>16

LEMMA LoadScriptFailsInv ==
  ASSUME MemInv, NEW s \in Scripts, LoadScriptFails(s)
  PROVE  MemInv'
<1>1. PICK taken \in SUBSET FreeFrames :
        /\ frame_table' = [f \in Frames |-> IF f \in taken THEN ClearFrame ELSE frame_table[f]]
        /\ clock_value' = clock_value + Cardinality(taken)
  BY DEF LoadScriptFails
<1>2. frame_table' = frame_table
  BY <1>1 DEF MemInv, MemTypeOK, FreeFramesClear
<1>3. UNCHANGED <<loaded_scripts, script_table, live_pcbs, pcb_script, pcb_table>>
  BY DEF LoadScriptFails
<1>3a. clock_value \in Nat /\ clock_value' \in Nat /\ clock_value <= clock_value'
  <2>1. IsFiniteSet(Frames)
    BY FS_Interval, SizesAssumption DEF Frames
  <2>2. Cardinality(taken) \in Nat
    BY <2>1, FS_Subset, FS_CardinalityType DEF FreeFrames
  <2> QED BY <1>1, <2>2 DEF MemInv, MemTypeOK
<1>4. MemTypeOK'
  BY <1>2, <1>3, <1>3a DEF MemInv, MemTypeOK
<1>5. TablesAgree' /\ NoDanglingEntry' /\ NoOrphanFrame' /\ FreeFramesClear' /\ UsersSound'
  BY <1>2, <1>3 DEF MemInv, TablesAgree, NoDanglingEntry, NoOrphanFrame, FreeFramesClear,
                    FreeFrames, UsersSound, Mapping
<1>6. StampsDistinct'
  <2>1. \A f \in Frames : frame_table[f].last_used \in Nat
    BY DEF MemInv, MemTypeOK, FrameEntry
  <2> QED BY <1>2, <1>3, <1>3a, <2>1 DEF MemInv, StampsDistinct
<1> QED BY <1>4, <1>5, <1>6 DEF MemInv
-----------------------------------------------------------------------------
\* A step that writes nothing in the frames but the lists of users.
OnlyUsersChange ==
  \A f \in Frames :
    /\ frame_table'[f].occupied = frame_table[f].occupied
    /\ frame_table'[f].script = frame_table[f].script
    /\ frame_table'[f].page = frame_table[f].page
    /\ frame_table'[f].last_used = frame_table[f].last_used

\* A free frame has no users, and no process maps it.
LEMMA FreeFrameUnused ==
  ASSUME MemInv, NEW f \in FreeFrames
  PROVE  /\ frame_table[f].using = {}
         /\ \A s \in loaded_scripts, p \in AllPages : script_table[s][p] # f
<1>1. frame_table[f].using = {}
  BY DEF MemInv, FreeFramesClear, ClearFrame
<1>2. \A s \in loaded_scripts, p \in AllPages : script_table[s][p] # f
  BY DEF MemInv, NoDanglingEntry, FreeFrames, Frames, NoFrame
<1> QED BY <1>1, <1>2

\* Such a step keeps what frames, canonical tables and stamps say of each other.
LEMMA OnlyUsersChangeInv ==
  ASSUME MemInv, OnlyUsersChange,
         UNCHANGED <<loaded_scripts, script_table, clock_value>>,
         \A f \in Frames : frame_table'[f] \in FrameEntry,
         \A f \in FreeFrames : frame_table'[f].using = {}
  PROVE  NoDanglingEntry' /\ NoOrphanFrame' /\ FreeFramesClear' /\ StampsDistinct'
<1>1. NoDanglingEntry'
  <2> SUFFICES ASSUME NEW s \in loaded_scripts, NEW p \in AllPages, script_table[s][p] # NoFrame
               PROVE  LET e == frame_table'[script_table[s][p]]
                      IN  e.occupied /\ e.script = s /\ e.page = p
    BY DEF NoDanglingEntry
  <2>1. script_table[s][p] \in Frames
    BY DEF MemInv, MemTypeOK, PageTable
  <2> QED BY <2>1 DEF MemInv, NoDanglingEntry, OnlyUsersChange
<1>2. NoOrphanFrame'
  BY DEF MemInv, NoOrphanFrame, OnlyUsersChange
<1>3. StampsDistinct'
  BY DEF MemInv, StampsDistinct, OnlyUsersChange
<1>4. FreeFramesClear'
  <2> SUFFICES ASSUME NEW f \in FreeFrames' PROVE frame_table'[f] = ClearFrame
    BY DEF FreeFramesClear
  <2>1. f \in FreeFrames
    BY DEF FreeFrames, OnlyUsersChange
  <2>2. frame_table[f] = ClearFrame
    BY <2>1 DEF MemInv, FreeFramesClear
  <2> QED BY <2>1, <2>2, ClearFrameType, EntryExtensionality DEF OnlyUsersChange, FreeFrames
<1> QED BY <1>1, <1>2, <1>3, <1>4

LEMMA RegisterPcbInv ==
  ASSUME MemInv, NEW q \in Pids, NEW s \in Scripts, RegisterPcb(q, s)
  PROVE  MemInv'
<1>1. /\ q \notin live_pcbs /\ s \in loaded_scripts
      /\ live_pcbs' = live_pcbs \cup {q}
      /\ pcb_script' = [pcb_script EXCEPT ![q] = s]
      /\ pcb_table' = [pcb_table EXCEPT ![q] = script_table[s]]
      /\ UNCHANGED <<loaded_scripts, script_table, clock_value>>
  BY DEF RegisterPcb
<1>2. \A f \in Frames :
        \/ frame_table'[f] = frame_table[f]
        \/ /\ \E p \in AllPages : script_table[s][p] = f
           /\ frame_table'[f] = [frame_table[f] EXCEPT !.using = Registered(@, {q})]
  BY DEF RegisterPcb
<1>3. \A f \in Frames : frame_table[f] \in FrameEntry
  BY DEF MemInv, MemTypeOK
<1>4. \A f \in Frames :
        /\ frame_table'[f] \in FrameEntry
        /\ frame_table'[f].using \subseteq frame_table[f].using \cup
             {r \in {q} : \E p \in AllPages : script_table[s][p] = f}
  <2> SUFFICES ASSUME NEW f \in Frames
               PROVE  /\ frame_table'[f] \in FrameEntry
                      /\ frame_table'[f].using \subseteq frame_table[f].using \cup
                           {r \in {q} : \E p \in AllPages : script_table[s][p] = f}
    OBVIOUS
  <2>1. CASE frame_table'[f] = frame_table[f]
    BY <1>3, <2>1
  <2>2. CASE /\ \E p \in AllPages : script_table[s][p] = f
             /\ frame_table'[f] = [frame_table[f] EXCEPT !.using = Registered(@, {q})]
    <3>1. frame_table'[f].using = Registered(frame_table[f].using, {q})
      BY <1>3, <2>2 DEF FrameEntry
    <3>2. frame_table'[f].using \subseteq frame_table[f].using \cup {q}
      BY <3>1, RegisteredBounds
    <3>3. frame_table'[f] \in FrameEntry
      BY <1>3, <2>2, <3>1, <3>2 DEF FrameEntry
    <3> QED BY <2>2, <3>2, <3>3
  <2> QED BY <1>2, <2>1, <2>2
<1>5. OnlyUsersChange
  <2> SUFFICES ASSUME NEW f \in Frames
               PROVE  /\ frame_table'[f].occupied = frame_table[f].occupied
                      /\ frame_table'[f].script = frame_table[f].script
                      /\ frame_table'[f].page = frame_table[f].page
                      /\ frame_table'[f].last_used = frame_table[f].last_used
    BY DEF OnlyUsersChange
  <2> QED BY <1>2, <1>3 DEF FrameEntry
<1>5a. \A f \in FreeFrames : frame_table'[f].using = {}
  <2> SUFFICES ASSUME NEW f \in FreeFrames PROVE frame_table'[f].using = {}
    OBVIOUS
  <2>1. f \in Frames /\ ~(\E p \in AllPages : script_table[s][p] = f) /\ frame_table[f].using = {}
    BY <1>1, FreeFrameUnused DEF FreeFrames
  <2> QED BY <1>2, <2>1
<1>6. MemTypeOK'
  <2>1. frame_table' \in [Frames -> FrameEntry]
    BY <1>4 DEF RegisterPcb
  <2> QED BY <1>1, <2>1 DEF MemInv, MemTypeOK
<1>7. TablesAgree'
  BY <1>1 DEF MemInv, TablesAgree, MemTypeOK
<1>8. UsersSound'
  <2> SUFFICES ASSUME NEW f \in Frames, NEW r \in frame_table'[f].using
               PROVE  r \in live_pcbs' /\ \E p \in AllPages : pcb_table'[r][p] = f
    BY DEF UsersSound, Mapping
  <2>1. CASE r \in frame_table[f].using
    <3>1. r \in live_pcbs /\ \E p \in AllPages : pcb_table[r][p] = f
      BY <2>1 DEF MemInv, UsersSound, Mapping
    <3> QED BY <1>1, <3>1 DEF MemInv, MemTypeOK
  <2>2. CASE r = q /\ \E p \in AllPages : script_table[s][p] = f
    BY <1>1, <2>2 DEF MemInv, MemTypeOK
  <2> QED BY <1>4, <2>1, <2>2
<1> QED
  BY <1>1, <1>4, <1>5, <1>5a, <1>6, <1>7, <1>8, OnlyUsersChangeInv DEF MemInv
-----------------------------------------------------------------------------
\* Freeing processes removes them from the users of the frames they map, and
\* touches nothing else in the frames.
LEMMA WithoutPcbsFields ==
  ASSUME NEW ft \in [Frames -> FrameEntry], NEW Q, NEW f \in Frames
  PROVE  /\ WithoutPcbs(ft, Q)[f] \in FrameEntry
         /\ WithoutPcbs(ft, Q)[f].occupied = ft[f].occupied
         /\ WithoutPcbs(ft, Q)[f].script = ft[f].script
         /\ WithoutPcbs(ft, Q)[f].page = ft[f].page
         /\ WithoutPcbs(ft, Q)[f].last_used = ft[f].last_used
         /\ WithoutPcbs(ft, Q)[f].using =
              ft[f].using \ {q \in Q : \E p \in AllPages : pcb_table[q][p] = f}
<1> DEFINE gone == {q \in Q : \E p \in AllPages : pcb_table[q][p] = f}
<1>1. WithoutPcbs(ft, Q)[f] = [ft[f] EXCEPT !.using = ft[f].using \ gone]
  BY DEF WithoutPcbs
<1>2. ft[f] \in FrameEntry
  OBVIOUS
<1> HIDE DEF gone
<1>3. /\ WithoutPcbs(ft, Q)[f] \in FrameEntry
      /\ WithoutPcbs(ft, Q)[f].occupied = ft[f].occupied
      /\ WithoutPcbs(ft, Q)[f].script = ft[f].script
      /\ WithoutPcbs(ft, Q)[f].page = ft[f].page
      /\ WithoutPcbs(ft, Q)[f].last_used = ft[f].last_used
      /\ WithoutPcbs(ft, Q)[f].using = ft[f].using \ gone
  BY <1>1, <1>2 DEF FrameEntry
<1> QED BY <1>3 DEF gone

\* What freeing the processes Q leaves of the registry and of their tables.
LEMMA DropPcbsInv ==
  ASSUME MemInv, NEW Q \in SUBSET live_pcbs, DropPcbs(Q),
         \A f \in Frames : frame_table'[f].using \subseteq
           frame_table[f].using \ {q \in Q : \E p \in AllPages : pcb_table[q][p] = f}
  PROVE  /\ live_pcbs' = live_pcbs \ Q
         /\ pcb_script' \in [Pids -> Scripts \cup {NoScript}]
         /\ pcb_table' \in [Pids -> PageTable]
         /\ \A q \in live_pcbs' : pcb_script'[q] = pcb_script[q] /\ pcb_table'[q] = pcb_table[q]
         /\ UsersSound'
<1>1. /\ live_pcbs' = live_pcbs \ Q
      /\ pcb_script' = [q \in Pids |-> IF q \in Q THEN NoScript ELSE pcb_script[q]]
      /\ pcb_table' = [q \in Pids |-> IF q \in Q THEN EmptyTable ELSE pcb_table[q]]
  BY DEF DropPcbs
<1>2. pcb_script' \in [Pids -> Scripts \cup {NoScript}]
  BY <1>1 DEF MemInv, MemTypeOK
<1>3. pcb_table' \in [Pids -> PageTable]
  BY <1>1 DEF MemInv, MemTypeOK, PageTable, EmptyTable
<1>4. \A q \in live_pcbs' : pcb_script'[q] = pcb_script[q] /\ pcb_table'[q] = pcb_table[q]
  BY <1>1 DEF MemInv, MemTypeOK
<1>5. UsersSound'
  <2> SUFFICES ASSUME NEW f \in Frames, NEW r \in frame_table'[f].using
               PROVE  r \in live_pcbs' /\ \E p \in AllPages : pcb_table'[r][p] = f
    BY DEF UsersSound, Mapping
  <2>1. r \in live_pcbs /\ \E p \in AllPages : pcb_table[r][p] = f
    BY DEF MemInv, UsersSound, Mapping
  <2>2. r \notin Q
    BY <2>1
  <2> QED BY <1>1, <1>4, <2>1, <2>2
<1> QED BY <1>1, <1>2, <1>3, <1>4, <1>5

LEMMA UnregisterPcbInv ==
  ASSUME MemInv, NEW q \in Pids, UnregisterPcb(q)
  PROVE  MemInv'
<1>1. /\ q \in live_pcbs
      /\ frame_table' = WithoutPcbs(frame_table, {q})
      /\ DropPcbs({q})
      /\ UNCHANGED <<loaded_scripts, script_table, clock_value>>
  BY DEF UnregisterPcb
<1>2. frame_table \in [Frames -> FrameEntry]
  BY DEF MemInv, MemTypeOK
<1>3. OnlyUsersChange
  BY <1>1, <1>2, WithoutPcbsFields DEF OnlyUsersChange
<1>4. \A f \in Frames : frame_table'[f].using \subseteq
        frame_table[f].using \ {r \in {q} : \E p \in AllPages : pcb_table[r][p] = f}
  BY <1>1, <1>2, WithoutPcbsFields
<1>4a. \A f \in FreeFrames : frame_table'[f].using = {}
  BY <1>4, FreeFrameUnused DEF FreeFrames
<1>4b. \A f \in Frames : frame_table'[f] \in FrameEntry
  BY <1>1, <1>2, WithoutPcbsFields
<1>5. /\ live_pcbs' = live_pcbs \ {q}
      /\ pcb_script' \in [Pids -> Scripts \cup {NoScript}]
      /\ pcb_table' \in [Pids -> PageTable]
      /\ \A r \in live_pcbs' : pcb_script'[r] = pcb_script[r] /\ pcb_table'[r] = pcb_table[r]
      /\ UsersSound'
  BY <1>1, <1>4, DropPcbsInv
<1>6. MemTypeOK'
  <2>1. frame_table' \in [Frames -> FrameEntry]
    BY <1>1, <1>2, WithoutPcbsFields DEF WithoutPcbs
  <2> QED BY <1>1, <1>5, <2>1 DEF MemInv, MemTypeOK
<1>7. TablesAgree'
  BY <1>1, <1>5 DEF MemInv, TablesAgree
<1> QED
  BY <1>1, <1>3, <1>4a, <1>4b, <1>5, <1>6, <1>7, OnlyUsersChangeInv DEF MemInv

\* The frames of the scripts S.
FramesOf(S) == {f \in Frames : \E s \in S, p \in AllPages : script_table[s][p] = f}

LEMMA RollbackFrames ==
  ASSUME MemInv, NEW S \in SUBSET loaded_scripts, NEW Q \in SUBSET live_pcbs, Rollback(S, Q)
  PROVE  /\ frame_table' \in [Frames -> FrameEntry]
         /\ \A f \in FramesOf(S) : frame_table'[f] = ClearFrame
         /\ \A f \in Frames \ FramesOf(S) :
              /\ frame_table'[f].occupied = frame_table[f].occupied
              /\ frame_table'[f].script = frame_table[f].script
              /\ frame_table'[f].page = frame_table[f].page
              /\ frame_table'[f].last_used = frame_table[f].last_used
         /\ \A f \in Frames : frame_table'[f].using \subseteq
              frame_table[f].using \ {r \in Q : \E p \in AllPages : pcb_table[r][p] = f}
<1> DEFINE cleared == [f \in Frames |-> IF f \in FramesOf(S) THEN ClearFrame ELSE frame_table[f]]
<1>1. frame_table' = WithoutPcbs(cleared, Q)
  BY DEF Rollback, WithoutPcbs, FramesOf
<1>2. cleared \in [Frames -> FrameEntry]
  BY DEF MemInv, MemTypeOK, ClearFrame, FrameEntry
<1>3. /\ \A f \in FramesOf(S) : f \in Frames /\ cleared[f] = ClearFrame
      /\ \A f \in Frames \ FramesOf(S) : cleared[f] = frame_table[f]
  BY DEF FramesOf
<1> HIDE DEF cleared
<1>4. frame_table' \in [Frames -> FrameEntry]
  BY <1>1, <1>2, WithoutPcbsFields DEF WithoutPcbs
<1>5. \A f \in FramesOf(S) : frame_table'[f] = ClearFrame
  <2> SUFFICES ASSUME NEW f \in FramesOf(S) PROVE frame_table'[f] = ClearFrame
    OBVIOUS
  <2>1. /\ frame_table'[f].occupied = cleared[f].occupied
        /\ frame_table'[f].script = cleared[f].script
        /\ frame_table'[f].page = cleared[f].page
        /\ frame_table'[f].last_used = cleared[f].last_used
        /\ frame_table'[f].using \subseteq cleared[f].using
    BY <1>1, <1>2, <1>3, WithoutPcbsFields
  <2>2. frame_table'[f] \in FrameEntry /\ cleared[f] = ClearFrame
    BY <1>3, <1>4
  <2>3. frame_table'[f].using = ClearFrame.using
    BY <2>1, <2>2, ClearFrameType
  <2> QED BY <2>1, <2>2, <2>3, ClearFrameType, EntryExtensionality
<1>6. \A f \in Frames \ FramesOf(S) :
        /\ frame_table'[f].occupied = frame_table[f].occupied
        /\ frame_table'[f].script = frame_table[f].script
        /\ frame_table'[f].page = frame_table[f].page
        /\ frame_table'[f].last_used = frame_table[f].last_used
  BY <1>1, <1>2, <1>3, WithoutPcbsFields
<1>7. \A f \in Frames : frame_table'[f].using \subseteq
        frame_table[f].using \ {r \in Q : \E p \in AllPages : pcb_table[r][p] = f}
  BY <1>1, <1>2, <1>3, WithoutPcbsFields DEF ClearFrame
<1> QED BY <1>4, <1>5, <1>6, <1>7

LEMMA RollbackInv ==
  ASSUME MemInv, NEW S \in SUBSET loaded_scripts, NEW Q \in SUBSET live_pcbs, Rollback(S, Q)
  PROVE  MemInv'
<1> DEFINE freed == FramesOf(S)
<1>1. /\ \A q \in live_pcbs \ Q : pcb_script[q] \notin S
      /\ loaded_scripts' = loaded_scripts \ S
      /\ script_table' = [s \in Scripts |-> IF s \in S THEN EmptyTable ELSE script_table[s]]
      /\ DropPcbs(Q)
      /\ UNCHANGED clock_value
  BY DEF Rollback
<1>4. \A f \in freed : frame_table'[f] = ClearFrame
  BY RollbackFrames
<1>5. \A f \in freed : f \in Frames /\ \E s \in S, p \in AllPages : script_table[s][p] = f
  BY DEF FramesOf
<1>6. \A f \in Frames : (\E s \in S, p \in AllPages : script_table[s][p] = f) => f \in freed
  BY DEF FramesOf
<1>3. frame_table' \in [Frames -> FrameEntry]
  BY RollbackFrames
<1>8. \A f \in Frames : frame_table'[f].using \subseteq
        frame_table[f].using \ {r \in Q : \E p \in AllPages : pcb_table[r][p] = f}
  BY RollbackFrames
<1>7. \A f \in Frames :
        /\ frame_table'[f].occupied => f \notin freed
        /\ f \notin freed => /\ frame_table'[f].occupied = frame_table[f].occupied
                            /\ frame_table'[f].script = frame_table[f].script
                            /\ frame_table'[f].page = frame_table[f].page
                            /\ frame_table'[f].last_used = frame_table[f].last_used
  BY <1>4, RollbackFrames DEF ClearFrame
<1> HIDE DEF freed
<1>9. /\ live_pcbs' = live_pcbs \ Q
      /\ pcb_script' \in [Pids -> Scripts \cup {NoScript}]
      /\ pcb_table' \in [Pids -> PageTable]
      /\ \A r \in live_pcbs' : pcb_script'[r] = pcb_script[r] /\ pcb_table'[r] = pcb_table[r]
      /\ UsersSound'
  BY <1>1, <1>8, DropPcbsInv
<1>10. MemTypeOK'
  <2>1. frame_table' \in [Frames -> FrameEntry]
    BY <1>3
  <2>2. script_table' \in [Scripts -> PageTable]
    BY <1>1 DEF MemInv, MemTypeOK, PageTable, EmptyTable
  <2> QED BY <1>1, <1>9, <2>1, <2>2 DEF MemInv, MemTypeOK
<1>11. TablesAgree'
  BY <1>1, <1>9 DEF MemInv, TablesAgree, MemTypeOK
<1>12. NoDanglingEntry'
  <2> SUFFICES ASSUME NEW s \in loaded_scripts', NEW p \in AllPages, script_table'[s][p] # NoFrame
               PROVE  LET e == frame_table'[script_table'[s][p]]
                      IN  e.occupied /\ e.script = s /\ e.page = p
    BY DEF NoDanglingEntry
  <2>1. s \in loaded_scripts /\ s \in Scripts /\ s \notin S /\ script_table'[s] = script_table[s]
    BY <1>1 DEF MemInv, MemTypeOK
  <2>2. script_table[s][p] \in Frames
    BY <2>1 DEF MemInv, MemTypeOK, PageTable
  <2>3. LET e == frame_table[script_table[s][p]]
        IN  e.occupied /\ e.script = s /\ e.page = p
    BY <2>1 DEF MemInv, NoDanglingEntry
  <2>4. script_table[s][p] \notin freed
    <3> SUFFICES ASSUME NEW o \in S, NEW r \in AllPages, script_table[o][r] = script_table[s][p]
                 PROVE  FALSE
      BY <1>5
    <3>1. frame_table[script_table[o][r]].script = o
      BY <2>1 DEF MemInv, NoDanglingEntry
    <3> QED BY <3>1, <2>1, <2>3
  <2> QED BY <1>7, <2>1, <2>2, <2>3, <2>4
<1>13. NoOrphanFrame'
  <2> SUFFICES ASSUME NEW f \in Frames, frame_table'[f].occupied
               PROVE  /\ frame_table'[f].script \in loaded_scripts'
                      /\ frame_table'[f].page \in Pages(frame_table'[f].script)
                      /\ script_table'[frame_table'[f].script][frame_table'[f].page] = f
    BY DEF NoOrphanFrame
  <2>1. /\ frame_table[f].occupied /\ f \notin freed
        /\ frame_table'[f].script = frame_table[f].script
        /\ frame_table'[f].page = frame_table[f].page
    BY <1>7
  <2>2. /\ frame_table[f].script \in loaded_scripts
        /\ frame_table[f].page \in Pages(frame_table[f].script)
        /\ script_table[frame_table[f].script][frame_table[f].page] = f
    BY <2>1 DEF MemInv, NoOrphanFrame
  <2>3. frame_table[f].script \in Scripts /\ frame_table[f].page \in AllPages
    BY <2>2, PagesType DEF MemInv, MemTypeOK
  <2>4. frame_table[f].script \notin S
    BY <1>6, <2>1, <2>2, <2>3
  <2> QED BY <1>1, <2>1, <2>2, <2>3, <2>4
<1>14. StampsDistinct'
  BY <1>1, <1>7 DEF MemInv, StampsDistinct
<1>15. FreeFramesClear'
  <2> SUFFICES ASSUME NEW f \in FreeFrames' PROVE frame_table'[f] = ClearFrame
    BY DEF FreeFramesClear
  <2>1. f \in Frames
    BY DEF FreeFrames
  <2>2. CASE f \in freed
    BY <1>4, <2>2
  <2>3. CASE f \notin freed
    <3>1. frame_table[f] = ClearFrame /\ frame_table'[f] \in FrameEntry
      BY <1>3, <1>7, <2>1, <2>3 DEF FreeFrames, MemInv, FreeFramesClear
    <3>2. frame_table'[f].using = ClearFrame.using
      BY <1>8, <2>1, <3>1, ClearFrameType
    <3> QED BY <1>7, <2>1, <2>3, <3>1, <3>2, ClearFrameType, EntryExtensionality
  <2> QED BY <2>2, <2>3
<1> QED
  BY <1>9, <1>10, <1>11, <1>12, <1>13, <1>14, <1>15 DEF MemInv
-----------------------------------------------------------------------------
\* A fetch stamps the frame of the line, which is occupied, and nothing else.
LEMMA FetchFrame ==
  ASSUME MemInv, NEW q \in Pids, NEW p \in AllPages, Fetch(q, p)
  PROVE  LET h == pcb_table[q][p] IN
         /\ h \in Frames /\ frame_table[h].occupied
         /\ frame_table' = [frame_table EXCEPT ![h].last_used = clock_value]
         /\ clock_value' = clock_value + 1
         /\ UNCHANGED <<loaded_scripts, script_table, live_pcbs, pcb_script, pcb_table>>
         /\ \A f \in Frames :
              /\ frame_table'[f] \in FrameEntry
              /\ frame_table'[f].occupied = frame_table[f].occupied
              /\ frame_table'[f].script = frame_table[f].script
              /\ frame_table'[f].page = frame_table[f].page
              /\ frame_table'[f].using = frame_table[f].using
              /\ frame_table'[f].last_used = IF f = h THEN clock_value ELSE frame_table[f].last_used
<1> DEFINE h == pcb_table[q][p]
<1>1. h \in Frames
  BY DEF Fetch, MemInv, MemTypeOK, PageTable
<1>2. frame_table[h].occupied
  BY DEF Fetch, MemInv, TablesAgree, NoDanglingEntry
<1>3. /\ frame_table' = [frame_table EXCEPT ![h].last_used = clock_value]
      /\ clock_value' = clock_value + 1
      /\ UNCHANGED <<loaded_scripts, script_table, live_pcbs, pcb_script, pcb_table>>
  BY <1>2 DEF Fetch
<1> HIDE DEF h
<1>4. \A f \in Frames :
        /\ frame_table'[f] \in FrameEntry
        /\ frame_table'[f].occupied = frame_table[f].occupied
        /\ frame_table'[f].script = frame_table[f].script
        /\ frame_table'[f].page = frame_table[f].page
        /\ frame_table'[f].using = frame_table[f].using
        /\ frame_table'[f].last_used = IF f = h THEN clock_value ELSE frame_table[f].last_used
  <2> SUFFICES ASSUME NEW f \in Frames
               PROVE  /\ frame_table'[f] \in FrameEntry
                      /\ frame_table'[f].occupied = frame_table[f].occupied
                      /\ frame_table'[f].script = frame_table[f].script
                      /\ frame_table'[f].page = frame_table[f].page
                      /\ frame_table'[f].using = frame_table[f].using
                      /\ frame_table'[f].last_used = IF f = h THEN clock_value ELSE frame_table[f].last_used
    OBVIOUS
  <2>1. frame_table \in [Frames -> FrameEntry] /\ clock_value \in Nat
    BY DEF MemInv, MemTypeOK
  <2>2. CASE f = h
    BY <1>1, <1>3, <2>1, <2>2 DEF FrameEntry
  <2>3. CASE f # h
    BY <1>1, <1>3, <2>1, <2>3 DEF FrameEntry
  <2> QED BY <2>2, <2>3
<1> QED BY <1>1, <1>2, <1>3, <1>4 DEF h

LEMMA FetchInv ==
  ASSUME MemInv, NEW q \in Pids, NEW p \in AllPages, Fetch(q, p)
  PROVE  MemInv'
<1> DEFINE h == pcb_table[q][p]
<1>0. /\ h \in Frames /\ frame_table[h].occupied
      /\ frame_table' = [frame_table EXCEPT ![h].last_used = clock_value]
      /\ clock_value' = clock_value + 1
      /\ UNCHANGED <<loaded_scripts, script_table, live_pcbs, pcb_script, pcb_table>>
      /\ \A f \in Frames :
           /\ frame_table'[f] \in FrameEntry
           /\ frame_table'[f].occupied = frame_table[f].occupied
           /\ frame_table'[f].script = frame_table[f].script
           /\ frame_table'[f].page = frame_table[f].page
           /\ frame_table'[f].using = frame_table[f].using
           /\ frame_table'[f].last_used = IF f = h THEN clock_value ELSE frame_table[f].last_used
  BY FetchFrame
<1> HIDE DEF h
<1>1. h \in Frames /\ frame_table[h].occupied
  BY <1>0
<1>3. /\ clock_value' = clock_value + 1
      /\ UNCHANGED <<loaded_scripts, script_table, live_pcbs, pcb_script, pcb_table>>
  BY <1>0
<1>4. \A f \in Frames :
        /\ frame_table'[f] \in FrameEntry
        /\ frame_table'[f].occupied = frame_table[f].occupied
        /\ frame_table'[f].script = frame_table[f].script
        /\ frame_table'[f].page = frame_table[f].page
        /\ frame_table'[f].using = frame_table[f].using
        /\ frame_table'[f].last_used = IF f = h THEN clock_value ELSE frame_table[f].last_used
  BY <1>0
<1>5. MemTypeOK'
  <2>1. frame_table' = [f \in Frames |-> frame_table'[f]]
    BY <1>0 DEF MemInv, MemTypeOK
  <2>2. frame_table' \in [Frames -> FrameEntry]
    BY <1>4, <2>1
  <2> QED BY <1>3, <2>2 DEF MemInv, MemTypeOK
<1>6. TablesAgree'
  BY <1>3 DEF MemInv, TablesAgree
<1>7. NoDanglingEntry'
  <2> SUFFICES ASSUME NEW s \in loaded_scripts, NEW o \in AllPages, script_table[s][o] # NoFrame
               PROVE  LET e == frame_table'[script_table[s][o]]
                      IN  e.occupied /\ e.script = s /\ e.page = o
    BY <1>3 DEF NoDanglingEntry
  <2>1. script_table[s][o] \in Frames
    BY DEF MemInv, MemTypeOK, PageTable
  <2> QED BY <1>4, <2>1 DEF MemInv, NoDanglingEntry
<1>8. NoOrphanFrame'
  BY <1>3, <1>4 DEF MemInv, NoOrphanFrame
<1>9. UsersSound'
  BY <1>3, <1>4 DEF MemInv, UsersSound, Mapping
<1>10. StampsDistinct'
  <2>1. \A f \in Frames : frame_table[f].last_used \in Nat
    BY DEF MemInv, MemTypeOK, FrameEntry
  <2>2. clock_value \in Nat
    BY DEF MemInv, MemTypeOK
  <2>3. \A f \in Frames : frame_table[f].occupied => frame_table[f].last_used < clock_value
    BY DEF MemInv, StampsDistinct
  <2>4. ASSUME NEW f \in Frames, frame_table'[f].occupied
        PROVE  frame_table'[f].last_used < clock_value'
    BY <1>3, <1>4, <2>1, <2>2, <2>3, <2>4
  <2>5. ASSUME NEW f \in Frames, NEW g \in Frames, f # g,
               frame_table'[f].occupied, frame_table'[g].occupied
        PROVE  frame_table'[f].last_used # frame_table'[g].last_used
    <3>1. frame_table[f].last_used # frame_table[g].last_used
      BY <1>4, <2>5 DEF MemInv, StampsDistinct
    <3>2. frame_table[f].last_used < clock_value /\ frame_table[g].last_used < clock_value
      BY <1>4, <2>3, <2>5
    <3> QED BY <1>4, <2>1, <2>2, <2>5, <3>1, <3>2
  <2> QED BY <2>4, <2>5 DEF StampsDistinct
<1>11. FreeFramesClear'
  BY <1>0 DEF MemInv, MemTypeOK, FreeFramesClear, FreeFrames
<1> QED
  BY <1>5, <1>6, <1>7, <1>8, <1>9, <1>10, <1>11 DEF MemInv
-----------------------------------------------------------------------------
LEMMA InvalidatedAt ==
  ASSUME NEW table, NEW f, NEW o \in AllPages
  PROVE  Invalidated(table, f)[o] = IF table[o] = f THEN NoFrame ELSE table[o]
  BY DEF Invalidated

\* Whether it was free or has just been evicted, a frame made available for a
\* page fault is as clear_frame leaves it.
LEMMA AvailableClears ==
  ASSUME MemInv, NEW f \in Frames
  PROVE  Available(f) = [frame_table EXCEPT ![f] = ClearFrame]
  BY DEF Available, MemInv, MemTypeOK, FreeFramesClear

\* The frame a page fault takes exists, and once it has been made available no
\* table entry names it: a free frame was in no table, a victim is taken out.
LEMMA FaultFrame ==
  ASSUME MemInv, NEW f \in Frames, IsFaultFrame(f)
  PROVE  /\ \A s \in loaded_scripts : ScriptTablesWithout(f)[s] = Invalidated(script_table[s], f)
         /\ \A q \in live_pcbs : PcbTablesWithout(f)[q] = Invalidated(pcb_table[q], f)
         /\ ScriptTablesWithout(f) \in [Scripts -> PageTable]
         /\ PcbTablesWithout(f) \in [Pids -> PageTable]
<1>1. ASSUME NEW s \in loaded_scripts, f \in FreeFrames
      PROVE  script_table[s] = Invalidated(script_table[s], f)
  <2>1. script_table[s] \in PageTable
    BY DEF MemInv, MemTypeOK
  <2>2. \A p \in AllPages : script_table[s][p] # f
    BY <1>1 DEF MemInv, NoDanglingEntry, FreeFrames, Frames, NoFrame
  <2> QED BY <2>1, <2>2 DEF Invalidated, PageTable
<1>2. \A s \in loaded_scripts : ScriptTablesWithout(f)[s] = Invalidated(script_table[s], f)
  BY <1>1 DEF ScriptTablesWithout, MemInv, MemTypeOK
<1>3. \A q \in live_pcbs : PcbTablesWithout(f)[q] = Invalidated(pcb_table[q], f)
  BY <1>1 DEF PcbTablesWithout, MemInv, MemTypeOK, TablesAgree
<1>4. ASSUME NEW table \in PageTable
      PROVE  Invalidated(table, f) \in PageTable
  BY DEF Invalidated, PageTable
<1>5. ScriptTablesWithout(f) \in [Scripts -> PageTable]
  BY <1>4 DEF ScriptTablesWithout, MemInv, MemTypeOK
<1>6. PcbTablesWithout(f) \in [Pids -> PageTable]
  BY <1>4 DEF PcbTablesWithout, MemInv, MemTypeOK
<1> QED BY <1>2, <1>3, <1>5, <1>6

LEMMA DemandLoadFailsInv ==
  ASSUME MemInv, NEW q \in Pids, NEW p \in AllPages, DemandLoadFails(q, p)
  PROVE  MemInv'
<1>1. PICK f \in Frames :
        /\ IsFaultFrame(f)
        /\ \/ frame_table' = Available(f) /\ UNCHANGED clock_value
           \/ /\ frame_table' = [Available(f) EXCEPT ![f] = ClearFrame]
              /\ clock_value' = clock_value + 1
        /\ script_table' = ScriptTablesWithout(f)
        /\ pcb_table' = PcbTablesWithout(f)
  BY DEF DemandLoadFails
<1>2. /\ clock_value' \in {clock_value, clock_value + 1}
      /\ UNCHANGED <<loaded_scripts, live_pcbs, pcb_script>>
  BY DEF DemandLoadFails
<1>2a. Available(f) = [frame_table EXCEPT ![f] = ClearFrame]
  BY AvailableClears
<1>3. /\ frame_table'[f] = ClearFrame
      /\ \A g \in Frames \ {f} : frame_table'[g] = frame_table[g]
  BY <1>1, <1>2a DEF MemInv, MemTypeOK
<1>4. /\ \A s \in loaded_scripts : script_table'[s] = Invalidated(script_table[s], f)
      /\ \A r \in live_pcbs : pcb_table'[r] = Invalidated(pcb_table[r], f)
      /\ script_table' \in [Scripts -> PageTable]
      /\ pcb_table' \in [Pids -> PageTable]
  BY <1>1, FaultFrame
<1> DEFINE Without(old, new) ==
             \A o \in AllPages : new[o] = IF old[o] = f THEN NoFrame ELSE old[o]
<1>4a. /\ \A s \in loaded_scripts : Without(script_table[s], script_table'[s])
       /\ \A r \in live_pcbs : Without(pcb_table[r], pcb_table'[r])
  BY <1>4, InvalidatedAt
<1>5. MemTypeOK'
  <2>1. frame_table' \in [Frames -> FrameEntry]
    BY <1>1, <1>2a, ClearFrameType DEF MemInv, MemTypeOK
  <2> QED BY <1>2, <1>4, <2>1 DEF MemInv, MemTypeOK
<1>6. TablesAgree'
  BY <1>2, <1>4 DEF MemInv, TablesAgree
<1>7. NoDanglingEntry'
  <2> SUFFICES ASSUME NEW s \in loaded_scripts, NEW o \in AllPages, script_table'[s][o] # NoFrame
               PROVE  LET e == frame_table'[script_table'[s][o]]
                      IN  e.occupied /\ e.script = s /\ e.page = o
    BY <1>2 DEF NoDanglingEntry
  <2>1. script_table'[s][o] = script_table[s][o] /\ script_table[s][o] # f
    BY <1>4a, <1>2
  <2>2. script_table[s][o] \in Frames
    BY <2>1 DEF MemInv, MemTypeOK, PageTable
  <2> QED BY <1>3, <2>1, <2>2 DEF MemInv, NoDanglingEntry
<1>8. NoOrphanFrame'
  <2> SUFFICES ASSUME NEW g \in Frames, frame_table'[g].occupied
               PROVE  /\ frame_table'[g].script \in loaded_scripts
                      /\ frame_table'[g].page \in Pages(frame_table'[g].script)
                      /\ script_table'[frame_table'[g].script][frame_table'[g].page] = g
    BY <1>2 DEF NoOrphanFrame
  <2>1. g # f /\ frame_table'[g] = frame_table[g]
    BY <1>3 DEF ClearFrame
  <2>2. /\ frame_table[g].script \in loaded_scripts
        /\ frame_table[g].page \in Pages(frame_table[g].script)
        /\ script_table[frame_table[g].script][frame_table[g].page] = g
    BY <2>1 DEF MemInv, NoOrphanFrame
  <2>3. frame_table[g].page \in AllPages
    BY <2>2, PagesType DEF MemInv, MemTypeOK
  <2> QED BY <1>4a, <2>1, <2>2, <2>3
<1>9. UsersSound'
  <2> SUFFICES ASSUME NEW g \in Frames, NEW r \in frame_table'[g].using
               PROVE  r \in live_pcbs /\ \E o \in AllPages : pcb_table'[r][o] = g
    BY <1>2 DEF UsersSound, Mapping
  <2>1. g # f /\ frame_table'[g] = frame_table[g]
    BY <1>3 DEF ClearFrame
  <2>2. r \in live_pcbs /\ \E o \in AllPages : pcb_table[r][o] = g
    BY <2>1 DEF MemInv, UsersSound, Mapping
  <2> QED BY <1>4a, <2>1, <2>2
<1>10. StampsDistinct'
  <2>1. \A g \in Frames : frame_table'[g].occupied => g # f /\ frame_table'[g] = frame_table[g]
    BY <1>3 DEF ClearFrame
  <2>2. \A g \in Frames : frame_table[g].last_used \in Nat
    BY DEF MemInv, MemTypeOK, FrameEntry
  <2>3. clock_value \in Nat /\ clock_value' \in Nat /\ clock_value <= clock_value'
    BY <1>2 DEF MemInv, MemTypeOK
  <2> QED BY <2>1, <2>2, <2>3 DEF MemInv, StampsDistinct
<1>11. FreeFramesClear'
  BY <1>3 DEF MemInv, FreeFramesClear, FreeFrames
<1> QED
  BY <1>5, <1>6, <1>7, <1>8, <1>9, <1>10, <1>11 DEF MemInv

\* The frames after a page fault that is served: f holds page p of s, stamped
\* with the time, and the others have at most lost users.
LEMMA PublishFrames ==
  ASSUME MemInv, NEW s \in Scripts, NEW p \in AllPages, NEW f \in Frames,
         Publish([Available(f) EXCEPT ![f] = FilledFrame(@, s, p, clock_value)],
                 ScriptTablesWithout(f), PcbTablesWithout(f), s, p, f)
  PROVE  /\ frame_table' = [g \in Frames |-> frame_table'[g]]
         /\ \A g \in Frames : frame_table'[g] \in FrameEntry
         /\ \A g \in Frames \ {f} :
              /\ frame_table'[g].occupied = frame_table[g].occupied
              /\ frame_table'[g].script = frame_table[g].script
              /\ frame_table'[g].page = frame_table[g].page
              /\ frame_table'[g].last_used = frame_table[g].last_used
              /\ frame_table'[g].using \subseteq frame_table[g].using
         /\ frame_table'[f].occupied /\ frame_table'[f].script = s /\ frame_table'[f].page = p
         /\ frame_table'[f].last_used = clock_value
         /\ frame_table'[f].using \subseteq Sharers(s)
<1> DEFINE ft == [Available(f) EXCEPT ![f] = FilledFrame(@, s, p, clock_value)]
           gone(g) == {r \in Sharers(s) : PcbTablesWithout(f)[r][p] = g}
<1>1. frame_table' = [g \in Frames |->
        IF g = f THEN [ft[g] EXCEPT !.using = Registered(ft[g].using, Sharers(s))]
        ELSE [ft[g] EXCEPT !.using = ft[g].using \ gone(g)]]
  BY DEF Publish
<1>2. frame_table \in [Frames -> FrameEntry] /\ clock_value \in Nat /\ Sharers(s) \subseteq Pids
  BY DEF MemInv, MemTypeOK, Sharers
<1>3. ft[f] = FilledFrame(ClearFrame, s, p, clock_value) /\ \A g \in Frames \ {f} : ft[g] = frame_table[g]
  BY <1>2, AvailableClears
<1> HIDE DEF ft, gone
<1>4. ASSUME NEW g \in Frames \ {f}
      PROVE  /\ frame_table'[g] \in FrameEntry
             /\ frame_table'[g].occupied = frame_table[g].occupied
             /\ frame_table'[g].script = frame_table[g].script
             /\ frame_table'[g].page = frame_table[g].page
             /\ frame_table'[g].last_used = frame_table[g].last_used
             /\ frame_table'[g].using \subseteq frame_table[g].using
  <2>1. frame_table'[g] = [frame_table[g] EXCEPT !.using = frame_table[g].using \ gone(g)]
    BY <1>1, <1>3
  <2>2. frame_table[g] \in FrameEntry
    BY <1>2
  <2> QED BY <2>1, <2>2 DEF FrameEntry
<1>5. /\ frame_table'[f] \in FrameEntry
      /\ frame_table'[f].occupied /\ frame_table'[f].script = s /\ frame_table'[f].page = p
      /\ frame_table'[f].last_used = clock_value
      /\ frame_table'[f].using \subseteq Sharers(s)
  <2> DEFINE users == Registered({}, Sharers(s))
  <2>0. FilledFrame(ClearFrame, s, p, clock_value).using = {}
    BY DEF FilledFrame, ClearFrame
  <2>1. frame_table'[f] = [FilledFrame(ClearFrame, s, p, clock_value) EXCEPT !.using = users]
    BY <1>1, <1>3, <2>0
  <2>2. users \subseteq Sharers(s)
    BY RegisteredBounds
  <2> HIDE DEF users
  <2> QED BY <1>2, <2>1, <2>2 DEF FilledFrame, FrameEntry, ClearFrame
<1>6. frame_table' = [g \in Frames |-> frame_table'[g]]
  BY <1>1
<1> QED BY <1>4, <1>5, <1>6

LEMMA DemandLoadInv ==
  ASSUME MemInv, NEW q \in Pids, NEW p \in AllPages, DemandLoad(q, p)
  PROVE  MemInv'
<1> DEFINE s == pcb_script[q]
<1>1. /\ q \in live_pcbs /\ p \in Pages(s) /\ pcb_table[q][p] = NoFrame
      /\ s \in loaded_scripts /\ s \in Scripts /\ script_table[s][p] = NoFrame
  BY DEF DemandLoad, Faulting, MemInv, MemTypeOK, TablesAgree
<1>2. PICK f \in Frames :
        /\ IsFaultFrame(f)
        /\ Publish([Available(f) EXCEPT ![f] = FilledFrame(@, s, p, clock_value)],
                   ScriptTablesWithout(f), PcbTablesWithout(f), s, p, f)
        /\ clock_value' = clock_value + 1
  BY <1>1 DEF DemandLoad, ResidentForScript
<1>3. UNCHANGED <<loaded_scripts, live_pcbs, pcb_script>>
  BY DEF DemandLoad
<1> HIDE DEF s
<1> DEFINE After(r, old, new) ==
             \A o \in AllPages : new[o] = IF r = s /\ o = p THEN f
                                        ELSE IF old[o] = f THEN NoFrame ELSE old[o]
<1>4. /\ \A r \in loaded_scripts : ScriptTablesWithout(f)[r] = Invalidated(script_table[r], f)
      /\ \A r \in live_pcbs : PcbTablesWithout(f)[r] = Invalidated(pcb_table[r], f)
      /\ ScriptTablesWithout(f) \in [Scripts -> PageTable]
      /\ PcbTablesWithout(f) \in [Pids -> PageTable]
  BY <1>2, FaultFrame
<1>5. /\ script_table' \in [Scripts -> PageTable]
      /\ \A r \in loaded_scripts : After(r, script_table[r], script_table'[r])
  <2>1. script_table' = [r \in Scripts |->
          IF r = s THEN [ScriptTablesWithout(f)[r] EXCEPT ![p] = f] ELSE ScriptTablesWithout(f)[r]]
    BY <1>1, <1>2 DEF Publish
  <2>2. script_table' \in [Scripts -> PageTable]
    BY <1>4, <2>1 DEF PageTable
  <2>3. ASSUME NEW r \in loaded_scripts PROVE After(r, script_table[r], script_table'[r])
    <3>1. r \in Scripts /\ ScriptTablesWithout(f)[r] \in PageTable
      BY <1>4 DEF MemInv, MemTypeOK
    <3> QED BY <1>4, <2>1, <3>1, InvalidatedAt DEF PageTable
  <2> QED BY <2>2, <2>3
<1>6. /\ pcb_table' \in [Pids -> PageTable]
      /\ \A r \in live_pcbs : After(pcb_script[r], pcb_table[r], pcb_table'[r])
  <2>1. pcb_table' = [r \in Pids |->
          IF r \in Sharers(s) THEN [PcbTablesWithout(f)[r] EXCEPT ![p] = f] ELSE PcbTablesWithout(f)[r]]
    BY <1>2 DEF Publish
  <2>2. pcb_table' \in [Pids -> PageTable]
    BY <1>4, <2>1 DEF PageTable
  <2>3. ASSUME NEW r \in live_pcbs PROVE After(pcb_script[r], pcb_table[r], pcb_table'[r])
    <3>1. r \in Pids /\ PcbTablesWithout(f)[r] \in PageTable
      BY <1>4 DEF MemInv, MemTypeOK
    <3>2. r \in Sharers(s) <=> pcb_script[r] = s
      BY DEF Sharers
    <3> QED BY <1>4, <2>1, <3>1, <3>2, InvalidatedAt DEF PageTable
  <2> QED BY <2>2, <2>3
<1> HIDE DEF After
<1>7. /\ frame_table' = [g \in Frames |-> frame_table'[g]]
      /\ \A g \in Frames : frame_table'[g] \in FrameEntry
      /\ \A g \in Frames \ {f} :
           /\ frame_table'[g].occupied = frame_table[g].occupied
           /\ frame_table'[g].script = frame_table[g].script
           /\ frame_table'[g].page = frame_table[g].page
           /\ frame_table'[g].last_used = frame_table[g].last_used
           /\ frame_table'[g].using \subseteq frame_table[g].using
      /\ frame_table'[f].occupied /\ frame_table'[f].script = s /\ frame_table'[f].page = p
      /\ frame_table'[f].last_used = clock_value
      /\ frame_table'[f].using \subseteq Sharers(s)
  BY <1>1, <1>2, PublishFrames
<1>8. MemTypeOK'
  <2>1. frame_table' \in [Frames -> FrameEntry]
    BY <1>7
  <2> QED BY <1>2, <1>3, <1>5, <1>6, <2>1 DEF MemInv, MemTypeOK
<1>9. TablesAgree'
  <2> SUFFICES ASSUME NEW r \in live_pcbs
               PROVE  /\ pcb_script[r] \in loaded_scripts
                      /\ pcb_table'[r] = script_table'[pcb_script[r]]
    BY <1>3 DEF TablesAgree
  <2>1. pcb_script[r] \in loaded_scripts /\ pcb_table[r] = script_table[pcb_script[r]]
    BY DEF MemInv, TablesAgree
  <2>2. pcb_table'[r] \in PageTable /\ script_table'[pcb_script[r]] \in PageTable
    BY <1>5, <1>6, <2>1 DEF MemInv, MemTypeOK
  <2>3. \A o \in AllPages : pcb_table'[r][o] = script_table'[pcb_script[r]][o]
    BY <1>5, <1>6, <2>1 DEF After
  <2> QED BY <2>1, <2>2, <2>3 DEF PageTable
<1>10. NoDanglingEntry'
  <2> SUFFICES ASSUME NEW r \in loaded_scripts, NEW o \in AllPages, script_table'[r][o] # NoFrame
               PROVE  LET e == frame_table'[script_table'[r][o]]
                      IN  e.occupied /\ e.script = r /\ e.page = o
    BY <1>3 DEF NoDanglingEntry
  <2>1. CASE r = s /\ o = p
    <3>1. script_table'[r][o] = f
      BY <1>5, <2>1 DEF After
    <3> QED BY <1>7, <2>1, <3>1
  <2>2. CASE ~(r = s /\ o = p)
    <3>1. script_table'[r][o] = script_table[r][o] /\ script_table[r][o] # f
      BY <1>5, <2>2 DEF After
    <3>2. script_table[r][o] \in Frames
      BY <3>1 DEF MemInv, MemTypeOK, PageTable
    <3> QED BY <1>7, <3>1, <3>2 DEF MemInv, NoDanglingEntry
  <2> QED BY <2>1, <2>2
<1>11. NoOrphanFrame'
  <2> SUFFICES ASSUME NEW g \in Frames, frame_table'[g].occupied
               PROVE  /\ frame_table'[g].script \in loaded_scripts
                      /\ frame_table'[g].page \in Pages(frame_table'[g].script)
                      /\ script_table'[frame_table'[g].script][frame_table'[g].page] = g
    BY <1>3 DEF NoOrphanFrame
  <2>1. CASE g = f
    BY <1>1, <1>5, <1>7, <2>1 DEF After
  <2>2. CASE g # f
    <3>1. /\ frame_table'[g].script = frame_table[g].script
          /\ frame_table'[g].page = frame_table[g].page
          /\ frame_table[g].script \in loaded_scripts
          /\ frame_table[g].page \in Pages(frame_table[g].script)
          /\ script_table[frame_table[g].script][frame_table[g].page] = g
      BY <1>7, <2>2 DEF MemInv, NoOrphanFrame
    <3>2. frame_table[g].page \in AllPages
      BY <3>1, PagesType DEF MemInv, MemTypeOK
    <3>3. ~(frame_table[g].script = s /\ frame_table[g].page = p)
      BY <1>1, <3>1 DEF Frames, NoFrame
    <3> QED BY <1>5, <2>2, <3>1, <3>2, <3>3 DEF After
  <2> QED BY <2>1, <2>2
<1>12. UsersSound'
  <2> SUFFICES ASSUME NEW g \in Frames, NEW r \in frame_table'[g].using
               PROVE  r \in live_pcbs /\ \E o \in AllPages : pcb_table'[r][o] = g
    BY <1>3 DEF UsersSound, Mapping
  <2>1. CASE g = f
    <3>1. r \in live_pcbs /\ pcb_script[r] = s
      BY <1>7, <2>1 DEF Sharers
    <3>2. pcb_table'[r][p] = f
      BY <1>6, <3>1 DEF After
    <3> QED BY <2>1, <3>1, <3>2
  <2>2. CASE g # f
    <3>1. r \in live_pcbs /\ \E o \in AllPages : pcb_table[r][o] = g
      BY <1>7, <2>2 DEF MemInv, UsersSound, Mapping
    <3>2. PICK o \in AllPages : pcb_table[r][o] = g
      BY <3>1
    <3>3. ~(pcb_script[r] = s /\ o = p)
      BY <1>1, <3>1, <3>2 DEF MemInv, TablesAgree, Frames, NoFrame
    <3> QED BY <1>6, <2>2, <3>1, <3>2, <3>3 DEF After
  <2> QED BY <2>1, <2>2
<1>13. StampsDistinct'
  <2>1. \A g \in Frames : frame_table[g].last_used \in Nat
    BY DEF MemInv, MemTypeOK, FrameEntry
  <2>2. clock_value \in Nat
    BY DEF MemInv, MemTypeOK
  <2>3. \A g \in Frames : frame_table[g].occupied => frame_table[g].last_used < clock_value
    BY DEF MemInv, StampsDistinct
  <2>4. ASSUME NEW g \in Frames, frame_table'[g].occupied
        PROVE  frame_table'[g].last_used < clock_value'
    BY <1>2, <1>7, <2>1, <2>2, <2>3, <2>4
  <2>5. ASSUME NEW g \in Frames, NEW h \in Frames, g # h,
               frame_table'[g].occupied, frame_table'[h].occupied
        PROVE  frame_table'[g].last_used # frame_table'[h].last_used
    <3>1. CASE g = f \/ h = f
      BY <1>7, <2>1, <2>2, <2>3, <2>5, <3>1
    <3>2. CASE g # f /\ h # f
      BY <1>7, <2>5, <3>2 DEF MemInv, StampsDistinct
    <3> QED BY <3>1, <3>2
  <2> QED BY <2>4, <2>5 DEF StampsDistinct
<1>14. FreeFramesClear'
  <2> SUFFICES ASSUME NEW g \in FreeFrames' PROVE frame_table'[g] = ClearFrame
    BY DEF FreeFramesClear
  <2>1. g \in FreeFrames \ {f}
    BY <1>7 DEF FreeFrames
  <2>2. frame_table[g] = ClearFrame
    BY <2>1 DEF MemInv, FreeFramesClear
  <2>3. frame_table'[g].using = {}
    BY <1>7, <2>1, <2>2 DEF FreeFrames, ClearFrame
  <2> QED BY <1>7, <2>1, <2>2, <2>3 DEF FreeFrames, FrameEntry, ClearFrame
<1> QED
  BY <1>8, <1>9, <1>10, <1>11, <1>12, <1>13, <1>14 DEF MemInv
-----------------------------------------------------------------------------
LEMMA StepInv == MemInv /\ [MemNext]_memVars => MemInv'
<1> SUFFICES ASSUME MemInv, [MemNext]_memVars
             PROVE  MemInv'
  OBVIOUS
<1>1. CASE \E s \in Scripts : LoadScript(s) \/ LoadScriptFails(s)
  BY <1>1, LoadScriptInv, LoadScriptFailsInv
<1>2. CASE \E q \in Pids, s \in Scripts : RegisterPcb(q, s)
  BY <1>2, RegisterPcbInv
<1>3. CASE \E q \in Pids : UnregisterPcb(q)
  BY <1>3, UnregisterPcbInv
<1>4. CASE \E S \in SUBSET loaded_scripts, Q \in SUBSET live_pcbs : Rollback(S, Q)
  BY <1>4, RollbackInv
<1>5. CASE \E q \in Pids, p \in AllPages : Fetch(q, p) \/ DemandLoad(q, p) \/ DemandLoadFails(q, p)
  BY <1>5, FetchInv, DemandLoadInv, DemandLoadFailsInv
<1>6. CASE UNCHANGED memVars
  BY <1>6 DEF memVars, MemInv, MemTypeOK, TablesAgree, NoDanglingEntry, NoOrphanFrame,
              FreeFramesClear, FreeFrames, UsersSound, StampsDistinct, Mapping
<1> QED
  BY <1>1, <1>2, <1>3, <1>4, <1>5, <1>6 DEF MemNext

\* The conjunction is inductive, so it holds in every reachable state of every
\* caller that keeps to the operations of ShellMemory.
THEOREM MemoryInvariant == MemSpec => []MemInv
<1>1. MemInit => MemInv
  BY InitInv
<1>2. MemInv /\ [MemNext]_memVars => MemInv'
  BY StepInv
<1> QED
  BY <1>1, <1>2, PTL DEF MemSpec

\* The variables always hold what their C declarations allow.
THEOREM TypeCorrect == MemSpec => []MemTypeOK
  BY MemoryInvariant, PTL DEF MemInv

\* Every private page table is at all times the canonical one of its script.
THEOREM PrivateTablesAreCanonical == MemSpec => []TablesAgree
  BY MemoryInvariant, PTL DEF MemInv

\* No table entry survives the eviction, the failed reload or the rollback of
\* the frame it names: translation never reads a page of another script.
THEOREM NoEntryDangles == MemSpec => []NoDanglingEntry
  BY MemoryInvariant, PTL DEF MemInv

\* A failed load, a rollback or an eviction leaves no occupied frame behind
\* that no canonical table names.
THEOREM NoFrameIsLost == MemSpec => []NoOrphanFrame
  BY MemoryInvariant, PTL DEF MemInv

\* A free frame is clean: the next load of a page inherits no user from it.
THEOREM FreeFramesAreClear == MemSpec => []FreeFramesClear
  BY MemoryInvariant, PTL DEF MemInv

\* using_pcb_pids never lists a process that is gone or does not map the frame.
THEOREM UsersAreSound == MemSpec => []UsersSound
  BY MemoryInvariant, PTL DEF MemInv

\* The LRU stamps of occupied frames are pairwise distinct.
THEOREM VictimIsUnique == MemSpec => []StampsDistinct
  BY MemoryInvariant, PTL DEF MemInv
-----------------------------------------------------------------------------
(***************************************************************************)
(* What the memory remembers of the use of its frames.                     *)
(*                                                                         *)
(* By whom: using_pcb_pids is a list of MAX_PROCESSES entries that         *)
(* processes are added to and removed from.  It never overflows; and when  *)
(* there can be no more processes than it has room for, it names every     *)
(* process that maps the frame.                                            *)
(*                                                                         *)
(* When: the stamps make the memory the least-recently-used cache of       *)
(* LruCache.  Each operation changes the stamps and contents of a few      *)
(* frames; the lemmas Kept and Refilled say what that does to the pages    *)
(* and to their order, and the theorem goes through the operations.        *)
(***************************************************************************)
\* Registering nobody changes nothing.
LEMMA RegisteredNone == \A using : Registered(using, {}) = using
  BY DEF Registered

\* However many processes are registered at once, the list holds at most
\* MAX_PROCESSES of them.
LEMMA RegisteredFits ==
  ASSUME NEW using, IsFiniteSet(using), Cardinality(using) <= MAX_PROCESSES,
         NEW new \in SUBSET Nat, IsFiniteSet(new)
  PROVE  Cardinality(Registered(using, new)) <= MAX_PROCESSES
<1> DEFINE above(q) == {r \in new \ using : r > q}
           added == {q \in new \ using : Cardinality(using) + Cardinality(above(q)) < MAX_PROCESSES}
<1>1. Registered(using, new) = using \cup added
  BY DEF Registered
<1>2. IsFiniteSet(added) /\ added \in SUBSET Nat
  BY FS_Subset
<1>3. Cardinality(using) \in Nat /\ Cardinality(added) \in Nat /\ MAX_PROCESSES \in Nat
  BY <1>2, FS_CardinalityType, SizesAssumption
<1>4. Cardinality(Registered(using, new)) = Cardinality(using) + Cardinality(added)
  <2>1. using \cap added = {}
    OBVIOUS
  <2>2. Cardinality(using \cap added) = 0
    BY <2>1, FS_EmptySet
  <2>3. Cardinality(using \cup added) = Cardinality(using) + Cardinality(added) - Cardinality(using \cap added)
    BY <1>2, FS_Union
  <2> QED BY <1>1, <1>3, <2>2, <2>3
<1>5. CASE added = {}
  <2>1. Cardinality(added) = 0
    BY <1>5, FS_EmptySet
  <2> HIDE DEF added
  <2> QED BY <1>3, <1>4, <2>1
<1>6. CASE added # {}
  <2>1. PICK m \in added : \A q \in added : m <= q
    BY <1>2, <1>6, LeastNat
  <2>2. added \ {m} \subseteq above(m)
    BY <1>2, <2>1
  <2>3. IsFiniteSet(above(m))
    BY FS_Subset
  <2>4. Cardinality(added \ {m}) <= Cardinality(above(m)) /\ Cardinality(above(m)) \in Nat
    BY <2>2, <2>3, FS_Subset, FS_CardinalityType
  <2>5. Cardinality(added \ {m}) = Cardinality(added) - 1
    BY <1>2, <2>1, FS_RemoveElement
  <2>6. Cardinality(using) + Cardinality(above(m)) < MAX_PROCESSES
    BY <2>1
  <2> HIDE DEF above, added
  <2> QED BY <1>3, <1>4, <2>4, <2>5, <2>6
<1> QED BY <1>5, <1>6

\* With room for every process there can be, nobody is dropped.
LEMMA RegisteredAll ==
  ASSUME IsFiniteSet(Pids), Cardinality(Pids) <= MAX_PROCESSES,
         NEW using \in SUBSET Pids, NEW new \in SUBSET Pids
  PROVE  Registered(using, new) = using \cup new
<1> SUFFICES ASSUME NEW q \in new \ using
             PROVE  Cardinality(using) + Cardinality({r \in new \ using : r > q}) < MAX_PROCESSES
  BY DEF Registered
<1> DEFINE above == {r \in new \ using : r > q}
<1>1. IsFiniteSet(using) /\ IsFiniteSet(above) /\ Cardinality(Pids) \in Nat
  BY FS_Subset, FS_CardinalityType
<1>2. Cardinality(using) \in Nat /\ Cardinality(above) \in Nat
  BY <1>1, FS_CardinalityType
<1>3. q \in Nat /\ q \notin above /\ q \notin using /\ using \cap above = {}
  BY PidsAssumption
<1>4. Cardinality(using \cup above) = Cardinality(using) + Cardinality(above)
  <2>1. Cardinality(using \cap above) = 0
    BY <1>3, FS_EmptySet
  <2>2. Cardinality(using \cup above) = Cardinality(using) + Cardinality(above) - Cardinality(using \cap above)
    BY <1>1, FS_Union
  <2> QED BY <1>2, <2>1, <2>2
<1>5. Cardinality((using \cup above) \cup {q}) = Cardinality(using \cup above) + 1
  <2>1. IsFiniteSet(using \cup above) /\ q \notin using \cup above
    BY <1>1, <1>3, FS_Union
  <2> QED BY <2>1, FS_AddElement
<1>6. Cardinality((using \cup above) \cup {q}) <= Cardinality(Pids)
  <2>1. (using \cup above) \cup {q} \in SUBSET Pids
    OBVIOUS
  <2> QED BY <2>1, FS_Subset
<1> HIDE DEF above
<1>7. Cardinality(using) + Cardinality(above) < MAX_PROCESSES
  BY <1>1, <1>2, <1>4, <1>5, <1>6, SizesAssumption
<1> QED BY <1>7 DEF above
-----------------------------------------------------------------------------
\* What any operation does to the users of a frame: some are kept, and some
\* are registered.  Whoever maps the frame afterwards is registered by the step,
\* or has mapped it before and is kept if it was listed.
UsersChange(f) ==
  \E kept \in SUBSET frame_table[f].using, new \in SUBSET live_pcbs' :
    /\ frame_table'[f].using = Registered(kept, new)
    /\ Mapping(f)' \subseteq Mapping(f) \cup new
    /\ Mapping(f)' \cap frame_table[f].using \subseteq kept \cup new

\* Nobody is registered.
LEMMA UsersOnlyRemoved ==
  ASSUME NEW f, frame_table'[f].using \subseteq frame_table[f].using,
         Mapping(f)' \subseteq Mapping(f),
         Mapping(f)' \cap frame_table[f].using \subseteq frame_table'[f].using
  PROVE  UsersChange(f)
<1>1. frame_table'[f].using = Registered(frame_table'[f].using, {})
  BY RegisteredNone
<1> QED BY <1>1 DEF UsersChange

LEMMA LoadScriptUsers ==
  ASSUME MemInv, NEW s \in Scripts, LoadScript(s), NEW f \in Frames
  PROVE  UsersChange(f)
<1>1. Mapping(f)' = Mapping(f)
  BY DEF LoadScript, Mapping
<1>2. PICK at \in [InitialPages(s) -> FreeFrames] :
        /\ \A o, p \in InitialPages(s) : at[o] = at[p] => o = p
        /\ \A p \in InitialPages(s) :
             LET e == frame_table'[at[p]]
             IN  /\ e \in FrameEntry /\ e.occupied /\ e.script = s /\ e.page = p
                 /\ e.last_used = clock_value + p /\ e.using = {}
        /\ \A g \in Frames :
             (\A p \in InitialPages(s) : at[p] # g) => frame_table'[g] = frame_table[g]
        /\ frame_table' = [g \in Frames |-> frame_table'[g]]
        /\ script_table' = [script_table EXCEPT ![s] =
             [p \in AllPages |-> IF p \in InitialPages(s) THEN at[p] ELSE NoFrame]]
  BY LoadScriptFrames
<1>3. CASE \A p \in InitialPages(s) : at[p] # f
  BY <1>1, <1>2, <1>3, UsersOnlyRemoved
<1>4. CASE \E p \in InitialPages(s) : at[p] = f
  <2>1. f \in FreeFrames /\ frame_table'[f].using = {}
    BY <1>2, <1>4
  <2>2. frame_table[f].using = {}
    BY <2>1, FreeFrameUnused
  <2> QED BY <1>1, <2>1, <2>2, UsersOnlyRemoved
<1> QED BY <1>3, <1>4

LEMMA LoadScriptFailsUsers ==
  ASSUME MemInv, NEW s \in Scripts, LoadScriptFails(s), NEW f \in Frames
  PROVE  UsersChange(f)
<1>1. Mapping(f)' = Mapping(f)
  BY DEF LoadScriptFails, Mapping
<1>2. frame_table'[f] = frame_table[f]
  BY DEF LoadScriptFails, MemInv, MemTypeOK, FreeFramesClear
<1> QED BY <1>1, <1>2, UsersOnlyRemoved

LEMMA RegisterPcbUsers ==
  ASSUME MemInv, NEW q \in Pids, NEW s \in Scripts, RegisterPcb(q, s), NEW f \in Frames
  PROVE  UsersChange(f)
<1>1. /\ q \notin live_pcbs /\ live_pcbs' = live_pcbs \cup {q}
      /\ pcb_table' = [pcb_table EXCEPT ![q] = script_table[s]]
      /\ frame_table' = [g \in Frames |->
           IF \E p \in AllPages : script_table[s][p] = g
           THEN [frame_table[g] EXCEPT !.using = Registered(@, {q})]
           ELSE frame_table[g]]
  BY DEF RegisterPcb
<1>2. /\ pcb_table'[q] = script_table[s]
      /\ \A r \in live_pcbs : pcb_table'[r] = pcb_table[r]
  BY <1>1 DEF MemInv, MemTypeOK
<1>3. CASE \E p \in AllPages : script_table[s][p] = f
  <2>1. frame_table'[f] = [frame_table[f] EXCEPT !.using = Registered(@, {q})]
    BY <1>1, <1>3
  <2>2. frame_table[f] \in FrameEntry
    BY DEF MemInv, MemTypeOK
  <2>3. frame_table'[f].using = Registered(frame_table[f].using, {q})
    BY <2>1, <2>2 DEF FrameEntry
  <2>4. Mapping(f)' \subseteq Mapping(f) \cup {q}
    BY <1>1, <1>2 DEF Mapping
  <2> QED BY <1>1, <2>3, <2>4 DEF UsersChange
<1>4. CASE ~\E p \in AllPages : script_table[s][p] = f
  <2>1. frame_table'[f] = frame_table[f]
    BY <1>1, <1>4
  <2>2. Mapping(f)' \subseteq Mapping(f)
    BY <1>1, <1>2, <1>4 DEF Mapping
  <2> QED BY <2>1, <2>2, UsersOnlyRemoved
<1> QED BY <1>3, <1>4

LEMMA DroppedMapping ==
  ASSUME MemInv, NEW Q \in SUBSET live_pcbs, DropPcbs(Q), NEW f
  PROVE  Mapping(f)' = Mapping(f) \ Q
<1>1. live_pcbs' = live_pcbs \ Q /\ \A r \in live_pcbs' : pcb_table'[r] = pcb_table[r]
  BY DEF DropPcbs, MemInv, MemTypeOK
<1> QED BY <1>1 DEF Mapping

LEMMA UnregisterPcbUsers ==
  ASSUME MemInv, NEW q \in Pids, UnregisterPcb(q), NEW f \in Frames
  PROVE  UsersChange(f)
<1>1. Mapping(f)' = Mapping(f) \ {q}
  BY DroppedMapping DEF UnregisterPcb
<1>2. frame_table'[f].using =
        frame_table[f].using \ {r \in {q} : \E p \in AllPages : pcb_table[r][p] = f}
  BY WithoutPcbsFields DEF UnregisterPcb, MemInv, MemTypeOK
<1> QED BY <1>1, <1>2, UsersOnlyRemoved

\* The frames of an unwound load are mapped by unwound processes only.
LEMMA RollbackUsers ==
  ASSUME MemInv, NEW S \in SUBSET loaded_scripts, NEW Q \in SUBSET live_pcbs, Rollback(S, Q),
         NEW f \in Frames
  PROVE  UsersChange(f)
<1>1. Mapping(f)' = Mapping(f) \ Q
  BY DroppedMapping DEF Rollback
<1>2. CASE f \in FramesOf(S)
  <2>1. PICK s \in S, p \in AllPages : script_table[s][p] = f
    BY <1>2 DEF FramesOf
  <2>2. frame_table'[f].using = {}
    BY <1>2, RollbackFrames, ClearFrameType
  <2>3. ASSUME NEW r \in Mapping(f) PROVE r \in Q
    <3>1. PICK o \in AllPages : pcb_table[r][o] = f
      BY DEF Mapping
    <3>2. pcb_script[r] \in loaded_scripts /\ script_table[pcb_script[r]][o] = f
      BY <3>1 DEF Mapping, MemInv, TablesAgree
    <3>3. frame_table[f].script = s /\ frame_table[f].script = pcb_script[r]
      BY <2>1, <3>2 DEF MemInv, NoDanglingEntry, Frames, NoFrame
    <3> QED BY <3>3 DEF Mapping, Rollback
  <2> QED BY <1>1, <2>2, <2>3, UsersOnlyRemoved
<1>3. CASE f \notin FramesOf(S)
  <2> DEFINE ft == [g \in Frames |-> IF \E s \in S, p \in AllPages : script_table[s][p] = g
                                    THEN ClearFrame ELSE frame_table[g]]
  <2>1. frame_table' = WithoutPcbs(ft, Q)
    BY DEF Rollback
  <2>2. ft \in [Frames -> FrameEntry] /\ ft[f] = frame_table[f]
    BY <1>3, ClearFrameType DEF FramesOf, MemInv, MemTypeOK
  <2> HIDE DEF ft
  <2>3. frame_table'[f].using =
          frame_table[f].using \ {r \in Q : \E p \in AllPages : pcb_table[r][p] = f}
    BY <2>1, <2>2, WithoutPcbsFields
  <2> QED BY <1>1, <2>3, UsersOnlyRemoved
<1> QED BY <1>2, <1>3

LEMMA FetchUsers ==
  ASSUME MemInv, NEW q \in Pids, NEW p \in AllPages, Fetch(q, p), NEW f \in Frames
  PROVE  UsersChange(f)
<1>1. frame_table'[f].using = frame_table[f].using /\ UNCHANGED <<live_pcbs, pcb_table>>
  BY FetchFrame
<1>2. Mapping(f)' = Mapping(f)
  BY <1>1 DEF Mapping
<1> QED BY <1>1, <1>2, UsersOnlyRemoved

\* An evicted frame is mapped by nobody; the others keep their users.
LEMMA DemandLoadFailsUsers ==
  ASSUME MemInv, NEW q \in Pids, NEW p \in AllPages, DemandLoadFails(q, p), NEW f \in Frames
  PROVE  UsersChange(f)
<1>1. PICK h \in Frames :
        /\ IsFaultFrame(h)
        /\ \/ frame_table' = Available(h)
           \/ frame_table' = [Available(h) EXCEPT ![h] = ClearFrame]
        /\ pcb_table' = PcbTablesWithout(h)
  BY DEF DemandLoadFails
<1>2. UNCHANGED live_pcbs
  BY DEF DemandLoadFails
<1>3. Available(h) = [frame_table EXCEPT ![h] = ClearFrame]
  BY AvailableClears
<1>4. /\ frame_table'[h] = ClearFrame
      /\ \A g \in Frames \ {h} : frame_table'[g] = frame_table[g]
  BY <1>1, <1>3 DEF MemInv, MemTypeOK
<1>5. \A r \in live_pcbs : pcb_table'[r] = Invalidated(pcb_table[r], h)
  BY <1>1, FaultFrame
<1>6. \A r \in live_pcbs, o \in AllPages :
        pcb_table'[r][o] = IF pcb_table[r][o] = h THEN NoFrame ELSE pcb_table[r][o]
  BY <1>5, InvalidatedAt
<1>7. Mapping(f)' \subseteq Mapping(f) /\ (f = h => Mapping(f)' = {})
  BY <1>2, <1>6 DEF Mapping, Frames, NoFrame
<1> QED BY <1>4, <1>7, ClearFrameType, UsersOnlyRemoved

\* The frame of a page that is brought in gets those who share its script.
LEMMA DemandLoadUsers ==
  ASSUME MemInv, NEW q \in Pids, NEW p \in AllPages, DemandLoad(q, p), NEW f \in Frames
  PROVE  UsersChange(f)
<1> DEFINE s == pcb_script[q]
<1>1. /\ q \in live_pcbs /\ s \in loaded_scripts /\ s \in Scripts /\ script_table[s][p] = NoFrame
  BY DEF DemandLoad, Faulting, MemInv, MemTypeOK, TablesAgree
<1>2. PICK h \in Frames :
        /\ IsFaultFrame(h)
        /\ Publish([Available(h) EXCEPT ![h] = FilledFrame(@, s, p, clock_value)],
                   ScriptTablesWithout(h), PcbTablesWithout(h), s, p, h)
  BY <1>1 DEF DemandLoad, ResidentForScript
<1>3. UNCHANGED live_pcbs
  BY DEF DemandLoad
<1> HIDE DEF s
<1> DEFINE ft == [Available(h) EXCEPT ![h] = FilledFrame(@, s, p, clock_value)]
           gone(g) == {r \in Sharers(s) : PcbTablesWithout(h)[r][p] = g}
<1>4. frame_table' = [g \in Frames |->
        IF g = h THEN [ft[g] EXCEPT !.using = Registered(ft[g].using, Sharers(s))]
        ELSE [ft[g] EXCEPT !.using = ft[g].using \ gone(g)]]
  BY <1>2 DEF Publish
<1>5. /\ ft[h] = FilledFrame(ClearFrame, s, p, clock_value)
      /\ \A g \in Frames \ {h} : ft[g] = frame_table[g]
  BY AvailableClears DEF MemInv, MemTypeOK
<1>6. \A r \in live_pcbs, o \in AllPages :
        PcbTablesWithout(h)[r][o] = IF pcb_table[r][o] = h THEN NoFrame ELSE pcb_table[r][o]
  BY <1>2, FaultFrame, InvalidatedAt
<1>7. ASSUME NEW r \in live_pcbs, NEW o \in AllPages
      PROVE  pcb_table'[r][o] = IF r \in Sharers(s) /\ o = p THEN h ELSE PcbTablesWithout(h)[r][o]
  <2>1. pcb_table' = [t \in Pids |->
          IF t \in Sharers(s) THEN [PcbTablesWithout(h)[t] EXCEPT ![p] = h] ELSE PcbTablesWithout(h)[t]]
    BY <1>2 DEF Publish
  <2>2. r \in Pids /\ PcbTablesWithout(h)[r] \in PageTable
    BY <1>2, FaultFrame DEF MemInv, MemTypeOK
  <2> QED BY <2>1, <2>2 DEF PageTable
<1> HIDE DEF ft, gone
<1>8. CASE f = h
  <2>1. FilledFrame(ClearFrame, s, p, clock_value).using = {}
    BY DEF FilledFrame, ClearFrame
  <2>2. frame_table'[f] = [FilledFrame(ClearFrame, s, p, clock_value) EXCEPT !.using = Registered({}, Sharers(s))]
    BY <1>4, <1>5, <1>8, <2>1
  <2>3. frame_table'[f].using = Registered({}, Sharers(s))
    BY <2>2 DEF FilledFrame, ClearFrame
  <2>4. Mapping(f)' \subseteq Sharers(s)
    BY <1>3, <1>6, <1>7, <1>8 DEF Mapping, Frames, NoFrame
  <2>5. Sharers(s) \in SUBSET live_pcbs'
    BY <1>3 DEF Sharers
  <2> QED BY <2>3, <2>4, <2>5 DEF UsersChange
<1>9. CASE f # h
  <2>1. gone(f) = {}
    <3>1. ASSUME NEW r \in Sharers(s) PROVE PcbTablesWithout(h)[r][p] # f
      <4>1. r \in live_pcbs /\ pcb_table[r][p] = NoFrame
        BY <1>1 DEF Sharers, MemInv, TablesAgree
      <4> QED BY <1>6, <4>1 DEF Frames, NoFrame
    <3> QED BY <3>1 DEF gone
  <2>2. frame_table'[f] = [frame_table[f] EXCEPT !.using = frame_table[f].using \ gone(f)]
    BY <1>4, <1>5, <1>9
  <2>3. frame_table[f] \in FrameEntry
    BY DEF MemInv, MemTypeOK
  <2>4. frame_table'[f].using = frame_table[f].using
    BY <2>1, <2>2, <2>3 DEF FrameEntry
  <2>5. Mapping(f)' \subseteq Mapping(f)
    BY <1>3, <1>6, <1>7, <1>9 DEF Mapping, Frames, NoFrame
  <2> QED BY <2>4, <2>5, UsersOnlyRemoved
<1> QED BY <1>8, <1>9

LEMMA UsersStep ==
  ASSUME MemInv, [MemNext]_memVars, NEW f \in Frames
  PROVE  UsersChange(f)
<1>1. CASE UNCHANGED memVars
  <2>1. frame_table'[f].using = frame_table[f].using /\ Mapping(f)' = Mapping(f)
    BY <1>1 DEF memVars, Mapping
  <2> QED BY <2>1, UsersOnlyRemoved
<1>2. CASE MemNext
  BY <1>2, LoadScriptUsers, LoadScriptFailsUsers, RegisterPcbUsers, UnregisterPcbUsers,
     RollbackUsers, FetchUsers, DemandLoadFailsUsers, DemandLoadUsers DEF MemNext
<1> QED BY <1>1, <1>2
-----------------------------------------------------------------------------
\* Processes come one at a time, so there are finitely many at any time.
LiveFinite == IsFiniteSet(live_pcbs)

UsersInv == MemInv /\ LiveFinite /\ UsersFit /\ UsersComplete

LEMMA LiveFiniteStep ==
  ASSUME LiveFinite, [MemNext]_memVars
  PROVE  LiveFinite'
<1>1. \/ live_pcbs' = live_pcbs
      \/ \E q : live_pcbs' = live_pcbs \cup {q}
      \/ live_pcbs' \subseteq live_pcbs
  BY DEF MemNext, memVars, LoadScript, LoadScriptFails, RegisterPcb, UnregisterPcb, Rollback,
         DropPcbs, Fetch, DemandLoad, DemandLoadFails
<1>2. CASE live_pcbs' = live_pcbs
  BY <1>2 DEF LiveFinite
<1>3. CASE \E q : live_pcbs' = live_pcbs \cup {q}
  BY <1>3, FS_AddElement DEF LiveFinite
<1>4. CASE live_pcbs' \subseteq live_pcbs
  BY <1>4, FS_Subset DEF LiveFinite
<1> QED BY <1>1, <1>2, <1>3, <1>4

LEMMA UsersInvStep == UsersInv /\ [MemNext]_memVars => UsersInv'
<1> SUFFICES ASSUME UsersInv, [MemNext]_memVars PROVE UsersInv'
  OBVIOUS
<1>1. MemInv /\ MemInv' /\ LiveFinite' /\ MAX_PROCESSES \in Nat
  BY StepInv, LiveFiniteStep, SizesAssumption DEF UsersInv
<1>2. live_pcbs \subseteq Pids /\ live_pcbs' \subseteq Pids /\ Pids \subseteq Nat
  BY <1>1, PidsAssumption DEF MemInv, MemTypeOK
<1>3. \A f \in Frames : frame_table[f].using \subseteq live_pcbs
  BY <1>1 DEF MemInv, UsersSound, Mapping
<1>4. ASSUME NEW f \in Frames
      PROVE  Cardinality(frame_table'[f].using) <= MAX_PROCESSES
  <2>1. PICK kept \in SUBSET frame_table[f].using, new \in SUBSET live_pcbs' :
          frame_table'[f].using = Registered(kept, new)
    BY <1>1, UsersStep DEF UsersChange
  <2>2. IsFiniteSet(frame_table[f].using)
    BY <1>3, FS_Subset DEF UsersInv, LiveFinite
  <2>3. IsFiniteSet(kept) /\ Cardinality(kept) <= Cardinality(frame_table[f].using)
    BY <2>2, FS_Subset
  <2>4. Cardinality(kept) \in Nat /\ Cardinality(frame_table[f].using) \in Nat
    BY <2>2, <2>3, FS_CardinalityType
  <2>5. Cardinality(kept) <= MAX_PROCESSES
    BY <1>1, <2>3, <2>4 DEF UsersInv, UsersFit
  <2>6. IsFiniteSet(new) /\ new \in SUBSET Nat
    BY <1>1, <1>2, FS_Subset DEF LiveFinite
  <2> QED BY <2>1, <2>3, <2>5, <2>6, RegisteredFits
<1>5. ASSUME IsFiniteSet(Pids), Cardinality(Pids) <= MAX_PROCESSES, NEW f \in Frames
      PROVE  Mapping(f)' \subseteq frame_table'[f].using
  <2>1. PICK kept \in SUBSET frame_table[f].using, new \in SUBSET live_pcbs' :
          /\ frame_table'[f].using = Registered(kept, new)
          /\ Mapping(f)' \subseteq Mapping(f) \cup new
          /\ Mapping(f)' \cap frame_table[f].using \subseteq kept \cup new
    BY <1>1, UsersStep DEF UsersChange
  <2>2. kept \in SUBSET Pids /\ new \in SUBSET Pids
    BY <1>2, <1>3
  <2>3. frame_table'[f].using = kept \cup new
    BY <1>5, <2>1, <2>2, RegisteredAll
  <2>4. Mapping(f) \subseteq frame_table[f].using
    BY <1>5 DEF UsersInv, UsersComplete
  <2> QED BY <2>1, <2>3, <2>4
<1>6. UsersFit'
  BY <1>4 DEF UsersFit
<1>7. UsersComplete'
  BY <1>5 DEF UsersComplete
<1> QED BY <1>1, <1>6, <1>7 DEF UsersInv

LEMMA UsersInvariant == MemSpec => []UsersInv
<1>1. MemInit => UsersInv
  <2> SUFFICES ASSUME MemInit PROVE UsersInv
    OBVIOUS
  <2>1. MemInv /\ live_pcbs = {} /\ \A f \in Frames : frame_table[f].using = {}
    BY InitInv, ClearFrameType DEF MemInit
  <2>2. LiveFinite
    BY <2>1, FS_EmptySet DEF LiveFinite
  <2>3. UsersFit
    BY <2>1, FS_EmptySet, SizesAssumption DEF UsersFit
  <2>4. UsersComplete
    BY <2>1 DEF UsersComplete, Mapping
  <2> QED BY <2>1, <2>2, <2>3, <2>4 DEF UsersInv
<1> QED BY <1>1, UsersInvStep, PTL DEF MemSpec

\* The list of users of a frame never has more entries than its array, although
\* nested requests can make more processes share the frame.
THEOREM UsersListFits == MemSpec => []UsersFit
  BY UsersInvariant, PTL DEF UsersInv

\* When the array has room for all processes, it lists exactly those whose page
\* table names the frame, after any number of loads, evictions and rollbacks.
THEOREM UsersListExact == MemSpec => []UsersTracked
<1>1. UsersInv => UsersTracked
  BY DEF UsersInv, MemInv, UsersTracked
<1> QED BY <1>1, UsersInvariant, PTL
-----------------------------------------------------------------------------
\* A frame outside F holds the same page with the same stamp as before.
SameOutside(F) ==
  \A f \in Frames \ F :
    /\ frame_table'[f].occupied = frame_table[f].occupied
    /\ frame_table'[f].script = frame_table[f].script
    /\ frame_table'[f].page = frame_table[f].page
    /\ frame_table'[f].last_used = frame_table[f].last_used

\* The instance counts as this module does.
LEMMA SameCardinality == \A S : Cache!Cardinality(S) = Cardinality(S)
  BY DEF Cache!Cardinality, Cardinality

\* Two frames never hold the same page, so the order on pages is that of stamps.
LEMMA HeldInjective ==
  ASSUME MemInv
  PROVE  \A f, g \in Occupied : Held(f) = Held(g) => f = g
<1> SUFFICES ASSUME NEW f \in Occupied, NEW g \in Occupied, Held(f) = Held(g)
             PROVE  f = g
  OBVIOUS
<1>1. script_table[frame_table[f].script][frame_table[f].page] = f
  BY DEF MemInv, NoOrphanFrame, Occupied
<1>2. script_table[frame_table[g].script][frame_table[g].page] = g
  BY DEF MemInv, NoOrphanFrame, Occupied
<1> QED BY <1>1, <1>2 DEF Held

LEMMA OrderIsStamps ==
  MemInv => \A f, g \in Occupied :
    <<Held(f), Held(g)>> \in ByLastUse <=> frame_table[f].last_used < frame_table[g].last_used
<1> SUFFICES ASSUME MemInv, NEW f \in Occupied, NEW g \in Occupied
             PROVE  <<Held(f), Held(g)>> \in ByLastUse
                      <=> frame_table[f].last_used < frame_table[g].last_used
  OBVIOUS
<1>1. Held(f) \in HeldPages /\ Held(g) \in HeldPages
  BY DEF HeldPages
<1> QED BY <1>1, HeldInjective DEF ByLastUse

\* The same after a step.
LEMMA OrderIsStampsLater ==
  MemInv' => \A f, g \in Occupied' :
    <<Held(f)', Held(g)'>> \in ByLastUse' <=> frame_table'[f].last_used < frame_table'[g].last_used
<1>1. (MemInv => \A f, g \in Occupied :
        <<Held(f), Held(g)>> \in ByLastUse <=> frame_table[f].last_used < frame_table[g].last_used)'
  BY OrderIsStamps, PTL
<1> QED BY <1>1

\* No more pages than frames; all frames are needed for as many pages.
LEMMA HeldCount ==
  MemInv => /\ IsFiniteSet(HeldPages) /\ Cardinality(HeldPages) <= MAX_FRAMES
            /\ FreeFrames = {} => Cardinality(HeldPages) = MAX_FRAMES
<1> SUFFICES ASSUME MemInv
             PROVE  /\ IsFiniteSet(HeldPages) /\ Cardinality(HeldPages) <= MAX_FRAMES
                    /\ FreeFrames = {} => Cardinality(HeldPages) = MAX_FRAMES
  OBVIOUS
<1>1. IsFiniteSet(Frames) /\ Cardinality(Frames) = MAX_FRAMES
  BY FS_Interval, SizesAssumption DEF Frames
<1>2. Occupied \subseteq Frames
  BY DEF Occupied
<1>3. IsFiniteSet(Occupied) /\ Cardinality(Occupied) \in Nat /\ Cardinality(Occupied) <= MAX_FRAMES
  BY <1>1, <1>2, FS_Subset, FS_CardinalityType
<1> DEFINE at == [f \in Occupied |-> Held(f)]
<1>4. at \in Bijection(Occupied, HeldPages)
  <2>1. at \in [Occupied -> HeldPages]
    BY DEF HeldPages
  <2>2. \A f, g \in Occupied : at[f] = at[g] => f = g
    BY HeldInjective
  <2>3. \A x \in HeldPages : \E f \in Occupied : at[f] = x
    BY DEF HeldPages
  <2> HIDE DEF at
  <2>4. at \in Injection(Occupied, HeldPages)
    BY <2>1, <2>2, Fun_IsInj
  <2>5. at \in Surjection(Occupied, HeldPages)
    BY <2>1, <2>3, Fun_IsSurj
  <2> QED BY <2>4, <2>5 DEF Bijection
<1>5. IsFiniteSet(HeldPages) /\ Cardinality(HeldPages) = Cardinality(Occupied)
  BY <1>3, <1>4, FS_Bijection DEF ExistsBijection
<1>6. FreeFrames = {} => Occupied = Frames
  BY DEF FreeFrames, Occupied
<1> QED BY <1>1, <1>3, <1>5, <1>6

LEMMA HeldCountLater ==
  MemInv' => IsFiniteSet(HeldPages') /\ Cardinality(HeldPages') <= MAX_FRAMES
<1>1. (MemInv => IsFiniteSet(HeldPages) /\ Cardinality(HeldPages) <= MAX_FRAMES)'
  BY HeldCount, PTL
<1> QED BY <1>1

\* Frames F are cleared and the others are left alone: their pages go, and the
\* rest keep their order.
LEMMA Kept ==
  ASSUME MemInv, MemInv', NEW F \in SUBSET Frames, SameOutside(F),
         \A f \in F : ~frame_table'[f].occupied
  PROVE  LET gone == {Held(f) : f \in F \cap Occupied}
         IN  /\ HeldPages' = HeldPages \ gone
             /\ ByLastUse' = Cache!Without(gone)
<1> DEFINE gone == {Held(f) : f \in F \cap Occupied}
<1>1. Occupied' = Occupied \ F
  BY DEF Occupied, SameOutside, Frames
<1>2. \A f \in Occupied' : Held(f)' = Held(f) /\ frame_table'[f].last_used = frame_table[f].last_used
  BY <1>1 DEF Held, SameOutside, Occupied
<1>3. \A f \in Occupied : Held(f) \in gone <=> f \in F
  BY HeldInjective DEF Occupied
<1>4. HeldPages' = HeldPages \ gone
  <2>1. HeldPages' = {Held(f)' : f \in Occupied'}
    BY DEF HeldPages
  <2> QED BY <1>1, <1>2, <1>3, <2>1 DEF HeldPages
<1>5. ByLastUse' = Cache!Without(gone)
  <2>1. ASSUME NEW pair \in ByLastUse'
        PROVE  pair \in Cache!Without(gone)
    <3>1. PICK f \in Occupied', g \in Occupied' :
            /\ pair = <<Held(f)', Held(g)'>>
            /\ frame_table'[f].last_used < frame_table'[g].last_used
      BY <2>1 DEF ByLastUse
    <3>2. /\ f \in Occupied /\ g \in Occupied /\ pair = <<Held(f), Held(g)>>
          /\ frame_table[f].last_used < frame_table[g].last_used
      BY <1>1, <1>2, <3>1
    <3>3. pair \in ByLastUse
      BY <3>2, OrderIsStamps
    <3>4. pair[1] \notin gone /\ pair[2] \notin gone
      BY <1>1, <1>3, <3>1, <3>2
    <3> QED BY <3>3, <3>4 DEF Cache!Without
  <2>2. ASSUME NEW pair \in Cache!Without(gone)
        PROVE  pair \in ByLastUse'
    <3>1. pair \in ByLastUse /\ pair[1] \notin gone /\ pair[2] \notin gone
      BY <2>2 DEF Cache!Without
    <3>2. PICK f \in Occupied, g \in Occupied :
            /\ pair = <<Held(f), Held(g)>>
            /\ frame_table[f].last_used < frame_table[g].last_used
      BY <3>1 DEF ByLastUse
    <3>3. f \in Occupied' /\ g \in Occupied'
      BY <1>1, <1>3, <3>1, <3>2
    <3>4. pair = <<Held(f)', Held(g)'>> /\ frame_table'[f].last_used < frame_table'[g].last_used
      BY <1>2, <3>2, <3>3
    <3>5. Held(f)' \in HeldPages' /\ Held(g)' \in HeldPages'
      BY <3>3 DEF HeldPages
    <3> QED BY <3>3, <3>4, <3>5 DEF ByLastUse
  <2> QED BY <2>1, <2>2
<1> QED BY <1>4, <1>5

\* Frame f takes the page x and the stamp of now: x becomes the newest page, and
\* what f held before, if it was occupied, is gone.
LEMMA Refilled ==
  ASSUME MemInv, MemInv', NEW f \in Frames, SameOutside({f}), NEW x,
         frame_table'[f].occupied, Held(f)' = x, frame_table'[f].last_used = clock_value
  PROVE  LET gone == {Held(g) : g \in {f} \cap Occupied}
         IN  /\ HeldPages' = (HeldPages \ gone) \cup {x}
             /\ ByLastUse' = Cache!Without(gone) \cup Cache!Newest(HeldPages \ gone, {x})
<1> DEFINE gone == {Held(g) : g \in {f} \cap Occupied}
           rest == Occupied \ {f}
<1>1. Occupied' = rest \cup {f} /\ f \notin rest /\ rest \subseteq Occupied
  BY DEF Occupied, SameOutside, Frames
<1>2. \A g \in rest : /\ Held(g)' = Held(g)
                      /\ frame_table'[g].last_used = frame_table[g].last_used
                      /\ frame_table[g].last_used < clock_value
  BY DEF Held, SameOutside, Occupied, MemInv, StampsDistinct
<1>3. \A g \in Occupied : Held(g) \in gone <=> g = f
  BY HeldInjective DEF Occupied
<1>4. HeldPages \ gone = {Held(g) : g \in rest}
  BY <1>3 DEF HeldPages
<1>5. HeldPages' = (HeldPages \ gone) \cup {x}
  <2>1. HeldPages' = {Held(g)' : g \in Occupied'}
    BY DEF HeldPages
  <2> QED BY <1>1, <1>2, <1>4, <2>1
<1>6. \A pair \in Cache!Newest(HeldPages \ gone, {x}) : pair \in (HeldPages \ gone) \X {x}
  <2>1. x[2] \in Nat
    BY <1>1, PagesType DEF Held, MemInv, MemTypeOK, NoOrphanFrame, Occupied
  <2>2. ~(x[2] < x[2])
    BY <2>1
  <2> QED BY <2>2 DEF Cache!Newest
<1> DEFINE after == Cache!Without(gone) \cup Cache!Newest(HeldPages \ gone, {x})
<1>7. ASSUME NEW pair \in ByLastUse'
      PROVE  pair \in after
  <2>1. PICK g \in Occupied', h \in Occupied' :
          /\ pair = <<Held(g)', Held(h)'>>
          /\ frame_table'[g].last_used < frame_table'[h].last_used
    BY <1>7 DEF ByLastUse
  <2>2. g \in rest
    <3>1. clock_value \in Nat /\ frame_table'[h].last_used \in Nat
      BY <2>1 DEF MemInv, MemTypeOK, FrameEntry, Occupied
    <3>2. frame_table'[h].last_used <= clock_value
      BY <1>1, <1>2, <3>1
    <3> QED BY <1>1, <2>1, <3>1, <3>2
  <2>3. CASE h \in rest
    <3>1. pair = <<Held(g), Held(h)>> /\ frame_table[g].last_used < frame_table[h].last_used
      BY <1>2, <2>1, <2>2, <2>3
    <3>2. pair \in ByLastUse
      BY <1>1, <2>2, <2>3, <3>1, OrderIsStamps
    <3>3. pair[1] \notin gone /\ pair[2] \notin gone
      BY <1>1, <1>3, <2>2, <2>3, <3>1
    <3> QED BY <3>2, <3>3 DEF Cache!Without
  <2>4. CASE h = f
    <3>1. pair = <<Held(g), x>> /\ Held(g) \in HeldPages \ gone
      BY <1>2, <1>4, <2>1, <2>2, <2>4
    <3> QED BY <3>1 DEF Cache!Newest
  <2> QED BY <1>1, <2>3, <2>4
<1>8. ASSUME NEW pair \in after
      PROVE  pair \in ByLastUse'
  <2>1. CASE pair \in Cache!Without(gone)
    <3>1. pair \in ByLastUse /\ pair[1] \notin gone /\ pair[2] \notin gone
      BY <2>1 DEF Cache!Without
    <3>2. PICK g \in Occupied, h \in Occupied :
            /\ pair = <<Held(g), Held(h)>>
            /\ frame_table[g].last_used < frame_table[h].last_used
      BY <3>1 DEF ByLastUse
    <3>3. g \in rest /\ h \in rest
      BY <1>3, <3>1, <3>2
    <3>4. /\ pair = <<Held(g)', Held(h)'>>
          /\ frame_table'[g].last_used < frame_table'[h].last_used
      BY <1>2, <3>2, <3>3
    <3> QED BY <1>1, <3>3, <3>4, OrderIsStampsLater
  <2>2. CASE pair \in Cache!Newest(HeldPages \ gone, {x})
    <3>1. PICK g \in rest : pair = <<Held(g), x>>
      BY <1>4, <1>6, <2>2
    <3>2. /\ pair = <<Held(g)', Held(f)'>>
          /\ frame_table'[g].last_used < frame_table'[f].last_used
      BY <1>2, <3>1
    <3> QED BY <1>1, <3>1, <3>2, OrderIsStampsLater
  <2> QED BY <2>1, <2>2
<1> QED BY <1>5, <1>7, <1>8
-----------------------------------------------------------------------------
\* What no step of the cache would notice.
LEMMA Unmoved ==
  ASSUME MemInv, MemInv', SameOutside({})
  PROVE  UNCHANGED <<HeldPages, ByLastUse>>
<1>1. {Held(f) : f \in {} \cap Occupied} = {}
  OBVIOUS
<1>2. HeldPages' = HeldPages \ {} /\ ByLastUse' = Cache!Without({})
  BY <1>1, Kept
<1> QED BY <1>2 DEF Cache!Without

\* The pages of a script that is not loaded, and a page that is not resident
\* for its script, are in no frame.
LEMMA NotHeld ==
  ASSUME MemInv, NEW s \in Scripts, NEW p
  PROVE  (s \in loaded_scripts => script_table[s][p] = NoFrame) => <<s, p>> \notin HeldPages
<1> SUFFICES ASSUME s \in loaded_scripts => script_table[s][p] = NoFrame,
                    NEW f \in Occupied, Held(f) = <<s, p>>
             PROVE  FALSE
  BY DEF HeldPages
<1>1. s \in loaded_scripts /\ script_table[s][p] = f
  BY DEF MemInv, NoOrphanFrame, Held, Occupied
<1>2. f \in Frames /\ f # NoFrame
  BY DEF Occupied, Frames, NoFrame
<1> QED BY <1>1, <1>2

\* In a full store the page of the victim is the oldest one.
LEMMA VictimIsOldest ==
  ASSUME MemInv, NEW f \in Frames, IsVictim(f)
  PROVE  f \in Occupied /\ Cache!IsOldest(Held(f))
<1>1. f \in Occupied /\ Held(f) \in HeldPages
  BY DEF IsVictim, Occupied, HeldPages
<1>2. ASSUME NEW x \in HeldPages \ {Held(f)}
      PROVE  <<Held(f), x>> \in ByLastUse
  <2>1. PICK g \in Occupied : x = Held(g)
    BY DEF HeldPages
  <2>2. g # f /\ g \in Frames /\ frame_table[g].occupied /\ frame_table[f].occupied
    BY <1>1, <1>2, <2>1 DEF Occupied
  <2>3. frame_table[f].last_used # frame_table[g].last_used
    BY <2>2 DEF MemInv, StampsDistinct
  <2>4. frame_table[f].last_used < frame_table[g].last_used
    BY <2>2, <2>3 DEF IsVictim
  <2> QED BY <1>1, <2>1, <2>4, OrderIsStamps
<1> QED BY <1>1, <1>2 DEF Cache!IsOldest

LEMMA LoadScriptStep ==
  ASSUME MemInv, MemInv', NEW s \in Scripts, LoadScript(s)
  PROVE  Cache!Fill({s} \X InitialPages(s))
<1> DEFINE I == InitialPages(s)
<1>1. PICK at \in [I -> FreeFrames] :
        /\ \A o, p \in I : at[o] = at[p] => o = p
        /\ \A p \in I : LET e == frame_table'[at[p]]
                        IN  /\ e \in FrameEntry /\ e.occupied /\ e.script = s /\ e.page = p
                            /\ e.last_used = clock_value + p /\ e.using = {}
        /\ \A f \in Frames : (\A p \in I : at[p] # f) => frame_table'[f] = frame_table[f]
        /\ frame_table' = [f \in Frames |-> frame_table'[f]]
        /\ script_table' = [script_table EXCEPT ![s] =
             [p \in AllPages |-> IF p \in I THEN at[p] ELSE NoFrame]]
  BY LoadScriptFrames
<1>2. s \notin loaded_scripts
  BY DEF LoadScript
<1>3. I \subseteq Nat
  BY InitialPagesInterval, PagesType
<1> HIDE DEF I
<1> DEFINE taken == {at[p] : p \in I}
<1>4. taken \subseteq FreeFrames /\ taken \cap Occupied = {}
  BY <1>1 DEF FreeFrames, Occupied
<1>5. Occupied' = Occupied \cup taken
  BY <1>1 DEF Occupied, FreeFrames
<1>6. \A p \in I : at[p] \in Occupied' /\ Held(at[p])' = <<s, p>> /\ frame_table'[at[p]].last_used = clock_value + p
  BY <1>1, <1>5 DEF Held
<1>7. \A f \in Occupied : /\ f \in Occupied' /\ Held(f)' = Held(f)
                          /\ frame_table'[f].last_used = frame_table[f].last_used
                          /\ frame_table[f].last_used \in Nat
                          /\ frame_table[f].last_used < clock_value
  <2>1. \A f \in Occupied : f \in Frames /\ \A p \in I : at[p] # f
    BY <1>4 DEF Occupied
  <2>2. \A f \in Occupied : frame_table'[f] = frame_table[f]
    BY <1>1, <2>1
  <2>3. \A f \in Frames : frame_table[f].last_used \in Nat
    BY DEF MemInv, MemTypeOK, FrameEntry
  <2> QED BY <1>5, <2>2, <2>3 DEF Held, MemInv, StampsDistinct, Occupied
<1>8. clock_value \in Nat
  BY DEF MemInv, MemTypeOK
<1>9. HeldPages' = HeldPages \cup ({s} \X I)
  <2>1. HeldPages' = {Held(f)' : f \in Occupied'}
    BY DEF HeldPages
  <2>2. {Held(f)' : f \in Occupied'} = {Held(f)' : f \in Occupied} \cup {Held(f)' : f \in taken}
    BY <1>5
  <2>3. {Held(f)' : f \in Occupied} = HeldPages
    BY <1>7 DEF HeldPages
  <2>4. {Held(f)' : f \in taken} = {s} \X I
    BY <1>6
  <2> QED BY <2>1, <2>2, <2>3, <2>4
<1>10. ({s} \X I) \cap HeldPages = {}
  BY <1>2, NotHeld
<1>11. IsFiniteSet(HeldPages') /\ Cardinality(HeldPages') <= MAX_FRAMES
  BY HeldCountLater
<1> DEFINE after == ByLastUse \cup Cache!Newest(HeldPages, {s} \X I)
<1>12. ASSUME NEW pair \in ByLastUse'
       PROVE  pair \in after
  <2>1. PICK f \in Occupied', g \in Occupied' :
          /\ pair = <<Held(f)', Held(g)'>>
          /\ frame_table'[f].last_used < frame_table'[g].last_used
    BY <1>12 DEF ByLastUse
  <2>2. CASE f \in Occupied /\ g \in Occupied
    BY <1>7, <2>1, <2>2, OrderIsStamps
  <2>3. CASE f \in Occupied /\ g \in taken
    <3>1. pair[1] \in HeldPages /\ pair[2] \in {s} \X I /\ pair = <<pair[1], pair[2]>>
      BY <1>6, <1>7, <2>1, <2>3 DEF HeldPages
    <3> QED BY <3>1 DEF Cache!Newest
  <2>4. CASE f \in taken /\ g \in Occupied
    <3>1. PICK p \in I : f = at[p]
      BY <2>4
    <3> QED BY <1>3, <1>6, <1>7, <1>8, <2>1, <2>4, <3>1
  <2>5. CASE f \in taken /\ g \in taken
    <3>1. PICK o \in I, p \in I : f = at[o] /\ g = at[p]
      BY <2>5
    <3>2. pair = <<<<s, o>>, <<s, p>>>> /\ o < p
      BY <1>3, <1>6, <1>8, <2>1, <3>1
    <3> QED BY <3>2 DEF Cache!Newest
  <2> QED BY <1>5, <2>2, <2>3, <2>4, <2>5
<1>13. ASSUME NEW pair \in after
       PROVE  pair \in ByLastUse'
  <2>1. CASE pair \in ByLastUse
    <3>1. PICK f \in Occupied, g \in Occupied :
            pair = <<Held(f), Held(g)>> /\ frame_table[f].last_used < frame_table[g].last_used
      BY <2>1 DEF ByLastUse
    <3> QED BY <1>7, <3>1, OrderIsStampsLater
  <2>2. CASE pair \in HeldPages \X ({s} \X I)
    <3>1. PICK f \in Occupied, p \in I : pair = <<Held(f), <<s, p>>>>
      BY <2>2 DEF HeldPages
    <3>2. /\ pair = <<Held(f)', Held(at[p])'>>
          /\ frame_table'[f].last_used < frame_table'[at[p]].last_used
      BY <1>3, <1>6, <1>7, <1>8, <3>1
    <3> QED BY <1>6, <1>7, <3>2, OrderIsStampsLater
  <2>3. CASE \E o, p \in I : pair = <<<<s, o>>, <<s, p>>>> /\ o < p
    <3>1. PICK o \in I, p \in I : pair = <<<<s, o>>, <<s, p>>>> /\ o < p
      BY <2>3
    <3>2. /\ pair = <<Held(at[o])', Held(at[p])'>>
          /\ frame_table'[at[o]].last_used < frame_table'[at[p]].last_used
      BY <1>3, <1>6, <1>8, <3>1
    <3> QED BY <1>6, <3>2, OrderIsStampsLater
  <2> QED BY <2>1, <2>2, <2>3 DEF Cache!Newest
<1>14. ByLastUse' = after
  BY <1>12, <1>13
<1> QED BY <1>9, <1>10, <1>11, <1>14, SameCardinality DEF Cache!Fill, I

LEMMA RollbackStep ==
  ASSUME MemInv, MemInv', NEW S \in SUBSET loaded_scripts, NEW Q \in SUBSET live_pcbs,
         Rollback(S, Q)
  PROVE  Cache!Forget(S)
<1> DEFINE gone == {Held(f) : f \in FramesOf(S) \cap Occupied}
<1>1. FramesOf(S) \subseteq Frames /\ SameOutside(FramesOf(S))
  BY RollbackFrames DEF SameOutside, FramesOf
<1>2. \A f \in FramesOf(S) : ~frame_table'[f].occupied
  BY RollbackFrames, ClearFrameType
<1>3. HeldPages' = HeldPages \ gone /\ ByLastUse' = Cache!Without(gone)
  BY <1>1, <1>2, Kept
<1>4. gone = {x \in HeldPages : x[1] \in S}
  <2> SUFFICES ASSUME NEW f \in Occupied
               PROVE  f \in FramesOf(S) <=> Held(f)[1] \in S
    BY DEF HeldPages
  <2>1. /\ f \in Frames
        /\ frame_table[f].page \in AllPages
        /\ script_table[frame_table[f].script][frame_table[f].page] = f
    BY PagesType DEF MemInv, MemTypeOK, NoOrphanFrame, Occupied
  <2>2. ASSUME NEW s \in S, NEW p \in AllPages, script_table[s][p] = f
        PROVE  frame_table[f].script = s
    BY <2>1, <2>2 DEF MemInv, NoDanglingEntry, Frames, NoFrame
  <2> QED BY <2>1, <2>2 DEF FramesOf, Held
<1>5. HeldPages \ gone = {x \in HeldPages : x[1] \notin S}
  BY <1>4
<1> QED BY <1>3, <1>4, <1>5 DEF Cache!Forget

LEMMA FetchStep ==
  ASSUME MemInv, MemInv', NEW q \in Pids, NEW p \in AllPages, Fetch(q, p)
  PROVE  LET x == <<pcb_script[q], p>> IN x \in Scripts \X AllPages /\ Cache!Touch(x)
<1>0. LET h == pcb_table[q][p] IN
      /\ h \in Frames /\ frame_table[h].occupied
      /\ frame_table' = [frame_table EXCEPT ![h].last_used = clock_value]
      /\ clock_value' = clock_value + 1
      /\ UNCHANGED <<loaded_scripts, script_table, live_pcbs, pcb_script, pcb_table>>
      /\ \A f \in Frames :
           /\ frame_table'[f] \in FrameEntry
           /\ frame_table'[f].occupied = frame_table[f].occupied
           /\ frame_table'[f].script = frame_table[f].script
           /\ frame_table'[f].page = frame_table[f].page
           /\ frame_table'[f].using = frame_table[f].using
           /\ frame_table'[f].last_used = IF f = h THEN clock_value ELSE frame_table[f].last_used
  BY FetchFrame
<1>1. PICK h \in Frames :
        /\ h = pcb_table[q][p]
        /\ frame_table[h].occupied
        /\ \A f \in Frames :
             /\ frame_table'[f].occupied = frame_table[f].occupied
             /\ frame_table'[f].script = frame_table[f].script
             /\ frame_table'[f].page = frame_table[f].page
             /\ frame_table'[f].last_used = IF f = h THEN clock_value ELSE frame_table[f].last_used
  BY <1>0, Zenon
<1>2. SameOutside({h}) /\ frame_table'[h].occupied /\ frame_table'[h].last_used = clock_value
  BY <1>1 DEF SameOutside
<1>3. Held(h)' = Held(h)
  BY <1>1 DEF Held
<1>4. {Held(f) : f \in {h} \cap Occupied} = {Held(h)}
  BY <1>1 DEF Occupied
<1>5. /\ HeldPages' = (HeldPages \ {Held(h)}) \cup {Held(h)}
      /\ ByLastUse' = Cache!Without({Held(h)}) \cup Cache!Newest(HeldPages \ {Held(h)}, {Held(h)})
  BY <1>1, <1>2, <1>3, <1>4, Refilled
<1>6. Held(h) \in HeldPages /\ Held(h) \in Scripts \X AllPages
  BY <1>1, PagesType DEF Held, HeldPages, Occupied, MemInv, MemTypeOK, NoOrphanFrame
<1>7. HeldPages' = HeldPages
  BY <1>5, <1>6
<1>8. Held(h) = <<pcb_script[q], p>>
  <2>1. q \in live_pcbs /\ pcb_table[q][p] # NoFrame
    BY DEF Fetch
  <2>2. pcb_script[q] \in loaded_scripts /\ script_table[pcb_script[q]][p] = h /\ h # NoFrame
    BY <1>1, <2>1 DEF MemInv, TablesAgree
  <2> QED BY <2>2 DEF MemInv, NoDanglingEntry, Held
<1> QED BY <1>5, <1>6, <1>7, <1>8 DEF Cache!Touch

LEMMA DemandLoadStep ==
  ASSUME MemInv, MemInv', NEW q \in Pids, NEW p \in AllPages, DemandLoad(q, p)
  PROVE  LET x == <<pcb_script[q], p>>
         IN  x \in Scripts \X AllPages /\ (Cache!Replace(x) \/ Cache!Fill({x[1]} \X {x[2]}))
<1> DEFINE s == pcb_script[q]
<1>1. s \in loaded_scripts /\ s \in Scripts /\ script_table[s][p] = NoFrame
  BY DEF DemandLoad, Faulting, MemInv, MemTypeOK, TablesAgree
<1>2. PICK f \in Frames :
        /\ IsFaultFrame(f)
        /\ Publish([Available(f) EXCEPT ![f] = FilledFrame(@, s, p, clock_value)],
                   ScriptTablesWithout(f), PcbTablesWithout(f), s, p, f)
  BY <1>1 DEF DemandLoad, ResidentForScript
<1> HIDE DEF s
<1> DEFINE x == <<s, p>>
           gone == {Held(g) : g \in {f} \cap Occupied}
<1>3. SameOutside({f}) /\ frame_table'[f].occupied /\ Held(f)' = x /\ frame_table'[f].last_used = clock_value
  BY <1>1, <1>2, PublishFrames DEF SameOutside, Held
<1>4. /\ HeldPages' = (HeldPages \ gone) \cup {x}
      /\ ByLastUse' = Cache!Without(gone) \cup Cache!Newest(HeldPages \ gone, {x})
  <2> HIDE DEF x
  <2> QED BY <1>3, Refilled
<1>5. x \in Scripts \X AllPages /\ x \notin HeldPages
  BY <1>1, NotHeld
<1>6. CASE f \in FreeFrames
  <2>1. gone = {}
    BY <1>6 DEF FreeFrames, Occupied
  <2>2. HeldPages' = HeldPages \cup {x} /\ ByLastUse' = ByLastUse \cup Cache!Newest(HeldPages, {x})
    BY <1>4, <2>1 DEF Cache!Without
  <2>3. {x[1]} \X {x[2]} = {x}
    OBVIOUS
  <2>4. Cardinality(HeldPages') <= MAX_FRAMES
    BY HeldCountLater
  <2>5. Cache!Fill({x[1]} \X {x[2]})
    BY <1>5, <2>2, <2>3, <2>4, SameCardinality DEF Cache!Fill
  <2> QED BY <1>5, <2>5 DEF s
<1>7. CASE f \notin FreeFrames
  <2>1. FreeFrames = {} /\ IsVictim(f)
    BY <1>2, <1>7 DEF IsFaultFrame, IsLowest
  <2>2. f \in Occupied /\ Cache!IsOldest(Held(f))
    BY <2>1, VictimIsOldest
  <2>3. gone = {Held(f)}
    BY <2>2
  <2>4. Held(f) \in HeldPages /\ Cardinality(HeldPages) = MAX_FRAMES
    BY <2>1, <2>2, HeldCount DEF HeldPages
  <2>5. Cache!Replace(x)
    BY <1>4, <1>5, <2>2, <2>3, <2>4, SameCardinality DEF Cache!Replace
  <2> QED BY <1>5, <2>5 DEF s
<1> QED BY <1>6, <1>7

LEMMA DemandLoadFailsStep ==
  ASSUME MemInv, MemInv', NEW q \in Pids, NEW p \in AllPages, DemandLoadFails(q, p)
  PROVE  Cache!Discard \/ UNCHANGED <<HeldPages, ByLastUse>>
<1>1. PICK f \in Frames :
        /\ IsFaultFrame(f)
        /\ frame_table' = Available(f) \/ frame_table' = [Available(f) EXCEPT ![f] = ClearFrame]
  BY DEF DemandLoadFails
<1>2. frame_table'[f] = ClearFrame /\ \A g \in Frames \ {f} : frame_table'[g] = frame_table[g]
  BY <1>1, AvailableClears DEF MemInv, MemTypeOK
<1>3. CASE f \in FreeFrames
  <2>1. SameOutside({})
    BY <1>2, <1>3 DEF SameOutside, MemInv, FreeFramesClear
  <2> QED BY <2>1, Unmoved
<1>4. CASE f \notin FreeFrames
  <2>1. FreeFrames = {} /\ IsVictim(f)
    BY <1>1, <1>4 DEF IsFaultFrame, IsLowest
  <2>2. f \in Occupied /\ Cache!IsOldest(Held(f))
    BY <2>1, VictimIsOldest
  <2>3. {Held(g) : g \in {f} \cap Occupied} = {Held(f)}
    BY <2>2
  <2>4. SameOutside({f}) /\ \A g \in {f} : ~frame_table'[g].occupied
    BY <1>2, ClearFrameType DEF SameOutside
  <2>5. HeldPages' = HeldPages \ {Held(f)} /\ ByLastUse' = Cache!Without({Held(f)})
    BY <2>3, <2>4, Kept
  <2>6. Held(f) \in HeldPages /\ Cardinality(HeldPages) = MAX_FRAMES
    BY <2>1, <2>2, HeldCount DEF HeldPages
  <2>7. Cache!Discard
    BY <2>2, <2>5, <2>6, SameCardinality DEF Cache!Discard
  <2> QED BY <2>7
<1> QED BY <1>3, <1>4

\* The other operations leave the pages and the stamps of the frames alone.
LEMMA QuietStep ==
  ASSUME MemInv, MemInv',
         \/ \E s \in Scripts : LoadScriptFails(s)
         \/ \E q \in Pids, s \in Scripts : RegisterPcb(q, s)
         \/ \E q \in Pids : UnregisterPcb(q)
         \/ UNCHANGED memVars
  PROVE  UNCHANGED <<HeldPages, ByLastUse>>
<1>1. CASE \E s \in Scripts : LoadScriptFails(s)
  <2>1. frame_table' = frame_table
    BY <1>1 DEF LoadScriptFails, MemInv, MemTypeOK, FreeFramesClear
  <2> QED BY <2>1, Unmoved DEF SameOutside
<1>2. CASE \E q \in Pids, s \in Scripts : RegisterPcb(q, s)
  <2>1. PICK q \in Pids, s \in Scripts : RegisterPcb(q, s)
    BY <1>2
  <2>2. \A f \in Frames :
          \/ frame_table'[f] = frame_table[f]
          \/ frame_table'[f] = [frame_table[f] EXCEPT !.using = Registered(@, {q})]
    BY <2>1 DEF RegisterPcb
  <2>3. \A f \in Frames : frame_table[f] \in FrameEntry
    BY DEF MemInv, MemTypeOK
  <2>4. SameOutside({})
    BY <2>2, <2>3 DEF SameOutside, FrameEntry
  <2> QED BY <2>4, Unmoved
<1>3. CASE \E q \in Pids : UnregisterPcb(q)
  <2>1. PICK q \in Pids : frame_table' = WithoutPcbs(frame_table, {q})
    BY <1>3 DEF UnregisterPcb
  <2>2. frame_table \in [Frames -> FrameEntry]
    BY DEF MemInv, MemTypeOK
  <2>3. SameOutside({})
    BY <2>1, <2>2, WithoutPcbsFields DEF SameOutside
  <2> QED BY <2>3, Unmoved
<1>4. CASE UNCHANGED memVars
  BY <1>4, Unmoved DEF SameOutside, memVars
<1> QED BY <1>1, <1>2, <1>3, <1>4

LEMMA CacheStep ==
  MemInv /\ MemInv' /\ [MemNext]_memVars => [Cache!CacheNext]_(Cache!cacheVars)
<1> SUFFICES ASSUME MemInv, MemInv', [MemNext]_memVars
             PROVE  [Cache!CacheNext]_(Cache!cacheVars)
  OBVIOUS
<1>1. CASE \E s \in Scripts : LoadScript(s)
  <2>1. PICK s \in Scripts : LoadScript(s)
    BY <1>1
  <2>2. InitialPages(s) \in SUBSET AllPages
    BY InitialPagesInterval, PagesType
  <2> QED BY <2>1, <2>2, LoadScriptStep DEF Cache!CacheNext
<1>2. CASE \E S \in SUBSET loaded_scripts, Q \in SUBSET live_pcbs : Rollback(S, Q)
  <2>1. PICK S \in SUBSET loaded_scripts, Q \in SUBSET live_pcbs : Rollback(S, Q)
    BY <1>2
  <2>2. S \in SUBSET Scripts
    BY DEF MemInv, MemTypeOK
  <2> QED BY <2>1, <2>2, RollbackStep DEF Cache!CacheNext
<1>3. CASE \E q \in Pids, p \in AllPages : Fetch(q, p)
  BY <1>3, FetchStep DEF Cache!CacheNext
<1>4. CASE \E q \in Pids, p \in AllPages : DemandLoad(q, p)
  <2>1. PICK x \in Scripts \X AllPages : Cache!Replace(x) \/ Cache!Fill({x[1]} \X {x[2]})
    BY <1>4, DemandLoadStep, Zenon
  <2>2. x[1] \in Scripts /\ {x[2]} \in SUBSET AllPages
    OBVIOUS
  <2> QED BY <2>1, <2>2 DEF Cache!CacheNext
<1>5. CASE \E q \in Pids, p \in AllPages : DemandLoadFails(q, p)
  BY <1>5, DemandLoadFailsStep DEF Cache!CacheNext, Cache!cacheVars
<1>6. CASE \/ \E s \in Scripts : LoadScriptFails(s)
           \/ \E q \in Pids, s \in Scripts : RegisterPcb(q, s)
           \/ \E q \in Pids : UnregisterPcb(q)
           \/ UNCHANGED memVars
  BY <1>6, QuietStep DEF Cache!cacheVars
<1> QED BY <1>1, <1>2, <1>3, <1>4, <1>5, <1>6 DEF MemNext

\* Demand paging implements a least-recently-used cache of MAX_FRAMES pages, for
\* every set of scripts and any number of processes that share them.
THEOREM MemoryIsLruCache == MemSpec => EvictsLeastRecent
<1>1. MemInit => Cache!CacheInit
  <2>1. MemInit => Occupied = {}
    BY DEF MemInit, Occupied, ClearFrame
  <2> QED BY <2>1 DEF Cache!CacheInit, HeldPages, ByLastUse
<1> QED BY <1>1, CacheStep, MemoryInvariant, PTL DEF MemSpec, EvictsLeastRecent, Cache!CacheSpec

-----------------------------------------------------------------------------
\* The order of the pages is that of the numbers of their last uses.
UseInv ==
  /\ uses \in Nat
  /\ last_use \in [Scripts \X AllPages -> Nat]
  /\ HeldPages \subseteq Scripts \X AllPages
  /\ \A x \in HeldPages : last_use[x] <= uses
  /\ \A x, y \in HeldPages : <<x, y>> \in ByLastUse <=> last_use[x] < last_use[y]

\* Pages T stay as they were and pages S are used, in the order of their numbers.
LEMMA UsedAfter ==
  ASSUME UseInv, NEW T \in SUBSET HeldPages, NEW S \in SUBSET (Scripts \X AllPages),
         T \cap S = {},
         HeldPages' = T \cup S,
         ByLastUse' = Cache!Without(HeldPages \ T) \cup Cache!Newest(T, S),
         uses' \in Nat, uses <= uses', last_use' \in [Scripts \X AllPages -> Nat],
         \A x \in T : last_use'[x] = last_use[x],
         \A x \in S : uses < last_use'[x] /\ last_use'[x] <= uses',
         \A x, y \in S : x[2] < y[2] <=> last_use'[x] < last_use'[y]
  PROVE  UseInv'
<1>1. HeldPages' \subseteq Scripts \X AllPages
  BY DEF UseInv
<1>2. \A x \in T : last_use[x] \in Nat /\ last_use'[x] = last_use[x] /\ last_use[x] <= uses /\ uses \in Nat
  BY DEF UseInv
<1>3. \A x \in S : last_use'[x] \in Nat
  OBVIOUS
<1>4. \A x \in HeldPages' : last_use'[x] <= uses'
  BY <1>2
<1>5. ASSUME NEW x \in HeldPages', NEW y \in HeldPages'
      PROVE  <<x, y>> \in ByLastUse' <=> last_use'[x] < last_use'[y]
  <2>1. CASE x \in T /\ y \in T
    <3>1. <<x, y>> \in ByLastUse' <=> <<x, y>> \in ByLastUse
      BY <2>1 DEF Cache!Without, Cache!Newest
    <3> QED BY <1>2, <2>1, <3>1 DEF UseInv
  <2>2. CASE x \in T /\ y \in S
    <3>1. <<x, y>> \in ByLastUse'
      BY <2>2 DEF Cache!Newest
    <3> QED BY <1>2, <1>3, <2>2, <3>1
  <2>3. CASE x \in S /\ y \in T
    <3>1. <<x, y>> \notin ByLastUse'
      <4>1. x \notin T /\ y \notin S
        BY <2>3
      <4>2. <<x, y>> \notin Cache!Newest(T, S)
        BY <4>1 DEF Cache!Newest
      <4>3. <<x, y>> \notin Cache!Without(HeldPages \ T)
        BY <4>1 DEF Cache!Without, ByLastUse
      <4> QED BY <4>2, <4>3
    <3>2. uses < last_use'[x] /\ last_use'[x] \in Nat
      BY <1>3, <2>3
    <3>3. last_use'[y] <= uses /\ last_use'[y] \in Nat /\ uses \in Nat
      BY <1>2, <2>3
    <3>4. ~(last_use'[x] < last_use'[y])
      BY <3>2, <3>3
    <3> QED BY <3>1, <3>4
  <2>4. CASE x \in S /\ y \in S
    <3>1. <<x, y>> \in ByLastUse' <=> x[2] < y[2]
      <4>1. x \notin T /\ y \notin T
        BY <2>4
      <4>2. <<x, y>> \in Cache!Newest(T, S) <=> x[2] < y[2]
        BY <2>4, <4>1 DEF Cache!Newest
      <4>3. <<x, y>> \notin Cache!Without(HeldPages \ T)
        BY <4>1 DEF Cache!Without, ByLastUse
      <4> QED BY <4>2, <4>3
    <3> QED BY <2>4, <3>1
  <2> QED BY <2>1, <2>2, <2>3, <2>4
<1> QED BY <1>1, <1>4, <1>5 DEF UseInv

LEMMA LoadScriptUse ==
  ASSUME MemInv, UseInv, NEW s \in Scripts, Cache!Fill({s} \X InitialPages(s)), InitialUses(s)
  PROVE  UseInv'
<1> DEFINE n == Cardinality(InitialPages(s))
           S == {s} \X InitialPages(s)
<1>1. /\ InitialPages(s) \subseteq AllPages
      /\ n \in Nat
      /\ \A p \in InitialPages(s) : p \in Nat /\ p < n
  BY InitialPagesInterval, PagesType
<1> HIDE DEF n
<1>2. uses' = uses + n /\ uses \in Nat /\ last_use \in [Scripts \X AllPages -> Nat]
  BY DEF InitialUses, UseInv, n
<1>3. last_use' = [x \in Scripts \X AllPages |->
        IF x[1] = s /\ x[2] \in InitialPages(s) THEN uses + x[2] + 1 ELSE last_use[x]]
  BY <1>2 DEF InitialUses
<1>4. \A x \in S : x \in Scripts \X AllPages /\ x[1] = s /\ x[2] \in InitialPages(s)
  BY <1>1
<1>5. \A x \in S : last_use'[x] = uses + x[2] + 1
  BY <1>3, <1>4
<1>6. \A x \in S : uses < last_use'[x] /\ last_use'[x] <= uses'
  BY <1>1, <1>2, <1>4, <1>5
<1>7. \A x, y \in S : x[2] < y[2] <=> last_use'[x] < last_use'[y]
  BY <1>1, <1>2, <1>4, <1>5
<1>8. last_use' \in [Scripts \X AllPages -> Nat]
  <2>1. ASSUME NEW x \in Scripts \X AllPages
        PROVE  (IF x[1] = s /\ x[2] \in InitialPages(s) THEN uses + x[2] + 1 ELSE last_use[x]) \in Nat
    BY <1>1, <1>2
  <2> QED BY <1>3, <2>1
<1>9. \A x \in HeldPages : last_use'[x] = last_use[x]
  <2>1. S \cap HeldPages = {} /\ HeldPages \subseteq Scripts \X AllPages
    BY DEF Cache!Fill, UseInv
  <2>2. \A x \in HeldPages : ~(x[1] = s /\ x[2] \in InitialPages(s))
    BY <2>1
  <2> QED BY <1>3, <2>1, <2>2
<1>10. /\ S \cap HeldPages = {} /\ HeldPages' = HeldPages \cup S
       /\ ByLastUse' = Cache!Without(HeldPages \ HeldPages) \cup Cache!Newest(HeldPages, S)
  BY DEF Cache!Fill, Cache!Without
<1>11. S \in SUBSET (Scripts \X AllPages) /\ uses' \in Nat /\ uses <= uses'
  BY <1>1, <1>2
<1> HIDE DEF S
<1> QED BY <1>6, <1>7, <1>8, <1>9, <1>10, <1>11, UsedAfter

\* One page is used, and others may go.
LEMMA PageUse ==
  ASSUME MemInv, UseInv, NEW x \in Scripts \X AllPages, NEW T \in SUBSET HeldPages,
         x \notin T,
         HeldPages' = T \cup {x},
         ByLastUse' = Cache!Without(HeldPages \ T) \cup Cache!Newest(T, {x}),
         uses' = uses + 1, last_use' = [last_use EXCEPT ![x] = uses + 1]
  PROVE  UseInv'
<1>1. uses \in Nat /\ last_use \in [Scripts \X AllPages -> Nat] /\ T \subseteq Scripts \X AllPages
  BY DEF UseInv
<1>2. uses' \in Nat /\ uses <= uses' /\ last_use' \in [Scripts \X AllPages -> Nat]
  BY <1>1
<1>3. \A y \in T : last_use'[y] = last_use[y]
  BY <1>1
<1>4. \A y \in {x} : uses < last_use'[y] /\ last_use'[y] <= uses'
  BY <1>1
<1>5. \A y, z \in {x} : y[2] < z[2] <=> last_use'[y] < last_use'[z]
  <2>1. x[2] \in Nat /\ last_use'[x] \in Nat
    BY <1>2, PagesType
  <2> QED BY <2>1
<1>6. T \cap {x} = {} /\ {x} \in SUBSET (Scripts \X AllPages)
  OBVIOUS
<1> QED BY <1>2, <1>3, <1>4, <1>5, <1>6, UsedAfter

LEMMA FetchUse ==
  ASSUME MemInv, MemInv', UseInv, NEW q \in Pids, NEW p \in AllPages, Fetch(q, p), UseOf(q, p)
  PROVE  UseInv'
<1> DEFINE x == <<pcb_script[q], p>>
           T == HeldPages \ {x}
<1>1. x \in Scripts \X AllPages /\ Cache!Touch(x)
  BY FetchStep
<1>2. uses' = uses + 1 /\ last_use' = [last_use EXCEPT ![x] = uses + 1]
  BY DEF UseOf
<1> HIDE DEF x
<1>3. x \in HeldPages /\ HeldPages' = HeldPages
  BY <1>1 DEF Cache!Touch
<1>4. HeldPages \ T = {x} /\ HeldPages' = T \cup {x} /\ T \in SUBSET HeldPages /\ x \notin T
  BY <1>3
<1>5. ByLastUse' = Cache!Without(HeldPages \ T) \cup Cache!Newest(T, {x})
  BY <1>1, <1>4 DEF Cache!Touch
<1> HIDE DEF T
<1> QED BY <1>1, <1>2, <1>4, <1>5, PageUse

LEMMA DemandLoadUse ==
  ASSUME MemInv, MemInv', UseInv, NEW q \in Pids, NEW p \in AllPages, DemandLoad(q, p), UseOf(q, p)
  PROVE  UseInv'
<1> DEFINE x == <<pcb_script[q], p>>
<1>1. x \in Scripts \X AllPages /\ (Cache!Replace(x) \/ Cache!Fill({x[1]} \X {x[2]}))
  BY DemandLoadStep
<1>2. uses' = uses + 1 /\ last_use' = [last_use EXCEPT ![x] = uses + 1]
  BY DEF UseOf
<1> HIDE DEF x
<1>3. CASE Cache!Replace(x)
  <2>1. PICK v \in HeldPages :
          /\ HeldPages' = (HeldPages \ {v}) \cup {x}
          /\ ByLastUse' = Cache!Without({v}) \cup Cache!Newest(HeldPages \ {v}, {x})
    BY <1>3 DEF Cache!Replace
  <2>2. x \notin HeldPages
    BY <1>3 DEF Cache!Replace
  <2> DEFINE T == HeldPages \ {v}
  <2>3. HeldPages \ T = {v} /\ T \in SUBSET HeldPages /\ x \notin T
    BY <2>2
  <2> QED BY <1>1, <1>2, <2>1, <2>3, PageUse
<1>4. CASE Cache!Fill({x[1]} \X {x[2]})
  <2>1. {x[1]} \X {x[2]} = {x}
    BY <1>1
  <2>2. /\ x \notin HeldPages /\ HeldPages' = HeldPages \cup {x}
        /\ ByLastUse' = Cache!Without(HeldPages \ HeldPages) \cup Cache!Newest(HeldPages, {x})
    BY <1>4, <2>1 DEF Cache!Fill, Cache!Without
  <2> QED BY <1>1, <1>2, <2>2, PageUse
<1> QED BY <1>1, <1>3, <1>4

\* Pages that go take nothing with them but their own place in the order.
LEMMA PagesGone ==
  ASSUME UseInv, UNCHANGED <<uses, last_use>>, NEW S,
         HeldPages' = HeldPages \ S, ByLastUse' = Cache!Without(S)
  PROVE  UseInv'
<1>1. \A x, y \in HeldPages' : <<x, y>> \in ByLastUse' <=> <<x, y>> \in ByLastUse
  BY DEF Cache!Without
<1> QED BY <1>1 DEF UseInv

LEMMA QuietUse ==
  ASSUME MemInv, MemInv', UseInv, UNCHANGED <<uses, last_use>>,
         \/ \E s \in Scripts : LoadScriptFails(s)
         \/ \E q \in Pids, s \in Scripts : RegisterPcb(q, s)
         \/ \E q \in Pids : UnregisterPcb(q)
         \/ \E S \in SUBSET loaded_scripts, Q \in SUBSET live_pcbs : Rollback(S, Q)
         \/ \E q \in Pids, p \in AllPages : DemandLoadFails(q, p)
         \/ UNCHANGED memVars
  PROVE  UseInv'
<1>1. CASE UNCHANGED <<HeldPages, ByLastUse>>
  BY <1>1 DEF UseInv
<1>2. CASE \E S \in SUBSET loaded_scripts, Q \in SUBSET live_pcbs : Rollback(S, Q)
  <2>1. PICK S \in SUBSET loaded_scripts : Cache!Forget(S)
    BY <1>2, RollbackStep
  <2> DEFINE gone == {x \in HeldPages : x[1] \in S}
  <2>2. HeldPages' = HeldPages \ gone /\ ByLastUse' = Cache!Without(gone)
    BY <2>1 DEF Cache!Forget
  <2> HIDE DEF gone
  <2> QED BY <2>2, PagesGone
<1>3. CASE Cache!Discard
  <2>1. PICK v \in HeldPages : HeldPages' = HeldPages \ {v} /\ ByLastUse' = Cache!Without({v})
    BY <1>3 DEF Cache!Discard
  <2> QED BY <2>1, PagesGone
<1>4. CASE \E q \in Pids, p \in AllPages : DemandLoadFails(q, p)
  BY <1>1, <1>3, <1>4, DemandLoadFailsStep
<1> QED BY <1>1, <1>2, <1>4, QuietStep

LEMMA UseStepInMemory == [UseNext]_useVars => [MemNext]_memVars
  BY DEF UseNext, MemNext, useVars

LEMMA UseInvStep == MemInv /\ MemInv' /\ UseInv /\ [UseNext]_useVars => UseInv'
<1> SUFFICES ASSUME MemInv, MemInv', UseInv, [UseNext]_useVars
             PROVE  UseInv'
  OBVIOUS
<1>1. CASE \E s \in Scripts : LoadScript(s) /\ InitialUses(s)
  BY <1>1, LoadScriptStep, LoadScriptUse
<1>2. CASE \E q \in Pids, p \in AllPages : (Fetch(q, p) \/ DemandLoad(q, p)) /\ UseOf(q, p)
  BY <1>2, FetchUse, DemandLoadUse
<1>3. CASE UNCHANGED useVars
  BY <1>3, QuietUse DEF useVars
<1> QED BY <1>1, <1>2, <1>3, QuietUse DEF UseNext

LEMMA UseInvariant == UseSpec => [](MemInv /\ UseInv)
<1>1. UseInit => MemInv /\ UseInv
  <2> SUFFICES ASSUME UseInit
               PROVE  MemInv /\ UseInv
    OBVIOUS
  <2>1. Occupied = {}
    BY DEF UseInit, MemInit, Occupied, ClearFrame
  <2> QED BY <2>1, InitInv DEF UseInit, UseInv, HeldPages
<1>2. MemInv /\ UseInv /\ [UseNext]_useVars => (MemInv /\ UseInv)'
  BY UseStepInMemory, StepInv, UseInvStep
<1> QED BY <1>1, <1>2, PTL DEF UseSpec

\* However the callers mix their operations, of two resident pages the one used
\* longest ago has the lower stamp: the replacement clock can be trusted.
THEOREM StampsAreOrderOfUse == UseSpec => []StampsFollowUse
<1>1. MemInv /\ UseInv => StampsFollowUse
  <2> SUFFICES ASSUME MemInv, UseInv, NEW f \in Occupied, NEW g \in Occupied
               PROVE  frame_table[f].last_used < frame_table[g].last_used
                        <=> last_use[Held(f)] < last_use[Held(g)]
    BY DEF StampsFollowUse
  <2>1. Held(f) \in HeldPages /\ Held(g) \in HeldPages
    BY DEF HeldPages
  <2> QED BY <2>1, OrderIsStamps DEF UseInv
<1> QED BY <1>1, UseInvariant, PTL

LEMMA OldestGoes ==
  ASSUME MemInv, UseInv, NEW v \in HeldPages, Cache!IsOldest(v), NEW y \in HeldPages, y # v
  PROVE  last_use[v] < last_use[y]
  BY DEF Cache!IsOldest, UseInv

LEMMA EvictionStep ==
  ASSUME MemInv, MemInv', UseInv, [UseNext]_useVars, loaded_scripts' = loaded_scripts
  PROVE  \A x \in HeldPages \ HeldPages', y \in HeldPages \cap HeldPages' : last_use[x] < last_use[y]
<1>0. [MemNext]_memVars
  BY UseStepInMemory
<1>1. CASE \E v \in HeldPages : Cache!IsOldest(v) /\ HeldPages \ {v} \subseteq HeldPages'
  <2>1. PICK v \in HeldPages : Cache!IsOldest(v) /\ HeldPages \ {v} \subseteq HeldPages'
    BY <1>1
  <2>2. ASSUME NEW x \in HeldPages \ HeldPages', NEW y \in HeldPages \cap HeldPages'
        PROVE  last_use[x] < last_use[y]
    <3>1. x = v /\ y # v /\ y \in HeldPages
      BY <2>1
    <3> QED BY <2>1, <3>1, OldestGoes
  <2> QED BY <2>2
<1>2. CASE HeldPages \subseteq HeldPages'
  BY <1>2
<1>3. CASE \E s \in Scripts : LoadScript(s)
  BY <1>2, <1>3, LoadScriptStep DEF Cache!Fill
<1>4. CASE \E S \in SUBSET loaded_scripts, Q \in SUBSET live_pcbs : Rollback(S, Q)
  <2>1. PICK S \in SUBSET loaded_scripts, Q \in SUBSET live_pcbs : Rollback(S, Q)
    BY <1>4
  <2>2. S = {}
    BY <2>1 DEF Rollback
  <2>3. Cache!Forget(S)
    BY <2>1, RollbackStep
  <2> QED BY <1>2, <2>2, <2>3 DEF Cache!Forget
<1>5. CASE \E q \in Pids, p \in AllPages : Fetch(q, p)
  BY <1>2, <1>5, FetchStep DEF Cache!Touch
<1>6. CASE \E q \in Pids, p \in AllPages : DemandLoad(q, p)
  <2>1. PICK x : Cache!Replace(x) \/ Cache!Fill({x[1]} \X {x[2]})
    BY <1>6, DemandLoadStep, Zenon
  <2>2. CASE Cache!Replace(x)
    BY <1>1, <2>2 DEF Cache!Replace
  <2>3. CASE Cache!Fill({x[1]} \X {x[2]})
    BY <1>2, <2>3 DEF Cache!Fill
  <2> QED BY <2>1, <2>2, <2>3
<1>7. CASE \E q \in Pids, p \in AllPages : DemandLoadFails(q, p)
  <2>1. Cache!Discard \/ UNCHANGED <<HeldPages, ByLastUse>>
    BY <1>7, DemandLoadFailsStep
  <2>2. CASE Cache!Discard
    BY <1>1, <2>2 DEF Cache!Discard
  <2> QED BY <1>2, <2>1, <2>2
<1>8. CASE \/ \E s \in Scripts : LoadScriptFails(s)
           \/ \E q \in Pids, s \in Scripts : RegisterPcb(q, s)
           \/ \E q \in Pids : UnregisterPcb(q)
           \/ UNCHANGED memVars
  BY <1>2, <1>8, QuietStep
<1> QED BY <1>0, <1>3, <1>4, <1>5, <1>6, <1>7, <1>8 DEF MemNext

\* The victim of a page fault is the resident page that no process has used for
\* longest, whatever the processes that share it did in between.
THEOREM VictimIsLongestUnused == UseSpec => EvictsLongestUnused
<1>1. (MemInv /\ UseInv) /\ (MemInv /\ UseInv)' /\ [UseNext]_useVars =>
        [loaded_scripts' = loaded_scripts =>
           \A x \in HeldPages \ HeldPages', y \in HeldPages \cap HeldPages' :
             last_use[x] < last_use[y]]_useVars
  BY EvictionStep
<1> QED BY <1>1, UseInvariant, PTL DEF UseSpec, EvictsLongestUnused
=============================================================================
