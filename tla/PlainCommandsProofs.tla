------------------------ MODULE PlainCommandsProofs ------------------------
(***************************************************************************)
(* The array of variables implements the map of Variables, for every size  *)
(* and every set of names that leaves out the name "none"; the tree of     *)
(* files keeps its form; and both do so when the commands are mixed and    *)
(* my_mkdir takes its names from the variables.                            *)
(***************************************************************************)
EXTENDS PlainCommands, FiniteSetTheorems, SequenceTheorems, WellFoundedInduction, TLAPS

StoreInv == TypeOK /\ OneEntryEach

\* The instance counts as this module does.
LEMMA MapCardinality == \A S : Map!Cardinality(S) = Cardinality(S)
  BY DEF Map!Cardinality, Cardinality
-----------------------------------------------------------------------------
\* An assignment writes one entry, which is the one of the name if it has one.
LEMMA SetEntry ==
  ASSUME TypeOK, NEW n \in Names, NEW v \in Values, Set(n, v)
  PROVE  \E i \in Slots :
           /\ i \in IF Under(n) # {} THEN Under(n) ELSE Under(none)
           /\ variable_store' \in [Slots -> [var : Names \cup {none}, value : Values \cup {none}]]
           /\ variable_store'[i].var = n /\ variable_store'[i].value = v
           /\ \A j \in Slots \ {i} : variable_store'[j] = variable_store[j]
<1>1. PICK i \in Slots :
        /\ i \in IF Under(n) # {} THEN Under(n) ELSE Under(none)
        /\ variable_store' = [variable_store EXCEPT ![i] = [var |-> n, value |-> v]]
  BY DEF Set, IsFirst
<1>2. variable_store \in [Slots -> Entry]
  BY DEF TypeOK
<1>3. [var |-> n, value |-> v] \in Entry
  BY DEF Entry
<1> QED BY <1>1, <1>2, <1>3 DEF Entry

LEMMA StoreStep == StoreInv /\ [Next]_vars => StoreInv'
<1> SUFFICES ASSUME StoreInv, [Next]_vars PROVE StoreInv'
  OBVIOUS
<1>1. CASE UNCHANGED vars
  BY <1>1 DEF StoreInv, TypeOK, OneEntryEach, vars
<1>2. CASE \E n \in Names : Find(n) \/ \E v \in Values : SetDropped(n, v)
  <2>1. /\ UNCHANGED variable_store
        /\ asked' \in (Names \X Values) \cup {NoValue}
        /\ found' = NoValue \/ \E i \in Slots : found' = variable_store[i].value
    BY <1>2 DEF Find, SetDropped
  <2>2. found' \in Values \cup {none, NoValue}
    BY <2>1 DEF StoreInv, TypeOK, Entry
  <2> QED BY <2>1, <2>2 DEF StoreInv, TypeOK, OneEntryEach
<1>3. CASE \E n \in Names, v \in Values : Set(n, v)
  <2>1. PICK n \in Names, v \in Values : Set(n, v)
    BY <1>3
  <2>2. PICK i \in Slots :
          /\ i \in IF Under(n) # {} THEN Under(n) ELSE Under(none)
          /\ variable_store' \in [Slots -> [var : Names \cup {none}, value : Values \cup {none}]]
          /\ variable_store'[i].var = n /\ variable_store'[i].value = v
          /\ \A j \in Slots \ {i} : variable_store'[j] = variable_store[j]
    BY <2>1, SetEntry DEF StoreInv
  <2>3. TypeOK'
    BY <2>1, <2>2 DEF Set, StoreInv, TypeOK, Entry
  <2>4. OneEntryEach'
    BY <2>2 DEF StoreInv, OneEntryEach, Under
  <2> QED BY <2>3, <2>4 DEF StoreInv
<1> QED BY <1>1, <1>2, <1>3 DEF Next

LEMMA StoreInvariant == Spec => []StoreInv
<1>1. Init => StoreInv
  BY DEF Init, StoreInv, TypeOK, OneEntryEach, Entry
<1> QED BY <1>1, StoreStep, PTL DEF Spec

\* Every entry holds two words, and a lookup returns one or the null pointer.
THEOREM StoreTypeCorrect == Spec => []TypeOK
  BY StoreInvariant, PTL DEF StoreInv

\* No sequence of assignments gives a name a second entry, in a full store
\* either: what an assignment changes is what a lookup finds.
THEOREM NamesHaveOneEntry == Spec => []OneEntryEach
  BY StoreInvariant, PTL DEF StoreInv
-----------------------------------------------------------------------------
\* What is kept under a name is the value of its one entry.
LEMMA KeptValue ==
  StoreInv =>
    \A n \in Names \ {none} :
      /\ Under(n) = {} => Kept(n) = NoValue
      /\ \A i \in Under(n) : Kept(n) = variable_store[i].value /\ Kept(n) # NoValue
<1> SUFFICES ASSUME StoreInv, NEW n \in Names \ {none}, NEW i \in Under(n)
             PROVE  Kept(n) = variable_store[i].value /\ Kept(n) # NoValue
  BY DEF Kept
<1>1. \A j \in Under(n) : j = i
  BY DEF StoreInv, OneEntryEach, Under
<1>2. i \in Slots /\ i <= i /\ IsFirst(i, Under(n)) /\ \A j \in Slots : IsFirst(j, Under(n)) => j = i
  BY <1>1, StoreAssumption DEF IsFirst, Under, Slots
<1>3. (CHOOSE j \in Slots : IsFirst(j, Under(n))) = i
  BY <1>2
<1>4. variable_store[i].value \in Values \cup {none}
  BY DEF StoreInv, TypeOK, Entry, Under
<1> QED BY <1>3, <1>4, StoreAssumption DEF Kept

\* The same after a step.
LEMMA KeptValueLater ==
  StoreInv' =>
    \A n \in Names \ {none} :
      /\ Under(n)' = {} => Kept(n)' = NoValue
      /\ \A i \in Under(n)' : Kept(n)' = variable_store'[i].value /\ Kept(n)' # NoValue
<1>1. (StoreInv =>
        \A n \in Names \ {none} :
          /\ Under(n) = {} => Kept(n) = NoValue
          /\ \A i \in Under(n) : Kept(n) = variable_store[i].value /\ Kept(n) # NoValue)'
  BY KeptValue, PTL
<1> QED BY <1>1

\* While an entry is unused, fewer names have a value than there are entries.
LEMMA RoomLeft ==
  ASSUME StoreInv, none \notin Names, NEW i \in Under(none)
  PROVE  Cardinality({m \in Names : Kept(m) # NoValue}) < VAR_STORE_SIZE
<1> DEFINE held == {m \in Names : Kept(m) # NoValue}
           entry == [m \in held |-> CHOOSE j \in Slots : j \in Under(m)]
<1>1. \A m \in held : entry[m] \in Slots /\ entry[m] \in Under(m)
  <2> SUFFICES ASSUME NEW m \in held PROVE \E j \in Slots : j \in Under(m)
    OBVIOUS
  <2> QED BY KeptValue DEF Under
<1>2. \A m \in held : entry[m] \in Slots \ {i} /\ variable_store[entry[m]].var = m
  BY <1>1 DEF Under
<1> HIDE DEF entry
<1>3. entry \in [held -> Slots \ {i}] /\ \A m, o \in held : entry[m] = entry[o] => m = o
  BY <1>2 DEF entry
<1>4. entry \in Injection(held, Slots \ {i})
  BY <1>3 DEF Injection, IsInjective
<1>5. IsFiniteSet(Slots) /\ Cardinality(Slots) = VAR_STORE_SIZE /\ i \in Slots
  BY FS_Interval, StoreAssumption DEF Slots, Under
<1>6. IsFiniteSet(Slots \ {i}) /\ Cardinality(Slots \ {i}) = VAR_STORE_SIZE - 1
  BY <1>5, FS_RemoveElement
<1>7. IsFiniteSet(held) /\ Cardinality(held) <= VAR_STORE_SIZE - 1
  BY <1>4, <1>6, FS_Injection
<1>8. Cardinality(held) \in Nat /\ VAR_STORE_SIZE \in Nat
  BY <1>7, FS_CardinalityType, StoreAssumption
<1>9. Cardinality(held) < VAR_STORE_SIZE
  BY <1>7, <1>8
<1> QED BY <1>9

\* When every entry is used, as many names have a value as there are entries.
LEMMA NoRoomLeft ==
  ASSUME StoreInv, none \notin Names, Under(none) = {}
  PROVE  Cardinality({m \in Names : Kept(m) # NoValue}) = VAR_STORE_SIZE
<1> DEFINE held == {m \in Names : Kept(m) # NoValue}
           name == [i \in Slots |-> variable_store[i].var]
<1>1. \A i \in Slots : name[i] \in Names /\ i \in Under(name[i])
  BY DEF StoreInv, TypeOK, Entry, Under
<1>2. \A i \in Slots : name[i] \in held
  BY <1>1, KeptValue
<1>3. \A m \in held : \E i \in Slots : name[i] = m
  BY KeptValue DEF Under
<1>4. \A i, j \in Slots : name[i] = name[j] => i = j
  BY <1>1 DEF StoreInv, OneEntryEach
<1>5. name \in Bijection(Slots, held)
  BY <1>2, <1>3, <1>4 DEF Bijection, Injection, IsInjective, Surjection
<1>6. IsFiniteSet(Slots) /\ Cardinality(Slots) = VAR_STORE_SIZE
  BY FS_Interval, StoreAssumption DEF Slots
<1> HIDE DEF held, name
<1>7. Cardinality(held) = VAR_STORE_SIZE
  BY <1>5, <1>6, FS_Bijection DEF ExistsBijection
<1> QED BY <1>7 DEF held

\* The map counts the names that are kept.
LEMMA MapRoom ==
  ASSUME NEW n \in Names
  PROVE  Map!HasRoomFor(n) <=>
           \/ Kept(n) # NoValue
           \/ Cardinality({m \in Names : Kept(m) # NoValue}) < VAR_STORE_SIZE
<1>1. {m \in Names : [o \in Names |-> Kept(o)][m] # NoValue} = {m \in Names : Kept(m) # NoValue}
  OBVIOUS
<1> QED BY <1>1, MapCardinality DEF Map!HasRoomFor

\* An assignment to the array is one to the map.
LEMMA SetStep ==
  ASSUME StoreInv, StoreInv', none \notin Names, NEW n \in Names, NEW v \in Values, Set(n, v)
  PROVE  Map!Set(n, v)
<1>1. PICK i \in Slots :
        /\ i \in IF Under(n) # {} THEN Under(n) ELSE Under(none)
        /\ variable_store'[i].var = n /\ variable_store'[i].value = v
        /\ \A j \in Slots \ {i} : variable_store'[j] = variable_store[j]
  BY SetEntry DEF StoreInv
<1>2. Kept(n) # NoValue \/ Cardinality({m \in Names : Kept(m) # NoValue}) < VAR_STORE_SIZE
  BY <1>1, KeptValue, RoomLeft
<1>3. Kept(n)' = v
  <2>1. i \in Under(n)'
    BY <1>1 DEF Under
  <2> QED BY <1>1, <2>1, KeptValueLater
<1>4. ASSUME NEW m \in Names \ {n} PROVE Kept(m)' = Kept(m)
  <2>1. Under(m)' = Under(m) /\ i \notin Under(m)
    BY <1>1 DEF Under
  <2>2. CASE Under(m) = {}
    BY <2>1, <2>2, KeptValue, KeptValueLater
  <2>3. CASE Under(m) # {}
    <3>1. PICK j \in Under(m) : TRUE
      BY <2>3
    <3>2. Kept(m) = variable_store[j].value /\ Kept(m)' = variable_store'[j].value
      BY <2>1, <3>1, KeptValue, KeptValueLater
    <3> QED BY <1>1, <2>1, <3>1, <3>2 DEF Under
  <2> QED BY <2>2, <2>3
<1>5. [m \in Names |-> Kept(m)'] = [[m \in Names |-> Kept(m)] EXCEPT ![n] = v]
  BY <1>3, <1>4
<1>6. Map!HasRoomFor(n)
  BY <1>2, MapRoom
<1>7. asked' = <<n, v>> /\ found' = NoValue
  BY DEF Set
<1> QED BY <1>5, <1>6, <1>7 DEF Map!Set

\* An assignment is dropped only when there is no room in the map.
LEMMA SetDroppedStep ==
  ASSUME StoreInv, none \notin Names, NEW n \in Names, NEW v \in Values, SetDropped(n, v)
  PROVE  Map!Set(n, v)
<1>1. Kept(n) = NoValue /\ Under(none) = {}
  BY KeptValue DEF SetDropped
<1>2. Cardinality({m \in Names : Kept(m) # NoValue}) = VAR_STORE_SIZE
  BY <1>1, NoRoomLeft
<1>3. ~Map!HasRoomFor(n)
  BY <1>1, <1>2, MapRoom, StoreAssumption
<1>4. /\ asked' = <<n, v>> /\ found' = NoValue
      /\ \A m : Kept(m)' = Kept(m)
  BY DEF SetDropped, Kept, Under
<1> QED BY <1>3, <1>4 DEF Map!Set

LEMMA FindStep ==
  ASSUME StoreInv, none \notin Names, NEW n \in Names, Find(n)
  PROVE  Map!Find(n)
<1>1. found' = Kept(n)
  <2>1. CASE Under(n) = {}
    BY <2>1, KeptValue DEF Find, IsFirst
  <2>2. CASE \E i \in Slots : IsFirst(i, Under(n)) /\ found' = variable_store[i].value
    BY <2>2, KeptValue DEF IsFirst
  <2> QED BY <2>1, <2>2 DEF Find
<1>2. \A m : Kept(m)' = Kept(m)
  BY DEF Find, Kept, Under
<1>3. asked' = NoValue
  BY DEF Find
<1> QED BY <1>1, <1>2, <1>3 DEF Map!Find

\* A name other than "none" has the value that was last set, and no assignment or
\* lookup of one name disturbs another; an assignment is dropped only when more
\* names are set than there are entries.
THEOREM StoreIsMap == none \notin Names => (Spec => ImplementsMap)
<1> SUFFICES ASSUME none \notin Names PROVE Spec => ImplementsMap
  OBVIOUS
<1>1. Init => Map!Init
  <2> SUFFICES ASSUME Init PROVE Map!Init
    OBVIOUS
  <2>1. ASSUME NEW n \in Names PROVE Kept(n) = NoValue
    <3>1. Under(n) = {}
      BY DEF Init, Under
    <3> QED BY <3>1 DEF Kept
  <2> QED BY <2>1 DEF Init, Map!Init
<1>2. StoreInv /\ StoreInv' /\ [Next]_vars => [Map!Next]_<<[n \in Names |-> Kept(n)], asked, found>>
  <2> SUFFICES ASSUME StoreInv, StoreInv', [Next]_vars
               PROVE  Map!Next \/ UNCHANGED <<[n \in Names |-> Kept(n)], asked, found>>
    OBVIOUS
  <2>1. CASE UNCHANGED vars
    <3>1. UNCHANGED <<variable_store, asked, found>>
      BY <2>1 DEF vars
    <3>2. \A n : Kept(n)' = Kept(n)
      BY <3>1 DEF Kept, Under
    <3> QED BY <3>1, <3>2
  <2>2. CASE \E n \in Names : Find(n)
    BY <2>2, FindStep DEF Map!Next
  <2>3. CASE \E n \in Names, v \in Values : Set(n, v)
    BY <2>3, SetStep DEF Map!Next
  <2>4. CASE \E n \in Names, v \in Values : SetDropped(n, v)
    BY <2>4, SetDroppedStep DEF Map!Next
  <2> QED BY <2>1, <2>2, <2>3, <2>4 DEF Next
<1> QED BY <1>1, <1>2, StoreInvariant, PTL DEF Spec, ImplementsMap, Map!Spec
-----------------------------------------------------------------------------
\* What a name or the value of a variable can be, and a path.
Text == Seq(1 .. 127)
DirInv == cwd \in Seq(Text) /\ TreeWellFormed

\* A new file or directory lies in the working directory.
LEMMA CreateInv ==
  ASSUME DirInv, NEW name \in Text, IsAlphanum(name),
         NEW kind \in {"file", "directory"}, At(name) \notin DOMAIN tree,
         Create(At(name), kind), UNCHANGED cwd
  PROVE  DirInv'
<1>1. PICK p : p = At(name)
  OBVIOUS
<1>2. /\ p \in Seq(Text) /\ Len(p) = Len(cwd) + 1 /\ p[Len(p)] = name
      /\ Front(p) = cwd /\ Len(cwd) \in Nat
  <2>1. /\ cwd \in Seq(Text) /\ p = Append(cwd, name)
    BY <1>1 DEF DirInv, At
  <2>2. /\ p \in Seq(Text) /\ Len(p) = Len(cwd) + 1 /\ p[Len(cwd) + 1] = name
        /\ \A i \in 1 .. Len(cwd) : p[i] = cwd[i]
    BY <2>1, AppendProperties
  <2>3. Len(cwd) \in Nat /\ Len(cwd) + 1 - 1 = Len(cwd)
    BY <2>1, LenProperties
  <2>4. SubSeq(p, 1, Len(cwd)) = cwd
    BY <2>1, <2>2, <2>3
  <2> QED BY <2>2, <2>3, <2>4 DEF Front
<1>3. /\ DOMAIN tree' = DOMAIN tree \cup {p}
      /\ tree'[p] = kind
      /\ \A q \in DOMAIN tree \ {p} : tree'[q] = tree[q]
  BY <1>1 DEF Create
<1>4. \A q : IsDirectory(q) => IsDirectory(q)'
  BY <1>1, <1>3 DEF IsDirectory
<1>5. \A q \in DOMAIN tree :
        /\ tree[q] \in {"file", "directory"} /\ IsDirectory(Front(q))
        /\ \A c \in ToSet(q[Len(q)]) : IsDigit(c) \/ IsLetter(c)
  BY DEF DirInv, TreeWellFormed
<1>6. IsDirectory(cwd)
  BY DEF DirInv, TreeWellFormed
<1>7. \A c \in ToSet(p[Len(p)]) : IsDigit(c) \/ IsLetter(c)
  BY <1>2 DEF IsAlphanum, ToSet
<1>8. ASSUME NEW q \in DOMAIN tree'
      PROVE  /\ tree'[q] \in {"file", "directory"} /\ IsDirectory(Front(q))'
             /\ \A c \in ToSet(q[Len(q)]) : IsDigit(c) \/ IsLetter(c)
  <2>1. CASE q = p
    BY <1>2, <1>3, <1>4, <1>6, <1>7, <2>1
  <2>2. CASE q # p
    BY <1>3, <1>4, <1>5, <2>2
  <2> QED BY <2>1, <2>2
<1>9. TreeWellFormed'
  <2>1. IsDirectory(cwd)'
    BY <1>4, <1>6
  <2> QED BY <1>8, <2>1 DEF TreeWellFormed
<1> QED BY <1>9 DEF DirInv

\* The command is my_mkdir of a name from anywhere.
LEMMA MyMkdirInv ==
  ASSUME DirInv, NEW name, name \in Text \/ name = NULL, MyMkdir(name)
  PROVE  DirInv'
<1>1. UNCHANGED cwd
  BY DEF MyMkdir
<1>2. CASE UNCHANGED tree
  BY <1>1, <1>2 DEF DirInv, TreeWellFormed, IsDirectory
<1>3. CASE /\ name # NULL /\ IsAlphanum(name) /\ At(name) \notin DOMAIN tree
           /\ Create(At(name), "directory")
  BY <1>1, <1>3, CreateInv
<1> QED BY <1>2, <1>3 DEF MyMkdir

LEMMA PlainStep == StoreInv /\ DirInv /\ [PlainNext]_plainVars => DirInv'
<1> SUFFICES ASSUME StoreInv, DirInv, [PlainNext]_plainVars PROVE DirInv'
  OBVIOUS
<1>1. ASSUME UNCHANGED <<tree, cwd>> PROVE DirInv'
  BY <1>1 DEF DirInv, TreeWellFormed, IsDirectory
<1>2. CASE UNCHANGED plainVars \/ OnVariables \/ Ls
  BY <1>1, <1>2 DEF plainVars, directoryVars, OnVariables, Ls
<1>3. CASE \E n \in Names : MkdirNamedBy(n)
  <2>1. PICK n \in Names : Find(n) /\ MyMkdir(found')
    BY <1>3 DEF MkdirNamedBy
  <2>2. found' \in Values \cup {none, NoValue}
    <3>1. \/ found' = NoValue
          \/ \E i \in Slots : found' = variable_store[i].value
      BY <2>1 DEF Find
    <3> QED BY <3>1 DEF StoreInv, TypeOK, Entry
  <2>3. found' \in Text \/ found' = NULL
    BY <2>2, SharedAssumption DEF Text
  <2>4. PICK name : name = found'
    OBVIOUS
  <2> QED BY <2>1, <2>3, <2>4, MyMkdirInv
<1>4. ASSUME NEW name \in Words, MyMkdir(name) \/ Touch(name) \/ Cd(name) PROVE DirInv'
  <2>1. name \in Text
    BY DirectoryAssumption DEF Text
  <2>2. CASE MyMkdir(name)
    BY <2>1, <2>2, MyMkdirInv
  <2>3. CASE Touch(name)
    <3>1. \/ UNCHANGED tree
          \/ At(name) \notin DOMAIN tree /\ Create(At(name), "file")
      BY <2>3 DEF Touch
    <3>2. UNCHANGED cwd /\ IsAlphanum(name)
      BY <2>3 DEF Touch
    <3> QED BY <1>1, <2>1, <3>1, <3>2, CreateInv
  <2>4. CASE Cd(name)
    <3>1. At(name) \in Seq(Text)
      BY <2>1, AppendProperties DEF At, DirInv
    <3>2. UNCHANGED tree /\ cwd' = IF IsDirectory(At(name)) THEN At(name) ELSE cwd
      BY <2>4 DEF Cd
    <3>3. cwd' = cwd \/ (cwd' = At(name) /\ IsDirectory(At(name)))
      BY <3>2 DEF IsDirectory
    <3> QED BY <1>1, <3>1, <3>2, <3>3 DEF DirInv, TreeWellFormed, IsDirectory
  <2> QED BY <1>4, <2>2, <2>3, <2>4
<1> QED BY <1>2, <1>3, <1>4 DEF PlainNext, OnDirectory, DirectoryNext

\* Mixing in the directory commands, and my_mkdir of a variable, leaves the
\* variables a behaviour of their own specification.
LEMMA PlainIsStore == PlainSpec => Spec
<1>1. PlainInit => Init
  BY DEF PlainInit
<1>2. [PlainNext]_plainVars => [Next]_vars
  BY DEF PlainNext, plainVars, OnVariables, MkdirNamedBy, OnDirectory, Next
<1> QED BY <1>1, <1>2, PTL DEF PlainSpec, Spec

\* Files and directories lie in directories, and a name that my_mkdir takes from a
\* variable, whatever the variable was set to, is alphanumeric or makes nothing.
THEOREM TreeStaysWellFormed == PlainSpec => []TreeWellFormed
<1>1. PlainInit => DirInv
  <2>1. <<>> \in Seq(Text)
    OBVIOUS
  <2> QED BY <2>1 DEF PlainInit, DirectoryInit, DirInv, TreeWellFormed, IsDirectory
<1>2. DirInv => TreeWellFormed
  BY DEF DirInv
<1> QED BY <1>1, <1>2, PlainStep, PlainIsStore, StoreInvariant, PTL DEF PlainSpec

\* What is proved of the variables alone holds of the shell that runs all the plain
\* commands.
THEOREM PlainVariablesAreMap ==
  PlainSpec => [](TypeOK /\ OneEntryEach) /\ (none \notin Names => ImplementsMap)
BY PlainIsStore, StoreTypeCorrect, NamesHaveOneEntry, StoreIsMap, PTL
-----------------------------------------------------------------------------
(***************************************************************************)
(* ls.  qsort only sees to it that neighbours are not in the wrong order,  *)
(* by a comparison that is no order when names have digits in them.  For   *)
(* names without digits it is one, and the listing comes out in order.     *)
(***************************************************************************)
NameChars == {c \in 1 .. 127 : IsLetter(c) \/ c = 46}
FileName == Seq(NameChars)

LEMMA CharCompared ==
  ASSUME NEW c \in NameChars \cup {0}, NEW d \in NameChars \cup {0}
  PROVE  /\ LsCompareChar(c, d) \in Int
         /\ LsCompareChar(c, d) = 0 => c = d
         /\ LsCompareChar(c, d) < 0 => CharKey(c) < CharKey(d)
<1> USE DEF Zero, LowerA, IsUpper
<1>1. c \in Nat /\ d \in Nat /\ ~IsDigit(c) /\ ~IsDigit(d)
  BY DEF NameChars, IsLetter, IsDigit
<1>2. LsCompareChar(c, d) = IF ToLower(c) = ToLower(d) THEN c - d ELSE ToLower(c) - ToLower(d)
  BY <1>1 DEF LsCompareChar
<1>3. ToLower(c) \in Nat /\ ToLower(d) \in Nat
  BY <1>1 DEF ToLower
<1>4. LsCompareChar(c, d) \in Int
  BY <1>1, <1>2, <1>3
<1>5. LsCompareChar(c, d) = 0 => c = d
  BY <1>1, <1>2, <1>3
<1>6. \A e \in {c, d} :
        \/ e \in {0, 46} /\ ToLower(e) = e /\ CharKey(e) = e
        \/ e \in 65 .. 90 /\ ToLower(e) = e + 32 /\ CharKey(e) = 2 * e + 463
        \/ e \in 97 .. 122 /\ ToLower(e) = e /\ CharKey(e) = 2 * e + 400
  <2> SUFFICES ASSUME NEW e \in {c, d}
               PROVE  \/ e \in {0, 46} /\ ToLower(e) = e /\ CharKey(e) = e
                      \/ e \in 65 .. 90 /\ ToLower(e) = e + 32 /\ CharKey(e) = 2 * e + 463
                      \/ e \in 97 .. 122 /\ ToLower(e) = e /\ CharKey(e) = 2 * e + 400
    OBVIOUS
  <2>1. e \in {0, 46} \/ e \in 65 .. 90 \/ e \in 97 .. 122
    BY DEF NameChars, IsLetter
  <2>2. ~IsDigit(e) /\ e \in Nat
    BY <1>1
  <2>3. CASE e \in {0, 46}
    <3>1. ~IsLetter(e) /\ ToLower(e) = e
      BY <2>3 DEF IsLetter, ToLower
    <3> QED BY <2>2, <2>3, <3>1 DEF CharKey
  <2>4. CASE e \in 65 .. 90
    <3>1. IsLetter(e) /\ ToLower(e) = e + 32
      BY <2>4 DEF IsLetter, ToLower
    <3>2. CharKey(e) = 2 * (e + 32 + 200) - 1
      BY <2>2, <2>4, <3>1 DEF CharKey
    <3> QED BY <2>4, <3>1, <3>2
  <2>5. CASE e \in 97 .. 122
    <3>1. IsLetter(e) /\ ToLower(e) = e /\ ~IsUpper(e)
      BY <2>5 DEF IsLetter, ToLower
    <3>2. CharKey(e) = 2 * (e + 200) - 0
      BY <2>2, <2>5, <3>1 DEF CharKey
    <3> QED BY <2>5, <3>1, <3>2
  <2> QED BY <2>1, <2>3, <2>4, <2>5
<1>7. LsCompareChar(c, d) < 0 => CharKey(c) < CharKey(d)
  BY <1>1, <1>2, <1>6
<1> QED BY <1>4, <1>5, <1>7

LEMMA CharAtType ==
  ASSUME NEW s \in FileName, NEW i \in Nat \ {0}
  PROVE  /\ CharAt(s, i) \in NameChars \cup {0}
         /\ CharAt(s, i) = 0 <=> i > Len(s)
<1>1. Len(s) \in Nat
  BY LenProperties DEF FileName
<1>2. CASE i <= Len(s)
  <2>1. s[i] \in NameChars
    BY <1>1, <1>2, ElementOfSeq DEF FileName
  <2>2. s[i] # 0
    BY <2>1 DEF NameChars
  <2> QED BY <1>1, <1>2, <2>1, <2>2 DEF CharAt
<1>3. CASE ~(i <= Len(s))
  BY <1>1, <1>3 DEF CharAt
<1> QED BY <1>2, <1>3

\* Sets of natural numbers have a least element.
LessOnNat == {ss \in Nat \X Nat : ss[1] < ss[2]}

LEMMA LeastNat ==
  ASSUME NEW T \in SUBSET Nat, T # {}
  PROVE  \E x \in T : \A y \in T : x <= y
<1>1. IsWellFoundedOn(LessOnNat, Nat)
  BY NatLessThanWellFounded DEF OpToRel, LessOnNat
<1>2. PICK x \in T : \A y \in T : ~(<<y, x>> \in LessOnNat)
  BY <1>1, WFMin
<1>3. ASSUME NEW y \in T PROVE x <= y
  <2>1. x \in Nat /\ y \in Nat
    OBVIOUS
  <2>2. <<y, x>> \notin LessOnNat
    BY <1>2
  <2>3. ~(y < x)
    BY <2>1, <2>2 DEF LessOnNat
  <2> QED BY <2>1, <2>3
<1> QED BY <1>3

\* Of two names that differ, the one that is not found greater precedes.
LEMMA ComparedPrecedes ==
  ASSUME NEW s \in FileName, NEW t \in FileName, s # t, LsCompare(s, t) <= 0
  PROVE  Precedes(s, t)
<1> DEFINE Decides(i) == i = Len(s) + 1 \/ LsCompareChar(s[i], CharAt(t, i)) # 0
           deciding == {i \in 1 .. Len(s) + 1 : Decides(i)}
<1>1. Len(s) \in Nat /\ Len(t) \in Nat /\ DOMAIN s = 1 .. Len(s) /\ DOMAIN t = 1 .. Len(t)
  BY LenProperties DEF FileName
<1>2. deciding \in SUBSET Nat /\ Len(s) + 1 \in deciding
  BY <1>1
<1>3. \E i \in deciding : \A j \in deciding : i <= j
  BY <1>2, LeastNat
<1>4. \E i \in 1 .. Len(s) + 1 : Decides(i) /\ \A j \in 1 .. i - 1 : ~Decides(j)
  <2>1. PICK i \in deciding : \A j \in deciding : i <= j
    BY <1>3
  <2>2. i \in 1 .. Len(s) + 1 /\ Decides(i)
    OBVIOUS
  <2>3. ASSUME NEW j \in 1 .. i - 1, Decides(j) PROVE FALSE
    <3>1. j \in 1 .. Len(s) + 1
      BY <1>1, <2>2
    <3>2. j \in deciding
      BY <2>3, <3>1
    <3>3. i <= j
      BY <2>1, <3>2
    <3> QED BY <1>1, <2>2, <3>3
  <2> QED BY <2>2, <2>3
<1>5. PICK i : i = CHOOSE k \in 1 .. Len(s) + 1 : Decides(k) /\ \A j \in 1 .. k - 1 : ~Decides(j)
  OBVIOUS
<1>6. i \in 1 .. Len(s) + 1 /\ Decides(i) /\ \A j \in 1 .. i - 1 : ~Decides(j)
  BY <1>4, <1>5
<1>7. LsCompareChar(CharAt(s, i), CharAt(t, i)) <= 0
  BY <1>5 DEF LsCompare
<1>8. \A j \in 1 .. i - 1 : s[j] = CharAt(t, j)
  <2> SUFFICES ASSUME NEW j \in 1 .. i - 1 PROVE s[j] = CharAt(t, j)
    OBVIOUS
  <2>1. LsCompareChar(s[j], CharAt(t, j)) = 0 /\ j \in 1 .. Len(s) /\ j \in Nat \ {0}
    BY <1>1, <1>6
  <2>2. s[j] \in NameChars /\ CharAt(t, j) \in NameChars \cup {0}
    BY <2>1, CharAtType, ElementOfSeq DEF FileName
  <2> QED BY <2>1, <2>2, CharCompared
<1> HIDE DEF deciding
<1>9. i \in Nat \ {0} /\ CharAt(s, i) \in NameChars \cup {0} /\ CharAt(t, i) \in NameChars \cup {0}
  BY <1>1, <1>6, CharAtType
<1>10. CASE LsCompareChar(CharAt(s, i), CharAt(t, i)) < 0
  <2>1. CharKey(CharAt(s, i)) < CharKey(CharAt(t, i))
    BY <1>9, <1>10, CharCompared
  <2> QED BY <1>6, <1>8, <2>1 DEF Precedes
<1>11. CASE LsCompareChar(CharAt(s, i), CharAt(t, i)) = 0
  <2>1. i = Len(s) + 1
    BY <1>1, <1>6, <1>11 DEF CharAt
  <2>2. CharAt(s, i) = 0 /\ CharAt(t, i) = 0
    <3>1. CharAt(s, i) = 0
      BY <1>1, <2>1 DEF CharAt
    <3> QED BY <1>9, <1>11, <3>1, CharCompared
  <2>3. Len(t) <= Len(s)
    BY <1>1, <1>9, <2>1, <2>2, CharAtType
  <2>4. \A j \in 1 .. Len(s) : j <= Len(t) /\ s[j] = t[j]
    <3> SUFFICES ASSUME NEW j \in 1 .. Len(s) PROVE j <= Len(t) /\ s[j] = t[j]
      OBVIOUS
    <3>1. j \in 1 .. i - 1 /\ j \in Nat \ {0}
      BY <1>1, <2>1
    <3>2. s[j] = CharAt(t, j) /\ CharAt(s, j) = s[j] /\ CharAt(s, j) # 0
      BY <1>1, <1>8, <3>1, CharAtType DEF CharAt
    <3>3. j <= Len(t)
      BY <1>1, <3>1, <3>2, CharAtType
    <3> QED BY <3>2, <3>3 DEF CharAt
  <2>5. Len(s) = Len(t)
    <3>1. CASE Len(s) = 0
      BY <1>1, <2>3, <3>1
    <3>2. CASE Len(s) # 0
      <4>1. Len(s) \in 1 .. Len(s)
        BY <1>1, <3>2
      <4>2. \A j \in 1 .. Len(s) : j <= Len(t)
        BY <2>4
      <4>3. Len(s) <= Len(t)
        BY <4>1, <4>2
      <4>4. \A m, n \in Nat : m <= n /\ n <= m => m = n
        OBVIOUS
      <4> QED BY <1>1, <2>3, <4>3, <4>4
    <3> QED BY <3>1, <3>2
  <2>6. s = t
    BY <1>1, <2>4, <2>5, SeqEqual DEF FileName
  <2> QED BY <2>6
<1>12. LsCompareChar(CharAt(s, i), CharAt(t, i)) \in Int
  BY <1>9, CharCompared
<1> QED BY <1>7, <1>10, <1>11, <1>12

LEMMA KeyType == \A c \in NameChars \cup {0} : CharKey(c) \in Int
  BY DEF CharKey, NameChars, ToLower

LEMMA PrecedesTransitive ==
  ASSUME NEW s \in FileName, NEW t \in FileName, NEW u \in FileName,
         Precedes(s, t), Precedes(t, u)
  PROVE  Precedes(s, u)
<1>1. PICK i \in 1 .. Len(s) + 1 :
        /\ \A j \in 1 .. i - 1 : s[j] = CharAt(t, j)
        /\ CharKey(CharAt(s, i)) < CharKey(CharAt(t, i))
  BY DEF Precedes
<1>2. PICK k \in 1 .. Len(t) + 1 :
        /\ \A j \in 1 .. k - 1 : t[j] = CharAt(u, j)
        /\ CharKey(CharAt(t, k)) < CharKey(CharAt(u, k))
  BY DEF Precedes
<1>3. Len(s) \in Nat /\ Len(t) \in Nat /\ Len(u) \in Nat /\ i \in Nat \ {0} /\ k \in Nat \ {0}
  BY LenProperties DEF FileName
<1>4. \A j \in 1 .. k - 1 : CharAt(t, j) = t[j]
  BY <1>3 DEF CharAt
<1>5. \A j \in 1 .. i - 1 : CharAt(s, j) = s[j]
  BY <1>3 DEF CharAt
<1>6. \A n \in Nat \ {0} : /\ CharKey(CharAt(s, n)) \in Int /\ CharKey(CharAt(t, n)) \in Int
                           /\ CharKey(CharAt(u, n)) \in Int
  BY KeyType, CharAtType
<1>7. ASSUME NEW m \in 1 .. Len(s) + 1, m <= i, m <= k,
             CharKey(CharAt(s, m)) < CharKey(CharAt(u, m))
      PROVE  Precedes(s, u)
  <2>1. \A j \in 1 .. m - 1 : s[j] = CharAt(u, j)
    <3> SUFFICES ASSUME NEW j \in 1 .. m - 1 PROVE s[j] = CharAt(u, j)
      OBVIOUS
    <3>1. j \in 1 .. i - 1 /\ j \in 1 .. k - 1
      BY <1>3, <1>7
    <3> QED BY <1>1, <1>2, <1>4, <3>1
  <2> QED BY <1>7, <2>1 DEF Precedes
<1>8. CASE i < k
  <2>1. i \in 1 .. k - 1 /\ i <= k
    BY <1>3, <1>8
  <2>2. CharAt(t, i) = CharAt(u, i)
    BY <1>2, <1>4, <2>1
  <2>3. i <= i
    BY <1>3
  <2> QED BY <1>1, <1>7, <2>1, <2>2, <2>3
<1>9. CASE i = k
  <2>1. CharKey(CharAt(s, i)) < CharKey(CharAt(u, i))
    BY <1>1, <1>2, <1>3, <1>6, <1>9
  <2>2. i <= i /\ i <= k
    BY <1>3, <1>9
  <2> QED BY <1>7, <2>1, <2>2
<1>10. CASE k < i
  <2>1. k \in 1 .. i - 1 /\ k <= i /\ k <= k /\ k \in 1 .. Len(s) + 1
    BY <1>3, <1>10
  <2>2. CharAt(s, k) = CharAt(t, k)
    BY <1>1, <1>5, <2>1
  <2>3. CharKey(CharAt(s, k)) < CharKey(CharAt(u, k))
    BY <1>2, <2>2
  <2> QED BY <1>7, <2>1, <2>3
<1> QED BY <1>3, <1>8, <1>9, <1>10

\* Neighbours in order make a sequence in order.
LEMMA NeighboursInOrder ==
  ASSUME NEW s, NEW n \in Nat, s \in [1 .. n -> FileName],
         \A i \in 1 .. n - 1 : Precedes(s[i], s[i + 1])
  PROVE  \A i, j \in 1 .. n : i < j => Precedes(s[i], s[j])
<1> SUFFICES ASSUME NEW i \in 1 .. n, NEW k \in 1 .. n, i < k, ~Precedes(s[i], s[k])
             PROVE  FALSE
  OBVIOUS
<1> DEFINE wrong == {j \in 1 .. n : i < j /\ ~Precedes(s[i], s[j])}
<1>1. wrong \in SUBSET Nat /\ k \in wrong
  OBVIOUS
<1>2. PICK j \in wrong : \A m \in wrong : j <= m
  BY <1>1, LeastNat
<1>3. j \in 1 .. n /\ i < j /\ ~Precedes(s[i], s[j])
  OBVIOUS
<1>4. j - 1 \in 1 .. n - 1 /\ (j - 1) + 1 = j /\ j - 1 \in 1 .. n
  BY <1>3
<1>5. Precedes(s[j - 1], s[j])
  BY <1>4
<1>6. CASE j - 1 = i
  BY <1>3, <1>5, <1>6
<1>7. CASE j - 1 # i
  <2>1. i < j - 1
    BY <1>3, <1>4, <1>7
  <2>2. j - 1 \notin wrong
    BY <1>2, <1>3
  <2>3. Precedes(s[i], s[j - 1])
    BY <1>4, <2>1, <2>2
  <2>4. s[i] \in FileName /\ s[j - 1] \in FileName /\ s[j] \in FileName
    BY <1>3, <1>4
  <2> QED BY <1>3, <1>5, <2>3, <2>4, PrecedesTransitive
<1> QED BY <1>6, <1>7

\* No word and no value has a digit in it.
NoDigits == \A w \in Words \cup Values \cup {none} : \A i \in DOMAIN w : ~IsDigit(w[i])

NamesInv ==
  /\ IsFiniteSet(DOMAIN tree)
  /\ \A p \in DOMAIN tree : p[Len(p)] \in FileName
  /\ ListingInOrder

LEMMA NameIsFileName ==
  ASSUME NEW name \in Text, IsAlphanum(name), \A i \in DOMAIN name : ~IsDigit(name[i])
  PROVE  name \in FileName
<1>1. \A i \in 1 .. Len(name) : name[i] \in NameChars
  BY LenProperties, ElementOfSeq DEF Text, IsAlphanum, NameChars
<1>2. name \in [1 .. Len(name) -> NameChars] /\ Len(name) \in Nat
  BY <1>1, LenProperties DEF Text
<1> QED BY <1>2, SeqDef DEF FileName

LEMMA CreateNames ==
  ASSUME NamesInv, cwd \in Seq(Text), NEW name \in FileName, name \in Text, NEW kind,
         Create(At(name), kind), listing' = <<>>
  PROVE  NamesInv'
<1>1. PICK p : p = At(name)
  OBVIOUS
<1>2. p[Len(p)] = name
  BY <1>1, AppendProperties DEF At
<1>3. DOMAIN tree' = DOMAIN tree \cup {p}
  BY <1>1 DEF Create
<1>4. IsFiniteSet(DOMAIN tree')
  BY <1>3, FS_AddElement DEF NamesInv
<1>5. \A q \in DOMAIN tree' : q[Len(q)] \in FileName
  BY <1>2, <1>3 DEF NamesInv
<1>6. ListingInOrder'
  BY DEF ListingInOrder
<1> QED BY <1>4, <1>5, <1>6 DEF NamesInv

LEMMA LsInOrder ==
  ASSUME NamesInv, Ls
  PROVE  NamesInv'
<1> DEFINE names == Children \cup {Dot, DotDot}
<1>1. PICK s \in SetToSeqs(names) : Sorts(s, names) /\ listing' = s
  BY DEF Ls
<1>2. names \subseteq FileName
  <2>1. Dot \in FileName /\ DotDot \in FileName
    BY DEF Dot, DotDot, FileName, NameChars
  <2>2. Children \subseteq FileName
    BY DEF Children, NamesInv
  <2> QED BY <2>1, <2>2
<1>3. IsFiniteSet(names)
  <2> DEFINE here == {q \in DOMAIN tree : Front(q) = cwd}
  <2>1. IsFiniteSet(here)
    BY FS_Subset DEF NamesInv
  <2> HIDE DEF here
  <2>4. Children = {p[Len(p)] : p \in here}
    BY DEF Children, here
  <2>2. IsFiniteSet(Children)
    <3>1. PICK last : last = [p \in here |-> p[Len(p)]]
      OBVIOUS
    <3>2. last \in Surjection(here, Children)
      BY <2>4, <3>1 DEF Surjection
    <3> QED BY <2>1, <3>2, FS_Surjection
  <2>3. IsFiniteSet({Dot, DotDot})
    <3>1. IsFiniteSet({Dot}) /\ {Dot, DotDot} = {Dot} \cup {DotDot}
      BY FS_Singleton
    <3> QED BY <3>1, FS_AddElement
  <2> QED BY <2>2, <2>3, FS_Union
<1> HIDE DEF names
<1>4. PICK n : n = Cardinality(names)
  OBVIOUS
<1>5. n \in Nat
  BY <1>3, <1>4, FS_CardinalityType
<1>6. s \in [1 .. n -> names] /\ \A i, j \in 1 .. n : i # j => s[i] # s[j]
  BY <1>1, <1>4 DEF SetToSeqs
<1>7. Len(s) = n /\ DOMAIN s = 1 .. n /\ s \in [1 .. n -> FileName]
  BY <1>2, <1>5, <1>6
<1>8. \A i \in 1 .. n - 1 : Precedes(s[i], s[i + 1])
  <2> SUFFICES ASSUME NEW i \in 1 .. n - 1 PROVE Precedes(s[i], s[i + 1])
    OBVIOUS
  <2>1. i \in 1 .. n /\ i + 1 \in 1 .. n /\ i # i + 1
    BY <1>5
  <2>2. LsCompare(s[i], s[i + 1]) <= 0
    BY <1>1, <1>7 DEF Sorts
  <2>3. s[i] \in FileName /\ s[i + 1] \in FileName /\ s[i] # s[i + 1]
    BY <1>6, <1>7, <2>1
  <2> QED BY <2>2, <2>3, ComparedPrecedes
<1>9. ListingInOrder'
  <2>1. \A i, j \in 1 .. n : i < j => Precedes(s[i], s[j])
    BY <1>5, <1>7, <1>8, NeighboursInOrder
  <2> QED BY <1>1, <1>7, <2>1 DEF ListingInOrder
<1>10. UNCHANGED tree
  BY DEF Ls
<1> QED BY <1>9, <1>10 DEF NamesInv

LEMMA NamesStep ==
  NoDigits => (StoreInv /\ DirInv /\ NamesInv /\ [PlainNext]_plainVars => NamesInv')
<1> SUFFICES ASSUME NoDigits, StoreInv, DirInv, NamesInv, [PlainNext]_plainVars PROVE NamesInv'
  OBVIOUS
<1>0. cwd \in Seq(Text)
  BY DEF DirInv
<1>1. ASSUME UNCHANGED tree, listing' = <<>> PROVE NamesInv'
  BY <1>1 DEF NamesInv, ListingInOrder
<1>2. CASE UNCHANGED plainVars
  BY <1>2 DEF plainVars, directoryVars, NamesInv, ListingInOrder, Precedes
<1>3. CASE OnVariables
  BY <1>1, <1>3 DEF OnVariables
<1>4. ASSUME NEW name, name \in Text, \A i \in DOMAIN name : ~IsDigit(name[i]),
             MyMkdir(name) \/ Touch(name)
      PROVE  NamesInv'
  <2>1. listing' = <<>>
    BY <1>4 DEF MyMkdir, Touch
  <2>2. CASE UNCHANGED tree
    BY <1>1, <2>1, <2>2
  <2>3. CASE IsAlphanum(name) /\ \E kind : Create(At(name), kind)
    <3>1. name \in FileName
      BY <1>4, <2>3, NameIsFileName
    <3> QED BY <1>0, <1>4, <2>1, <2>3, <3>1, CreateNames
  <2> QED BY <1>4, <2>2, <2>3 DEF MyMkdir, Touch
<1>5. CASE \E n \in Names : MkdirNamedBy(n)
  <2>1. PICK n \in Names : Find(n) /\ MyMkdir(found')
    BY <1>5 DEF MkdirNamedBy
  <2>2. found' \in Values \cup {none, NoValue}
    <3>1. \/ found' = NoValue
          \/ \E i \in Slots : found' = variable_store[i].value
      BY <2>1 DEF Find
    <3> QED BY <3>1 DEF StoreInv, TypeOK, Entry
  <2>3. PICK name : name = found'
    OBVIOUS
  <2>4. CASE name = NULL
    BY <1>1, <2>1, <2>3, <2>4 DEF MyMkdir
  <2>5. CASE name # NULL
    <3>1. name \in Values \cup {none} /\ name \in Text
      BY <2>2, <2>3, <2>5, SharedAssumption DEF Text
    <3>2. \A i \in DOMAIN name : ~IsDigit(name[i])
      BY <3>1 DEF NoDigits
    <3> QED BY <1>4, <2>1, <2>3, <3>1, <3>2
  <2> QED BY <2>4, <2>5
<1>6. CASE Ls
  BY <1>6, LsInOrder
<1>7. CASE \E name \in Words : MyMkdir(name) \/ Touch(name)
  <2>1. PICK name \in Words : MyMkdir(name) \/ Touch(name)
    BY <1>7
  <2>2. name \in Text /\ \A i \in DOMAIN name : ~IsDigit(name[i])
    BY DirectoryAssumption DEF Text, NoDigits
  <2> QED BY <1>4, <2>1, <2>2
<1>8. CASE \E name \in Words : Cd(name)
  BY <1>1, <1>8 DEF Cd
<1> QED
  BY <1>2, <1>3, <1>5, <1>6, <1>7, <1>8 DEF PlainNext, OnDirectory, DirectoryNext

\* ls prints every name once and in order, whatever of the orders its comparison
\* admits qsort comes up with, as long as no name has a digit in it; the run digits
\* shows that digits undo it.
THEOREM ListingStaysInOrder == NoDigits => (PlainSpec => []ListingInOrder)
<1> SUFFICES ASSUME NoDigits PROVE PlainSpec => []ListingInOrder
  OBVIOUS
<1>1. PlainInit => DirInv /\ NamesInv
  <2>1. <<>> \in Seq(Text)
    OBVIOUS
  <2>2. PlainInit => IsFiniteSet(DOMAIN tree) /\ DOMAIN tree = {}
    BY FS_EmptySet DEF PlainInit, DirectoryInit
  <2> QED BY <2>1, <2>2
          DEF PlainInit, DirectoryInit, DirInv, TreeWellFormed, IsDirectory, NamesInv, ListingInOrder
<1>2. StoreInv /\ DirInv /\ NamesInv /\ [PlainNext]_plainVars => NamesInv'
  BY NamesStep
<1>3. NamesInv => ListingInOrder
  BY DEF NamesInv
<1> QED BY <1>1, <1>2, <1>3, PlainStep, PlainIsStore, StoreInvariant, PTL DEF PlainSpec
=============================================================================
