--------------------------- MODULE VariableStore ---------------------------
(***************************************************************************)
(* The variables of the shell: variable_store of shellmemory.c, an array   *)
(* of entries in which the name "none" marks the unused ones, and the      *)
(* commands set, print and echo of interpreter.c.                          *)
(***************************************************************************)
EXTENDS Integers, FiniteSets

CONSTANTS
  Names,           \* the words that may name a variable
  Values,          \* the words it may be set to
  none,            \* the word "none"
  NoValue,         \* the null pointer that mem_get_value returns
  VAR_STORE_SIZE

ASSUME StoreAssumption ==
  /\ VAR_STORE_SIZE \in Nat
  /\ NoValue \notin Values \cup {none}

VARIABLES
  variable_store,  \* variable_store[i]: the entry var, value
  asked,           \* the arguments of the last call, if it was mem_set_value
  found            \* what the last call returned, if it was mem_get_value

vars == <<variable_store, asked, found>>
-----------------------------------------------------------------------------
Slots == 0 .. VAR_STORE_SIZE - 1
Entry == [var : Names \cup {none}, value : Values \cup {none}]

\* The entries under a name, and the one that the loops find.
Under(n) == {i \in Slots : variable_store[i].var = n}
IsFirst(i, S) == i \in S /\ \A j \in S : i <= j

Init ==
  /\ variable_store = [i \in Slots |-> [var |-> none, value |-> none]]
  /\ asked = NoValue /\ found = NoValue

\* Three broken mem_set_values: a name that has an entry gets another one, ...
SetAgain(n, v) ==
  /\ asked' = <<n, v>> /\ found' = NoValue
  /\ \E i \in Slots :
       /\ IsFirst(i, Under(none))
       /\ variable_store' = [variable_store EXCEPT ![i] = [var |-> n, value |-> v]]

\* ... a full store gives a name the entry of another one.
SetAnyway(n, v) ==
  /\ asked' = <<n, v>> /\ found' = NoValue
  /\ \E i \in Slots :
       /\ IsFirst(i, IF Under(n) # {} THEN Under(n)
                     ELSE IF Under(none) # {} THEN Under(none) ELSE Slots)
       /\ variable_store' = [variable_store EXCEPT ![i] = [var |-> n, value |-> v]]

\* ... or an assignment to a new name is dropped although an entry is unused.
DropNew(n, v) == Under(n) = {} /\ asked' = <<n, v>> /\ found' = NoValue /\ UNCHANGED variable_store

\* mem_set_value: in the entry of the name, else in the first unused one.
Set(n, v) ==
  /\ asked' = <<n, v>> /\ found' = NoValue
  /\ \E i \in Slots :
       /\ IsFirst(i, IF Under(n) # {} THEN Under(n) ELSE Under(none))
       /\ variable_store' = [variable_store EXCEPT ![i] = [var |-> n, value |-> v]]

\* ... and if there is neither, nothing is set and set reports no error.
SetDropped(n, v) ==
  /\ Under(n) = {} /\ Under(none) = {}
  /\ asked' = <<n, v>> /\ found' = NoValue
  /\ UNCHANGED variable_store

\* A broken mem_get_value, which returns the name.
FindName(n) ==
  /\ \/ \E i \in Slots : IsFirst(i, Under(n)) /\ found' = variable_store[i].var
     \/ Under(n) = {} /\ found' = NoValue
  /\ asked' = NoValue /\ UNCHANGED variable_store

\* mem_get_value, for print and for a word of echo or my_mkdir that begins with $.
Find(n) ==
  /\ \/ \E i \in Slots : IsFirst(i, Under(n)) /\ found' = variable_store[i].value
     \/ Under(n) = {} /\ found' = NoValue
  /\ asked' = NoValue /\ UNCHANGED variable_store

Next == \E n \in Names : Find(n) \/ \E v \in Values : Set(n, v) \/ SetDropped(n, v)

Spec == Init /\ [][Next]_vars
-----------------------------------------------------------------------------
\* Every entry holds two words; a lookup returns a value or the null pointer.
TypeOK ==
  /\ variable_store \in [Slots -> Entry]
  /\ asked \in (Names \X Values) \cup {NoValue}
  /\ found \in Values \cup {none, NoValue}

\* No name has two entries: an assignment finds the entry it has to change.
OneEntryEach ==
  \A i, j \in Slots :
    variable_store[i].var = variable_store[j].var /\ variable_store[i].var # none => i = j

\* The value that is kept under a name.
Kept(n) ==
  IF n = none \/ Under(n) = {} THEN NoValue
  ELSE variable_store[CHOOSE i \in Slots : IsFirst(i, Under(n))].value

Map == INSTANCE Variables WITH Capacity <- VAR_STORE_SIZE, value <- [n \in Names |-> Kept(n)]

\* The array is a map from names to the values last set, and while it has an unused
\* entry no assignment is dropped.  The name "none" must not be among the names: its entry
\* is the first unused one.
ImplementsMap == Map!Spec
=============================================================================
