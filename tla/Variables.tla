----------------------------- MODULE Variables -----------------------------
(***************************************************************************)
(* What the variables of the shell promise: a name has the value that was  *)
(* last set, and there is room for Capacity names.  A name that finds no   *)
(* room stays without a value, and only then is an assignment dropped.     *)
(***************************************************************************)
EXTENDS Integers, FiniteSets

CONSTANTS
  Names,      \* the words that may name a variable
  Values,     \* the words it may be set to
  Capacity,   \* names that can have a value
  NoValue     \* what is found under a name that has none

VARIABLES
  value,      \* value[n]: a value, or NoValue
  asked,      \* the name and the value of the last operation, if it was an assignment
  found       \* what the last operation found, if it was a lookup

Init == value = [n \in Names |-> NoValue] /\ asked = NoValue /\ found = NoValue

HasRoomFor(n) ==
  value[n] # NoValue \/ Cardinality({m \in Names : value[m] # NoValue}) < Capacity

Set(n, v) ==
  /\ asked' = <<n, v>>
  /\ value' = IF HasRoomFor(n) THEN [value EXCEPT ![n] = v] ELSE value
  /\ found' = NoValue

Find(n) == found' = value[n] /\ asked' = NoValue /\ UNCHANGED value

Next == \E n \in Names : Find(n) \/ \E v \in Values : Set(n, v)

Spec == Init /\ [][Next]_<<value, asked, found>>
=============================================================================
