---------------------------- MODULE PlainCommands ----------------------------
(***************************************************************************)
(* The commands that neither load nor run anything: set, print and echo on *)
(* the variables, and the directory commands, of which my_mkdir can take   *)
(* the name of the directory from a variable.                              *)
(***************************************************************************)
EXTENDS VariableStore, Directory

ASSUME SharedAssumption ==
  NULL = NoValue /\ Values \cup {none} \subseteq Seq(1 .. 127) \ {<<>>}

plainVars == <<vars, directoryVars>>

PlainInit == Init /\ DirectoryInit

\* set, print and echo.
OnVariables ==
  /\ running /\ Next
  /\ listing' = <<>>
  /\ UNCHANGED <<tree, cwd, running>>

\* my_mkdir $n: what mem_get_value returns is the name of the directory.
MkdirNamedBy(n) == Find(n) /\ MyMkdir(found')

OnDirectory == DirectoryNext /\ UNCHANGED vars

PlainNext == OnVariables \/ (\E n \in Names : MkdirNamedBy(n)) \/ OnDirectory

PlainSpec == PlainInit /\ [][PlainNext]_plainVars
=============================================================================
