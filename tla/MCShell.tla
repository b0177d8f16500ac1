------------------------------- MODULE MCShell -------------------------------
(* Mysh with long programs, and a record of the lines that they run.        *)
EXTENDS MCMysh, RunHistory

RecordingSpec ==
  RunInit /\ [][BoundedNext /\ Record]_runVars /\ WF_vars(BoundedSystemNext)
=============================================================================
