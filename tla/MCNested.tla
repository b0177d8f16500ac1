------------------------------ MODULE MCNested ------------------------------
(* Mysh with nested loads and failures, and a memory of where a load began.  *)
EXTENDS MCMysh, LoadHistory

SavingSpec ==
  HistoryInit /\ [][BoundedNext /\ Save]_historyVars /\ WF_vars(BoundedSystemNext)
=============================================================================
