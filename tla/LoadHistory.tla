---------------------------- MODULE LoadHistory ----------------------------
(* The shell with a history variable: what a failing load has to restore.  *)
EXTENDS Mysh

VARIABLE saved  \* the Image of the shell when the load in progress began

historyVars == <<vars, saved>>

Image == <<frame_table, loaded_scripts, script_table, live_pcbs, pcb_script, pcb_table,
           has_backing_path, job_length_score, ready_queue, active, current>>

\* The image is taken when a request is admitted and kept until it has been
\* carried out or unwound.
Save ==
  saved' = CASE phase' = "loading" /\ phase = "planning" -> Image
             [] phase' \in {"loading", "rollback"} /\ phase # "planning" -> saved
             [] OTHER -> <<>>

HistoryInit == Init /\ saved = <<>>
HistoryNext == Next /\ Save
HistorySpec == HistoryInit /\ [][HistoryNext]_historyVars /\ WF_vars(SystemNext)

\* A request that fails once it has been admitted leaves frames, tables, stamps,
\* registry and ready queue as they were before it, at whatever script or PCB it
\* failed and also in the middle of a line of another program.
RollbackRestores ==
  [][phase = "rollback" /\ phase' # "rollback" => Image' = saved]_historyVars
=============================================================================
