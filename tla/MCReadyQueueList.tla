-------------------------- MODULE MCReadyQueueList --------------------------
(* ReadyQueueList with four processes, two of them equally short. *)
EXTENDS ReadyQueueList, TLC

CONSTANTS p1, p2, p3, p4

MCProcesses == {p1, p2, p3, p4}
MCJobTime == (p1 :> 2) @@ (p2 :> 1) @@ (p3 :> 2) @@ (p4 :> 1)
=============================================================================
