----------------------------- MODULE RunHistory -----------------------------
(* The shell with a history variable: the lines that programs have run.    *)
EXTENDS Mysh

VARIABLE ran  \* ran[q]: numbers of the lines that process q has handed to parseInput

runVars == <<vars, ran>>

StartsLine == phase = "slice" /\ phase' = "parse"

\* A line is run once it has been handed over; a process that is gone has run none.
Record ==
  ran' = [q \in Pids |-> CASE q \notin live_pcbs' -> {}
                           [] q \in live_pcbs' /\ StartsLine /\ q = current -> ran[q] \cup {PC[q]}
                           [] OTHER -> ran[q]]

RunInit == Init /\ ran = [q \in Pids |-> {}]
RunNext == Next /\ Record
RunSpec == RunInit /\ [][RunNext]_runVars /\ WF_vars(SystemNext)

\* No line is run a second time: a fault, a new turn in the queue, or a program
\* loaded in the middle of the line does not make it start again.
NoLineTwice == [][StartsLine => PC[current] \notin ran[current]]_runVars

\* A program that ends has run its lines, all of them.
RunsEveryLine ==
  [][\A q \in live_pcbs \ live_pcbs' :
       phase # "rollback" => ran[q] = 0 .. LineCount[pcb_script[q]] - 1]_runVars
=============================================================================
