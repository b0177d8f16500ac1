--------------------------- MODULE MCShellMemory ---------------------------
(* ShellMemory on a small store: scripts of three pages, one page and none. *)
EXTENDS UseHistory, TLC

CONSTANTS a, b, c, MaxClock

MCScripts == {a, b, c}
MCLineCount == (a :> 3) @@ (b :> 1) @@ (c :> 0)
MCPids == 1 .. 2

\* Model bound: memory is left alone once the clock has reached MaxClock.
BoundedNext == clock_value < MaxClock /\ UseNext
BoundedSpec == UseInit /\ [][BoundedNext]_useVars
=============================================================================
