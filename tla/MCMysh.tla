------------------------------- MODULE MCMysh -------------------------------
(* Mysh with small scripts; each cfg chooses what may be typed and may fail. *)
EXTENDS Mysh

CONSTANTS
  a, b, c,    \* the scripts
  MaxPid, MaxClock, ClockCap,
  Spare,      \* identifiers kept for what one command can make
  Once        \* whether a script is asked for only while it is not loaded

MCScripts == {a, b, c}
MCPids == 1 .. MaxPid

Plain == [op |-> "plain"]
Quit == [op |-> "quit"]
Cd(there) == [op |-> "cd", home |-> there]
Lines(n) == [i \in 1 .. n |-> <<Plain>>]
Alone(commands) == {<<command>> : command \in commands}
Ex(scripts, policy) == [op |-> "exec", scripts |-> scripts, policy |-> policy]
So(s) == [op |-> "source", scripts |-> <<s>>, policy |-> "FCFS"]
LinesOf(program) == [s \in DOMAIN program |-> Len(program[s])]

\* Scripts of many pages that compete for the frames.
PlainProgram == (a :> Lines(8)) @@ (b :> Lines(1)) @@ (c :> Lines(7))
PlainLineCount == LinesOf(PlainProgram)
PlainTyped ==
  Alone({Ex(r, p) : r \in {<<a>>, <<b>>, <<a, c>>, <<c>>, <<b, c>>, <<c, b, a>>}, p \in Policies})

\* Scripts that load others while they run, change directory and quit, with more
\* commands on the same line.
NestingProgram ==
  (a :> <<<<Plain>>, <<Ex(<<b, c, b>>, "AGING"), Plain>>, <<Plain>>, <<>>, <<Plain>>>>)
  @@ (b :> <<<<Plain>>>>)
  @@ (c :> <<<<Cd(FALSE), So(b)>>, <<So(b)>>, <<Plain>>, <<Plain>>, <<Cd(TRUE)>>>>)
NestingLineCount == LinesOf(NestingProgram)
NestingTyped ==
  {<<Ex(<<a>>, "AGING")>>, <<Ex(<<a, c>>, "RR")>>, <<Ex(<<b, c, b>>, "SJF"), Plain>>,
   <<So(c), Cd(TRUE), So(b)>>, <<Cd(TRUE), Quit, Plain>>, <<>>}

\* A script of exactly one page and an empty one, next to a long one.
SmallProgram == (a :> Lines(5)) @@ (b :> Lines(2)) @@ (c :> <<>>)
SmallLineCount == LinesOf(SmallProgram)
SmallTyped == Alone({Ex(r, "FCFS") : r \in {<<a>>, <<b>>, <<c>>, <<a, b>>, <<a, b, c>>}})

\* One long script, asked for twice at once or in turn.
SharedTyped == Alone({Ex(<<a, a>>, "RR"), Ex(<<a>>, "FCFS")})

\* A script that changes directory and goes on.
WanderingProgram == (a :> <<<<Cd(FALSE)>>>> \o Lines(5)) @@ (b :> Lines(1)) @@ (c :> Lines(1))
WanderingLineCount == LinesOf(WanderingProgram)
WanderingTyped == Alone({Ex(<<a>>, "FCFS"), Ex(<<b, a>>, "RR")})

\* A program run under AGING that sources another.
MixedProgram == (a :> <<<<Plain>>, <<So(c)>>, <<Plain>>, <<Plain>>>>) @@ (b :> Lines(6)) @@ (c :> Lines(2))
MixedLineCount == LinesOf(MixedProgram)
MixedTyped == {<<Ex(<<a, b>>, "AGING")>>}

\* Model bounds: the user types nothing more once the clock has reached
\* MaxClock or the process identifiers would run out, and the shell stops dead
\* if the clock ever reaches ClockCap.
BoundedPrompt(chain) ==
  /\ clock_value < MaxClock /\ pid_counter + Spare <= MaxPid
  /\ Once => \A i \in DOMAIN chain : ToSet(chain[i].scripts) \cap loaded_scripts = {}
  /\ Prompt(chain)
BoundedSystemNext == clock_value < ClockCap /\ SystemNext
BoundedNext ==
  EndOfInput \/ (\E chain \in Typed : BoundedPrompt(chain)) \/ BoundedSystemNext \/ Exited
BoundedSpec == Init /\ [][BoundedNext]_vars /\ WF_vars(BoundedSystemNext)
=============================================================================
