---------------------------- MODULE UseHistory ----------------------------
(* The paged memory with history variables: when each page was last used.  *)
EXTENDS ShellMemory

VARIABLES
  uses,     \* how many times a page was loaded or a line of it was read
  last_use  \* last_use[<<s, p>>]: which of those uses was the last of page p of s

useVars == <<memVars, uses, last_use>>

\* The pages a script starts with are used in page order.
InitialUses(s) ==
  /\ uses' = uses + Cardinality(InitialPages(s))
  /\ last_use' = [x \in DOMAIN last_use |->
       IF x[1] = s /\ x[2] \in InitialPages(s) THEN uses + x[2] + 1 ELSE last_use[x]]

\* Process q runs a line of page p, or brings that page in.
UseOf(q, p) ==
  /\ uses' = uses + 1
  /\ last_use' = [last_use EXCEPT ![<<pcb_script[q], p>>] = uses + 1]

UseInit ==
  /\ MemInit
  /\ uses = 0
  /\ last_use = [x \in Scripts \X AllPages |-> 0]
UseNext ==
  \/ \E s \in Scripts : LoadScript(s) /\ InitialUses(s)
  \/ \E q \in Pids, p \in AllPages : (Fetch(q, p) \/ DemandLoad(q, p)) /\ UseOf(q, p)
  \/ /\ \/ \E s \in Scripts : LoadScriptFails(s)
        \/ \E q \in Pids, s \in Scripts : RegisterPcb(q, s)
        \/ \E q \in Pids : UnregisterPcb(q)
        \/ \E S \in SUBSET loaded_scripts, Q \in SUBSET live_pcbs : Rollback(S, Q)
        \/ \E q \in Pids, p \in AllPages : DemandLoadFails(q, p)
     /\ UNCHANGED <<uses, last_use>>
UseSpec == UseInit /\ [][UseNext]_useVars

\* The stamps are the order of use: loading a page and reading a line of it, for
\* whichever process that shares it, put it behind all others, and nothing else
\* moves it.  So the victim of an eviction is the page used longest ago.
StampsFollowUse ==
  \A f, g \in Occupied :
    frame_table[f].last_used < frame_table[g].last_used
      <=> last_use[Held(f)] < last_use[Held(g)]

\* A page gives up its frame to a page fault only when every page that stays was
\* used after it; otherwise pages leave together with their script.
EvictsLongestUnused ==
  [][loaded_scripts' = loaded_scripts =>
       \A x \in HeldPages \ HeldPages', y \in HeldPages \cap HeldPages' :
         last_use[x] < last_use[y]]_useVars
=============================================================================
