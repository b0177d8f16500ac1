------------------------------ MODULE LruCache ------------------------------
(***************************************************************************)
(* What the paged memory of mysh promises, without frames, page tables,    *)
(* stamps or processes: a set of at most Capacity resident pages, in the   *)
(* order of their last use, which makes room for a page only when it is    *)
(* full and then at the cost of the page that was used longest ago.        *)
(* A page is a pair: the script it belongs to and its number.              *)
(***************************************************************************)
EXTENDS Integers, FiniteSets

CONSTANTS
  Scripts,    \* scripts that have pages
  Numbers,    \* numbers of pages
  Capacity    \* pages that can be resident

VARIABLES
  resident,   \* the pages in memory
  older       \* <<x, y>> when x was last used before y

cacheVars == <<resident, older>>
-----------------------------------------------------------------------------
\* The order on the pages that stay once those in S are gone.
Without(S) == {pair \in older : pair[1] \notin S /\ pair[2] \notin S}

\* The pages of S follow all of T; among themselves they follow their numbers.
Newest(T, S) == (T \X S) \cup {pair \in S \X S : pair[1][2] < pair[2][2]}

IsOldest(v) == v \in resident /\ \A x \in resident \ {v} : <<v, x>> \in older

CacheInit == resident = {} /\ older = {}

\* Pages come into free room.
Fill(S) ==
  /\ S \cap resident = {}
  /\ resident' = resident \cup S
  /\ Cardinality(resident') <= Capacity
  /\ older' = older \cup Newest(resident, S)

\* A line of page x is read.
Touch(x) ==
  /\ x \in resident
  /\ older' = Without({x}) \cup Newest(resident \ {x}, {x})
  /\ UNCHANGED resident

\* Page x takes the place of the oldest page of a full memory ...
Replace(x) ==
  /\ x \notin resident
  /\ Cardinality(resident) = Capacity
  /\ \E v \in resident :
       /\ IsOldest(v)
       /\ resident' = (resident \ {v}) \cup {x}
       /\ older' = Without({v}) \cup Newest(resident \ {v}, {x})

\* ... or the oldest page is lost and nothing takes its place.
Discard ==
  /\ Cardinality(resident) = Capacity
  /\ \E v \in resident :
       /\ IsOldest(v)
       /\ resident' = resident \ {v}
       /\ older' = Without({v})

\* Scripts are forgotten with all their pages.
Forget(S) ==
  /\ resident' = {x \in resident : x[1] \notin S}
  /\ older' = Without({x \in resident : x[1] \in S})

CacheNext ==
  \/ \E s \in Scripts : \E N \in SUBSET Numbers : Fill({s} \X N)
  \/ \E x \in Scripts \X Numbers : Touch(x) \/ Replace(x)
  \/ Discard
  \/ \E S \in SUBSET Scripts : Forget(S)

CacheSpec == CacheInit /\ [][CacheNext]_cacheVars
=============================================================================
