---------------------------- MODULE RequestCoalescer ----------------------------
(***************************************************************************)
(* RequestCoalescer (request_coalescing.rs).  The first request for a key  *)
(* executes; those that come before everyone has collected its result wait *)
(* for that result, polling.  Every call holds the lock throughout.  A     *)
(* request may be dropped at any point, which the coalescer is not told.   *)
(***************************************************************************)
EXTENDS Naturals, FiniteSets

CONSTANTS
  Askers,        \* the concurrent requests
  RequestKeys,
  MaxDropped     \* bound: requests dropped

ASSUME CoalescerAssumption ==
  /\ IsFiniteSet(Askers) /\ RequestKeys # {}

VARIABLES
  pending,   \* the keys under way: how many wait, and whether there is a result
  stage,     \* how far each request is: "outside", "executing" or "waiting"
  wanted,    \* the key each request that is not outside asked for
  dropped    \* per key, the requests dropped before they had the result

coalescerVars == <<pending, stage, wanted, dropped>>

CoalescerInit ==
  /\ pending = [k \in {} |-> 0]
  /\ stage = [r \in Askers |-> "outside"]
  /\ wanted = [r \in Askers |-> CHOOSE k \in RequestKeys : TRUE]
  /\ dropped = [k \in RequestKeys |-> 0]

-----------------------------------------------------------------------------
Pending == DOMAIN pending

Inside(k) == {r \in Askers : stage[r] # "outside" /\ wanted[r] = k}

Enters(r, k, place) ==
  /\ stage' = [stage EXCEPT ![r] = place]
  /\ wanted' = [wanted EXCEPT ![r] = k]

Leaves(r) ==
  /\ stage' = [stage EXCEPT ![r] = "outside"]
  /\ UNCHANGED wanted

(* begin, for a key that is not under way. *)
BeginFirst(r, k) ==
  /\ stage[r] = "outside" /\ k \notin Pending
  /\ pending' = [j \in Pending \cup {k} |->
       IF j = k THEN [waiters |-> 1, result |-> FALSE] ELSE pending[j]]
  /\ Enters(r, k, "executing")
  /\ UNCHANGED dropped

(* Mutant of Joined: a request that joins is not counted. *)
JoinedUncounted(entry) == entry

Joined(entry) == [entry EXCEPT !.waiters = @ + 1]

(* begin, for a key that is. *)
BeginJoins(r, k) ==
  /\ stage[r] = "outside" /\ k \in Pending
  /\ pending' = [pending EXCEPT ![k] = Joined(@)]
  /\ Enters(r, k, "waiting")
  /\ UNCHANGED dropped

(* complete, by the request that executed. *)
Complete(r) ==
  /\ stage[r] = "executing"
  /\ pending' = [k \in Pending |->
       IF k = wanted[r] THEN [pending[k] EXCEPT !.result = TRUE] ELSE pending[k]]
  /\ stage' = [stage EXCEPT ![r] = "waiting"]
  /\ UNCHANGED <<wanted, dropped>>

(* Mutant of LastWaiter: one collects as if it were the last. *)
LastWaiterEarly(n) == n <= 1

(* n wait besides the one that collects. *)
LastWaiter(n) == n = 0

(* collect_result that finds one; until then it is None, to be asked again. *)
CollectResult(r) ==
  LET k == wanted[r] IN
  /\ stage[r] = "waiting"
  /\ k \in Pending /\ pending[k].result
  /\ IF LastWaiter(pending[k].waiters - 1)
     THEN pending' = [j \in Pending \ {k} |-> pending[j]]
     ELSE pending' = [pending EXCEPT ![k].waiters = @ - 1]
  /\ Leaves(r)
  /\ UNCHANGED dropped

(* The caller of a request gives up, or its thread panics. *)
Drop(r) ==
  /\ stage[r] # "outside"
  /\ dropped[wanted[r]] < MaxDropped
  /\ dropped' = [dropped EXCEPT ![wanted[r]] = @ + 1]
  /\ Leaves(r)
  /\ UNCHANGED pending

CoalescerNext ==
  \E r \in Askers :
    \/ \E k \in RequestKeys : BeginFirst(r, k) \/ BeginJoins(r, k)
    \/ Complete(r) \/ CollectResult(r) \/ Drop(r)

(* The request that executes returns, and a request polls until it has the *)
(* result.                                                                 *)
CoalescerFairness ==
  \A r \in Askers :
    WF_coalescerVars(Complete(r)) /\ WF_coalescerVars(CollectResult(r))

CoalescerSpec == CoalescerInit /\ [][CoalescerNext]_coalescerVars

-----------------------------------------------------------------------------
(* A request that waits is never left behind: the entry that holds its     *)
(* result, or will, stays until it has collected, whoever else joins,      *)
(* collects or is dropped meanwhile, and no second request executes for    *)
(* that key.                                                               *)
NobodyLeftBehind ==
  \A r \in Askers : stage[r] # "outside" =>
    /\ wanted[r] \in Pending
    /\ stage[r] = "executing" => ~pending[wanted[r]].result
    /\ \A s \in Inside(wanted[r]) : stage[r] = "executing" /\ stage[s] = "executing" => r = s

(* A request is handed what an earlier one asked for only in company: one  *)
(* that finds nobody under way for its key executes anew, so that no       *)
(* result outlives the requests that share it - unless one of them was     *)
(* dropped, after which the entry is there for good.                       *)
StaleOnlyIfDropped ==
  \A k \in Pending : Inside(k) # {} \/ dropped[k] > 0

(* Both: an entry is there as long as, and no longer than, it is needed. *)
WaitersMatchEntries == NobodyLeftBehind /\ StaleOnlyIfDropped

(* Every request that waits gets its result in the end, unless one for its *)
(* key is dropped: the one that executes is then missed for ever.          *)
EveryRequestServed ==
  \A r \in Askers :
    stage[r] = "waiting" ~> stage[r] = "outside" \/ dropped[wanted[r]] > 0
=================================================================================
