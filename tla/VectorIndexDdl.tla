---------------------------- MODULE VectorIndexDdl ----------------------------
(***************************************************************************)
(* The graph's vector index of one slot (source type, similarity function,  *)
(* dimensions), shared by every embedding policy of that slot: its creation *)
(* off the request path, the caches of ensured and of online names that     *)
(* every server process keeps, the probe of a semantic search, and the drop *)
(* when the last policy of the slot is deleted.                             *)
(*                                                                         *)
(* A step is what happens between two awaits. A statement of the graph is   *)
(* executed in one step and answered in another: CREATE waits for the       *)
(* schema lock, and what a process does in between goes on.                 *)
(***************************************************************************)
EXTENDS Naturals, FiniteSets

CONSTANTS
  Proc,        \* server processes
  Searcher,    \* those that searches of the slot are sent to
  Scheduler,   \* those whose scheduler finds policies of the slot
  Policy,      \* managed embedding policies of the slot, each created once
  MaxFaults    \* bound: statements of the graph that fail, processes that die

ASSUME ProcAssumption == Proc # {} /\ Searcher \cup Scheduler \subseteq Proc
ASSUME FaultsAssumption == MaxFaults \in Nat

VARIABLES
  policy,   \* SQL row of a policy: not yet created, live, deleted
  due,      \* live policies with status pending or indexing
  index,    \* the vector index in the graph
  ensured,  \* processes with the index in ensuredIndexNames
  online,   \* processes with the index in onlineIndexNames
  attempt,  \* the CREATE of a process: inflightDdl
  run,      \* where the backfill of a policy by a process is
  search,   \* a semantic search served by a process
  cleanUp,  \* cleanUpDeletedIndexResources of a deleted policy
  cleaner,  \* process that cleans up
  sharers,  \* history: policies that were live when this one was deleted
  faults

cacheVars == <<ensured, online, attempt>>
rowVars   == <<policy, due>>
dropVars  == <<cleanUp, cleaner, sharers>>
vars == <<rowVars, index, cacheVars, run, search, dropVars, faults>>

TypeOK ==
  /\ policy \in [Policy -> {"none", "live", "deleted"}]
  /\ due \subseteq Policy
  /\ index \in {"absent", "populating", "online"}
  /\ ensured \subseteq Proc
  /\ online \subseteq Proc
  /\ attempt \in [Proc -> {"none", "sent", "executed"}]
  /\ run \in [Proc \X Policy -> {"none", "found", "ensure"}]
  /\ search \in [Proc -> {"none", "probe", "sawOnline", "sawNot", "vector"}]
  /\ cleanUp \in [Policy -> {"none", "due", "unused", "dropping", "dropped", "over"}]
  /\ cleaner \in [Policy -> Proc]
  /\ sharers \in [Policy -> SUBSET Policy]
  /\ faults \in 0..MaxFaults

Init ==
  /\ policy = [q \in Policy |-> "none"]
  /\ due = {}
  /\ index = "absent"
  /\ ensured = {}
  /\ online = {}
  /\ attempt = [p \in Proc |-> "none"]
  /\ run = [e \in Proc \X Policy |-> "none"]
  /\ search = [p \in Proc |-> "none"]
  /\ cleanUp = [q \in Policy |-> "none"]
  /\ cleaner = [q \in Policy |-> CHOOSE p \in Proc : TRUE]
  /\ sharers = [q \in Policy |-> {}]
  /\ faults = 0

Live == {q \in Policy : policy[q] = "live"}

Fault == faults < MaxFaults /\ faults' = faults + 1

-----------------------------------------------------------------------------
(* ensureVectorIndexExists                                                  *)

(* A name that is cached and a CREATE already in flight cost nothing.       *)
Attempts(p) == p \notin ensured /\ attempt[p] = "none"

Ensure(p) == attempt' = IF Attempts(p) THEN [attempt EXCEPT ![p] = "sent"] ELSE attempt

(* CREATE VECTOR INDEX ... IF NOT EXISTS.                                   *)
CreateRuns(p) ==
  /\ attempt[p] = "sent"
  /\ attempt' = [attempt EXCEPT ![p] = "executed"]
  /\ index' = IF index = "absent" THEN "populating" ELSE index
  /\ UNCHANGED <<rowVars, ensured, online, run, search, dropVars, faults>>

CreateReturns(p) ==
  /\ attempt[p] = "executed"
  /\ attempt' = [attempt EXCEPT ![p] = "none"]
  /\ ensured' = ensured \cup {p}
  /\ UNCHANGED <<rowVars, index, online, run, search, dropVars, faults>>

(* Lock timeout, or an answer that is lost: every caller logs a warning.    *)
CreateFails(p) ==
  /\ Fault
  /\ attempt[p] # "none"
  /\ attempt' = [attempt EXCEPT ![p] = "none"]
  /\ UNCHANGED <<rowVars, index, ensured, online, run, search, dropVars>>

(* The graph fills a new index in the background.                           *)
Populated ==
  /\ index = "populating"
  /\ index' = "online"
  /\ UNCHANGED <<rowVars, cacheVars, run, search, dropVars, faults>>

-----------------------------------------------------------------------------
(* Policies and their backfill                                              *)

(* createIndex: the row, then the CREATE without awaiting it. The policy is *)
(* pending for the backfill.                                                *)
CreatePolicy(p, q) ==
  /\ policy[q] = "none"
  /\ policy' = [policy EXCEPT ![q] = "live"]
  /\ due' = due \cup {q}
  /\ Ensure(p)
  /\ UNCHANGED <<index, ensured, online, run, search, dropVars, faults>>

(* A later write marks the policy pending again.                            *)
Mark(q) ==
  /\ policy[q] = "live" /\ q \notin due
  /\ due' = due \cup {q}
  /\ UNCHANGED <<policy, index, cacheVars, run, search, dropVars, faults>>

(* runBackfill, once the policies of the last tick are all through: every   *)
(* policy that is pending or that a run has left at indexing.               *)
Tick(p) ==
  /\ p \in Scheduler
  /\ due # {}
  /\ \A q \in Policy : run[p, q] = "none"
  /\ run' = [e \in Proc \X Policy |->
              IF e[1] = p /\ e[2] \in due THEN "found" ELSE run[e]]
  /\ UNCHANGED <<rowVars, index, cacheVars, search, dropVars, faults>>

(* Mutant: the backfill relies on the creation of the policy.               *)
BackfillSkipsDdl(p, q) ==
  /\ run[p, q] = "found"
  /\ run' = [run EXCEPT ![<<p, q>>] = "ensure"]
  /\ UNCHANGED <<rowVars, index, cacheVars, search, dropVars, faults>>

(* backfillIndex ensures the index first, deleted as the policy may be.     *)
BackfillEnsures(p, q) ==
  /\ run[p, q] = "found"
  /\ run' = [run EXCEPT ![<<p, q>>] = "ensure"]
  /\ Ensure(p)
  /\ UNCHANGED <<rowVars, index, ensured, online, search, dropVars, faults>>

(* Whether the CREATE worked or not, the run embeds. It leaves the policy   *)
(* ready, or pending with values that remain.                               *)
BackfillEnds(p, q) ==
  /\ run[p, q] = "ensure"
  /\ attempt[p] = "none" \/ p \in ensured
  /\ run' = [run EXCEPT ![<<p, q>>] = "none"]
  /\ due' = due \/ due' = due \ {q}
  /\ UNCHANGED <<policy, index, cacheVars, search, dropVars, faults>>

-----------------------------------------------------------------------------
(* semanticSearch: isVectorIndexOnline, then the query                      *)

Searching(p, s) == search' = [search EXCEPT ![p] = s]

(* A cached name is trusted; otherwise SHOW INDEXES is asked.               *)
SearchStarts(p) ==
  /\ p \in Searcher
  /\ search[p] = "none" /\ Live # {}
  /\ Searching(p, IF p \in online THEN "vector" ELSE "probe")
  /\ UNCHANGED <<rowVars, index, cacheVars, run, dropVars, faults>>

(* Mutant: an index that exists counts as ready.                            *)
ProbeAnyState(p) ==
  /\ search[p] = "probe"
  /\ Searching(p, IF index # "absent" THEN "sawOnline" ELSE "sawNot")
  /\ UNCHANGED <<rowVars, index, cacheVars, run, dropVars, faults>>

ProbeRuns(p) ==
  /\ search[p] = "probe"
  /\ Searching(p, IF index = "online" THEN "sawOnline" ELSE "sawNot")
  /\ UNCHANGED <<rowVars, index, cacheVars, run, dropVars, faults>>

ProbeSaysOnline(p) ==
  /\ search[p] = "sawOnline"
  /\ Searching(p, "vector")
  /\ online' = online \cup {p}
  /\ UNCHANGED <<rowVars, index, ensured, attempt, run, dropVars, faults>>

(* Mutant: the exact search leaves the index to others.                     *)
NoBackgroundCreate(p) ==
  /\ search[p] = "sawNot"
  /\ Searching(p, "none")
  /\ UNCHANGED <<rowVars, index, cacheVars, run, dropVars, faults>>

(* The exact search answers, and the CREATE is sent off in the background.  *)
ProbeSaysNot(p) ==
  /\ search[p] = "sawNot"
  /\ Searching(p, "none")
  /\ Ensure(p)
  /\ UNCHANGED <<rowVars, index, ensured, online, run, dropVars, faults>>

(* A failing probe: exact search, without the background CREATE.            *)
ProbeFails(p) ==
  /\ Fault
  /\ search[p] = "probe"
  /\ Searching(p, "none")
  /\ UNCHANGED <<rowVars, index, cacheVars, run, dropVars>>

(* The query of the vector index; it is an error where there is none.       *)
VectorQuery(p) ==
  /\ search[p] = "vector"
  /\ Searching(p, "none")
  /\ UNCHANGED <<rowVars, index, cacheVars, run, dropVars, faults>>

-----------------------------------------------------------------------------
(* deleteIndex and cleanUpDeletedIndexResources                             *)

CleansUp(q, s) == cleanUp' = [cleanUp EXCEPT ![q] = s]

(* The row goes first; vectors and index are cleaned up in the background.  *)
DeletePolicy(p, q) ==
  /\ policy[q] = "live"
  /\ policy' = [policy EXCEPT ![q] = "deleted"]
  /\ due' = due \ {q}
  /\ CleansUp(q, "due")
  /\ cleaner' = [cleaner EXCEPT ![q] = p]
  /\ sharers' = [sharers EXCEPT ![q] = Live \ {q}]
  /\ UNCHANGED <<index, cacheVars, run, search, faults>>

(* Mutant: the policy's own row is counted as the only one left.            *)
CountIgnoresOthers(q) ==
  /\ cleanUp[q] = "due"
  /\ CleansUp(q, IF Cardinality(Live) <= 1 THEN "unused" ELSE "over")
  /\ UNCHANGED <<rowVars, index, cacheVars, run, search, cleaner, sharers, faults>>

(* countByVectorPropertyName.                                               *)
CountPolicies(q) ==
  /\ cleanUp[q] = "due"
  /\ CleansUp(q, IF Live = {} THEN "unused" ELSE "over")
  /\ UNCHANGED <<rowVars, index, cacheVars, run, search, cleaner, sharers, faults>>

(* dropVectorIndex forgets the name, in this process, and sends the DROP.   *)
Forget(q) ==
  /\ cleanUp[q] = "unused"
  /\ CleansUp(q, "dropping")
  /\ ensured' = ensured \ {cleaner[q]}
  /\ online' = online \ {cleaner[q]}
  /\ UNCHANGED <<rowVars, index, attempt, run, search, cleaner, sharers, faults>>

(* DROP INDEX ... IF EXISTS.                                                *)
DropRuns(q) ==
  /\ cleanUp[q] = "dropping"
  /\ CleansUp(q, "dropped")
  /\ index' = "absent"
  /\ UNCHANGED <<rowVars, cacheVars, run, search, cleaner, sharers, faults>>

(* Counting or dropping fails: a warning, and nobody cleans up again.       *)
CleanUpFails(q) ==
  /\ Fault
  /\ cleanUp[q] \in {"due", "dropping"}
  /\ CleansUp(q, "over")
  /\ UNCHANGED <<rowVars, index, cacheVars, run, search, cleaner, sharers>>

(* A process dies: its caches, its runs, its searches and its cleanups are  *)
(* lost.                                                                    *)
Restart(p) ==
  /\ Fault
  /\ ensured' = ensured \ {p}
  /\ online' = online \ {p}
  /\ attempt' = [attempt EXCEPT ![p] = "none"]
  /\ Searching(p, "none")
  /\ run' = [e \in Proc \X Policy |-> IF e[1] = p THEN "none" ELSE run[e]]
  /\ cleanUp' = [q \in Policy |->
                  IF cleaner[q] = p /\ cleanUp[q] \in {"due", "unused", "dropping"}
                  THEN "over" ELSE cleanUp[q]]
  /\ UNCHANGED <<rowVars, index, cleaner, sharers>>

-----------------------------------------------------------------------------
Ddl(p) == CreateRuns(p) \/ CreateReturns(p)
Serve(p) == ProbeRuns(p) \/ ProbeSaysOnline(p) \/ ProbeSaysNot(p) \/ VectorQuery(p)
Backfill(p, q) == BackfillEnsures(p, q) \/ BackfillEnds(p, q)
CleanUp(q) == CountPolicies(q) \/ Forget(q) \/ DropRuns(q)

Next ==
  \/ \E p \in Proc : \/ Ddl(p) \/ CreateFails(p) \/ SearchStarts(p) \/ Serve(p)
                     \/ ProbeFails(p) \/ Restart(p) \/ Tick(p)
  \/ \E p \in Proc, q \in Policy : \/ CreatePolicy(p, q) \/ DeletePolicy(p, q)
                                   \/ Backfill(p, q)
  \/ \E q \in Policy : Mark(q) \/ CleanUp(q) \/ CleanUpFails(q)
  \/ Populated

Spec == Init /\ [][Next]_vars

(* The graph executes and answers what it is sent, requests go on once they *)
(* have begun, the scheduler of every process ticks.                        *)
Fairness ==
  /\ WF_vars(Populated)
  /\ \A p \in Proc : WF_vars(Ddl(p)) /\ WF_vars(Serve(p)) /\ WF_vars(Tick(p))
  /\ \A q \in Policy : WF_vars(CleanUp(q))
  /\ \A p \in Proc, q \in Policy : WF_vars(Backfill(p, q))

FairSpec == Spec /\ Fairness
-----------------------------------------------------------------------------
(* What the caches and the retries promise                                  *)

(* Deleting a policy costs no policy of its slot the index: none that was   *)
(* live when the row went and still is when the index is dropped, although  *)
(* counting and dropping run in the background (ai.service.ts:1001).        *)
SharedIndexKept ==
  \A q \in Policy : cleanUp[q] \in {"unused", "dropping"} => Live \cap sharers[q] = {}

(* Until a DROP has run, what a process remembers is so: an ensured index   *)
(* exists, and a search only queries an index that is ONLINE, not one that  *)
(* is still populating (embedding-index-ddl.service.ts:67, 98).             *)
CachesAreTrue ==
  (\A q \in Policy : cleanUp[q] # "dropped") =>
    /\ ensured # {} => index # "absent"
    /\ online # {} => index = "online"
    /\ \A p \in Proc : search[p] = "vector" => index = "online"

Undisturbed == faults = MaxFaults /\ \A q \in Policy : policy[q] # "deleted"

(* Once statements no longer fail, a search that finds the index not ONLINE *)
(* brings it about, and so does a backfill that is still to begin, whichever *)
(* attempts failed before it. Nothing else does: the backfill that has met  *)
(* the failure may be the policy's last (ai.service.ts:1264,                *)
(* embedding-backfill.scheduler.ts:122).                                    *)
CreationRetried ==
  (Undisturbed /\ \/ \E p \in Proc : search[p] = "sawNot"
                  \/ \E q \in due : \A p \in Proc : run[p, q] = "none")
    ~> (index = "online" \/ ~Undisturbed)
=============================================================================
