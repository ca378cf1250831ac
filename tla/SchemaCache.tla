---------------------------- MODULE SchemaCache ----------------------------
(***************************************************************************)
(* getSchema of AiService: the schema of a project is served from a SQL     *)
(* cache or recalculated by a single-flight run that reads the graph label  *)
(* by label, each statement on a session of its own. A caller that forces   *)
(* a recalculation never joins a run in flight: it waits for one follow-up  *)
(* run, shared by all such callers of the same server process.              *)
(*                                                                         *)
(* A step is what runs between two awaits. Several processes may serve the  *)
(* same project: they share the graph and the SQL row, not the two maps.    *)
(***************************************************************************)
EXTENDS Naturals, FiniteSets

CONSTANTS
  Proc,              \* server processes
  Caller,            \* calls of getSchema, each happens once
  Label,             \* labels of the project's records
  Run,               \* identities for runs, reused once a run is over
  None,              \* stands for no run, no process, no cached schema
  MaxWrites,         \* bound: writes per label
  MaxFailures,       \* bound: graph statements and reads of the row that reject
  MaxPersistFailures \* bound: failed writes of the SQL cache

ASSUME NoneAssumption ==
  /\ None \notin Run \cup Proc
  /\ None \notin [Label -> 0..MaxWrites]

ASSUME BoundsAssumption ==
  /\ MaxWrites \in Nat
  /\ MaxFailures \in Nat
  /\ MaxPersistFailures \in Nat

VARIABLES
  graph,         \* number of committed writes to the records of each label
  cache,         \* schemaCache of the project row, None before the first run
  fresh,         \* whether schemaCachedAt is less than an hour ago
  stage,         \* stage of each run
  owner,         \* process of each run
  todo,          \* labels a run has yet to read
  seen,          \* what a run has read
  inFlight,      \* schemaRecalcInFlight of each process
  queued,        \* schemaRecalcQueued: its promise waits, or is due to go on
  pc,            \* where a call is
  kind,          \* options of a call
  at,            \* process of a call
  need,          \* the graph when the call was made
  row,           \* the cached schema the call found in the project row
  rowFresh,      \* and whether that was fresh
  waits,         \* the run a call waits for
  result,        \* what a call returned
  failures,
  persistFailures

graphVars == <<graph, cache, fresh>>
runVars   == <<stage, owner, todo, seen, inFlight, queued>>
callVars  == <<pc, kind, at, need, row, rowFresh, waits, result>>
vars      == <<graphVars, runVars, callVars, failures, persistFailures>>

Schema == [Label -> 0..MaxWrites]
Zero   == [l \in Label |-> 0]
Covers(s, r) == \A l \in Label : r[l] <= s[l]

Stage  == {"idle", "labels", "reading", "persisted", "rejected"}
PC     == {"idle", "looked", "on_run", "on_queue", "answered", "failed"}
Kind   == {"plain", "stale", "force"}

TypeOK ==
  /\ graph \in Schema
  /\ cache \in Schema \cup {None}
  /\ fresh \in BOOLEAN
  /\ stage \in [Run -> Stage]
  /\ owner \in [Run -> Proc \cup {None}]
  /\ todo \in [Run -> SUBSET Label]
  /\ seen \in [Run -> Schema]
  /\ inFlight \in [Proc -> Run \cup {None}]
  /\ queued \in [Proc -> {"none", "waiting", "due"}]
  /\ pc \in [Caller -> PC]
  /\ kind \in [Caller -> Kind]
  /\ at \in [Caller -> Proc \cup {None}]
  /\ need \in [Caller -> Schema]
  /\ row \in [Caller -> Schema \cup {None}]
  /\ rowFresh \in [Caller -> BOOLEAN]
  /\ waits \in [Caller -> Run \cup {None}]
  /\ result \in [Caller -> Schema]
  /\ failures \in 0..MaxFailures
  /\ persistFailures \in 0..MaxPersistFailures

Init ==
  /\ graph = Zero
  /\ cache = None
  /\ fresh = FALSE
  /\ stage = [i \in Run |-> "idle"]
  /\ owner = [i \in Run |-> None]
  /\ todo = [i \in Run |-> {}]
  /\ seen = [i \in Run |-> Zero]
  /\ inFlight = [p \in Proc |-> None]
  /\ queued = [p \in Proc |-> "none"]
  /\ pc = [c \in Caller |-> "idle"]
  /\ kind = [c \in Caller |-> "plain"]
  /\ at = [c \in Caller |-> None]
  /\ need = [c \in Caller |-> Zero]
  /\ row = [c \in Caller |-> None]
  /\ rowFresh = [c \in Caller |-> FALSE]
  /\ waits = [c \in Caller |-> None]
  /\ result = [c \in Caller |-> Zero]
  /\ failures = 0
  /\ persistFailures = 0

-----------------------------------------------------------------------------
(* The environment                                                          *)

Write(l) ==
  /\ graph[l] < MaxWrites
  /\ graph' = [graph EXCEPT ![l] = @ + 1]
  /\ UNCHANGED <<cache, fresh, runVars, callVars, failures, persistFailures>>

(* An hour passes (SCHEMA_CACHE_TTL_MS).                                    *)
CacheAges ==
  /\ fresh
  /\ fresh' = FALSE
  /\ UNCHANGED <<graph, cache, runVars, callVars, failures, persistFailures>>

-----------------------------------------------------------------------------
(* recalculateSchemaSingleFlight                                            *)

(* The call of recalculateSchema and the entry of the in-flight map.        *)
StartRun(p, i) ==
  /\ stage[i] = "idle"
  /\ stage' = [stage EXCEPT ![i] = "labels"]
  /\ owner' = [owner EXCEPT ![i] = p]
  /\ inFlight' = [inFlight EXCEPT ![p] = i]
  /\ UNCHANGED <<todo, seen>>

(* Mutant: a caller that forces a recalculation joins the run in flight.    *)
JoinsAlways(c) == TRUE

(* Whether a call joins the run in flight of its process.                   *)
Joins(c) == kind[c] # "force"

(* The promise the caller c, which cannot be served from the cache, awaits. *)
SingleFlight(c) ==
  LET p == at[c] IN
  \/ /\ inFlight[p] = None
     /\ \E i \in Run :
          /\ StartRun(p, i)
          /\ waits' = [waits EXCEPT ![c] = i]
     /\ pc' = [pc EXCEPT ![c] = "on_run"]
     /\ UNCHANGED queued
  \/ /\ inFlight[p] # None
     /\ Joins(c)
     /\ waits' = [waits EXCEPT ![c] = inFlight[p]]
     /\ pc' = [pc EXCEPT ![c] = "on_run"]
     /\ UNCHANGED runVars
  \/ /\ inFlight[p] # None
     /\ ~Joins(c)
     /\ queued' = [queued EXCEPT ![p] = IF @ = "none" THEN "waiting" ELSE @]
     /\ pc' = [pc EXCEPT ![c] = "on_queue"]
     /\ UNCHANGED <<stage, owner, todo, seen, inFlight, waits>>

(* Mutant: the follow-up does not look for a run started in between.        *)
FollowUpOverlaps(p) ==
  /\ queued[p] = "due"
  /\ queued' = [queued EXCEPT ![p] = "none"]
  /\ \E i \in Run :
       /\ StartRun(p, i)
       /\ waits' = [c \in Caller |-> IF pc[c] = "on_queue" /\ at[c] = p
                                     THEN i ELSE waits[c]]
  /\ pc' = [c \in Caller |-> IF pc[c] = "on_queue" /\ at[c] = p
                             THEN "on_run" ELSE pc[c]]
  /\ UNCHANGED <<graphVars, kind, at, need, row, rowFresh, result, failures,
                 persistFailures>>

(* The continuation of the queued promise, some microtasks after the run it *)
(* waited for settled: another caller may have started a run in between.    *)
FollowUp(p) ==
  /\ queued[p] = "due"
  /\ \/ /\ inFlight[p] = None
        /\ queued' = [queued EXCEPT ![p] = "none"]
        /\ \E i \in Run :
             /\ StartRun(p, i)
             /\ waits' = [c \in Caller |-> IF pc[c] = "on_queue" /\ at[c] = p
                                           THEN i ELSE waits[c]]
        /\ pc' = [c \in Caller |-> IF pc[c] = "on_queue" /\ at[c] = p
                                   THEN "on_run" ELSE pc[c]]
     \/ /\ inFlight[p] # None
        /\ queued' = [queued EXCEPT ![p] = "waiting"]
        /\ UNCHANGED <<stage, owner, todo, seen, inFlight, waits, pc>>
  /\ UNCHANGED <<graphVars, kind, at, need, row, rowFresh, result, failures,
                 persistFailures>>

-----------------------------------------------------------------------------
(* getSchema                                                                *)

(* A call reads the project row (projectRepository.findById).               *)
Call(c, p) ==
  /\ pc[c] = "idle"
  /\ pc' = [pc EXCEPT ![c] = "looked"]
  /\ \E k \in Kind : kind' = [kind EXCEPT ![c] = k]
  /\ at' = [at EXCEPT ![c] = p]
  /\ need' = [need EXCEPT ![c] = graph]
  /\ row' = [row EXCEPT ![c] = cache]
  /\ rowFresh' = [rowFresh EXCEPT ![c] = fresh]
  /\ UNCHANGED <<graphVars, runVars, waits, result, failures, persistFailures>>

(* The project row is local to the call.                                    *)
Forget(c) ==
  /\ row' = [row EXCEPT ![c] = None]
  /\ rowFresh' = [rowFresh EXCEPT ![c] = FALSE]

(* The read of the project row rejects, and the call with it.               *)
LookupFails(c) ==
  /\ pc[c] = "looked"
  /\ failures < MaxFailures
  /\ failures' = failures + 1
  /\ pc' = [pc EXCEPT ![c] = "failed"]
  /\ Forget(c)
  /\ UNCHANGED <<graphVars, runVars, kind, at, need, waits, result, persistFailures>>

Cached(c) == kind[c] # "force" /\ row[c] # None

(* The cached schema is returned; a stale one is refreshed in the           *)
(* background unless the caller allows stale schemas.                       *)
ServeCached(c) ==
  /\ pc[c] = "looked"
  /\ Cached(c)
  /\ pc' = [pc EXCEPT ![c] = "answered"]
  /\ result' = [result EXCEPT ![c] = row[c]]
  /\ IF rowFresh[c] \/ kind[c] = "stale" \/ inFlight[at[c]] # None
     THEN UNCHANGED runVars
     ELSE /\ \E i \in Run : StartRun(at[c], i)
          /\ UNCHANGED queued
  /\ Forget(c)
  /\ UNCHANGED <<graphVars, kind, at, need, waits, failures, persistFailures>>

Recalculate(c) ==
  /\ pc[c] = "looked"
  /\ ~Cached(c)
  /\ SingleFlight(c)
  /\ Forget(c)
  /\ UNCHANGED <<graphVars, kind, at, need, result, failures, persistFailures>>

-----------------------------------------------------------------------------
(* recalculateSchema                                                        *)

ReadLabels(i) ==
  /\ stage[i] = "labels"
  /\ stage' = [stage EXCEPT ![i] = "reading"]
  /\ todo' = [todo EXCEPT ![i] = {l \in Label : graph[l] > 0}]
  /\ seen' = [seen EXCEPT ![i] = Zero]
  /\ UNCHANGED <<graphVars, owner, inFlight, queued, callVars, failures,
                 persistFailures>>

(* The statements of one label; several labels are read concurrently.       *)
ReadLabel(i, l) ==
  /\ stage[i] = "reading"
  /\ l \in todo[i]
  /\ todo' = [todo EXCEPT ![i] = @ \ {l}]
  /\ seen' = [seen EXCEPT ![i] = [@ EXCEPT ![l] = graph[l]]]
  /\ UNCHANGED <<graphVars, stage, owner, inFlight, queued, callVars, failures,
                 persistFailures>>

(* A statement rejects, and the run with it.                                *)
StatementFails(i) ==
  /\ stage[i] \in {"labels", "reading"}
  /\ failures < MaxFailures
  /\ failures' = failures + 1
  /\ stage' = [stage EXCEPT ![i] = "rejected"]
  /\ UNCHANGED <<graphVars, owner, todo, seen, inFlight, queued, callVars,
                 persistFailures>>

(* The schema is stored, best effort.                                       *)
Persist(i) ==
  /\ stage[i] = "reading"
  /\ todo[i] = {}
  /\ stage' = [stage EXCEPT ![i] = "persisted"]
  /\ \/ /\ cache' = seen[i]
        /\ fresh' = TRUE
        /\ UNCHANGED persistFailures
     \/ /\ persistFailures < MaxPersistFailures
        /\ persistFailures' = persistFailures + 1
        /\ UNCHANGED <<cache, fresh>>
  /\ UNCHANGED <<graph, owner, todo, seen, inFlight, queued, callVars, failures>>

(* What becomes of the promise queued behind run i when it settles.         *)
(* Mutant: the catch in front of the follow-up is missing.                  *)
WakesOnSuccess(p, i) ==
  IF queued[p] = "waiting" /\ stage[i] = "persisted" THEN "due" ELSE queued[p]

(* What becomes of the promise queued behind run i when it settles: it goes *)
(* on, whatever the outcome (catch, then).                                  *)
Wakes(p, i) == IF queued[p] = "waiting" THEN "due" ELSE queued[p]

(* What a run returns: what it computed, stored or not.                     *)
Returned(i) == seen[i]

(* The run settles: finally removes the in-flight entry, the callers that   *)
(* await the run go on, and the promise queued behind it becomes due,       *)
(* whatever the outcome.                                                    *)
Settle(i) ==
  LET p == owner[i] IN
  /\ stage[i] \in {"persisted", "rejected"}
  /\ stage' = [stage EXCEPT ![i] = "idle"]
  /\ owner' = [owner EXCEPT ![i] = None]
  /\ inFlight' = [inFlight EXCEPT ![p] = None]
  /\ queued' = [queued EXCEPT ![p] = Wakes(p, i)]
  /\ pc' = [c \in Caller |->
              IF pc[c] = "on_run" /\ waits[c] = i
              THEN IF stage[i] = "persisted" THEN "answered" ELSE "failed"
              ELSE pc[c]]
  /\ result' = [c \in Caller |->
                  IF pc[c] = "on_run" /\ waits[c] = i /\ stage[i] = "persisted"
                  THEN Returned(i) ELSE result[c]]
  /\ waits' = [c \in Caller |-> IF waits[c] = i THEN None ELSE waits[c]]
  /\ todo' = [todo EXCEPT ![i] = {}]
  /\ seen' = [seen EXCEPT ![i] = Zero]
  /\ UNCHANGED <<graphVars, kind, at, need, row, rowFresh, failures,
                 persistFailures>>

-----------------------------------------------------------------------------

RunStep(i) ==
  \/ ReadLabels(i)
  \/ \E l \in Label : ReadLabel(i, l)
  \/ Persist(i)
  \/ Settle(i)

CallStep(c) == ServeCached(c) \/ Recalculate(c)

Next ==
  \/ \E l \in Label : Write(l)
  \/ CacheAges
  \/ \E c \in Caller, p \in Proc : Call(c, p)
  \/ \E c \in Caller : CallStep(c) \/ LookupFails(c)
  \/ \E i \in Run : RunStep(i) \/ StatementFails(i)
  \/ \E p \in Proc : FollowUp(p)

(* The event loop runs every continuation and the databases answer.         *)
Fairness ==
  /\ \A i \in Run : WF_vars(RunStep(i))
  /\ \A c \in Caller : WF_vars(CallStep(c))
  /\ \A p \in Proc : WF_vars(FollowUp(p))

Spec == Init /\ [][Next]_vars /\ Fairness

-----------------------------------------------------------------------------
(* Properties                                                               *)

(* "force callers get read-your-writes semantics": a forced call returns    *)
(* a schema with every write committed before the call, however many other  *)
(* calls, runs and failures come in between.                                *)
ForceReadsOwnWrites ==
  \A c \in Caller :
    pc[c] = "answered" /\ kind[c] = "force" => Covers(result[c], need[c])

(* "One recalculation per project at a time", in one server process: the    *)
(* in-flight entry is that of the only run of the process, so a run that    *)
(* settles never removes the entry of another.                              *)
OneRunAtATime ==
  \A i \in Run : stage[i] # "idle" => inFlight[owner[i]] = i

(* Every call that waits, waits for something that will settle: a run that  *)
(* is going on, or a follow-up that is due or behind such a run.            *)
NoLostCaller ==
  \A c \in Caller :
    /\ pc[c] = "on_run" => stage[waits[c]] # "idle"
    /\ pc[c] = "on_queue" =>
         \/ queued[at[c]] = "due"
         \/ queued[at[c]] = "waiting" /\ inFlight[at[c]] # None

(* With a single process the stored schema never loses a write it had.      *)
CacheNeverRegresses ==
  [][cache = None \/ Covers(cache', cache)]_cache

(* The cache "is fresh" once a forced recalculation returned, as the        *)
(* analysis queued after it relies on: it holds the writes made before the  *)
(* call. True of one process whose SQL writes succeed.                      *)
CacheCoversForce ==
  \A c \in Caller :
    pc[c] = "answered" /\ kind[c] = "force" =>
      /\ cache # None
      /\ Covers(cache, need[c])

(* Every call ends: single flight, coalescing and failures leave nobody     *)
(* waiting.                                                                 *)
EveryCallEnds ==
  \A c \in Caller : pc[c] = "looked" ~> pc[c] \in {"answered", "failed"}

(* What a call has come to, for its caller.                                 *)
CallState(c) ==
  CASE pc[c] = "idle" -> [state |-> "idle"]
    [] pc[c] \in {"looked", "on_run", "on_queue"} ->
         [state |-> "pending", force |-> kind[c] = "force", need |-> need[c]]
    [] pc[c] = "answered" -> [state |-> "answered", result |-> result[c]]
    [] pc[c] = "failed" -> [state |-> "failed"]

Abs == INSTANCE SchemaReads WITH call <- [c \in Caller |-> CallState(c)]

(* The cache, the runs and the queue implement the contract of getSchema    *)
(* (SchemaReads), for any number of processes.                              *)
ImplementsReads == Abs!Spec
=============================================================================
