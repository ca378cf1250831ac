------------------------- MODULE VectorIndexDdlProofs -------------------------
(***************************************************************************)
(* For every set of processes and of policies: the state keeps its type;    *)
(* the background clean-up of a deleted policy never drops the index of a   *)
(* policy that shared it and is still there; until a DROP has run, what the *)
(* caches say is so.                                                        *)
(***************************************************************************)
EXTENDS VectorIndexDdl, TLAPS

(* A policy has one life: what shared a slot with q has been created, and   *)
(* once the count has found no policy alive, it is deleted for good.        *)
SharersWereLive == \A q \in Policy : \A s \in sharers[q] : policy[s] # "none"

CountedMeansDeleted ==
  \A q \in Policy : cleanUp[q] \in {"unused", "dropping"} =>
    \A s \in sharers[q] : policy[s] = "deleted"

IInv == TypeOK /\ SharersWereLive /\ CountedMeansDeleted

-----------------------------------------------------------------------------
(* The helpers of the actions keep the type of what they assign.            *)

(* ensureVectorIndexExists, whether it attempts a CREATE or not.            *)
LEMMA EnsureType ==
  ASSUME TypeOK, NEW p \in Proc, Ensure(p)
  PROVE  attempt' \in [Proc -> {"none", "sent", "executed"}]
  BY DEF TypeOK, Ensure, Attempts

(* A step of a semantic search.                                             *)
LEMMA SearchType ==
  ASSUME TypeOK, NEW p \in Proc,
         NEW s \in {"none", "probe", "sawOnline", "sawNot", "vector"}, Searching(p, s)
  PROVE  search' \in [Proc -> {"none", "probe", "sawOnline", "sawNot", "vector"}]
  BY DEF TypeOK, Searching

(* A step of a clean-up, and what it leaves of the clean-ups of others.     *)
LEMMA CleanUpType ==
  ASSUME TypeOK, NEW q \in Policy,
         NEW s \in {"none", "due", "unused", "dropping", "dropped", "over"}, CleansUp(q, s)
  PROVE  /\ cleanUp' \in [Policy -> {"none", "due", "unused", "dropping", "dropped", "over"}]
         /\ cleanUp'[q] = s
         /\ \A other \in Policy \ {q} : cleanUp'[other] = cleanUp[other]
  BY DEF TypeOK, CleansUp

(* A fault is within its bound.                                             *)
LEMMA FaultType ==
  ASSUME TypeOK, Fault
  PROVE  faults' \in 0..MaxFaults
  BY FaultsAssumption DEF TypeOK, Fault

-----------------------------------------------------------------------------
(* The actions, by what they can disturb: the searches, the CREATE and the  *)
(* backfills, the clean-ups, the policies.                                  *)

Unrelated == UNCHANGED dropVars /\ UNCHANGED policy

(* Steps that leave the policies and the clean-ups alone.                   *)
LEMMA UnrelatedKeeps ==
  ASSUME IInv, Unrelated, TypeOK'
  PROVE  IInv'
  BY DEF IInv, Unrelated, dropVars, SharersWereLive, CountedMeansDeleted

(* A process's CREATE: sent, executed, answered or failed.                  *)
LEMMA DdlStep ==
  ASSUME TypeOK, NEW p \in Proc, Ddl(p) \/ CreateFails(p)
  PROVE  TypeOK' /\ Unrelated
<1>1. CASE CreateRuns(p)
  BY <1>1 DEF CreateRuns, TypeOK, Unrelated, rowVars, dropVars
<1>2. CASE CreateReturns(p)
  BY <1>2 DEF CreateReturns, TypeOK, Unrelated, rowVars, dropVars
<1>3. CASE CreateFails(p)
  BY <1>3, FaultType DEF CreateFails, TypeOK, Unrelated, rowVars, dropVars
<1> QED  BY <1>1, <1>2, <1>3 DEF Ddl

(* A semantic search of a process.                                          *)
LEMMA SearchStep ==
  ASSUME TypeOK, NEW p \in Proc, SearchStarts(p) \/ Serve(p) \/ ProbeFails(p)
  PROVE  TypeOK' /\ Unrelated
<1>1. CASE SearchStarts(p)
  BY <1>1, SearchType DEF SearchStarts, TypeOK, Unrelated, rowVars, cacheVars, dropVars
<1>2. CASE ProbeRuns(p)
  BY <1>2, SearchType DEF ProbeRuns, TypeOK, Unrelated, rowVars, cacheVars, dropVars
<1>3. CASE ProbeSaysOnline(p)
  BY <1>3, SearchType DEF ProbeSaysOnline, TypeOK, Unrelated, rowVars, dropVars
<1>4. CASE ProbeSaysNot(p)
  BY <1>4, SearchType, EnsureType DEF ProbeSaysNot, TypeOK, Unrelated, rowVars, dropVars
<1>5. CASE VectorQuery(p)
  BY <1>5, SearchType DEF VectorQuery, TypeOK, Unrelated, rowVars, cacheVars, dropVars
<1>6. CASE ProbeFails(p)
  BY <1>6, SearchType, FaultType DEF ProbeFails, TypeOK, Unrelated, rowVars, cacheVars, dropVars
<1> QED  BY <1>1, <1>2, <1>3, <1>4, <1>5, <1>6 DEF Serve

(* A process dies: its clean-ups are over, none goes on.                    *)
LEMMA RestartStep ==
  ASSUME IInv, NEW p \in Proc, Restart(p)
  PROVE  IInv'
<1>1. TypeOK  BY DEF IInv
<1>2. search' \in [Proc -> {"none", "probe", "sawOnline", "sawNot", "vector"}]
  BY <1>1, SearchType DEF Restart
<1>3. run' \in [Proc \X Policy -> {"none", "found", "ensure"}]
  <2> SUFFICES ASSUME NEW e \in Proc \X Policy
               PROVE  (IF e[1] = p THEN "none" ELSE run[e]) \in {"none", "found", "ensure"}
    BY DEF Restart
  <2> QED  BY <1>1 DEF TypeOK
<1>4. cleanUp' \in [Policy -> {"none", "due", "unused", "dropping", "dropped", "over"}]
  BY <1>1 DEF Restart, TypeOK
<1>5. \A q \in Policy : cleanUp'[q] \in {cleanUp[q], "over"}
  BY <1>1 DEF Restart, TypeOK
<1>6. TypeOK'
  BY <1>1, <1>2, <1>3, <1>4, FaultType DEF Restart, TypeOK, rowVars
<1> QED
  BY <1>5, <1>6 DEF IInv, Restart, SharersWereLive, CountedMeansDeleted, rowVars

(* The tick of a scheduler.                                                 *)
LEMMA TickStep ==
  ASSUME TypeOK, NEW p \in Proc, Tick(p)
  PROVE  TypeOK' /\ Unrelated
<1>1. run' \in [Proc \X Policy -> {"none", "found", "ensure"}]
  <2> SUFFICES ASSUME NEW e \in Proc \X Policy
               PROVE  (IF e[1] = p /\ e[2] \in due THEN "found" ELSE run[e])
                        \in {"none", "found", "ensure"}
    BY DEF Tick
  <2> QED  BY DEF TypeOK
<1> QED
  BY <1>1 DEF Tick, TypeOK, Unrelated, rowVars, cacheVars, dropVars

(* A backfill of a policy.                                                  *)
LEMMA BackfillStep ==
  ASSUME TypeOK, NEW p \in Proc, NEW q \in Policy, Backfill(p, q)
  PROVE  TypeOK' /\ Unrelated
<1>1. \A s \in {"none", "ensure"} :
        [run EXCEPT ![<<p, q>>] = s] \in [Proc \X Policy -> {"none", "found", "ensure"}]
  BY DEF TypeOK
<1>2. CASE BackfillEnsures(p, q)
  BY <1>1, <1>2, EnsureType DEF BackfillEnsures, TypeOK, Unrelated, rowVars, dropVars
<1>3. CASE BackfillEnds(p, q)
  BY <1>1, <1>3 DEF BackfillEnds, TypeOK, Unrelated, cacheVars, dropVars
<1> QED  BY <1>2, <1>3 DEF Backfill

(* A write that marks a policy, and the graph that fills an index.          *)
LEMMA MarkOrPopulatedStep ==
  ASSUME TypeOK, (\E q \in Policy : Mark(q)) \/ Populated
  PROVE  TypeOK' /\ Unrelated
<1>1. CASE \E q \in Policy : Mark(q)
  BY <1>1 DEF Mark, TypeOK, Unrelated, cacheVars, dropVars
<1>2. CASE Populated
  BY <1>2 DEF Populated, TypeOK, Unrelated, rowVars, cacheVars, dropVars
<1> QED  BY <1>1, <1>2

(* A policy is created: it was in no set of sharers.                        *)
LEMMA CreatePolicyStep ==
  ASSUME IInv, NEW p \in Proc, NEW q \in Policy, CreatePolicy(p, q)
  PROVE  IInv'
<1>1. TypeOK  BY DEF IInv
<1>2. TypeOK'
  BY <1>1, EnsureType DEF CreatePolicy, TypeOK, dropVars
<1>3. /\ policy'[q] = "live"
      /\ \A s \in Policy \ {q} : policy'[s] = policy[s]
  BY <1>1 DEF CreatePolicy, TypeOK
<1>4. /\ UNCHANGED dropVars
      /\ policy[q] = "none"
  BY DEF CreatePolicy
<1>5. \A r \in Policy : sharers[r] \subseteq Policy
  BY <1>1 DEF TypeOK
<1>6. SharersWereLive'
  BY <1>3, <1>4, <1>5 DEF IInv, SharersWereLive, dropVars
<1>7. CountedMeansDeleted'
  BY <1>3, <1>4, <1>5 DEF IInv, SharersWereLive, CountedMeansDeleted, dropVars
<1> QED  BY <1>2, <1>6, <1>7 DEF IInv

(* A policy is deleted: its sharers are those that live.                    *)
LEMMA DeletePolicyStep ==
  ASSUME IInv, NEW p \in Proc, NEW q \in Policy, DeletePolicy(p, q)
  PROVE  IInv'
<1>1. TypeOK  BY DEF IInv
<1>2. /\ cleanUp' \in [Policy -> {"none", "due", "unused", "dropping", "dropped", "over"}]
      /\ cleanUp'[q] = "due"
      /\ \A r \in Policy \ {q} : cleanUp'[r] = cleanUp[r]
  BY <1>1, CleanUpType DEF DeletePolicy
<1>3. /\ sharers' \in [Policy -> SUBSET Policy]
      /\ sharers'[q] = Live \ {q}
      /\ \A r \in Policy \ {q} : sharers'[r] = sharers[r]
  BY <1>1 DEF DeletePolicy, TypeOK, Live
<1>4. /\ policy' \in [Policy -> {"none", "live", "deleted"}]
      /\ policy'[q] = "deleted"
      /\ \A s \in Policy \ {q} : policy'[s] = policy[s]
  BY <1>1 DEF DeletePolicy, TypeOK
<1>5. TypeOK'
  BY <1>1, <1>2, <1>3, <1>4 DEF DeletePolicy, TypeOK, cacheVars
<1>6. SharersWereLive'
  BY <1>3, <1>4 DEF IInv, SharersWereLive, Live
<1>7. CountedMeansDeleted'
  BY <1>2, <1>3, <1>4 DEF IInv, CountedMeansDeleted
<1> QED  BY <1>5, <1>6, <1>7 DEF IInv

(* A clean-up counts, forgets, drops or fails. Where the count finds no     *)
(* policy alive, every sharer, once live, is deleted.                       *)
LEMMA CleanUpStep ==
  ASSUME IInv, NEW q \in Policy, CleanUp(q) \/ CleanUpFails(q)
  PROVE  IInv'
<1>1. TypeOK  BY DEF IInv
<1>2. UNCHANGED <<policy, sharers>>
  BY DEF CleanUp, CountPolicies, Forget, DropRuns, CleanUpFails, rowVars
<1>3. CASE CountPolicies(q)
  <2> DEFINE verdict == IF Live = {} THEN "unused" ELSE "over"
  <2>1. CleansUp(q, verdict)
    BY <1>3 DEF CountPolicies
  <2>2. /\ cleanUp' \in [Policy -> {"none", "due", "unused", "dropping", "dropped", "over"}]
        /\ cleanUp'[q] = verdict
        /\ \A r \in Policy \ {q} : cleanUp'[r] = cleanUp[r]
    BY <1>1, <2>1, CleanUpType
  <2>3. TypeOK'
    BY <1>1, <1>3, <2>2 DEF CountPolicies, TypeOK, rowVars, cacheVars
  <2>4. Live = {} => \A s \in sharers[q] : policy[s] = "deleted"
    BY <1>1 DEF IInv, TypeOK, SharersWereLive, Live
  <2>5. CountedMeansDeleted'
    BY <1>2, <2>2, <2>4 DEF IInv, CountedMeansDeleted
  <2> QED  BY <1>2, <2>3, <2>5 DEF IInv, SharersWereLive
<1>4. CASE Forget(q)
  <2>1. /\ cleanUp' \in [Policy -> {"none", "due", "unused", "dropping", "dropped", "over"}]
        /\ cleanUp'[q] = "dropping" /\ cleanUp[q] = "unused"
        /\ \A r \in Policy \ {q} : cleanUp'[r] = cleanUp[r]
    BY <1>1, <1>4, CleanUpType DEF Forget
  <2>2. TypeOK'
    BY <1>1, <1>4, <2>1 DEF Forget, TypeOK, rowVars
  <2>3. CountedMeansDeleted'
    BY <1>2, <2>1 DEF IInv, CountedMeansDeleted
  <2> QED  BY <1>2, <2>2, <2>3 DEF IInv, SharersWereLive
<1>5. CASE DropRuns(q)
  <2>1. /\ cleanUp' \in [Policy -> {"none", "due", "unused", "dropping", "dropped", "over"}]
        /\ cleanUp'[q] = "dropped"
        /\ \A r \in Policy \ {q} : cleanUp'[r] = cleanUp[r]
    BY <1>1, <1>5, CleanUpType DEF DropRuns
  <2>2. TypeOK'
    BY <1>1, <1>5, <2>1 DEF DropRuns, TypeOK, rowVars, cacheVars
  <2>3. CountedMeansDeleted'
    BY <1>2, <2>1 DEF IInv, CountedMeansDeleted
  <2> QED  BY <1>2, <2>2, <2>3 DEF IInv, SharersWereLive
<1>6. CASE CleanUpFails(q)
  <2>1. /\ cleanUp' \in [Policy -> {"none", "due", "unused", "dropping", "dropped", "over"}]
        /\ cleanUp'[q] = "over"
        /\ \A r \in Policy \ {q} : cleanUp'[r] = cleanUp[r]
    BY <1>1, <1>6, CleanUpType DEF CleanUpFails
  <2>2. TypeOK'
    BY <1>1, <1>6, <2>1, FaultType DEF CleanUpFails, TypeOK, rowVars, cacheVars
  <2>3. CountedMeansDeleted'
    BY <1>2, <2>1 DEF IInv, CountedMeansDeleted
  <2> QED  BY <1>2, <2>2, <2>3 DEF IInv, SharersWereLive
<1> QED  BY <1>3, <1>4, <1>5, <1>6 DEF CleanUp

-----------------------------------------------------------------------------
(* The initial states satisfy the invariant, and every step keeps it.       *)
LEMMA InitIInv == Init => IInv
<1> SUFFICES ASSUME Init PROVE IInv  OBVIOUS
<1>1. cleaner \in [Policy -> Proc]
  BY ProcAssumption DEF Init
<1>2. TypeOK
  BY <1>1, FaultsAssumption DEF Init, TypeOK
<1> QED  BY <1>2 DEF IInv, Init, SharersWereLive, CountedMeansDeleted

LEMMA NextIInv == IInv /\ [Next]_vars => IInv'
<1> SUFFICES ASSUME IInv, [Next]_vars PROVE IInv'  OBVIOUS
<1>t. TypeOK  BY DEF IInv
<1>1. ASSUME NEW p \in Proc, Ddl(p) \/ CreateFails(p) PROVE IInv'
  BY <1>t, <1>1, DdlStep, UnrelatedKeeps
<1>2. ASSUME NEW p \in Proc, SearchStarts(p) \/ Serve(p) \/ ProbeFails(p) PROVE IInv'
  BY <1>t, <1>2, SearchStep, UnrelatedKeeps
<1>3. ASSUME NEW p \in Proc, Restart(p) PROVE IInv'
  BY <1>3, RestartStep
<1>4. ASSUME NEW p \in Proc, Tick(p) PROVE IInv'
  BY <1>t, <1>4, TickStep, UnrelatedKeeps
<1>5. ASSUME NEW p \in Proc, NEW q \in Policy, Backfill(p, q) PROVE IInv'
  BY <1>t, <1>5, BackfillStep, UnrelatedKeeps
<1>6. ASSUME NEW p \in Proc, NEW q \in Policy, CreatePolicy(p, q) PROVE IInv'
  BY <1>6, CreatePolicyStep
<1>7. ASSUME NEW p \in Proc, NEW q \in Policy, DeletePolicy(p, q) PROVE IInv'
  BY <1>7, DeletePolicyStep
<1>8. ASSUME NEW q \in Policy, CleanUp(q) \/ CleanUpFails(q) PROVE IInv'
  BY <1>8, CleanUpStep
<1>9. ASSUME (\E q \in Policy : Mark(q)) \/ Populated PROVE IInv'
  BY <1>t, <1>9, MarkOrPopulatedStep, UnrelatedKeeps
<1>10. CASE UNCHANGED vars
  BY <1>10 DEF vars, rowVars, cacheVars, dropVars, IInv, TypeOK, SharersWereLive,
               CountedMeansDeleted
<1> QED
  BY <1>1, <1>2, <1>3, <1>4, <1>5, <1>6, <1>7, <1>8, <1>9, <1>10 DEF Next

(* The inductive invariant holds in every execution.                        *)
THEOREM InvariantHolds == Spec => []IInv
  BY InitIInv, NextIInv, PTL DEF Spec

(* Every variable keeps its type, for any number of processes and policies. *)
THEOREM TypeCorrect == Spec => []TypeOK
<1>1. IInv => TypeOK  BY DEF IInv
<1> QED  BY <1>1, InvariantHolds, PTL

(* Deleting a policy costs none that shared its slot the index: between the *)
(* count that found nobody (ai.service.ts:1001) and the DROP, nobody who    *)
(* was there when the row went can still be there.                          *)
THEOREM IndexOfSharersKept == Spec => []SharedIndexKept
<1>1. IInv => SharedIndexKept
  BY DEF IInv, CountedMeansDeleted, SharedIndexKept, Live
<1> QED  BY <1>1, InvariantHolds, PTL

-----------------------------------------------------------------------------
(* What the caches hold. A clean-up that has dropped the index stays so: a  *)
(* policy is deleted once.                                                  *)
Dropped == \E q \in Policy : cleanUp[q] = "dropped"

OneLife == \A q \in Policy : policy[q] # "deleted" => cleanUp[q] = "none"

(* Until a DROP has run, an index that a CREATE has made exists, and one    *)
(* that a probe found ONLINE is.                                            *)
NamesAreTrue ==
  /\ ensured # {} => index # "absent"
  /\ \A p \in Proc : attempt[p] = "executed" => index # "absent"
  /\ online # {} => index = "online"
  /\ \A p \in Proc : search[p] \in {"sawOnline", "vector"} => index = "online"

CacheInv == TypeOK /\ OneLife /\ (Dropped \/ NamesAreTrue)

(* A step that takes no clean-up back and that keeps what the names say.    *)
LEMMA DroppedStays ==
  ASSUME CacheInv, [Next]_vars
  PROVE  OneLife' /\ (Dropped => Dropped')
<1>t. TypeOK /\ OneLife  BY DEF CacheInv
<1>1. ASSUME UNCHANGED <<cleanUp, policy>> PROVE OneLife' /\ (Dropped => Dropped')
  BY <1>1, <1>t DEF OneLife, Dropped
<1>2. ASSUME NEW p \in Proc, Ddl(p) \/ CreateFails(p) PROVE UNCHANGED <<cleanUp, policy>>
  BY <1>2 DEF Ddl, CreateRuns, CreateReturns, CreateFails, rowVars, dropVars
<1>3. ASSUME NEW p \in Proc, SearchStarts(p) \/ Serve(p) \/ ProbeFails(p)
      PROVE  UNCHANGED <<cleanUp, policy>>
  BY <1>3 DEF SearchStarts, Serve, ProbeFails, ProbeRuns, ProbeSaysOnline, ProbeSaysNot,
              VectorQuery, rowVars, dropVars
<1>4. ASSUME NEW p \in Proc, Restart(p) PROVE OneLife' /\ (Dropped => Dropped')
  BY <1>4, <1>t DEF Restart, OneLife, Dropped, TypeOK, rowVars
<1>5. ASSUME NEW p \in Proc, Tick(p) PROVE UNCHANGED <<cleanUp, policy>>
  BY <1>5 DEF Tick, rowVars, dropVars
<1>6. ASSUME NEW p \in Proc, NEW q \in Policy, Backfill(p, q) PROVE UNCHANGED <<cleanUp, policy>>
  BY <1>6 DEF Backfill, BackfillEnsures, BackfillEnds, rowVars, dropVars
<1>7. ASSUME NEW p \in Proc, NEW q \in Policy, CreatePolicy(p, q)
      PROVE  OneLife' /\ (Dropped => Dropped')
  BY <1>7, <1>t DEF CreatePolicy, OneLife, Dropped, TypeOK, dropVars
<1>8. ASSUME NEW p \in Proc, NEW q \in Policy, DeletePolicy(p, q)
      PROVE  OneLife' /\ (Dropped => Dropped')
  BY <1>8, <1>t DEF DeletePolicy, CleansUp, OneLife, Dropped, TypeOK
<1>9. ASSUME NEW q \in Policy, CleanUp(q) \/ CleanUpFails(q)
      PROVE  OneLife' /\ (Dropped => Dropped')
  <2>1. UNCHANGED policy /\ cleanUp[q] \notin {"none", "dropped"}
    BY <1>9 DEF CleanUp, CountPolicies, Forget, DropRuns, CleanUpFails, rowVars
  <2>2. \A r \in Policy \ {q} : cleanUp'[r] = cleanUp[r]
    BY <1>9, <1>t DEF CleanUp, CountPolicies, Forget, DropRuns, CleanUpFails, CleansUp, TypeOK
  <2> QED  BY <1>t, <2>1, <2>2 DEF OneLife, Dropped
<1>10. ASSUME (\E q \in Policy : Mark(q)) \/ Populated PROVE UNCHANGED <<cleanUp, policy>>
  BY <1>10 DEF Mark, Populated, rowVars, dropVars
<1>11. ASSUME UNCHANGED vars PROVE UNCHANGED <<cleanUp, policy>>
  BY <1>11 DEF vars, rowVars, dropVars
<1> QED
  BY <1>1, <1>2, <1>3, <1>4, <1>5, <1>6, <1>7, <1>8, <1>9, <1>10, <1>11 DEF Next

(* ensureVectorIndexExists has no effect on what is executed already.       *)
LEMMA EnsureExecutesNothing ==
  ASSUME TypeOK, NEW p \in Proc, Ensure(p), NEW o \in Proc, attempt'[o] = "executed"
  PROVE  attempt[o] = "executed"
  BY DEF TypeOK, Ensure, Attempts

(* Where an index is neither dropped nor forgotten, names stay true.        *)
LEMMA NamesStayTrue ==
  ASSUME TypeOK, NamesAreTrue, [Next]_vars
  PROVE  Dropped' \/ NamesAreTrue'
<1>1. ASSUME UNCHANGED <<index, ensured, online, search>>,
             \A o \in Proc : attempt'[o] = "executed" => attempt[o] = "executed"
      PROVE  NamesAreTrue'
  BY <1>1 DEF NamesAreTrue
<1>2. ASSUME NEW p \in Proc, Ddl(p) \/ CreateFails(p) PROVE NamesAreTrue'
  <2>1. CASE CreateRuns(p)
    BY <2>1 DEF CreateRuns, NamesAreTrue, TypeOK
  <2>2. CASE CreateReturns(p)
    BY <2>2 DEF CreateReturns, NamesAreTrue, TypeOK
  <2>3. CASE CreateFails(p)
    BY <2>3 DEF CreateFails, NamesAreTrue, TypeOK
  <2> QED  BY <1>2, <2>1, <2>2, <2>3 DEF Ddl
<1>3. ASSUME NEW p \in Proc, SearchStarts(p) \/ Serve(p) \/ ProbeFails(p) PROVE NamesAreTrue'
  <2>1. CASE SearchStarts(p)
    BY <2>1 DEF SearchStarts, Searching, NamesAreTrue, TypeOK, cacheVars
  <2>2. CASE ProbeRuns(p)
    BY <2>2 DEF ProbeRuns, Searching, NamesAreTrue, TypeOK, cacheVars
  <2>3. CASE ProbeSaysOnline(p)
    BY <2>3 DEF ProbeSaysOnline, Searching, NamesAreTrue, TypeOK
  <2>4. CASE ProbeSaysNot(p)
    <3>1. \A o \in Proc : attempt'[o] = "executed" => attempt[o] = "executed"
      BY <2>4, EnsureExecutesNothing DEF ProbeSaysNot
    <3> QED  BY <2>4, <3>1 DEF ProbeSaysNot, Searching, NamesAreTrue, TypeOK
  <2>5. CASE VectorQuery(p)
    BY <2>5 DEF VectorQuery, Searching, NamesAreTrue, TypeOK, cacheVars
  <2>6. CASE ProbeFails(p)
    BY <2>6 DEF ProbeFails, Searching, NamesAreTrue, TypeOK, cacheVars
  <2> QED  BY <1>3, <2>1, <2>2, <2>3, <2>4, <2>5, <2>6 DEF Serve
<1>4. ASSUME NEW p \in Proc, Restart(p) PROVE NamesAreTrue'
  BY <1>4 DEF Restart, Searching, NamesAreTrue, TypeOK
<1>5. ASSUME NEW p \in Proc, Tick(p) PROVE NamesAreTrue'
  BY <1>1, <1>5 DEF Tick, cacheVars
<1>6. ASSUME NEW p \in Proc, NEW q \in Policy, Backfill(p, q) PROVE NamesAreTrue'
  <2>1. \A o \in Proc : attempt'[o] = "executed" => attempt[o] = "executed"
    BY <1>6, EnsureExecutesNothing DEF Backfill, BackfillEnsures, BackfillEnds, cacheVars
  <2> QED  BY <1>1, <1>6, <2>1 DEF Backfill, BackfillEnsures, BackfillEnds, cacheVars
<1>7. ASSUME NEW p \in Proc, NEW q \in Policy, CreatePolicy(p, q) PROVE NamesAreTrue'
  <2>1. \A o \in Proc : attempt'[o] = "executed" => attempt[o] = "executed"
    BY <1>7, EnsureExecutesNothing DEF CreatePolicy
  <2> QED  BY <1>1, <1>7, <2>1 DEF CreatePolicy
<1>8. ASSUME NEW p \in Proc, NEW q \in Policy, DeletePolicy(p, q) PROVE NamesAreTrue'
  BY <1>1, <1>8 DEF DeletePolicy, cacheVars
<1>9. ASSUME NEW q \in Policy, CleanUp(q) \/ CleanUpFails(q) PROVE Dropped' \/ NamesAreTrue'
  <2>1. CASE CountPolicies(q) \/ CleanUpFails(q)
    BY <1>1, <2>1 DEF CountPolicies, CleanUpFails, cacheVars
  <2>2. CASE Forget(q)
    BY <2>2 DEF Forget, NamesAreTrue, TypeOK
  <2>3. CASE DropRuns(q)
    BY <2>3 DEF DropRuns, CleansUp, Dropped, TypeOK
  <2> QED  BY <1>9, <2>1, <2>2, <2>3 DEF CleanUp
<1>10. ASSUME (\E q \in Policy : Mark(q)) \/ Populated PROVE NamesAreTrue'
  BY <1>10 DEF Mark, Populated, NamesAreTrue, cacheVars
<1>11. ASSUME UNCHANGED vars PROVE NamesAreTrue'
  BY <1>1, <1>11 DEF vars, cacheVars
<1> QED
  BY <1>2, <1>3, <1>4, <1>5, <1>6, <1>7, <1>8, <1>9, <1>10, <1>11 DEF Next

(* Until a DROP has run, ensured indexes exist and searches only query an   *)
(* index that is ONLINE, for any number of processes that restart and of    *)
(* policies (embedding-index-ddl.service.ts:67, 98).                        *)
THEOREM CachesStayTrue == Spec => []CachesAreTrue
<1>1. Init => CacheInv
  <2> SUFFICES ASSUME Init PROVE CacheInv  OBVIOUS
  <2>1. TypeOK  BY InitIInv DEF IInv
  <2> QED  BY <2>1 DEF Init, CacheInv, OneLife, NamesAreTrue
<1>2. CacheInv /\ TypeOK' /\ [Next]_vars => CacheInv'
  BY DroppedStays, NamesStayTrue DEF CacheInv
<1>3. CacheInv => CachesAreTrue
  BY DEF CacheInv, CachesAreTrue, Dropped, NamesAreTrue
<1> QED  BY <1>1, <1>2, <1>3, TypeCorrect, PTL DEF Spec
=============================================================================
