-------------------------- MODULE SchemaCacheProofs --------------------------
(***************************************************************************)
(* Proofs about SchemaCache, for any number of processes, calls, labels,    *)
(* runs, writes and failures: the type invariant, one run at a time, no     *)
(* call left behind, read-your-writes for forced calls, and the contract of *)
(* SchemaReads as a refinement.                                             *)
(***************************************************************************)
EXTENDS SchemaCache, TLAPS

(* A run is going on exactly when it is the in-flight run of its process,   *)
(* and it has read every label by the time it stores its schema.            *)
RunInv ==
  /\ \A i \in Run :
       /\ stage[i] # "idle" => owner[i] \in Proc /\ inFlight[owner[i]] = i
       /\ stage[i] = "persisted" => todo[i] = {}
  /\ \A p \in Proc :
       inFlight[p] # None => stage[inFlight[p]] # "idle" /\ owner[inFlight[p]] = p

(* A queued promise waits behind a run; whoever waits for it keeps it alive. *)
QueueInv ==
  /\ \A p \in Proc : queued[p] = "waiting" => inFlight[p] # None
  /\ \A c \in Caller :
       /\ pc[c] \in {"looked", "on_run", "on_queue"} => at[c] \in Proc
       /\ pc[c] = "on_run" => waits[c] \in Run /\ stage[waits[c]] # "idle"
       /\ pc[c] = "on_queue" => queued[at[c]] # "none"

(* Nothing read, stored or asked for runs ahead of the graph.               *)
GraphInv ==
  /\ \A i \in Run : Covers(graph, seen[i])
  /\ cache # None => Covers(graph, cache)
  /\ \A c \in Caller :
       /\ Covers(graph, need[c])
       /\ row[c] # None => Covers(graph, row[c])

(* A forced call waits for a run that has read no label too early.          *)
ForceInv ==
  \A c \in Caller :
    pc[c] = "on_run" /\ kind[c] = "force" =>
      \/ stage[waits[c]] \in {"labels", "rejected"}
      \/ \A l \in Label :
           l \in todo[waits[c]] \/ need[c][l] <= seen[waits[c]][l]

IndInv ==
  /\ TypeOK
  /\ RunInv
  /\ QueueInv
  /\ GraphInv
  /\ ForceInv
  /\ ForceReadsOwnWrites

-----------------------------------------------------------------------------
(* Every variable keeps its type, whichever action runs.                    *)
LEMMA TypeStep == IndInv /\ [Next]_vars => TypeOK'
  <1> SUFFICES ASSUME TypeOK, RunInv, QueueInv, [Next]_vars
               PROVE  TypeOK'
    BY DEF IndInv
  <1> USE NoneAssumption, BoundsAssumption DEF TypeOK, Schema, Stage, PC,
                                               Kind, Zero, RunInv, QueueInv
  <1>1. ASSUME NEW l \in Label, Write(l)
       PROVE  TypeOK'
    BY <1>1 DEF Write, graphVars, runVars, callVars
  <1>2. ASSUME CacheAges
       PROVE  TypeOK'
    BY <1>2 DEF CacheAges, graphVars, runVars, callVars
  <1>3. ASSUME NEW c \in Caller, NEW p \in Proc, Call(c, p)
       PROVE  TypeOK'
    BY <1>3 DEF Call, graphVars, runVars, callVars
  <1>4. ASSUME NEW c \in Caller, ServeCached(c)
       PROVE  TypeOK'
    <2> at[c] \in Proc
      BY <1>4 DEF ServeCached, QueueInv
    <2>1. ASSUME UNCHANGED runVars
          PROVE  TypeOK'
      BY <1>4, <2>1 DEF ServeCached, Cached, Forget, graphVars, runVars
    <2>2. ASSUME inFlight[at[c]] = None, NEW i \in Run, StartRun(at[c], i),
                 UNCHANGED queued
          PROVE  TypeOK'
      BY <1>4, <2>2 DEF ServeCached, Cached, StartRun, Forget, graphVars
    <2> QED
      BY <1>4, <2>1, <2>2 DEF ServeCached
  <1>5. ASSUME NEW c \in Caller, Recalculate(c)
       PROVE  TypeOK'
    <2> DEFINE p == at[c]
    <2> p \in Proc
      BY <1>5 DEF Recalculate, QueueInv
    <2>1. ASSUME inFlight[p] = None,
                 NEW i \in Run, StartRun(p, i), waits' = [waits EXCEPT ![c] = i],
                 pc' = [pc EXCEPT ![c] = "on_run"], UNCHANGED queued
          PROVE  TypeOK'
      BY <1>5, <2>1 DEF Recalculate, StartRun, Forget, graphVars
    <2>2. ASSUME inFlight[p] # None, Joins(c),
                 waits' = [waits EXCEPT ![c] = inFlight[p]],
                 pc' = [pc EXCEPT ![c] = "on_run"], UNCHANGED runVars
          PROVE  TypeOK'
      BY <1>5, <2>2 DEF Recalculate, Joins, Forget, graphVars, runVars
    <2>3. ASSUME inFlight[p] # None, ~Joins(c),
                 queued' = [queued EXCEPT ![p] = IF @ = "none" THEN "waiting" ELSE @],
                 pc' = [pc EXCEPT ![c] = "on_queue"],
                 UNCHANGED <<stage, owner, todo, seen, inFlight, waits>>
          PROVE  TypeOK'
      BY <1>5, <2>3 DEF Recalculate, Forget, graphVars
    <2> QED
      BY <1>5, <2>1, <2>2, <2>3 DEF Recalculate, SingleFlight
  <1>6. ASSUME NEW c \in Caller, LookupFails(c)
       PROVE  TypeOK'
    BY <1>6 DEF LookupFails, Forget, graphVars, runVars, callVars
  <1>7. ASSUME NEW i \in Run, ReadLabels(i)
       PROVE  TypeOK'
    BY <1>7 DEF ReadLabels, graphVars, runVars, callVars
  <1>8. ASSUME NEW i \in Run, NEW l \in Label, ReadLabel(i, l)
       PROVE  TypeOK'
    BY <1>8 DEF ReadLabel, graphVars, runVars, callVars
  <1>9. ASSUME NEW i \in Run, Persist(i)
       PROVE  TypeOK'
    <2>1. cache' \in Schema \cup {None}
      BY <1>9 DEF Persist
    <2>3. fresh' \in BOOLEAN
      BY <1>9, Zenon DEF Persist
    <2>2. persistFailures' \in 0..MaxPersistFailures
      BY <1>9 DEF Persist
    <2> QED
      BY <1>9, <2>1, <2>2, <2>3 DEF Persist, callVars
  <1>10. ASSUME NEW i \in Run, Settle(i)
       PROVE  TypeOK'
    <2>1. queued' \in [Proc -> {"none", "waiting", "due"}]
      BY <1>10 DEF Settle, Wakes
    <2>2. result' \in [Caller -> Schema] /\ pc' \in [Caller -> PC]
      BY <1>10 DEF Settle, Returned
    <2> QED
      BY <1>10, <2>1, <2>2 DEF Settle, graphVars
  <1>11. ASSUME NEW i \in Run, StatementFails(i)
       PROVE  TypeOK'
    BY <1>11 DEF StatementFails, graphVars, runVars, callVars
  <1>12. ASSUME NEW p \in Proc, FollowUp(p)
       PROVE  TypeOK'
    <2> DEFINE Q(c) == pc[c] = "on_queue" /\ at[c] = p
    <2>1. ASSUME queued' = [queued EXCEPT ![p] = "none"], inFlight[p] = None,
                 NEW i \in Run, StartRun(p, i),
                 waits' = [c \in Caller |-> IF Q(c) THEN i ELSE waits[c]],
                 pc' = [c \in Caller |-> IF Q(c) THEN "on_run" ELSE pc[c]]
          PROVE  TypeOK'
      BY <1>12, <2>1 DEF FollowUp, StartRun, graphVars
    <2>2. ASSUME inFlight[p] # None, queued' = [queued EXCEPT ![p] = "waiting"],
                 UNCHANGED <<stage, owner, todo, seen, inFlight, waits, pc>>
          PROVE  TypeOK'
      BY <1>12, <2>2 DEF FollowUp, graphVars
    <2> QED
      BY <1>12, <2>1, <2>2 DEF FollowUp
  <1>13. CASE UNCHANGED vars
    BY <1>13 DEF vars, graphVars, runVars, callVars
  <1> QED
    BY <1>1, <1>2, <1>3, <1>4, <1>5, <1>6, <1>7, <1>8, <1>9, <1>10, <1>11,
       <1>12, <1>13
    DEF Next, RunStep, CallStep

(* A run starts only where none is in flight, and leaves with its entry.    *)
LEMMA RunStepInv == IndInv /\ [Next]_vars => RunInv'
  <1> SUFFICES ASSUME TypeOK, RunInv, QueueInv, [Next]_vars
               PROVE  RunInv'
    BY DEF IndInv
  <1> USE NoneAssumption DEF RunInv, QueueInv, TypeOK, Schema, Stage, PC,
                             Kind, Zero
  <1>1. ASSUME NEW l \in Label, Write(l)
       PROVE  RunInv'
    BY <1>1 DEF Write, graphVars, runVars, callVars
  <1>2. ASSUME CacheAges
       PROVE  RunInv'
    BY <1>2 DEF CacheAges, graphVars, runVars, callVars
  <1>3. ASSUME NEW c \in Caller, NEW p \in Proc, Call(c, p)
       PROVE  RunInv'
    BY <1>3 DEF Call, graphVars, runVars, callVars
  <1>4. ASSUME NEW c \in Caller, ServeCached(c)
       PROVE  RunInv'
    <2> at[c] \in Proc
      BY <1>4 DEF ServeCached, QueueInv
    <2>1. ASSUME UNCHANGED runVars
          PROVE  RunInv'
      BY <1>4, <2>1 DEF ServeCached, Cached, Forget, graphVars, runVars
    <2>2. ASSUME inFlight[at[c]] = None, NEW i \in Run, StartRun(at[c], i),
                 UNCHANGED queued
          PROVE  RunInv'
      BY <1>4, <2>2 DEF ServeCached, Cached, StartRun, Forget, graphVars
    <2> QED
      BY <1>4, <2>1, <2>2 DEF ServeCached
  <1>5. ASSUME NEW c \in Caller, Recalculate(c)
       PROVE  RunInv'
    <2> DEFINE p == at[c]
    <2> p \in Proc
      BY <1>5 DEF Recalculate, QueueInv
    <2>1. ASSUME inFlight[p] = None,
                 NEW i \in Run, StartRun(p, i), waits' = [waits EXCEPT ![c] = i],
                 pc' = [pc EXCEPT ![c] = "on_run"], UNCHANGED queued
          PROVE  RunInv'
      BY <1>5, <2>1 DEF Recalculate, StartRun, Forget, graphVars
    <2>2. ASSUME inFlight[p] # None, Joins(c),
                 waits' = [waits EXCEPT ![c] = inFlight[p]],
                 pc' = [pc EXCEPT ![c] = "on_run"], UNCHANGED runVars
          PROVE  RunInv'
      BY <1>5, <2>2 DEF Recalculate, Joins, Forget, graphVars, runVars
    <2>3. ASSUME inFlight[p] # None, ~Joins(c),
                 queued' = [queued EXCEPT ![p] = IF @ = "none" THEN "waiting" ELSE @],
                 pc' = [pc EXCEPT ![c] = "on_queue"],
                 UNCHANGED <<stage, owner, todo, seen, inFlight, waits>>
          PROVE  RunInv'
      BY <1>5, <2>3 DEF Recalculate, Forget, graphVars
    <2> QED
      BY <1>5, <2>1, <2>2, <2>3 DEF Recalculate, SingleFlight
  <1>6. ASSUME NEW c \in Caller, LookupFails(c)
       PROVE  RunInv'
    BY <1>6 DEF LookupFails, Forget, graphVars, runVars, callVars
  <1>7. ASSUME NEW i \in Run, ReadLabels(i)
       PROVE  RunInv'
    BY <1>7 DEF ReadLabels, graphVars, runVars, callVars
  <1>8. ASSUME NEW i \in Run, NEW l \in Label, ReadLabel(i, l)
       PROVE  RunInv'
    BY <1>8 DEF ReadLabel, graphVars, runVars, callVars
  <1>9. ASSUME NEW i \in Run, Persist(i)
       PROVE  RunInv'
    BY <1>9 DEF Persist, graphVars, runVars, callVars
  <1>10. ASSUME NEW i \in Run, Settle(i)
       PROVE  RunInv'
    BY <1>10 DEF Settle, Wakes, Returned, graphVars, runVars, callVars
  <1>11. ASSUME NEW i \in Run, StatementFails(i)
       PROVE  RunInv'
    BY <1>11 DEF StatementFails, graphVars, runVars, callVars
  <1>12. ASSUME NEW p \in Proc, FollowUp(p)
       PROVE  RunInv'
    <2> DEFINE Q(c) == pc[c] = "on_queue" /\ at[c] = p
    <2>1. ASSUME queued' = [queued EXCEPT ![p] = "none"], inFlight[p] = None,
                 NEW i \in Run, StartRun(p, i),
                 waits' = [c \in Caller |-> IF Q(c) THEN i ELSE waits[c]],
                 pc' = [c \in Caller |-> IF Q(c) THEN "on_run" ELSE pc[c]]
          PROVE  RunInv'
      BY <1>12, <2>1 DEF FollowUp, StartRun, graphVars
    <2>2. ASSUME inFlight[p] # None, queued' = [queued EXCEPT ![p] = "waiting"],
                 UNCHANGED <<stage, owner, todo, seen, inFlight, waits, pc>>
          PROVE  RunInv'
      BY <1>12, <2>2 DEF FollowUp, graphVars
    <2> QED
      BY <1>12, <2>1, <2>2 DEF FollowUp
  <1>13. CASE UNCHANGED vars
    BY <1>13 DEF vars, graphVars, runVars, callVars
  <1> QED
    BY <1>1, <1>2, <1>3, <1>4, <1>5, <1>6, <1>7, <1>8, <1>9, <1>10, <1>11,
       <1>12, <1>13
    DEF Next, RunStep, CallStep

(* The run that settles wakes the promise queued behind it and the calls    *)
(* that wait for it.                                                        *)
LEMMA QueueStep == IndInv /\ [Next]_vars => QueueInv'
  <1> SUFFICES ASSUME TypeOK, RunInv, QueueInv, [Next]_vars
               PROVE  QueueInv'
    BY DEF IndInv
  <1> USE NoneAssumption DEF RunInv, QueueInv, TypeOK, Schema, Stage, PC,
                             Kind, Zero
  <1>1. ASSUME NEW l \in Label, Write(l)
       PROVE  QueueInv'
    BY <1>1 DEF Write, graphVars, runVars, callVars
  <1>2. ASSUME CacheAges
       PROVE  QueueInv'
    BY <1>2 DEF CacheAges, graphVars, runVars, callVars
  <1>3. ASSUME NEW c \in Caller, NEW p \in Proc, Call(c, p)
       PROVE  QueueInv'
    BY <1>3 DEF Call, graphVars, runVars, callVars
  <1>4. ASSUME NEW c \in Caller, ServeCached(c)
       PROVE  QueueInv'
    BY <1>4 DEF ServeCached, Cached, StartRun, Forget, graphVars, runVars,
                callVars
  <1>5. ASSUME NEW c \in Caller, Recalculate(c)
       PROVE  QueueInv'
    BY <1>5 DEF Recalculate, Cached, SingleFlight, StartRun, Joins, Forget,
                graphVars, runVars, callVars
  <1>6. ASSUME NEW c \in Caller, LookupFails(c)
       PROVE  QueueInv'
    BY <1>6 DEF LookupFails, Forget, graphVars, runVars, callVars
  <1>7. ASSUME NEW i \in Run, ReadLabels(i)
       PROVE  QueueInv'
    BY <1>7 DEF ReadLabels, graphVars, runVars, callVars
  <1>8. ASSUME NEW i \in Run, NEW l \in Label, ReadLabel(i, l)
       PROVE  QueueInv'
    BY <1>8 DEF ReadLabel, graphVars, runVars, callVars
  <1>9. ASSUME NEW i \in Run, Persist(i)
       PROVE  QueueInv'
    BY <1>9 DEF Persist, graphVars, runVars, callVars
  <1>10. ASSUME NEW i \in Run, Settle(i)
       PROVE  QueueInv'
    BY <1>10 DEF Settle, Wakes, Returned, graphVars, runVars, callVars
  <1>11. ASSUME NEW i \in Run, StatementFails(i)
       PROVE  QueueInv'
    BY <1>11 DEF StatementFails, graphVars, runVars, callVars
  <1>12. ASSUME NEW p \in Proc, FollowUp(p)
       PROVE  QueueInv'
    <2> DEFINE Q(c) == pc[c] = "on_queue" /\ at[c] = p
    <2>1. ASSUME queued' = [queued EXCEPT ![p] = "none"], inFlight[p] = None,
                 NEW i \in Run, StartRun(p, i),
                 waits' = [c \in Caller |-> IF Q(c) THEN i ELSE waits[c]],
                 pc' = [c \in Caller |-> IF Q(c) THEN "on_run" ELSE pc[c]]
          PROVE  QueueInv'
      BY <1>12, <2>1 DEF FollowUp, StartRun, graphVars
    <2>2. ASSUME inFlight[p] # None, queued' = [queued EXCEPT ![p] = "waiting"],
                 UNCHANGED <<stage, owner, todo, seen, inFlight, waits, pc>>
          PROVE  QueueInv'
      BY <1>12, <2>2 DEF FollowUp, graphVars
    <2> QED
      BY <1>12, <2>1, <2>2 DEF FollowUp
  <1>13. CASE UNCHANGED vars
    BY <1>13 DEF vars, graphVars, runVars, callVars
  <1> QED
    BY <1>1, <1>2, <1>3, <1>4, <1>5, <1>6, <1>7, <1>8, <1>9, <1>10, <1>11,
       <1>12, <1>13
    DEF Next, RunStep, CallStep

(* The graph only grows, and everything else is copied from it.             *)
LEMMA GraphStep == IndInv /\ [Next]_vars => GraphInv'
  <1> SUFFICES ASSUME TypeOK, GraphInv, [Next]_vars
               PROVE  GraphInv'
    BY DEF IndInv
  <1> USE NoneAssumption, BoundsAssumption DEF GraphInv, Covers, TypeOK,
                                               Schema, Stage, PC, Kind, Zero
  <1>1. ASSUME NEW l \in Label, Write(l)
       PROVE  GraphInv'
    BY <1>1 DEF Write, graphVars, runVars, callVars
  <1>2. ASSUME CacheAges
       PROVE  GraphInv'
    BY <1>2 DEF CacheAges, graphVars, runVars, callVars
  <1>3. ASSUME NEW c \in Caller, NEW p \in Proc, Call(c, p)
       PROVE  GraphInv'
    BY <1>3 DEF Call, graphVars, runVars, callVars
  <1>4. ASSUME NEW c \in Caller, ServeCached(c)
       PROVE  GraphInv'
    BY <1>4 DEF ServeCached, Cached, StartRun, Forget, graphVars, runVars,
                callVars
  <1>5. ASSUME NEW c \in Caller, Recalculate(c)
       PROVE  GraphInv'
    BY <1>5 DEF Recalculate, Cached, SingleFlight, StartRun, Joins, Forget,
                graphVars, runVars, callVars
  <1>6. ASSUME NEW c \in Caller, LookupFails(c)
       PROVE  GraphInv'
    BY <1>6 DEF LookupFails, Forget, graphVars, runVars, callVars
  <1>7. ASSUME NEW i \in Run, ReadLabels(i)
       PROVE  GraphInv'
    BY <1>7 DEF ReadLabels, graphVars, runVars, callVars
  <1>8. ASSUME NEW i \in Run, NEW l \in Label, ReadLabel(i, l)
       PROVE  GraphInv'
    BY <1>8 DEF ReadLabel, graphVars, runVars, callVars
  <1>9. ASSUME NEW i \in Run, Persist(i)
       PROVE  GraphInv'
    BY <1>9 DEF Persist, graphVars, runVars, callVars
  <1>10. ASSUME NEW i \in Run, Settle(i)
       PROVE  GraphInv'
    BY <1>10 DEF Settle, Wakes, Returned, graphVars, runVars, callVars
  <1>11. ASSUME NEW i \in Run, StatementFails(i)
       PROVE  GraphInv'
    BY <1>11 DEF StatementFails, graphVars, runVars, callVars
  <1>12. ASSUME NEW p \in Proc, FollowUp(p)
       PROVE  GraphInv'
    BY <1>12 DEF FollowUp, StartRun, graphVars, runVars, callVars
  <1>13. CASE UNCHANGED vars
    BY <1>13 DEF vars, graphVars, runVars, callVars
  <1> QED
    BY <1>1, <1>2, <1>3, <1>4, <1>5, <1>6, <1>7, <1>8, <1>9, <1>10, <1>11,
       <1>12, <1>13
    DEF Next, RunStep, CallStep

(* A forced call only ever waits for a run that starts after it.            *)
LEMMA ForceStep == IndInv /\ [Next]_vars => ForceInv'
  <1> SUFFICES ASSUME TypeOK, RunInv, QueueInv, GraphInv, ForceInv, [Next]_vars
               PROVE  ForceInv'
    BY DEF IndInv
  <1> USE NoneAssumption DEF RunInv, QueueInv, GraphInv, Covers, ForceInv,
                             TypeOK, Schema, Stage, PC, Kind, Zero
  <1>1. ASSUME NEW l \in Label, Write(l)
       PROVE  ForceInv'
    BY <1>1 DEF Write, graphVars, runVars, callVars
  <1>2. ASSUME CacheAges
       PROVE  ForceInv'
    BY <1>2 DEF CacheAges, graphVars, runVars, callVars
  <1>3. ASSUME NEW c \in Caller, NEW p \in Proc, Call(c, p)
       PROVE  ForceInv'
    BY <1>3 DEF Call, graphVars, runVars, callVars
  <1>4. ASSUME NEW c \in Caller, ServeCached(c)
       PROVE  ForceInv'
    <2> at[c] \in Proc
      BY <1>4 DEF ServeCached, QueueInv
    <2>1. ASSUME UNCHANGED runVars
          PROVE  ForceInv'
      BY <1>4, <2>1 DEF ServeCached, Cached, Forget, graphVars, runVars
    <2>2. ASSUME inFlight[at[c]] = None, NEW i \in Run, StartRun(at[c], i),
                 UNCHANGED queued
          PROVE  ForceInv'
      BY <1>4, <2>2 DEF ServeCached, Cached, StartRun, Forget, graphVars
    <2> QED
      BY <1>4, <2>1, <2>2 DEF ServeCached
  <1>5. ASSUME NEW c \in Caller, Recalculate(c)
       PROVE  ForceInv'
    <2> DEFINE p == at[c]
    <2> p \in Proc
      BY <1>5 DEF Recalculate, QueueInv
    <2>1. ASSUME inFlight[p] = None,
                 NEW i \in Run, StartRun(p, i), waits' = [waits EXCEPT ![c] = i],
                 pc' = [pc EXCEPT ![c] = "on_run"], UNCHANGED queued
          PROVE  ForceInv'
      BY <1>5, <2>1 DEF Recalculate, StartRun, Forget, graphVars
    <2>2. ASSUME inFlight[p] # None, Joins(c),
                 waits' = [waits EXCEPT ![c] = inFlight[p]],
                 pc' = [pc EXCEPT ![c] = "on_run"], UNCHANGED runVars
          PROVE  ForceInv'
      BY <1>5, <2>2 DEF Recalculate, Joins, Forget, graphVars, runVars
    <2>3. ASSUME inFlight[p] # None, ~Joins(c),
                 queued' = [queued EXCEPT ![p] = IF @ = "none" THEN "waiting" ELSE @],
                 pc' = [pc EXCEPT ![c] = "on_queue"],
                 UNCHANGED <<stage, owner, todo, seen, inFlight, waits>>
          PROVE  ForceInv'
      BY <1>5, <2>3 DEF Recalculate, Forget, graphVars
    <2> QED
      BY <1>5, <2>1, <2>2, <2>3 DEF Recalculate, SingleFlight
  <1>6. ASSUME NEW c \in Caller, LookupFails(c)
       PROVE  ForceInv'
    BY <1>6 DEF LookupFails, Forget, graphVars, runVars, callVars
  <1>7. ASSUME NEW i \in Run, ReadLabels(i)
       PROVE  ForceInv'
    BY <1>7 DEF ReadLabels, graphVars, runVars, callVars
  <1>8. ASSUME NEW i \in Run, NEW l \in Label, ReadLabel(i, l)
       PROVE  ForceInv'
    BY <1>8 DEF ReadLabel, graphVars, runVars, callVars
  <1>9. ASSUME NEW i \in Run, Persist(i)
       PROVE  ForceInv'
    BY <1>9 DEF Persist, graphVars, runVars, callVars
  <1>10. ASSUME NEW i \in Run, Settle(i)
       PROVE  ForceInv'
    BY <1>10 DEF Settle, Wakes, Returned, graphVars, runVars, callVars
  <1>11. ASSUME NEW i \in Run, StatementFails(i)
       PROVE  ForceInv'
    BY <1>11 DEF StatementFails, graphVars, runVars, callVars
  <1>12. ASSUME NEW p \in Proc, FollowUp(p)
       PROVE  ForceInv'
    BY <1>12 DEF FollowUp, StartRun, graphVars, runVars, callVars
  <1>13. CASE UNCHANGED vars
    BY <1>13 DEF vars, graphVars, runVars, callVars
  <1> QED
    BY <1>1, <1>2, <1>3, <1>4, <1>5, <1>6, <1>7, <1>8, <1>9, <1>10, <1>11,
       <1>12, <1>13
    DEF Next, RunStep, CallStep

(* A run that stored its schema has read every label.                       *)
LEMMA ReadStep == IndInv /\ [Next]_vars => ForceReadsOwnWrites'
  <1> SUFFICES ASSUME TypeOK, RunInv, QueueInv, ForceInv, ForceReadsOwnWrites, [Next]_vars
               PROVE  ForceReadsOwnWrites'
    BY DEF IndInv
  <1> USE NoneAssumption DEF RunInv, QueueInv, ForceInv, Covers,
                             ForceReadsOwnWrites, TypeOK, Schema, Stage, PC,
                             Kind, Zero
  <1>1. ASSUME NEW l \in Label, Write(l)
       PROVE  ForceReadsOwnWrites'
    BY <1>1 DEF Write, graphVars, runVars, callVars
  <1>2. ASSUME CacheAges
       PROVE  ForceReadsOwnWrites'
    BY <1>2 DEF CacheAges, graphVars, runVars, callVars
  <1>3. ASSUME NEW c \in Caller, NEW p \in Proc, Call(c, p)
       PROVE  ForceReadsOwnWrites'
    BY <1>3 DEF Call, graphVars, runVars, callVars
  <1>4. ASSUME NEW c \in Caller, ServeCached(c)
       PROVE  ForceReadsOwnWrites'
    BY <1>4 DEF ServeCached, Cached, StartRun, Forget, graphVars, runVars,
                callVars
  <1>5. ASSUME NEW c \in Caller, Recalculate(c)
       PROVE  ForceReadsOwnWrites'
    <2> DEFINE p == at[c]
    <2> p \in Proc
      BY <1>5 DEF Recalculate, QueueInv
    <2>1. ASSUME inFlight[p] = None,
                 NEW i \in Run, StartRun(p, i), waits' = [waits EXCEPT ![c] = i],
                 pc' = [pc EXCEPT ![c] = "on_run"], UNCHANGED queued
          PROVE  ForceReadsOwnWrites'
      BY <1>5, <2>1 DEF Recalculate, StartRun, Forget, graphVars
    <2>2. ASSUME inFlight[p] # None, Joins(c),
                 waits' = [waits EXCEPT ![c] = inFlight[p]],
                 pc' = [pc EXCEPT ![c] = "on_run"], UNCHANGED runVars
          PROVE  ForceReadsOwnWrites'
      BY <1>5, <2>2 DEF Recalculate, Joins, Forget, graphVars, runVars
    <2>3. ASSUME inFlight[p] # None, ~Joins(c),
                 queued' = [queued EXCEPT ![p] = IF @ = "none" THEN "waiting" ELSE @],
                 pc' = [pc EXCEPT ![c] = "on_queue"],
                 UNCHANGED <<stage, owner, todo, seen, inFlight, waits>>
          PROVE  ForceReadsOwnWrites'
      BY <1>5, <2>3 DEF Recalculate, Forget, graphVars
    <2> QED
      BY <1>5, <2>1, <2>2, <2>3 DEF Recalculate, SingleFlight
  <1>6. ASSUME NEW c \in Caller, LookupFails(c)
       PROVE  ForceReadsOwnWrites'
    BY <1>6 DEF LookupFails, Forget, graphVars, runVars, callVars
  <1>7. ASSUME NEW i \in Run, ReadLabels(i)
       PROVE  ForceReadsOwnWrites'
    BY <1>7 DEF ReadLabels, graphVars, runVars, callVars
  <1>8. ASSUME NEW i \in Run, NEW l \in Label, ReadLabel(i, l)
       PROVE  ForceReadsOwnWrites'
    BY <1>8 DEF ReadLabel, graphVars, runVars, callVars
  <1>9. ASSUME NEW i \in Run, Persist(i)
       PROVE  ForceReadsOwnWrites'
    BY <1>9 DEF Persist, graphVars, runVars, callVars
  <1>10. ASSUME NEW i \in Run, Settle(i)
       PROVE  ForceReadsOwnWrites'
    BY <1>10 DEF Settle, Wakes, Returned, graphVars, runVars, callVars
  <1>11. ASSUME NEW i \in Run, StatementFails(i)
       PROVE  ForceReadsOwnWrites'
    BY <1>11 DEF StatementFails, graphVars, runVars, callVars
  <1>12. ASSUME NEW p \in Proc, FollowUp(p)
       PROVE  ForceReadsOwnWrites'
    BY <1>12 DEF FollowUp, StartRun, graphVars, runVars, callVars
  <1>13. CASE UNCHANGED vars
    BY <1>13 DEF vars, graphVars, runVars, callVars
  <1> QED
    BY <1>1, <1>2, <1>3, <1>4, <1>5, <1>6, <1>7, <1>8, <1>9, <1>10, <1>11,
       <1>12, <1>13
    DEF Next, RunStep, CallStep

-----------------------------------------------------------------------------
(* The conjunction is inductive, hence holds in every reachable state.      *)
THEOREM Invariance == Spec => []IndInv
  <1>1. ASSUME Init PROVE IndInv
    <2> USE <1>1, NoneAssumption, BoundsAssumption DEF Init
    <2>1. TypeOK
      <3>1. Zero \in Schema
        BY DEF Zero, Schema
      <3>2. fresh \in BOOLEAN /\ rowFresh \in [Caller -> BOOLEAN]
        BY Zenon
      <3> QED
        BY <3>1, <3>2 DEF TypeOK, Stage, PC, Kind
    <2>2. RunInv /\ QueueInv /\ ForceInv /\ ForceReadsOwnWrites
      BY DEF RunInv, QueueInv, ForceInv, ForceReadsOwnWrites
    <2>3. GraphInv
      BY DEF GraphInv, Covers, Zero
    <2> QED
      BY <2>1, <2>2, <2>3 DEF IndInv
  <1>2. IndInv /\ [Next]_vars => IndInv'
    <2> SUFFICES ASSUME IndInv, [Next]_vars PROVE IndInv'
      OBVIOUS
    <2>1. TypeOK'
      BY TypeStep DEF IndInv
    <2> QED
      BY <2>1, RunStepInv, QueueStep, GraphStep, ForceStep, ReadStep DEF IndInv
  <1> QED
    BY <1>1, <1>2, PTL DEF Spec

(* The variables always have their types.                                   *)
THEOREM TypeCorrect == Spec => []TypeOK
  <1>1. IndInv => TypeOK
    BY DEF IndInv
  <1> QED
    BY <1>1, Invariance, PTL

(* A forced call returns a schema with every write that preceded it, for    *)
(* any number of processes and whatever fails: the reason is that the run   *)
(* it waits for started after the call (ForceInv).                          *)
THEOREM ForcedCallsReadTheirWrites == Spec => []ForceReadsOwnWrites
  <1>1. IndInv => ForceReadsOwnWrites
    BY DEF IndInv
  <1> QED
    BY <1>1, Invariance, PTL

(* The runs of a process never overlap, and a run that settles removes its  *)
(* own entry from the in-flight map.                                        *)
THEOREM SingleFlightHolds == Spec => []OneRunAtATime
  <1>1. IndInv => OneRunAtATime
    BY DEF IndInv, RunInv, OneRunAtATime
  <1> QED
    BY <1>1, Invariance, PTL

(* Whoever waits, waits for a run that goes on or for a follow-up that will *)
(* start one.                                                               *)
THEOREM NobodyIsLeftBehind == Spec => []NoLostCaller
  <1>1. IndInv => NoLostCaller
    BY DEF IndInv, TypeOK, QueueInv, NoLostCaller
  <1> QED
    BY <1>1, Invariance, PTL

-----------------------------------------------------------------------------
(* The refinement of SchemaReads                                            *)

Waiting == {"looked", "on_run", "on_queue"}

(* What a call has come to, place by place.                                 *)
LEMMA CallStates ==
  ASSUME NEW c \in Caller
  PROVE  /\ pc[c] = "idle" => CallState(c) = Abs!Idle
         /\ pc[c] \in Waiting => CallState(c) = Abs!Pending(kind[c] = "force", need[c])
         /\ pc[c] = "answered" => CallState(c) = Abs!Answered(result[c])
         /\ pc[c] = "failed" => CallState(c) = Abs!Failed
  BY DEF CallState, Waiting, Abs!Idle, Abs!Pending, Abs!Answered, Abs!Failed

LEMMA CallStatesNext ==
  ASSUME NEW c \in Caller
  PROVE  /\ pc'[c] = "idle" => CallState(c)' = Abs!Idle
         /\ pc'[c] \in Waiting =>
              CallState(c)' = Abs!Pending(kind'[c] = "force", need'[c])
         /\ pc'[c] = "answered" => CallState(c)' = Abs!Answered(result'[c])
         /\ pc'[c] = "failed" => CallState(c)' = Abs!Failed
  BY DEF CallState, Waiting, Abs!Idle, Abs!Pending, Abs!Answered, Abs!Failed

(* An answer that covers what a forced call needs is acceptable.            *)
LEMMA AcceptableAnswer ==
  ASSUME NEW force \in BOOLEAN, NEW n, NEW s, Covers(graph, s),
         force => Covers(s, n)
  PROVE  Abs!Acceptable(Abs!Pending(force, n), s, graph)
  <1>1. Abs!Pending(force, n).force = force /\ Abs!Pending(force, n).need = n
    BY Zenon DEF Abs!Pending
  <1>2. CASE force
    BY <1>1, <1>2 DEF Abs!Acceptable, Abs!Covers, Covers
  <1>3. CASE ~force
    <2>1. ~Abs!Pending(force, n).force
      BY <1>1, <1>3, Zenon
    <2> QED
      BY <2>1 DEF Abs!Acceptable, Abs!Covers, Covers
  <1> QED
    BY <1>2, <1>3

(* A call whose caller can tell no difference.                              *)
LEMMA SameCallState ==
  ASSUME TypeOK, NEW c \in Caller, kind'[c] = kind[c], need'[c] = need[c],
         result'[c] = result[c],
         pc'[c] = pc[c] \/ (pc[c] \in Waiting /\ pc'[c] \in Waiting)
  PROVE  CallState(c)' = CallState(c)
  BY CallStates, CallStatesNext DEF TypeOK, PC, Waiting

(* Every step answers calls, fails calls, is a request or a write of the    *)
(* abstract specification, or cannot be told from outside.                  *)
LEMMA RefinementStep ==
  IndInv /\ [Next]_vars => [Abs!Next]_<<graph, [c \in Caller |-> CallState(c)]>>
  <1> DEFINE call == [c \in Caller |-> CallState(c)]
  <1> SUFFICES ASSUME TypeOK, RunInv, QueueInv, GraphInv, ForceInv, [Next]_vars
               PROVE  Abs!Next \/ UNCHANGED <<graph, call>>
    BY DEF IndInv
  <1>w. \A c \in Caller : pc[c] \in Waiting => call[c].state = "pending"
    BY CallStates DEF Abs!Pending
  <1>1. ASSUME NEW l \in Label, Write(l)
        PROVE  Abs!Next
    <2>1. UNCHANGED call
      BY <1>1, SameCallState DEF Write, callVars
    <2>2. Abs!Write(l)
      BY <1>1, <2>1 DEF Write, Abs!Write
    <2> QED
      BY <2>2 DEF Abs!Next
  <1>2. ASSUME CacheAges
        PROVE  UNCHANGED <<graph, call>>
    BY <1>2, SameCallState DEF CacheAges, callVars
  <1>3. ASSUME NEW c \in Caller, NEW p \in Proc, Call(c, p)
        PROVE  Abs!Next
    <2>1. call[c] = Abs!Idle
      BY <1>3, CallStates DEF Call
    <2>2. CallState(c)' = Abs!Pending(kind'[c] = "force", graph)
      BY <1>3, CallStatesNext DEF Call, TypeOK, Waiting
    <2>3. ASSUME NEW d \in Caller, d # c
          PROVE  CallState(d)' = CallState(d)
      BY <1>3, <2>3, SameCallState DEF Call, TypeOK
    <2>4. call' = [call EXCEPT ![c] = Abs!Pending(kind'[c] = "force", graph)]
      BY <2>2, <2>3
    <2>5. (kind'[c] = "force") \in BOOLEAN
      OBVIOUS
    <2>6. graph' = graph
      BY <1>3 DEF Call, graphVars
    <2>7. Abs!Request(c)
      BY <2>1, <2>4, <2>5, <2>6 DEF Abs!Request
    <2> QED
      BY <2>7 DEF Abs!Next
  <1>4. ASSUME NEW c \in Caller, ServeCached(c)
        PROVE  Abs!Next
    <2>1. /\ pc[c] \in Waiting /\ kind[c] # "force"
          /\ row[c] \in Schema /\ Covers(graph, row[c])
      BY <1>4 DEF ServeCached, Cached, TypeOK, GraphInv, Waiting
    <2>2. CallState(c)' = Abs!Answered(row[c])
      BY <1>4, CallStatesNext DEF ServeCached, TypeOK
    <2>3. ASSUME NEW d \in Caller, d # c
          PROVE  CallState(d)' = CallState(d)
      BY <1>4, <2>3, SameCallState DEF ServeCached, TypeOK
    <2>4. call' = [d \in Caller |-> IF d \in {c} THEN Abs!Answered(row[c]) ELSE call[d]]
      BY <2>2, <2>3
    <2>5. call[c].state = "pending" /\ Abs!Acceptable(call[c], row[c], graph)
      <3>1. call[c] = Abs!Pending(kind[c] = "force", need[c])
        BY <2>1, CallStates
      <3> QED
        BY <2>1, <3>1, <1>w, AcceptableAnswer
    <2>6. Abs!Answer({c}, row[c])
      BY <1>4, <2>4, <2>5 DEF Abs!Answer, ServeCached, graphVars
    <2> QED
      BY <2>1, <2>6 DEF Abs!Next, Abs!Schema, Schema
  <1>5. ASSUME NEW c \in Caller, Recalculate(c)
        PROVE  UNCHANGED <<graph, call>>
    <2>1. ASSUME NEW d \in Caller
          PROVE  CallState(d)' = CallState(d)
      BY <1>5, <2>1, SameCallState DEF Recalculate, SingleFlight, runVars, TypeOK, Waiting
    <2> QED
      BY <1>5, <2>1 DEF Recalculate, graphVars
  <1>6. ASSUME NEW c \in Caller, LookupFails(c)
        PROVE  Abs!Next
    <2>1. CallState(c)' = Abs!Failed
      BY <1>6, CallStatesNext DEF LookupFails, TypeOK
    <2>2. ASSUME NEW d \in Caller, d # c
          PROVE  CallState(d)' = CallState(d)
      BY <1>6, <2>2, SameCallState DEF LookupFails, TypeOK
    <2>3. call' = [d \in Caller |-> IF d \in {c} THEN Abs!Failed ELSE call[d]]
      BY <2>1, <2>2
    <2>4. Abs!Fail({c})
      BY <1>6, <1>w, <2>3 DEF Abs!Fail, LookupFails, graphVars, Waiting
    <2> QED
      BY <2>4 DEF Abs!Next
  <1>7. ASSUME NEW i \in Run, ReadLabels(i)
        PROVE  UNCHANGED <<graph, call>>
    BY <1>7, SameCallState DEF ReadLabels, graphVars, callVars
  <1>8. ASSUME NEW i \in Run, NEW l \in Label, ReadLabel(i, l)
        PROVE  UNCHANGED <<graph, call>>
    BY <1>8, SameCallState DEF ReadLabel, graphVars, callVars
  <1>9. ASSUME NEW i \in Run, Persist(i)
        PROVE  UNCHANGED <<graph, call>>
    BY <1>9, SameCallState DEF Persist, callVars
  <1>10. ASSUME NEW i \in Run, Settle(i)
         PROVE  Abs!Next
    <2> DEFINE C == {c \in Caller : pc[c] = "on_run" /\ waits[c] = i}
    <2>1. ASSUME NEW d \in Caller \ C
          PROVE  CallState(d)' = CallState(d)
      BY <1>10, <2>1, SameCallState DEF Settle, TypeOK
    <2>2. ASSUME NEW c \in C
          PROVE  call[c] = Abs!Pending(kind[c] = "force", need[c])
      BY CallStates DEF Waiting
    <2>3. graph' = graph
      BY <1>10 DEF Settle, graphVars
    <2>4. CASE stage[i] = "persisted"
      <3>1. ASSUME NEW c \in C
            PROVE  CallState(c)' = Abs!Answered(seen[i])
        BY <1>10, <2>4, CallStatesNext DEF Settle, Returned, TypeOK
      <3>2. call' = [c \in Caller |-> IF c \in C THEN Abs!Answered(seen[i]) ELSE call[c]]
        BY <2>1, <3>1
      <3>3. ASSUME NEW c \in C
            PROVE  Abs!Acceptable(call[c], seen[i], graph)
        <4>1. Covers(graph, seen[i])
          BY DEF GraphInv
        <4>2. kind[c] = "force" => Covers(seen[i], need[c])
          BY <2>4 DEF RunInv, ForceInv, Covers
        <4> QED
          BY <2>2, <4>1, <4>2, AcceptableAnswer
      <3>4. \A c \in C : call[c].state = "pending"
        BY <2>2 DEF Abs!Pending
      <3>5. Abs!Answer(C, seen[i])
        BY <2>3, <3>2, <3>3, <3>4 DEF Abs!Answer
      <3> QED
        BY <3>5 DEF Abs!Next, Abs!Schema, TypeOK, Schema
    <2>5. CASE stage[i] = "rejected"
      <3>1. ASSUME NEW c \in C
            PROVE  CallState(c)' = Abs!Failed
        BY <1>10, <2>5, CallStatesNext DEF Settle, TypeOK
      <3>2. call' = [c \in Caller |-> IF c \in C THEN Abs!Failed ELSE call[c]]
        BY <2>1, <3>1
      <3>3. \A c \in C : call[c].state = "pending"
        BY <2>2 DEF Abs!Pending
      <3>4. Abs!Fail(C)
        BY <2>3, <3>2, <3>3 DEF Abs!Fail
      <3> QED
        BY <3>4 DEF Abs!Next
    <2> QED
      BY <1>10, <2>4, <2>5 DEF Settle
  <1>11. ASSUME NEW i \in Run, StatementFails(i)
         PROVE  UNCHANGED <<graph, call>>
    BY <1>11, SameCallState DEF StatementFails, graphVars, callVars
  <1>12. ASSUME NEW p \in Proc, FollowUp(p)
         PROVE  UNCHANGED <<graph, call>>
    <2>1. ASSUME NEW d \in Caller
          PROVE  CallState(d)' = CallState(d)
      BY <1>12, <2>1, SameCallState DEF FollowUp, TypeOK, Waiting
    <2> QED
      BY <1>12, <2>1 DEF FollowUp, graphVars
  <1>13. CASE UNCHANGED vars
    BY <1>13, SameCallState DEF vars, graphVars, callVars
  <1> QED
    BY <1>1, <1>2, <1>3, <1>4, <1>5, <1>6, <1>7, <1>8, <1>9, <1>10, <1>11, <1>12,
       <1>13
    DEF Next, RunStep, CallStep

(* The cached, coalesced, failing implementation keeps the contract of      *)
(* getSchema: what a caller can observe is a behaviour of SchemaReads.      *)
THEOREM Refinement == Spec => ImplementsReads
  <1>1. Init => Abs!Init
    BY DEF Init, Zero, CallState, Abs!Init, Abs!Idle
  <1> QED
    BY <1>1, RefinementStep, Invariance, PTL DEF Spec, ImplementsReads, Abs!Spec

-----------------------------------------------------------------------------
(* The stored schema, when one process serves the project                   *)

(* A run in flight has read every label after the stored schema did.        *)
CacheInv ==
  \A i \in Run :
    cache # None /\ stage[i] \in {"reading", "persisted"} =>
      \A l \in Label : l \in todo[i] \/ cache[l] <= seen[i][l]

(* With a single process only one run is in flight.                         *)
LEMMA AloneInFlight ==
  ASSUME NEW P, Proc = {P}, TypeOK, RunInv, NEW i \in Run, NEW j \in Run,
         stage[i] # "idle", stage[j] # "idle"
  PROVE  i = j
  BY DEF RunInv

LEMMA CacheStep ==
  ASSUME NEW P, Proc = {P}
  PROVE  IndInv /\ CacheInv /\ [Next]_vars => CacheInv'
  <1> SUFFICES ASSUME TypeOK, RunInv, GraphInv, CacheInv, [Next]_vars
               PROVE  CacheInv'
    BY DEF IndInv
  <1> USE NoneAssumption DEF CacheInv, RunInv, GraphInv, Covers, TypeOK,
                             Schema, Stage, PC, Kind, Zero
  <1>1. ASSUME NEW l \in Label, Write(l)
       PROVE  CacheInv'
    BY <1>1 DEF Write, graphVars, runVars, callVars
  <1>2. ASSUME CacheAges
       PROVE  CacheInv'
    BY <1>2 DEF CacheAges, graphVars, runVars, callVars
  <1>3. ASSUME NEW c \in Caller, NEW p \in Proc, Call(c, p)
       PROVE  CacheInv'
    BY <1>3 DEF Call, graphVars, runVars, callVars
  <1>4. ASSUME NEW c \in Caller, ServeCached(c)
       PROVE  CacheInv'
    BY <1>4 DEF ServeCached, Cached, StartRun, Forget, graphVars, runVars,
                callVars
  <1>5. ASSUME NEW c \in Caller, Recalculate(c)
       PROVE  CacheInv'
    <2>1. /\ UNCHANGED <<cache, todo, seen>>
          /\ stage' = stage \/ \E i \in Run : stage' = [stage EXCEPT ![i] = "labels"]
      BY <1>5 DEF Recalculate, SingleFlight, StartRun, graphVars, runVars
    <2> QED
      BY <2>1
  <1>6. ASSUME NEW c \in Caller, LookupFails(c)
       PROVE  CacheInv'
    BY <1>6 DEF LookupFails, Forget, graphVars, runVars, callVars
  <1>7. ASSUME NEW i \in Run, ReadLabels(i)
       PROVE  CacheInv'
    BY <1>7 DEF ReadLabels, graphVars, runVars, callVars
  <1>8. ASSUME NEW i \in Run, NEW l \in Label, ReadLabel(i, l)
       PROVE  CacheInv'
    BY <1>8 DEF ReadLabel, graphVars, runVars, callVars
  <1>9. ASSUME NEW i \in Run, Persist(i)
       PROVE  CacheInv'
    <2>1. ASSUME NEW j \in Run, stage'[j] \in {"reading", "persisted"}, cache' # cache
          PROVE  todo'[j] = {} /\ seen'[j] = cache'
      <3>1. j = i
        <4>1. stage[i] # "idle" /\ stage[j] # "idle"
          BY <1>9, <2>1 DEF Persist
        <4> QED
          BY <4>1, AloneInFlight, Zenon
      <3> QED
        BY <1>9, <2>1, <3>1 DEF Persist
    <2>2. CASE cache' = cache
      BY <1>9, <2>2 DEF Persist
    <2>3. CASE cache' # cache
      <3>1. seen' = seen /\ cache' \in Schema
        BY <1>9, <2>3 DEF Persist
      <3> QED
        BY <2>1, <2>3, <3>1
    <2> QED
      BY <2>2, <2>3
  <1>10. ASSUME NEW i \in Run, Settle(i)
       PROVE  CacheInv'
    BY <1>10 DEF Settle, Wakes, Returned, graphVars, runVars, callVars
  <1>11. ASSUME NEW i \in Run, StatementFails(i)
       PROVE  CacheInv'
    BY <1>11 DEF StatementFails, graphVars, runVars, callVars
  <1>12. ASSUME NEW p \in Proc, FollowUp(p)
       PROVE  CacheInv'
    BY <1>12 DEF FollowUp, StartRun, graphVars, runVars, callVars
  <1>13. CASE UNCHANGED vars
    BY <1>13 DEF vars, graphVars, runVars, callVars
  <1> QED
    BY <1>1, <1>2, <1>3, <1>4, <1>5, <1>6, <1>7, <1>8, <1>9, <1>10, <1>11,
       <1>12, <1>13
    DEF Next, RunStep, CallStep

(* A schema is stored by the only run in flight, which read every label     *)
(* after the schema that it replaces did.                                   *)
LEMMA PersistExtends ==
  ASSUME NEW P, Proc = {P}
  PROVE  IndInv /\ CacheInv /\ [Next]_vars =>
           (cache' = cache \/ cache = None \/ Covers(cache', cache))
  <1> SUFFICES ASSUME TypeOK, RunInv, CacheInv, [Next]_vars
               PROVE  cache' = cache \/ cache = None \/ Covers(cache', cache)
    BY DEF IndInv
  <1> USE NoneAssumption DEF CacheInv, RunInv, Covers, TypeOK, Schema, Stage,
                             PC, Kind, Zero
  <1>1. ASSUME NEW l \in Label, Write(l)
       PROVE  cache' = cache \/ cache = None \/ Covers(cache', cache)
    BY <1>1 DEF Write, graphVars, runVars, callVars
  <1>2. ASSUME CacheAges
       PROVE  cache' = cache \/ cache = None \/ Covers(cache', cache)
    BY <1>2 DEF CacheAges, graphVars, runVars, callVars
  <1>3. ASSUME NEW c \in Caller, NEW p \in Proc, Call(c, p)
       PROVE  cache' = cache \/ cache = None \/ Covers(cache', cache)
    BY <1>3 DEF Call, graphVars, runVars, callVars
  <1>4. ASSUME NEW c \in Caller, ServeCached(c)
       PROVE  cache' = cache \/ cache = None \/ Covers(cache', cache)
    BY <1>4 DEF ServeCached, Cached, StartRun, Forget, graphVars, runVars,
                callVars
  <1>5. ASSUME NEW c \in Caller, Recalculate(c)
       PROVE  cache' = cache \/ cache = None \/ Covers(cache', cache)
    BY <1>5 DEF Recalculate, Cached, SingleFlight, StartRun, Joins, Forget,
                graphVars, runVars, callVars
  <1>6. ASSUME NEW c \in Caller, LookupFails(c)
       PROVE  cache' = cache \/ cache = None \/ Covers(cache', cache)
    BY <1>6 DEF LookupFails, Forget, graphVars, runVars, callVars
  <1>7. ASSUME NEW i \in Run, ReadLabels(i)
       PROVE  cache' = cache \/ cache = None \/ Covers(cache', cache)
    BY <1>7 DEF ReadLabels, graphVars, runVars, callVars
  <1>8. ASSUME NEW i \in Run, NEW l \in Label, ReadLabel(i, l)
       PROVE  cache' = cache \/ cache = None \/ Covers(cache', cache)
    BY <1>8 DEF ReadLabel, graphVars, runVars, callVars
  <1>9. ASSUME NEW i \in Run, Persist(i)
       PROVE  cache' = cache \/ cache = None \/ Covers(cache', cache)
    BY <1>9 DEF Persist, graphVars, runVars, callVars
  <1>10. ASSUME NEW i \in Run, Settle(i)
       PROVE  cache' = cache \/ cache = None \/ Covers(cache', cache)
    BY <1>10 DEF Settle, Wakes, Returned, graphVars, runVars, callVars
  <1>11. ASSUME NEW i \in Run, StatementFails(i)
       PROVE  cache' = cache \/ cache = None \/ Covers(cache', cache)
    BY <1>11 DEF StatementFails, graphVars, runVars, callVars
  <1>12. ASSUME NEW p \in Proc, FollowUp(p)
       PROVE  cache' = cache \/ cache = None \/ Covers(cache', cache)
    BY <1>12 DEF FollowUp, StartRun, graphVars, runVars, callVars
  <1>13. CASE UNCHANGED vars
    BY <1>13 DEF vars, graphVars, runVars, callVars
  <1> QED
    BY <1>1, <1>2, <1>3, <1>4, <1>5, <1>6, <1>7, <1>8, <1>9, <1>10, <1>11,
       <1>12, <1>13
    DEF Next, RunStep, CallStep

(* The stored schema never loses a write when one process serves the        *)
(* project, whatever fails: runs follow one another and each reads the      *)
(* graph after the last one stored its schema.                              *)
THEOREM OneProcessNeverRegresses ==
  ASSUME NEW P, Proc = {P}
  PROVE  Spec => CacheNeverRegresses
  <1>1. Init => CacheInv
    BY DEF Init, CacheInv
  <1>2. IndInv /\ CacheInv /\ [Next]_vars => CacheInv'
    BY CacheStep
  <1>3. IndInv /\ CacheInv /\ [Next]_vars =>
          [cache = None \/ Covers(cache', cache)]_cache
    BY PersistExtends
  <1> QED
    BY <1>1, <1>2, <1>3, Invariance, PTL DEF Spec, CacheNeverRegresses

(* A run that stored its schema left it in the cache.                       *)
StoredInv == \A i \in Run : stage[i] = "persisted" => cache = seen[i]

LEMMA StoredStep ==
  ASSUME NEW P, Proc = {P}, MaxPersistFailures = 0
  PROVE  IndInv /\ StoredInv /\ [Next]_vars => StoredInv'
  <1> SUFFICES ASSUME TypeOK, RunInv, StoredInv, [Next]_vars
               PROVE  StoredInv'
    BY DEF IndInv
  <1> USE NoneAssumption, BoundsAssumption DEF StoredInv, RunInv, TypeOK,
                                               Schema, Stage, PC, Kind, Zero
  <1>1. ASSUME NEW l \in Label, Write(l)
       PROVE  StoredInv'
    BY <1>1 DEF Write, graphVars, runVars, callVars
  <1>2. ASSUME CacheAges
       PROVE  StoredInv'
    BY <1>2 DEF CacheAges, graphVars, runVars, callVars
  <1>3. ASSUME NEW c \in Caller, NEW p \in Proc, Call(c, p)
       PROVE  StoredInv'
    BY <1>3 DEF Call, graphVars, runVars, callVars
  <1>4. ASSUME NEW c \in Caller, ServeCached(c)
       PROVE  StoredInv'
    BY <1>4 DEF ServeCached, Cached, StartRun, Forget, graphVars, runVars,
                callVars
  <1>5. ASSUME NEW c \in Caller, Recalculate(c)
       PROVE  StoredInv'
    <2>1. /\ UNCHANGED <<cache, todo, seen>>
          /\ stage' = stage \/ \E i \in Run : stage' = [stage EXCEPT ![i] = "labels"]
      BY <1>5 DEF Recalculate, SingleFlight, StartRun, graphVars, runVars
    <2> QED
      BY <2>1
  <1>6. ASSUME NEW c \in Caller, LookupFails(c)
       PROVE  StoredInv'
    BY <1>6 DEF LookupFails, Forget, graphVars, runVars, callVars
  <1>7. ASSUME NEW i \in Run, ReadLabels(i)
       PROVE  StoredInv'
    BY <1>7 DEF ReadLabels, graphVars, runVars, callVars
  <1>8. ASSUME NEW i \in Run, NEW l \in Label, ReadLabel(i, l)
       PROVE  StoredInv'
    BY <1>8 DEF ReadLabel, graphVars, runVars, callVars
  <1>9. ASSUME NEW i \in Run, Persist(i)
       PROVE  StoredInv'
    <2>1. cache' = seen[i] /\ UNCHANGED seen
      BY <1>9 DEF Persist
    <2>2. ASSUME NEW j \in Run, stage'[j] = "persisted"
          PROVE  j = i
      <3>1. j # i => stage[i] # "idle" /\ stage[j] # "idle"
        BY <1>9, <2>2 DEF Persist
      <3> QED
        BY <3>1, AloneInFlight, Zenon
    <2> QED
      BY <2>1, <2>2
  <1>10. ASSUME NEW i \in Run, Settle(i)
       PROVE  StoredInv'
    BY <1>10 DEF Settle, Wakes, Returned, graphVars, runVars, callVars
  <1>11. ASSUME NEW i \in Run, StatementFails(i)
       PROVE  StoredInv'
    BY <1>11 DEF StatementFails, graphVars, runVars, callVars
  <1>12. ASSUME NEW p \in Proc, FollowUp(p)
       PROVE  StoredInv'
    BY <1>12 DEF FollowUp, StartRun, graphVars, runVars, callVars
  <1>13. CASE UNCHANGED vars
    BY <1>13 DEF vars, graphVars, runVars, callVars
  <1> QED
    BY <1>1, <1>2, <1>3, <1>4, <1>5, <1>6, <1>7, <1>8, <1>9, <1>10, <1>11,
       <1>12, <1>13
    DEF Next, RunStep, CallStep

LEMMA CoversForceStep ==
  ASSUME NEW P, Proc = {P}, MaxPersistFailures = 0
  PROVE  IndInv /\ CacheInv /\ StoredInv /\ CacheCoversForce /\ [Next]_vars =>
           CacheCoversForce'
  <1> SUFFICES ASSUME TypeOK, RunInv, ForceInv, StoredInv, CacheCoversForce,
                      [Next]_vars,
                      cache' = cache \/ cache = None \/ Covers(cache', cache)
               PROVE  CacheCoversForce'
    BY PersistExtends DEF IndInv
  <1> USE NoneAssumption DEF StoredInv, RunInv, ForceInv, CacheCoversForce,
                             Covers, TypeOK, Schema, Stage, PC, Kind, Zero
  <1>1. ASSUME NEW l \in Label, Write(l)
       PROVE  CacheCoversForce'
    BY <1>1 DEF Write, graphVars, runVars, callVars
  <1>2. ASSUME CacheAges
       PROVE  CacheCoversForce'
    BY <1>2 DEF CacheAges, graphVars, runVars, callVars
  <1>3. ASSUME NEW c \in Caller, NEW p \in Proc, Call(c, p)
       PROVE  CacheCoversForce'
    BY <1>3 DEF Call, graphVars, runVars, callVars
  <1>4. ASSUME NEW c \in Caller, ServeCached(c)
       PROVE  CacheCoversForce'
    BY <1>4 DEF ServeCached, Cached, StartRun, Forget, graphVars, runVars,
                callVars
  <1>5. ASSUME NEW c \in Caller, Recalculate(c)
       PROVE  CacheCoversForce'
    BY <1>5 DEF Recalculate, Cached, SingleFlight, StartRun, Joins, Forget,
                graphVars, runVars, callVars
  <1>6. ASSUME NEW c \in Caller, LookupFails(c)
       PROVE  CacheCoversForce'
    BY <1>6 DEF LookupFails, Forget, graphVars, runVars, callVars
  <1>7. ASSUME NEW i \in Run, ReadLabels(i)
       PROVE  CacheCoversForce'
    BY <1>7 DEF ReadLabels, graphVars, runVars, callVars
  <1>8. ASSUME NEW i \in Run, NEW l \in Label, ReadLabel(i, l)
       PROVE  CacheCoversForce'
    BY <1>8 DEF ReadLabel, graphVars, runVars, callVars
  <1>9. ASSUME NEW i \in Run, Persist(i)
       PROVE  CacheCoversForce'
    <2>1. UNCHANGED <<pc, kind, need>> /\ cache' \in Schema
      BY <1>9 DEF Persist, callVars
    <2>2. ASSUME NEW c \in Caller, pc'[c] = "answered", kind'[c] = "force",
                 NEW l \in Label
          PROVE  need'[c][l] <= cache'[l]
      <3>1. cache # None /\ Covers(cache, need[c])
        BY <2>1, <2>2
      <3>2. cache \in Schema /\ Covers(cache', cache)
        BY <3>1
      <3>3. need[c][l] <= cache[l] /\ cache[l] <= cache'[l]
        BY <3>1, <3>2
      <3>4. need[c][l] \in Nat /\ cache[l] \in Nat /\ cache'[l] \in Nat
        BY <2>1, <3>2, BoundsAssumption
      <3> QED
        BY <2>1, <3>3, <3>4
    <2>3. cache' # None
      BY <2>1
    <2> QED
      BY <2>2, <2>3
  <1>10. ASSUME NEW i \in Run, Settle(i)
       PROVE  CacheCoversForce'
    <2>1. UNCHANGED <<cache, kind, need>>
      BY <1>10 DEF Settle, graphVars
    <2>2. ASSUME NEW c \in Caller, pc[c] # "answered", pc'[c] = "answered",
                 kind[c] = "force"
          PROVE  cache # None /\ Covers(cache, need[c])
      <3>1. waits[c] = i /\ pc[c] = "on_run" /\ stage[i] = "persisted"
        BY <1>10, <2>2 DEF Settle
      <3>2. cache = seen[i] /\ todo[i] = {}
        BY <3>1
      <3>3. Covers(seen[i], need[c])
        BY <2>2, <3>1, <3>2
      <3>4. seen[i] # None
        OBVIOUS
      <3> QED
        BY <3>2, <3>3, <3>4
    <2> QED
      BY <2>1, <2>2
  <1>11. ASSUME NEW i \in Run, StatementFails(i)
       PROVE  CacheCoversForce'
    BY <1>11 DEF StatementFails, graphVars, runVars, callVars
  <1>12. ASSUME NEW p \in Proc, FollowUp(p)
       PROVE  CacheCoversForce'
    BY <1>12 DEF FollowUp, StartRun, graphVars, runVars, callVars
  <1>13. CASE UNCHANGED vars
    BY <1>13 DEF vars, graphVars, runVars, callVars
  <1> QED
    BY <1>1, <1>2, <1>3, <1>4, <1>5, <1>6, <1>7, <1>8, <1>9, <1>10, <1>11,
       <1>12, <1>13
    DEF Next, RunStep, CallStep

(* With one process and a SQL database that stores what it is given, the    *)
(* cache holds the writes that preceded a forced call once that returned:   *)
(* what the relationship analysis relies on.                                *)
THEOREM OneProcessCacheIsFresh ==
  ASSUME NEW P, Proc = {P}, MaxPersistFailures = 0
  PROVE  Spec => []CacheCoversForce
  <1>1. Init => CacheInv /\ StoredInv /\ CacheCoversForce
    BY DEF Init, CacheInv, StoredInv, CacheCoversForce
  <1>2. IndInv /\ CacheInv /\ [Next]_vars => CacheInv'
    BY CacheStep
  <1>3. IndInv /\ StoredInv /\ [Next]_vars => StoredInv'
    BY StoredStep
  <1>4. IndInv /\ CacheInv /\ StoredInv /\ CacheCoversForce /\ [Next]_vars =>
          CacheCoversForce'
    BY CoversForceStep
  <1> QED
    BY <1>1, <1>2, <1>3, <1>4, Invariance, PTL DEF Spec
=============================================================================
