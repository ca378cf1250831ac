------------------------ MODULE EmbeddingBackfillProofs ------------------------
(***************************************************************************)
(* Proofs about EmbeddingBackfill, for any number of processes, records,    *)
(* writers, faults and restarts: the type invariant; vectors always embed   *)
(* the value the record has, unless records are upserted with the append    *)
(* strategy; and vectors are always of the model of the index, when one     *)
(* process serves it.                                                       *)
(***************************************************************************)
EXTENDS EmbeddingBackfill, TLAPS

-----------------------------------------------------------------------------
(* Every variable keeps its type, whichever action runs.                    *)
LEMMA TypeStep == TypeOK /\ [Next]_vars => TypeOK'
  <1> SUFFICES ASSUME TypeOK, [Next]_vars PROVE TypeOK'
    OBVIOUS
  <1> USE NamesAssumption, BoundsAssumption DEF TypeOK, Kind, Author, Vector,
                                                Read, Request, Status,
                                                MAX_CONSECUTIVE_BACKFILL_FAILURES
  <1>1. ASSUME NEW w \in Writer, Execute(w)
       PROVE  TypeOK'
    BY <1>1 DEF Execute, graphVars, rowVars, writeVars, runVars
  <1>2. ASSUME NEW w \in Writer, MarkPending(w)
       PROVE  TypeOK'
    BY <1>2 DEF MarkPending, SetStatus, Fault, graphVars, rowVars, writeVars,
                runVars
  <1>3. ASSUME NEW w \in Writer, Commit(w)
       PROVE  TypeOK'
    BY <1>3 DEF Commit, Kept, Rewrites, graphVars, rowVars, writeVars,
                runVars
  <1>4. ASSUME NEW w \in Writer, Abort(w)
       PROVE  TypeOK'
    <2>1. [request[w] EXCEPT !.state = "aborted"] \in Request
      OBVIOUS
    <2>2. request' \in [Writer -> Request]
      BY <1>4, <2>1 DEF Abort
    <2> QED
      BY <1>4, <2>2 DEF Abort, graphVars, rowVars, runVars
  <1>5. ASSUME NEW p \in Proc, RunBackfill(p)
       PROVE  TypeOK'
    BY <1>5 DEF RunBackfill, Goto, Finds, graphVars, rowVars, writeVars,
                runVars
  <1>6. ASSUME NEW p \in Proc, BackfillIndex(p)
       PROVE  TypeOK'
    BY <1>6 DEF BackfillIndex, Goto, SetStatus, Fault, graphVars, rowVars,
                writeVars, runVars
  <1>7. ASSUME NEW p \in Proc, FetchBatch(p)
       PROVE  TypeOK'
    <2>1. PICK R \in SUBSET Unindexed :
            /\ batch' = [batch EXCEPT ![p] =
                 {[record |-> r, relation |-> relation[r], value |-> value[r]] : r \in R}]
            /\ Goto(p, IF R = {} THEN "check" ELSE "batch")
      BY <1>7 DEF FetchBatch
    <2>2. ASSUME NEW r \in R
          PROVE  [record |-> r, relation |-> relation[r], value |-> value[r]] \in Read
      BY DEF Unindexed
    <2>3. batch' \in [Proc -> SUBSET Read]
      BY <2>1, <2>2
    <2> QED
      BY <1>7, <2>1, <2>3 DEF FetchBatch, Goto, graphVars, rowVars, writeVars
  <1>8. ASSUME NEW p \in Proc, WriteVectors(p)
       PROVE  TypeOK'
    <2>1. PICK W \in SUBSET batch[p] :
            vector' = [r \in Record |->
              IF \E x \in W : x.record = r /\ Still(x)
              THEN [of |-> (CHOOSE x \in W : x.record = r).value, model |-> env[p]]
              ELSE vector[r]]
      BY <1>8 DEF WriteVectors
    <2>2. ASSUME NEW r \in Record
          PROVE  vector'[r] \in Vector \cup {Absent}
      <3>1. CASE \E x \in W : x.record = r /\ Still(x)
        <4>1. (CHOOSE x \in W : x.record = r) \in Read
          BY <3>1
        <4> QED
          BY <2>1, <3>1, <4>1
      <3>2. CASE ~\E x \in W : x.record = r /\ Still(x)
        BY <2>1, <3>2
      <3> QED
        BY <3>1, <3>2
    <2>3. vector' \in [Record -> Vector \cup {Absent}]
      BY <2>1, <2>2
    <2>4. skip' \in [Proc -> Nat]
      BY <1>8 DEF WriteVectors
    <2>5. faults' \in 0..MaxFaults
      BY <1>8 DEF WriteVectors, Fault
    <2>6. pc' \in [Proc -> {"idle", "found", "loop", "batch", "check", "finish"}]
      BY <1>8 DEF WriteVectors, Goto
    <2>7. batch' \in [Proc -> SUBSET Read]
      BY <1>8 DEF WriteVectors
    <2> HIDE DEF Read, Vector, Request, Status, Author
    <2> QED
      BY <1>8, <2>3, <2>4, <2>5, <2>6, <2>7 DEF WriteVectors, rowVars, writeVars
  <1>9. ASSUME NEW p \in Proc, CheckRemaining(p)
       PROVE  TypeOK'
    BY <1>9 DEF CheckRemaining, Goto, graphVars, rowVars, writeVars, runVars
  <1>10. ASSUME NEW p \in Proc, Finish(p)
       PROVE  TypeOK'
    BY <1>10 DEF Finish, Goto, SetStatus, FinalStatus, graphVars, rowVars,
                 writeVars, runVars
  <1>11. ASSUME NEW p \in Proc, Deadline(p)
       PROVE  TypeOK'
    BY <1>11 DEF Deadline, Goto, graphVars, rowVars, writeVars, runVars
  <1>12. ASSUME NEW p \in Proc, PausedByBilling(p)
       PROVE  TypeOK'
    BY <1>12 DEF PausedByBilling, Goto, SetStatus, Fault, graphVars, rowVars,
                 writeVars, runVars
  <1>13. ASSUME NEW p \in Proc, RunFails(p)
       PROVE  TypeOK'
    BY <1>13 DEF RunFails, Goto, SetStatus, GivesUp, Fault, graphVars,
                 rowVars, writeVars, runVars
  <1>14. ASSUME NEW p \in Proc, Restart(p)
       PROVE  TypeOK'
    BY <1>14 DEF Restart, Goto, graphVars, rowVars, writeVars, runVars
  <1>15. ASSUME NEW p \in Proc, MigrateStrip(p)
       PROVE  TypeOK'
    <2>1. vector' \in [Record -> Vector \cup {Absent}]
      BY <1>15 DEF MigrateStrip, Strip, graphVars
    <2>2. faults' \in 0..MaxFaults
      BY <1>15 DEF MigrateStrip, Fault
    <2> QED
      BY <1>15, <2>1, <2>2 DEF MigrateStrip, Strip, Fault, graphVars, rowVars,
                               writeVars, runVars
  <1>16. ASSUME NEW p \in Proc, MigrateRekey(p)
       PROVE  TypeOK'
    BY <1>16 DEF MigrateRekey, SetStatus, Fault, graphVars, rowVars, writeVars,
                 runVars
  <1>17. ASSUME DeleteIndex
       PROVE  TypeOK'
    BY <1>17 DEF DeleteIndex, graphVars, rowVars, writeVars, runVars
  <1>18. ASSUME CleanUpDeletedIndex
       PROVE  TypeOK'
    BY <1>18 DEF CleanUpDeletedIndex, Strip, Fault, graphVars, rowVars,
                 writeVars, runVars
  <1>19. CASE UNCHANGED vars
    BY <1>19 DEF vars, graphVars, rowVars, writeVars, runVars
  <1> QED
    BY <1>1, <1>2, <1>3, <1>4, <1>5, <1>6, <1>7, <1>8, <1>9, <1>10, <1>11,
       <1>12, <1>13, <1>14, <1>15, <1>16, <1>17, <1>18, <1>19
    DEF Next, RunStep

(* The variables always have their types.                                   *)
THEOREM TypeCorrect == Spec => []TypeOK
  <1>1. ASSUME Init PROVE TypeOK
    <2> USE <1>1, NamesAssumption, BoundsAssumption DEF Init
    <2>1. request \in [Writer -> Request]
      BY DEF Request
    <2>2. clean \in [Proc -> BOOLEAN]
      BY Zenon
    <2>3. modelKey \in Model
      OBVIOUS
    <2> QED
      BY <2>1, <2>2, <2>3 DEF TypeOK, Author, Status, MAX_CONSECUTIVE_BACKFILL_FAILURES
  <1> QED
    BY <1>1, TypeStep, PTL DEF Spec

-----------------------------------------------------------------------------
(* Without append upserts, a relation is as old as the value it stands for, *)
(* so a batch that finds its relation again finds the value it has read.    *)
RelationInv ==
  /\ \A w \in Writer : request[w].kind # "append"
  /\ relation = value
  /\ \A p \in Proc : \A x \in batch[p] :
       /\ x.relation = x.value
       /\ \A y \in batch[p] : x.record = y.record => x = y

(* Rewriting writes replace value and relation together.                    *)
LEMMA RelationStep ==
  TypeOK /\ RelationInv /\ [Next]_vars => RelationInv'
  <1> SUFFICES ASSUME TypeOK, RelationInv, [Next]_vars
               PROVE  RelationInv'
    OBVIOUS
  <1> USE NamesAssumption DEF RelationInv, TypeOK, Kind, Author, Vector,
                              Read, Request, Status,
                              MAX_CONSECUTIVE_BACKFILL_FAILURES
  <1>1. ASSUME NEW w \in Writer, Execute(w)
       PROVE  RelationInv'
    BY <1>1 DEF Execute, graphVars, rowVars, writeVars, runVars
  <1>2. ASSUME NEW w \in Writer, MarkPending(w)
       PROVE  RelationInv'
    BY <1>2 DEF MarkPending, SetStatus, Fault, graphVars, rowVars, writeVars,
                runVars
  <1>3. ASSUME NEW w \in Writer, Commit(w)
       PROVE  RelationInv'
    BY <1>3 DEF Commit, Kept, Rewrites, graphVars, rowVars, writeVars,
                runVars
  <1>4. ASSUME NEW w \in Writer, Abort(w)
       PROVE  RelationInv'
    BY <1>4 DEF Abort, graphVars, rowVars, writeVars, runVars
  <1>5. ASSUME NEW p \in Proc, RunBackfill(p)
       PROVE  RelationInv'
    BY <1>5 DEF RunBackfill, Goto, Finds, graphVars, rowVars, writeVars,
                runVars
  <1>6. ASSUME NEW p \in Proc, BackfillIndex(p)
       PROVE  RelationInv'
    BY <1>6 DEF BackfillIndex, Goto, SetStatus, Fault, graphVars, rowVars,
                writeVars, runVars
  <1>7. ASSUME NEW p \in Proc, FetchBatch(p)
       PROVE  RelationInv'
    BY <1>7 DEF FetchBatch, Goto, graphVars, rowVars, writeVars, runVars
  <1>8. ASSUME NEW p \in Proc, WriteVectors(p)
       PROVE  RelationInv'
    BY <1>8 DEF WriteVectors, Goto, Still, Fault, graphVars, rowVars,
                writeVars, runVars
  <1>9. ASSUME NEW p \in Proc, CheckRemaining(p)
       PROVE  RelationInv'
    BY <1>9 DEF CheckRemaining, Goto, graphVars, rowVars, writeVars, runVars
  <1>10. ASSUME NEW p \in Proc, Finish(p)
       PROVE  RelationInv'
    BY <1>10 DEF Finish, Goto, SetStatus, FinalStatus, graphVars, rowVars,
                 writeVars, runVars
  <1>11. ASSUME NEW p \in Proc, Deadline(p)
       PROVE  RelationInv'
    BY <1>11 DEF Deadline, Goto, graphVars, rowVars, writeVars, runVars
  <1>12. ASSUME NEW p \in Proc, PausedByBilling(p)
       PROVE  RelationInv'
    BY <1>12 DEF PausedByBilling, Goto, SetStatus, Fault, graphVars, rowVars,
                 writeVars, runVars
  <1>13. ASSUME NEW p \in Proc, RunFails(p)
       PROVE  RelationInv'
    BY <1>13 DEF RunFails, Goto, SetStatus, GivesUp, Fault, graphVars,
                 rowVars, writeVars, runVars
  <1>14. ASSUME NEW p \in Proc, Restart(p)
       PROVE  RelationInv'
    BY <1>14 DEF Restart, Goto, graphVars, rowVars, writeVars, runVars
  <1>15. ASSUME NEW p \in Proc, MigrateStrip(p)
       PROVE  RelationInv'
    BY <1>15 DEF MigrateStrip, Strip, Fault, graphVars, rowVars, writeVars,
                 runVars
  <1>16. ASSUME NEW p \in Proc, MigrateRekey(p)
       PROVE  RelationInv'
    BY <1>16 DEF MigrateRekey, SetStatus, Fault, graphVars, rowVars, writeVars,
                 runVars
  <1>17. ASSUME DeleteIndex
       PROVE  RelationInv'
    BY <1>17 DEF DeleteIndex, graphVars, rowVars, writeVars, runVars
  <1>18. ASSUME CleanUpDeletedIndex
       PROVE  RelationInv'
    BY <1>18 DEF CleanUpDeletedIndex, Strip, Fault, graphVars, rowVars,
                 writeVars, runVars
  <1>19. CASE UNCHANGED vars
    BY <1>19 DEF vars, graphVars, rowVars, writeVars, runVars
  <1> QED
    BY <1>1, <1>2, <1>3, <1>4, <1>5, <1>6, <1>7, <1>8, <1>9, <1>10, <1>11,
       <1>12, <1>13, <1>14, <1>15, <1>16, <1>17, <1>18, <1>19
    DEF Next, RunStep

(* A vector only reaches the relation that was read with its value.         *)
LEMMA ValueStep ==
  TypeOK /\ RelationInv /\ VectorsMatchValues /\ [Next]_vars => VectorsMatchValues'
  <1> SUFFICES ASSUME TypeOK, RelationInv, VectorsMatchValues, [Next]_vars
               PROVE  VectorsMatchValues'
    OBVIOUS
  <1> USE NamesAssumption DEF RelationInv, VectorsMatchValues, TypeOK, Kind,
                              Author, Vector, Read, Request, Status,
                              MAX_CONSECUTIVE_BACKFILL_FAILURES
  <1>1. ASSUME NEW w \in Writer, Execute(w)
       PROVE  VectorsMatchValues'
    BY <1>1 DEF Execute, graphVars, rowVars, writeVars, runVars
  <1>2. ASSUME NEW w \in Writer, MarkPending(w)
       PROVE  VectorsMatchValues'
    BY <1>2 DEF MarkPending, SetStatus, Fault, graphVars, rowVars, writeVars,
                runVars
  <1>3. ASSUME NEW w \in Writer, Commit(w)
       PROVE  VectorsMatchValues'
    BY <1>3 DEF Commit, Kept, Rewrites, graphVars, rowVars, writeVars,
                runVars
  <1>4. ASSUME NEW w \in Writer, Abort(w)
       PROVE  VectorsMatchValues'
    BY <1>4 DEF Abort, graphVars, rowVars, writeVars, runVars
  <1>5. ASSUME NEW p \in Proc, RunBackfill(p)
       PROVE  VectorsMatchValues'
    BY <1>5 DEF RunBackfill, Goto, Finds, graphVars, rowVars, writeVars,
                runVars
  <1>6. ASSUME NEW p \in Proc, BackfillIndex(p)
       PROVE  VectorsMatchValues'
    BY <1>6 DEF BackfillIndex, Goto, SetStatus, Fault, graphVars, rowVars,
                writeVars, runVars
  <1>7. ASSUME NEW p \in Proc, FetchBatch(p)
       PROVE  VectorsMatchValues'
    BY <1>7 DEF FetchBatch, Goto, graphVars, rowVars, writeVars, runVars
  <1>8. ASSUME NEW p \in Proc, WriteVectors(p)
       PROVE  VectorsMatchValues'
    BY <1>8 DEF WriteVectors, Goto, Still, Fault, graphVars, rowVars,
                writeVars, runVars
  <1>9. ASSUME NEW p \in Proc, CheckRemaining(p)
       PROVE  VectorsMatchValues'
    BY <1>9 DEF CheckRemaining, Goto, graphVars, rowVars, writeVars, runVars
  <1>10. ASSUME NEW p \in Proc, Finish(p)
       PROVE  VectorsMatchValues'
    BY <1>10 DEF Finish, Goto, SetStatus, FinalStatus, graphVars, rowVars,
                 writeVars, runVars
  <1>11. ASSUME NEW p \in Proc, Deadline(p)
       PROVE  VectorsMatchValues'
    BY <1>11 DEF Deadline, Goto, graphVars, rowVars, writeVars, runVars
  <1>12. ASSUME NEW p \in Proc, PausedByBilling(p)
       PROVE  VectorsMatchValues'
    BY <1>12 DEF PausedByBilling, Goto, SetStatus, Fault, graphVars, rowVars,
                 writeVars, runVars
  <1>13. ASSUME NEW p \in Proc, RunFails(p)
       PROVE  VectorsMatchValues'
    BY <1>13 DEF RunFails, Goto, SetStatus, GivesUp, Fault, graphVars,
                 rowVars, writeVars, runVars
  <1>14. ASSUME NEW p \in Proc, Restart(p)
       PROVE  VectorsMatchValues'
    BY <1>14 DEF Restart, Goto, graphVars, rowVars, writeVars, runVars
  <1>15. ASSUME NEW p \in Proc, MigrateStrip(p)
       PROVE  VectorsMatchValues'
    BY <1>15 DEF MigrateStrip, Strip, Fault, graphVars, rowVars, writeVars,
                 runVars
  <1>16. ASSUME NEW p \in Proc, MigrateRekey(p)
       PROVE  VectorsMatchValues'
    BY <1>16 DEF MigrateRekey, SetStatus, Fault, graphVars, rowVars, writeVars,
                 runVars
  <1>17. ASSUME DeleteIndex
       PROVE  VectorsMatchValues'
    BY <1>17 DEF DeleteIndex, graphVars, rowVars, writeVars, runVars
  <1>18. ASSUME CleanUpDeletedIndex
       PROVE  VectorsMatchValues'
    BY <1>18 DEF CleanUpDeletedIndex, Strip, Fault, graphVars, rowVars,
                 writeVars, runVars
  <1>19. CASE UNCHANGED vars
    BY <1>19 DEF vars, graphVars, rowVars, writeVars, runVars
  <1> QED
    BY <1>1, <1>2, <1>3, <1>4, <1>5, <1>6, <1>7, <1>8, <1>9, <1>10, <1>11,
       <1>12, <1>13, <1>14, <1>15, <1>16, <1>17, <1>18, <1>19
    DEF Next, RunStep

(* Vectors never embed an old value, for any interleaving of runs, writes   *)
(* and restarts, as long as records are not upserted with the append        *)
(* strategy, which keeps the relation and its vector.                       *)
THEOREM VectorsAreCurrent ==
  ASSUME "append" \notin Kinds
  PROVE  Spec => []VectorsMatchValues
  <1>1. ASSUME Init PROVE RelationInv /\ VectorsMatchValues
    BY <1>1 DEF Init, RelationInv, VectorsMatchValues
  <1> QED
    BY <1>1, RelationStep, ValueStep, TypeCorrect, PTL DEF Spec

-----------------------------------------------------------------------------
(* A single process runs only on an index of its own model, and migrates    *)
(* only an index of another.                                                *)
ModelInv ==
  status # "deleted" =>
    \A p \in Proc :
      /\ pc[p] # "idle" => modelKey = env[p]
      /\ migration[p] # "none" => modelKey # env[p]
      /\ migration[p] = "stripped" => \A r \in Record : vector[r] = Absent

(* Runs and migrations exclude each other.                                  *)
LEMMA ModelStep ==
  ASSUME NEW P, Proc = {P}
  PROVE  TypeOK /\ ModelInv /\ VectorsMatchModel /\ [Next]_vars =>
           ModelInv' /\ VectorsMatchModel'
  <1> SUFFICES ASSUME TypeOK, ModelInv, VectorsMatchModel, [Next]_vars
               PROVE  (ModelInv /\ VectorsMatchModel)'
    OBVIOUS
  <1> USE NamesAssumption DEF ModelInv, VectorsMatchModel, TypeOK, Kind,
                              Author, Vector, Read, Request, Status,
                              MAX_CONSECUTIVE_BACKFILL_FAILURES
  <1>1. ASSUME NEW w \in Writer, Execute(w)
       PROVE  (ModelInv /\ VectorsMatchModel)'
    BY <1>1 DEF Execute, graphVars, rowVars, writeVars, runVars
  <1>2. ASSUME NEW w \in Writer, MarkPending(w)
       PROVE  (ModelInv /\ VectorsMatchModel)'
    BY <1>2 DEF MarkPending, SetStatus, Fault, graphVars, rowVars, writeVars,
                runVars
  <1>3. ASSUME NEW w \in Writer, Commit(w)
       PROVE  (ModelInv /\ VectorsMatchModel)'
    BY <1>3 DEF Commit, Kept, Rewrites, graphVars, rowVars, writeVars,
                runVars
  <1>4. ASSUME NEW w \in Writer, Abort(w)
       PROVE  (ModelInv /\ VectorsMatchModel)'
    BY <1>4 DEF Abort, graphVars, rowVars, writeVars, runVars
  <1>5. ASSUME NEW p \in Proc, RunBackfill(p)
       PROVE  (ModelInv /\ VectorsMatchModel)'
    BY <1>5 DEF RunBackfill, Goto, Finds, graphVars, rowVars, writeVars,
                runVars
  <1>6. ASSUME NEW p \in Proc, BackfillIndex(p)
       PROVE  (ModelInv /\ VectorsMatchModel)'
    BY <1>6 DEF BackfillIndex, Goto, SetStatus, Fault, graphVars, rowVars,
                writeVars, runVars
  <1>7. ASSUME NEW p \in Proc, FetchBatch(p)
       PROVE  (ModelInv /\ VectorsMatchModel)'
    BY <1>7 DEF FetchBatch, Goto, graphVars, rowVars, writeVars, runVars
  <1>8. ASSUME NEW p \in Proc, WriteVectors(p)
       PROVE  (ModelInv /\ VectorsMatchModel)'
    BY <1>8 DEF WriteVectors, Goto, Still, Fault, graphVars, rowVars,
                writeVars, runVars
  <1>9. ASSUME NEW p \in Proc, CheckRemaining(p)
       PROVE  (ModelInv /\ VectorsMatchModel)'
    BY <1>9 DEF CheckRemaining, Goto, graphVars, rowVars, writeVars, runVars
  <1>10. ASSUME NEW p \in Proc, Finish(p)
       PROVE  (ModelInv /\ VectorsMatchModel)'
    BY <1>10 DEF Finish, Goto, SetStatus, FinalStatus, graphVars, rowVars,
                 writeVars, runVars
  <1>11. ASSUME NEW p \in Proc, Deadline(p)
       PROVE  (ModelInv /\ VectorsMatchModel)'
    BY <1>11 DEF Deadline, Goto, graphVars, rowVars, writeVars, runVars
  <1>12. ASSUME NEW p \in Proc, PausedByBilling(p)
       PROVE  (ModelInv /\ VectorsMatchModel)'
    BY <1>12 DEF PausedByBilling, Goto, SetStatus, Fault, graphVars, rowVars,
                 writeVars, runVars
  <1>13. ASSUME NEW p \in Proc, RunFails(p)
       PROVE  (ModelInv /\ VectorsMatchModel)'
    BY <1>13 DEF RunFails, Goto, SetStatus, GivesUp, Fault, graphVars,
                 rowVars, writeVars, runVars
  <1>14. ASSUME NEW p \in Proc, Restart(p)
       PROVE  (ModelInv /\ VectorsMatchModel)'
    BY <1>14 DEF Restart, Goto, graphVars, rowVars, writeVars, runVars
  <1>15. ASSUME NEW p \in Proc, MigrateStrip(p)
       PROVE  (ModelInv /\ VectorsMatchModel)'
    BY <1>15 DEF MigrateStrip, Strip, Fault, graphVars, rowVars, writeVars,
                 runVars
  <1>16. ASSUME NEW p \in Proc, MigrateRekey(p)
       PROVE  (ModelInv /\ VectorsMatchModel)'
    BY <1>16 DEF MigrateRekey, SetStatus, Fault, graphVars, rowVars, writeVars,
                 runVars
  <1>17. ASSUME DeleteIndex
       PROVE  (ModelInv /\ VectorsMatchModel)'
    BY <1>17 DEF DeleteIndex, graphVars, rowVars, writeVars, runVars
  <1>18. ASSUME CleanUpDeletedIndex
       PROVE  (ModelInv /\ VectorsMatchModel)'
    BY <1>18 DEF CleanUpDeletedIndex, Strip, Fault, graphVars, rowVars,
                 writeVars, runVars
  <1>19. CASE UNCHANGED vars
    BY <1>19 DEF vars, graphVars, rowVars, writeVars, runVars
  <1> QED
    BY <1>1, <1>2, <1>3, <1>4, <1>5, <1>6, <1>7, <1>8, <1>9, <1>10, <1>11,
       <1>12, <1>13, <1>14, <1>15, <1>16, <1>17, <1>18, <1>19
    DEF Next, RunStep

(* With a single process the vectors are always of the model of the index,  *)
(* through every restart with another model.                                *)
THEOREM OneProcessOneModel ==
  ASSUME NEW P, Proc = {P}
  PROVE  Spec => []VectorsMatchModel
  <1>1. ASSUME Init PROVE ModelInv /\ VectorsMatchModel
    BY <1>1 DEF Init, ModelInv, VectorsMatchModel
  <1> QED
    BY <1>1, ModelStep, TypeCorrect, PTL DEF Spec
=============================================================================
