-------------------------- MODULE EmbeddingBackfill --------------------------
(***************************************************************************)
(* One managed embedding index: its SQL row (status, model), the vectors on *)
(* the VALUE relations of the records it covers, the scheduler that embeds  *)
(* what is not indexed, the writes that mark the index pending, the         *)
(* migration to another model at boot, and the deletion of the index.       *)
(*                                                                         *)
(* Every server process runs its own scheduler. A step is what happens      *)
(* between two awaits: one SQL statement, one graph statement, one batch of *)
(* the embedding provider.                                                  *)
(***************************************************************************)
EXTENDS Naturals, FiniteSets

CONSTANTS
  Proc,         \* server processes
  Model,        \* values of RUSHDB_EMBEDDING_MODEL
  Record,       \* records that carry the indexed label and property
  Existing,     \* those that exist when the index is created
  Writer,       \* requests that write one record, each once
  Kinds,        \* what writers do: a subset of Kind
  Nobody,       \* writer of the values that exist when the index is created
  Absent,       \* no value, no relation, no vector
  BatchSize,    \* RUSHDB_EMBEDDING_BATCH_SIZE
  Deployed,     \* the models that processes may boot with
  Deletable,    \* whether the index may be deleted
  MaxFaults,    \* bound: rejected or partial calls of provider and databases
  MaxRestarts   \* bound: restarts of a process

Kind == {"create", "edit", "append", "import"}

(* Failed runs in a row before an index is parked.                          *)
MAX_CONSECUTIVE_BACKFILL_FAILURES == 3

ASSUME NamesAssumption ==
  /\ Existing \subseteq Record
  /\ Kinds \subseteq Kind
  /\ Deployed \subseteq Model
  /\ Nobody # Absent /\ Nobody \notin Writer /\ Absent \notin Writer
  /\ Absent \notin [of : Writer \cup {Nobody}, model : Model]

ASSUME BoundsAssumption ==
  /\ BatchSize \in Nat \ {0}
  /\ Deletable \in BOOLEAN
  /\ MaxFaults \in Nat
  /\ MaxRestarts \in Nat

VARIABLES
  value,     \* committed value of a record, named after its writer
  relation,  \* committed VALUE relation (elementId), named likewise
  vector,    \* vector on that relation: the value and the model it embeds
  status,    \* status of the index row, or deleted
  modelKey,  \* model of the index row
  request,   \* progress, kind and record of each writer
  mark,      \* its fire-and-forget markPendingForProperties
  env,       \* model that a process is configured with
  pc,        \* where the run of a process is
  batch,     \* relations a run has read, with the value it read
  skip,      \* offset of the next batch
  clean,     \* whether the closing count of a run was zero
  failures,  \* consecutiveFailures of a process
  migration, \* where the migration of a process is
  cleanUp,   \* where the cleanup of the deleted index is
  faults,
  restarts

graphVars == <<value, relation, vector>>
rowVars   == <<status, modelKey>>
writeVars == <<request, mark>>
runVars   == <<pc, batch, skip, clean, failures>>
vars == <<graphVars, rowVars, writeVars, env, runVars, migration, cleanUp, faults,
          restarts>>

Author  == Writer \cup {Nobody}
Vector  == [of : Author, model : Model]
Read    == [record : Record, relation : Author \cup {Absent}, value : Author]
Request == [state : {"idle", "executed", "committed", "aborted"},
            kind : Kind, record : Record]
Status  == {"pending", "indexing", "ready", "error", "deleted"}

TypeOK ==
  /\ value \in [Record -> Author \cup {Absent}]
  /\ relation \in [Record -> Author \cup {Absent}]
  /\ vector \in [Record -> Vector \cup {Absent}]
  /\ status \in Status
  /\ modelKey \in Model
  /\ request \in [Writer -> Request]
  /\ mark \in [Writer -> {"none", "sent", "landed"}]
  /\ env \in [Proc -> Model]
  /\ pc \in [Proc -> {"idle", "found", "loop", "batch", "check", "finish"}]
  /\ batch \in [Proc -> SUBSET Read]
  /\ skip \in [Proc -> Nat]
  /\ clean \in [Proc -> BOOLEAN]
  /\ failures \in [Proc -> 0..(MAX_CONSECUTIVE_BACKFILL_FAILURES - 1)]
  /\ migration \in [Proc -> {"none", "stale", "stripped"}]
  /\ cleanUp \in {"none", "due", "done"}
  /\ faults \in 0..MaxFaults
  /\ restarts \in 0..MaxRestarts

(* The index has just been created; no process runs the scheduler yet.      *)
Init ==
  /\ value = [r \in Record |-> IF r \in Existing THEN Nobody ELSE Absent]
  /\ relation = value
  /\ vector = [r \in Record |-> Absent]
  /\ status = "pending"
  /\ modelKey \in Deployed
  /\ request \in [Writer -> {[state |-> "idle", kind |-> k, record |-> r] :
                               k \in Kinds, r \in Record}]
  /\ mark = [w \in Writer |-> "none"]
  /\ env = [p \in Proc |-> modelKey]
  /\ pc = [p \in Proc |-> "idle"]
  /\ batch = [p \in Proc |-> {}]
  /\ skip = [p \in Proc |-> 0]
  /\ clean = [p \in Proc |-> FALSE]
  /\ failures = [p \in Proc |-> 0]
  /\ migration = [p \in Proc |-> "none"]
  /\ cleanUp = "none"
  /\ faults = 0
  /\ restarts = 0

-----------------------------------------------------------------------------
(* The row                                                                  *)

(* updateStatus and markPendingForProperties: an UPDATE by id or by         *)
(* property whatever the status is, of no row once the index is deleted.    *)
SetStatus(s) == status' = IF status = "deleted" THEN "deleted" ELSE s

Fault == faults < MaxFaults /\ faults' = faults + 1

-----------------------------------------------------------------------------
(* Requests that write records                                              *)

(* The values of the record are replaced, relations included.               *)
Rewrites(w) == request[w].kind # "append"

(* Records whose relation an open transaction has deleted, hence locked.    *)
Locked == {request[w].record : w \in {v \in Writer : request[v].state = "executed"
                                                     /\ Rewrites(v)}}

(* The statement runs in the transaction of the request, and the index is   *)
(* marked in the background, before the transaction commits. An import      *)
(* marks nothing.                                                           *)
Execute(w) ==
  LET r == request[w].record IN
  /\ request[w].state = "idle"
  /\ value[r] = Absent <=> request[w].kind \in {"create", "import"}
  /\ \A v \in Writer : request[v].state = "executed" => request[v].record # r
  /\ request' = [request EXCEPT ![w].state = "executed"]
  /\ mark' = [mark EXCEPT ![w] = IF request[w].kind = "import" THEN "none" ELSE "sent"]
  /\ UNCHANGED <<graphVars, rowVars, env, runVars, migration, cleanUp, faults, restarts>>

(* markPendingForProperties; its rejection is swallowed.                    *)
MarkPending(w) ==
  /\ mark[w] = "sent"
  /\ mark' = [mark EXCEPT ![w] = "landed"]
  /\ \/ SetStatus("pending") /\ UNCHANGED faults
     \/ Fault /\ UNCHANGED status
  /\ UNCHANGED <<graphVars, modelKey, request, env, runVars, migration, cleanUp, restarts>>

(* The VALUE relation survives the write, with its vector.                  *)
Kept(w) == ~Rewrites(w)

Commit(w) ==
  LET r == request[w].record IN
  /\ request[w].state = "executed"
  /\ request' = [request EXCEPT ![w].state = "committed"]
  /\ value' = [value EXCEPT ![r] = w]
  /\ relation' = [relation EXCEPT ![r] = IF Kept(w) THEN @ ELSE w]
  /\ vector' = [vector EXCEPT ![r] = IF Kept(w) THEN @ ELSE Absent]
  /\ UNCHANGED <<rowVars, mark, env, runVars, migration, cleanUp, faults, restarts>>

Abort(w) ==
  /\ request[w].state = "executed"
  /\ request' = [request EXCEPT ![w].state = "aborted"]
  /\ UNCHANGED <<graphVars, rowVars, mark, env, runVars, migration, cleanUp, faults,
                 restarts>>

-----------------------------------------------------------------------------
(* EmbeddingBackfillScheduler                                               *)

Goto(p, where) == pc' = [pc EXCEPT ![p] = where]

(* getUnindexedRelationsQuery, getUnindexedCountQuery                       *)
Unindexed == {r \in Record : value[r] # Absent /\ vector[r] = Absent}

(* Mutants: only pending indexes are found; those of any model are.         *)
FindsPendingOnly(p) == status = "pending" /\ modelKey = env[p]
FindsAnyModel(p) == status \in {"pending", "indexing"}

(* findPending and the filter on the configured model.                      *)
Finds(p) == status \in {"pending", "indexing"} /\ modelKey = env[p]

(* A tick of the cron job while no run of the process is going on.          *)
RunBackfill(p) ==
  /\ pc[p] = "idle"
  /\ Finds(p)
  /\ Goto(p, "found")
  /\ UNCHANGED <<graphVars, rowVars, writeVars, env, batch, skip, clean, failures,
                 migration, cleanUp, faults, restarts>>

(* backfillIndex up to its loop: the update of the row or the read of the    *)
(* project may reject, and with it the run, outside of the try block.       *)
BackfillIndex(p) ==
  /\ pc[p] = "found"
  /\ \/ SetStatus("indexing") /\ Goto(p, "loop") /\ UNCHANGED faults
     \/ (SetStatus("indexing") \/ UNCHANGED status) /\ Goto(p, "idle") /\ Fault
  /\ UNCHANGED <<graphVars, modelKey, writeVars, env, batch, skip, clean, failures,
                 migration, cleanUp, restarts>>

(* SKIP skip LIMIT batchSize of the relations without a vector, in no       *)
(* particular order.                                                        *)
Fetches(p, R) ==
  LET left == Cardinality(Unindexed) - skip[p] IN
  Cardinality(R) = IF skip[p] >= Cardinality(Unindexed) THEN 0
                   ELSE IF left > BatchSize THEN BatchSize ELSE left

FetchBatch(p) ==
  /\ pc[p] = "loop"
  /\ \E R \in SUBSET Unindexed :
       /\ Fetches(p, R)
       /\ batch' = [batch EXCEPT ![p] =
                      {[record |-> r, relation |-> relation[r], value |-> value[r]] : r \in R}]
       /\ Goto(p, IF R = {} THEN "check" ELSE "batch")
  /\ UNCHANGED <<graphVars, rowVars, writeVars, env, skip, clean, failures, migration,
                 cleanUp, faults, restarts>>

(* The run is over its time budget before another batch.                    *)
Deadline(p) ==
  /\ pc[p] = "loop"
  /\ skip[p] > 0
  /\ Goto(p, "check")
  /\ UNCHANGED <<graphVars, rowVars, writeVars, env, batch, skip, clean, failures,
                 migration, cleanUp, faults, restarts>>

(* The billing policy refuses the batch.                                    *)
PausedByBilling(p) ==
  /\ pc[p] = "batch"
  /\ Fault
  /\ SetStatus("pending")
  /\ Goto(p, "idle")
  /\ batch' = [batch EXCEPT ![p] = {}]
  /\ skip' = [skip EXCEPT ![p] = 0]
  /\ UNCHANGED <<graphVars, modelKey, writeVars, env, clean, failures, migration,
                 cleanUp, restarts>>

(* Mutant: the relation is looked up by its record.                         *)
StillAny(x) == relation[x.record] # Absent

(* The relation that was read still exists (elementId).                     *)
Still(x) == relation[x.record] = x.relation

(* The provider embeds the texts that were read and the vectors are written *)
(* in one transaction, except those the provider left out.                  *)
WriteVectors(p) ==
  /\ pc[p] = "batch"
  /\ \A x \in batch[p] : x.record \notin Locked
  /\ \E W \in SUBSET batch[p] :
       /\ IF W = batch[p] THEN UNCHANGED faults ELSE Fault
       /\ vector' = [r \in Record |->
            IF \E x \in W : x.record = r /\ Still(x)
            THEN [of |-> (CHOOSE x \in W : x.record = r).value, model |-> env[p]]
            ELSE vector[r]]
  /\ IF Cardinality(batch[p]) < BatchSize
     THEN Goto(p, "check") /\ UNCHANGED skip
     ELSE Goto(p, "loop") /\ skip' = [skip EXCEPT ![p] = @ + BatchSize]
  /\ batch' = [batch EXCEPT ![p] = {}]
  /\ UNCHANGED <<value, relation, rowVars, writeVars, env, clean, failures, migration,
                 cleanUp, restarts>>

CheckRemaining(p) ==
  /\ pc[p] = "check"
  /\ clean' = [clean EXCEPT ![p] = Unindexed = {}]
  /\ skip' = [skip EXCEPT ![p] = 0]
  /\ Goto(p, "finish")
  /\ UNCHANGED <<graphVars, rowVars, writeVars, env, batch, failures, migration, cleanUp,
                 faults, restarts>>

(* Mutant: a run that is over leaves a ready index.                         *)
FinalStatusReady(p) == "ready"

FinalStatus(p) == IF clean[p] THEN "ready" ELSE "pending"

Finish(p) ==
  /\ pc[p] = "finish"
  /\ SetStatus(FinalStatus(p))
  /\ clean' = [clean EXCEPT ![p] = FALSE]
  /\ failures' = [failures EXCEPT ![p] = 0]
  /\ Goto(p, "idle")
  /\ UNCHANGED <<graphVars, modelKey, writeVars, env, batch, skip, migration, cleanUp,
                 faults, restarts>>

(* Mutant: one attempt too many.                                            *)
GivesUpLate(p) == failures[p] + 1 > MAX_CONSECUTIVE_BACKFILL_FAILURES

GivesUp(p) == failures[p] + 1 >= MAX_CONSECUTIVE_BACKFILL_FAILURES

(* A statement or the provider rejects. The update of the row that follows   *)
(* is taken to succeed.                                                     *)
RunFails(p) ==
  /\ pc[p] \in {"loop", "batch", "check", "finish"}
  /\ Fault
  /\ SetStatus(IF GivesUp(p) THEN "error" ELSE "pending")
  /\ failures' = [failures EXCEPT ![p] = IF GivesUp(p) THEN 0 ELSE @ + 1]
  /\ Goto(p, "idle")
  /\ batch' = [batch EXCEPT ![p] = {}]
  /\ skip' = [skip EXCEPT ![p] = 0]
  /\ clean' = [clean EXCEPT ![p] = FALSE]
  /\ UNCHANGED <<graphVars, modelKey, writeVars, env, migration, cleanUp, restarts>>

-----------------------------------------------------------------------------
(* EmbeddingModelMigrationService and restarts                              *)

(* A process restarts, possibly with another model, and looks for indexes   *)
(* of another model than its own. The cleanup of a deleted index is lost if *)
(* it was that of this process.                                             *)
Restart(p) ==
  /\ restarts < MaxRestarts
  /\ restarts' = restarts + 1
  /\ \E m \in Deployed :
       /\ env' = [env EXCEPT ![p] = m]
       /\ migration' = [migration EXCEPT ![p] =
            IF status # "deleted" /\ modelKey # m THEN "stale" ELSE "none"]
  /\ Goto(p, "idle")
  /\ batch' = [batch EXCEPT ![p] = {}]
  /\ skip' = [skip EXCEPT ![p] = 0]
  /\ clean' = [clean EXCEPT ![p] = FALSE]
  /\ failures' = [failures EXCEPT ![p] = 0]
  /\ cleanUp' \in {cleanUp, IF cleanUp = "due" THEN "done" ELSE cleanUp}
  /\ UNCHANGED <<graphVars, rowVars, writeVars, faults>>

(* getStripEmbeddingsQuery                                                  *)
Strip ==
  /\ Locked = {}
  /\ vector' = [r \in Record |-> Absent]
  /\ UNCHANGED <<value, relation>>

(* The provider may fail the probe; then the next boot tries again.         *)
MigrateStrip(p) ==
  /\ migration[p] = "stale"
  /\ \/ Strip /\ migration' = [migration EXCEPT ![p] = "stripped"] /\ UNCHANGED faults
     \/ Fault /\ migration' = [migration EXCEPT ![p] = "none"] /\ UNCHANGED graphVars
  /\ UNCHANGED <<rowVars, writeVars, env, runVars, cleanUp, restarts>>

(* If the update rejects, the row keeps its model until another boot.       *)
MigrateRekey(p) ==
  /\ migration[p] = "stripped"
  /\ migration' = [migration EXCEPT ![p] = "none"]
  /\ \/ /\ SetStatus("pending")
        /\ modelKey' = IF status = "deleted" THEN modelKey ELSE env[p]
        /\ UNCHANGED faults
     \/ Fault /\ UNCHANGED rowVars
  /\ UNCHANGED <<graphVars, writeVars, env, runVars, cleanUp, restarts>>

-----------------------------------------------------------------------------
(* deleteIndex                                                              *)

DeleteIndex ==
  /\ Deletable
  /\ status # "deleted"
  /\ status' = "deleted"
  /\ cleanUp' = "due"
  /\ UNCHANGED <<graphVars, modelKey, writeVars, env, runVars, migration, faults, restarts>>

(* In the background; a rejected strip is logged and not repeated.          *)
CleanUpDeletedIndex ==
  /\ cleanUp = "due"
  /\ cleanUp' = "done"
  /\ \/ Strip /\ UNCHANGED faults
     \/ Fault /\ UNCHANGED graphVars
  /\ UNCHANGED <<rowVars, writeVars, env, runVars, migration, restarts>>

-----------------------------------------------------------------------------

RunStep(p) ==
  \/ RunBackfill(p) \/ BackfillIndex(p) \/ FetchBatch(p) \/ WriteVectors(p)
  \/ CheckRemaining(p) \/ Finish(p)

Next ==
  \/ \E w \in Writer : Execute(w) \/ MarkPending(w) \/ Commit(w) \/ Abort(w)
  \/ \E p \in Proc :
       \/ RunStep(p)
       \/ Deadline(p) \/ PausedByBilling(p) \/ RunFails(p)
       \/ Restart(p) \/ MigrateStrip(p) \/ MigrateRekey(p)
  \/ DeleteIndex
  \/ CleanUpDeletedIndex

(* The cron job ticks, the databases and the provider answer, requests end. *)
Fairness ==
  /\ \A p \in Proc : WF_vars(RunStep(p)) /\ WF_vars(MigrateStrip(p) \/ MigrateRekey(p))
  /\ \A w \in Writer : WF_vars(MarkPending(w)) /\ WF_vars(Commit(w) \/ Abort(w))
  /\ WF_vars(CleanUpDeletedIndex)

Spec == Init /\ [][Next]_vars /\ Fairness

-----------------------------------------------------------------------------
(* Properties                                                               *)

(* A stored vector embeds the value the record has, never an earlier one,   *)
(* although a run reads a value long before it writes its vector: a write   *)
(* that replaces the relations of the record makes the vector go nowhere.   *)
VectorsMatchValues ==
  \A r \in Record : vector[r] # Absent => vector[r].of = value[r]

(* "mixing vectors from two models in one index silently corrupts           *)
(* similarity scores": stored vectors are of the model of the index row,    *)
(* also while a migration is under way.                                     *)
VectorsMatchModel ==
  \A r \in Record :
    status # "deleted" /\ vector[r] # Absent => vector[r].model = modelKey

(* Every value that is there when the index is created, and is not written  *)
(* later, gets its vector, whatever the batches skip, whichever runs fail   *)
(* or are cut off, unless the index ends up in error.                       *)
ExistingValuesEmbedded ==
  <>[](\/ status \in {"error", "deleted"}
       \/ \A r \in Record : value[r] = Nobody => vector[r] # Absent)

(* An index that awaits its backfill does not stay so: also not after a     *)
(* restart in the middle of a run.                                          *)
PendingIsWorkedOff ==
  status \in {"pending", "indexing"} ~> status \in {"ready", "error", "deleted"}
=============================================================================
