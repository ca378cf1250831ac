-------------------------- MODULE UserTransactions --------------------------
(***************************************************************************)
(* User-defined transactions of the RushDB API: POST /tx opens a Neo4j      *)
(* transaction that later requests join with the x-transaction-id header,   *)
(* and that POST /tx/:id/commit or /rollback finalizes.                     *)
(*                                                                         *)
(* The module composes the transaction service (its map, the status of      *)
(* every entry, the TTL timer), the requests that use a transaction (the    *)
(* attaching middleware, the exception filter, the post-commit hooks that   *)
(* run the side effects), and, as the environment, the transaction object   *)
(* of the neo4j driver and the database, which may abort a transaction at   *)
(* any time (its time budget, a deadlock, a lost connection).               *)
(*                                                                         *)
(* A step is what the event loop runs between two awaits.                   *)
(***************************************************************************)
EXTENDS Naturals, FiniteSets

CONSTANTS
  Tx,              \* ids of transactions (uuidv7, never used twice)
  NoTx,            \* stands for the transaction of a request yet to come
  Req,             \* HTTP requests, each runs once
  MaxDisconnects,  \* bound: clients that close the connection before the answer
  MaxFaults,       \* bound: session.close() calls and recounts that reject
  MaxCrashes       \* bound: restarts of the server process

ASSUME NoTxAssumption == NoTx \notin Tx

ASSUME BoundsAssumption ==
  /\ MaxDisconnects \in Nat
  /\ MaxFaults \in Nat
  /\ MaxCrashes \in Nat

VARIABLES
  transactions,  \* ids held by the map of TransactionService
  status,        \* status field of the entry
  timer,         \* TTL timer of the entry
  driver,        \* state of the neo4j-driver Transaction object
  db,            \* fate of the transaction in the database
  writes,        \* requests whose statements the database executed in it
  pc,            \* where a request is
  op,            \* what a request does
  target,        \* the transaction a request names
  reply,         \* the answer of a request
  gone,          \* requests whose client closed the connection
  cut,           \* requests a restart of the process cut off
  recounted,     \* transactions whose committed data side effects have seen
  lapsed,        \* requests whose hooks ran a recount that was rejected
  faults,        \* rejections so far
  crashes        \* restarts so far

txVars     == <<transactions, status, timer, driver, db, writes>>
reqVars    == <<pc, op, target, reply, gone, cut>>
effectVars == <<recounted, lapsed>>
vars       == <<txVars, reqVars, effectVars, faults, crashes>>

Status  == {"none", "open", "committing", "rolling_back", "expired"}
Timer   == {"unset", "armed", "fired"}
Driver  == {"none", "active", "committed", "rolled_back", "failed"}
DB      == {"none", "open", "committed", "aborted"}
PC      == {"idle", "attached", "ran", "failing", "commit_sent",
            "rollback_sent", "clean", "closing", "hooks", "done"}
Op      == {"none", "write", "commit", "rollback"}
Reply   == {"none", "ok", "not_found", "refused", "committed",
            "rolled_back", "error"}

TypeOK ==
  /\ transactions \in SUBSET Tx
  /\ status \in [Tx -> Status]
  /\ timer \in [Tx -> Timer]
  /\ driver \in [Tx -> Driver]
  /\ db \in [Tx -> DB]
  /\ writes \in [Tx -> SUBSET Req]
  /\ pc \in [Req -> PC]
  /\ op \in [Req -> Op]
  /\ target \in [Req -> Tx \cup {NoTx}]
  /\ reply \in [Req -> Reply]
  /\ gone \in SUBSET Req
  /\ cut \in SUBSET Req
  /\ recounted \in SUBSET Tx
  /\ lapsed \in SUBSET Req
  /\ faults \in 0..MaxFaults
  /\ crashes \in 0..MaxCrashes

Init ==
  /\ transactions = {}
  /\ status = [t \in Tx |-> "none"]
  /\ timer = [t \in Tx |-> "unset"]
  /\ driver = [t \in Tx |-> "none"]
  /\ db = [t \in Tx |-> "none"]
  /\ writes = [t \in Tx |-> {}]
  /\ pc = [r \in Req |-> "idle"]
  /\ op = [r \in Req |-> "none"]
  /\ target = [r \in Req |-> NoTx]
  /\ reply = [r \in Req |-> "none"]
  /\ gone = {}
  /\ cut = {}
  /\ recounted = {}
  /\ lapsed = {}
  /\ faults = 0
  /\ crashes = 0

Fault == faults < MaxFaults /\ faults' = faults + 1

-----------------------------------------------------------------------------
(* The driver: commit() and rollback() change the state of the object       *)
(* synchronously, before the answer of the database; both, and run(),       *)
(* reject on an object that is not active.                                  *)

IsOpen(t) == driver[t] = "active"

(* The route of a request that named transaction t.                         *)
Route(r, o, t) ==
  /\ pc[r] = "idle"
  /\ op' = [op EXCEPT ![r] = o]
  /\ target' = [target EXCEPT ![r] = t]

(* Mutant: POST /commit registers no hook.                                  *)
AnswerWithoutCommitHook(r, o, message) ==
  /\ reply' = [reply EXCEPT ![r] = IF o = "write" /\ message # "ok"
                                    THEN "error" ELSE message]
  /\ pc' = [pc EXCEPT ![r] = IF message = "ok" /\ r \notin gone
                              THEN "hooks" ELSE "done"]

(* The handler of r is over: the answer is computed. A write that fails     *)
(* answers an error whatever the rollback of its transaction returned.      *)
(* Write routes and POST /commit registered a post-commit hook, drained     *)
(* only when the client is still there (doCleanup(false) ran otherwise).    *)
Answer(r, o, message) ==
  /\ reply' = [reply EXCEPT ![r] = IF o = "write" /\ message # "ok"
                                    THEN "error" ELSE message]
  /\ pc' = [pc EXCEPT ![r] = IF message \in {"ok", "committed"} /\ r \notin gone
                              THEN "hooks" ELSE "done"]

-----------------------------------------------------------------------------
(* TransactionService                                                       *)

CreateTransaction(t) ==
  /\ driver[t] = "none"
  /\ transactions' = transactions \cup {t}
  /\ status' = [status EXCEPT ![t] = "open"]
  /\ timer' = [timer EXCEPT ![t] = "armed"]
  /\ driver' = [driver EXCEPT ![t] = "active"]
  /\ db' = [db EXCEPT ![t] = "open"]
  /\ UNCHANGED <<writes, reqVars, effectVars, faults, crashes>>

(* commitTransaction up to its first await. An id that is not in the map is *)
(* a TypeError on tx.status; the status of a known one is not looked at.    *)
CommitTransaction(r, t) ==
  /\ Route(r, "commit", t)
  /\ \/ /\ t \notin transactions
        /\ Answer(r, "commit", "error")
        /\ UNCHANGED <<status, driver>>
     \/ /\ t \in transactions
        /\ status' = [status EXCEPT ![t] = "committing"]
        /\ driver' = [driver EXCEPT ![t] = IF IsOpen(t) THEN "committed" ELSE @]
        /\ pc' = [pc EXCEPT ![r] = IF IsOpen(t) THEN "commit_sent" ELSE "clean"]
        /\ UNCHANGED reply
  /\ UNCHANGED <<transactions, timer, db, writes, gone, cut, effectVars, faults, crashes>>

(* Mutant: a rejected commit is never caught.                               *)
CommitReturnsUncaught(r) ==
  LET t == target[r] IN
  /\ pc[r] = "commit_sent"
  /\ db[t] = "open"
  /\ db' = [db EXCEPT ![t] = "committed"]
  /\ pc' = [pc EXCEPT ![r] = "clean"]
  /\ UNCHANGED <<transactions, status, timer, driver, writes, op, target, reply,
                 gone, cut, effectVars, faults, crashes>>

(* The database answers the commit. A rejection is logged and swallowed.    *)
CommitReturns(r) ==
  LET t == target[r] IN
  /\ pc[r] = "commit_sent"
  /\ db' = [db EXCEPT ![t] = IF @ = "open" THEN "committed" ELSE @]
  /\ pc' = [pc EXCEPT ![r] = "clean"]
  /\ UNCHANGED <<transactions, status, timer, driver, writes, op, target, reply,
                 gone, cut, effectVars, faults, crashes>>

(* Mutant: neither the status of the entry nor the driver is asked.         *)
RollbackUnguarded(r, o, t) ==
  \/ /\ t \notin transactions
     /\ Answer(r, o, "not_found")
     /\ UNCHANGED <<status, driver>>
  \/ /\ t \in transactions
     /\ status' = [status EXCEPT ![t] = "rolling_back"]
     /\ driver' = [driver EXCEPT ![t] = IF IsOpen(t) THEN "rolled_back" ELSE @]
     /\ pc' = [pc EXCEPT ![r] = "rollback_sent"]
     /\ UNCHANGED reply

(* rollbackTransaction up to its first await, called by a route or by the   *)
(* exception filter for request r.                                          *)
RollbackTransaction(r, o, t) ==
  \/ /\ t \notin transactions
     /\ Answer(r, o, "not_found")
     /\ UNCHANGED <<status, driver>>
  \/ /\ t \in transactions
     /\ status[t] # "open"
     /\ Answer(r, o, "refused")
     /\ UNCHANGED <<status, driver>>
  \/ /\ t \in transactions
     /\ status[t] = "open"
     /\ status' = [status EXCEPT ![t] = "rolling_back"]
     /\ driver' = [driver EXCEPT ![t] = IF IsOpen(t) THEN "rolled_back" ELSE @]
     /\ pc' = [pc EXCEPT ![r] = IF IsOpen(t) THEN "rollback_sent" ELSE "clean"]
     /\ UNCHANGED reply

PostRollback(r, t) ==
  /\ Route(r, "rollback", t)
  /\ RollbackTransaction(r, "rollback", t)
  /\ UNCHANGED <<transactions, timer, db, writes, gone, cut, effectVars, faults, crashes>>

RollbackReturns(r) ==
  LET t == target[r] IN
  /\ pc[r] = "rollback_sent"
  /\ db' = [db EXCEPT ![t] = IF @ = "open" THEN "aborted" ELSE @]
  /\ pc' = [pc EXCEPT ![r] = "clean"]
  /\ UNCHANGED <<transactions, status, timer, driver, writes, op, target, reply,
                 gone, cut, effectVars, faults, crashes>>

(* What commitTransaction and rollbackTransaction return once clean is over.*)
Outcome(r) == IF op[r] = "commit" THEN "committed" ELSE "rolled_back"

(* clean: nothing to do when another caller removed the entry; otherwise    *)
(* transaction.close(), which rolls an open transaction back, and then      *)
(* session.close() are awaited.                                             *)
Clean(r) ==
  LET t == target[r] IN
  /\ pc[r] = "clean"
  /\ \/ /\ t \notin transactions
        /\ Answer(r, op[r], Outcome(r))
        /\ UNCHANGED <<driver, db>>
     \/ /\ t \in transactions
        /\ driver' = [driver EXCEPT ![t] = IF IsOpen(t) THEN "rolled_back" ELSE @]
        /\ db' = [db EXCEPT ![t] = IF IsOpen(t) /\ @ = "open" THEN "aborted" ELSE @]
        /\ pc' = [pc EXCEPT ![r] = "closing"]
        /\ UNCHANGED reply
  /\ UNCHANGED <<transactions, status, timer, writes, op, target, gone, cut, effectVars,
                 faults, crashes>>

(* Mutant: the entry stays in the map.                                      *)
CleanKeepsEntry(r) ==
  /\ pc[r] = "closing"
  /\ Answer(r, op[r], Outcome(r))
  /\ UNCHANGED <<txVars, op, target, gone, cut, effectVars, faults, crashes>>

CleanReturns(r) ==
  /\ pc[r] = "closing"
  /\ transactions' = transactions \ {target[r]}
  /\ Answer(r, op[r], Outcome(r))
  /\ UNCHANGED <<status, timer, driver, db, writes, op, target, gone, cut, effectVars,
                 faults, crashes>>

(* session.close() rejects: the entry stays and the error is the answer.    *)
CleanThrows(r) ==
  /\ pc[r] = "closing"
  /\ Fault
  /\ Answer(r, op[r], "error")
  /\ UNCHANGED <<txVars, op, target, gone, cut, effectVars, crashes>>

(* The TTL timer: the entry becomes "expired", and rollbackTransaction,     *)
(* called next, returns at once because the status is not "open".           *)
TimerFires(t) ==
  /\ timer[t] = "armed"
  /\ timer' = [timer EXCEPT ![t] = "fired"]
  /\ status' = [status EXCEPT ![t] = IF t \in transactions THEN "expired" ELSE @]
  /\ UNCHANGED <<transactions, driver, db, writes, reqVars, effectVars, faults,
                 crashes>>

-----------------------------------------------------------------------------
(* Requests that carry x-transaction-id                                     *)

AttachTransaction(r, t) ==
  /\ Route(r, "write", t)
  /\ \/ /\ t \notin transactions
        /\ Answer(r, "none", "not_found")
     \/ /\ t \in transactions
        /\ pc' = [pc EXCEPT ![r] = "attached"]
        /\ UNCHANGED reply
  /\ UNCHANGED <<txVars, gone, cut, effectVars, faults, crashes>>

(* The handler runs a statement on the attached transaction.                *)
RunStatement(r) ==
  LET t == target[r] IN
  /\ pc[r] \in {"attached", "ran"}
  /\ \/ /\ IsOpen(t) /\ db[t] = "open"
        /\ writes' = [writes EXCEPT ![t] = @ \cup {r}]
        /\ pc' = [pc EXCEPT ![r] = "ran"]
        /\ UNCHANGED <<driver, db>>
     \/ /\ IsOpen(t)
        /\ driver' = [driver EXCEPT ![t] = "failed"]
        /\ db' = [db EXCEPT ![t] = "aborted"]
        /\ pc' = [pc EXCEPT ![r] = "failing"]
        /\ UNCHANGED writes
     \/ /\ ~IsOpen(t)
        /\ pc' = [pc EXCEPT ![r] = "failing"]
        /\ UNCHANGED <<driver, db, writes>>
  /\ UNCHANGED <<transactions, status, timer, op, target, reply, gone, cut, effectVars,
                 faults, crashes>>

(* The handler throws for a reason of its own (validation, limits, billing).*)
HandlerThrows(r) ==
  /\ pc[r] \in {"attached", "ran"}
  /\ pc' = [pc EXCEPT ![r] = "failing"]
  /\ UNCHANGED <<txVars, op, target, reply, gone, cut, effectVars, faults, crashes>>

HandlerReturns(r) ==
  /\ pc[r] = "ran"
  /\ Answer(r, "write", "ok")
  /\ UNCHANGED <<txVars, op, target, gone, cut, effectVars, faults, crashes>>

(* Mutant: the exception filter leaves the attached transaction alone.      *)
ExceptionFilterLeavesOpen(r) ==
  /\ pc[r] = "failing"
  /\ Answer(r, "write", "error")
  /\ UNCHANGED <<txVars, op, target, gone, cut, effectVars, faults, crashes>>

(* GlobalExceptionFilter rolls the attached transaction back.               *)
ExceptionFilter(r) ==
  /\ pc[r] = "failing"
  /\ RollbackTransaction(r, "write", target[r])
  /\ UNCHANGED <<transactions, timer, db, writes, op, target, gone, cut, effectVars,
                 faults, crashes>>

(* executeSideEffects defers them to the commit while the attached          *)
(* transaction is open; POST /commit carries none.                          *)
Deferred(r) == op[r] = "write" /\ IsOpen(target[r])

(* The drained hook runs the side effects. The recount reads every          *)
(* committed record of the project.                                         *)
RunHooks(r) ==
  /\ pc[r] = "hooks"
  /\ recounted' = IF Deferred(r) THEN recounted
                  ELSE recounted \cup {t \in Tx : db[t] = "committed"}
  /\ pc' = [pc EXCEPT ![r] = "done"]
  /\ UNCHANGED <<txVars, op, target, reply, gone, cut, lapsed, faults, crashes>>

(* The recount, or the commit of its own transaction, rejects: logged, and  *)
(* nobody runs it again for this request.                                   *)
RecountFails(r) ==
  /\ pc[r] = "hooks"
  /\ ~Deferred(r)
  /\ Fault
  /\ lapsed' = lapsed \cup {r}
  /\ pc' = [pc EXCEPT ![r] = "done"]
  /\ UNCHANGED <<txVars, op, target, reply, gone, cut, recounted, crashes>>

-----------------------------------------------------------------------------
(* The environment                                                          *)

(* The connection closes before the answer: doCleanup(false), which drops   *)
(* the hooks and leaves the user-defined transaction alone, while the       *)
(* handler keeps running.                                                   *)
Disconnect(r) ==
  /\ pc[r] \notin {"idle", "hooks", "done"}
  /\ r \notin gone
  /\ Cardinality(gone) < MaxDisconnects
  /\ gone' = gone \cup {r}
  /\ UNCHANGED <<txVars, pc, op, target, reply, cut, effectVars, faults, crashes>>

(* The database terminates the transaction (time budget, deadlock).         *)
DatabaseAborts(t) ==
  /\ db[t] = "open"
  /\ db' = [db EXCEPT ![t] = "aborted"]
  /\ UNCHANGED <<transactions, status, timer, driver, writes, reqVars, effectVars,
                 faults, crashes>>

(* The server process restarts: the map, the timers and the requests are    *)
(* gone; the database rolls back what was open, unless a commit was already *)
(* on its way, which it may have applied.                                   *)
Crash ==
  /\ crashes < MaxCrashes
  /\ crashes' = crashes + 1
  /\ transactions' = {}
  /\ timer' = [t \in Tx |-> "unset"]
  /\ driver' = [t \in Tx |-> IF driver[t] = "active" THEN "failed" ELSE driver[t]]
  /\ \E landed \in SUBSET {target[r] : r \in {q \in Req : pc[q] = "commit_sent"}} :
       db' = [t \in Tx |-> IF db[t] # "open" THEN db[t]
                           ELSE IF t \in landed THEN "committed" ELSE "aborted"]
  /\ cut' = cut \cup {r \in Req : pc[r] \notin {"idle", "done"}}
  /\ pc' = [r \in Req |-> IF pc[r] = "idle" THEN "idle" ELSE "done"]
  /\ UNCHANGED <<status, writes, op, target, reply, gone, effectVars, faults>>

-----------------------------------------------------------------------------

(* The steps of the server for a request it accepted.                       *)
Step(r) ==
  \/ CommitReturns(r)
  \/ RollbackReturns(r)
  \/ Clean(r)
  \/ CleanReturns(r)
  \/ RunStatement(r)
  \/ HandlerReturns(r)
  \/ ExceptionFilter(r)
  \/ RunHooks(r)

Arrive(r, t) ==
  \/ AttachTransaction(r, t)
  \/ CommitTransaction(r, t)
  \/ PostRollback(r, t)

Next ==
  \/ \E t \in Tx : CreateTransaction(t) \/ TimerFires(t) \/ DatabaseAborts(t)
  \/ \E r \in Req, t \in Tx : Arrive(r, t)
  \/ \E r \in Req :
       \/ Step(r)
       \/ CleanThrows(r) \/ HandlerThrows(r) \/ RecountFails(r) \/ Disconnect(r)
  \/ Crash

(* The event loop runs every continuation, the database answers every       *)
(* message and a timer fires; nobody has to send a request.                 *)
Fairness ==
  /\ \A r \in Req : WF_vars(Step(r)) /\ WF_vars(HandlerReturns(r))
  /\ \A t \in Tx : WF_vars(TimerFires(t))

Spec == Init /\ [][Next]_vars /\ Fairness

-----------------------------------------------------------------------------
(* Properties                                                               *)

InFlight(t) == {r \in Req : target[r] = t /\ pc[r] \in {"commit_sent", "rollback_sent"}}

(* At any time at most one message that finalizes a transaction is on its   *)
(* way to the database, whatever commits, rollbacks, failing requests and   *)
(* timers do concurrently: neither method locks, only the state of the      *)
(* driver object, changed before the first await, keeps them apart.         *)
SingleFinalizer == \A t \in Tx : \A q, r \in InFlight(t) : q = r

(* A rollback the service accepted, for POST /rollback or for a request     *)
(* that failed, is final: no commit of the same transaction is applied, nor *)
(* on its way, from then on, and not after "has been rolled back" was       *)
(* answered (rollbackTransaction against a concurrent commitTransaction).   *)
RollbackHonoured ==
  \A r \in Req :
    \/ pc[r] \in {"rollback_sent", "clean", "closing"} /\ op[r] # "commit"
    \/ reply[r] = "rolled_back"
    => /\ db[target[r]] # "committed"
       /\ \A q \in InFlight(target[r]) : pc[q] # "commit_sent"

(* An answer that says a transaction is committed or rolled back is given   *)
(* only once its entry left the map, whichever of several concurrent        *)
(* finalizers removed it (clean, against a leak of sessions).               *)
AnsweredMeansFreed ==
  \A r \in Req : reply[r] \in {"committed", "rolled_back"} =>
                   target[r] \notin transactions

(* A commit whose own side effects will not run: it lost its client, failed *)
(* closing the session, was cut off by a restart, or ran a recount that was *)
(* rejected.                                                                *)
LostEffects(r) == r \in gone \cup cut \cup lapsed \/ reply[r] = "error"

(* Deferred side effects are never dropped unnoticed: when a transaction is *)
(* committed and no recount has seen it, some POST /commit of it will still *)
(* drain its hooks, or lost them in one of the four ways above (the         *)
(* deferral in executeSideEffects).                                         *)
CommittedEffectsOwed ==
  \A t \in Tx : db[t] = "committed" /\ t \notin recounted =>
    \E r \in Req :
      /\ op[r] = "commit" /\ target[r] = t
      /\ pc[r] \in {"clean", "closing", "hooks"} \/ LostEffects(r)

FailedWithin(t) == \E r \in writes[t] : op[r] = "write" /\ reply[r] = "error"

CommitAccepted(t) ==
  \E r \in Req : pc[r] = "idle" /\ pc'[r] = "commit_sent" /\ target'[r] = t

(* A transaction in which a request failed half way, and was answered so,   *)
(* cannot be committed by a later POST /commit, as long as its TTL had not  *)
(* elapsed (the rollback of the exception filter against later commits).    *)
FailureBlocksCommit ==
  [][\A t \in Tx : FailedWithin(t) /\ CommitAccepted(t) => timer[t] = "fired"]_vars

(* Every request that arrives is answered and drains its hooks: no handler  *)
(* waits for another one (the finally/clean chains of commit and rollback). *)
EveryRequestEnds == <>[](\A r \in Req : pc[r] \in {"idle", "done"})

(* The side effects run once the writes of a user-defined transaction are   *)
(* visible: every committed transaction is eventually seen by a recount,    *)
(* unless a commit of it lost its side effects in one of those ways.        *)
EffectsRun ==
  \A t \in Tx : db[t] = "committed" ~>
    \/ t \in recounted
    \/ \E r \in Req : op[r] = "commit" /\ target[r] = t /\ LostEffects(r)
=============================================================================
