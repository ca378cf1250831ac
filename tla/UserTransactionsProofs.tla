----------------------- MODULE UserTransactionsProofs -----------------------
(***************************************************************************)
(* The safety invariants of UserTransactions hold for every set of          *)
(* transactions and requests and every bound. Nothing in the service locks  *)
(* an entry: the argument is that the driver object leaves "active" before  *)
(* the first await of commit and rollback and never becomes active again,   *)
(* so whoever got there first excludes the other (DriverInv), and that the  *)
(* request that sent the commit owes the side effects from then on.         *)
(***************************************************************************)
EXTENDS UserTransactions, TLAPS

(* What the map, the status and the timer say of the driver object.         *)
EntryInv ==
  \A t \in Tx :
    /\ driver[t] = "none" => status[t] = "none" /\ db[t] = "none"
    /\ status[t] = "none" => driver[t] = "none" /\ t \notin transactions
    /\ status[t] = "open" => driver[t] \in {"active", "failed"}
    /\ status[t] \in {"committing", "rolling_back"} => driver[t] \notin {"none", "active"}
    /\ t \in transactions /\ status[t] = "expired" => timer[t] = "fired"
    /\ db[t] = "committed" => driver[t] = "committed"

(* What the place of a request says of it and of its transaction.           *)
RequestInv ==
  \A r \in Req :
    /\ pc[r] # "idle" => target[r] \in Tx /\ op[r] # "none"
    /\ reply[r] # "none" => pc[r] \in {"hooks", "done"}
    /\ pc[r] = "commit_sent" => op[r] = "commit" /\ driver[target[r]] = "committed"
    /\ pc[r] = "rollback_sent" => op[r] # "commit" /\ driver[target[r]] = "rolled_back"
    /\ r \in gone \cup cut \cup lapsed => pc[r] # "idle"
    /\ pc[r] \in {"attached", "ran", "failing"} =>
         op[r] = "write" /\ driver[target[r]] # "none"
    /\ pc[r] \in {"clean", "closing"} => driver[target[r]] \notin {"none", "active"}
    /\ pc[r] \in {"clean", "closing"} /\ op[r] # "commit" =>
         driver[target[r]] \in {"rolled_back", "failed"}
    /\ reply[r] = "rolled_back" => driver[target[r]] \in {"rolled_back", "failed"}
    /\ reply[r] \in {"committed", "rolled_back"} => driver[target[r]] # "none"

(* A request that failed leaves its transaction out of reach of a commit,   *)
(* unless the TTL had elapsed.                                              *)
FailureInv ==
  /\ \A t \in Tx : \A r \in writes[t] : target[r] = t /\ pc[r] # "idle"
  /\ \A r \in Req : op[r] = "write" /\ reply[r] = "error" =>
       /\ driver[target[r]] # "none"
       /\ \/ target[r] \notin transactions
          \/ driver[target[r]] # "active"
          \/ timer[target[r]] = "fired"

IndInv ==
  /\ TypeOK
  /\ EntryInv
  /\ RequestInv
  /\ FailureInv
  /\ SingleFinalizer
  /\ AnsweredMeansFreed
  /\ CommittedEffectsOwed

-----------------------------------------------------------------------------
(* Every variable keeps its type, whichever action runs.                    *)
LEMMA TypeStep == TypeOK /\ [Next]_vars => TypeOK'
  <1> SUFFICES ASSUME TypeOK, [Next]_vars PROVE TypeOK'
    OBVIOUS
  <1> USE BoundsAssumption DEF TypeOK, Status, Timer, Driver, DB, PC, Op,
                               Reply
  <1>1. ASSUME NEW t \in Tx, CreateTransaction(t)
       PROVE  TypeOK'
    BY <1>1 DEF CreateTransaction, txVars, reqVars, effectVars
  <1>2. ASSUME NEW t \in Tx, TimerFires(t)
       PROVE  TypeOK'
    BY <1>2 DEF TimerFires, txVars, reqVars, effectVars
  <1>3. ASSUME NEW t \in Tx, DatabaseAborts(t)
       PROVE  TypeOK'
    BY <1>3 DEF DatabaseAborts, txVars, reqVars, effectVars
  <1>4. ASSUME NEW r \in Req, NEW t \in Tx, AttachTransaction(r, t)
       PROVE  TypeOK'
    BY <1>4 DEF AttachTransaction, Route, Answer, txVars, reqVars, effectVars
  <1>5. ASSUME NEW r \in Req, NEW t \in Tx, CommitTransaction(r, t)
       PROVE  TypeOK'
    BY <1>5 DEF CommitTransaction, Route, Answer, IsOpen, txVars, reqVars, effectVars
  <1>6. ASSUME NEW r \in Req, NEW t \in Tx, PostRollback(r, t)
       PROVE  TypeOK'
    BY <1>6 DEF PostRollback, Route, RollbackTransaction, Answer, IsOpen,
                txVars, reqVars, effectVars
  <1>7. ASSUME NEW r \in Req, CommitReturns(r)
       PROVE  TypeOK'
    BY <1>7 DEF CommitReturns, txVars, reqVars, effectVars
  <1>8. ASSUME NEW r \in Req, RollbackReturns(r)
       PROVE  TypeOK'
    BY <1>8 DEF RollbackReturns, txVars, reqVars, effectVars
  <1>9. ASSUME NEW r \in Req, Clean(r)
       PROVE  TypeOK'
    BY <1>9 DEF Clean, Answer, Outcome, IsOpen, txVars, reqVars, effectVars
  <1>10. ASSUME NEW r \in Req, CleanReturns(r)
       PROVE  TypeOK'
    BY <1>10 DEF CleanReturns, Answer, Outcome, txVars, reqVars, effectVars
  <1>11. ASSUME NEW r \in Req, CleanThrows(r)
       PROVE  TypeOK'
    BY <1>11 DEF CleanThrows, Fault, Answer, txVars, reqVars, effectVars
  <1>12. ASSUME NEW r \in Req, RunStatement(r)
       PROVE  TypeOK'
    BY <1>12 DEF RunStatement, IsOpen, txVars, reqVars, effectVars
  <1>13. ASSUME NEW r \in Req, HandlerReturns(r)
       PROVE  TypeOK'
    BY <1>13 DEF HandlerReturns, Answer, txVars, reqVars, effectVars
  <1>14. ASSUME NEW r \in Req, HandlerThrows(r)
       PROVE  TypeOK'
    BY <1>14 DEF HandlerThrows, txVars, reqVars, effectVars
  <1>15. ASSUME NEW r \in Req, ExceptionFilter(r)
       PROVE  TypeOK'
    BY <1>15 DEF ExceptionFilter, RollbackTransaction, Answer, IsOpen,
                 txVars, reqVars, effectVars
  <1>16. ASSUME NEW r \in Req, RunHooks(r)
       PROVE  TypeOK'
    BY <1>16 DEF RunHooks, Deferred, IsOpen, txVars, reqVars, effectVars
  <1>17. ASSUME NEW r \in Req, Disconnect(r)
       PROVE  TypeOK'
    BY <1>17 DEF Disconnect, txVars, reqVars, effectVars
  <1>18. ASSUME Crash
       PROVE  TypeOK'
    BY <1>18 DEF Crash, txVars, reqVars, effectVars
  <1>19. ASSUME NEW r \in Req, RecountFails(r)
       PROVE  TypeOK'
    BY <1>19 DEF RecountFails, Deferred, Fault, IsOpen, txVars, reqVars,
                 effectVars
  <1>20. CASE UNCHANGED vars
    BY <1>20 DEF vars, txVars, reqVars, effectVars
  <1> QED
    BY <1>1, <1>2, <1>3, <1>4, <1>5, <1>6, <1>7, <1>8, <1>9, <1>10, <1>11,
       <1>12, <1>13, <1>14, <1>15, <1>16, <1>17, <1>18, <1>19, <1>20
    DEF Next, Step, Arrive

(* Every action keeps the map, the statuses and the driver objects in line. *)
LEMMA EntryStep == IndInv /\ [Next]_vars => EntryInv'
  <1> SUFFICES ASSUME TypeOK, EntryInv, RequestInv, [Next]_vars
               PROVE  EntryInv'
    BY DEF IndInv
  <1> USE DEF EntryInv, RequestInv, TypeOK, Status, Timer, Driver, DB, PC,
              Op, Reply
  <1>1. ASSUME NEW t \in Tx, CreateTransaction(t)
       PROVE  EntryInv'
    BY <1>1 DEF CreateTransaction, txVars, reqVars, effectVars
  <1>2. ASSUME NEW t \in Tx, TimerFires(t)
       PROVE  EntryInv'
    BY <1>2 DEF TimerFires, txVars, reqVars, effectVars
  <1>3. ASSUME NEW t \in Tx, DatabaseAborts(t)
       PROVE  EntryInv'
    BY <1>3 DEF DatabaseAborts, txVars, reqVars, effectVars
  <1>4. ASSUME NEW r \in Req, NEW t \in Tx, AttachTransaction(r, t)
       PROVE  EntryInv'
    BY <1>4 DEF AttachTransaction, Route, Answer, txVars, reqVars, effectVars
  <1>5. ASSUME NEW r \in Req, NEW t \in Tx, CommitTransaction(r, t)
       PROVE  EntryInv'
    BY <1>5 DEF CommitTransaction, Route, Answer, IsOpen, txVars, reqVars, effectVars
  <1>6. ASSUME NEW r \in Req, NEW t \in Tx, PostRollback(r, t)
       PROVE  EntryInv'
    BY <1>6 DEF PostRollback, Route, RollbackTransaction, Answer, IsOpen,
                txVars, reqVars, effectVars
  <1>7. ASSUME NEW r \in Req, CommitReturns(r)
       PROVE  EntryInv'
    BY <1>7 DEF CommitReturns, txVars, reqVars, effectVars
  <1>8. ASSUME NEW r \in Req, RollbackReturns(r)
       PROVE  EntryInv'
    BY <1>8 DEF RollbackReturns, txVars, reqVars, effectVars
  <1>9. ASSUME NEW r \in Req, Clean(r)
       PROVE  EntryInv'
    BY <1>9 DEF Clean, Answer, Outcome, IsOpen, txVars, reqVars, effectVars
  <1>10. ASSUME NEW r \in Req, CleanReturns(r)
       PROVE  EntryInv'
    BY <1>10 DEF CleanReturns, Answer, Outcome, txVars, reqVars, effectVars
  <1>11. ASSUME NEW r \in Req, CleanThrows(r)
       PROVE  EntryInv'
    BY <1>11 DEF CleanThrows, Fault, Answer, txVars, reqVars, effectVars
  <1>12. ASSUME NEW r \in Req, RunStatement(r)
       PROVE  EntryInv'
    BY <1>12 DEF RunStatement, IsOpen, txVars, reqVars, effectVars
  <1>13. ASSUME NEW r \in Req, HandlerReturns(r)
       PROVE  EntryInv'
    BY <1>13 DEF HandlerReturns, Answer, txVars, reqVars, effectVars
  <1>14. ASSUME NEW r \in Req, HandlerThrows(r)
       PROVE  EntryInv'
    BY <1>14 DEF HandlerThrows, txVars, reqVars, effectVars
  <1>15. ASSUME NEW r \in Req, ExceptionFilter(r)
       PROVE  EntryInv'
    BY <1>15 DEF ExceptionFilter, RollbackTransaction, Answer, IsOpen,
                 txVars, reqVars, effectVars
  <1>16. ASSUME NEW r \in Req, RunHooks(r)
       PROVE  EntryInv'
    BY <1>16 DEF RunHooks, Deferred, IsOpen, txVars, reqVars, effectVars
  <1>17. ASSUME NEW r \in Req, Disconnect(r)
       PROVE  EntryInv'
    BY <1>17 DEF Disconnect, txVars, reqVars, effectVars
  <1>18. ASSUME Crash
       PROVE  EntryInv'
    BY <1>18 DEF Crash, txVars, reqVars, effectVars
  <1>19. ASSUME NEW r \in Req, RecountFails(r)
       PROVE  EntryInv'
    BY <1>19 DEF RecountFails, Deferred, Fault, IsOpen, txVars, reqVars,
                 effectVars
  <1>20. CASE UNCHANGED vars
    BY <1>20 DEF vars, txVars, reqVars, effectVars
  <1> QED
    BY <1>1, <1>2, <1>3, <1>4, <1>5, <1>6, <1>7, <1>8, <1>9, <1>10, <1>11,
       <1>12, <1>13, <1>14, <1>15, <1>16, <1>17, <1>18, <1>19, <1>20
    DEF Next, Step, Arrive

(* Every action keeps the requests and the driver objects in line: the      *)
(* driver leaves "active" with the step that puts a message on its way.     *)
LEMMA RequestStep == IndInv /\ [Next]_vars => RequestInv'
  <1> SUFFICES ASSUME TypeOK, EntryInv, RequestInv, [Next]_vars
               PROVE  RequestInv'
    BY DEF IndInv
  <1> USE DEF EntryInv, RequestInv, TypeOK, Status, Timer, Driver, DB, PC,
              Op, Reply
  <1>1. ASSUME NEW t \in Tx, CreateTransaction(t)
       PROVE  RequestInv'
    BY <1>1 DEF CreateTransaction, txVars, reqVars, effectVars
  <1>2. ASSUME NEW t \in Tx, TimerFires(t)
       PROVE  RequestInv'
    BY <1>2 DEF TimerFires, txVars, reqVars, effectVars
  <1>3. ASSUME NEW t \in Tx, DatabaseAborts(t)
       PROVE  RequestInv'
    BY <1>3 DEF DatabaseAborts, txVars, reqVars, effectVars
  <1>4. ASSUME NEW r \in Req, NEW t \in Tx, AttachTransaction(r, t)
       PROVE  RequestInv'
    BY <1>4 DEF AttachTransaction, Route, Answer, txVars, reqVars, effectVars
  <1>5. ASSUME NEW r \in Req, NEW t \in Tx, CommitTransaction(r, t)
       PROVE  RequestInv'
    BY <1>5 DEF CommitTransaction, Route, Answer, IsOpen, txVars, reqVars, effectVars
  <1>6. ASSUME NEW r \in Req, NEW t \in Tx, PostRollback(r, t)
       PROVE  RequestInv'
    BY <1>6 DEF PostRollback, Route, RollbackTransaction, Answer, IsOpen,
                txVars, reqVars, effectVars
  <1>7. ASSUME NEW r \in Req, CommitReturns(r)
       PROVE  RequestInv'
    BY <1>7 DEF CommitReturns, txVars, reqVars, effectVars
  <1>8. ASSUME NEW r \in Req, RollbackReturns(r)
       PROVE  RequestInv'
    BY <1>8 DEF RollbackReturns, txVars, reqVars, effectVars
  <1>9. ASSUME NEW r \in Req, Clean(r)
       PROVE  RequestInv'
    BY <1>9 DEF Clean, Answer, Outcome, IsOpen, txVars, reqVars, effectVars
  <1>10. ASSUME NEW r \in Req, CleanReturns(r)
       PROVE  RequestInv'
    BY <1>10 DEF CleanReturns, Answer, Outcome, txVars, reqVars, effectVars
  <1>11. ASSUME NEW r \in Req, CleanThrows(r)
       PROVE  RequestInv'
    BY <1>11 DEF CleanThrows, Fault, Answer, txVars, reqVars, effectVars
  <1>12. ASSUME NEW r \in Req, RunStatement(r)
       PROVE  RequestInv'
    BY <1>12 DEF RunStatement, IsOpen, txVars, reqVars, effectVars
  <1>13. ASSUME NEW r \in Req, HandlerReturns(r)
       PROVE  RequestInv'
    BY <1>13 DEF HandlerReturns, Answer, txVars, reqVars, effectVars
  <1>14. ASSUME NEW r \in Req, HandlerThrows(r)
       PROVE  RequestInv'
    BY <1>14 DEF HandlerThrows, txVars, reqVars, effectVars
  <1>15. ASSUME NEW r \in Req, ExceptionFilter(r)
       PROVE  RequestInv'
    BY <1>15 DEF ExceptionFilter, RollbackTransaction, Answer, IsOpen,
                 txVars, reqVars, effectVars
  <1>16. ASSUME NEW r \in Req, RunHooks(r)
       PROVE  RequestInv'
    BY <1>16 DEF RunHooks, Deferred, IsOpen, txVars, reqVars, effectVars
  <1>17. ASSUME NEW r \in Req, Disconnect(r)
       PROVE  RequestInv'
    BY <1>17 DEF Disconnect, txVars, reqVars, effectVars
  <1>18. ASSUME Crash
       PROVE  RequestInv'
    BY <1>18 DEF Crash, txVars, reqVars, effectVars
  <1>19. ASSUME NEW r \in Req, RecountFails(r)
       PROVE  RequestInv'
    BY <1>19 DEF RecountFails, Deferred, Fault, IsOpen, txVars, reqVars,
                 effectVars
  <1>20. CASE UNCHANGED vars
    BY <1>20 DEF vars, txVars, reqVars, effectVars
  <1> QED
    BY <1>1, <1>2, <1>3, <1>4, <1>5, <1>6, <1>7, <1>8, <1>9, <1>10, <1>11,
       <1>12, <1>13, <1>14, <1>15, <1>16, <1>17, <1>18, <1>19, <1>20
    DEF Next, Step, Arrive

(* Once a request failed, its transaction stays out of reach of a commit.   *)
LEMMA FailureStep == IndInv /\ [Next]_vars => FailureInv'
  <1> SUFFICES ASSUME TypeOK, EntryInv, RequestInv, FailureInv, [Next]_vars
               PROVE  FailureInv'
    BY DEF IndInv
  <1> USE DEF EntryInv, RequestInv, FailureInv, TypeOK, Status, Timer,
              Driver, DB, PC, Op, Reply
  <1>1. ASSUME NEW t \in Tx, CreateTransaction(t)
       PROVE  FailureInv'
    BY <1>1 DEF CreateTransaction, txVars, reqVars, effectVars
  <1>2. ASSUME NEW t \in Tx, TimerFires(t)
       PROVE  FailureInv'
    BY <1>2 DEF TimerFires, txVars, reqVars, effectVars
  <1>3. ASSUME NEW t \in Tx, DatabaseAborts(t)
       PROVE  FailureInv'
    BY <1>3 DEF DatabaseAborts, txVars, reqVars, effectVars
  <1>4. ASSUME NEW r \in Req, NEW t \in Tx, AttachTransaction(r, t)
       PROVE  FailureInv'
    BY <1>4 DEF AttachTransaction, Route, Answer, txVars, reqVars, effectVars
  <1>5. ASSUME NEW r \in Req, NEW t \in Tx, CommitTransaction(r, t)
       PROVE  FailureInv'
    BY <1>5 DEF CommitTransaction, Route, Answer, IsOpen, txVars, reqVars, effectVars
  <1>6. ASSUME NEW r \in Req, NEW t \in Tx, PostRollback(r, t)
       PROVE  FailureInv'
    BY <1>6 DEF PostRollback, Route, RollbackTransaction, Answer, IsOpen,
                txVars, reqVars, effectVars
  <1>7. ASSUME NEW r \in Req, CommitReturns(r)
       PROVE  FailureInv'
    BY <1>7 DEF CommitReturns, txVars, reqVars, effectVars
  <1>8. ASSUME NEW r \in Req, RollbackReturns(r)
       PROVE  FailureInv'
    BY <1>8 DEF RollbackReturns, txVars, reqVars, effectVars
  <1>9. ASSUME NEW r \in Req, Clean(r)
       PROVE  FailureInv'
    BY <1>9 DEF Clean, Answer, Outcome, IsOpen, txVars, reqVars, effectVars
  <1>10. ASSUME NEW r \in Req, CleanReturns(r)
       PROVE  FailureInv'
    BY <1>10 DEF CleanReturns, Answer, Outcome, txVars, reqVars, effectVars
  <1>11. ASSUME NEW r \in Req, CleanThrows(r)
       PROVE  FailureInv'
    BY <1>11 DEF CleanThrows, Fault, Answer, txVars, reqVars, effectVars
  <1>12. ASSUME NEW r \in Req, RunStatement(r)
       PROVE  FailureInv'
    BY <1>12 DEF RunStatement, IsOpen, txVars, reqVars, effectVars
  <1>13. ASSUME NEW r \in Req, HandlerReturns(r)
       PROVE  FailureInv'
    BY <1>13 DEF HandlerReturns, Answer, txVars, reqVars, effectVars
  <1>14. ASSUME NEW r \in Req, HandlerThrows(r)
       PROVE  FailureInv'
    BY <1>14 DEF HandlerThrows, txVars, reqVars, effectVars
  <1>15. ASSUME NEW r \in Req, ExceptionFilter(r)
       PROVE  FailureInv'
    BY <1>15 DEF ExceptionFilter, RollbackTransaction, Answer, IsOpen,
                 txVars, reqVars, effectVars
  <1>16. ASSUME NEW r \in Req, RunHooks(r)
       PROVE  FailureInv'
    BY <1>16 DEF RunHooks, Deferred, IsOpen, txVars, reqVars, effectVars
  <1>17. ASSUME NEW r \in Req, Disconnect(r)
       PROVE  FailureInv'
    BY <1>17 DEF Disconnect, txVars, reqVars, effectVars
  <1>18. ASSUME Crash
       PROVE  FailureInv'
    BY <1>18 DEF Crash, txVars, reqVars, effectVars
  <1>19. ASSUME NEW r \in Req, RecountFails(r)
       PROVE  FailureInv'
    BY <1>19 DEF RecountFails, Deferred, Fault, IsOpen, txVars, reqVars,
                 effectVars
  <1>20. CASE UNCHANGED vars
    BY <1>20 DEF vars, txVars, reqVars, effectVars
  <1> QED
    BY <1>1, <1>2, <1>3, <1>4, <1>5, <1>6, <1>7, <1>8, <1>9, <1>10, <1>11,
       <1>12, <1>13, <1>14, <1>15, <1>16, <1>17, <1>18, <1>19, <1>20
    DEF Next, Step, Arrive

(* A second message would need an active driver object.                    *)
LEMMA FinalizerStep == IndInv /\ [Next]_vars => SingleFinalizer'
  <1> SUFFICES ASSUME TypeOK, EntryInv, RequestInv, SingleFinalizer, [Next]_vars
               PROVE  SingleFinalizer'
    BY DEF IndInv
  <1> USE DEF EntryInv, RequestInv, SingleFinalizer, InFlight, TypeOK,
              Status, Timer, Driver, DB, PC, Op, Reply
  <1>1. ASSUME NEW t \in Tx, CreateTransaction(t)
       PROVE  SingleFinalizer'
    BY <1>1 DEF CreateTransaction, txVars, reqVars, effectVars
  <1>2. ASSUME NEW t \in Tx, TimerFires(t)
       PROVE  SingleFinalizer'
    BY <1>2 DEF TimerFires, txVars, reqVars, effectVars
  <1>3. ASSUME NEW t \in Tx, DatabaseAborts(t)
       PROVE  SingleFinalizer'
    BY <1>3 DEF DatabaseAborts, txVars, reqVars, effectVars
  <1>4. ASSUME NEW r \in Req, NEW t \in Tx, AttachTransaction(r, t)
       PROVE  SingleFinalizer'
    BY <1>4 DEF AttachTransaction, Route, Answer, txVars, reqVars, effectVars
  <1>5. ASSUME NEW r \in Req, NEW t \in Tx, CommitTransaction(r, t)
       PROVE  SingleFinalizer'
    BY <1>5 DEF CommitTransaction, Route, Answer, IsOpen, txVars, reqVars, effectVars
  <1>6. ASSUME NEW r \in Req, NEW t \in Tx, PostRollback(r, t)
       PROVE  SingleFinalizer'
    BY <1>6 DEF PostRollback, Route, RollbackTransaction, Answer, IsOpen,
                txVars, reqVars, effectVars
  <1>7. ASSUME NEW r \in Req, CommitReturns(r)
       PROVE  SingleFinalizer'
    BY <1>7 DEF CommitReturns, txVars, reqVars, effectVars
  <1>8. ASSUME NEW r \in Req, RollbackReturns(r)
       PROVE  SingleFinalizer'
    BY <1>8 DEF RollbackReturns, txVars, reqVars, effectVars
  <1>9. ASSUME NEW r \in Req, Clean(r)
       PROVE  SingleFinalizer'
    BY <1>9 DEF Clean, Answer, Outcome, IsOpen, txVars, reqVars, effectVars
  <1>10. ASSUME NEW r \in Req, CleanReturns(r)
       PROVE  SingleFinalizer'
    BY <1>10 DEF CleanReturns, Answer, Outcome, txVars, reqVars, effectVars
  <1>11. ASSUME NEW r \in Req, CleanThrows(r)
       PROVE  SingleFinalizer'
    BY <1>11 DEF CleanThrows, Fault, Answer, txVars, reqVars, effectVars
  <1>12. ASSUME NEW r \in Req, RunStatement(r)
       PROVE  SingleFinalizer'
    BY <1>12 DEF RunStatement, IsOpen, txVars, reqVars, effectVars
  <1>13. ASSUME NEW r \in Req, HandlerReturns(r)
       PROVE  SingleFinalizer'
    BY <1>13 DEF HandlerReturns, Answer, txVars, reqVars, effectVars
  <1>14. ASSUME NEW r \in Req, HandlerThrows(r)
       PROVE  SingleFinalizer'
    BY <1>14 DEF HandlerThrows, txVars, reqVars, effectVars
  <1>15. ASSUME NEW r \in Req, ExceptionFilter(r)
       PROVE  SingleFinalizer'
    BY <1>15 DEF ExceptionFilter, RollbackTransaction, Answer, IsOpen,
                 txVars, reqVars, effectVars
  <1>16. ASSUME NEW r \in Req, RunHooks(r)
       PROVE  SingleFinalizer'
    BY <1>16 DEF RunHooks, Deferred, IsOpen, txVars, reqVars, effectVars
  <1>17. ASSUME NEW r \in Req, Disconnect(r)
       PROVE  SingleFinalizer'
    BY <1>17 DEF Disconnect, txVars, reqVars, effectVars
  <1>18. ASSUME Crash
       PROVE  SingleFinalizer'
    BY <1>18 DEF Crash, txVars, reqVars, effectVars
  <1>19. ASSUME NEW r \in Req, RecountFails(r)
       PROVE  SingleFinalizer'
    BY <1>19 DEF RecountFails, Deferred, Fault, IsOpen, txVars, reqVars,
                 effectVars
  <1>20. CASE UNCHANGED vars
    BY <1>20 DEF vars, txVars, reqVars, effectVars
  <1> QED
    BY <1>1, <1>2, <1>3, <1>4, <1>5, <1>6, <1>7, <1>8, <1>9, <1>10, <1>11,
       <1>12, <1>13, <1>14, <1>15, <1>16, <1>17, <1>18, <1>19, <1>20
    DEF Next, Step, Arrive

(* An id that left the map is never created again.                          *)
LEMMA FreedStep == IndInv /\ [Next]_vars => AnsweredMeansFreed'
  <1> SUFFICES ASSUME TypeOK, EntryInv, RequestInv, AnsweredMeansFreed, [Next]_vars
               PROVE  AnsweredMeansFreed'
    BY DEF IndInv
  <1> USE DEF EntryInv, RequestInv, AnsweredMeansFreed, TypeOK, Status,
              Timer, Driver, DB, PC, Op, Reply
  <1>1. ASSUME NEW t \in Tx, CreateTransaction(t)
       PROVE  AnsweredMeansFreed'
    BY <1>1 DEF CreateTransaction, txVars, reqVars, effectVars
  <1>2. ASSUME NEW t \in Tx, TimerFires(t)
       PROVE  AnsweredMeansFreed'
    BY <1>2 DEF TimerFires, txVars, reqVars, effectVars
  <1>3. ASSUME NEW t \in Tx, DatabaseAborts(t)
       PROVE  AnsweredMeansFreed'
    BY <1>3 DEF DatabaseAborts, txVars, reqVars, effectVars
  <1>4. ASSUME NEW r \in Req, NEW t \in Tx, AttachTransaction(r, t)
       PROVE  AnsweredMeansFreed'
    BY <1>4 DEF AttachTransaction, Route, Answer, txVars, reqVars, effectVars
  <1>5. ASSUME NEW r \in Req, NEW t \in Tx, CommitTransaction(r, t)
       PROVE  AnsweredMeansFreed'
    BY <1>5 DEF CommitTransaction, Route, Answer, IsOpen, txVars, reqVars, effectVars
  <1>6. ASSUME NEW r \in Req, NEW t \in Tx, PostRollback(r, t)
       PROVE  AnsweredMeansFreed'
    BY <1>6 DEF PostRollback, Route, RollbackTransaction, Answer, IsOpen,
                txVars, reqVars, effectVars
  <1>7. ASSUME NEW r \in Req, CommitReturns(r)
       PROVE  AnsweredMeansFreed'
    BY <1>7 DEF CommitReturns, txVars, reqVars, effectVars
  <1>8. ASSUME NEW r \in Req, RollbackReturns(r)
       PROVE  AnsweredMeansFreed'
    BY <1>8 DEF RollbackReturns, txVars, reqVars, effectVars
  <1>9. ASSUME NEW r \in Req, Clean(r)
       PROVE  AnsweredMeansFreed'
    BY <1>9 DEF Clean, Answer, Outcome, IsOpen, txVars, reqVars, effectVars
  <1>10. ASSUME NEW r \in Req, CleanReturns(r)
       PROVE  AnsweredMeansFreed'
    BY <1>10 DEF CleanReturns, Answer, Outcome, txVars, reqVars, effectVars
  <1>11. ASSUME NEW r \in Req, CleanThrows(r)
       PROVE  AnsweredMeansFreed'
    BY <1>11 DEF CleanThrows, Fault, Answer, txVars, reqVars, effectVars
  <1>12. ASSUME NEW r \in Req, RunStatement(r)
       PROVE  AnsweredMeansFreed'
    BY <1>12 DEF RunStatement, IsOpen, txVars, reqVars, effectVars
  <1>13. ASSUME NEW r \in Req, HandlerReturns(r)
       PROVE  AnsweredMeansFreed'
    BY <1>13 DEF HandlerReturns, Answer, txVars, reqVars, effectVars
  <1>14. ASSUME NEW r \in Req, HandlerThrows(r)
       PROVE  AnsweredMeansFreed'
    BY <1>14 DEF HandlerThrows, txVars, reqVars, effectVars
  <1>15. ASSUME NEW r \in Req, ExceptionFilter(r)
       PROVE  AnsweredMeansFreed'
    BY <1>15 DEF ExceptionFilter, RollbackTransaction, Answer, IsOpen,
                 txVars, reqVars, effectVars
  <1>16. ASSUME NEW r \in Req, RunHooks(r)
       PROVE  AnsweredMeansFreed'
    BY <1>16 DEF RunHooks, Deferred, IsOpen, txVars, reqVars, effectVars
  <1>17. ASSUME NEW r \in Req, Disconnect(r)
       PROVE  AnsweredMeansFreed'
    BY <1>17 DEF Disconnect, txVars, reqVars, effectVars
  <1>18. ASSUME Crash
       PROVE  AnsweredMeansFreed'
    BY <1>18 DEF Crash, txVars, reqVars, effectVars
  <1>19. ASSUME NEW r \in Req, RecountFails(r)
       PROVE  AnsweredMeansFreed'
    BY <1>19 DEF RecountFails, Deferred, Fault, IsOpen, txVars, reqVars,
                 effectVars
  <1>20. CASE UNCHANGED vars
    BY <1>20 DEF vars, txVars, reqVars, effectVars
  <1> QED
    BY <1>1, <1>2, <1>3, <1>4, <1>5, <1>6, <1>7, <1>8, <1>9, <1>10, <1>11,
       <1>12, <1>13, <1>14, <1>15, <1>16, <1>17, <1>18, <1>19, <1>20
    DEF Next, Step, Arrive

(* The request that committed a transaction owes it the side effects.       *)
LEMMA OwedStep == IndInv /\ [Next]_vars => CommittedEffectsOwed'
  <1> SUFFICES ASSUME TypeOK, EntryInv, RequestInv, CommittedEffectsOwed, [Next]_vars
               PROVE  CommittedEffectsOwed'
    BY DEF IndInv
  <1> USE DEF EntryInv, RequestInv, CommittedEffectsOwed, LostEffects, TypeOK, Status,
              Timer, Driver, DB, PC, Op, Reply
  <1>1. ASSUME NEW t \in Tx, CreateTransaction(t)
       PROVE  CommittedEffectsOwed'
    BY <1>1 DEF CreateTransaction, txVars, reqVars, effectVars
  <1>2. ASSUME NEW t \in Tx, TimerFires(t)
       PROVE  CommittedEffectsOwed'
    BY <1>2 DEF TimerFires, txVars, reqVars, effectVars
  <1>3. ASSUME NEW t \in Tx, DatabaseAborts(t)
       PROVE  CommittedEffectsOwed'
    BY <1>3 DEF DatabaseAborts, txVars, reqVars, effectVars
  <1>4. ASSUME NEW r \in Req, NEW t \in Tx, AttachTransaction(r, t)
       PROVE  CommittedEffectsOwed'
    BY <1>4 DEF AttachTransaction, Route, Answer, txVars, reqVars, effectVars
  <1>5. ASSUME NEW r \in Req, NEW t \in Tx, CommitTransaction(r, t)
       PROVE  CommittedEffectsOwed'
    BY <1>5 DEF CommitTransaction, Route, Answer, IsOpen, txVars, reqVars, effectVars
  <1>6. ASSUME NEW r \in Req, NEW t \in Tx, PostRollback(r, t)
       PROVE  CommittedEffectsOwed'
    BY <1>6 DEF PostRollback, Route, RollbackTransaction, Answer, IsOpen,
                txVars, reqVars, effectVars
  <1>7. ASSUME NEW r \in Req, CommitReturns(r)
       PROVE  CommittedEffectsOwed'
    BY <1>7 DEF CommitReturns, txVars, reqVars, effectVars
  <1>8. ASSUME NEW r \in Req, RollbackReturns(r)
       PROVE  CommittedEffectsOwed'
    BY <1>8 DEF RollbackReturns, txVars, reqVars, effectVars
  <1>9. ASSUME NEW r \in Req, Clean(r)
       PROVE  CommittedEffectsOwed'
    BY <1>9 DEF Clean, Answer, Outcome, IsOpen, txVars, reqVars, effectVars
  <1>10. ASSUME NEW r \in Req, CleanReturns(r)
       PROVE  CommittedEffectsOwed'
    BY <1>10 DEF CleanReturns, Answer, Outcome, txVars, reqVars, effectVars
  <1>11. ASSUME NEW r \in Req, CleanThrows(r)
       PROVE  CommittedEffectsOwed'
    BY <1>11 DEF CleanThrows, Fault, Answer, txVars, reqVars, effectVars
  <1>12. ASSUME NEW r \in Req, RunStatement(r)
       PROVE  CommittedEffectsOwed'
    BY <1>12 DEF RunStatement, IsOpen, txVars, reqVars, effectVars
  <1>13. ASSUME NEW r \in Req, HandlerReturns(r)
       PROVE  CommittedEffectsOwed'
    BY <1>13 DEF HandlerReturns, Answer, txVars, reqVars, effectVars
  <1>14. ASSUME NEW r \in Req, HandlerThrows(r)
       PROVE  CommittedEffectsOwed'
    BY <1>14 DEF HandlerThrows, txVars, reqVars, effectVars
  <1>15. ASSUME NEW r \in Req, ExceptionFilter(r)
       PROVE  CommittedEffectsOwed'
    BY <1>15 DEF ExceptionFilter, RollbackTransaction, Answer, IsOpen,
                 txVars, reqVars, effectVars
  <1>16. ASSUME NEW r \in Req, RunHooks(r)
       PROVE  CommittedEffectsOwed'
    BY <1>16 DEF RunHooks, Deferred, IsOpen, txVars, reqVars, effectVars
  <1>17. ASSUME NEW r \in Req, Disconnect(r)
       PROVE  CommittedEffectsOwed'
    BY <1>17 DEF Disconnect, txVars, reqVars, effectVars
  <1>18. ASSUME Crash
       PROVE  CommittedEffectsOwed'
    BY <1>18 DEF Crash, txVars, reqVars, effectVars
  <1>19. ASSUME NEW r \in Req, RecountFails(r)
       PROVE  CommittedEffectsOwed'
    BY <1>19 DEF RecountFails, Deferred, Fault, IsOpen, txVars, reqVars,
                 effectVars
  <1>20. CASE UNCHANGED vars
    BY <1>20 DEF vars, txVars, reqVars, effectVars
  <1> QED
    BY <1>1, <1>2, <1>3, <1>4, <1>5, <1>6, <1>7, <1>8, <1>9, <1>10, <1>11,
       <1>12, <1>13, <1>14, <1>15, <1>16, <1>17, <1>18, <1>19, <1>20
    DEF Next, Step, Arrive

-----------------------------------------------------------------------------
(* The conjunction is inductive, hence holds in every reachable state.      *)
THEOREM Invariance == Spec => []IndInv
  <1>1. Init => IndInv
    BY NoTxAssumption, BoundsAssumption
    DEF Init, IndInv, TypeOK, Status, Timer, Driver, DB, PC, Op, Reply, EntryInv,
        RequestInv, FailureInv, SingleFinalizer, InFlight, AnsweredMeansFreed,
        CommittedEffectsOwed, LostEffects
  <1>2. IndInv /\ [Next]_vars => IndInv'
    <2> SUFFICES ASSUME IndInv, [Next]_vars PROVE IndInv'
      OBVIOUS
    <2>1. TypeOK'
      BY TypeStep DEF IndInv
    <2> QED
      BY <2>1, EntryStep, RequestStep, FailureStep, FinalizerStep, FreedStep, OwedStep
      DEF IndInv
  <1> QED
    BY <1>1, <1>2, PTL DEF Spec

(* The variables always have their types.                                   *)
THEOREM TypeCorrect == Spec => []TypeOK
  <1>1. IndInv => TypeOK
    BY DEF IndInv
  <1> QED
    BY <1>1, Invariance, PTL

(* At most one commit or rollback of a transaction is on its way to the     *)
(* database at any time (commitTransaction, rollbackTransaction).           *)
THEOREM OneFinalizer == Spec => []SingleFinalizer
  <1>1. IndInv => SingleFinalizer
    BY DEF IndInv
  <1> QED
    BY <1>1, Invariance, PTL

(* An accepted rollback is never followed by a commit of the transaction.   *)
THEOREM RollbackIsFinal == Spec => []RollbackHonoured
  <1>1. IndInv => RollbackHonoured
    <2> SUFFICES ASSUME IndInv, NEW r \in Req,
                        \/ pc[r] \in {"rollback_sent", "clean", "closing"} /\ op[r] # "commit"
                        \/ reply[r] = "rolled_back"
                 PROVE  /\ db[target[r]] # "committed"
                        /\ \A q \in InFlight(target[r]) : pc[q] # "commit_sent"
      BY DEF RollbackHonoured
    <2>1. target[r] \in Tx /\ driver[target[r]] \in {"rolled_back", "failed"}
      BY DEF IndInv, TypeOK, PC, RequestInv
    <2>2. db[target[r]] # "committed"
      BY <2>1 DEF IndInv, EntryInv
    <2>3. \A q \in InFlight(target[r]) : pc[q] # "commit_sent"
      BY <2>1 DEF IndInv, RequestInv, InFlight
    <2> QED
      BY <2>2, <2>3
  <1> QED
    BY <1>1, Invariance, PTL

(* "Committed" or "rolled back" is answered once the entry left the map.    *)
THEOREM AnsweredEntriesAreFreed == Spec => []AnsweredMeansFreed
  <1>1. IndInv => AnsweredMeansFreed
    BY DEF IndInv
  <1> QED
    BY <1>1, Invariance, PTL

(* Deferred side effects stay owed until a recount saw the commit.          *)
THEOREM EffectsStayOwed == Spec => []CommittedEffectsOwed
  <1>1. IndInv => CommittedEffectsOwed
    BY DEF IndInv
  <1> QED
    BY <1>1, Invariance, PTL

(* A commit is accepted by commitTransaction only, for an entry of the map  *)
(* whose driver object is active.                                           *)
LEMMA AcceptedMeansOpen ==
  ASSUME TypeOK, [Next]_vars, NEW q \in Req, pc[q] = "idle", pc'[q] = "commit_sent"
  PROVE  target'[q] \in transactions /\ driver[target'[q]] = "active"
  <1> DEFINE Goal == target'[q] \in transactions /\ driver[target'[q]] = "active"
  <1> USE DEF TypeOK, Status, Timer, Driver, DB, PC, Op, Reply
  <1>1. ASSUME NEW t \in Tx, CreateTransaction(t)
       PROVE  Goal
    BY <1>1 DEF CreateTransaction, txVars, reqVars, effectVars
  <1>2. ASSUME NEW t \in Tx, TimerFires(t)
       PROVE  Goal
    BY <1>2 DEF TimerFires, txVars, reqVars, effectVars
  <1>3. ASSUME NEW t \in Tx, DatabaseAborts(t)
       PROVE  Goal
    BY <1>3 DEF DatabaseAborts, txVars, reqVars, effectVars
  <1>4. ASSUME NEW r \in Req, NEW t \in Tx, AttachTransaction(r, t)
       PROVE  Goal
    BY <1>4 DEF AttachTransaction, Route, Answer, txVars, reqVars, effectVars
  <1>5. ASSUME NEW r \in Req, NEW t \in Tx, CommitTransaction(r, t)
       PROVE  Goal
    BY <1>5 DEF CommitTransaction, Route, Answer, IsOpen, txVars, reqVars, effectVars
  <1>6. ASSUME NEW r \in Req, NEW t \in Tx, PostRollback(r, t)
       PROVE  Goal
    BY <1>6 DEF PostRollback, Route, RollbackTransaction, Answer, IsOpen,
                txVars, reqVars, effectVars
  <1>7. ASSUME NEW r \in Req, CommitReturns(r)
       PROVE  Goal
    BY <1>7 DEF CommitReturns, txVars, reqVars, effectVars
  <1>8. ASSUME NEW r \in Req, RollbackReturns(r)
       PROVE  Goal
    BY <1>8 DEF RollbackReturns, txVars, reqVars, effectVars
  <1>9. ASSUME NEW r \in Req, Clean(r)
       PROVE  Goal
    BY <1>9 DEF Clean, Answer, Outcome, IsOpen, txVars, reqVars, effectVars
  <1>10. ASSUME NEW r \in Req, CleanReturns(r)
       PROVE  Goal
    BY <1>10 DEF CleanReturns, Answer, Outcome, txVars, reqVars, effectVars
  <1>11. ASSUME NEW r \in Req, CleanThrows(r)
       PROVE  Goal
    BY <1>11 DEF CleanThrows, Fault, Answer, txVars, reqVars, effectVars
  <1>12. ASSUME NEW r \in Req, RunStatement(r)
       PROVE  Goal
    BY <1>12 DEF RunStatement, IsOpen, txVars, reqVars, effectVars
  <1>13. ASSUME NEW r \in Req, HandlerReturns(r)
       PROVE  Goal
    BY <1>13 DEF HandlerReturns, Answer, txVars, reqVars, effectVars
  <1>14. ASSUME NEW r \in Req, HandlerThrows(r)
       PROVE  Goal
    BY <1>14 DEF HandlerThrows, txVars, reqVars, effectVars
  <1>15. ASSUME NEW r \in Req, ExceptionFilter(r)
       PROVE  Goal
    BY <1>15 DEF ExceptionFilter, RollbackTransaction, Answer, IsOpen,
                 txVars, reqVars, effectVars
  <1>16. ASSUME NEW r \in Req, RunHooks(r)
       PROVE  Goal
    BY <1>16 DEF RunHooks, Deferred, IsOpen, txVars, reqVars, effectVars
  <1>17. ASSUME NEW r \in Req, Disconnect(r)
       PROVE  Goal
    BY <1>17 DEF Disconnect, txVars, reqVars, effectVars
  <1>18. ASSUME Crash
       PROVE  Goal
    BY <1>18 DEF Crash, txVars, reqVars, effectVars
  <1>19. ASSUME NEW r \in Req, RecountFails(r)
       PROVE  Goal
    BY <1>19 DEF RecountFails, Deferred, Fault, IsOpen, txVars, reqVars,
                 effectVars
  <1>20. CASE UNCHANGED vars
    BY <1>20 DEF vars, txVars, reqVars, effectVars
  <1> QED
    BY <1>1, <1>2, <1>3, <1>4, <1>5, <1>6, <1>7, <1>8, <1>9, <1>10, <1>11,
       <1>12, <1>13, <1>14, <1>15, <1>16, <1>17, <1>18, <1>19, <1>20
    DEF Next, Step, Arrive

(* No commit is accepted for a transaction in which a request failed while  *)
(* its TTL had not elapsed.                                                 *)
THEOREM FailedIsNotCommitted == Spec => FailureBlocksCommit
  <1> DEFINE Blocked == \A t \in Tx : FailedWithin(t) /\ CommitAccepted(t) => timer[t] = "fired"
  <1>1. IndInv /\ [Next]_vars => [Blocked]_vars
    <2> SUFFICES ASSUME IndInv, [Next]_vars, NEW t \in Tx, FailedWithin(t), CommitAccepted(t)
                 PROVE  timer[t] = "fired"
      OBVIOUS
    <2>1. t \in transactions /\ driver[t] = "active"
      BY AcceptedMeansOpen DEF CommitAccepted, IndInv
    <2>2. PICK q \in writes[t] : op[q] = "write" /\ reply[q] = "error"
      BY DEF FailedWithin
    <2>3. q \in Req /\ target[q] = t
      BY <2>2 DEF IndInv, TypeOK, FailureInv
    <2> QED
      BY <2>1, <2>2, <2>3 DEF IndInv, FailureInv
  <1> QED
    BY <1>1, Invariance, PTL DEF Spec, FailureBlocksCommit
=============================================================================
