----------------------- MODULE RequestLifecycleProofs -----------------------
(***************************************************************************)
(* Proofs about RequestLifecycle, for any number of requests and faults:    *)
(* types, nothing left open, no write of a failed request, and no effect    *)
(* without a success.                                                       *)
(***************************************************************************)
EXTENDS RequestLifecycle, TLAPS

TxState == {"none", "open", "timedOut", "committed", "refused", "aborted"}
TxTypes == [Request -> [Db -> TxState]]

(* Where a commit, a rollback and a time-out leave the transactions.        *)
LEMMA CommitTypes ==
  ASSUME TypeOK, NEW r \in Request, NEW d \in Db, Commit(r, d)
  PROVE  /\ tx' \in TxTypes /\ session' \in [Request -> SUBSET Db]
         /\ faults' \in 0..MaxFaults
<1>1. tx \in TxTypes /\ session \in [Request -> SUBSET Db] /\ faults \in 0..MaxFaults
  BY DEF TypeOK, TxTypes, TxState
<1>2. tx' \in TxTypes
  <2>1. \A s \in TxState : [tx EXCEPT ![r][d] = s] \in TxTypes
    BY <1>1 DEF TxTypes
  <2> QED
    BY <1>1, <2>1 DEF Commit, TxState
<1>3. session' \in [Request -> SUBSET Db]
  BY <1>1 DEF Commit
<1>4. faults' \in 0..MaxFaults
  BY <1>1, FaultsAssumption DEF Commit, Fault, NoFault
<1> QED
  BY <1>2, <1>3, <1>4

LEMMA RollbackTypes ==
  ASSUME TypeOK, NEW r \in Request, NEW D \in SUBSET Db, Rollback(r, D)
  PROVE  /\ tx' \in TxTypes /\ session' \in [Request -> SUBSET Db]
  BY DEF TypeOK, Rollback, TxTypes, TxState

LEMMA FinalizeTypes ==
  ASSUME TypeOK, NEW r \in Request, NEW d \in Db, Finalize(r, d)
  PROVE  /\ tx' \in TxTypes /\ session' \in [Request -> SUBSET Db]
         /\ faults' \in 0..MaxFaults
<1>1. CASE Success(r) /\ Commit(r, d)
  BY <1>1, CommitTypes
<1>2. CASE ~Success(r) /\ Rollback(r, {d}) /\ NoFault
  <2>1. {d} \in SUBSET Db
    OBVIOUS
  <2> QED
    BY <1>2, <2>1, RollbackTypes DEF NoFault, TypeOK
<1> QED
  BY <1>1, <1>2 DEF Finalize

(* What a request does on its way through the pipeline.                     *)
LEMMA HandleTypes ==
  ASSUME TypeOK, NEW r \in Request, Handle(r)
  PROVE  TypeOK'
<1> USE DEF TypeOK, Goto, txVars, cleanVars, effectVars
<1>1. CASE Attach(r)
  <2>1. tx' \in TxTypes
    BY <1>1 DEF Attach, TxTypes, TxState
  <2>2. session' \in [Request -> SUBSET Db]
    BY <1>1 DEF Attach, Db
  <2>3. faults' \in 0..MaxFaults
    BY <1>1, FaultsAssumption DEF Attach, Fault, NoFault
  <2> QED
    BY <1>1, <2>1, <2>2, <2>3 DEF Attach, TxTypes, TxState
<1>2. CASE Refuse(r)
  BY <1>2 DEF Refuse
<1>3. CASE Enter(r)
  BY <1>3 DEF Enter
<1>4. CASE Write(r)
  <2>1. Preferred(r) \in Db
    BY DEF Preferred, Db
  <2>2. target' \in [Request -> Db \cup {"none"}]
    <3>1. target' = target \/ target' = [target EXCEPT ![r] = Preferred(r)]
      BY <1>4 DEF Write
    <3>2. target \in [Request -> Db \cup {"none"}]
      OBVIOUS
    <3> QED
      BY <2>1, <3>1, <3>2
  <2>3. pc' = [pc EXCEPT ![r] = "written"] \/ pc' = [pc EXCEPT ![r] = "thrown"]
    BY <1>4 DEF Write
  <2>4. pc' \in [Request -> {"new", "guard", "handler", "released", "waiting",
                             "written", "returned", "thrown", "filter", "ended"}]
    BY <2>3
  <2>5. UNCHANGED <<kind, customDb, tx, session, attached, cleanUp, by, gone, hook,
                    seen, response, faults>>
    BY <1>4 DEF Write
  <2> QED
    BY <2>2, <2>4, <2>5
<1>5. CASE Release(r)
  <2>1. "internal" \in Db
    BY DEF Db
  <2> QED
    BY <1>5, <2>1, CommitTypes DEF Release, TxTypes, TxState
<1>6. CASE ReleaseExternal(r)
  <2>1. "external" \in Db
    BY DEF Db
  <2> QED
    BY <1>6, <2>1, CommitTypes DEF ReleaseExternal, TxTypes, TxState
<1>7. CASE Return(r)
  BY <1>7 DEF Return
<1>8. CASE Throw(r)
  BY <1>8 DEF Throw
<1>9. CASE Catch(r)
  BY <1>9 DEF Catch
<1>10. CASE Answer(r)
  BY <1>10 DEF Answer
<1>11. CASE Rethrow(r)
  BY <1>11 DEF Rethrow
<1>12. CASE Filter(r)
  <2>1. tx' \in TxTypes /\ session' \in [Request -> SUBSET Db]
    BY <1>12, RollbackTypes DEF Filter, TxTypes, TxState
  <2> QED
    BY <1>12, <2>1 DEF Filter, TxTypes, TxState
<1> QED
  BY <1>1, <1>2, <1>3, <1>4, <1>5, <1>6, <1>7, <1>8, <1>9, <1>10, <1>11, <1>12
     DEF Handle

(* Every variable keeps its type.                                           *)
THEOREM TypeCorrect == Spec => []TypeOK
<1>1. Init => TypeOK
  BY FaultsAssumption DEF Init, TypeOK, Db
<1>2. ASSUME TypeOK, [Next]_vars PROVE TypeOK'
  <2>1. CASE UNCHANGED vars
    BY <1>2, <2>1 DEF TypeOK, vars, txVars, cleanVars, effectVars
  <2>2. ASSUME NEW r \in Request, Handle(r) PROVE TypeOK'
    BY <1>2, <2>2, HandleTypes
  <2>3. ASSUME NEW r \in Request, CleanUpInternal(r) PROVE TypeOK'
    <3>1. "internal" \in Db
      BY DEF Db
    <3> QED
      BY <1>2, <2>3, <3>1, FinalizeTypes
        DEF CleanUpInternal, TypeOK, TxTypes, TxState, effectVars
  <2>4. ASSUME NEW r \in Request, CleanUpExternal(r) PROVE TypeOK'
    <3>1. "external" \in Db
      BY DEF Db
    <3> QED
      BY <1>2, <2>4, <3>1, FinalizeTypes
        DEF CleanUpExternal, TypeOK, TxTypes, TxState, Drains
  <2>5. ASSUME NEW r \in Request, Recount(r) PROVE TypeOK'
    BY <1>2, <2>5 DEF Recount, Graph, TypeOK, txVars, cleanVars
  <2>6. ASSUME NEW r \in Request, RecountFails(r) PROVE TypeOK'
    BY <1>2, <2>6, FaultsAssumption DEF RecountFails, Fault, TypeOK, txVars, cleanVars
  <2>7. ASSUME NEW r \in Request, Close(r) PROVE TypeOK'
    BY <1>2, <2>7 DEF Close, TypeOK, txVars, cleanVars, effectVars
  <2>8. ASSUME NEW r \in Request, NEW d \in Db, TimeOut(r, d) PROVE TypeOK'
    BY <1>2, <2>8 DEF TimeOut, TypeOK, cleanVars, effectVars
  <2> QED
    BY <1>2, <2>1, <2>2, <2>3, <2>4, <2>5, <2>6, <2>7, <2>8 DEF Next, DoCleanUp
<1> QED
  BY <1>1, <1>2, PTL DEF Spec

(***************************************************************************)
(* The invariant. A request is looked at by itself: what it is doing, its   *)
(* cleanup, and its transactions go together.                               *)
(***************************************************************************)
(* Who has called doCleanup, and what the handler had come to.              *)
Caller(r) ==
  /\ pc[r] \in {"new", "guard"} => cleanUp[r] = "none" /\ hook[r] = "none"
  /\ by[r] = "none" <=> cleanUp[r] = "none"
  /\ by[r] = "handler" => pc[r] \in {"returned", "ended"} /\ response[r] # "error"
  /\ response[r] # "none" => pc[r] = "ended"
  /\ hook[r] \in {"drained", "over"} => by[r] = "handler" /\ cleanUp[r] = "done"

(* Only a cleanup after a success commits what a handler has written, and   *)
(* any other, or the exception filter, rolls back.                          *)
Written(r) ==
  /\ kind[r] = "release" => target[r] = "none"
  /\ pc[r] = "released" => kind[r] = "release"
  /\ \A d \in Db : target[r] = d /\ tx[r][d] = "committed" => by[r] = "handler"
  /\ \A d \in Db : tx[r][d] = "aborted" =>
       by[r] \in {"error", "close"} \/ (pc[r] = "ended" /\ by[r] = "none")

Closed(r, d) == ~IsOpen(r, d) /\ d \notin session[r]

(* What is closed when.                                                     *)
Freed(r) ==
  /\ cleanUp[r] \in {"external", "done"} => Closed(r, "internal")
  /\ cleanUp[r] = "done" => Closed(r, "external")
  /\ pc[r] = "guard" => attached[r]
  /\ pc[r] = "filter" /\ cleanUp[r] = "none" => attached[r]
  /\ pc[r] = "ended" /\ cleanUp[r] = "none" => \A d \in Db : Closed(r, d)

Good(r) == Caller(r) /\ Written(r) /\ Freed(r)

Inv == TypeOK /\ \A r \in Request : Good(r)

(* The step does not touch request q.                                       *)
Same(q) ==
  /\ kind'[q] = kind[q] /\ pc'[q] = pc[q] /\ tx'[q] = tx[q] /\ session'[q] = session[q]
  /\ attached'[q] = attached[q] /\ target'[q] = target[q] /\ cleanUp'[q] = cleanUp[q]
  /\ by'[q] = by[q] /\ hook'[q] = hook[q] /\ response'[q] = response[q]

LEMMA SameStaysGood ==
  ASSUME NEW q \in Request, Good(q), Same(q)
  PROVE  Good(q)'
  BY DEF Good, Caller, Written, Freed, Closed, IsOpen, Same

(* What ends transactions on D: nothing is opened, D is closed, and only    *)
(* what may be committed is.                                                *)
Ends(r, D) ==
  /\ \A d \in D : Closed(r, d)'
  /\ \A d \in Db : Closed(r, d) => Closed(r, d)'
  /\ \A q \in Request : q # r => tx'[q] = tx[q] /\ session'[q] = session[q]

LEMMA CommitEnds ==
  ASSUME TypeOK, NEW r \in Request, NEW d \in Db, Commit(r, d)
  PROVE  /\ Ends(r, {d})
         /\ \A e \in Db : tx'[r][e] = "aborted" => tx[r][e] = "aborted"
<1>1. /\ tx'[r][d] \notin {"open", "timedOut"}
      /\ tx'[r][d] = "aborted" => tx[r][d] = "aborted"
      /\ \A e \in Db : e # d => tx'[r][e] = tx[r][e]
      /\ \A q \in Request : q # r => tx'[q] = tx[q]
  BY DEF Commit, TypeOK, IsOpen
<1>2. /\ session'[r] = session[r] \ {d}
      /\ \A q \in Request : q # r => session'[q] = session[q]
  BY DEF Commit, TypeOK
<1> QED
  BY <1>1, <1>2 DEF Ends, Closed, IsOpen

LEMMA RollbackEnds ==
  ASSUME TypeOK, NEW r \in Request, NEW D \in SUBSET Db, Rollback(r, D)
  PROVE  /\ Ends(r, D)
         /\ \A d \in Db : tx'[r][d] = "committed" => tx[r][d] = "committed"
<1>1. /\ \A d \in Db : tx'[r][d] = IF d \in D /\ IsOpen(r, d) THEN "aborted" ELSE tx[r][d]
      /\ \A q \in Request : q # r => tx'[q] = tx[q]
  BY DEF Rollback, TypeOK
<1>2. /\ session'[r] = session[r] \ D
      /\ \A q \in Request : q # r => session'[q] = session[q]
  BY DEF Rollback, TypeOK
<1> QED
  BY <1>1, <1>2 DEF Ends, Closed, IsOpen

LEMMA FinalizeEnds ==
  ASSUME TypeOK, NEW r \in Request, NEW d \in Db, Finalize(r, d)
  PROVE  /\ Ends(r, {d})
         /\ by[r] # "handler" =>
              \A e \in Db : tx'[r][e] = "committed" => tx[r][e] = "committed"
         /\ by[r] = "handler" =>
              \A e \in Db : tx'[r][e] = "aborted" => tx[r][e] = "aborted"
<1>1. CASE Success(r) /\ Commit(r, d)
  BY <1>1, CommitEnds DEF Success
<1>2. CASE ~Success(r) /\ Rollback(r, {d}) /\ NoFault
  <2>1. {d} \in SUBSET Db
    OBVIOUS
  <2> QED
    BY <1>2, <2>1, RollbackEnds DEF Success
<1> QED
  BY <1>1, <1>2 DEF Finalize

LEMMA BothDb == "internal" \in Db /\ "external" \in Db /\ Db = {"internal", "external"}
  BY DEF Db

(* A step of the pipeline keeps its request good.                           *)
LEMMA HandleGood ==
  ASSUME Inv, NEW r \in Request, Handle(r)
  PROVE  Good(r)'
<1> USE DEF Inv, Goto, txVars, cleanVars, effectVars
<1>0. TypeOK /\ Good(r)
  OBVIOUS
<1>1. CASE Attach(r)
  <2>1. /\ pc'[r] = "guard" /\ attached'[r] /\ UNCHANGED <<cleanUp, by, hook, kind, target, response>>
        /\ pc[r] = "new"
    BY <1>0, <1>1 DEF Attach, TypeOK
  <2>2. \A d \in Db : tx'[r][d] \notin {"committed", "aborted"}
    BY <1>0, <1>1 DEF Attach, TypeOK
  <2> QED
    BY <1>0, <2>1, <2>2 DEF Good, Caller, Written, Freed
<1>2. CASE Refuse(r)
  BY <1>0, <1>2 DEF Refuse, TypeOK, Good, Caller, Written, Freed, Closed, IsOpen
<1>3. CASE Enter(r)
  BY <1>0, <1>3 DEF Enter, TypeOK, Good, Caller, Written, Freed, Closed, IsOpen
<1>4. CASE Write(r)
  BY <1>0, <1>4 DEF Write, TypeOK, Good, Caller, Written, Freed, Closed, IsOpen
<1>5. CASE Release(r)
  <2>1. /\ Ends(r, {"internal"})
        /\ \A e \in Db : tx'[r][e] = "aborted" => tx[r][e] = "aborted"
    BY <1>0, <1>5, BothDb, CommitEnds DEF Release
  <2>2. /\ pc'[r] = "released" /\ pc[r] = "handler" /\ kind[r] = "release"
        /\ UNCHANGED <<cleanUp, by, hook, kind, target, response>>
    BY <1>0, <1>5 DEF Release, TypeOK
  <2> QED
    BY <1>0, <2>1, <2>2, BothDb DEF Good, Caller, Written, Freed, Ends
<1>6. CASE ReleaseExternal(r)
  <2>1. /\ Ends(r, {"external"})
        /\ \A e \in Db : tx'[r][e] = "aborted" => tx[r][e] = "aborted"
    BY <1>0, <1>6, BothDb, CommitEnds DEF ReleaseExternal
  <2>2. /\ pc'[r] = "waiting" /\ pc[r] = "released"
        /\ UNCHANGED <<cleanUp, by, hook, kind, target, response>>
    BY <1>0, <1>6 DEF ReleaseExternal, TypeOK
  <2> QED
    BY <1>0, <2>1, <2>2, BothDb DEF Good, Caller, Written, Freed, Ends
<1>7. CASE Return(r)
  BY <1>0, <1>7 DEF Return, TypeOK, Good, Caller, Written, Freed, Closed, IsOpen
<1>8. CASE Throw(r)
  BY <1>0, <1>8 DEF Throw, TypeOK, Good, Caller, Written, Freed, Closed, IsOpen
<1>9. CASE Catch(r)
  BY <1>0, <1>9 DEF Catch, TypeOK, Good, Caller, Written, Freed, Closed, IsOpen
<1>10. CASE Answer(r)
  BY <1>0, <1>10 DEF Answer, Cleaned, TypeOK, Good, Caller, Written, Freed, Closed, IsOpen
<1>11. CASE Rethrow(r)
  BY <1>0, <1>11 DEF Rethrow, Cleaned, TypeOK, Good, Caller, Written, Freed, Closed, IsOpen
<1>12. CASE Filter(r)
  <2>1. /\ pc'[r] = "ended" /\ pc[r] = "filter" /\ UNCHANGED <<cleanUp, by, hook, kind, target>>
    BY <1>0, <1>12 DEF Filter, TypeOK
  <2>2. /\ \A d \in Db : Closed(r, d) => Closed(r, d)'
        /\ \A d \in Db : tx'[r][d] = "committed" => tx[r][d] = "committed"
        /\ attached[r] => \A d \in Db : Closed(r, d)'
    <3>1. CASE attached[r]
      BY <1>0, <1>12, <3>1, RollbackEnds DEF Filter, Ends
    <3>2. CASE ~attached[r]
      BY <1>0, <1>12, <3>2 DEF Filter, Closed, IsOpen
    <3> QED
      BY <3>1, <3>2
  <2>3. Caller(r)'
    BY <1>0, <2>1 DEF Good, Caller
  <2>4. Written(r)'
    <3>1. by[r] # "handler"
      BY <1>0, <2>1 DEF Good, Caller
    <3>2. by[r] \in {"error", "close", "none"}
      BY <1>0, <3>1 DEF TypeOK
    <3> QED
      BY <1>0, <2>1, <2>2, <3>2 DEF Good, Written
  <2>5. Freed(r)'
    BY <1>0, <2>1, <2>2, BothDb DEF Good, Freed
  <2> QED
    BY <2>3, <2>4, <2>5 DEF Good
<1> QED
  BY <1>1, <1>2, <1>3, <1>4, <1>5, <1>6, <1>7, <1>8, <1>9, <1>10, <1>11, <1>12
     DEF Handle

(* ... and so does a step of its cleanup.                                   *)
LEMMA CleanUpGood ==
  ASSUME Inv, NEW r \in Request, DoCleanUp(r)
  PROVE  Good(r)'
<1>0. TypeOK /\ Good(r)
  BY DEF Inv
<1>1. CASE CleanUpInternal(r)
  <2>1. /\ Ends(r, {"internal"})
        /\ by[r] # "handler" =>
             \A e \in Db : tx'[r][e] = "committed" => tx[r][e] = "committed"
        /\ by[r] = "handler" =>
             \A e \in Db : tx'[r][e] = "aborted" => tx[r][e] = "aborted"
    BY <1>0, <1>1, BothDb, FinalizeEnds DEF CleanUpInternal
  <2>2. /\ cleanUp[r] = "internal" /\ cleanUp'[r] = "external"
        /\ UNCHANGED <<pc, by, hook, kind, target, response, attached>>
    BY <1>0, <1>1 DEF CleanUpInternal, TypeOK, effectVars
  <2>3. Caller(r)'
    BY <1>0, <2>2 DEF Good, Caller
  <2>4. Written(r)'
    <3>1. by[r] # "handler" => by[r] \in {"error", "close"}
      BY <1>0, <2>2 DEF TypeOK, Good, Caller
    <3> QED
      BY <1>0, <2>1, <2>2, <3>1 DEF Good, Written
  <2>5. Freed(r)'
    BY <1>0, <2>1, <2>2, BothDb DEF Good, Caller, Freed, Ends
  <2> QED
    BY <2>3, <2>4, <2>5 DEF Good
<1>2. CASE CleanUpExternal(r)
  <2>1. /\ Ends(r, {"external"})
        /\ by[r] # "handler" =>
             \A e \in Db : tx'[r][e] = "committed" => tx[r][e] = "committed"
        /\ by[r] = "handler" =>
             \A e \in Db : tx'[r][e] = "aborted" => tx[r][e] = "aborted"
    BY <1>0, <1>2, BothDb, FinalizeEnds DEF CleanUpExternal
  <2>2. /\ cleanUp[r] = "external" /\ cleanUp'[r] = "done"
        /\ UNCHANGED <<pc, by, kind, target, response>>
        /\ hook'[r] \in {"drained", "over"} =>
             by[r] = "handler" \/ hook[r] \in {"drained", "over"}
    BY <1>0, <1>2 DEF CleanUpExternal, TypeOK, Drains, Success
  <2>3. Caller(r)'
    BY <1>0, <2>2 DEF Good, Caller
  <2>4. Written(r)'
    <3>1. by[r] # "handler" => by[r] \in {"error", "close"}
      BY <1>0, <2>2 DEF TypeOK, Good, Caller
    <3> QED
      BY <1>0, <2>1, <2>2, <3>1 DEF Good, Written
  <2>5. Freed(r)'
    BY <1>0, <2>1, <2>2, BothDb DEF Good, Caller, Freed, Ends
  <2> QED
    BY <2>3, <2>4, <2>5 DEF Good
<1> QED
  BY <1>1, <1>2 DEF DoCleanUp

(* The rest of what can happen to a request.                                *)
LEMMA OtherGood ==
  ASSUME Inv, NEW r \in Request,
         Recount(r) \/ RecountFails(r) \/ Close(r) \/ \E d \in Db : TimeOut(r, d)
  PROVE  Good(r)'
<1>0. TypeOK /\ Good(r)
  BY DEF Inv
<1> USE DEF txVars, cleanVars, effectVars
<1>1. CASE Recount(r) \/ RecountFails(r)
  BY <1>0, <1>1 DEF Recount, RecountFails, TypeOK, Good, Caller, Written, Freed, Closed, IsOpen
<1>2. CASE Close(r)
  BY <1>0, <1>2 DEF Close, TypeOK, Good, Caller, Written, Freed, Closed, IsOpen
<1>3. ASSUME NEW d \in Db, TimeOut(r, d) PROVE Good(r)'
  <2>1. /\ tx'[r][d] = "timedOut" /\ tx[r][d] = "open"
        /\ \A e \in Db : e # d => tx'[r][e] = tx[r][e]
        /\ UNCHANGED <<pc, by, hook, kind, target, response, attached, cleanUp, session>>
    BY <1>0, <1>3 DEF TimeOut, TypeOK
  <2> QED
    BY <1>0, <2>1, BothDb DEF Good, Caller, Written, Freed, Closed, IsOpen
<1> QED
  BY <1>1, <1>2, <1>3

(* A step of one request leaves the others as they are.                     *)
LEMMA OthersSame ==
  ASSUME TypeOK, NEW r \in Request, NEW q \in Request, q # r,
         \/ Handle(r) \/ DoCleanUp(r) \/ Recount(r) \/ RecountFails(r) \/ Close(r)
         \/ \E d \in Db : TimeOut(r, d)
  PROVE  Same(q)
<1> USE DEF Same, Goto, txVars, cleanVars, effectVars
<1>1. CASE Attach(r)
  BY <1>1 DEF TypeOK, Attach
<1>2. CASE Refuse(r) \/ Enter(r) \/ Write(r) \/ Return(r) \/ Throw(r) \/ Catch(r)
             \/ Answer(r) \/ Rethrow(r)
  BY <1>2 DEF TypeOK, Refuse, Enter, Write, Return, Throw, Catch, Answer, Rethrow
<1>3. CASE Release(r)
  BY <1>3, BothDb, CommitEnds DEF TypeOK, Release, Ends
<1>4. CASE ReleaseExternal(r)
  BY <1>4, BothDb, CommitEnds DEF TypeOK, ReleaseExternal, Ends
<1>5. CASE Filter(r)
  <2>1. tx'[q] = tx[q] /\ session'[q] = session[q]
    BY <1>5, RollbackEnds DEF Filter, Ends
  <2> QED
    BY <1>5, <2>1 DEF TypeOK, Filter
<1>6. CASE CleanUpInternal(r)
  <2>1. tx'[q] = tx[q] /\ session'[q] = session[q]
    BY <1>6, BothDb, FinalizeEnds DEF CleanUpInternal, Ends
  <2> QED
    BY <1>6, <2>1 DEF TypeOK, CleanUpInternal
<1>7. CASE CleanUpExternal(r)
  <2>1. tx'[q] = tx[q] /\ session'[q] = session[q]
    BY <1>7, BothDb, FinalizeEnds DEF CleanUpExternal, Ends
  <2> QED
    BY <1>7, <2>1 DEF TypeOK, CleanUpExternal
<1>8. CASE Recount(r) \/ RecountFails(r) \/ Close(r)
  BY <1>8 DEF TypeOK, Recount, RecountFails, Close
<1>9. CASE \E d \in Db : TimeOut(r, d)
  BY <1>9 DEF TypeOK, TimeOut
<1> QED
  BY <1>1, <1>2, <1>3, <1>4, <1>5, <1>6, <1>7, <1>8, <1>9 DEF Handle, DoCleanUp

(* The invariant holds in every state.                                      *)
THEOREM InvariantHolds == Spec => []Inv
<1>1. Init => \A r \in Request : Good(r)
  BY DEF Init, Good, Caller, Written, Freed, Kind
<1>2. ASSUME Inv, TypeOK', [Next]_vars PROVE Inv'
  <2>1. SUFFICES ASSUME NEW q \in Request PROVE Good(q)'
    BY <1>2 DEF Inv
  <2>2. TypeOK /\ Good(q)
    BY <1>2 DEF Inv
  <2>3. CASE UNCHANGED vars
    <3>1. Same(q)
      BY <2>3 DEF vars, Same, txVars, cleanVars, effectVars
    <3> QED
      BY <2>2, <3>1, SameStaysGood
  <2>4. CASE Next
    <3>1. PICK r \in Request :
            \/ Handle(r) \/ DoCleanUp(r) \/ Recount(r) \/ RecountFails(r) \/ Close(r)
            \/ \E d \in Db : TimeOut(r, d)
      BY <2>4 DEF Next
    <3>2. CASE q = r
      BY <1>2, <3>1, <3>2, HandleGood, CleanUpGood, OtherGood
    <3>3. CASE q # r
      <4>1. Same(q)
        BY <2>2, <3>1, <3>3, OthersSame
      <4> QED
        BY <2>2, <4>1, SameStaysGood
    <3> QED
      BY <3>2, <3>3
  <2> QED
    BY <1>2, <2>3, <2>4
<1> QED
  BY <1>1, <1>2, TypeCorrect, PTL DEF Spec, Inv

(* Middlewares, early release, interceptor and filter leave nothing of an   *)
(* answered request open, whoever of them closed it.                        *)
THEOREM AllIsClosed == Spec => []NothingLeftOpen
<1>1. Inv => NothingLeftOpen
  BY BothDb DEF Inv, TypeOK, Good, Freed, Closed, Open, NothingLeftOpen
<1> QED
  BY <1>1, InvariantHolds, PTL

(* A request that was refused, has thrown or lost its client commits no     *)
(* write.                                                                   *)
THEOREM OnlySuccessCommits == Spec => []FailedWritesNothing
<1>1. Inv => FailedWritesNothing
  BY DEF Inv, Good, Caller, Written, Graph, Success, FailedWritesNothing
<1> QED
  BY <1>1, InvariantHolds, PTL

(* Side effects begin when both transactions have been sent their commit,   *)
(* and after no rollback.                                                   *)
THEOREM EffectsComeLast == Spec => []EffectsFollowCommit
<1>1. ASSUME Inv, NEW r \in Request, hook[r] \in {"drained", "over"}
      PROVE  /\ Success(r) /\ response[r] # "error"
             /\ \A d \in Db : tx[r][d] \in {"none", "committed", "refused"}
  <2>1. by[r] = "handler" /\ cleanUp[r] = "done" /\ response[r] # "error"
    BY <1>1 DEF Inv, Good, Caller
  <2>2. ASSUME NEW d \in Db PROVE tx[r][d] \notin {"open", "timedOut", "aborted"}
    BY <1>1, <2>1, BothDb DEF Inv, Good, Written, Freed, Closed, IsOpen
  <2>3. \A d \in Db : tx[r][d] \in TxState
    BY <1>1 DEF Inv, TypeOK, TxState
  <2> QED
    BY <2>1, <2>2, <2>3 DEF Success, TxState
<1>2. Inv => EffectsFollowCommit
  BY <1>1 DEF EffectsFollowCommit
<1> QED
  BY <1>2, InvariantHolds, PTL

(***************************************************************************)
(* Recounts. What has been committed and is not yet counted has a hook that *)
(* is still to run.                                                         *)
(***************************************************************************)
(* The hook of a request, its cleanup, and where it has written.            *)
Hooked(r) ==
  /\ pc[r] \in {"new", "guard", "handler"} => target[r] = "none"
  /\ target[r] # "none" => target[r] = Preferred(r)
  /\ by[r] = "handler" /\ kind[r] = "write" => hook[r] # "none"
  /\ by[r] = "handler" /\ hook[r] = "pushed" => cleanUp[r] # "done"
  /\ by[r] = "handler" /\ pc[r] = "ended" => cleanUp[r] = "done"
  /\ hook[r] # "over" => seen[r] = {}

Pending == {r \in Request : hook[r] \in {"pushed", "drained"}}

Counted(d) ==
  Graph(d) # {} => \/ Graph(d) \cap Pending # {}
                   \/ \E r \in Request : Graph(d) \subseteq seen[r]

CountInv ==
  /\ Inv
  /\ \A r \in Request : Hooked(r)
  /\ faults = 0 => \A d \in Db : Counted(d)

(* A step of a request.                                                     *)
StepOf(r) ==
  \/ Handle(r) \/ DoCleanUp(r) \/ Recount(r) \/ RecountFails(r) \/ Close(r)
  \/ \E d \in Db : TimeOut(r, d)

(* Ending a transaction on d leaves the request's connections what they     *)
(* were, so that it still prefers the same.                                 *)
LEMMA FinalizeKeeps ==
  ASSUME TypeOK, NEW r \in Request, NEW d \in Db, Commit(r, d) \/ Finalize(r, d)
  PROVE  \A e \in Db : /\ tx'[r][e] = "none" <=> tx[r][e] = "none"
                       /\ tx[r][e] = "committed" => tx'[r][e] = "committed"
<1>1. CASE Commit(r, d)
  BY <1>1 DEF Commit, TypeOK, IsOpen
<1>2. CASE Rollback(r, {d})
  BY <1>2 DEF Rollback, TypeOK, IsOpen
<1> QED
  BY <1>1, <1>2 DEF Finalize

LEMMA HandleHooked ==
  ASSUME Inv, NEW r \in Request, Hooked(r), Handle(r)
  PROVE  Hooked(r)'
<1> USE BothDb DEF Goto, txVars, cleanVars, effectVars
<1>0. TypeOK /\ Good(r)
  BY DEF Inv
<1>1. CASE Attach(r)
  BY <1>0, <1>1 DEF Attach, TypeOK, Hooked, Good, Caller
<1>2. CASE Refuse(r) \/ Enter(r)
  BY <1>0, <1>2 DEF Refuse, Enter, TypeOK, Hooked, Good, Caller, Preferred
<1>3. CASE Write(r)
  <2>1. by[r] # "handler"
    BY <1>0, <1>3 DEF Write, Good, Caller
  <2> QED
    BY <1>0, <1>3, <2>1 DEF Write, TypeOK, Hooked, Preferred
<1>4. CASE Release(r)
  <2>1. pc'[r] = "released" /\ target[r] = "none" /\ by[r] # "handler"
        /\ UNCHANGED <<kind, target, by, hook, seen, cleanUp>>
    BY <1>0, <1>4 DEF Release, TypeOK, Hooked, Good, Caller
  <2> QED
    BY <2>1 DEF Hooked
<1>5. CASE ReleaseExternal(r)
  <2>1. pc'[r] = "waiting" /\ target[r] = "none" /\ by[r] # "handler"
        /\ UNCHANGED <<kind, target, by, hook, seen, cleanUp>>
    BY <1>0, <1>5 DEF ReleaseExternal, TypeOK, Hooked, Good, Caller, Written
  <2> QED
    BY <2>1 DEF Hooked
<1>6. CASE Return(r)
  <2>1. by[r] # "handler" /\ hook[r] \notin {"drained", "over"}
    BY <1>0, <1>6 DEF Return, Good, Caller
  <2>2. cleanUp[r] # "none" => by'[r] # "handler"
    BY <1>6, <2>1 DEF Return
  <2>3. cleanUp[r] = "none" => cleanUp'[r] = "internal"
    BY <1>0, <1>6 DEF Return, TypeOK
  <2>4. /\ pc'[r] = "returned" /\ hook'[r] # "over"
        /\ kind[r] = "write" => hook'[r] = "pushed"
        /\ UNCHANGED <<kind, target, tx, seen>>
    BY <1>0, <1>6, <2>1 DEF Return, TypeOK
  <2> QED
    BY <2>1, <2>2, <2>3, <2>4 DEF Hooked, Preferred
<1>7. CASE Throw(r) \/ Catch(r)
  BY <1>0, <1>7 DEF Throw, Catch, TypeOK, Hooked, Good, Caller, Preferred
<1>8. CASE Answer(r) \/ Rethrow(r)
  BY <1>0, <1>8 DEF Answer, Rethrow, Cleaned, TypeOK, Hooked, Good, Caller, Preferred
<1>9. CASE Filter(r)
  <2>1. by[r] # "handler" /\ UNCHANGED <<kind, target, by, hook, seen, cleanUp>>
        /\ pc'[r] = "ended"
    BY <1>0, <1>9 DEF Filter, TypeOK, Good, Caller
  <2>2. tx'[r]["external"] = "none" <=> tx[r]["external"] = "none"
    BY <1>0, <1>9 DEF Filter, Rollback, TypeOK, IsOpen
  <2> QED
    BY <2>1, <2>2 DEF Hooked, Preferred
<1> QED
  BY <1>1, <1>2, <1>3, <1>4, <1>5, <1>6, <1>7, <1>8, <1>9 DEF Handle

LEMMA OtherHooked ==
  ASSUME Inv, NEW r \in Request, Hooked(r), StepOf(r), ~Handle(r)
  PROVE  Hooked(r)'
<1> USE BothDb DEF txVars, cleanVars, effectVars
<1>0. TypeOK /\ Good(r)
  BY DEF Inv
<1>1. CASE CleanUpInternal(r)
  <2>1. tx'[r]["external"] = "none" <=> tx[r]["external"] = "none"
    BY <1>0, <1>1, FinalizeKeeps DEF CleanUpInternal
  <2>2. /\ cleanUp[r] = "internal" /\ cleanUp'[r] = "external"
        /\ UNCHANGED <<kind, pc, target, by, hook, seen>>
    BY <1>0, <1>1 DEF CleanUpInternal, TypeOK
  <2> QED
    BY <2>1, <2>2 DEF Hooked, Preferred
<1>2. CASE CleanUpExternal(r)
  <2>1. tx'[r]["external"] = "none" <=> tx[r]["external"] = "none"
    BY <1>0, <1>2, FinalizeKeeps DEF CleanUpExternal
  <2>2. /\ cleanUp'[r] = "done" /\ UNCHANGED <<kind, pc, target, by, seen>>
        /\ hook'[r] = IF by[r] = "handler" /\ hook[r] = "pushed" THEN "drained" ELSE hook[r]
    BY <1>0, <1>2 DEF CleanUpExternal, TypeOK, Drains, Success
  <2> QED
    BY <2>1, <2>2 DEF Hooked, Preferred
<1>3. CASE Recount(r) \/ RecountFails(r)
  BY <1>0, <1>3 DEF Recount, RecountFails, TypeOK, Hooked, Preferred
<1>4. CASE Close(r)
  BY <1>0, <1>4 DEF Close, TypeOK, Hooked, Good, Caller, Preferred
<1>5. CASE \E d \in Db : TimeOut(r, d)
  BY <1>0, <1>5 DEF TimeOut, TypeOK, Hooked, Preferred
<1> QED
  BY <1>1, <1>2, <1>3, <1>4, <1>5 DEF StepOf, DoCleanUp

(* A recount writes only what its own request has seen.                     *)
LEMMA OthersSeen ==
  ASSUME TypeOK, NEW r \in Request, NEW q \in Request, q # r, StepOf(r)
  PROVE  Same(q) /\ seen'[q] = seen[q]
<1>1. Same(q)
  BY OthersSame DEF StepOf
<1>2. CASE Recount(r)
  BY <1>1, <1>2 DEF Recount, TypeOK
<1>3. CASE UNCHANGED seen
  BY <1>1, <1>3
<1>4. Recount(r) \/ UNCHANGED seen
  BY DEF StepOf, Handle, DoCleanUp, Attach, Refuse, Enter, Write, Release, ReleaseExternal,
         Return, Throw, Catch, Answer, Rethrow, Filter, CleanUpInternal, CleanUpExternal,
         RecountFails, Close, TimeOut, effectVars
<1> QED
  BY <1>2, <1>3, <1>4

(* The graph gains a write only by a step of its request, whose hook is     *)
(* then still to run, and loses none.                                       *)
LEMMA GraphStep ==
  ASSUME Inv, NEW r \in Request, Hooked(r), StepOf(r), NEW d \in Db
  PROVE  Graph(d)' = Graph(d) \/ r \in Graph(d)' \cap Pending'
<1> USE BothDb DEF Goto, txVars, cleanVars, effectVars
<1>0. TypeOK /\ Good(r)
  BY DEF Inv
<1> DEFINE In == target[r] = d /\ tx[r][d] = "committed"
<1>1. SUFFICES (In' <=> In) \/ (In' /\ r \in Pending')
  <2>1. \A q \in Request : q # r => (q \in Graph(d)' <=> q \in Graph(d))
    BY <1>0, OthersSeen DEF Same, Graph
  <2> QED
    BY <2>1 DEF Graph
<1>2. CASE UNCHANGED <<target, tx>>
  BY <1>2
<1>3. CASE Attach(r)
  BY <1>0, <1>3 DEF Attach, TypeOK, Hooked
<1>4. CASE Write(r)
  BY <1>0, <1>4 DEF Write, TypeOK, Hooked
<1>5. CASE Release(r) \/ ReleaseExternal(r)
  <2>1. target[r] = "none" /\ target' = target
    BY <1>0, <1>5 DEF Release, ReleaseExternal, Good, Written
  <2> QED
    BY <2>1
<1>6. CASE Filter(r)
  <2>1. target' = target /\ (tx'[r][d] = "committed" <=> tx[r][d] = "committed")
    BY <1>0, <1>6 DEF Filter, Rollback, TypeOK, IsOpen
  <2> QED
    BY <2>1
<1>7. CASE DoCleanUp(r)
  <2>1. PICK e \in Db : Finalize(r, e)
    BY <1>7 DEF DoCleanUp, CleanUpInternal, CleanUpExternal
  <2>2. target' = target /\ (tx[r][d] = "committed" => tx'[r][d] = "committed")
    BY <1>0, <1>7, <2>1, FinalizeKeeps DEF DoCleanUp, CleanUpInternal, CleanUpExternal
  <2>3. CASE by[r] # "handler"
    <3>1. tx'[r][d] = "committed" => tx[r][d] = "committed"
      BY <1>0, <2>1, <2>3, FinalizeEnds
    <3> QED
      BY <2>2, <3>1
  <2>4. CASE by[r] = "handler" /\ In'
    <3>1. kind[r] = "write"
      BY <1>0, <2>2, <2>4 DEF Good, Written, TypeOK, Kind
    <3>2. hook[r] = "pushed"
      BY <1>0, <1>7, <2>4, <3>1
        DEF Hooked, Good, Caller, TypeOK, DoCleanUp, CleanUpInternal, CleanUpExternal
    <3>3. hook'[r] \in {"pushed", "drained"}
      BY <1>0, <1>7, <3>2 DEF TypeOK, DoCleanUp, CleanUpInternal, CleanUpExternal
    <3> QED
      BY <2>4, <3>3 DEF Pending
  <2> QED
    BY <2>2, <2>3, <2>4
<1>8. CASE \E e \in Db : TimeOut(r, e)
  BY <1>0, <1>8 DEF TimeOut, TypeOK
<1>9. Attach(r) \/ Write(r) \/ Release(r) \/ ReleaseExternal(r) \/ Filter(r) \/ DoCleanUp(r)
      \/ (\E e \in Db : TimeOut(r, e)) \/ UNCHANGED <<target, tx>>
  BY DEF StepOf, Handle, Refuse, Enter, Return, Throw, Catch, Answer, Rethrow, Recount,
         RecountFails, Close
<1> QED
  BY <1>2, <1>3, <1>4, <1>5, <1>6, <1>7, <1>8, <1>9

(* No hook that is still to run is lost, other than by its recount.         *)
LEMMA PendingStays ==
  ASSUME Inv, NEW r \in Request, StepOf(r), ~Recount(r), ~RecountFails(r)
  PROVE  Pending \subseteq Pending' /\ seen' = seen
<1>0. TypeOK
  BY DEF Inv
<1> USE DEF effectVars, Pending
<1>1. CASE Return(r)
  BY <1>0, <1>1 DEF Return, TypeOK
<1>2. CASE CleanUpExternal(r)
  BY <1>0, <1>2 DEF CleanUpExternal, TypeOK
<1>3. CASE UNCHANGED <<hook, seen>>
  BY <1>3
<1>4. Return(r) \/ CleanUpExternal(r) \/ UNCHANGED <<hook, seen>>
  BY DEF StepOf, Handle, DoCleanUp, Attach, Refuse, Enter, Write, Release, ReleaseExternal,
         Throw, Catch, Answer, Rethrow, Filter, CleanUpInternal, Close, TimeOut
<1> QED
  BY <1>1, <1>2, <1>3, <1>4

(* Faults are never taken back.                                             *)
LEMMA NoFaultYet ==
  ASSUME TypeOK, [Next]_vars, faults' = 0
  PROVE  faults = 0 /\ \A r \in Request : ~RecountFails(r)
<1>1. faults \in Nat
  BY FaultsAssumption DEF TypeOK
<1>2. \A r \in Request : ~RecountFails(r)
  BY <1>1 DEF RecountFails, Fault
<1>3. faults' = faults \/ faults' = faults + 1
  BY DEF Next, vars, Handle, DoCleanUp, Attach, Refuse, Enter, Write, Release, ReleaseExternal,
         Return, Throw, Catch, Answer, Rethrow, Filter, CleanUpInternal, CleanUpExternal,
         Finalize, Commit, Recount, RecountFails, Close, TimeOut, Fault, NoFault
<1> QED
  BY <1>1, <1>2, <1>3

(* A step keeps every committed write either counted or with a recount yet  *)
(* to come.                                                                 *)
LEMMA CountedStays ==
  ASSUME CountInv, NEW r \in Request, StepOf(r), ~RecountFails(r), NEW d \in Db, Counted(d)
  PROVE  Counted(d)'
<1>0. TypeOK /\ Inv /\ Hooked(r)
  BY DEF CountInv, Inv
<1>1. CASE Recount(r)
  <2>1. /\ Graph(d)' = Graph(d) /\ hook[r] = "drained" /\ seen'[r] = Graph(Preferred(r))
        /\ \A q \in Request : q # r => hook'[q] = hook[q] /\ seen'[q] = seen[q]
    BY <1>0, <1>1 DEF Recount, TypeOK, Graph, txVars
  <2>2. CASE r \in Graph(d)
    <3>1. Preferred(r) = d
      BY <1>0, <2>2, BothDb DEF Hooked, Graph
    <3> QED
      BY <2>1, <3>1 DEF Counted
  <2>3. CASE r \notin Graph(d) /\ Graph(d) # {}
    <3>1. seen[r] = {}
      BY <1>0, <2>1 DEF Hooked
    <3>2. CASE Graph(d) \cap Pending # {}
      <4>1. PICK q \in Graph(d) : q \in Pending
        BY <3>2
      <4>2. q \in Pending'
        BY <2>1, <2>3, <4>1 DEF Pending
      <4> QED
        BY <2>1, <4>1, <4>2 DEF Counted
    <3>3. CASE \E q \in Request : Graph(d) \subseteq seen[q]
      <4>1. PICK q \in Request : Graph(d) \subseteq seen[q]
        BY <3>3
      <4>2. q # r
        BY <2>3, <3>1, <4>1
      <4> QED
        BY <2>1, <4>1, <4>2 DEF Counted
    <3> QED
      BY <2>3, <3>2, <3>3 DEF Counted
  <2> QED
    BY <2>1, <2>2, <2>3 DEF Counted
<1>2. CASE ~Recount(r)
  <2>1. Pending \subseteq Pending' /\ seen' = seen
    BY <1>0, <1>2, PendingStays
  <2>2. Graph(d)' = Graph(d) \/ r \in Graph(d)' \cap Pending'
    BY <1>0, GraphStep
  <2> QED
    BY <2>1, <2>2 DEF Counted
<1> QED
  BY <1>1, <1>2

(* Hooks are drained strictly after the commit, so whatever order requests  *)
(* commit and count in, where no recount fails the recount of the last to   *)
(* count has seen every write of the database.                              *)
THEOREM NoWriteUncounted == Spec => []RecountsSeeAll
<1>1. Init => (\A r \in Request : Hooked(r)) /\ \A d \in Db : Counted(d)
  BY DEF Init, Hooked, Counted, Graph, Db
<1>2. ASSUME CountInv, Inv', [Next]_vars PROVE CountInv'
  <2>0. TypeOK
    BY <1>2 DEF CountInv, Inv
  <2>1. CASE UNCHANGED vars
    BY <1>2, <2>1 DEF CountInv, Hooked, Preferred, Counted, Graph, Pending, vars, txVars,
                      cleanVars, effectVars
  <2>2. CASE Next
    <3>1. PICK r \in Request : StepOf(r)
      BY <2>2 DEF Next, StepOf
    <3>2. ASSUME NEW q \in Request PROVE Hooked(q)'
      <4>1. CASE q = r
        BY <1>2, <3>1, <4>1, HandleHooked, OtherHooked DEF CountInv
      <4>2. CASE q # r
        BY <1>2, <2>0, <3>1, <4>2, OthersSeen DEF CountInv, Hooked, Preferred, Same
      <4> QED
        BY <4>1, <4>2
    <3>3. ASSUME faults' = 0, NEW d \in Db PROVE Counted(d)'
      BY <1>2, <2>0, <3>1, <3>3, NoFaultYet, CountedStays DEF CountInv
    <3> QED
      BY <1>2, <3>2, <3>3 DEF CountInv
  <2> QED
    BY <1>2, <2>1, <2>2
<1>3. CountInv => RecountsSeeAll
  <2>1. SUFFICES ASSUME CountInv, faults = 0, \A r \in Request : pc[r] = "ended" /\ hook[r] # "drained",
                        NEW d \in Db, Graph(d) # {}
                 PROVE  \E r \in Request : Graph(d) \subseteq seen[r]
    BY DEF RecountsSeeAll
  <2>2. ASSUME NEW r \in Graph(d) PROVE r \notin Pending
    <3>1. r \in Request /\ by[r] = "handler"
      BY <2>1 DEF CountInv, Inv, Good, Written, Graph
    <3> QED
      BY <2>1, <3>1 DEF CountInv, Hooked, Pending
  <2> QED
    BY <2>1, <2>2 DEF CountInv, Counted
<1> QED
  BY <1>1, <1>2, <1>3, InvariantHolds, PTL DEF Spec, CountInv
=============================================================================
