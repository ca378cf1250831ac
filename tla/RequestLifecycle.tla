--------------------------- MODULE RequestLifecycle ---------------------------
(***************************************************************************)
(* What a request to one project does around its handler: the middlewares   *)
(* that begin a transaction on the shared database, and on the project's    *)
(* own database if it has one; the guards; the interceptor that commits or  *)
(* rolls back once the handler is through or the client is gone; endpoints  *)
(* that give their transactions back early; the exception filter; and the   *)
(* side effects that are hooked on the commit, of which the recount of the  *)
(* project is followed here. User-defined transactions are the subject of   *)
(* UserTransactions.                                                        *)
(*                                                                         *)
(* A step is what happens between two awaits.                               *)
(***************************************************************************)
EXTENDS Naturals, FiniteSets

CONSTANTS
  Request,     \* requests to the project
  MaxFaults    \* bound: failing connections, commits and recounts

ASSUME FaultsAssumption == MaxFaults \in Nat

Db == {"internal", "external"}

(* A write with side effects; an endpoint that waits outside of the graph.  *)
Kind == {"write", "release"}

VARIABLES
  kind,      \* what a request does
  customDb,  \* whether the project has a database of its own
  pc,        \* where the request is
  tx,        \* its transactions, as the databases see them
  session,   \* databases on which it has an open session
  attached,  \* whether raw.transaction and the like are still set
  target,    \* database it has written to
  cleanUp,   \* where doCleanup is
  by,        \* who called doCleanup first: with success only "handler"
  gone,      \* whether the client has closed the connection
  hook,      \* its post-commit hook, then its recount
  seen,      \* writes the recount has counted
  response,
  faults

txVars     == <<tx, session, attached>>
cleanVars  == <<cleanUp, by>>
effectVars == <<hook, seen>>
vars == <<kind, customDb, pc, txVars, target, cleanVars, gone, effectVars, response,
          faults>>

TypeOK ==
  /\ kind \in [Request -> Kind]
  /\ customDb \in BOOLEAN
  /\ pc \in [Request -> {"new", "guard", "handler", "released", "waiting", "written",
                         "returned", "thrown", "filter", "ended"}]
  /\ tx \in [Request -> [Db -> {"none", "open", "timedOut", "committed", "refused",
                              "aborted"}]]
  /\ session \in [Request -> SUBSET Db]
  /\ attached \in [Request -> BOOLEAN]
  /\ target \in [Request -> Db \cup {"none"}]
  /\ cleanUp \in [Request -> {"none", "internal", "external", "done"}]
  /\ by \in [Request -> {"none", "handler", "error", "close"}]
  /\ gone \in [Request -> BOOLEAN]
  /\ hook \in [Request -> {"none", "pushed", "drained", "over"}]
  /\ seen \in [Request -> SUBSET Request]
  /\ response \in [Request -> {"none", "ok", "error"}]
  /\ faults \in 0..MaxFaults

Init ==
  /\ kind \in [Request -> Kind]
  /\ customDb \in BOOLEAN
  /\ pc = [r \in Request |-> "new"]
  /\ tx = [r \in Request |-> [d \in Db |-> "none"]]
  /\ session = [r \in Request |-> {}]
  /\ attached = [r \in Request |-> FALSE]
  /\ target = [r \in Request |-> "none"]
  /\ cleanUp = [r \in Request |-> "none"]
  /\ by = [r \in Request |-> "none"]
  /\ gone = [r \in Request |-> FALSE]
  /\ hook = [r \in Request |-> "none"]
  /\ seen = [r \in Request |-> {}]
  /\ response = [r \in Request |-> "none"]
  /\ faults = 0

-----------------------------------------------------------------------------
(* Transactions                                                             *)

(* isOpen(): the driver learns that the server has given a transaction up   *)
(* only when it uses it next.                                               *)
IsOpen(r, d) == tx[r][d] \in {"open", "timedOut"}

Open(r)  == {d \in Db : IsOpen(r, d)}

(* Committed writes, which a new transaction on the database sees.          *)
Graph(d) == {q \in Request : target[q] = d /\ tx[q][d] = "committed"}

Success(r) == by[r] = "handler"

Fault == faults < MaxFaults /\ faults' = faults + 1
NoFault == UNCHANGED faults

Goto(r, s) == pc' = [pc EXCEPT ![r] = s]

(* Commit, if it is open, then close transaction and session on d. A commit *)
(* on a transaction past its budget fails, and any other may: it is logged, *)
(* and nothing else tells it from one that was accepted.                    *)
Commit(r, d) ==
  /\ \/ tx[r][d] = "open" /\ tx' = [tx EXCEPT ![r][d] = "committed"] /\ NoFault
     \/ tx[r][d] = "open" /\ tx' = [tx EXCEPT ![r][d] = "refused"] /\ Fault
     \/ tx[r][d] = "timedOut" /\ tx' = [tx EXCEPT ![r][d] = "refused"] /\ NoFault
     \/ ~IsOpen(r, d) /\ UNCHANGED tx /\ NoFault
  /\ session' = [session EXCEPT ![r] = @ \ {d}]

Rollback(r, D) ==
  /\ tx' = [tx EXCEPT ![r] = [d \in Db |-> IF d \in D /\ IsOpen(r, d)
                                           THEN "aborted" ELSE tx[r][d]]]
  /\ session' = [session EXCEPT ![r] = @ \ D]

(* The server ends a transaction that has used up its time budget.          *)
TimeOut(r, d) ==
  /\ tx[r][d] = "open"
  /\ tx' = [tx EXCEPT ![r][d] = "timedOut"]
  /\ UNCHANGED <<kind, customDb, pc, session, attached, target, cleanVars, gone,
                 effectVars, response, faults>>

-----------------------------------------------------------------------------
(* Middlewares and guards                                                   *)

(* AuthMiddleware, DbContextMiddleware, SessionAndTransactionAttach-        *)
(* Middleware. A request whose connection to its own database cannot be had *)
(* goes on without.                                                         *)
Attach(r) ==
  /\ pc[r] = "new"
  /\ Goto(r, "guard")
  /\ attached' = [attached EXCEPT ![r] = TRUE]
  /\ \E D \in {{"internal"}, Db} :
       /\ D = Db => customDb
       /\ IF customDb /\ D # Db THEN Fault ELSE NoFault
       /\ session' = [session EXCEPT ![r] = D]
       /\ tx' = [tx EXCEPT ![r] = [d \in Db |-> IF d \in D THEN "open" ELSE "none"]]
  /\ UNCHANGED <<kind, customDb, target, cleanVars, gone, effectVars, response>>

(* A guard throws: the interceptors do not run, the filter does.            *)
Refuse(r) ==
  /\ pc[r] = "guard"
  /\ Goto(r, "filter")
  /\ UNCHANGED <<kind, customDb, txVars, target, cleanVars, gone, effectVars, response,
                 faults>>

(* RequestCleanupInterceptor listens for the client to go, and calls on.    *)
Enter(r) ==
  /\ pc[r] = "guard"
  /\ Goto(r, "handler")
  /\ UNCHANGED <<kind, customDb, txVars, target, cleanVars, gone, effectVars, response,
                 faults>>

-----------------------------------------------------------------------------
(* Handlers                                                                 *)

(* PreferredTransactionDecorator.                                           *)
Preferred(r) == IF tx[r]["external"] # "none" THEN "external" ELSE "internal"

Write(r) ==
  /\ pc[r] = "handler" /\ kind[r] = "write"
  /\ \/ /\ tx[r][Preferred(r)] = "open"
        /\ target' = [target EXCEPT ![r] = Preferred(r)]
        /\ Goto(r, "written")
     \/ /\ tx[r][Preferred(r)] # "open"
        /\ Goto(r, "thrown")
        /\ UNCHANGED target
  /\ UNCHANGED <<kind, customDb, txVars, cleanVars, gone, effectVars, response, faults>>

(* releaseRequestTransaction: takes the transactions off the request, then  *)
(* commits and closes one after the other.                                  *)
Release(r) ==
  /\ pc[r] = "handler" /\ kind[r] = "release"
  /\ attached' = [attached EXCEPT ![r] = FALSE]
  /\ Commit(r, "internal")
  /\ Goto(r, "released")
  /\ UNCHANGED <<kind, customDb, target, cleanVars, gone, effectVars, response>>

ReleaseExternal(r) ==
  /\ pc[r] = "released"
  /\ Commit(r, "external")
  /\ Goto(r, "waiting")
  /\ UNCHANGED <<kind, customDb, attached, target, cleanVars, gone, effectVars, response>>

(* Mutant: the side effects start when the handler returns.                 *)
ReturnDrains(r) ==
  /\ pc[r] \in {"written", "waiting"}
  /\ Goto(r, "returned")
  /\ hook' = IF kind[r] = "write" THEN [hook EXCEPT ![r] = "drained"] ELSE hook
  /\ IF cleanUp[r] = "none"
     THEN /\ cleanUp' = [cleanUp EXCEPT ![r] = "internal"]
          /\ by' = [by EXCEPT ![r] = "handler"]
     ELSE UNCHANGED cleanVars
  /\ UNCHANGED <<kind, customDb, txVars, target, gone, seen, response, faults>>

(* The handler returns. The side-effect interceptor registers its hook, and *)
(* doCleanup(true) begins, unless the client has gone before.               *)
Return(r) ==
  /\ pc[r] \in {"written", "waiting"}
  /\ Goto(r, "returned")
  /\ hook' = IF kind[r] = "write" THEN [hook EXCEPT ![r] = "pushed"] ELSE hook
  /\ IF cleanUp[r] = "none"
     THEN /\ cleanUp' = [cleanUp EXCEPT ![r] = "internal"]
          /\ by' = [by EXCEPT ![r] = "handler"]
     ELSE UNCHANGED cleanVars
  /\ UNCHANGED <<kind, customDb, txVars, target, gone, seen, response, faults>>

(* A statement fails, or the handler throws.                                *)
Throw(r) ==
  /\ pc[r] \in {"handler", "written", "waiting"}
  /\ Goto(r, "thrown")
  /\ UNCHANGED <<kind, customDb, txVars, target, cleanVars, gone, effectVars, response,
                 faults>>

(* catchError: doCleanup(false), unless the client has gone before.         *)
Catch(r) ==
  /\ pc[r] = "thrown" /\ cleanUp[r] = "none"
  /\ cleanUp' = [cleanUp EXCEPT ![r] = "internal"]
  /\ by' = [by EXCEPT ![r] = "error"]
  /\ UNCHANGED <<kind, customDb, pc, txVars, target, gone, effectVars, response, faults>>

(* The client closes the connection. Only the interceptor listens, and only *)
(* the first call of doCleanup does anything.                               *)
Close(r) ==
  /\ pc[r] # "new" /\ response[r] = "none" /\ ~gone[r]
  /\ gone' = [gone EXCEPT ![r] = TRUE]
  /\ IF cleanUp[r] = "none" /\ pc[r] \notin {"guard", "filter"}
     THEN /\ cleanUp' = [cleanUp EXCEPT ![r] = "internal"]
          /\ by' = [by EXCEPT ![r] = "close"]
     ELSE UNCHANGED cleanVars
  /\ UNCHANGED <<kind, customDb, pc, txVars, target, effectVars, response, faults>>

-----------------------------------------------------------------------------
(* doCleanup                                                                *)

(* Mutant: the cleanup commits what is open, whoever calls it.              *)
FinalizeCommits(r, d) == Commit(r, d)

(* Commit or rollback on d, whatever comes of it.                           *)
Finalize(r, d) ==
  \/ Success(r) /\ Commit(r, d)
  \/ ~Success(r) /\ Rollback(r, {d}) /\ NoFault

CleanUpInternal(r) ==
  /\ cleanUp[r] = "internal"
  /\ Finalize(r, "internal")
  /\ cleanUp' = [cleanUp EXCEPT ![r] = "external"]
  /\ UNCHANGED <<kind, customDb, pc, attached, target, by, gone, effectVars, response>>

(* Mutant: the hooks are drained whatever the handler came to.              *)
DrainsAlways(r) == hook[r] = "pushed"

(* After the second database: the references are cleared, and the hooks     *)
(* drained if the handler was successful.                                   *)
Drains(r) == Success(r) /\ hook[r] = "pushed"

(* Mutant: rejected handlers are left to the exception filter.              *)
CleanUpSkipsExternal(r) ==
  /\ cleanUp[r] = "external"
  /\ UNCHANGED <<tx, session>> /\ NoFault
  /\ cleanUp' = [cleanUp EXCEPT ![r] = "done"]
  /\ attached' = [attached EXCEPT ![r] = FALSE]
  /\ hook' = IF Drains(r) THEN [hook EXCEPT ![r] = "drained"] ELSE hook
  /\ UNCHANGED <<kind, customDb, pc, target, by, gone, seen, response>>

CleanUpExternal(r) ==
  /\ cleanUp[r] = "external"
  /\ Finalize(r, "external")
  /\ cleanUp' = [cleanUp EXCEPT ![r] = "done"]
  /\ attached' = [attached EXCEPT ![r] = FALSE]
  /\ hook' = IF Drains(r) THEN [hook EXCEPT ![r] = "drained"] ELSE hook
  /\ UNCHANGED <<kind, customDb, pc, target, by, gone, seen, response>>

(* A call of doCleanup returns: the one that cleans up when it is done, any *)
(* other at once.                                                           *)
Cleaned(r) == cleanUp[r] = "done" \/ by[r] = "close"

Answer(r) ==
  /\ pc[r] = "returned" /\ Cleaned(r)
  /\ Goto(r, "ended")
  /\ response' = [response EXCEPT ![r] = "ok"]
  /\ UNCHANGED <<kind, customDb, txVars, target, cleanVars, gone, effectVars, faults>>

Rethrow(r) ==
  /\ pc[r] = "thrown" /\ Cleaned(r)
  /\ Goto(r, "filter")
  /\ UNCHANGED <<kind, customDb, txVars, target, cleanVars, gone, effectVars, response,
                 faults>>

(* Mutant: the filter leaves transactions to the interceptor.               *)
FilterOnlyAnswers(r) ==
  /\ pc[r] = "filter"
  /\ Goto(r, "ended")
  /\ response' = [response EXCEPT ![r] = "error"]
  /\ UNCHANGED <<kind, customDb, txVars, target, cleanVars, gone, effectVars, faults>>

(* GlobalExceptionFilter rolls back and closes what is still attached, then *)
(* answers. One step: only a cleanup after Close may meet it, which rolls   *)
(* back too.                                                                *)
Filter(r) ==
  /\ pc[r] = "filter"
  /\ IF attached[r] THEN Rollback(r, Db) ELSE UNCHANGED <<tx, session>>
  /\ attached' = [attached EXCEPT ![r] = FALSE]
  /\ Goto(r, "ended")
  /\ response' = [response EXCEPT ![r] = "error"]
  /\ UNCHANGED <<kind, customDb, target, cleanVars, gone, effectVars, faults>>

-----------------------------------------------------------------------------
(* executeSideEffects: recomputeProjectNodes on a new transaction. Only     *)
(* what a recount has seen is kept: of two that overlap, either may be the  *)
(* last to store its figure.                                                *)

Recount(r) ==
  /\ hook[r] = "drained"
  /\ hook' = [hook EXCEPT ![r] = "over"]
  /\ seen' = [seen EXCEPT ![r] = Graph(Preferred(r))]
  /\ UNCHANGED <<kind, customDb, pc, txVars, target, cleanVars, gone, response, faults>>

(* Logged; nothing retries a recount.                                       *)
RecountFails(r) ==
  /\ Fault
  /\ hook[r] = "drained"
  /\ hook' = [hook EXCEPT ![r] = "over"]
  /\ UNCHANGED <<kind, customDb, pc, txVars, target, cleanVars, gone, seen, response>>

-----------------------------------------------------------------------------
Handle(r) == \/ Attach(r) \/ Refuse(r) \/ Enter(r) \/ Write(r) \/ Release(r)
             \/ ReleaseExternal(r) \/ Return(r) \/ Throw(r) \/ Catch(r) \/ Answer(r)
             \/ Rethrow(r) \/ Filter(r)

DoCleanUp(r) == CleanUpInternal(r) \/ CleanUpExternal(r)

Next == \E r \in Request : \/ Handle(r) \/ DoCleanUp(r) \/ Recount(r)
                           \/ RecountFails(r) \/ Close(r)
                           \/ \E d \in Db : TimeOut(r, d)

Spec == Init /\ [][Next]_vars

(* Handlers, cleanups and hooks go on once they have begun; clients need    *)
(* not go and budgets need not run out.                                     *)
Fairness == \A r \in Request : WF_vars(Handle(r)) /\ WF_vars(DoCleanUp(r))
                               /\ WF_vars(Recount(r))

FairSpec == Spec /\ Fairness

-----------------------------------------------------------------------------
(* Nothing left behind                                                      *)

(* When a request has been answered and its cleanup is through, nothing of  *)
(* it is left on either database: no transaction the driver holds open, no  *)
(* session. Of middlewares, early release, interceptor and filter each      *)
(* closes only what it finds (request-cleanup.interceptor.ts:31,            *)
(* global-exception.filter.ts:45).                                          *)
NothingLeftOpen ==
  \A r \in Request : pc[r] = "ended" /\ cleanUp[r] \in {"none", "done"} =>
                       Open(r) = {} /\ session[r] = {}

(* Only what a handler has brought to its end is ever committed: a request  *)
(* that throws, is refused or is abandoned by its client leaves no write    *)
(* (request-cleanup.interceptor.ts:127, 135).                               *)
FailedWritesNothing ==
  \A d \in Db : \A r \in Graph(d) : Success(r) /\ response[r] # "error"

(* Side effects begin when the fate of the request is settled on both       *)
(* databases: its commits have been tried and nothing of it was rolled      *)
(* back, even when its client went while the handler was still to register  *)
(* them (request-cleanup.interceptor.ts:114). That the commits were         *)
(* accepted is not said: after one that was refused, or came too late, the  *)
(* hooks are drained as well (lines 51 and 81), although the comments at    *)
(* lines 21 and 111 speak of committed and visible writes.                  *)
EffectsFollowCommit ==
  \A r \in Request : hook[r] \in {"drained", "over"} =>
    /\ Success(r) /\ response[r] # "error"
    /\ \A d \in Db : tx[r][d] \in {"none", "committed", "refused"}

(* However requests overlap: when all have settled and no recount has       *)
(* failed, one of the recounts has seen every committed write: the hooks    *)
(* are drained strictly after the commit (run-side-effect.interceptor.ts:51, *)
(* request-cleanup.interceptor.ts:110).                                     *)
RecountsSeeAll ==
  faults = 0 /\ (\A r \in Request : pc[r] = "ended" /\ hook[r] # "drained")
    => \A d \in Db : Graph(d) # {} => \E r \in Request : Graph(d) \subseteq seen[r]

(* The time budget of a transaction can run out at any moment, and "the     *)
(* whole request 408s" then (release-request-transaction.ts:16): what a     *)
(* client is told has been done is in the graph.                            *)
AnsweredMeansCommitted ==
  \A r \in Request : response[r] = "ok" /\ ~gone[r] /\ target[r] # "none" =>
                       r \in Graph(target[r])

(* Every request that begins is answered, and everything of it is closed.   *)
EveryRequestSettles ==
  \A r \in Request : pc[r] = "guard" ~> /\ pc[r] = "ended" /\ session[r] = {}
                                        /\ hook[r] \in {"none", "pushed", "over"}
=============================================================================
