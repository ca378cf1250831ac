------------------------ MODULE RelationshipPatterns ------------------------
(***************************************************************************)
(* Relationship patterns of one project in one server process: the rows,    *)
(* which an analysis has suggested and users approve, ignore or delete, and *)
(* the two loops that materialize approved patterns in the graph. One is    *)
(* the drain that an approval starts in the background, with a transaction  *)
(* per pattern; the other belongs to the side effects of every write, with  *)
(* one transaction for all patterns. runningApply keeps the loops apart.    *)
(*                                                                         *)
(* A step is what runs between two awaits: a SQL statement, the statements  *)
(* of one pattern, a commit.                                                *)
(***************************************************************************)
EXTENDS Naturals, FiniteSets

CONSTANTS
  Pattern,   \* patterns, rows that once deleted never come back
  Write,     \* requests that write records which every pattern matches
  Drain,     \* the background loop of scheduleApprovedPatternApply
  None,      \* no pattern
  MaxFaults  \* bound: statements and commits that reject

ASSUME NamesAssumption == Drain \notin Write /\ None \notin Pattern

ASSUME BoundsAssumption == MaxFaults \in Nat

Actor == Write \cup {Drain}

VARIABLES
  status,        \* status of a row
  applied,       \* rows with a lastAppliedAt
  failed,        \* rows with a lastError
  records,       \* writes whose records are committed
  edges,         \* pairs of a pattern and the write whose records it connects
  runningApply,  \* whether the project is in the set of that name
  asked,         \* approvals whose row is updated and that go on to the drain
  pc,            \* where a loop is
  left,          \* patterns its round has yet to apply
  current,       \* pattern it is applying, if any
  staged,        \* edges of its open transaction
  grown,         \* whether the drain has connected anything (totalApplied > 0)
  cleanUp,       \* deleted patterns whose relationships are still to be deleted
  faults

rowVars   == <<status, applied, failed>>
graphVars == <<records, edges>>
loopVars  == <<pc, left, current, staged, grown>>
vars == <<rowVars, graphVars, runningApply, asked, loopVars, cleanUp, faults>>

Edge == Pattern \X Write

DrainPlaces == {"idle", "query", "statement", "mark", "failing", "commit",
                "recompute", "broken"}
WritePlaces == {"idle", "effects", "find", "statement", "mark", "failing",
                "commit", "skipped", "done"}

TypeOK ==
  /\ status \in [Pattern -> {"suggested", "approved", "ignored", "deleted"}]
  /\ applied \in SUBSET Pattern
  /\ failed \in SUBSET Pattern
  /\ records \in SUBSET Write
  /\ edges \in SUBSET Edge
  /\ runningApply \in BOOLEAN
  /\ asked \in SUBSET Pattern
  /\ pc \in [Actor -> DrainPlaces \cup WritePlaces]
  /\ pc[Drain] \in DrainPlaces
  /\ \A w \in Write : pc[w] \in WritePlaces
  /\ left \in [Actor -> SUBSET Pattern]
  /\ current \in [Actor -> Pattern \cup {None}]
  /\ staged \in [Actor -> SUBSET Edge]
  /\ grown \in BOOLEAN
  /\ cleanUp \in SUBSET Pattern
  /\ faults \in 0..MaxFaults

Init ==
  /\ status = [p \in Pattern |-> "suggested"]
  /\ applied = {}
  /\ failed = {}
  /\ records = {}
  /\ edges = {}
  /\ runningApply = FALSE
  /\ asked = {}
  /\ pc = [a \in Actor |-> "idle"]
  /\ left = [a \in Actor |-> {}]
  /\ current = [a \in Actor |-> None]
  /\ staged = [a \in Actor |-> {}]
  /\ grown = FALSE
  /\ cleanUp = {}
  /\ faults = 0

Fault == faults < MaxFaults /\ faults' = faults + 1

-----------------------------------------------------------------------------
(* Rows and users                                                           *)

Rows == {p \in Pattern : status[p] # "deleted"}

Approved == {p \in Pattern : status[p] = "approved"}

(* Approved, neither applied nor given up: what the drain looks for and the *)
(* dashboard shows as "Applying".                                           *)
Pending == Approved \ (applied \cup failed)

(* Mutant: an approval leaves lastAppliedAt alone.                          *)
AppliedKept(P) == applied

(* lastAppliedAt is cleared.                                                *)
AppliedAfterApproval(P) == applied \ P

(* approve and approveMany: the rows first, then one call of the drain.     *)
Approve(P) ==
  /\ P \subseteq Rows
  /\ status' = [p \in Pattern |-> IF p \in P THEN "approved" ELSE status[p]]
  /\ applied' = AppliedAfterApproval(P)
  /\ failed' = failed \ P
  /\ \E p \in P \ asked : asked' = asked \cup {p}
  /\ UNCHANGED <<graphVars, runningApply, loopVars, cleanUp, faults>>

Ignore(p) ==
  /\ p \in Rows
  /\ status' = [status EXCEPT ![p] = "ignored"]
  /\ failed' = failed \ {p}
  /\ UNCHANGED <<applied, graphVars, runningApply, asked, loopVars, cleanUp,
                 faults>>

(* delete, with deleteExisting or without.                                  *)
Delete(p) ==
  /\ p \in Rows
  /\ status' = [status EXCEPT ![p] = "deleted"]
  /\ applied' = applied \ {p}
  /\ failed' = failed \ {p}
  /\ cleanUp' \in {cleanUp, cleanUp \cup {p}}
  /\ UNCHANGED <<graphVars, runningApply, asked, loopVars, faults>>

(* deleteRelationshipsInFreshTransaction, in the background and without     *)
(* runningApply; a rejection is logged.                                     *)
DeleteRelationships(p) ==
  /\ p \in cleanUp
  /\ cleanUp' = cleanUp \ {p}
  /\ \/ edges' = {e \in edges : e[1] # p} /\ UNCHANGED faults
     \/ Fault /\ UNCHANGED edges
  /\ UNCHANGED <<rowVars, records, runningApply, asked, loopVars>>

-----------------------------------------------------------------------------
(* The loops                                                                *)

Goto(a, where) == pc' = [pc EXCEPT ![a] = where]

(* scheduleApprovedPatternApply: nothing if a loop is running.              *)
Schedule(p) ==
  /\ p \in asked
  /\ asked' = asked \ {p}
  /\ IF runningApply
     THEN UNCHANGED <<runningApply, pc, grown>>
     ELSE runningApply' = TRUE /\ Goto(Drain, "query") /\ grown' = FALSE
  /\ UNCHANGED <<rowVars, graphVars, left, current, staged, cleanUp, faults>>

(* Where a drain that finds nothing goes.                                   *)
DrainEnds == IF grown THEN "recompute" ELSE "idle"

(* Another round of the drain, which a rejected query breaks off.           *)
Query ==
  /\ pc[Drain] = "query"
  /\ \/ /\ left' = [left EXCEPT ![Drain] = Pending]
        /\ IF Pending # {}
           THEN Goto(Drain, "statement") /\ UNCHANGED runningApply
           ELSE /\ Goto(Drain, DrainEnds)
                /\ runningApply' = (DrainEnds = "recompute")
        /\ UNCHANGED faults
     \/ /\ Fault
        /\ Goto(Drain, "broken")
        /\ runningApply' = FALSE
        /\ UNCHANGED left
  /\ UNCHANGED <<rowVars, graphVars, asked, current, staged, grown, cleanUp>>

(* The forced schema recalculation after the last round.                    *)
Recompute ==
  /\ pc[Drain] = "recompute"
  /\ Goto(Drain, "idle")
  /\ runningApply' = FALSE
  /\ UNCHANGED <<rowVars, graphVars, asked, left, current, staged, grown,
                 cleanUp, faults>>

(* A write has been committed; its side effects run.                        *)
CommitWrite(w) ==
  /\ pc[w] = "idle"
  /\ Goto(w, "effects")
  /\ records' = records \cup {w}
  /\ UNCHANGED <<rowVars, edges, runningApply, asked, left, current, staged,
                 grown, cleanUp, faults>>

(* Mutant: a write applies the patterns although a loop is running.         *)
EffectsUnguarded(w) ==
  /\ pc[w] = "effects"
  /\ runningApply' = TRUE
  /\ Goto(w, "find")
  /\ UNCHANGED <<rowVars, graphVars, asked, left, current, staged, grown,
                 cleanUp, faults>>

(* applyApprovedPatterns: nothing if a loop is running.                     *)
Effects(w) ==
  /\ pc[w] = "effects"
  /\ IF runningApply
     THEN Goto(w, "skipped") /\ UNCHANGED runningApply
     ELSE Goto(w, "find") /\ runningApply' = TRUE
  /\ UNCHANGED <<rowVars, graphVars, asked, left, current, staged, grown,
                 cleanUp, faults>>

(* Mutant: every row is applied.                                            *)
FoundAny == Rows

(* findApproved, also of patterns that have been applied before.            *)
Found == Approved

Find(w) ==
  /\ pc[w] = "find"
  /\ \/ /\ left' = [left EXCEPT ![w] = Found]
        /\ IF Found # {}
           THEN Goto(w, "statement") /\ UNCHANGED runningApply
           ELSE Goto(w, "done") /\ runningApply' = FALSE
        /\ UNCHANGED faults
     \/ /\ Fault
        /\ Goto(w, "done")
        /\ runningApply' = FALSE
        /\ UNCHANGED left
  /\ UNCHANGED <<rowVars, graphVars, asked, current, staged, grown, cleanUp>>

(* The statements of a pattern, in the transaction of the loop. When one    *)
(* rejects, the transaction is broken with all that the loop staged, unless *)
(* the pattern failed before it reached the database.                       *)
Statement(a) ==
  /\ pc[a] = "statement"
  /\ \E p \in left[a] :
       /\ current' = [current EXCEPT ![a] = p]
       /\ left' = [left EXCEPT ![a] = @ \ {p}]
       /\ \/ /\ staged' = [staged EXCEPT ![a] = @ \cup ({p} \X records)]
             /\ Goto(a, "mark")
             /\ UNCHANGED faults
          \/ /\ \E kept \in {staged[a], {}} :
                  staged' = [staged EXCEPT ![a] = kept]
             /\ Goto(a, "failing")
             /\ Fault
  /\ UNCHANGED <<rowVars, graphVars, runningApply, asked, grown, cleanUp>>

(* lastAppliedAt is set before the transaction commits, whatever the status *)
(* of the row is by now. If that update rejects, the pattern has failed.    *)
Mark(a) ==
  LET p == current[a]
      last == left[a] = {}
  IN
  /\ pc[a] = "mark"
  /\ \/ /\ applied' = applied \cup ({p} \cap Rows)
        /\ failed' = failed \ {p}
        /\ Goto(a, IF a = Drain \/ last THEN "commit" ELSE "statement")
        /\ runningApply' = (a = Drain \/ ~last)
        /\ current' = [current EXCEPT ![a] = None]
        /\ UNCHANGED faults
     \/ /\ Fault
        /\ Goto(a, "failing")
        /\ UNCHANGED <<applied, failed, runningApply, current>>
  /\ UNCHANGED <<status, graphVars, asked, left, staged, grown, cleanUp>>

(* Mutant: the drain queries once.                                          *)
DrainContinuesOnce(rest) == IF rest # {} THEN "statement" ELSE "idle"

(* The drain after one pattern: the rest of its round, or another round.    *)
DrainContinues(rest) == IF rest # {} THEN "statement" ELSE "query"

(* lastError is set, unless that update rejects too. The drain rolls back   *)
(* and goes on with its round; the loop of a write is over, and its         *)
(* transaction commits if it is open.                                       *)
Fails(a) ==
  /\ pc[a] = "failing"
  /\ \/ failed' = failed \cup ({current[a]} \cap Rows) /\ UNCHANGED faults
     \/ Fault /\ UNCHANGED failed
  /\ IF a = Drain
     THEN /\ Goto(a, DrainContinues(left[a]))
          /\ staged' = [staged EXCEPT ![a] = {}]
          /\ UNCHANGED <<runningApply, left>>
     ELSE /\ Goto(a, "commit")
          /\ runningApply' = FALSE
          /\ left' = [left EXCEPT ![a] = {}]
          /\ UNCHANGED staged
  /\ current' = [current EXCEPT ![a] = None]
  /\ UNCHANGED <<status, applied, graphVars, asked, grown, cleanUp>>

(* A rejected commit leaves no trace in the rows.                           *)
Commit(a) ==
  /\ pc[a] = "commit"
  /\ \/ edges' = edges \cup staged[a] /\ UNCHANGED faults
     \/ Fault /\ UNCHANGED edges
  /\ staged' = [staged EXCEPT ![a] = {}]
  /\ grown' = (grown \/ (a = Drain /\ edges' # edges))
  /\ Goto(a, IF a = Drain THEN DrainContinues(left[a]) ELSE "done")
  /\ UNCHANGED <<rowVars, records, runningApply, asked, left, current, cleanUp>>

-----------------------------------------------------------------------------

LoopStep(a) == Statement(a) \/ Mark(a) \/ Fails(a) \/ Commit(a)
DrainStep == Query \/ Recompute \/ LoopStep(Drain)
WriteStep(w) == Effects(w) \/ Find(w) \/ LoopStep(w)

Next ==
  \/ \E P \in SUBSET Pattern : Approve(P)
  \/ \E p \in Pattern :
       \/ Schedule(p)
       \/ Ignore(p) \/ Delete(p) \/ DeleteRelationships(p)
  \/ DrainStep
  \/ \E w \in Write : CommitWrite(w) \/ WriteStep(w)

(* The event loop and the databases go on; users and writers need not.      *)
Fairness ==
  /\ WF_vars(DrainStep)
  /\ \A w \in Write : WF_vars(WriteStep(w))
  /\ \A p \in Pattern : WF_vars(Schedule(p)) /\ WF_vars(DeleteRelationships(p))

Spec == Init /\ [][Next]_vars /\ Fairness

-----------------------------------------------------------------------------
(* Properties                                                               *)

(* The loops between their entry into runningApply and their exit. A write  *)
(* at "commit" is not among them: applyApprovedPatterns has returned, and   *)
(* the side-effect runner commits its transaction afterwards.               *)
Looping == {w \in Write : pc[w] \in {"find", "statement", "mark", "failing"}}
           \cup {a \in {Drain} : pc[a] \notin {"idle", "broken"}}

(* At most one loop is under way, however writes, approvals and failing     *)
(* statements interleave, and runningApply is set exactly while one is: the *)
(* project never stays in it after its loop is over, which would end all    *)
(* applying. Said of the loops and not of the graph: the transaction of a   *)
(* write is still open, with what its loop has merged, when the next loop   *)
(* may begin.                                                               *)
OneLoop ==
  /\ \A a, b \in Looping : a = b
  /\ runningApply <=> Looping # {}

(* Only what a user approved reaches the graph: suggestions never do, also  *)
(* not through a loop that read its patterns long before.                   *)
OnlyApprovedReachTheGraph ==
  \A e \in edges : status[e[1]] # "suggested"

Quiet ==
  /\ asked = {} /\ cleanUp = {}
  /\ pc[Drain] \in {"idle", "broken"}
  /\ \A w \in Write : pc[w] \in {"idle", "skipped", "done"}

(* When everything under way is over, an approved pattern shown as applied  *)
(* connects the records of every write, but for those whose side effects    *)
(* found another loop running, and unless the graph rejected something.     *)
AppliedMeansConnected ==
  Quiet /\ faults = 0 =>
    \A p \in Approved \cap applied, w \in records :
      <<p, w>> \in edges \/ pc[w] = "skipped"

(* A pattern approved while the drain is still applying others is picked up *)
(* by it, as "Re-queries after each pass" says, also behind failures, unless *)
(* the query itself rejects.                                                *)
DrainPicksUp ==
  \A p \in Pattern :
    p \in Pending /\ pc[Drain] \in {"query", "statement", "mark", "failing",
                                    "commit"}
      ~> p \notin Pending \/ pc[Drain] = "broken"
=============================================================================
