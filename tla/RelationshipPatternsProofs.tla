-------------------- MODULE RelationshipPatternsProofs --------------------
(***************************************************************************)
(* The safety of RelationshipPatterns for any number of patterns, writes    *)
(* and faults. That the loops exclude each other is inductive: a loop       *)
(* starts only where runningApply is not set, and whoever sets it is alone. *)
(* That only approved patterns reach the graph needs what a loop holds in   *)
(* its hands: patterns it has read and edges it has staged. The analysis,   *)
(* which fills the rows, is proved about at the end.                        *)
(***************************************************************************)
EXTENDS RelationshipPatterns, RelationshipAnalysis, TLAPS

(* A loop has read only patterns that are no longer mere suggestions.       *)
HeldInv ==
  \A a \in Actor :
    /\ \A p \in left[a] : status[p] # "suggested"
    /\ \A e \in staged[a] : status[e[1]] # "suggested"

-----------------------------------------------------------------------------
(* The type of everything but the two flags.                                *)
TypeRest ==
  /\ status \in [Pattern -> {"suggested", "approved", "ignored", "deleted"}]
  /\ applied \in SUBSET Pattern
  /\ failed \in SUBSET Pattern
  /\ records \in SUBSET Write
  /\ edges \in SUBSET Edge
  /\ asked \in SUBSET Pattern
  /\ pc \in [Actor -> DrainPlaces \cup WritePlaces]
  /\ pc[Drain] \in DrainPlaces
  /\ \A w \in Write : pc[w] \in WritePlaces
  /\ left \in [Actor -> SUBSET Pattern]
  /\ current \in [Actor -> Pattern \cup {None}]
  /\ staged \in [Actor -> SUBSET Edge]
  /\ cleanUp \in SUBSET Pattern
  /\ faults \in 0..MaxFaults

(* Every variable keeps its type, whichever action runs.                    *)
LEMMA TypeStep == TypeOK /\ [Next]_vars => TypeOK'
  <1> SUFFICES ASSUME TypeOK, [Next]_vars PROVE TypeOK'
    OBVIOUS
  <1> USE NamesAssumption, BoundsAssumption
  <1>1. ASSUME NEW P \in SUBSET Pattern, Approve(P) PROVE TypeOK'
    BY <1>1, SMTT(60)
    DEF TypeOK, Edge, Actor, DrainPlaces, WritePlaces, Approve,
        AppliedAfterApproval, rowVars, graphVars, loopVars
  <1>2. ASSUME NEW p \in Pattern, Schedule(p) PROVE TypeOK'
    <2>1. runningApply' \in BOOLEAN /\ grown' \in BOOLEAN
      BY <1>2, ZenonT(60)
      DEF TypeOK, Actor, Schedule, Goto, rowVars, graphVars, loopVars
    <2>2. TypeRest'
      BY <1>2, SMTT(60)
      DEF TypeOK, TypeRest, Edge, Actor, DrainPlaces, WritePlaces, Schedule,
          Goto, rowVars, graphVars, loopVars
    <2> QED BY <2>1, <2>2 DEF TypeOK, TypeRest
  <1>3. ASSUME NEW p \in Pattern, Ignore(p) PROVE TypeOK'
    BY <1>3, SMTT(60)
    DEF TypeOK, Edge, Actor, DrainPlaces, WritePlaces, Ignore, Rows,
        rowVars, graphVars, loopVars
  <1>4. ASSUME NEW p \in Pattern, Delete(p) PROVE TypeOK'
    BY <1>4, SMTT(60)
    DEF TypeOK, Edge, Actor, DrainPlaces, WritePlaces, Delete, Rows,
        rowVars, graphVars, loopVars
  <1>5. ASSUME NEW p \in Pattern, DeleteRelationships(p) PROVE TypeOK'
    BY <1>5, SMTT(60)
    DEF TypeOK, Edge, Actor, DrainPlaces, WritePlaces, DeleteRelationships,
        Fault, rowVars, graphVars, loopVars
  <1>6. ASSUME Query PROVE TypeOK'
    <2>1. runningApply' \in BOOLEAN /\ grown' \in BOOLEAN
      BY <1>6, ZenonT(60)
      DEF TypeOK, Actor, Query, Goto, DrainEnds, Pending, Approved, Fault,
          rowVars, graphVars, loopVars
    <2>2. TypeRest'
      BY <1>6, SMTT(60)
      DEF TypeOK, TypeRest, Edge, Actor, DrainPlaces, WritePlaces, Query,
          Goto, DrainEnds, Pending, Approved, Fault, rowVars, graphVars,
          loopVars
    <2> QED BY <2>1, <2>2 DEF TypeOK, TypeRest
  <1>7. ASSUME Recompute PROVE TypeOK'
    <2>1. runningApply' \in BOOLEAN /\ grown' \in BOOLEAN
      BY <1>7, ZenonT(60)
      DEF TypeOK, Actor, Recompute, Goto, rowVars, graphVars, loopVars
    <2>2. TypeRest'
      BY <1>7, SMTT(60)
      DEF TypeOK, TypeRest, Edge, Actor, DrainPlaces, WritePlaces,
          Recompute, Goto, rowVars, graphVars, loopVars
    <2> QED BY <2>1, <2>2 DEF TypeOK, TypeRest
  <1>8. ASSUME NEW w \in Write, CommitWrite(w) PROVE TypeOK'
    BY <1>8, SMTT(60)
    DEF TypeOK, Edge, Actor, DrainPlaces, WritePlaces, CommitWrite, Goto,
        rowVars, graphVars, loopVars
  <1>9. ASSUME NEW w \in Write, Effects(w) PROVE TypeOK'
    <2>1. runningApply' \in BOOLEAN /\ grown' \in BOOLEAN
      BY <1>9, ZenonT(60)
      DEF TypeOK, Actor, Effects, Goto, rowVars, graphVars, loopVars
    <2>2. TypeRest'
      BY <1>9, SMTT(60)
      DEF TypeOK, TypeRest, Edge, Actor, DrainPlaces, WritePlaces, Effects,
          Goto, rowVars, graphVars, loopVars
    <2> QED BY <2>1, <2>2 DEF TypeOK, TypeRest
  <1>10. ASSUME NEW w \in Write, Find(w) PROVE TypeOK'
    <2>1. runningApply' \in BOOLEAN /\ grown' \in BOOLEAN
      BY <1>10, ZenonT(60)
      DEF TypeOK, Actor, Find, Goto, Found, Approved, Fault, rowVars,
          graphVars, loopVars
    <2>2. TypeRest'
      BY <1>10, SMTT(60)
      DEF TypeOK, TypeRest, Edge, Actor, DrainPlaces, WritePlaces, Find,
          Goto, Found, Approved, Fault, rowVars, graphVars, loopVars
    <2> QED BY <2>1, <2>2 DEF TypeOK, TypeRest
  <1>11. ASSUME NEW a \in Actor, Statement(a) PROVE TypeOK'
    BY <1>11, SMTT(60)
    DEF TypeOK, Edge, Actor, DrainPlaces, WritePlaces, Statement, Goto,
        Fault, rowVars, graphVars, loopVars
  <1>12. ASSUME NEW a \in Actor, Mark(a) PROVE TypeOK'
    <2>1. runningApply' \in BOOLEAN /\ grown' \in BOOLEAN
      BY <1>12, ZenonT(60)
      DEF TypeOK, Actor, Mark, Goto, Fault, Rows, rowVars, graphVars,
          loopVars
    <2>2. TypeRest'
      BY <1>12, SMTT(60)
      DEF TypeOK, TypeRest, Edge, Actor, DrainPlaces, WritePlaces, Mark,
          Goto, Fault, Rows, rowVars, graphVars, loopVars
    <2> QED BY <2>1, <2>2 DEF TypeOK, TypeRest
  <1>13. ASSUME NEW a \in Actor, Fails(a) PROVE TypeOK'
    <2>1. runningApply' \in BOOLEAN /\ grown' \in BOOLEAN
      BY <1>13, ZenonT(60)
      DEF TypeOK, Actor, Fails, Goto, DrainContinues, Fault, Rows, rowVars,
          graphVars, loopVars
    <2>2. TypeRest'
      BY <1>13, SMTT(60)
      DEF TypeOK, TypeRest, Edge, Actor, DrainPlaces, WritePlaces, Fails,
          Goto, DrainContinues, Fault, Rows, rowVars, graphVars, loopVars
    <2> QED BY <2>1, <2>2 DEF TypeOK, TypeRest
  <1>14. ASSUME NEW a \in Actor, Commit(a) PROVE TypeOK'
    BY <1>14, SMTT(60)
    DEF TypeOK, Edge, Actor, DrainPlaces, WritePlaces, Commit, Goto,
        DrainContinues, Fault, rowVars, graphVars, loopVars
  <1>15. CASE UNCHANGED vars
    BY <1>15 DEF TypeOK, vars, rowVars, graphVars, loopVars
  <1> QED BY <1>1, <1>2, <1>3, <1>4, <1>5, <1>6, <1>7, <1>8, <1>9, <1>10,
         <1>11, <1>12, <1>13, <1>14, <1>15
         DEF Next, DrainStep, WriteStep, LoopStep, Actor

(* Type correctness: every reachable state satisfies TypeOK.                *)
THEOREM TypeCorrect == Spec => []TypeOK
  <1>1. Init => TypeOK
    <2> SUFFICES ASSUME Init PROVE TypeOK
      OBVIOUS
    <2>1. runningApply \in BOOLEAN /\ grown \in BOOLEAN
      BY DEF Init
    <2>2. TypeRest
      BY NamesAssumption, BoundsAssumption
      DEF Init, TypeRest, Actor, Edge, DrainPlaces, WritePlaces
    <2> QED BY <2>1, <2>2 DEF TypeOK, TypeRest
  <1> QED BY <1>1, TypeStep, PTL DEF Spec

-----------------------------------------------------------------------------
(* One loop at a time, actor by actor.                                      *)
Busy(a) == IF a = Drain THEN pc[a] \notin {"idle", "broken"}
           ELSE pc[a] \in {"find", "statement", "mark", "failing"}

Alone ==
  /\ \A a, b \in Actor : Busy(a) /\ Busy(b) => a = b
  /\ runningApply <=> \E a \in Actor : Busy(a)

(* The two ways to say it agree.                                            *)
LEMMA OneLoopIsAlone == OneLoop <=> Alone
  <1>1. Looping = {a \in Actor : Busy(a)}
    BY NamesAssumption DEF Looping, Busy, Actor
  <1> QED BY <1>1 DEF OneLoop, Alone

(* No action lets a second loop in, and each that ends a loop leaves        *)
(* runningApply.                                                            *)
LEMMA AloneStep == TypeOK /\ Alone /\ [Next]_vars => Alone'
  <1> SUFFICES ASSUME TypeOK, Alone, [Next]_vars PROVE Alone'
    OBVIOUS
  <1> USE NamesAssumption
  <1>a. /\ \A a, b \in Actor : Busy(a) /\ Busy(b) => a = b
        /\ runningApply <=> \E a \in Actor : Busy(a)
    BY DEF Alone
  <1>1. ASSUME NEW P \in SUBSET Pattern, Approve(P) PROVE Alone'
    BY <1>1, <1>a DEF Alone, Busy, Approve, rowVars, graphVars, loopVars
  <1>2. ASSUME NEW p \in Pattern, Schedule(p) PROVE Alone'
    BY <1>2, <1>a, SMTT(60)
    DEF Alone, Busy, TypeOK, Actor, DrainPlaces, WritePlaces, Schedule,
        Goto, rowVars, graphVars, loopVars
  <1>3. ASSUME NEW p \in Pattern, Ignore(p) PROVE Alone'
    BY <1>3, <1>a DEF Alone, Busy, Ignore, rowVars, graphVars, loopVars
  <1>4. ASSUME NEW p \in Pattern, Delete(p) PROVE Alone'
    BY <1>4, <1>a DEF Alone, Busy, Delete, rowVars, graphVars, loopVars
  <1>5. ASSUME NEW p \in Pattern, DeleteRelationships(p) PROVE Alone'
    BY <1>5, <1>a
    DEF Alone, Busy, DeleteRelationships, rowVars, graphVars, loopVars
  <1>6. ASSUME Query PROVE Alone'
    BY <1>6, <1>a, SMTT(60)
    DEF Alone, Busy, TypeOK, Actor, DrainPlaces, WritePlaces, Query, Goto,
        DrainEnds, Pending, Approved, Fault, rowVars, graphVars, loopVars
  <1>7. ASSUME Recompute PROVE Alone'
    BY <1>7, <1>a, SMTT(60)
    DEF Alone, Busy, TypeOK, Actor, DrainPlaces, WritePlaces, Recompute,
        Goto, rowVars, graphVars, loopVars
  <1>8. ASSUME NEW w \in Write, CommitWrite(w) PROVE Alone'
    BY <1>8, <1>a, SMTT(60)
    DEF Alone, Busy, TypeOK, Actor, DrainPlaces, WritePlaces, CommitWrite,
        Goto, rowVars, graphVars, loopVars
  <1>9. ASSUME NEW w \in Write, Effects(w) PROVE Alone'
    BY <1>9, <1>a, SMTT(60)
    DEF Alone, Busy, TypeOK, Actor, DrainPlaces, WritePlaces, Effects, Goto,
        rowVars, graphVars, loopVars
  <1>10. ASSUME NEW w \in Write, Find(w) PROVE Alone'
    BY <1>10, <1>a, SMTT(60)
    DEF Alone, Busy, TypeOK, Actor, DrainPlaces, WritePlaces, Find, Goto,
        Found, Approved, Fault, rowVars, graphVars, loopVars
  <1>11. ASSUME NEW a \in Actor, Statement(a) PROVE Alone'
    BY <1>11, <1>a, SMTT(60)
    DEF Alone, Busy, TypeOK, Actor, DrainPlaces, WritePlaces, Statement,
        Goto, Fault, rowVars, graphVars, loopVars
  <1>12. ASSUME NEW a \in Actor, Mark(a) PROVE Alone'
    <2>1. Busy(a) /\ \A b \in Actor : b # a => pc'[b] = pc[b]
      BY <1>12, SMTT(60) DEF Busy, TypeOK, Actor, DrainPlaces, Mark, Goto, Fault
    <2>2. Busy(a)' <=> runningApply'
      <3>1. CASE pc'[a] = "failing"
        <4>1. runningApply' = runningApply
          BY <1>12, <3>1, SMTT(60)
          DEF Mark, Goto, TypeOK, Actor, DrainPlaces, WritePlaces
        <4> QED BY <4>1, <3>1, <2>1, <1>a DEF Busy
      <3>2. CASE pc'[a] # "failing"
        <4>1. /\ runningApply' = (a = Drain \/ ~(left[a] = {}))
              /\ pc'[a] = IF a = Drain \/ left[a] = {}
                         THEN "commit" ELSE "statement"
          BY <1>12, <3>2, SMTT(60)
          DEF Mark, Goto, TypeOK, Actor, DrainPlaces, WritePlaces
        <4>2. CASE a = Drain \/ ~(left[a] = {})
          BY <4>1, <4>2 DEF Busy
        <4>3. CASE a # Drain /\ left[a] = {}
          BY <4>1, <4>3 DEF Busy
        <4> QED BY <4>2, <4>3
      <3> QED BY <3>1, <3>2
    <2>3. \A b \in Actor : b # a => ~Busy(b)'
      BY <2>1, <1>a DEF Busy
    <2> QED BY <2>2, <2>3 DEF Alone
  <1>13. ASSUME NEW a \in Actor, Fails(a) PROVE Alone'
    BY <1>13, <1>a, SMTT(60)
    DEF Alone, Busy, TypeOK, Actor, DrainPlaces, WritePlaces, Fails, Goto,
        DrainContinues, Fault, Rows, rowVars, graphVars, loopVars
  <1>14. ASSUME NEW a \in Actor, Commit(a) PROVE Alone'
    BY <1>14, <1>a, SMTT(60)
    DEF Alone, Busy, TypeOK, Actor, DrainPlaces, WritePlaces, Commit, Goto,
        DrainContinues, Fault, rowVars, graphVars, loopVars
  <1>15. CASE UNCHANGED vars
    <2>1. pc' = pc /\ (runningApply' = runningApply)
      BY <1>15 DEF vars, rowVars, graphVars, loopVars
    <2> QED BY <2>1, <1>a DEF Alone, Busy
  <1> QED BY <1>1, <1>2, <1>3, <1>4, <1>5, <1>6, <1>7, <1>8, <1>9, <1>10,
         <1>11, <1>12, <1>13, <1>14, <1>15
         DEF Next, DrainStep, WriteStep, LoopStep, Actor

(* The loops of writes and the drain never overlap, and runningApply is set *)
(* exactly while one of them is under way.                                  *)
THEOREM LoopsExclude == Spec => []OneLoop
  <1>1. Init => Alone
    BY NamesAssumption DEF Init, Alone, Busy, Actor
  <1>2. Alone => OneLoop
    BY OneLoopIsAlone
  <1> QED BY <1>1, <1>2, TypeCorrect, AloneStep, PTL DEF Spec

-----------------------------------------------------------------------------
(* What a loop has read or staged was approved once, and nothing but that   *)
(* is committed.                                                            *)
LEMMA HeldStep ==
  TypeOK /\ HeldInv /\ OnlyApprovedReachTheGraph /\ [Next]_vars
    => HeldInv' /\ OnlyApprovedReachTheGraph'
  <1> SUFFICES ASSUME TypeOK, HeldInv, OnlyApprovedReachTheGraph, [Next]_vars
               PROVE HeldInv' /\ OnlyApprovedReachTheGraph'
    OBVIOUS
  <1> USE NamesAssumption
  <1>1. ASSUME NEW P \in SUBSET Pattern, Approve(P)
       PROVE HeldInv' /\ OnlyApprovedReachTheGraph'
    BY <1>1, SMTT(60)
    DEF HeldInv, OnlyApprovedReachTheGraph, TypeOK, Edge, Actor, Approve,
        AppliedAfterApproval, rowVars, graphVars, loopVars
  <1>2. ASSUME NEW p \in Pattern, Schedule(p)
       PROVE HeldInv' /\ OnlyApprovedReachTheGraph'
    BY <1>2, SMTT(60)
    DEF HeldInv, OnlyApprovedReachTheGraph, TypeOK, Edge, Actor, Schedule,
        Goto, rowVars, graphVars, loopVars
  <1>3. ASSUME NEW p \in Pattern, Ignore(p)
       PROVE HeldInv' /\ OnlyApprovedReachTheGraph'
    BY <1>3, SMTT(60)
    DEF HeldInv, OnlyApprovedReachTheGraph, TypeOK, Edge, Actor, Ignore,
        Rows, rowVars, graphVars, loopVars
  <1>4. ASSUME NEW p \in Pattern, Delete(p)
       PROVE HeldInv' /\ OnlyApprovedReachTheGraph'
    BY <1>4, SMTT(60)
    DEF HeldInv, OnlyApprovedReachTheGraph, TypeOK, Edge, Actor, Delete,
        Rows, rowVars, graphVars, loopVars
  <1>5. ASSUME NEW p \in Pattern, DeleteRelationships(p)
       PROVE HeldInv' /\ OnlyApprovedReachTheGraph'
    BY <1>5, SMTT(60)
    DEF HeldInv, OnlyApprovedReachTheGraph, TypeOK, Edge, Actor,
        DeleteRelationships, Fault, rowVars, graphVars, loopVars
  <1>6. ASSUME Query PROVE HeldInv' /\ OnlyApprovedReachTheGraph'
    BY <1>6, SMTT(60)
    DEF HeldInv, OnlyApprovedReachTheGraph, TypeOK, Edge, Actor, Query,
        Goto, DrainEnds, Pending, Approved, Fault, rowVars, graphVars,
        loopVars
  <1>7. ASSUME Recompute PROVE HeldInv' /\ OnlyApprovedReachTheGraph'
    BY <1>7, SMTT(60)
    DEF HeldInv, OnlyApprovedReachTheGraph, TypeOK, Edge, Actor, Recompute,
        Goto, rowVars, graphVars, loopVars
  <1>8. ASSUME NEW w \in Write, CommitWrite(w)
       PROVE HeldInv' /\ OnlyApprovedReachTheGraph'
    BY <1>8, SMTT(60)
    DEF HeldInv, OnlyApprovedReachTheGraph, TypeOK, Edge, Actor,
        CommitWrite, Goto, rowVars, graphVars, loopVars
  <1>9. ASSUME NEW w \in Write, Effects(w)
       PROVE HeldInv' /\ OnlyApprovedReachTheGraph'
    BY <1>9, SMTT(60)
    DEF HeldInv, OnlyApprovedReachTheGraph, TypeOK, Edge, Actor, Effects,
        Goto, rowVars, graphVars, loopVars
  <1>10. ASSUME NEW w \in Write, Find(w)
       PROVE HeldInv' /\ OnlyApprovedReachTheGraph'
    BY <1>10, SMTT(60)
    DEF HeldInv, OnlyApprovedReachTheGraph, TypeOK, Edge, Actor, Find, Goto,
        Found, Approved, Fault, rowVars, graphVars, loopVars
  <1>11. ASSUME NEW a \in Actor, Statement(a)
       PROVE HeldInv' /\ OnlyApprovedReachTheGraph'
    BY <1>11, SMTT(60)
    DEF HeldInv, OnlyApprovedReachTheGraph, TypeOK, Edge, Actor, Statement,
        Goto, Fault, rowVars, graphVars, loopVars
  <1>12. ASSUME NEW a \in Actor, Mark(a)
       PROVE HeldInv' /\ OnlyApprovedReachTheGraph'
    BY <1>12, SMTT(60)
    DEF HeldInv, OnlyApprovedReachTheGraph, TypeOK, Edge, Actor, Mark, Goto,
        Fault, Rows, rowVars, graphVars, loopVars
  <1>13. ASSUME NEW a \in Actor, Fails(a)
       PROVE HeldInv' /\ OnlyApprovedReachTheGraph'
    BY <1>13, SMTT(60)
    DEF HeldInv, OnlyApprovedReachTheGraph, TypeOK, Edge, Actor, Fails,
        Goto, DrainContinues, Fault, Rows, rowVars, graphVars, loopVars
  <1>14. ASSUME NEW a \in Actor, Commit(a)
       PROVE HeldInv' /\ OnlyApprovedReachTheGraph'
    BY <1>14, SMTT(60)
    DEF HeldInv, OnlyApprovedReachTheGraph, TypeOK, Edge, Actor, Commit,
        Goto, DrainContinues, Fault, rowVars, graphVars, loopVars
  <1>15. CASE UNCHANGED vars
    BY <1>15
    DEF HeldInv, OnlyApprovedReachTheGraph, vars, rowVars, graphVars,
        loopVars
  <1> QED BY <1>1, <1>2, <1>3, <1>4, <1>5, <1>6, <1>7, <1>8, <1>9, <1>10,
         <1>11, <1>12, <1>13, <1>14, <1>15
         DEF Next, DrainStep, WriteStep, LoopStep, Actor

(* No suggestion reaches the graph, whatever a loop read long ago.          *)
THEOREM SuggestionsStayOut == Spec => []OnlyApprovedReachTheGraph
  <1>1. Init => HeldInv /\ OnlyApprovedReachTheGraph
    BY DEF Init, HeldInv, OnlyApprovedReachTheGraph
  <1> QED BY <1>1, TypeCorrect, HeldStep, PTL DEF Spec

-----------------------------------------------------------------------------
(* While nothing is rejected: where the edges between an applied pattern    *)
(* and a write are, or who is still to connect them.                        *)
Connected(p, w) ==
  \/ <<p, w>> \in edges
  \/ \E a \in Actor : <<p, w>> \in staged[a]
  \/ pc[w] \in {"effects", "find", "skipped"}
  \/ p \in left[w]

(* What a loop holds, place by place.                                       *)
Hands ==
  /\ \A a \in Actor : pc[a] # "failing"
  /\ \A a \in Actor : pc[a] \notin {"statement", "mark", "commit"} => staged[a] = {}
  /\ \A w \in Write : pc[w] \notin {"statement", "mark"} => left[w] = {}

(* A write that comes while a pattern is being applied is turned away.      *)
Missed ==
  \A a \in Actor : pc[a] = "mark" =>
    \A w \in records : \/ <<current[a], w>> \in staged[a]
                       \/ pc[w] \in {"effects", "skipped"}

Reached ==
  /\ Hands /\ Missed
  /\ \A p \in Approved \cap applied, w \in records : Connected(p, w)

Gone == \A p \in cleanUp : status[p] = "deleted"

LEMMA GoneStep == TypeOK /\ Gone /\ [Next]_vars => Gone'
  <1> SUFFICES ASSUME TypeOK, Gone, [Next]_vars PROVE Gone'
    OBVIOUS
  <1>1. CASE \E P \in SUBSET Pattern : Approve(P)
    BY <1>1 DEF Gone, TypeOK, Approve, Rows
  <1>2. CASE \E p \in Pattern : Ignore(p) \/ Delete(p) \/ DeleteRelationships(p)
    BY <1>2 DEF Gone, TypeOK, Ignore, Delete, DeleteRelationships, Rows, rowVars
  <1>3. CASE UNCHANGED <<status, cleanUp>>
    BY <1>3 DEF Gone
  <1> QED BY <1>1, <1>2, <1>3
          DEF Next, vars, DrainStep, WriteStep, LoopStep, Schedule, Query, Recompute, CommitWrite,
              Effects, Find, Statement, Mark, Fails, Commit, rowVars

(* Rejections are never taken back.                                         *)
LEMMA FaultsStay == TypeOK /\ [Next]_vars /\ faults' = 0 => faults = 0
  <1> SUFFICES ASSUME TypeOK, [Next]_vars, faults' = 0 PROVE faults = 0
    OBVIOUS
  <1>1. faults \in Nat
    BY BoundsAssumption DEF TypeOK
  <1>2. faults' = faults \/ faults' = faults + 1
    BY DEF Next, vars, DrainStep, WriteStep, LoopStep, Approve, Schedule, Ignore, Delete,
           DeleteRelationships, Query, Recompute, CommitWrite, Effects, Find, Statement, Mark,
           Fails, Commit, Fault
  <1> QED BY <1>1, <1>2

(* As long as nothing is rejected, each step hands its edges on.            *)
LEMMA ReachedStep ==
  ASSUME TypeOK, TypeOK', Alone, Gone, Reached, [Next]_vars, faults = 0, faults' = 0
  PROVE  Reached'
  <1> USE NamesAssumption
  <1>0. ~Fault
    BY DEF Fault
  <1>1. ASSUME NEW P \in SUBSET Pattern, Approve(P) PROVE Reached'
    BY <1>1, SMTT(60)
    DEF Reached, Hands, Missed, Connected, Approved, TypeOK, Approve, AppliedAfterApproval,
        graphVars, loopVars
  <1>2. ASSUME NEW p \in Pattern, Schedule(p) PROVE Reached'
    <2>1. /\ UNCHANGED <<rowVars, graphVars, left, current, staged>>
          /\ \A w \in Write : pc'[w] = pc[w]
          /\ pc'[Drain] = pc[Drain] \/ (pc'[Drain] = "query" /\ ~runningApply)
      BY <1>2 DEF Schedule, Goto, TypeOK, Actor
    <2>2. ~runningApply => pc[Drain] \in {"idle", "broken"}
      <3>1. runningApply <=> \E a \in Actor : Busy(a)
        BY DEF Alone
      <3>2. Drain \in Actor /\ (Busy(Drain) <=> pc[Drain] \notin {"idle", "broken"})
        BY DEF Actor, Busy
      <3> QED BY <3>1, <3>2, Zenon
    <2> QED
      BY <2>1, <2>2, SMTT(60)
      DEF Reached, Hands, Missed, Connected, Approved, TypeOK, Actor, rowVars, graphVars
  <1>3. ASSUME NEW p \in Pattern, Ignore(p) PROVE Reached'
    BY <1>3, SMTT(60)
    DEF Reached, Hands, Missed, Connected, Approved, TypeOK, Ignore, graphVars, loopVars
  <1>4. ASSUME NEW p \in Pattern, Delete(p) PROVE Reached'
    BY <1>4, SMTT(60)
    DEF Reached, Hands, Missed, Connected, Approved, TypeOK, Delete, graphVars, loopVars
  <1>5. ASSUME NEW p \in Pattern, DeleteRelationships(p) PROVE Reached'
    <2>1. p \notin Approved /\ edges' = {e \in edges : e[1] # p}
          /\ UNCHANGED <<rowVars, records, loopVars>>
      BY <1>0, <1>5 DEF DeleteRelationships, Gone, Approved
    <2> QED
      BY <2>1 DEF Reached, Hands, Missed, Connected, Approved, rowVars, loopVars
  <1>6. ASSUME Query PROVE Reached'
    <2>1. /\ UNCHANGED <<rowVars, graphVars, current, staged>>
          /\ \A w \in Write : pc'[w] = pc[w] /\ left'[w] = left[w]
          /\ pc[Drain] = "query" /\ pc'[Drain] \in {"statement", "recompute", "idle"}
      BY <1>0, <1>6 DEF Query, Goto, DrainEnds, TypeOK, Actor
    <2> QED
      BY <2>1, SMTT(60)
      DEF Reached, Hands, Missed, Connected, Approved, TypeOK, Actor, rowVars, graphVars
  <1>7. ASSUME Recompute PROVE Reached'
    BY <1>7, SMTT(60)
    DEF Reached, Hands, Missed, Connected, Approved, TypeOK, Actor, Recompute, Goto,
        rowVars, graphVars
  <1>8. ASSUME NEW w \in Write, CommitWrite(w) PROVE Reached'
    BY <1>8, SMTT(60)
    DEF Reached, Hands, Missed, Connected, Approved, TypeOK, Actor, CommitWrite, Goto, rowVars
  <1>9. ASSUME NEW w \in Write, Effects(w) PROVE Reached'
    <2>1. /\ UNCHANGED <<rowVars, graphVars, left, current, staged>>
          /\ \A a \in Actor : a # w => pc'[a] = pc[a]
          /\ pc[w] = "effects"
          /\ pc'[w] = "skipped" \/ (pc'[w] = "find" /\ ~runningApply)
      BY <1>9 DEF Effects, Goto, TypeOK, Actor
    <2>2. ~runningApply => \A a \in Actor : pc[a] # "mark"
      <3>1. runningApply <=> \E a \in Actor : Busy(a)
        BY DEF Alone
      <3>2. \A a \in Actor : pc[a] = "mark" => Busy(a)
        BY DEF Busy
      <3> QED BY <3>1, <3>2, Zenon
    <2>3. Hands'
      BY <2>1 DEF Reached, Hands, Actor
    <2>4. Missed'
      BY <2>1, <2>2, SMTT(60) DEF Reached, Missed, TypeOK, Actor, graphVars
    <2>5. ASSUME NEW p \in Approved \cap applied, NEW v \in records PROVE Connected(p, v)'
      <3>1. v \in Actor /\ Connected(p, v)
        BY DEF Reached, TypeOK, Actor
      <3> QED BY <2>1, <3>1 DEF Connected, graphVars
    <2> QED
      BY <2>1, <2>3, <2>4, <2>5 DEF Reached, Approved, rowVars, graphVars
  <1>10. ASSUME NEW w \in Write, Find(w) PROVE Reached'
    <2>1. /\ UNCHANGED <<rowVars, graphVars, current, staged>>
          /\ \A a \in Actor : a # w => pc'[a] = pc[a] /\ left'[a] = left[a]
          /\ pc[w] = "find" /\ left'[w] = Approved
          /\ pc'[w] = IF Approved = {} THEN "done" ELSE "statement"
      BY <1>0, <1>10 DEF Find, Found, Goto, TypeOK, Actor
    <2>2. Hands'
      BY <2>1 DEF Reached, Hands, Actor
    <2>3. Missed'
      BY <2>1, SMTT(60) DEF Reached, Missed, TypeOK, Actor, graphVars
    <2>4. ASSUME NEW p \in Approved \cap applied, NEW v \in records PROVE Connected(p, v)'
      <3>1. v \in Actor /\ Connected(p, v)
        BY DEF Reached, TypeOK, Actor
      <3> QED BY <2>1, <3>1 DEF Connected, graphVars
    <2> QED
      BY <2>1, <2>2, <2>3, <2>4 DEF Reached, Approved, rowVars, graphVars
  <1>11. ASSUME NEW a \in Actor, Statement(a) PROVE Reached'
    <2>1. PICK p \in left[a] :
            /\ current'[a] = p /\ left'[a] = left[a] \ {p}
            /\ staged'[a] = staged[a] \cup ({p} \X records)
      BY <1>0, <1>11 DEF Statement, TypeOK
    <2>2. /\ pc[a] = "statement" /\ pc'[a] = "mark"
          /\ UNCHANGED <<rowVars, graphVars>>
          /\ \A b \in Actor : b # a => /\ pc'[b] = pc[b] /\ left'[b] = left[b]
                                       /\ current'[b] = current[b] /\ staged'[b] = staged[b]
      BY <1>0, <1>11 DEF Statement, Goto, TypeOK
    <2>3. Hands'
      BY <2>1, <2>2 DEF Reached, Hands, Actor
    <2>4. Missed'
      <3> SUFFICES ASSUME NEW b \in Actor, pc'[b] = "mark", NEW w \in records
                   PROVE  <<current'[b], w>> \in staged'[b] \/ pc'[w] \in {"effects", "skipped"}
        BY <2>2 DEF Missed, graphVars
      <3>1. w \in Actor /\ (pc[w] \in {"effects", "skipped"} => pc'[w] = pc[w])
        BY <2>2 DEF TypeOK, Actor
      <3>2. CASE b = a
        BY <2>1, <3>2
      <3>3. CASE b # a
        BY <2>2, <3>1, <3>3 DEF Reached, Missed
      <3> QED BY <3>2, <3>3
    <2>5. ASSUME NEW q \in Approved \cap applied, NEW w \in records PROVE Connected(q, w)'
      <3>1. w \in Actor /\ Connected(q, w)
        BY DEF Reached, TypeOK, Actor
      <3>2. \A b \in Actor : staged[b] \subseteq staged'[b]
        BY <2>1, <2>2
      <3>3. pc[w] \in {"effects", "find", "skipped"} => pc'[w] = pc[w]
        BY <2>2, <3>1
      <3>4. q \in left[w] => q \in left'[w] \/ <<q, w>> \in staged'[a]
        BY <2>1, <2>2, <3>1
      <3> QED BY <2>2, <3>1, <3>2, <3>3, <3>4 DEF Connected, graphVars
    <2> QED
      BY <2>2, <2>3, <2>4, <2>5 DEF Reached, Approved, rowVars, graphVars
  <1>12. ASSUME NEW a \in Actor, Mark(a) PROVE Reached'
    <2>1. /\ pc[a] = "mark" /\ pc'[a] \in {"commit", "statement"}
          /\ pc'[a] = "commit" => a = Drain \/ left[a] = {}
          /\ applied' \subseteq applied \cup {current[a]}
          /\ UNCHANGED <<status, graphVars, left, staged>>
          /\ \A b \in Actor : b # a => pc'[b] = pc[b] /\ current'[b] = current[b]
      BY <1>0, <1>12 DEF Mark, Goto, TypeOK
    <2>2. Hands'
      BY <2>1 DEF Reached, Hands, Actor
    <2>3. \A w \in records : w \in Actor /\ (pc[w] # "mark" => pc'[w] = pc[w])
      BY <2>1 DEF TypeOK, Actor
    <2>4. Missed'
      BY <2>1, <2>3, SMTT(60) DEF Reached, Missed, graphVars
    <2>5. ASSUME NEW q \in Approved \cap applied', NEW w \in records PROVE Connected(q, w)'
      <3>1. CASE q \in applied
        BY <2>1, <2>3, <3>1 DEF Reached, Connected, graphVars
      <3>2. CASE q = current[a]
        BY <2>1, <2>3, <3>2 DEF Reached, Missed, Connected, graphVars
      <3> QED BY <2>1, <3>1, <3>2
    <2> QED
      BY <2>1, <2>2, <2>4, <2>5 DEF Reached, Approved, graphVars
  <1>13. ASSUME NEW a \in Actor, Fails(a) PROVE Reached'
    BY <1>13 DEF Fails, Reached, Hands
  <1>14. ASSUME NEW a \in Actor, Commit(a) PROVE Reached'
    <2>1. /\ pc[a] = "commit" /\ pc'[a] \in {"statement", "query", "done"}
          /\ staged'[a] = {} /\ edges' = edges \cup staged[a]
          /\ UNCHANGED <<rowVars, records, left, current>>
          /\ pc'[a] = "statement" => a = Drain
          /\ \A b \in Actor : b # a => pc'[b] = pc[b] /\ staged'[b] = staged[b]
      BY <1>0, <1>14 DEF Commit, DrainContinues, Goto, TypeOK
    <2>2. Hands'
      BY <2>1 DEF Reached, Hands, Actor
    <2>3. \A w \in records : w \in Actor /\ (pc[w] # "commit" => pc'[w] = pc[w])
      BY <2>1 DEF TypeOK, Actor
    <2>4. Missed'
      BY <2>1, <2>3, SMTT(60) DEF Reached, Missed
    <2>5. ASSUME NEW q \in Approved \cap applied, NEW w \in records PROVE Connected(q, w)'
      BY <2>1, <2>3 DEF Reached, Connected
    <2> QED
      BY <2>1, <2>2, <2>4, <2>5 DEF Reached, Approved, rowVars
  <1>15. CASE UNCHANGED vars
    BY <1>15
    DEF Reached, Hands, Missed, Connected, Approved, vars, rowVars, graphVars, loopVars
  <1> QED BY <1>1, <1>2, <1>3, <1>4, <1>5, <1>6, <1>7, <1>8, <1>9, <1>10,
         <1>11, <1>12, <1>13, <1>14, <1>15
         DEF Next, DrainStep, WriteStep, LoopStep, Actor

(* When all is over and nothing was rejected, a pattern shown as applied    *)
(* connects every write that was not turned away, in whatever order writes, *)
(* approvals and deletions came.                                            *)
THEOREM AppliedConnects == Spec => []AppliedMeansConnected
  <1> DEFINE Inv == TypeOK /\ Alone /\ Gone /\ (faults = 0 => Reached)
  <1>1. Init => Alone /\ Gone /\ Reached
    BY NamesAssumption DEF Init, Alone, Busy, Actor, Gone, Reached, Hands, Missed
  <1>2. Inv /\ TypeOK' /\ [Next]_vars => Inv'
    BY AloneStep, GoneStep, FaultsStay, ReachedStep
  <1>3. Inv => AppliedMeansConnected
    <2> SUFFICES ASSUME Inv, Quiet, faults = 0,
                        NEW p \in Approved \cap applied, NEW w \in records
                 PROVE  <<p, w>> \in edges \/ pc[w] = "skipped"
      BY DEF AppliedMeansConnected
    <2>1. w \in Write /\ pc[w] \in {"idle", "skipped", "done"} /\ left[w] = {}
      BY DEF TypeOK, Quiet, Reached, Hands
    <2>2. \A a \in Actor : staged[a] = {}
      BY DEF Quiet, Reached, Hands, Actor
    <2>3. Connected(p, w)
      BY DEF Reached
    <2> QED BY <2>1, <2>2, <2>3 DEF Connected
  <1> HIDE DEF Inv
  <1>4. Inv /\ TypeOK' /\ [Next]_vars => Inv'
    BY <1>2
  <1>5. Init /\ TypeOK => Inv
    BY <1>1 DEF Inv
  <1> QED BY <1>3, <1>4, <1>5, TypeCorrect, PTL DEF Spec

-----------------------------------------------------------------------------
(* RelationshipAnalysis, for any number of joins, requests, rejections and  *)
(* restarts: types, no join twice, decisions kept. Its variables are its    *)
(* own, and nothing is said of both at once.                                *)

(* The rows a run is reset to have their type.                              *)
LEMMA EmptyRowsTypes == NoRows \in [Candidate -> Status]
  BY DEF NoRows, Status

LEMMA SignatureTypes == AnalysisTypeOK => Signature \in Signatures
  BY DEF AnalysisTypeOK, Signature, Signatures

LEMMA AnalysisInitialTypes == AnalysisInit => AnalysisTypeOK
<1> SUFFICES ASSUME AnalysisInit PROVE AnalysisTypeOK
  OBVIOUS
<1> USE DEF AnalysisInit
<1>1. queue \in {"idle", "pending", "running", "error"}
  OBVIOUS
<1>2. /\ rows \in [Candidate -> Status]
      /\ known \in [Candidate -> Status]
  BY EmptyRowsTypes
<1>3. seen \in SUBSET Join /\ lastSignature \in {NoSignature} \cup Signatures
  BY EmptyRowsTypes
<1>4. stage \in [Request -> {"idle", "written", "read", "enqueued", "done"}]
  OBVIOUS
<1>5. run \in Places
  BY DEF Places
<1>6. todo \in SUBSET Candidate /\ now \in SUBSET Request
  OBVIOUS
<1>7. owed \in SUBSET Writer
  OBVIOUS
<1>8. rejections \in 0..MaxRejections /\ restarts \in 0..MaxRestarts
  BY AnalysisBounds
<1> QED
  BY <1>1, <1>2, <1>3, <1>4, <1>5, <1>6, <1>7, <1>8 DEF AnalysisTypeOK

(* What a run that ends leaves behind.                                      *)
LEMMA LeaveTypes ==
  Leave =>
    /\ run' \in Places
    /\ runningAnalysis' \in BOOLEAN
    /\ seen' \in SUBSET Join
    /\ known' \in [Candidate -> Status]
    /\ todo' \in SUBSET Candidate
  BY EmptyRowsTypes DEF Leave, Places

(* Every variable keeps its type.                                           *)
THEOREM AnalysisTypeCorrect == AnalysisSpec => []AnalysisTypeOK
<1> USE AnalysisBounds
<1>1. AnalysisInit => AnalysisTypeOK
  BY AnalysisInitialTypes
<1>2. ASSUME AnalysisTypeOK, [AnalysisNext]_analysisVars PROVE AnalysisTypeOK'
  <2> USE <1>2 DEF AnalysisTypeOK, Rejection, bounds, queueVars,
                  requestVars, runVars
  <2>1. CASE TimePasses
    BY <2>1 DEF TimePasses
  <2>2. ASSUME NEW c \in Candidate, Decide(c) PROVE AnalysisTypeOK'
    BY <2>2 DEF Decide
  <2>3. ASSUME NEW r \in Request, WriteCommits(r) PROVE AnalysisTypeOK'
    BY <2>3 DEF WriteCommits
  <2>4. ASSUME NEW r \in Request, ForceAnalysis(r) PROVE AnalysisTypeOK'
    BY <2>4 DEF ForceAnalysis
  <2>5. ASSUME NEW r \in Request, ReadQueue(r) PROVE AnalysisTypeOK'
    BY <2>5 DEF ReadQueue
  <2>6. ASSUME NEW r \in Request, Enqueue(r) PROVE AnalysisTypeOK'
    <3>1. due' \in BOOLEAN
      BY <2>6 DEF Enqueue
    <3>2. owed' \in SUBSET Writer
      BY <2>6 DEF Enqueue
    <3> QED
      BY <2>6, <3>1, <3>2 DEF Enqueue
  <2>7. ASSUME NEW r \in Request, StartNow(r) PROVE AnalysisTypeOK'
    BY <2>7 DEF StartNow, StartRun, Places
  <2>8. CASE Sweep
    BY <2>8 DEF Sweep
  <2>9. CASE StartDue
    BY <2>9 DEF StartDue, StartRun, Places
  <2>10. CASE BeginRun
    BY <2>10 DEF BeginRun, Places
  <2>11. CASE LoadSchema
    BY <2>11 DEF LoadSchema, Rejects, Places
  <2>12. CASE LoadRows
    BY <2>12 DEF LoadRows, Rejects, Places, Orphaned
  <2>13. CASE Prune
    BY <2>13 DEF Prune, Rejects, Places, KnownWithout,
       Status
  <2>14. CASE Suggest
    BY <2>14 DEF Suggest, Rejects, Places
  <2>15. CASE Store
    BY <2>15 DEF Store, Rejects, Places, Stored,
       Status
  <2>16. CASE FinishRun
    <3>1. CASE Rejects
      BY <2>16, <3>1, SignatureTypes DEF FinishRun, Rejects,
         Places
    <3>2. CASE ~Rejects
      <4>1. owed' \in SUBSET Writer
        BY <2>16, <3>2 DEF FinishRun
      <4>2. lastSignature' \in {NoSignature} \cup Signatures
        BY <2>16, SignatureTypes DEF FinishRun
      <4> QED
        BY <2>16, <3>2, <4>1, <4>2, LeaveTypes DEF FinishRun
    <3> QED
      BY <3>1, <3>2
  <2>17. CASE CatchError
    <3>1. queue' \in {"idle", "pending", "running", "error"}
      BY <2>17 DEF CatchError
    <3>2. cooling' \in BOOLEAN
      BY <2>17 DEF CatchError
    <3>3. rejections' \in 0..MaxRejections
      BY <2>17 DEF CatchError
    <3> QED
      BY <2>17, <3>1, <3>2, <3>3, LeaveTypes DEF CatchError
  <2>18. CASE Restart
    <3>1. stage' \in [Request -> {"idle", "written", "read", "enqueued", "done"}]
      BY <2>18 DEF Restart
    <3>2. restarts' \in 0..MaxRestarts
      BY <2>18 DEF Restart
    <3> QED
      BY <2>18, <3>1, <3>2, LeaveTypes DEF Restart
  <2>19. CASE UNCHANGED analysisVars
    BY <2>19 DEF analysisVars
  <2> QED
    BY <1>2, <2>1, <2>2, <2>3, <2>4, <2>5, <2>6, <2>7, <2>8, <2>9, <2>10,
       <2>11, <2>12, <2>13, <2>14, <2>15, <2>16, <2>17, <2>18, <2>19
       DEF AnalysisNext, RunStep, RequestStep
<1> QED
  BY <1>1, <1>2, PTL DEF AnalysisSpec

-----------------------------------------------------------------------------

RowPresent(c) == rows[c] # "absent"

(* What a run relies on while it prunes and stores: it prunes what it knows *)
(* as a suggestion; it knows every row there is, but for those it stored;   *)
(* and what it has yet to store has no row in either direction.             *)
RunKnows ==
  /\ run = "prune" => \A c \in todo : known[c] = "suggested"
  /\ run \in {"prune", "llm"} =>
       \A c \in Candidate : RowPresent(c) => known[c] # "absent"
  /\ run = "store" =>
       /\ Deduped(todo)
       /\ \A c \in todo :
            /\ known[c] = "absent"
            /\ \A d \in Candidate : d[1] = c[1] => ~RowPresent(d)

AnalysisInv == AnalysisTypeOK /\ NoDuplicateJoin /\ RunKnows

(* What a run relies on holds throughout, and so no join has two rows.      *)
THEOREM AnalysisInvariance == AnalysisSpec => []AnalysisInv
<1>1. AnalysisInit => AnalysisInv
  <2> SUFFICES ASSUME AnalysisInit PROVE NoDuplicateJoin /\ RunKnows /\ AnalysisTypeOK
    BY DEF AnalysisInv
  <2>1. AnalysisTypeOK
    BY AnalysisInitialTypes
  <2>2. NoDuplicateJoin
    BY DEF AnalysisInit, NoDuplicateJoin, NoRows
  <2>3. RunKnows
    BY DEF AnalysisInit, RunKnows
  <2> QED
    BY <2>1, <2>2, <2>3
<1>2. ASSUME AnalysisInv, AnalysisTypeOK', [AnalysisNext]_analysisVars PROVE AnalysisInv'
  <2> USE DEF RowPresent
  <2>0. AnalysisTypeOK /\ NoDuplicateJoin /\ RunKnows
    BY <1>2 DEF AnalysisInv
  <2> SUFFICES NoDuplicateJoin' /\ RunKnows'
    BY <1>2 DEF AnalysisInv
  <2>1. ASSUME UNCHANGED <<rows, run, known, todo>>
        PROVE NoDuplicateJoin' /\ RunKnows'
    BY <2>0, <2>1 DEF NoDuplicateJoin, RunKnows, Deduped
  <2>2. ASSUME UNCHANGED rows, run' \notin {"prune", "llm", "store"}
        PROVE NoDuplicateJoin' /\ RunKnows'
    BY <2>0, <2>2 DEF NoDuplicateJoin, RunKnows
  <2>3. CASE TimePasses
    BY <2>1, <2>3 DEF TimePasses, runVars
  <2>4. ASSUME NEW c \in Candidate, Decide(c)
        PROVE NoDuplicateJoin' /\ RunKnows'
    <3>1. \A d \in Candidate : rows'[d] # "absent" => rows[d] # "absent"
      BY <2>0, <2>4 DEF Decide, AnalysisTypeOK
    <3> QED
      BY <2>0, <2>4, <3>1
      DEF Decide, NoDuplicateJoin, RunKnows, Deduped,
         runVars
  <2>5. ASSUME NEW r \in Request,
               \/ WriteCommits(r) \/ ForceAnalysis(r)
               \/ ReadQueue(r) \/ Enqueue(r)
        PROVE NoDuplicateJoin' /\ RunKnows'
    BY <2>1, <2>5 DEF WriteCommits, ForceAnalysis, ReadQueue,
       Enqueue, runVars
  <2>6. ASSUME NEW r \in Request, StartNow(r)
        PROVE NoDuplicateJoin' /\ RunKnows'
    <3>1. CASE runningAnalysis
      BY <2>1, <2>6, <3>1 DEF StartNow, StartRun
    <3>2. CASE ~runningAnalysis
      BY <2>2, <2>6, <3>2 DEF StartNow, StartRun
    <3> QED
      BY <3>1, <3>2
  <2>7. CASE Sweep
    BY <2>1, <2>7 DEF Sweep, runVars
  <2>8. CASE StartDue
    <3>1. CASE runningAnalysis
      BY <2>1, <2>8, <3>1 DEF StartDue, StartRun
    <3>2. CASE ~runningAnalysis
      BY <2>2, <2>8, <3>2 DEF StartDue, StartRun
    <3> QED
      BY <3>1, <3>2
  <2>9. CASE BeginRun
    BY <2>2, <2>9 DEF BeginRun
  <2>10. CASE LoadSchema
    BY <2>2, <2>10 DEF LoadSchema, Rejects
  <2>11. CASE LoadRows
    <3>1. CASE Rejects
      BY <2>2, <2>11, <3>1 DEF LoadRows, Rejects
    <3>2. CASE ~Rejects
      BY <2>0, <2>11, <3>2
      DEF LoadRows, Orphaned, NoDuplicateJoin, RunKnows
    <3> QED
      BY <3>1, <3>2
  <2>12. CASE Prune
    <3>1. CASE Rejects
      BY <2>2, <2>12, <3>1 DEF Prune, Rejects
    <3>2. CASE ~Rejects
      <4>1. PICK c \in todo :
              /\ rows' = [rows EXCEPT ![c] = "absent"]
              /\ known' = KnownWithout(c)
              /\ todo' = todo \ {c}
              /\ run' = IF todo = {c} THEN "llm" ELSE "prune"
        BY <2>12, <3>2 DEF Prune
      <4>2. \A d \in Candidate : rows'[d] # "absent" => rows[d] # "absent"
        BY <2>0, <4>1 DEF AnalysisTypeOK
      <4>3. NoDuplicateJoin'
        BY <2>0, <4>2 DEF NoDuplicateJoin
      <4>4. \A d \in Candidate : d # c => known'[d] = known[d] /\ rows'[d] = rows[d]
        BY <2>0, <4>1 DEF AnalysisTypeOK, KnownWithout
      <4>5. rows'[c] = "absent"
        BY <2>0, <4>1 DEF AnalysisTypeOK
      <4>6. run = "prune"
        BY <2>12 DEF Prune
      <4>7. RunKnows'
        BY <2>0, <4>1, <4>4, <4>5, <4>6 DEF RunKnows, AnalysisTypeOK
      <4> QED
        BY <4>3, <4>7
    <3> QED
      BY <3>1, <3>2
  <2>13. CASE Suggest
    <3>1. CASE Rejects
      BY <2>2, <2>13, <3>1 DEF Suggest, Rejects
    <3>2. CASE ~Rejects
      <4>1. PICK C \in SUBSET {c \in Candidate : Admitted(c)} :
              /\ Deduped(C)
              /\ todo' = C
              /\ run' = IF C = {} THEN "finish" ELSE "store"
        BY <2>13, <3>2 DEF Suggest
      <4>2. run = "llm" /\ UNCHANGED <<rows, known>>
        BY <2>13 DEF Suggest
      <4>3. NoDuplicateJoin'
        BY <2>0, <4>2 DEF NoDuplicateJoin
      <4>4. \A c \in C : /\ known[c] = "absent"
                         /\ \A d \in Candidate : d[1] = c[1] => ~RowPresent(d)
        BY <2>0, <4>2 DEF RunKnows, Admitted
      <4>5. RunKnows'
        BY <4>1, <4>2, <4>4 DEF RunKnows, Deduped
      <4> QED
        BY <4>3, <4>5
    <3> QED
      BY <3>1, <3>2
  <2>14. CASE Store
    <3>1. CASE Rejects
      BY <2>2, <2>14, <3>1 DEF Store, Rejects
    <3>2. CASE ~Rejects
      <4>1. PICK c \in todo :
              /\ rows' = [rows EXCEPT ![c] = Stored(c)]
              /\ todo' = todo \ {c}
              /\ run' = IF todo = {c} THEN "finish" ELSE "store"
        BY <2>14, <3>2 DEF Store
      <4>2. run = "store" /\ UNCHANGED known
        BY <2>14, <3>2 DEF Store
      <4>3. \A d \in Candidate : d # c => rows'[d] = rows[d]
        BY <2>0, <4>1 DEF AnalysisTypeOK
      <4>4. \A d \in Candidate : d[1] = c[1] => ~RowPresent(d)
        BY <2>0, <4>2 DEF RunKnows
      <4>5. NoDuplicateJoin'
        BY <2>0, <4>3, <4>4 DEF NoDuplicateJoin
      <4>6. \A d \in todo' : d \in todo /\ d # c
        BY <4>1
      <4>7. \A d \in todo' : d[1] # c[1]
        BY <2>0, <4>1, <4>2, <4>6 DEF RunKnows, Deduped
      <4>8. RunKnows'
        BY <2>0, <4>1, <4>2, <4>3, <4>6, <4>7 DEF RunKnows, Deduped,
           AnalysisTypeOK
      <4> QED
        BY <4>5, <4>8
    <3> QED
      BY <3>1, <3>2
  <2>15. CASE FinishRun
    BY <2>2, <2>15 DEF FinishRun, Rejects, Leave
  <2>16. CASE CatchError
    BY <2>2, <2>16 DEF CatchError, Leave
  <2>17. CASE Restart
    BY <2>2, <2>17 DEF Restart, Leave
  <2>18. CASE UNCHANGED analysisVars
    BY <2>1, <2>18 DEF analysisVars, runVars
  <2> QED
    BY <1>2, <2>3, <2>4, <2>5, <2>6, <2>7, <2>8, <2>9, <2>10, <2>11, <2>12,
       <2>13, <2>14, <2>15, <2>16, <2>17, <2>18
       DEF AnalysisNext, RunStep, RequestStep
<1> QED
  BY <1>1, <1>2, AnalysisTypeCorrect, PTL DEF AnalysisSpec

(* A join is suggested once and in one direction.                           *)
THEOREM NoJoinTwice == AnalysisSpec => []NoDuplicateJoin
<1>1. AnalysisInv => NoDuplicateJoin
  BY DEF AnalysisInv
<1> QED
  BY <1>1, AnalysisInvariance, PTL

(* A run leaves alone what a user had decided when it read the rows.        *)
THEOREM DecisionsStay == AnalysisSpec => DecisionsKept
<1>1. ASSUME AnalysisInv, RunStep, NEW c \in Candidate,
             known[c] \in {"approved", "ignored"}
      PROVE rows'[c] = rows[c]
  <2>1. CASE BeginRun \/ LoadSchema \/ LoadRows
             \/ Suggest \/ FinishRun
             \/ CatchError
    BY <2>1 DEF BeginRun, LoadSchema, LoadRows,
       Suggest, FinishRun, CatchError
  <2>2. CASE Prune
    BY <1>1, <2>2 DEF Prune, AnalysisInv, RunKnows, AnalysisTypeOK
  <2>3. CASE Store
    BY <1>1, <2>3 DEF Store, AnalysisInv, RunKnows, AnalysisTypeOK
  <2> QED
    BY <1>1, <2>1, <2>2, <2>3 DEF RunStep
<1>2. AnalysisInv /\ [AnalysisNext]_analysisVars =>
        [RunStep => \A c \in Candidate :
           known[c] \in {"approved", "ignored"} => rows'[c] = rows[c]]_analysisVars
  BY <1>1
<1> QED
  BY <1>2, AnalysisInvariance, PTL DEF AnalysisSpec, DecisionsKept

=============================================================================
