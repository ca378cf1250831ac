------------------------ MODULE ConnectorLeaseProofs ------------------------
(***************************************************************************)
(* Proofs about ConnectorLease, for any number of connectors, workers,      *)
(* items and faults: types, and that no item is lost.                       *)
(***************************************************************************)
EXTENDS ConnectorLease, TLAPS

(* Places at which a worker has read the offset of its connector.           *)
Copying == {"working", "lease", "stop", "renew", "drop", "write"}

(* Up to a worker's position in the source all items are copied.            *)
Copied ==
  \A w \in Worker :
    pc[w] \in Copying => 1..pos[w] \subseteq delivered[con[w]]

Inv == TypeOK /\ NoGap /\ Copied

LEMMA InitInv == Init => Inv
<1> SUFFICES ASSUME Init PROVE Inv
  OBVIOUS
<1>1. TypeOK
  <2>1. 0 \in 0..MaxItem /\ 0 \in 0..MaxFaults
    BY BoundsAssumption
  <2>2. "idle" \in Places
    BY DEF Places, Claiming
  <2>3. /\ offset \in [Connector -> 0..MaxItem]
        /\ pos \in [Worker -> 0..MaxItem]
        /\ faults \in 0..MaxFaults
    BY <2>1 DEF Init
  <2>4. pc \in [Worker -> Places]
    BY <2>2 DEF Init
  <2>5. /\ status \in [Connector -> {"paused", "running", "error", "gone"}]
        /\ holder \in [Connector -> SUBSET Worker]
        /\ live \in [Connector -> BOOLEAN]
    BY DEF Init
  <2>6. /\ delivered \in [Connector -> SUBSET (1..MaxItem)]
        /\ pausing \in [Connector -> 0..MaxPauses]
        /\ con \in [Worker -> Connector \cup {None}]
        /\ \A w \in Worker : pc[w] \in PastClaim => con[w] \in Connector
    BY BoundsAssumption DEF Init, PastClaim
  <2>7. /\ reclaim \in [Worker -> SUBSET Connector]
        /\ leased \in [Worker -> SUBSET Connector]
    BY DEF Init
  <2> QED
    BY <2>3, <2>4, <2>5, <2>6, <2>7 DEF TypeOK
<1>2. NoGap
  <2>1. ASSUME NEW c \in Connector PROVE 1..offset[c] = {}
    BY DEF Init
  <2> QED
    BY <2>1 DEF NoGap
<1>3. Copied
  BY DEF Init, Copied, Copying
<1> QED
  BY <1>1, <1>2, <1>3 DEF Inv

(* The places of a worker after a step of its own.                          *)
LEMMA GotoType ==
  ASSUME TypeOK, NEW w \in Worker, NEW p \in Places, Goto(w, p)
  PROVE  pc' \in [Worker -> Places] /\ pc'[w] = p
         /\ \A v \in Worker \ {w} : pc'[v] = pc[v]
  BY DEF TypeOK, Goto

(* One that stays before its claim needs no connector, one past it has it.  *)
LEMMA StayType ==
  ASSUME TypeOK, NEW w \in Worker, NEW p \in Places, Goto(w, p), UNCHANGED con,
         p \in Claiming \/ pc[w] \in PastClaim
  PROVE  \A v \in Worker : pc'[v] \in PastClaim => con'[v] \in Connector
<1>1. Claiming \cap PastClaim = {}
  BY DEF Claiming, PastClaim
<1> QED
  BY <1>1, GotoType DEF TypeOK

LEMMA IdleType ==
  ASSUME TypeOK, NEW w \in Worker, Idle(w)
  PROVE  /\ pc' \in [Worker -> Places] /\ pc'[w] = "idle"
         /\ con' \in [Worker -> Connector \cup {None}]
         /\ pos' \in [Worker -> 0..MaxItem]
         /\ \A v \in Worker \ {w} :
              pc'[v] = pc[v] /\ con'[v] = con[v] /\ pos'[v] = pos[v]
         /\ \A v \in Worker : pc'[v] \in PastClaim => con'[v] \in Connector
<1>1. "idle" \in Places /\ "idle" \notin PastClaim /\ 0 \in 0..MaxItem
  BY BoundsAssumption DEF Places, Claiming, PastClaim
<1>2. pc' \in [Worker -> Places] /\ pc'[w] = "idle"
      /\ \A v \in Worker \ {w} : pc'[v] = pc[v]
  BY <1>1, GotoType DEF Idle
<1>3. /\ con' \in [Worker -> Connector \cup {None}]
      /\ pos' \in [Worker -> 0..MaxItem]
      /\ \A v \in Worker \ {w} : con'[v] = con[v] /\ pos'[v] = pos[v]
  BY <1>1 DEF TypeOK, Idle
<1> QED
  BY <1>1, <1>2, <1>3 DEF TypeOK

LEMMA LeaseTypes ==
  ASSUME TypeOK, NEW c \in Connector, NEW w \in Worker,
         DeleteLease(c) \/ UpsertLease(c, w)
  PROVE  holder' \in [Connector -> SUBSET Worker]
         /\ live' \in [Connector -> BOOLEAN]
<1>1. CASE DeleteLease(c)
  BY <1>1 DEF TypeOK, DeleteLease
<1>2. CASE UpsertLease(c, w)
  BY <1>2 DEF TypeOK, UpsertLease
<1> QED
  BY <1>1, <1>2

(* Steps that leave offsets and positions alone, and after which a worker   *)
(* copies only what it copied before.                                       *)
LEMMA SameCopies ==
  ASSUME Inv, UNCHANGED <<offset, delivered>>,
         NEW w \in Worker,
         \A v \in Worker \ {w} :
           pc'[v] = pc[v] /\ con'[v] = con[v] /\ pos'[v] = pos[v],
         \/ pc'[w] \notin Copying
         \/ con'[w] = con[w] /\ pos'[w] = pos[w] /\ pc[w] \in Copying
  PROVE  NoGap' /\ Copied'
<1>1. NoGap'
  BY DEF Inv, NoGap
<1>2. Copied'
  BY DEF Inv, Copied
<1> QED
  BY <1>1, <1>2

LEMMA StepInv == Inv /\ [Next]_vars => Inv'
<1> SUFFICES ASSUME Inv, [Next]_vars PROVE Inv'
  OBVIOUS
<1>0. TypeOK /\ NoGap /\ Copied
  BY DEF Inv
<1> USE BoundsAssumption DEF rowVars, workerVars
<1>1. ASSUME NEW w \in Worker, Claim(w) PROVE Inv'
  <2>1. PICK p \in {"scan", "reclaim"} : Goto(w, p)
    BY <1>1 DEF Claim
  <2>2. p \in Places /\ p \in Claiming /\ p \notin Copying
    BY <2>1 DEF Places, Claiming, Copying
  <2>3. TypeOK'
    BY <1>0, <1>1, <2>1, <2>2, GotoType, StayType DEF TypeOK, Claim, Expired
  <2>4. NoGap' /\ Copied'
    BY <1>0, <1>1, <2>1, <2>2, GotoType, SameCopies DEF Claim
  <2> QED
    BY <2>3, <2>4 DEF Inv
<1>2. ASSUME NEW w \in Worker, Reclaim(w) PROVE Inv'
  <2>1. PICK c \in reclaim[w], p \in {"scan", "reclaim"} :
          /\ Goto(w, p)
          /\ DeleteLease(c)
          /\ reclaim' = [reclaim EXCEPT ![w] = @ \ {c}]
    BY <1>2 DEF Reclaim
  <2>2. /\ p \in Places /\ p \in Claiming /\ p \notin Copying
        /\ c \in Connector
    BY <1>0, <2>1 DEF Places, Claiming, Copying, TypeOK
  <2>3. TypeOK'
    BY <1>0, <1>2, <2>1, <2>2, GotoType, StayType, LeaseTypes DEF TypeOK, Reclaim
  <2>4. NoGap' /\ Copied'
    BY <1>0, <1>2, <2>1, <2>2, GotoType, SameCopies DEF Reclaim
  <2> QED
    BY <2>3, <2>4 DEF Inv
<1>3. ASSUME NEW w \in Worker, Scan(w) PROVE Inv'
  <2>1. /\ Goto(w, "pick") /\ "pick" \in Places /\ "pick" \in Claiming
        /\ "pick" \notin Copying
    BY <1>3 DEF Scan, Places, Claiming, Copying
  <2>2. TypeOK'
    BY <1>0, <1>3, <2>1, GotoType, StayType DEF TypeOK, Scan, Leased
  <2>3. NoGap' /\ Copied'
    BY <1>0, <1>3, <2>1, GotoType, SameCopies DEF Scan
  <2> QED
    BY <2>2, <2>3 DEF Inv
<1>4. ASSUME NEW w \in Worker, Pick(w) PROVE Inv'
  <2>0. leased' \in [Worker -> SUBSET Connector]
    BY <1>0, <1>4 DEF TypeOK, Pick
  <2>1. CASE Idle(w)
    <3>1. TypeOK'
      BY <1>0, <1>4, <2>0, <2>1, IdleType DEF TypeOK, Pick
    <3>2. NoGap' /\ Copied'
      BY <1>0, <1>4, <2>1, IdleType, SameCopies DEF Pick, Copying
    <3> QED
      BY <3>1, <3>2 DEF Inv
  <2>2. CASE ~Idle(w)
    <3>1. PICK c \in Connector :
            con' = [con EXCEPT ![w] = c] /\ Goto(w, "take") /\ UNCHANGED pos
      BY <1>4, <2>2 DEF Pick, Free, Running
    <3>2. "take" \in Places /\ "take" \notin Copying
      BY DEF Places, PastClaim, Copying
    <3>3. /\ con' \in [Worker -> Connector \cup {None}] /\ con'[w] \in Connector
          /\ \A v \in Worker \ {w} : pc'[v] = pc[v] /\ con'[v] = con[v]
          /\ pc' \in [Worker -> Places] /\ pc'[w] = "take"
      BY <1>0, <3>1, <3>2, GotoType DEF TypeOK
    <3>4. TypeOK'
      BY <1>0, <1>4, <2>0, <3>1, <3>3 DEF TypeOK, Pick
    <3>5. NoGap' /\ Copied'
      BY <1>0, <1>4, <3>1, <3>2, <3>3, SameCopies DEF Pick
    <3> QED
      BY <3>4, <3>5 DEF Inv
  <2> QED
    BY <2>1, <2>2
<1>5. ASSUME NEW w \in Worker, Take(w) PROVE Inv'
  <2>0. /\ con[w] \in Connector /\ pc[w] \in PastClaim
        /\ "offsets" \in Places /\ "offsets" \notin Copying
    BY <1>0, <1>5 DEF Take, TypeOK, PastClaim, Places, Copying
  <2>1. CASE Idle(w)
    <3>1. holder' \in [Connector -> SUBSET Worker]
          /\ live' \in [Connector -> BOOLEAN]
      BY <1>0, <1>5, <2>0, LeaseTypes DEF Take, TypeOK
    <3>2. TypeOK'
      BY <1>0, <1>5, <2>1, <3>1, IdleType DEF TypeOK, Take
    <3>3. NoGap' /\ Copied'
      BY <1>0, <1>5, <2>1, IdleType, SameCopies DEF Take, Copying
    <3> QED
      BY <3>2, <3>3 DEF Inv
  <2>2. CASE ~Idle(w)
    <3>1. UpsertLease(con[w], w) /\ On(w, "offsets")
      BY <1>5, <2>2 DEF Take
    <3>2. Goto(w, "offsets") /\ UNCHANGED <<con, pos>>
      BY <3>1 DEF On
    <3>3. TypeOK'
      BY <1>0, <1>5, <2>0, <3>1, <3>2, GotoType, StayType, LeaseTypes
         DEF TypeOK, Take
    <3>4. NoGap' /\ Copied'
      BY <1>0, <1>5, <2>0, <3>2, GotoType, SameCopies DEF Take
    <3> QED
      BY <3>3, <3>4 DEF Inv
  <2> QED
    BY <2>1, <2>2
<1>6. ASSUME NEW w \in Worker, ReadOffset(w) PROVE Inv'
  <2>1. /\ con[w] \in Connector /\ pc[w] \in PastClaim
        /\ "working" \in Places
    BY <1>0, <1>6 DEF ReadOffset, TypeOK, PastClaim, Places
  <2>2. /\ pos' = [pos EXCEPT ![w] = offset[con[w]]]
        /\ Goto(w, "working")
        /\ UNCHANGED <<rowVars, delivered, pausing, con, reclaim, leased, faults>>
    BY <1>6 DEF ReadOffset, StartAt
  <2>3. TypeOK'
    BY <1>0, <2>1, <2>2, GotoType, StayType DEF TypeOK
  <2>4. NoGap'
    BY <1>0, <2>2 DEF NoGap
  <2>5. 1..offset[con[w]] \subseteq delivered[con[w]]
    BY <1>0, <2>1 DEF NoGap
  <2>6. pos'[w] = offset[con[w]] /\ \A v \in Worker \ {w} : pos'[v] = pos[v]
    BY <1>0, <2>2 DEF TypeOK
  <2>7. Copied'
    BY <1>0, <2>1, <2>2, <2>5, <2>6, GotoType DEF Copied, Copying
  <2> QED
    BY <2>3, <2>4, <2>7 DEF Inv
<1>7. ASSUME NEW w \in Worker, Deliver(w) PROVE Inv'
  <2>1. con[w] \in Connector /\ 1..pos[w] \subseteq delivered[con[w]]
    BY <1>0, <1>7 DEF Deliver, TypeOK, PastClaim, Copied, Copying
  <2>2. pos[w] + 1 \in 1..MaxItem /\ pos[w] + 1 \in 0..MaxItem
    BY <1>0, <1>7 DEF Deliver, TypeOK
  <2>3. TypeOK'
    BY <1>0, <1>7, <2>2 DEF Deliver, TypeOK
  <2>4. \A c \in Connector : delivered[c] \subseteq delivered'[c]
    BY <1>0, <1>7 DEF Deliver, TypeOK
  <2>5. NoGap'
    BY <1>0, <1>7, <2>4 DEF Deliver, NoGap
  <2>6. pos'[w] = pos[w] + 1 /\ \A v \in Worker \ {w} : pos'[v] = pos[v]
    BY <1>0, <1>7 DEF Deliver, TypeOK
  <2>7. 1..pos'[w] \subseteq delivered'[con[w]]
    <3>1. 1..(pos[w] + 1) = (1..pos[w]) \cup {pos[w] + 1}
      BY <1>0 DEF TypeOK
    <3>2. delivered'[con[w]] = delivered[con[w]] \cup {pos[w] + 1}
      BY <1>0, <1>7, <2>1 DEF Deliver, TypeOK
    <3> QED
      BY <2>1, <2>6, <3>1, <3>2
  <2>8. Copied'
    BY <1>0, <1>7, <2>1, <2>4, <2>6, <2>7 DEF Deliver, Copied, Copying
  <2> QED
    BY <2>3, <2>5, <2>8 DEF Inv
<1>8. ASSUME NEW w \in Worker,
             Heartbeat(w) \/ CheckLease(w) \/ CheckCommit(w) \/ Release(w)
      PROVE Inv'
  <2>1. UNCHANGED <<rowVars, delivered, pausing, reclaim, leased, faults>>
    BY <1>8 DEF Heartbeat, CheckLease, CheckCommit, Release
  <2>2. pc[w] \in Copying /\ pc[w] \in PastClaim
    BY <1>8 DEF Heartbeat, CheckLease, CheckCommit, Release, Copying, PastClaim
  <2>3. Idle(w) \/ \E p \in Copying : On(w, p)
    <3>1. {"lease", "stop", "renew", "drop", "write"} \subseteq Copying
      BY DEF Copying
    <3>2. CASE Heartbeat(w)
      BY <3>1, <3>2 DEF Heartbeat
    <3>3. CASE CheckLease(w)
      BY <3>1, <3>3 DEF CheckLease
    <3>4. CASE CheckCommit(w)
      BY <3>1, <3>4 DEF CheckCommit
    <3>5. CASE Release(w)
      BY <3>1, <3>5 DEF Release
    <3> QED
      BY <1>8, <3>2, <3>3, <3>4, <3>5
  <2>4. CASE Idle(w)
    <3>1. TypeOK'
      BY <1>0, <2>1, <2>4, IdleType DEF TypeOK
    <3>2. NoGap' /\ Copied'
      BY <1>0, <2>1, <2>4, IdleType, SameCopies DEF Copying
    <3> QED
      BY <3>1, <3>2 DEF Inv
  <2>5. ASSUME NEW p \in Copying, On(w, p) PROVE Inv'
    <3>1. p \in Places
      BY DEF Copying, Places, PastClaim
    <3>2. Goto(w, p) /\ UNCHANGED <<con, pos>>
      BY <2>5 DEF On
    <3>3. TypeOK'
      BY <1>0, <2>1, <2>2, <3>1, <3>2, GotoType, StayType DEF TypeOK
    <3>4. NoGap' /\ Copied'
      BY <1>0, <2>1, <2>2, <3>1, <3>2, GotoType, SameCopies
    <3> QED
      BY <3>3, <3>4 DEF Inv
  <2> QED
    BY <2>3, <2>4, <2>5
<1>9. ASSUME NEW w \in Worker, Renew(w) PROVE Inv'
  <2>1. /\ con[w] \in Connector /\ "working" \in Places
        /\ pc[w] \in Copying /\ pc[w] \in PastClaim
    BY <1>0, <1>9 DEF Renew, TypeOK, Copying, PastClaim, Places
  <2>2. holder' \in [Connector -> SUBSET Worker] /\ live' \in [Connector -> BOOLEAN]
    BY <1>0, <1>9, <2>1, LeaseTypes DEF Renew, TypeOK
  <2>3. TypeOK'
    BY <1>0, <1>9, <2>1, <2>2, GotoType, StayType DEF Renew, TypeOK
  <2>4. NoGap' /\ Copied'
    BY <1>0, <1>9, <2>1, GotoType, SameCopies DEF Renew
  <2> QED
    BY <2>3, <2>4 DEF Inv
<1>10. ASSUME NEW w \in Worker, Drop(w) PROVE Inv'
  <2>1. con[w] \in Connector
    BY <1>0, <1>10 DEF Drop, TypeOK, PastClaim
  <2>2. TypeOK'
    BY <1>0, <1>10, <2>1, IdleType, LeaseTypes DEF Drop, TypeOK
  <2>3. NoGap' /\ Copied'
    BY <1>0, <1>10, IdleType, SameCopies DEF Drop, Copying
  <2> QED
    BY <2>2, <2>3 DEF Inv
<1>11. ASSUME NEW w \in Worker, WriteOffset(w) PROVE Inv'
  <2>1. /\ con[w] \in Connector /\ pc[w] \in PastClaim
        /\ "working" \in Places
        /\ 1..pos[w] \subseteq delivered[con[w]]
    BY <1>0, <1>11 DEF WriteOffset, TypeOK, PastClaim, Copied, Copying, Places
  <2>2. TypeOK'
    BY <1>0, <1>11, <2>1, GotoType, StayType DEF WriteOffset, TypeOK
  <2>3. NoGap'
    <3>1. \A c \in Connector : offset'[c] = offset[c] \/ (c = con[w] /\ offset'[c] = pos[w])
      <4>1. CASE status[con[w]] = "gone"
        BY <1>0, <1>11, <2>1, <4>1 DEF WriteOffset, TypeOK
      <4>2. CASE status[con[w]] # "gone"
        BY <1>0, <1>11, <2>1, <4>2 DEF WriteOffset, TypeOK
      <4> QED
        BY <4>1, <4>2
    <3> QED
      BY <1>0, <1>11, <2>1, <3>1 DEF WriteOffset, NoGap
  <2>4. Copied'
    BY <1>0, <1>11, <2>1, GotoType DEF WriteOffset, Copied, Copying
  <2> QED
    BY <2>2, <2>3, <2>4 DEF Inv
<1>12. ASSUME NEW w \in Worker, ReportStatus(w) PROVE Inv'
  <2>1. PICK s \in {"paused", "running", "error"} :
          status' = [status EXCEPT ![con[w]] = s]
    BY <1>12 DEF ReportStatus
  <2>2. status' \in [Connector -> {"paused", "running", "error", "gone"}]
    BY <1>0, <2>1 DEF TypeOK
  <2>3. TypeOK'
    BY <1>0, <1>12, <2>2 DEF ReportStatus, TypeOK
  <2> QED
    BY <1>0, <1>12, <2>3 DEF ReportStatus, Inv, NoGap, Copied
<1>13. ASSUME NEW w \in Worker, Vanish(w) PROVE Inv'
  <2>1. reclaim' \in [Worker -> SUBSET Connector] /\ leased' \in [Worker -> SUBSET Connector]
    BY <1>0, <1>13 DEF Vanish, TypeOK
  <2>2. faults' \in 0..MaxFaults
    BY <1>0, <1>13 DEF Vanish, TypeOK
  <2>3. TypeOK'
    BY <1>0, <1>13, <2>1, <2>2, IdleType DEF Vanish, TypeOK
  <2>4. NoGap' /\ Copied'
    BY <1>0, <1>13, IdleType, SameCopies DEF Vanish, Copying
  <2> QED
    BY <2>3, <2>4 DEF Inv
<1>14. ASSUME NEW c \in Connector, Time(c) \/ Resume(c) \/ PauseStatus(c)
       PROVE Inv'
  <2>1. CASE Time(c)
    BY <1>0, <2>1 DEF Time, Inv, TypeOK, NoGap, Copied
  <2>2. CASE Resume(c)
    BY <1>0, <2>2 DEF Resume, Inv, TypeOK, NoGap, Copied
  <2>3. CASE PauseStatus(c)
    <3>1. pausing' \in [Connector -> 0..MaxPauses]
      BY <1>0, <2>3 DEF PauseStatus, TypeOK
    <3>2. TypeOK'
      BY <1>0, <2>3, <3>1 DEF PauseStatus, TypeOK
    <3> QED
      BY <1>0, <2>3, <3>2 DEF PauseStatus, Inv, NoGap, Copied
  <2> QED
    BY <1>14, <2>1, <2>2, <2>3
<1>15. ASSUME NEW c \in Connector, PauseLease(c) PROVE Inv'
  <2>0. pausing' \in [Connector -> 0..MaxPauses]
    BY <1>0, <1>15 DEF PauseLease, TypeOK
  <2>1. TypeOK'
    BY <1>0, <1>15, <2>0 DEF PauseLease, DeleteLease, TypeOK
  <2> QED
    BY <1>0, <1>15, <2>1 DEF PauseLease, Inv, NoGap, Copied
<1>16. ASSUME NEW c \in Connector, Delete(c) PROVE Inv'
  <2>1. TypeOK'
    BY <1>0, <1>16 DEF Delete, DeleteLease, TypeOK
  <2>2. \A d \in Connector : offset'[d] = offset[d] \/ offset'[d] = 0
    BY <1>0, <1>16 DEF Delete, TypeOK
  <2>3. NoGap'
    BY <1>0, <1>16, <2>2 DEF Delete, NoGap
  <2> QED
    BY <1>0, <1>16, <2>1, <2>3 DEF Delete, Inv, Copied
<1>17. CASE UNCHANGED vars
  BY <1>0, <1>17 DEF vars, Inv, TypeOK, NoGap, Copied
<1> QED
  BY <1>1, <1>2, <1>3, <1>4, <1>5, <1>6, <1>7, <1>8, <1>9, <1>10, <1>11, <1>12,
     <1>13, <1>14, <1>15, <1>16, <1>17
     DEF Next, WorkerStep, HandlerStep

THEOREM Invariance == Spec => []Inv
<1> QED
  BY InitInv, StepInv, PTL DEF Spec

(* Every variable keeps its type, and a worker past its claim has a         *)
(* connector: no handler acts on None.                                      *)
THEOREM TypeCorrect == Spec => []TypeOK
<1>1. Inv => TypeOK
  BY DEF Inv
<1> QED
  BY <1>1, Invariance, PTL

(* Whatever lies before the stored offset has been copied.                  *)
THEOREM NoItemLost == Spec => []NoGap
<1>1. Inv => NoGap
  BY DEF Inv
<1> QED
  BY <1>1, Invariance, PTL
=============================================================================
