--------------------------- MODULE ConnectorLease ---------------------------
(***************************************************************************)
(* Managed connectors: rows with a status that users and workers set, the   *)
(* leases by which workers share them, and the offsets from which a         *)
(* successor continues. A worker polls for a connector, copies items of its *)
(* source in order, renews its lease and commits how far it is, each by a   *)
(* request; it may vanish at any time. The handlers of the requests are     *)
(* sequences of single SQL statements, which are the steps. leaseUntil is a *)
(* Boolean, which time may turn.                                            *)
(***************************************************************************)
EXTENDS Naturals

CONSTANTS
  Connector,
  Managed,    \* bound: the others are resumed only, with nothing to copy
  Worker,
  None,       \* no connector
  MaxItem,    \* bound: items of a source
  MaxPauses,  \* bound: pauses of a connector under way at once
  MaxFaults   \* bound: workers that vanish

ASSUME NoneAssumption == None \notin Connector

ASSUME BoundsAssumption ==
  /\ Managed \subseteq Connector
  /\ MaxItem \in Nat /\ MaxPauses \in Nat /\ MaxFaults \in Nat

VARIABLES
  status,     \* status of the connector row, or that it is gone
  holder,     \* workers of the connector's lease: none or one
  live,       \* whether its leaseUntil is to come
  offset,     \* stored position
  delivered,  \* items copied to the project
  pausing,    \* pauses that have deleted the lease and not set the status
  pc,         \* where the worker's request is
  con,        \* connector it works on or has picked
  reclaim,    \* leases its claim has yet to delete
  leased,     \* connectors its claim takes for leased
  pos,        \* how far it has copied
  faults

rowVars    == <<status, holder, live, offset>>
workerVars == <<pc, con, reclaim, leased, pos>>
vars == <<rowVars, delivered, pausing, workerVars, faults>>

Claiming == {"idle", "reclaim", "scan", "pick"}

PastClaim ==
  {"take", "offsets", "working", "lease", "stop", "renew", "drop", "write"}

Places == Claiming \cup PastClaim

(* "error" stands for every status in which a connector neither runs nor is *)
(* paused: error, testing, and deleted where a worker reports that.         *)
TypeOK ==
  /\ status \in [Connector -> {"paused", "running", "error", "gone"}]
  /\ holder \in [Connector -> SUBSET Worker]
  /\ live \in [Connector -> BOOLEAN]
  /\ offset \in [Connector -> 0..MaxItem]
  /\ delivered \in [Connector -> SUBSET (1..MaxItem)]
  /\ pausing \in [Connector -> 0..MaxPauses]
  /\ pc \in [Worker -> Places]
  /\ con \in [Worker -> Connector \cup {None}]
  /\ \A w \in Worker : pc[w] \in PastClaim => con[w] \in Connector
  /\ reclaim \in [Worker -> SUBSET Connector]
  /\ leased \in [Worker -> SUBSET Connector]
  /\ pos \in [Worker -> 0..MaxItem]
  /\ faults \in 0..MaxFaults

Init ==
  /\ status = [c \in Connector |-> "paused"]
  /\ holder = [c \in Connector |-> {}]
  /\ live = [c \in Connector |-> FALSE]
  /\ offset = [c \in Connector |-> 0]
  /\ delivered = [c \in Connector |-> {}]
  /\ pausing = [c \in Connector |-> 0]
  /\ pc = [w \in Worker |-> "idle"]
  /\ con = [w \in Worker |-> None]
  /\ reclaim = [w \in Worker |-> {}]
  /\ leased = [w \in Worker |-> {}]
  /\ pos = [w \in Worker |-> 0]
  /\ faults = 0

-----------------------------------------------------------------------------
(* Rows                                                                     *)

DeleteLease(c) ==
  /\ holder' = [holder EXCEPT ![c] = {}]
  /\ live' = [live EXCEPT ![c] = FALSE]

(* A lease needs its connector; the statement rejects when it is gone.      *)
UpsertLease(c, w) ==
  /\ status[c] # "gone"
  /\ holder' = [holder EXCEPT ![c] = {w}]
  /\ live' = [live EXCEPT ![c] = TRUE]

Time(c) ==
  /\ live[c]
  /\ live' = [live EXCEPT ![c] = FALSE]
  /\ UNCHANGED <<status, holder, offset, delivered, pausing, workerVars,
                 faults>>

(* setLifecycle asks for nothing but the row: what runs is resumed and what *)
(* is paused is paused again. A pause deletes the lease, then sets the      *)
(* status.                                                                  *)
Resume(c) ==
  /\ status[c] # "gone"
  /\ status' = [status EXCEPT ![c] = "running"]
  /\ UNCHANGED <<holder, live, offset, delivered, pausing, workerVars, faults>>

PauseLease(c) ==
  /\ c \in Managed
  /\ status[c] # "gone"
  /\ pausing[c] < MaxPauses
  /\ pausing' = [pausing EXCEPT ![c] = @ + 1]
  /\ DeleteLease(c)
  /\ UNCHANGED <<status, offset, delivered, workerVars, faults>>

PauseStatus(c) ==
  /\ pausing[c] > 0
  /\ pausing' = [pausing EXCEPT ![c] = @ - 1]
  /\ status' = [status EXCEPT ![c] = IF @ = "gone" THEN @ ELSE "paused"]
  /\ UNCHANGED <<holder, live, offset, delivered, workerVars, faults>>

(* The lease and the offset go with the row.                                *)
Delete(c) ==
  /\ c \in Managed
  /\ status[c] # "gone"
  /\ status' = [status EXCEPT ![c] = "gone"]
  /\ DeleteLease(c)
  /\ offset' = [offset EXCEPT ![c] = 0]
  /\ UNCHANGED <<delivered, pausing, workerVars, faults>>

-----------------------------------------------------------------------------
(* claim                                                                    *)

Goto(w, where) == pc' = [pc EXCEPT ![w] = where]

On(w, where) == Goto(w, where) /\ UNCHANGED <<con, pos>>

(* The worker gives up its connector and forgets how far it has come.       *)
Idle(w) ==
  /\ Goto(w, "idle")
  /\ con' = [con EXCEPT ![w] = None]
  /\ pos' = [pos EXCEPT ![w] = 0]

(* deleteExpiredLeases reads all leases and deletes the expired by id, one  *)
(* statement after the other.                                               *)
Expired == {c \in Connector : holder[c] # {} /\ ~live[c]}

Claim(w) ==
  /\ pc[w] = "idle"
  /\ reclaim' = [reclaim EXCEPT ![w] = Expired]
  /\ Goto(w, IF Expired = {} THEN "scan" ELSE "reclaim")
  /\ UNCHANGED <<rowVars, delivered, pausing, con, leased, pos, faults>>

Reclaim(w) ==
  /\ pc[w] = "reclaim"
  /\ \E c \in reclaim[w] :
       /\ DeleteLease(c)
       /\ reclaim' = [reclaim EXCEPT ![w] = @ \ {c}]
       /\ Goto(w, IF reclaim[w] = {c} THEN "scan" ELSE "reclaim")
  /\ UNCHANGED <<status, offset, delivered, pausing, con, leased, pos, faults>>

Leased == {c \in Connector : holder[c] # {} /\ live[c]}

Scan(w) ==
  /\ pc[w] = "scan"
  /\ leased' = [leased EXCEPT ![w] = Leased]
  /\ Goto(w, "pick")
  /\ UNCHANGED <<rowVars, delivered, pausing, con, reclaim, pos, faults>>

Running == {c \in Connector : status[c] = "running"}

(* Mutant: the filter is the wrong way round.                               *)
FreeInverted(w) == Running \cap leased[w]

Free(w) == Running \ leased[w]

(* One running connector is read, and dropped if it is leased.              *)
Pick(w) ==
  /\ pc[w] = "pick"
  /\ \/ (Running = {} \/ Running \ Free(w) # {}) /\ Idle(w)
     \/ \E c \in Free(w) :
          /\ con' = [con EXCEPT ![w] = c]
          /\ Goto(w, "take")
          /\ UNCHANGED pos
  /\ leased' = [leased EXCEPT ![w] = {}]
  /\ UNCHANGED <<rowVars, delivered, pausing, reclaim, faults>>

Take(w) ==
  /\ pc[w] = "take"
  /\ \/ UpsertLease(con[w], w) /\ On(w, "offsets")
     \/ status[con[w]] = "gone" /\ Idle(w) /\ UNCHANGED <<holder, live>>
  /\ UNCHANGED <<status, offset, delivered, pausing, reclaim, leased,
                 faults>>

(* Mutant: the stored item is passed over, as if it were yet to come.       *)
StartAfter(c) == offset[c] + 1

(* The offsets that the answer carries.                                     *)
StartAt(c) == offset[c]

ReadOffset(w) ==
  /\ pc[w] = "offsets"
  /\ pos' = [pos EXCEPT ![w] = StartAt(con[w])]
  /\ Goto(w, "working")
  /\ UNCHANGED <<rowVars, delivered, pausing, con, reclaim, leased, faults>>

-----------------------------------------------------------------------------
(* The worker and its other requests                                        *)

Deliver(w) ==
  /\ pc[w] = "working"
  /\ con[w] \in Managed
  /\ pos[w] < MaxItem
  /\ pos' = [pos EXCEPT ![w] = @ + 1]
  /\ delivered' = [delivered EXCEPT ![con[w]] = @ \cup {pos[w] + 1}]
  /\ UNCHANGED <<rowVars, pausing, pc, con, reclaim, leased, faults>>

Owns(w, c) == w \in holder[c] /\ live[c]

(* heartbeat reads the row, then the lease. A connector that is gone or not *)
(* running, or a lost lease, ends the work; an expired lease is deleted,    *)
(* also when it is another worker's.                                        *)
Heartbeat(w) ==
  /\ pc[w] = "working"
  /\ \/ status[con[w]] = "gone" /\ Idle(w)
     \/ status[con[w]] = "running" /\ On(w, "lease")
     \/ status[con[w]] \in {"paused", "error"} /\ On(w, "stop")
  /\ UNCHANGED <<rowVars, delivered, pausing, reclaim, leased, faults>>

(* Mutant: a renewal asks only for the lease.                               *)
RenewsAnyway(w) == Owns(w, con[w])

(* What the row said when it was read decides.                              *)
Renews(w) == Owns(w, con[w]) /\ pc[w] = "lease"

CheckLease(w) ==
  /\ pc[w] \in {"lease", "stop"}
  /\ \/ Renews(w) /\ On(w, "renew")
     \/ ~Renews(w) /\ Owns(w, con[w]) /\ On(w, "drop")
     \/ ~Owns(w, con[w]) /\ con[w] \in Expired /\ On(w, "drop")
     \/ ~Owns(w, con[w]) /\ con[w] \notin Expired /\ Idle(w)
  /\ UNCHANGED <<rowVars, delivered, pausing, reclaim, leased, faults>>

Renew(w) ==
  /\ pc[w] = "renew"
  /\ \/ UpsertLease(con[w], w)
     \/ status[con[w]] = "gone" /\ UNCHANGED <<holder, live>>
  /\ Goto(w, "working")
  /\ UNCHANGED <<status, offset, delivered, pausing, con, reclaim, leased, pos,
                 faults>>

(* The lease is deleted by the connector's id, whoever holds it by now.     *)
Drop(w) ==
  /\ pc[w] = "drop"
  /\ DeleteLease(con[w])
  /\ Idle(w)
  /\ UNCHANGED <<status, offset, delivered, pausing, reclaim, leased,
                 faults>>

(* commitOffset checks the lease, and writes in another statement.          *)
CheckCommit(w) ==
  /\ pc[w] = "working"
  /\ \/ Owns(w, con[w]) /\ On(w, "write")
     \/ ~Owns(w, con[w]) /\ con[w] \in Expired /\ On(w, "drop")
     \/ ~Owns(w, con[w]) /\ con[w] \notin Expired /\ Idle(w)
  /\ UNCHANGED <<rowVars, delivered, pausing, reclaim, leased, faults>>

WriteOffset(w) ==
  /\ pc[w] = "write"
  /\ \/ status[con[w]] # "gone" /\ offset' = [offset EXCEPT ![con[w]] = pos[w]]
     \/ status[con[w]] = "gone" /\ UNCHANGED offset
  /\ Goto(w, "working")
  /\ UNCHANGED <<status, holder, live, delivered, pausing, con, reclaim,
                 leased, pos, faults>>

(* updateStatus asks for no lease, and takes any status.                    *)
ReportStatus(w) ==
  /\ pc[w] = "working"
  /\ con[w] \in Managed
  /\ status[con[w]] # "gone"
  /\ \E s \in {"paused", "running", "error"} :
       status' = [status EXCEPT ![con[w]] = s]
  /\ UNCHANGED <<holder, live, offset, delivered, pausing, workerVars, faults>>

(* release, on graceful shutdown.                                           *)
Release(w) ==
  /\ pc[w] = "working"
  /\ \/ w \in holder[con[w]] /\ On(w, "drop")
     \/ w \notin holder[con[w]] /\ Idle(w)
  /\ UNCHANGED <<rowVars, delivered, pausing, reclaim, leased, faults>>

(* The worker, or the answer it waits for, is lost; it starts again.        *)
Vanish(w) ==
  /\ faults < MaxFaults
  /\ pc[w] # "idle"
  /\ faults' = faults + 1
  /\ Idle(w)
  /\ reclaim' = [reclaim EXCEPT ![w] = {}]
  /\ leased' = [leased EXCEPT ![w] = {}]
  /\ UNCHANGED <<rowVars, delivered, pausing>>

-----------------------------------------------------------------------------

(* Steps of a request once it is made.                                      *)
HandlerStep(w) ==
  Reclaim(w) \/ Scan(w) \/ Pick(w) \/ Take(w) \/ ReadOffset(w)
  \/ CheckLease(w) \/ Renew(w) \/ Drop(w) \/ WriteOffset(w)

WorkerStep(w) ==
  Claim(w) \/ HandlerStep(w) \/ Deliver(w) \/ Heartbeat(w) \/ CheckCommit(w)
  \/ ReportStatus(w) \/ Release(w) \/ Vanish(w)

Next ==
  \/ \E w \in Worker : WorkerStep(w)
  \/ \E c \in Connector :
       Time(c) \/ Resume(c) \/ PauseLease(c) \/ PauseStatus(c) \/ Delete(c)

(* Requests are answered and time passes. Workers "poll for runnable        *)
(* connectors", and send heartbeats by a clock that other requests do not   *)
(* stop, which takes strong fairness here, where a worker makes one request *)
(* at a time.                                                               *)
Fairness ==
  /\ \A w \in Worker :
       /\ WF_vars(Claim(w))
       /\ WF_vars(HandlerStep(w))
       /\ SF_vars(Heartbeat(w))
  /\ \A c \in Connector : WF_vars(Time(c)) /\ WF_vars(PauseStatus(c))

Spec == Init /\ [][Next]_vars /\ Fairness

-----------------------------------------------------------------------------
(* Properties                                                               *)

Works(w, c) == con[w] = c /\ pc[w] \notin {"take", "offsets"}

(* No item is lost: whatever lies before the stored offset has been copied, *)
(* though offsets are written by workers whose lease another took long ago, *)
(* and go back and forth.                                                   *)
NoGap == \A c \in Connector : 1..offset[c] \subseteq delivered[c]

(* A connector that stays paused is left alone for good, also by a worker   *)
(* whose claim or heartbeat read it as running and took the lease after the *)
(* pause had deleted it.                                                    *)
PauseStops ==
  \A c \in Connector :
    <>[](status[c] = "paused") => <>[](\A w \in Worker : con[w] # c)

(* A connector that stays running is worked on again and again, though its  *)
(* workers vanish, and delete each other's leases with the expired ones;    *)
(* unless other connectors are leased again and again. A claim reads one    *)
(* running connector and gives up if that one is leased, so while others    *)
(* are held, one that could be worked on may be passed over for good.       *)
Served ==
  \A c \in Connector :
    <>[](status[c] = "running") =>
      \/ []<>(\E w \in Worker : Works(w, c))
      \/ []<>(Leased \ {c} # {})
=============================================================================
