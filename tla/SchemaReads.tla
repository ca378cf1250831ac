---------------------------- MODULE SchemaReads ----------------------------
(***************************************************************************)
(* What getSchema promises, without a cache, runs or queues: a caller that  *)
(* forces a recalculation gets a schema that contains every write committed *)
(* before its call (read your writes) and nothing that was never written;   *)
(* any other caller may get an older schema; a call may fail instead.       *)
(***************************************************************************)
EXTENDS Naturals

CONSTANTS
  Caller,    \* calls of getSchema, each happens once
  Label,     \* labels of the project's records
  MaxWrites  \* bound: writes per label

VARIABLES
  graph,   \* number of committed writes to the records of each label
  call     \* progress of every call

Schema == [Label -> 0..MaxWrites]

(* s contains at least the writes of r.                                     *)
Covers(s, r) == \A l \in Label : r[l] <= s[l]

Idle == [state |-> "idle"]
Pending(force, need) == [state |-> "pending", force |-> force, need |-> need]
Failed == [state |-> "failed"]
Answered(result) == [state |-> "answered", result |-> result]

Init ==
  /\ graph = [l \in Label |-> 0]
  /\ call = [c \in Caller |-> Idle]

Write(l) ==
  /\ graph[l] < MaxWrites
  /\ graph' = [graph EXCEPT ![l] = @ + 1]
  /\ UNCHANGED call

Request(c) ==
  /\ call[c] = Idle
  /\ \E force \in BOOLEAN : call' = [call EXCEPT ![c] = Pending(force, graph)]
  /\ UNCHANGED graph

(* The answer that a pending call may be given while the graph is g.        *)
Acceptable(p, result, g) ==
  /\ Covers(g, result)
  /\ p.force => Covers(result, p.need)

(* A run answers several calls at once.                                     *)
Answer(C, result) ==
  /\ \A c \in C : call[c].state = "pending" /\ Acceptable(call[c], result, graph)
  /\ call' = [c \in Caller |-> IF c \in C THEN Answered(result) ELSE call[c]]
  /\ UNCHANGED graph

Fail(C) ==
  /\ \A c \in C : call[c].state = "pending"
  /\ call' = [c \in Caller |-> IF c \in C THEN Failed ELSE call[c]]
  /\ UNCHANGED graph

Next ==
  \/ \E l \in Label : Write(l)
  \/ \E c \in Caller : Request(c)
  \/ \E C \in SUBSET Caller : Fail(C) \/ \E result \in Schema : Answer(C, result)

Spec == Init /\ [][Next]_<<graph, call>>
=============================================================================
