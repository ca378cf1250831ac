------------------------ MODULE RelationshipAnalysis ------------------------
(***************************************************************************)
(* The analysis that suggests relationship patterns to one project: the     *)
(* queue row that writes and manual refreshes set, the sweep of every       *)
(* minute, and the run, which loads schema and rows, prunes suggestions     *)
(* that make no sense any more, asks a language model, and stores what is   *)
(* new, while users approve, ignore and delete rows. One server process,    *)
(* which may restart. A step is what runs between two awaits, but where a   *)
(* run waits for the language model and probes the graph it looks at        *)
(* nothing another step changes, and both are one step.                     *)
(***************************************************************************)
EXTENDS Naturals

CONSTANTS
  Join,          \* joins of two properties of the project's records
  Writer,        \* requests that write records
  Refresh,       \* requests for an analysis (forceAnalysis)
  NoSignature,   \* no signature
  MaxRejections, \* bound: statements and provider calls that reject
  MaxRestarts    \* bound: restarts of the server

ASSUME RequestsAssumption == Writer \cap Refresh = {}

ASSUME AnalysisBounds == MaxRejections \in Nat /\ MaxRestarts \in Nat

Request == Writer \cup Refresh

(* A candidate is a join read in one of its directions; its signature is    *)
(* what rows are unique by.                                                 *)
Candidate == Join \X {"out", "in"}

Status == {"absent", "suggested", "approved", "ignored"}

VARIABLES
  queue,           \* status of the queue row; idle also when there is none
  due,             \* whether its notBefore has passed
  cooling,         \* whether its lastRunAt is within ANALYSIS_DEBOUNCE_MS
  rows,            \* status of the pattern row of a candidate
  schema,          \* joins that the cached schema admits
  stage,           \* where a request is
  now,             \* requests whose analysis is not debounced
  sweep,           \* whether the sweep has found the row due
  run,             \* where the run is
  runningAnalysis, \* whether the project is in the set of that name
  seen,            \* schema of the run
  known,           \* existingPatterns of the run
  todo,            \* candidates it has yet to prune or to store
  lastSignature,   \* schema and rows of the last completed run
  owed,            \* history: enqueued writes that no run has ended since
  rejections, restarts

queueVars   == <<queue, due, cooling>>
requestVars == <<stage, now, sweep>>
runVars     == <<run, runningAnalysis, seen, known, todo, lastSignature>>
bounds      == <<rejections, restarts>>
analysisVars == <<queueVars, rows, schema, requestVars, runVars, owed, bounds>>

Places == {"off", "queue", "schema", "rows", "prune", "llm", "store",
           "finish", "catch"}

Signatures == (SUBSET Join) \X [Candidate -> Status]

NoRows == [c \in Candidate |-> "absent"]

AnalysisTypeOK ==
  /\ queue \in {"idle", "pending", "running", "error"}
  /\ due \in BOOLEAN
  /\ cooling \in BOOLEAN
  /\ rows \in [Candidate -> Status]
  /\ schema \in SUBSET Join
  /\ stage \in [Request -> {"idle", "written", "read", "enqueued", "done"}]
  /\ now \in SUBSET Request
  /\ sweep \in BOOLEAN
  /\ run \in Places
  /\ runningAnalysis \in BOOLEAN
  /\ seen \in SUBSET Join
  /\ known \in [Candidate -> Status]
  /\ todo \in SUBSET Candidate
  /\ lastSignature \in {NoSignature} \cup Signatures
  /\ owed \in SUBSET Writer
  /\ rejections \in 0..MaxRejections
  /\ restarts \in 0..MaxRestarts

AnalysisInit ==
  /\ queue = "idle"
  /\ due = FALSE
  /\ cooling = FALSE
  /\ rows = NoRows
  /\ schema \in SUBSET Join
  /\ stage = [r \in Request |-> "idle"]
  /\ now = {}
  /\ sweep = FALSE
  /\ run = "off"
  /\ runningAnalysis = FALSE
  /\ seen = {}
  /\ known = NoRows
  /\ todo = {}
  /\ lastSignature = NoSignature
  /\ owed = {}
  /\ rejections = 0
  /\ restarts = 0

Rejection == rejections < MaxRejections /\ rejections' = rejections + 1

-----------------------------------------------------------------------------
(* Time, users and requests                                                 *)

(* notBefore is reached, or the debounce after the last run is over.        *)
TimePasses ==
  /\ \/ ~due /\ due' = TRUE /\ UNCHANGED cooling
     \/ cooling /\ cooling' = FALSE /\ UNCHANGED due
  /\ UNCHANGED <<queue, rows, schema, requestVars, runVars, owed, bounds>>

(* approve, ignore and delete.                                              *)
Decide(c) ==
  /\ rows[c] # "absent"
  /\ \E s \in Status \ {"suggested"} : rows' = [rows EXCEPT ![c] = s]
  /\ UNCHANGED <<queueVars, schema, requestVars, runVars, owed, bounds>>

(* A write commits and its side effects refresh the cached schema, with     *)
(* joins more or less, before they mark the project.                        *)
WriteCommits(w) ==
  /\ w \in Writer
  /\ stage[w] = "idle"
  /\ stage' = [stage EXCEPT ![w] = "written"]
  /\ schema' \in SUBSET Join
  /\ UNCHANGED <<queueVars, rows, now, sweep, runVars, owed, bounds>>

(* markAfterWrite: now unless a run ended recently, but never later than    *)
(* the row already says.                                                    *)
Undebounced == ~cooling \/ (queue = "pending" /\ due)

ReadQueue(w) ==
  /\ stage[w] = "written"
  /\ stage' = [stage EXCEPT ![w] = "read"]
  /\ now' = IF Undebounced THEN now \cup {w} ELSE now
  /\ UNCHANGED <<queueVars, rows, schema, sweep, runVars, owed, bounds>>

(* forceAnalysis does not ask the row.                                      *)
ForceAnalysis(r) ==
  /\ r \in Refresh
  /\ stage[r] = "idle"
  /\ stage' = [stage EXCEPT ![r] = "read"]
  /\ now' = now \cup {r}
  /\ UNCHANGED <<queueVars, rows, schema, sweep, runVars, owed, bounds>>

Enqueue(r) ==
  /\ stage[r] = "read"
  /\ \/ /\ queue' = "pending"
        /\ \/ r \in now /\ due' = TRUE /\ stage' = [stage EXCEPT ![r] = "enqueued"]
           \/ r \notin now /\ due' = FALSE /\ stage' = [stage EXCEPT ![r] = "done"]
        /\ owed' = owed \cup ({r} \cap Writer)
        /\ UNCHANGED rejections
     \/ /\ Rejection
        /\ stage' = [stage EXCEPT ![r] = "done"]
        /\ UNCHANGED <<queue, due, owed>>
  /\ now' = now \ {r}
  /\ UNCHANGED <<cooling, rows, schema, sweep, runVars, restarts>>

-----------------------------------------------------------------------------
(* The start of a run                                                       *)

(* runAnalysisForProject: nothing if one is running.                        *)
StartRun ==
  IF runningAnalysis
  THEN UNCHANGED <<run, runningAnalysis>>
  ELSE runningAnalysis' = TRUE /\ run' = "queue"

StartNow(r) ==
  /\ stage[r] = "enqueued"
  /\ stage' = [stage EXCEPT ![r] = "done"]
  /\ StartRun
  /\ UNCHANGED <<queueVars, rows, schema, now, sweep, seen, known, todo,
                 lastSignature, owed, bounds>>

(* Mutant: the sweep passes over failed analyses.                           *)
OnlyPending == {"pending"}

DueStatus == {"pending", "error"}

(* findDueAnalysis, and the start of what it found.                         *)
Sweep ==
  /\ ~sweep
  /\ queue \in DueStatus
  /\ due
  /\ sweep' = TRUE
  /\ UNCHANGED <<queueVars, rows, schema, stage, now, runVars, owed, bounds>>

StartDue ==
  /\ sweep
  /\ sweep' = FALSE
  /\ StartRun
  /\ UNCHANGED <<queueVars, rows, schema, stage, now, seen, known, todo,
                 lastSignature, owed, bounds>>

-----------------------------------------------------------------------------
(* The run                                                                  *)

(* A rejection inside the try block.                                        *)
Rejects == Rejection /\ run' = "catch"

(* The update before the try block: when it rejects, the project stays in   *)
(* runningAnalysis.                                                         *)
BeginRun ==
  /\ run = "queue"
  /\ \/ queue' = "running" /\ run' = "schema" /\ UNCHANGED rejections
     \/ Rejection /\ run' = "off" /\ UNCHANGED queue
  /\ UNCHANGED <<due, cooling, rows, schema, requestVars, runningAnalysis,
                 seen, known, todo, lastSignature, owed, restarts>>

LoadSchema ==
  /\ run = "schema"
  /\ \/ seen' = schema /\ run' = "rows" /\ UNCHANGED rejections
     \/ Rejects /\ UNCHANGED seen
  /\ UNCHANGED <<queueVars, rows, schema, requestVars, runningAnalysis, known,
                 todo, lastSignature, owed, restarts>>

(* Mutant: whatever the schema does not admit is pruned.                    *)
OrphanedAny == {c \in Candidate : rows[c] # "absent" /\ c[1] \notin seen}

(* Suggestions that the schema of the run no longer admits.                 *)
Orphaned == {c \in Candidate : rows[c] = "suggested" /\ c[1] \notin seen}

LoadRows ==
  /\ run = "rows"
  /\ \/ /\ known' = rows
        /\ todo' = Orphaned
        /\ run' = IF Orphaned = {} THEN "llm" ELSE "prune"
        /\ UNCHANGED rejections
     \/ Rejects /\ UNCHANGED <<known, todo>>
  /\ UNCHANGED <<queueVars, rows, schema, requestVars, runningAnalysis, seen,
                 lastSignature, owed, restarts>>

(* The rows that are kept.                                                  *)
KnownWithout(c) == [known EXCEPT ![c] = "absent"]

(* One delete by id, whatever the row says by now.                          *)
Prune ==
  /\ run = "prune"
  /\ \E c \in todo :
       \/ /\ rows' = [rows EXCEPT ![c] = "absent"]
          /\ known' = KnownWithout(c)
          /\ todo' = todo \ {c}
          /\ run' = IF todo = {c} THEN "llm" ELSE "prune"
          /\ UNCHANGED rejections
       \/ Rejects /\ UNCHANGED <<rows, known, todo>>
  /\ UNCHANGED <<queueVars, schema, requestVars, runningAnalysis, seen,
                 lastSignature, owed, restarts>>

Signature == <<seen, known>>

(* Mutant: candidates are not compared with the rows.                       *)
AdmittedByName(c) == c[1] \in seen

(* What validateCandidate and hasExistingPatternForJoin let through.        *)
Admitted(c) ==
  c[1] \in seen /\ \A d \in Candidate : d[1] = c[1] => known[d] = "absent"

(* dedupeInverseCandidates.                                                 *)
Deduped(C) == \A c, d \in C : c[1] = d[1] => c = d

(* The model proposes anything; what is admitted once and found in the      *)
(* graph is stored. Nothing is asked when nothing changed.                  *)
Suggest ==
  /\ run = "llm"
  /\ \/ /\ \E C \in SUBSET {c \in Candidate : Admitted(c)} :
             /\ Deduped(C)
             /\ lastSignature = Signature => C = {}
             /\ todo' = C
             /\ run' = IF C = {} THEN "finish" ELSE "store"
        /\ UNCHANGED rejections
     \/ Rejects /\ UNCHANGED todo
  /\ UNCHANGED <<queueVars, rows, schema, requestVars, runningAnalysis, seen,
                 known, lastSignature, owed, restarts>>

(* upsertCandidate leaves the status of an existing row alone.              *)
Stored(c) == IF rows[c] = "absent" THEN "suggested" ELSE rows[c]

Store ==
  /\ run = "store"
  /\ \E c \in todo :
       \/ /\ rows' = [rows EXCEPT ![c] = Stored(c)]
          /\ todo' = todo \ {c}
          /\ run' = IF todo = {c} THEN "finish" ELSE "store"
          /\ UNCHANGED rejections
       \/ Rejects /\ UNCHANGED <<rows, todo>>
  /\ UNCHANGED <<queueVars, schema, requestVars, runningAnalysis, seen, known,
                 lastSignature, owed, restarts>>

(* The finally block.                                                       *)
Leave ==
  /\ run' = "off"
  /\ runningAnalysis' = FALSE
  /\ seen' = {}
  /\ known' = NoRows
  /\ todo' = {}

(* The row becomes idle, also when a write has set it to pending meanwhile. *)
FinishRun ==
  /\ run = "finish"
  /\ lastSignature' = Signature
  /\ \/ /\ queue' = "idle"
        /\ cooling' = TRUE
        /\ Leave
        /\ owed' = {}
        /\ UNCHANGED rejections
     \/ /\ Rejects
        /\ UNCHANGED <<queue, cooling, runningAnalysis, seen, known, todo,
                       owed>>
  /\ UNCHANGED <<due, rows, schema, requestVars, restarts>>

CatchError ==
  /\ run = "catch"
  /\ \/ queue' = "error" /\ cooling' = TRUE /\ UNCHANGED rejections
     \/ Rejection /\ UNCHANGED <<queue, cooling>>
  /\ Leave
  /\ UNCHANGED <<due, rows, schema, requestVars, lastSignature, owed,
                 restarts>>

(* Everything in memory is lost, requests under way included.               *)
Restart ==
  /\ restarts < MaxRestarts
  /\ restarts' = restarts + 1
  /\ stage' = [r \in Request |-> IF stage[r] = "idle" THEN "idle" ELSE "done"]
  /\ sweep' = FALSE
  /\ Leave
  /\ lastSignature' = NoSignature
  /\ now' = {}
  /\ UNCHANGED <<queueVars, rows, schema, owed, rejections>>

-----------------------------------------------------------------------------

RunStep == BeginRun \/ LoadSchema \/ LoadRows \/ Prune \/ Suggest \/ Store
           \/ FinishRun \/ CatchError

RequestStep(r) == ReadQueue(r) \/ Enqueue(r) \/ StartNow(r)

AnalysisNext ==
  \/ TimePasses
  \/ \E c \in Candidate : Decide(c)
  \/ \E r \in Request : WriteCommits(r) \/ ForceAnalysis(r) \/ RequestStep(r)
  \/ Sweep \/ StartDue
  \/ RunStep
  \/ Restart

(* Time, the sweep and the event loop go on; users and writers need not.    *)
AnalysisFairness ==
  /\ WF_analysisVars(TimePasses)
  /\ WF_analysisVars(Sweep) /\ WF_analysisVars(StartDue)
  /\ WF_analysisVars(RunStep)
  /\ \A r \in Request : WF_analysisVars(RequestStep(r))

AnalysisSpec == AnalysisInit /\ [][AnalysisNext]_analysisVars /\ AnalysisFairness

-----------------------------------------------------------------------------
(* Properties                                                               *)

(* No join is suggested twice, in the other direction or after a user has   *)
(* decided about it, though a run compares its candidates with rows it read *)
(* before it pruned, waited for the language model and probed the graph.    *)
NoDuplicateJoin ==
  \A c, d \in Candidate :
    c[1] = d[1] /\ rows[c] # "absent" /\ rows[d] # "absent" => c = d

(* A run leaves alone what a user had decided when it read the rows.        *)
DecisionsKept ==
  [][RunStep => \A c \in Candidate :
       known[c] \in {"approved", "ignored"} => rows'[c] = rows[c]]_analysisVars

(* A row that no run is working on any more and no sweep looks for, or a    *)
(* project that no run can be started for.                                  *)
Abandoned == run = "off" /\ (queue = "running" \/ runningAnalysis)

(* A write that has been enqueued is followed by the end of an analysis,    *)
(* through debounce, failures, other runs and restarts, unless a restart or *)
(* a rejected update of the row abandons it.                                *)
AnalysisFollows ==
  \A w \in Writer : w \in owed ~> w \notin owed \/ Abandoned
=============================================================================
