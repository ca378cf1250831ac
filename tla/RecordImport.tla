----------------------------- MODULE RecordImport -----------------------------
(***************************************************************************)
(* The import of a JSON document: the walk that turns nested objects into  *)
(* record drafts and relations between drafts, the statements that create  *)
(* the drafts or merge them into records of the project, and the           *)
(* statements that link the records the drafts ended up in. A client whose *)
(* answer was lost, or whose import failed, sends the same request again.  *)
(*                                                                         *)
(* A document is a sequence of nodes in reading order, each with what it   *)
(* is, the node it is in and the key it has there. Values are compared and *)
(* never looked into: suggestion of types, conversions and upper-casing of *)
(* labels are left out, and so are inline vectors and usage events. One    *)
(* statement is one step per row; nothing else writes in between, as       *)
(* imports that run side by side are not followed here.                    *)
(***************************************************************************)
EXTENDS Naturals, Sequences, FiniteSets

CONSTANTS
  Key,         \* keys of objects; the label of a record is a key
  Value,       \* values of properties
  Unset,       \* null
  NoLabel,     \* no label in the request
  Label,       \* labels clients give
  Documents,   \* documents clients import
  MergeBy,     \* values of the option mergeBy a client gives
  ChunkSize,   \* rows of a statement: CHUNK_SIZE
  MaxRequests, \* bound: requests, the last of which may be sent again
  MaxImports   \* bound: imports

(* What a node holds follows it before anything else does; a list holds no  *)
(* list, and an object no key twice.                                        *)
IsDocument(d) ==
  /\ d \in Seq([is : {"object", "list", Unset} \cup Value, in : Nat, key : Key])
  /\ d # <<>> /\ d[1].is \in {"object", "list"} /\ d[1].in = 0
  /\ \A i \in 2..Len(d) :
       /\ d[i].in \in 1..(i - 1)
       /\ \A j \in d[i].in..(i - 1) : j = d[i].in \/ d[j].in >= d[i].in
       /\ d[d[i].in].is = "object" \/ (d[d[i].in].is = "list" /\ d[i].is # "list")
       /\ d[d[i].in].is = "object" =>
            \A j \in 2..(i - 1) : d[j].in = d[i].in => d[j].key # d[i].key

ASSUME ImportAssumption ==
  /\ \A d \in Documents : IsDocument(d)
  /\ {"object", "list"} \cap (Value \cup {Unset}) = {} /\ NoLabel \notin Label
  /\ Label \subseteq Key /\ MergeBy \subseteq SUBSET Key
  /\ ChunkSize \in Nat \ {0} /\ MaxRequests \in Nat /\ MaxImports \in Nat

VARIABLES
  pc,         \* where the import is
  import,     \* how many imports there have been, this one included
  request,    \* what the client sent
  resent,     \* whether the import before was of the same request, and succeeded
  queue,      \* the walk's queue
  drafts,     \* record drafts in the order of the walk, then the chunks to come
  relations,  \* pairs of nodes whose drafts are to be linked
  chunk,      \* drafts of the chunk under way that are in no statement yet
  rows,       \* drafts the statement under way has still to write
  matchable,  \* the records when it began
  idmap,      \* draftToPersistedId
  records,    \* the records of the project
  links,      \* the relationships between them
  home,       \* for each node, the records its draft was written to
  saved       \* what a rollback restores

walkVars  == <<queue, drafts, relations>>
writeVars == <<chunk, rows, matchable, idmap, home>>
vars == <<pc, import, request, resent, walkVars, writeVars, records, links, saved>>

(***************************************************************************)
(* Documents.                                                              *)
(***************************************************************************)
Kids(d, i) == {j \in DOMAIN d : d[j].in = i}

(* Nodes, or positions, in their order.                                     *)
InOrder(S) ==
  [n \in 1..Cardinality(S) |-> CHOOSE i \in S : Cardinality({j \in S : j <= i}) = n]

Scalar(d, i) == d[i].is \in Value \cup {Unset}

(* isComplexImportValue: becomes records. Everything else is a property.    *)
Complex(d, i) ==
  \/ d[i].is = "object"
  \/ d[i].is = "list" /\ \E j \in Kids(d, i) : ~Scalar(d, j)

(* A property's value; a list loses its nulls, and a list of nulls is unset.*)
ValueOf(d, i) ==
  IF Scalar(d, i) THEN d[i].is ELSE {d[j].is : j \in Kids(d, i)} \ {Unset}

IsSet(d, i) ==
  \/ d[i].is \in Value
  \/ d[i].is = "list" /\ (Kids(d, i) = {} \/ ValueOf(d, i) # {})

PropertyNodes(d, i) == {j \in Kids(d, i) : ~Complex(d, j) /\ IsSet(d, j)}

(* A scalar in a list with an object becomes a record without properties; a *)
(* string there, whose characters would be its properties, is left out.     *)
Fields(d, i) ==
  [k \in {d[j].key : j \in PropertyNodes(d, i)} |->
     ValueOf(d, CHOOSE j \in PropertyNodes(d, i) : d[j].key = k)]

(* jsonImportRequiresLabel                                                  *)
RequiresLabel(d) ==
  \/ d[1].is = "list"
  \/ Kids(d, 1) = {}
  \/ \E j \in Kids(d, 1) : ~Complex(d, j)

(* Mutant: one nested object makes the root superfluous whatever it holds.  *)
SkipsThinRoot(d, label) ==
  label = NoLabel \/ Cardinality({j \in Kids(d, 1) : Complex(d, j)}) = 1

(* The root of an object becomes no record if it has no label, or nothing   *)
(* of its own to say.                                                       *)
SkipsRoot(d, label) ==
  \/ label = NoLabel
  \/ /\ \A j \in Kids(d, 1) : Complex(d, j)
     /\ Cardinality({j \in Kids(d, 1) : Complex(d, j)}) <= 1

(***************************************************************************)
(* The walk.                                                               *)
(***************************************************************************)
Entry(node, label, parent, skip) ==
  [node |-> node, label |-> label, parent |-> parent, skip |-> skip]

RootEntries(d, label) ==
  IF d[1].is = "list" /\ Kids(d, 1) # {}
  THEN [n \in 1..Cardinality(Kids(d, 1)) |-> Entry(InOrder(Kids(d, 1))[n], label, 0, FALSE)]
  ELSE <<Entry(1, label, 0, SkipsRoot(d, label))>>

(* What the visit of a node adds to the queue: the objects it holds, and    *)
(* everything in the lists it holds that are not properties.                *)
Held(d, i) ==
  {j \in Kids(d, i) : d[j].is = "object"}
    \cup UNION {Kids(d, j) : j \in {l \in Kids(d, i) : d[l].is = "list" /\ Complex(d, l)}}

(* The key of an object, or of the list it is in.                           *)
KeyOf(d, i) == IF d[d[i].in].is = "list" THEN d[d[i].in].key ELSE d[i].key

HeldEntries(d, i, parent) ==
  [n \in 1..Cardinality(Held(d, i)) |->
     Entry(InOrder(Held(d, i))[n], KeyOf(d, InOrder(Held(d, i))[n]), parent, FALSE)]

(* The parent of what an entry holds: a skipped entry passes its own on.    *)
ChildParent(e) == IF e.skip THEN e.parent ELSE e.node

Init ==
  /\ pc = "idle" /\ import = 0 /\ resent = FALSE
  /\ request = [doc |-> <<>>, label |-> NoLabel, merge |-> "create", by |-> {}]
  /\ queue = <<>> /\ drafts = <<>> /\ relations = <<>>
  /\ chunk = <<>> /\ rows = <<>> /\ matchable = {}
  /\ idmap = <<>> /\ home = <<>>
  /\ records = {} /\ links = {} /\ saved = [records |-> {}, links |-> {}]

Start(r) ==
  /\ pc \in {"idle", "done", "failed"} /\ import < MaxImports
  /\ ~(r.label = NoLabel /\ RequiresLabel(r.doc))
  /\ import' = import + 1
  /\ request' = r
  /\ resent' = (pc = "done" /\ r = request)
  /\ pc' = "walk"
  /\ queue' = RootEntries(r.doc, r.label)
  /\ drafts' = <<>> /\ relations' = <<>>
  /\ chunk' = <<>> /\ rows' = <<>> /\ matchable' = {} /\ idmap' = <<>> /\ home' = <<>>
  /\ saved' = [records |-> records, links |-> links]
  /\ UNCHANGED <<records, links>>

NewRequest ==
  /\ import < MaxRequests
  /\ \E d \in Documents, l \in Label \cup {NoLabel} :
    \/ Start([doc |-> d, label |-> l, merge |-> "create", by |-> {}])
    \/ \E m \in {"append", "rewrite"}, by \in MergeBy :
         Start([doc |-> d, label |-> l, merge |-> m, by |-> by])

SendAgain == import > 0 /\ Start(request)

(* One turn of the loop of serializeBFS. A null in a list of objects throws.*)
Visit ==
  /\ pc = "walk" /\ queue # <<>>
  /\ LET e == Head(queue)
         d == request.doc
     IN  IF d[e.node].is = Unset
         THEN pc' = "failed" /\ UNCHANGED walkVars
         ELSE /\ queue' = Tail(queue) \o HeldEntries(d, e.node, ChildParent(e))
              /\ IF e.skip
                 THEN UNCHANGED <<drafts, relations>>
                 ELSE /\ drafts' = Append(drafts,
                           [node |-> e.node, label |-> e.label, fields |-> Fields(d, e.node)])
                      /\ relations' = IF e.parent = 0 THEN relations
                                      ELSE Append(relations, <<e.parent, e.node>>)
              /\ UNCHANGED pc
  /\ UNCHANGED <<import, request, resent, writeVars, records, links, saved>>

(***************************************************************************)
(* The statements.                                                         *)
(***************************************************************************)
(* Mutant: a slice that includes its end.                                  *)
ChunkOverlaps(s) == SubSeq(s, 1, IF ChunkSize < Len(s) THEN ChunkSize + 1 ELSE Len(s))

Chunk(s) == SubSeq(s, 1, IF ChunkSize < Len(s) THEN ChunkSize ELSE Len(s))
Rest(s)  == SubSeq(s, ChunkSize + 1, Len(s))

Upsert == request.merge # "create"

(* checkLimits lets the import through, or the plan does not.               *)
Allow ==
  /\ pc = "walk" /\ queue = <<>>
  /\ pc' = "write"
  /\ UNCHANGED <<import, request, resent, walkVars, writeVars, records, links, saved>>

Deny ==
  /\ pc = "walk" /\ queue = <<>>
  /\ pc' = "failed"
  /\ UNCHANGED <<import, request, resent, walkVars, writeVars, records, links, saved>>

Pick(s, S) == [n \in 1..Cardinality(S) |-> s[InOrder(S)[n]]]

(* A chunk is one statement, or one per label when the import merges.       *)
Send ==
  /\ pc = "write" /\ rows = <<>>
  /\ \/ chunk # <<>> /\ UNCHANGED drafts
     \/ chunk = <<>> /\ drafts # <<>> /\ drafts' = Rest(drafts)
  /\ LET open  == IF chunk # <<>> THEN chunk ELSE Chunk(drafts)
         group == {n \in DOMAIN open : Upsert => open[n].label = open[1].label}
     IN  rows' = Pick(open, group) /\ chunk' = Pick(open, DOMAIN open \ group)
  /\ matchable' = records
  /\ UNCHANGED <<pc, import, request, resent, queue, relations, idmap, home, records, links,
                 saved>>

(* A function over another.                                                 *)
Over(f, g) == [x \in DOMAIN f \cup DOMAIN g |-> IF x \in DOMAIN f THEN f[x] ELSE g[x]]

DraftId(node) == <<import, node>>

Created(row) == [id |-> DraftId(row.node), label |-> row.label, fields |-> row.fields]

(* The rows of the answer: UNWIND r.properties leaves none for a draft that *)
(* has no property. The last of several matches stays in the map.           *)
Answered(row, ids) ==
  IF DOMAIN row.fields = {} THEN idmap' = idmap
  ELSE \E id \in ids : idmap' = Over([n \in {row.node} |-> id], idmap)

Create ==
  /\ pc = "write" /\ rows # <<>> /\ ~Upsert
  /\ LET row == Head(rows)
     IN  /\ records' = records \cup {Created(row)}
         /\ home' = Over([n \in {row.node} |-> {DraftId(row.node)}], home)
         /\ Answered(row, {DraftId(row.node)})
  /\ rows' = Tail(rows)
  /\ UNCHANGED <<pc, import, request, resent, walkVars, chunk, matchable, links, saved>>

(* Without mergeBy every property of the row is compared, and a row that    *)
(* has none is like every record of its label.                              *)
Matches(row, seen) ==
  LET keys == IF request.by = {} THEN DOMAIN row.fields ELSE request.by
  IN  {r \in seen : /\ r.label = row.label
                    /\ \A k \in keys : /\ k \in DOMAIN r.fields \cap DOMAIN row.fields
                                       /\ r.fields[k] = row.fields[k]}

(* Mutant: what is merged into a record replaces it.                        *)
MergedReplaces(r, row) == [id |-> r.id, label |-> r.label, fields |-> row.fields]

Merged(r, row) ==
  [id |-> r.id, label |-> r.label,
   fields |-> IF request.merge = "rewrite" THEN row.fields ELSE Over(row.fields, r.fields)]

(* Whether a row sees what the rows before it did is the planner's choice.  *)
Merge ==
  /\ pc = "write" /\ rows # <<>> /\ Upsert
  /\ \E seen \in {records, matchable} :
       LET row == Head(rows)
           ids == {r.id : r \in Matches(row, seen)}
       IN  IF ids = {}
           THEN /\ records' = records \cup {Created(row)}
                /\ home' = Over([n \in {row.node} |-> {DraftId(row.node)}], home)
                /\ Answered(row, {DraftId(row.node)})
           ELSE /\ records' = {IF r.id \in ids THEN Merged(r, row) ELSE r : r \in records}
                /\ home' = Over([n \in {row.node} |-> ids], home)
                /\ Answered(row, ids)
  /\ rows' = Tail(rows)
  /\ UNCHANGED <<pc, import, request, resent, walkVars, chunk, matchable, links, saved>>

(* Mutant: relations are not mapped to the records that were merged into.  *)
PersistedAsDrafted(node) == DraftId(node)

Persisted(node) == IF node \in DOMAIN idmap THEN idmap[node] ELSE DraftId(node)

(* A relation one of whose ends is no record of the project links nothing.  *)
Link ==
  /\ pc = "write" /\ rows = <<>> /\ chunk = <<>> /\ drafts = <<>> /\ relations # <<>>
  /\ LET pairs == Chunk(relations)
         ids   == {r.id : r \in records}
     IN  links' = links \cup
              {l \in {[by |-> import, source |-> Persisted(pairs[n][1]),
                       target |-> Persisted(pairs[n][2])] : n \in DOMAIN pairs} :
                 {l.source, l.target} \subseteq ids}
  /\ relations' = Rest(relations)
  /\ UNCHANGED <<pc, import, request, resent, queue, drafts, writeVars, records, saved>>

Finish ==
  /\ pc = "write" /\ rows = <<>> /\ chunk = <<>> /\ drafts = <<>> /\ relations = <<>>
  /\ pc' = "done"
  /\ UNCHANGED <<import, request, resent, walkVars, writeVars, records, links, saved>>

(* A statement or the commit fails: the request's transaction is undone.    *)
Fail ==
  /\ pc = "write"
  /\ pc' = "failed"
  /\ records' = saved.records /\ links' = saved.links
  /\ UNCHANGED <<import, request, resent, walkVars, writeVars, saved>>

Work == Visit \/ Allow \/ Deny \/ Send \/ Create \/ Merge \/ Link \/ Finish \/ Fail
Next == NewRequest \/ SendAgain \/ Work

Spec == Init /\ [][Next]_vars

(***************************************************************************)
(* What the walk must come to, read off the document.                      *)
(***************************************************************************)
(* The nodes that are records of their own: objects and what else stands in *)
(* a list with an object; the root unless it says nothing.                  *)
Recorded(d, label) ==
  {i \in DOMAIN d :
     IF i = 1 THEN d[1].is = "object" /\ ~SkipsRoot(d, label)
     ELSE \/ d[i].is = "object"
          \/ d[d[i].in].is = "list" /\ (d[i].in = 1 \/ Complex(d, d[i].in))}

(* The object around a node; lists are looked through.                      *)
Around(d, i) == IF d[d[i].in].is = "list" THEN d[d[i].in].in ELSE d[i].in

NestedIn(d, label) ==
  {p \in Recorded(d, label) \X Recorded(d, label) : p[2] # 1 /\ Around(d, p[2]) = p[1]}

(***************************************************************************)
(* Properties.                                                             *)
(***************************************************************************)
Id == (1..MaxImports) \X Nat

(* Every variable has its type, and no two records share an id.             *)
TypeOK ==
  /\ pc \in {"idle", "walk", "write", "done", "failed"}
  /\ import \in 0..MaxImports /\ resent \in BOOLEAN
  /\ request.doc \in Documents \cup {<<>>} /\ request.label \in Label \cup {NoLabel}
  /\ request.merge \in {"create", "append", "rewrite"} /\ request.by \in MergeBy \cup {{}}
  /\ \A r \in records : r.id \in Id /\ r.label \in Key /\ DOMAIN r.fields \subseteq Key
  /\ \A r, s \in records : r.id = s.id => r = s
  /\ \A l \in links : l.by \in 1..import /\ {l.source, l.target} \subseteq Id
  /\ \A n \in DOMAIN idmap : idmap[n] \in Id
  /\ DOMAIN home \subseteq DOMAIN request.doc /\ \A n \in DOMAIN home : home[n] \subseteq Id
  /\ Len(drafts) <= Len(request.doc) /\ Len(rows) <= ChunkSize

(* No property of an object is lost: the check for a label in the           *)
(* controller, the rule that skips the root and the merge of drafts leave   *)
(* each one on the records of the object it was in. Only a later row of the *)
(* same import that rewrites the same record may take it away.              *)
NoValueLost ==
  (pc = "done" /\ request.merge # "rewrite") =>
    \A i \in DOMAIN request.doc :
      request.doc[i].is = "object" =>
        \A j \in PropertyNodes(request.doc, i) :
          /\ i \in DOMAIN home
          /\ \A r \in records :
               r.id \in home[i] =>
                 /\ request.doc[j].key \in DOMAIN r.fields
                 /\ request.by = {} => r.fields[request.doc[j].key] = ValueOf(request.doc, j)

(* A draft without properties that is merged by all of its properties.      *)
Anonymous(n) == Upsert /\ request.by = {} /\ PropertyNodes(request.doc, n) = {}

(* The relationships an import makes are the nesting of its document,       *)
(* carried over to the records its drafts were merged into: whatever        *)
(* statement an end was in, and however many drafts became one record.      *)
LinksFollowNesting ==
  pc = "done" =>
    LET nested == NestedIn(request.doc, request.label)
        Joins(l, p) == l.by = import /\ l.source \in home[p[1]] /\ l.target \in home[p[2]]
    IN  /\ DOMAIN home = Recorded(request.doc, request.label)
        /\ \A p \in nested :
             ~Anonymous(p[1]) /\ ~Anonymous(p[2]) => \E l \in links : Joins(l, p)
        /\ \A l \in links : l.by = import => \E p \in nested : Joins(l, p)

(* Sending an import again that merges creates no record a second time,     *)
(* except for drafts that lack a key of mergeBy; a rewrite by all properties *)
(* may have taken away what the second import looks for.                    *)
RetryCreatesNothing ==
  (pc = "done" /\ resent /\ Upsert /\ (request.by = {} => request.merge = "append")) =>
    \A r \in records : r.id[1] = import => ~(request.by \subseteq DOMAIN r.fields)
=============================================================================
