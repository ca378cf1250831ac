------------------------- MODULE RecordImportProofs -------------------------
(***************************************************************************)
(* Proofs about RecordImport, for every set of documents, every chunk size, *)
(* and any number of requests and imports: types, no value lost, links that *)
(* follow the nesting, and a repeated merge that creates nothing.           *)
(***************************************************************************)
EXTENDS RecordImport, FiniteSetTheorems, SequenceTheorems, TLAPS

-----------------------------------------------------------------------------
(* What the document says of the walk. Roots are the nodes it starts from;  *)
(* every node it comes to is recorded, or the root.                         *)
Roots(d) == IF d[1].is = "list" /\ Kids(d, 1) # {} THEN Kids(d, 1) ELSE {1}

Walked(d, label) == Recorded(d, label) \cup Roots(d)

EntryOf(d, label, n) ==
  IF n \in Roots(d)
  THEN Entry(n, label, 0, n = 1 /\ SkipsRoot(d, label))
  ELSE Entry(n, KeyOf(d, n),
             IF Around(d, n) = 1 /\ SkipsRoot(d, label) THEN 0 ELSE Around(d, n), FALSE)

DraftOf(d, label, n) ==
  [node |-> n, label |-> EntryOf(d, label, n).label, fields |-> Fields(d, n)]

Entries(d, label) == {EntryOf(d, label, n) : n \in Walked(d, label)}
Drafts(d, label)  == {DraftOf(d, label, n) : n \in Recorded(d, label)}

(* A request the controller lets through.                                   *)
Valid(r) ==
  /\ r.doc \in Documents /\ r.label \in Label \cup {NoLabel}
  /\ r.label = NoLabel => ~RequiresLabel(r.doc)

(* Entries and drafts stand for their nodes.                                *)
NodesOf(s)  == {s[i].node : i \in DOMAIN s}
Elements(s) == {s[i] : i \in DOMAIN s}
Distinct(s) == \A i, j \in DOMAIN s : s[i].node = s[j].node => i = j

Rec      == Recorded(request.doc, request.label)
Draft(n) == DraftOf(request.doc, request.label, n)
Nested   == NestedIn(request.doc, request.label)
Writing  == pc \in {"write", "done"}

-----------------------------------------------------------------------------
RequestInv ==
  /\ pc \in {"idle", "walk", "write", "done", "failed"}
  /\ import \in 0..MaxImports /\ resent \in BOOLEAN
  /\ request.merge \in {"create", "append", "rewrite"} /\ request.by \in MergeBy \cup {{}}
  /\ pc = "idle" <=> import = 0
  /\ IF import = 0 THEN request.doc = <<>> /\ request.label = NoLabel ELSE Valid(request)

(* Drafts and relations are those of the document, wherever they are.       *)
SequencesInv ==
  /\ drafts \in Seq(Drafts(request.doc, request.label)) /\ Distinct(drafts)
  /\ chunk \in Seq(Drafts(request.doc, request.label)) /\ Distinct(chunk)
  /\ rows \in Seq(Drafts(request.doc, request.label)) /\ Distinct(rows)
  /\ relations \in Seq(Nested)
  /\ Len(chunk) <= ChunkSize /\ Len(rows) <= ChunkSize

(* The nodes whose turn is over.                                            *)
Visited ==
  NodesOf(drafts) \cup
    IF 1 \in Roots(request.doc) /\ SkipsRoot(request.doc, request.label)
    THEN {1} \ NodesOf(queue) ELSE {}

(* The queue and what was visited are closed under what a visit adds, and   *)
(* hold no node before the object around it.                                *)
WalkInv ==
  pc = "walk" =>
    LET d == request.doc
        reached == NodesOf(queue) \cup Visited
    IN  /\ queue \in Seq(Entries(d, request.label)) /\ Distinct(queue)
        /\ chunk = <<>> /\ rows = <<>> /\ DOMAIN home = {}
        /\ NodesOf(queue) \cap Visited = {}
        /\ Roots(d) \subseteq reached
        /\ \A h \in Visited : Held(d, h) \subseteq reached
        /\ \A n \in reached : n \in Roots(d) \/ Around(d, n) \in Visited
        /\ \A p \in Nested : p[2] \in NodesOf(drafts) => p \in Elements(relations)

(* Each draft is in one place: written, in the statement under way, in its  *)
(* chunk, or in a chunk to come.                                            *)
DraftsInv ==
  Writing =>
    /\ NodesOf(rows) \cap NodesOf(chunk) = {}
    /\ NodesOf(rows) \cap NodesOf(drafts) = {}
    /\ NodesOf(chunk) \cap NodesOf(drafts) = {}
    /\ DOMAIN home \cap (NodesOf(rows) \cup NodesOf(chunk) \cup NodesOf(drafts)) = {}
    /\ DOMAIN home \cup NodesOf(rows) \cup NodesOf(chunk) \cup NodesOf(drafts) = Rec
    /\ pc = "done" => rows = <<>> /\ chunk = <<>> /\ drafts = <<>> /\ relations = <<>>

Proper(R) ==
  /\ \A r \in R : r.id \in Id /\ r.label \in Key /\ DOMAIN r.fields \subseteq Key
  /\ \A r, s \in R : r.id = s.id => r = s

(* A record this import created is where its draft was written.             *)
RecordsInv ==
  /\ Proper(records) /\ Proper(saved.records)
  /\ \A r \in saved.records : r.id[1] < import
  /\ \A r \in records :
       /\ r.id[1] <= import
       /\ r.id[1] = import => r.id[2] \in DOMAIN home /\ r.id \in home[r.id[2]]

HomeInv ==
  /\ DOMAIN home \subseteq Rec /\ DOMAIN idmap \subseteq DOMAIN home
  /\ \A n \in DOMAIN home : home[n] \subseteq Id
  /\ \A n \in DOMAIN idmap : idmap[n] \in home[n]
  /\ Writing =>
       \A n \in DOMAIN home :
         /\ home[n] \subseteq {r.id : r \in records}
         /\ n \notin DOMAIN idmap => home[n] = {DraftId(n)} \/ Anonymous(n)

Joins(l, p) ==
  /\ l.by = import /\ {p[1], p[2]} \subseteq DOMAIN home
  /\ l.source \in home[p[1]] /\ l.target \in home[p[2]]

LinksInv ==
  /\ \A l \in links : l.by \in 1..import /\ {l.source, l.target} \subseteq Id
  /\ \A l \in saved.links : l.by \in 1..(import - 1) /\ {l.source, l.target} \subseteq Id
  /\ pc = "walk" => \A l \in links : l.by # import
  /\ Writing =>
       /\ \A p \in Nested :
            \/ Anonymous(p[1]) \/ Anonymous(p[2])
            \/ p \in Elements(relations)
            \/ \E l \in links : Joins(l, p)
       /\ \A l \in links : l.by = import => \E p \in Nested : Joins(l, p)

(* What was written to a record stays there.                                *)
ValuesInv ==
  (Writing /\ request.merge # "rewrite") =>
    \A n \in DOMAIN home : \A r \in records :
      r.id \in home[n] =>
        \A k \in DOMAIN Draft(n).fields :
          /\ k \in DOMAIN r.fields
          /\ request.by = {} => r.fields[k] = Draft(n).fields[k]

(* The request is such that sending it again should create nothing.         *)
Retrying == Upsert /\ (request.by = {} => request.merge = "append")

(* A record keeps its label and the properties that rows are matched by.    *)
Kept(k) == request.by = {} \/ k \in request.by

Persist(R, S) ==
  \A r \in R : \E s \in S :
    /\ s.id = r.id /\ s.label = r.label
    /\ Retrying => \A k \in DOMAIN r.fields : Kept(k) => k \in DOMAIN s.fields /\ s.fields[k] = r.fields[k]
    /\ request.merge # "rewrite" => DOMAIN r.fields \subseteq DOMAIN s.fields

MatchableInv == (pc = "write" /\ rows # <<>>) => Persist(matchable, records)

Findable(n) == request.by \subseteq DOMAIN Draft(n).fields

Stored(N, R) == \A n \in N : Findable(n) => Matches(Draft(n), R) # {}

StoredInv == (Writing /\ Retrying) => Stored(DOMAIN home, records)

RetryInv ==
  (resent /\ Retrying /\ pc \in {"walk", "write", "done"}) =>
    /\ Stored(Rec, records)
    /\ (pc = "write" /\ rows # <<>>) => Stored(Rec, matchable)
    /\ \A r \in records : r.id[1] = import => ~(request.by \subseteq DOMAIN r.fields)

IInv ==
  /\ RequestInv /\ SequencesInv /\ WalkInv /\ DraftsInv /\ RecordsInv /\ HomeInv /\ LinksInv
  /\ ValuesInv /\ MatchableInv /\ StoredInv /\ RetryInv
-----------------------------------------------------------------------------
(* Nodes and positions in order. The rank of an element is how many there   *)
(* are up to it; ranks grow, so that they are 1 to the number of elements.  *)
Upto(S, i) == {j \in S : j <= i}

LEMMA Ranks ==
  ASSUME NEW S \in SUBSET Nat, IsFiniteSet(S)
  PROVE  /\ Cardinality(S) \in Nat
         /\ \A i \in S : IsFiniteSet(Upto(S, i)) /\ Cardinality(Upto(S, i)) \in 1..Cardinality(S)
         /\ \A i, j \in S : i < j => Cardinality(Upto(S, i)) < Cardinality(Upto(S, j))
<1>1. Cardinality(S) \in Nat /\ \A x \in S : x \in Nat
  BY FS_CardinalityType
<1>2. ASSUME NEW i \in S
      PROVE  IsFiniteSet(Upto(S, i)) /\ Cardinality(Upto(S, i)) \in 1..Cardinality(S)
  <2>1. Upto(S, i) \in SUBSET S /\ i \in Upto(S, i)
    BY DEF Upto
  <2>2. IsFiniteSet(Upto(S, i)) /\ Cardinality(Upto(S, i)) <= Cardinality(S)
    BY <2>1, FS_Subset
  <2>3. Cardinality(Upto(S, i)) \in Nat /\ Cardinality(Upto(S, i)) # 0
    BY <2>1, <2>2, FS_CardinalityType, FS_EmptySet
  <2> QED
    BY <1>1, <2>2, <2>3
<1>3. ASSUME NEW i \in S, NEW j \in S, i < j
      PROVE  Cardinality(Upto(S, i)) < Cardinality(Upto(S, j))
  <2> i \in Nat /\ j \in Nat
    BY <1>1
  <2>0. j <= j /\ ~(j <= i) /\ \A x \in S : x <= i => x <= j
    BY <1>1, <1>3
  <2>1. Upto(S, i) \subseteq Upto(S, j) /\ j \in Upto(S, j) /\ j \notin Upto(S, i)
    BY <2>0, Zenon DEF Upto
  <2>2. /\ Cardinality(Upto(S, i)) <= Cardinality(Upto(S, j))
        /\ Cardinality(Upto(S, j)) # Cardinality(Upto(S, i))
    BY <1>2, <2>1, FS_Subset
  <2> QED
    BY <1>2, <2>2
<1> QED
  BY <1>1, <1>2, <1>3

LEMMA OrderEnumerates ==
  ASSUME NEW S \in SUBSET Nat, IsFiniteSet(S)
  PROVE  /\ Cardinality(S) \in Nat
         /\ InOrder(S) \in [1..Cardinality(S) -> S]
         /\ \A i \in S : \E n \in 1..Cardinality(S) : InOrder(S)[n] = i
         /\ \A n \in 1..Cardinality(S) : Cardinality(Upto(S, InOrder(S)[n])) = n
<1> DEFINE c == Cardinality(S)
           rank == [i \in S |-> Cardinality(Upto(S, i))]
<1>1. c \in Nat /\ IsFiniteSet(1..c) /\ Cardinality(1..c) = c
  BY FS_CardinalityType, FS_Interval
<1>2. rank \in [S -> 1..c]
  BY Ranks
<1>3. \A i, j \in S : rank[i] = rank[j] => i = j
  BY Ranks
<1>4. rank \in Injection(S, 1..c)
  BY <1>2, <1>3 DEF Injection, IsInjective
<1>5. rank \in Surjection(S, 1..c)
  BY <1>1, <1>4, FS_Injection
<1>6. \A n \in 1..c : \E i \in S : rank[i] = n
  BY <1>5 DEF Surjection
<1>7. \A n \in 1..c : InOrder(S)[n] \in S /\ rank[InOrder(S)[n]] = n
  <2> TAKE n \in 1..c
  <2>1. \E i \in S : Cardinality({j \in S : j <= i}) = n
    BY <1>6 DEF Upto
  <2>2. InOrder(S)[n] = CHOOSE i \in S : Cardinality({j \in S : j <= i}) = n
    BY DEF InOrder
  <2>3. InOrder(S)[n] \in S /\ Cardinality({j \in S : j <= InOrder(S)[n]}) = n
    BY <2>1, <2>2
  <2> QED
    BY <2>3 DEF Upto
<1>8. \A i \in S : \E n \in 1..c : InOrder(S)[n] = i
  BY <1>2, <1>3, <1>7
<1>9. InOrder(S) \in [1..c -> S]
  <2> DEFINE f(n) == CHOOSE i \in S : Cardinality({j \in S : j <= i}) = n
  <2>1. InOrder(S) = [n \in 1..c |-> f(n)]
    BY DEF InOrder
  <2> HIDE DEF f
  <2>2. \A n \in 1..c : f(n) \in S
    BY <1>7, <2>1
  <2> QED
    BY <2>1, <2>2
<1> QED
  BY <1>1, <1>7, <1>8, <1>9

LEMMA OrderIsInjective ==
  ASSUME NEW S \in SUBSET Nat, IsFiniteSet(S),
         NEW m \in 1..Cardinality(S), NEW n \in 1..Cardinality(S),
         InOrder(S)[m] = InOrder(S)[n]
  PROVE  m = n
  BY OrderEnumerates

(* A set of numbers has a least one: what induction over a document needs.  *)
LEMMA Least ==
  ASSUME NEW S \in SUBSET Nat, IsFiniteSet(S), S # {}
  PROVE  \E m \in S : \A i \in S : m <= i
<1>1. Cardinality(S) \in Nat /\ Cardinality(S) # 0
  BY FS_CardinalityType, FS_EmptySet
<1>2. PICK m \in S : Cardinality(Upto(S, m)) = 1
  <2>1. \A n \in 1..Cardinality(S) : InOrder(S)[n] \in S /\ Cardinality(Upto(S, InOrder(S)[n])) = n
    BY OrderEnumerates
  <2>2. 1 \in 1..Cardinality(S)
    BY <1>1
  <2> QED
    BY <2>1, <2>2
<1>3. PICK x : Upto(S, m) = {x}
  BY <1>2, Ranks, FS_Singleton
<1>4. m \in Nat /\ m <= m
  OBVIOUS
<1>5. ASSUME NEW i \in S PROVE m <= i
  <2>1. i \in Nat /\ m \in Upto(S, m) /\ (i <= m => i \in Upto(S, m))
    BY <1>2, <1>4, Zenon DEF Upto
  <2>2. i <= m => i = m
    BY <1>3, <2>1
  <2> QED
    BY <1>4, <2>1, <2>2
<1> QED
  BY <1>2, <1>5

-----------------------------------------------------------------------------
(* Sequences of entries and drafts.                                         *)
LEMMA PositionsAreFinite ==
  ASSUME NEW n \in Nat, NEW S \in SUBSET (1..n)
  PROVE  S \in SUBSET Nat /\ IsFiniteSet(S) /\ Cardinality(S) \in Nat /\ Cardinality(S) <= n
<1>1. IsFiniteSet(1..n) /\ Cardinality(1..n) = n
  BY FS_Interval
<1>2. IsFiniteSet(S) /\ Cardinality(S) <= n
  BY <1>1, FS_Subset
<1>3. Cardinality(S) \in Nat
  BY <1>2, FS_CardinalityType
<1> QED
  BY <1>2, <1>3

LEMMA PickProperties ==
  ASSUME NEW X, NEW s \in Seq(X), NEW S \in SUBSET DOMAIN s
  PROVE  /\ Pick(s, S) \in Seq(X) /\ Len(Pick(s, S)) <= Len(s)
         /\ Pick(s, S) = <<>> <=> S = {}
         /\ \A n \in DOMAIN Pick(s, S) : \E i \in S : Pick(s, S)[n] = s[i]
         /\ \A i \in S : \E n \in DOMAIN Pick(s, S) : Pick(s, S)[n] = s[i]
<1>1. DOMAIN s = 1..Len(s) /\ Len(s) \in Nat
  BY LenProperties
<1>2. S \in SUBSET Nat /\ IsFiniteSet(S) /\ Cardinality(S) \in Nat /\ Cardinality(S) <= Len(s)
  BY <1>1, PositionsAreFinite
<1>3. /\ InOrder(S) \in [1..Cardinality(S) -> S]
      /\ \A i \in S : \E n \in 1..Cardinality(S) : InOrder(S)[n] = i
  BY <1>2, OrderEnumerates
<1>4. \A n \in 1..Cardinality(S) : Pick(s, S)[n] = s[InOrder(S)[n]] /\ Pick(s, S)[n] \in X
  BY <1>3, ElementOfSeq, <1>1 DEF Pick
<1>5. Pick(s, S) \in [1..Cardinality(S) -> X]
  BY <1>4 DEF Pick
<1>6. Pick(s, S) \in Seq(X) /\ Len(Pick(s, S)) = Cardinality(S) /\ DOMAIN Pick(s, S) = 1..Cardinality(S)
  BY <1>2, <1>5
<1>7. Pick(s, S) = <<>> <=> Cardinality(S) = 0
  BY <1>2, <1>6, EmptySeq
<1>8. Cardinality(S) = 0 <=> S = {}
  BY <1>2, FS_EmptySet
<1> QED
  BY <1>2, <1>3, <1>4, <1>6, <1>7, <1>8

LEMMA PickIsDistinct ==
  ASSUME NEW X, NEW s \in Seq(X), Distinct(s), NEW S \in SUBSET DOMAIN s
  PROVE  Distinct(Pick(s, S)) /\ NodesOf(Pick(s, S)) = {s[i].node : i \in S}
<1>1. DOMAIN s = 1..Len(s) /\ Len(s) \in Nat
  BY LenProperties
<1>2. S \in SUBSET Nat /\ IsFiniteSet(S) /\ Cardinality(S) \in Nat
  BY <1>1, PositionsAreFinite
<1>3. InOrder(S) \in [1..Cardinality(S) -> S]
  BY <1>2, OrderEnumerates
<1>4. DOMAIN Pick(s, S) = 1..Cardinality(S)
  BY DEF Pick
<1>5. \A n \in 1..Cardinality(S) : Pick(s, S)[n] = s[InOrder(S)[n]]
  BY DEF Pick
<1>6. ASSUME NEW m \in DOMAIN Pick(s, S), NEW n \in DOMAIN Pick(s, S),
             Pick(s, S)[m].node = Pick(s, S)[n].node
      PROVE  m = n
  <2>1. s[InOrder(S)[m]].node = s[InOrder(S)[n]].node
    BY <1>4, <1>5, <1>6
  <2>2. InOrder(S)[m] = InOrder(S)[n]
    BY <1>3, <1>4, <2>1 DEF Distinct
  <2> QED
    BY <1>2, <1>4, <2>2, OrderIsInjective
<1>7. NodesOf(Pick(s, S)) = {s[i].node : i \in S}
  <2>1. \A i \in S : \E n \in DOMAIN Pick(s, S) : Pick(s, S)[n] = s[i]
    <3>1. \A i \in S : \E n \in 1..Cardinality(S) : InOrder(S)[n] = i
      BY <1>2, OrderEnumerates
    <3> QED
      BY <1>4, <1>5, <3>1
  <2>2. \A n \in DOMAIN Pick(s, S) : Pick(s, S)[n] = s[InOrder(S)[n]] /\ InOrder(S)[n] \in S
    BY <1>3, <1>4, <1>5
  <2> QED
    BY <2>1, <2>2 DEF NodesOf
<1> QED
  BY <1>6, <1>7 DEF Distinct

LEMMA SliceProperties ==
  ASSUME NEW X, NEW s \in Seq(X), NEW k \in Nat, NEW m, m = k + 1, NEW n \in Nat, n <= Len(s)
  PROVE  /\ SubSeq(s, m, n) \in Seq(X)
         /\ Len(SubSeq(s, m, n)) = IF m <= n THEN n - k ELSE 0
         /\ DOMAIN SubSeq(s, m, n) = 1..Len(SubSeq(s, m, n))
         /\ \A i \in Nat \ {0} : /\ i \in DOMAIN SubSeq(s, m, n) <=> k + i <= n
                                 /\ i \in DOMAIN SubSeq(s, m, n) => SubSeq(s, m, n)[i] = s[k + i]
<1>1. DOMAIN s = 1..Len(s) /\ Len(s) \in Nat
  BY LenProperties
<1>2. \A i \in m..n : i \in 1..Len(s)
  BY <1>1
<1>3. \A i \in m..n : s[i] \in X
  BY <1>2, ElementOfSeq
<1> DEFINE t == SubSeq(s, m, n)
<1>4. /\ t \in Seq(X)
      /\ Len(t) = IF m <= n THEN n - m + 1 ELSE 0
      /\ \A i \in 1..(n - m + 1) : t[i] = s[m + i - 1]
  BY <1>3, SubSeqProperties
<1>5. DOMAIN t = 1..Len(t)
  BY <1>4, LenProperties
<1> HIDE DEF t
<1>6. Len(t) = IF m <= n THEN n - k ELSE 0
  BY <1>4
<1>7. ASSUME NEW i \in Nat \ {0}
      PROVE  /\ i \in DOMAIN t <=> k + i <= n
             /\ i \in DOMAIN t => t[i] = s[k + i]
  <2>1. i \in DOMAIN t <=> k + i <= n
    BY <1>5, <1>6
  <2>2. i \in DOMAIN t => i \in 1..(n - m + 1)
    BY <2>1
  <2>3. m + i - 1 = k + i
    OBVIOUS
  <2> QED
    BY <1>4, <2>1, <2>2, <2>3
<1> QED
  BY <1>4, <1>5, <1>6, <1>7 DEF t

LEMMA ChunkProperties ==
  ASSUME NEW X, NEW s \in Seq(X), s # <<>>
  PROVE  /\ Chunk(s) \in Seq(X) /\ Rest(s) \in Seq(X)
         /\ Chunk(s) # <<>> /\ Len(Chunk(s)) <= ChunkSize
         /\ \A i \in DOMAIN s :
              IF i <= ChunkSize THEN i \in DOMAIN Chunk(s) /\ Chunk(s)[i] = s[i]
              ELSE \E j \in DOMAIN Rest(s) : j = i - ChunkSize /\ Rest(s)[j] = s[i]
         /\ \A i \in DOMAIN Chunk(s) : i \in DOMAIN s /\ i <= ChunkSize /\ Chunk(s)[i] = s[i]
         /\ \A j \in DOMAIN Rest(s) :
              \E i \in DOMAIN s : i = ChunkSize + j /\ i > ChunkSize /\ Rest(s)[j] = s[i]
<1>1. PICK n \in Nat \ {0} : Len(s) = n /\ DOMAIN s = 1..n
  BY LenProperties, EmptySeq
<1>2. PICK c \in Nat \ {0} : c = ChunkSize
  BY ImportAssumption
<1>3. PICK e \in Nat : e = IF c < n THEN c ELSE n
  BY <1>1, <1>2
<1>4. e # 0 /\ e <= n /\ e <= c /\ \A i \in Nat : i <= e <=> (i <= n /\ i <= c)
  BY <1>3
<1>5. Chunk(s) = SubSeq(s, 1, e) /\ Rest(s) = SubSeq(s, c + 1, n)
  BY <1>1, <1>2, <1>3 DEF Chunk, Rest
<1>6. /\ Chunk(s) \in Seq(X)
      /\ Len(Chunk(s)) = IF 1 <= e THEN e - 0 ELSE 0
      /\ DOMAIN Chunk(s) = 1..Len(Chunk(s))
      /\ \A i \in Nat \ {0} : /\ i \in DOMAIN Chunk(s) <=> 0 + i <= e
                              /\ i \in DOMAIN Chunk(s) => Chunk(s)[i] = s[0 + i]
  <2>1. 1 = 0 + 1 /\ 0 \in Nat /\ e <= Len(s)
    BY <1>1, <1>4
  <2> QED
    BY <1>5, <2>1, SliceProperties
<1>7. /\ Rest(s) \in Seq(X)
      /\ DOMAIN Rest(s) = 1..Len(Rest(s))
      /\ \A i \in Nat \ {0} : /\ i \in DOMAIN Rest(s) <=> c + i <= n
                              /\ i \in DOMAIN Rest(s) => Rest(s)[i] = s[c + i]
  <2>1. PICK m \in Nat : m = c + 1 /\ n <= Len(s)
    BY <1>1
  <2> QED
    BY <1>5, <2>1, SliceProperties
<1>8. Len(Chunk(s)) = e /\ Chunk(s) # <<>>
  BY <1>4, <1>6
<1>9. \A i \in 1..n : i <= c => i \in DOMAIN Chunk(s) /\ Chunk(s)[i] = s[i]
  BY <1>4, <1>6
<1>10. \A i \in 1..e : i \in 1..n /\ i <= c /\ Chunk(s)[i] = s[i]
  BY <1>4, <1>6, <1>8
<1>11. ASSUME NEW i \in 1..n, ~(i <= c)
       PROVE  \E j \in DOMAIN Rest(s) : j = i - c /\ Rest(s)[j] = s[i]
  <2>1. PICK j \in Nat \ {0} : j = i - c
    BY <1>11
  <2>2. c + j = i /\ c + j <= n
    BY <2>1
  <2>3. j \in DOMAIN Rest(s) /\ Rest(s)[j] = s[c + j]
    BY <1>7, <2>1, <2>2
  <2> QED
    BY <2>1, <2>2, <2>3
<1>12. ASSUME NEW j \in DOMAIN Rest(s)
       PROVE  \E i \in 1..n : i = c + j /\ i > c /\ Rest(s)[j] = s[i]
  <2>1. j \in Nat \ {0}
    BY <1>7, <1>12
  <2>2. c + j <= n /\ Rest(s)[j] = s[c + j]
    BY <1>7, <1>12, <2>1
  <2>3. PICK i \in Nat : i = c + j
    BY <2>1
  <2> QED
    BY <2>1, <2>2, <2>3
<1> QED
  BY <1>1, <1>2, <1>4, <1>6, <1>7, <1>8, <1>9, <1>10, <1>11, <1>12

LEMMA ChunkIsDistinct ==
  ASSUME NEW X, NEW s \in Seq(X), s # <<>>, Distinct(s)
  PROVE  /\ Distinct(Chunk(s)) /\ Distinct(Rest(s))
         /\ NodesOf(Chunk(s)) \cap NodesOf(Rest(s)) = {}
         /\ NodesOf(Chunk(s)) \cup NodesOf(Rest(s)) = NodesOf(s)
<1>1. PICK c \in Nat \ {0} : c = ChunkSize
  BY ImportAssumption
<1>2. \A i \in DOMAIN s : i \in Nat
  BY LenProperties
<1>3. /\ \A i \in DOMAIN s :
           IF i <= c THEN i \in DOMAIN Chunk(s) /\ Chunk(s)[i] = s[i]
           ELSE \E j \in DOMAIN Rest(s) : j = i - c /\ Rest(s)[j] = s[i]
      /\ \A i \in DOMAIN Chunk(s) : i \in DOMAIN s /\ i <= c /\ Chunk(s)[i] = s[i]
      /\ \A j \in DOMAIN Rest(s) : \E i \in DOMAIN s : i = c + j /\ i > c /\ Rest(s)[j] = s[i]
      /\ Chunk(s) \in Seq(X) /\ Rest(s) \in Seq(X)
  BY <1>1, ChunkProperties
<1>4. \A j \in DOMAIN Rest(s) : j \in Nat
  BY <1>3, LenProperties
<1>5. Distinct(Chunk(s))
  BY <1>3 DEF Distinct
<1>6. Distinct(Rest(s))
  <2> SUFFICES ASSUME NEW j \in DOMAIN Rest(s), NEW k \in DOMAIN Rest(s),
                      Rest(s)[j].node = Rest(s)[k].node
               PROVE  j = k
    BY DEF Distinct
  <2>1. PICK i \in DOMAIN s : i = c + j /\ Rest(s)[j] = s[i]
    BY <1>3
  <2>2. PICK l \in DOMAIN s : l = c + k /\ Rest(s)[k] = s[l]
    BY <1>3
  <2>3. i = l
    BY <2>1, <2>2 DEF Distinct
  <2> QED
    BY <1>1, <1>4, <2>1, <2>2, <2>3
<1>7. ASSUME NEW j \in DOMAIN Chunk(s), NEW k \in DOMAIN Rest(s)
      PROVE  Chunk(s)[j].node # Rest(s)[k].node
  <2>1. PICK i \in DOMAIN s : i > c /\ Rest(s)[k] = s[i]
    BY <1>3
  <2>2. j \in DOMAIN s /\ j <= c /\ Chunk(s)[j] = s[j]
    BY <1>3
  <2>3. i # j
    BY <1>1, <1>2, <2>1, <2>2
  <2> QED
    BY <2>1, <2>2, <2>3 DEF Distinct
<1>8. NodesOf(Chunk(s)) \cap NodesOf(Rest(s)) = {}
  BY <1>7 DEF NodesOf
<1>9. \A i \in DOMAIN s : \/ \E j \in DOMAIN Chunk(s) : Chunk(s)[j] = s[i]
                          \/ \E j \in DOMAIN Rest(s) : Rest(s)[j] = s[i]
  BY <1>3
<1>10. NodesOf(Chunk(s)) \cup NodesOf(Rest(s)) = NodesOf(s)
  <2>1. \A j \in DOMAIN Chunk(s) : \E i \in DOMAIN s : Chunk(s)[j] = s[i]
    BY <1>3
  <2>2. \A j \in DOMAIN Rest(s) : \E i \in DOMAIN s : Rest(s)[j] = s[i]
    BY <1>3
  <2> QED
    BY <1>9, <2>1, <2>2 DEF NodesOf
<1> QED
  BY <1>5, <1>6, <1>8, <1>10

LEMMA TailIsDistinct ==
  ASSUME NEW X, NEW s \in Seq(X), s # <<>>, Distinct(s)
  PROVE  /\ Head(s) \in X /\ Tail(s) \in Seq(X) /\ Len(Tail(s)) <= Len(s) /\ Distinct(Tail(s))
         /\ NodesOf(s) = {Head(s).node} \cup NodesOf(Tail(s))
         /\ Head(s).node \notin NodesOf(Tail(s))
         /\ \E i \in DOMAIN s : s[i] = Head(s)
<1>1. PICK n \in Nat \ {0} : Len(s) = n /\ DOMAIN s = 1..n
  BY LenProperties, EmptySeq
<1> DEFINE t == Tail(s)
<1>2. /\ t \in Seq(X) /\ Len(t) = n - 1 /\ Head(s) \in X
      /\ \A i \in 1..Len(t) : t[i] = s[i + 1]
  BY <1>1, HeadTailProperties
<1>3. DOMAIN t = 1..(n - 1)
  BY <1>2, LenProperties
<1>4. Head(s) = s[1] /\ 1 \in 1..n
  BY <1>1
<1> HIDE DEF t
<1>5. \A i \in DOMAIN t : i + 1 \in 1..n /\ i + 1 # 1 /\ t[i] = s[i + 1]
  BY <1>2, <1>3
<1>6. Distinct(t)
  <2> SUFFICES ASSUME NEW j \in DOMAIN t, NEW k \in DOMAIN t, t[j].node = t[k].node
               PROVE  j = k
    BY DEF Distinct
  <2>1. j + 1 = k + 1
    BY <1>1, <1>5 DEF Distinct
  <2> QED
    BY <1>3, <2>1
<1>7. ASSUME NEW i \in 1..n PROVE i = 1 \/ \E j \in DOMAIN t : t[j] = s[i]
  <2>1. CASE i # 1
    <3>1. PICK j \in 1..(n - 1) : j + 1 = i
      BY <2>1
    <3> QED
      BY <1>3, <1>5, <3>1
  <2> QED
    BY <2>1
<1>8. NodesOf(s) = {Head(s).node} \cup NodesOf(t)
  <2>1. \A j \in DOMAIN t : \E i \in DOMAIN s : t[j] = s[i]
    BY <1>1, <1>5
  <2> QED
    BY <1>1, <1>4, <1>7, <2>1 DEF NodesOf
<1>9. Head(s).node \notin NodesOf(t)
  <2>1. \A j \in DOMAIN t : t[j].node # s[1].node
    BY <1>1, <1>4, <1>5 DEF Distinct
  <2> QED
    BY <1>4, <2>1 DEF NodesOf
<1>10. Len(t) <= Len(s)
  BY <1>1, <1>2
<1> QED
  BY <1>1, <1>2, <1>4, <1>6, <1>8, <1>9, <1>10 DEF t

LEMMA ConcatIsDistinct ==
  ASSUME NEW X, NEW s \in Seq(X), NEW t \in Seq(X)
  PROVE  /\ s \o t \in Seq(X)
         /\ NodesOf(s \o t) = NodesOf(s) \cup NodesOf(t)
         /\ Distinct(s) /\ Distinct(t) /\ NodesOf(s) \cap NodesOf(t) = {} => Distinct(s \o t)
<1>1. PICK m \in Nat : Len(s) = m /\ DOMAIN s = 1..m
  BY LenProperties
<1>2. PICK n \in Nat : Len(t) = n /\ DOMAIN t = 1..n
  BY LenProperties
<1> DEFINE u == s \o t
<1>3. /\ u \in Seq(X) /\ Len(u) = m + n
      /\ \A i \in 1..(m + n) : u[i] = IF i <= m THEN s[i] ELSE t[i - m]
  BY <1>1, <1>2, ConcatProperties
<1>4. DOMAIN u = 1..(m + n)
  BY <1>3, LenProperties
<1> HIDE DEF u
<1>5. ASSUME NEW i \in DOMAIN u
      PROVE  \/ i \in 1..m /\ u[i] = s[i]
             \/ \E j \in 1..n : i = m + j /\ u[i] = t[j]
  <2>1. CASE i <= m
    BY <1>3, <1>4, <2>1
  <2>2. CASE ~(i <= m)
    <3>1. PICK j \in 1..n : j = i - m
      BY <1>4, <2>2
    <3>2. i \in 1..(m + n) /\ i = m + j
      BY <1>4, <3>1
    <3>3. u[i] = t[j]
      BY <1>3, <2>2, <3>1, <3>2
    <3> QED
      BY <3>2, <3>3
  <2> QED
    BY <2>1, <2>2
<1>6. \A i \in 1..m : i \in DOMAIN u /\ u[i] = s[i]
  BY <1>3, <1>4
<1>7. ASSUME NEW j \in 1..n PROVE \E i \in DOMAIN u : u[i] = t[j]
  <2>1. PICK i \in 1..(m + n) : i = m + j
    OBVIOUS
  <2>2. ~(i <= m) /\ i - m = j
    BY <2>1
  <2> QED
    BY <1>3, <1>4, <2>2
<1>8. NodesOf(u) = NodesOf(s) \cup NodesOf(t)
  <2>1. \A i \in DOMAIN u : \/ \E j \in DOMAIN s : u[i] = s[j]
                            \/ \E j \in DOMAIN t : u[i] = t[j]
    BY <1>1, <1>2, <1>5
  <2>2. \A j \in DOMAIN s : \E i \in DOMAIN u : u[i] = s[j]
    BY <1>1, <1>6
  <2>3. \A j \in DOMAIN t : \E i \in DOMAIN u : u[i] = t[j]
    BY <1>2, <1>7
  <2> QED
    BY <2>1, <2>2, <2>3 DEF NodesOf
<1>9. ASSUME Distinct(s), Distinct(t), NodesOf(s) \cap NodesOf(t) = {}
      PROVE  Distinct(u)
  <2> SUFFICES ASSUME NEW j \in DOMAIN u, NEW k \in DOMAIN u, u[j].node = u[k].node
               PROVE  j = k
    BY DEF Distinct
  <2>1. \A x \in DOMAIN s, y \in DOMAIN t : s[x].node # t[y].node
    BY <1>9 DEF NodesOf
  <2>2. CASE j \in 1..m /\ k \in 1..m
    BY <1>1, <1>6, <1>9, <2>2 DEF Distinct
  <2>3. CASE j \in 1..m /\ k \notin 1..m
    BY <1>1, <1>2, <1>5, <1>6, <2>1, <2>3
  <2>4. CASE j \notin 1..m /\ k \in 1..m
    BY <1>1, <1>2, <1>5, <1>6, <2>1, <2>4
  <2>5. CASE j \notin 1..m /\ k \notin 1..m
    <3>1. PICK x \in 1..n : j = m + x /\ u[j] = t[x]
      BY <1>5, <2>5
    <3>2. PICK y \in 1..n : k = m + y /\ u[k] = t[y]
      BY <1>5, <2>5
    <3>3. x = y
      BY <1>2, <1>9, <3>1, <3>2 DEF Distinct
    <3> QED
      BY <3>1, <3>2, <3>3
  <2> QED
    BY <2>2, <2>3, <2>4, <2>5
<1> QED
  BY <1>3, <1>8, <1>9 DEF u

LEMMA AppendIsDistinct ==
  ASSUME NEW X, NEW s \in Seq(X), NEW x \in X
  PROVE  /\ Append(s, x) \in Seq(X)
         /\ NodesOf(Append(s, x)) = NodesOf(s) \cup {x.node}
         /\ Distinct(s) /\ x.node \notin NodesOf(s) => Distinct(Append(s, x))
<1>1. PICK n \in Nat : Len(s) = n /\ DOMAIN s = 1..n
  BY LenProperties
<1> DEFINE u == Append(s, x)
<1>2. /\ u \in Seq(X) /\ Len(u) = n + 1 /\ u[n + 1] = x
      /\ \A i \in 1..n : u[i] = s[i]
  BY <1>1, AppendProperties
<1>3. DOMAIN u = 1..(n + 1)
  BY <1>2, LenProperties
<1> HIDE DEF u
<1>4. \A i \in DOMAIN u : i = n + 1 \/ i \in 1..n
  BY <1>3
<1>5. n + 1 \in DOMAIN u /\ \A i \in 1..n : i \in DOMAIN u
  BY <1>3
<1>6. NodesOf(u) = NodesOf(s) \cup {x.node}
  BY <1>1, <1>2, <1>4, <1>5 DEF NodesOf
<1>7. Distinct(s) /\ x.node \notin NodesOf(s) => Distinct(u)
  BY <1>1, <1>2, <1>4, <1>5 DEF NodesOf, Distinct
<1> QED
  BY <1>2, <1>6, <1>7 DEF u

(* No more entries than nodes.                                              *)
LEMMA DistinctIsShort ==
  ASSUME NEW X, NEW s \in Seq(X), Distinct(s), NEW n \in Nat, NodesOf(s) \subseteq 1..n
  PROVE  Len(s) <= n
<1>1. PICK l \in Nat : Len(s) = l /\ DOMAIN s = 1..l
  BY LenProperties
<1> DEFINE f == [i \in 1..l |-> s[i].node]
<1>2. f \in [1..l -> 1..n]
  BY <1>1 DEF NodesOf
<1>3. \A i, j \in 1..l : f[i] = f[j] => i = j
  BY <1>1 DEF Distinct
<1>4. f \in Injection(1..l, 1..n)
  BY <1>2, <1>3 DEF Injection, IsInjective
<1>5. /\ IsFiniteSet(1..n) /\ Cardinality(1..n) = n
      /\ Cardinality(1..l) = l
  BY FS_Interval
<1>6. Cardinality(1..l) <= Cardinality(1..n)
  BY <1>4, <1>5, FS_Injection
<1> QED
  BY <1>1, <1>5, <1>6

-----------------------------------------------------------------------------
(* Documents: how nodes are held, recorded and entered.                     *)
LEMMA Nodes ==
  ASSUME NEW d \in Documents
  PROVE  /\ \E n \in Nat \ {0} : Len(d) = n /\ DOMAIN d = 1..n
         /\ 1 \in DOMAIN d /\ d[1].in = 0 /\ d[1].is \in {"object", "list"}
         /\ \A i \in DOMAIN d : d[i].key \in Key /\ i \in Nat
         /\ \A i \in DOMAIN d :
              i # 1 => /\ d[i].in \in DOMAIN d /\ d[i].in < i
                       /\ \/ d[d[i].in].is = "object"
                          \/ d[d[i].in].is = "list" /\ d[i].is # "list"
<1>1. IsDocument(d)
  BY ImportAssumption
<1> DEFINE X == [is : {"object", "list", Unset} \cup Value, in : Nat, key : Key]
<1>2. d \in Seq(X) /\ d # <<>>
  BY <1>1 DEF IsDocument
<1> HIDE DEF X
<1>3. PICK n \in Nat \ {0} : Len(d) = n /\ DOMAIN d = 1..n
  BY <1>2, LenProperties, EmptySeq
<1>4. \A i \in 1..n : d[i] \in X
  BY <1>2, <1>3, ElementOfSeq
<1>5. \A i \in 1..n : d[i].key \in Key /\ i \in Nat
  BY <1>4 DEF X
<1>6. \A i \in 2..n : /\ d[i].in \in 1..(i - 1)
                      /\ d[d[i].in].is = "object" \/ (d[d[i].in].is = "list" /\ d[i].is # "list")
  BY <1>1, <1>3 DEF IsDocument
<1>7. ASSUME NEW i \in 1..n, i # 1
      PROVE  /\ d[i].in \in 1..n /\ d[i].in < i
             /\ d[d[i].in].is = "object" \/ (d[d[i].in].is = "list" /\ d[i].is # "list")
  <2>1. i \in 2..n
    BY <1>7
  <2>2. d[i].in \in 1..(i - 1)
    BY <1>6, <2>1
  <2> QED
    BY <1>6, <2>1, <2>2
<1>8. 1 \in 1..n /\ d[1].in = 0 /\ d[1].is \in {"object", "list"}
  BY <1>1 DEF IsDocument
<1> QED
  BY <1>3, <1>5, <1>7, <1>8

LEMMA KeysAreUnique ==
  ASSUME NEW d \in Documents, NEW i \in DOMAIN d, NEW j \in DOMAIN d, i # 1, j # 1,
         d[i].in = d[j].in, d[d[i].in].is = "object", d[i].key = d[j].key
  PROVE  i = j
<1>1. IsDocument(d)
  BY ImportAssumption
<1>2. PICK n \in Nat \ {0} : Len(d) = n /\ DOMAIN d = 1..n
  BY Nodes
<1>3. \A x \in 2..n : d[d[x].in].is = "object" =>
        \A y \in 2..(x - 1) : d[y].in = d[x].in => d[y].key # d[x].key
  BY <1>1, <1>2 DEF IsDocument
<1>4. i \in 2..n /\ j \in 2..n
  BY <1>2
<1>5. ~(i < j)
  <2> SUFFICES ASSUME i < j PROVE FALSE
    OBVIOUS
  <2>1. i \in 2..(j - 1)
    BY <1>4
  <2> QED
    BY <1>3, <1>4, <2>1
<1>6. ~(j < i)
  <2> SUFFICES ASSUME j < i PROVE FALSE
    OBVIOUS
  <2>1. j \in 2..(i - 1)
    BY <1>4
  <2> QED
    BY <1>3, <1>4, <2>1
<1> QED
  BY <1>4, <1>5, <1>6

LEMMA NoScalar ==
  ASSUME NEW d, NEW i, d[i].is \in {"object", "list"}
  PROVE  ~Scalar(d, i)
  BY ImportAssumption DEF Scalar

LEMMA NodesAreFinite ==
  ASSUME NEW d \in Documents, NEW S \in SUBSET DOMAIN d
  PROVE  S \in SUBSET Nat /\ IsFiniteSet(S)
<1>1. PICK n \in Nat \ {0} : DOMAIN d = 1..n
  BY Nodes
<1> QED
  BY <1>1, PositionsAreFinite

LEMMA HeldAreNodes ==
  ASSUME NEW d, NEW i
  PROVE  Kids(d, i) \in SUBSET DOMAIN d /\ Held(d, i) \in SUBSET DOMAIN d
  BY DEF Kids, Held

(* The root is skipped, or recorded, or it is a list that is not empty.     *)
LEMMA RootsAreNodes ==
  ASSUME NEW d \in Documents, NEW label
  PROVE  /\ Roots(d) \in SUBSET DOMAIN d
         /\ d[1].is = "object" => Roots(d) = {1}
         /\ \A n \in Roots(d) : n # 1 => d[1].is = "list" /\ d[n].in = 1
         /\ 1 \in Roots(d) => d[1].is = "object" \/ Kids(d, 1) = {}
         /\ 1 \in Roots(d) => Roots(d) = {1}
<1>1. 1 \in DOMAIN d /\ 1 \notin Kids(d, 1) /\ Kids(d, 1) \in SUBSET DOMAIN d
  BY Nodes DEF Kids
<1>2. d[1].is \in {"object", "list"}
  BY Nodes
<1> QED
  BY <1>1, <1>2 DEF Roots, Kids

LEMMA WalkedAreNodes ==
  ASSUME NEW d \in Documents, NEW label, NEW n \in Walked(d, label)
  PROVE  /\ n \in DOMAIN d /\ n \in Nat \ {0}
         /\ d[n].is = "list" => Kids(d, n) = {}
<1>1. n \in DOMAIN d
  BY RootsAreNodes DEF Walked, Recorded
<1>2. n \in Nat \ {0}
  BY <1>1, Nodes
<1>3. d[n].is = "list" => Kids(d, n) = {}
  <2> SUFFICES ASSUME d[n].is = "list" PROVE Kids(d, n) = {}
    OBVIOUS
  <2>1. CASE n = 1
    BY <2>1, RootsAreNodes DEF Walked, Recorded
  <2>2. CASE n # 1
    <3>1. d[d[n].in].is = "list"
      BY <2>2, RootsAreNodes DEF Walked, Recorded
    <3> QED
      BY <1>1, <2>2, <3>1, Nodes
  <2> QED
    BY <2>1, <2>2
<1> QED
  BY <1>1, <1>2, <1>3

(* What a visit adds has its node around it, and is recorded.               *)
LEMMA HeldAreAround ==
  ASSUME NEW d \in Documents, NEW label, NEW h \in Walked(d, label), NEW n \in Held(d, h)
  PROVE  n \in Recorded(d, label) /\ n \notin Roots(d) /\ n # 1 /\ Around(d, n) = h
<1>1. h \in DOMAIN d /\ h # 0
  BY WalkedAreNodes
<1>2. PICK j \in Kids(d, h) :
        \/ j = n /\ d[n].is = "object"
        \/ n \in Kids(d, j) /\ d[j].is = "list" /\ Complex(d, j)
  BY DEF Held
<1>3. j \in DOMAIN d /\ d[j].in = h /\ j # 1
  BY <1>1, Nodes DEF Kids
<1>4. d[h].is = "object"
  BY <1>3, WalkedAreNodes, Nodes
<1>5. CASE j = n /\ d[n].is = "object"
  <2>1. Around(d, n) = h
    BY <1>3, <1>4, <1>5 DEF Around
  <2>2. n \notin Roots(d)
    BY <1>3, <1>4, <1>5, RootsAreNodes
  <2> QED
    BY <1>3, <1>5, <2>1, <2>2 DEF Recorded
<1>6. CASE n \in Kids(d, j) /\ d[j].is = "list" /\ Complex(d, j)
  <2>1. n \in DOMAIN d /\ d[n].in = j /\ n # 1
    BY <1>3, <1>6, Nodes DEF Kids
  <2>2. Around(d, n) = h
    BY <1>3, <1>6, <2>1 DEF Around
  <2>3. n \notin Roots(d)
    BY <1>3, <2>1, RootsAreNodes
  <2> QED
    BY <1>6, <2>1, <2>2, <2>3 DEF Recorded
<1> QED
  BY <1>2, <1>5, <1>6

(* Everything recorded is added by the visit of the node around it.         *)
LEMMA RecordedAreHeld ==
  ASSUME NEW d \in Documents, NEW label, NEW n \in Recorded(d, label), n \notin Roots(d)
  PROVE  /\ n # 1 /\ Around(d, n) \in Walked(d, label)
         /\ Around(d, n) < n /\ n \in Held(d, Around(d, n))
<1>1. n \in DOMAIN d
  BY DEF Recorded
<1>2. n # 1
  BY RootsAreNodes DEF Recorded
<1> DEFINE p == d[n].in
<1>3. p \in DOMAIN d /\ p < n /\ (d[p].is = "object" \/ d[p].is = "list") /\ n \in Kids(d, p)
  BY <1>1, <1>2, Nodes DEF Kids
<1>4. \A h \in DOMAIN d : d[h].is = "object" => h \in Walked(d, label)
  BY RootsAreNodes DEF Walked, Recorded
<1>5. CASE d[p].is = "object"
  <2>1. Around(d, n) = p /\ d[n].is = "object"
    BY <1>2, <1>5 DEF Around, Recorded
  <2> QED
    BY <1>2, <1>3, <1>4, <1>5, <2>1 DEF Held
<1>6. CASE d[p].is = "list"
  <2>1. p # 1
    BY <1>3, <1>6, RootsAreNodes DEF Roots
  <2>2. Around(d, n) = d[p].in
    BY <1>6 DEF Around
  <2>3. d[p].in \in DOMAIN d /\ d[p].in < p /\ d[d[p].in].is = "object"
    BY <1>3, <1>6, <2>1, Nodes
  <2>4. Complex(d, p)
    <3>1. d[n].is = "object" \/ Complex(d, p)
      BY <1>2, <2>1 DEF Recorded
    <3> QED
      BY <1>3, <1>6, <3>1, NoScalar DEF Complex
  <2>5. n \in Held(d, d[p].in)
    BY <1>3, <1>6, <2>4 DEF Held, Kids
  <2>6. d[p].in < n
    BY <1>1, <1>3, <2>3, Nodes
  <2> QED
    BY <1>2, <1>4, <2>2, <2>3, <2>5, <2>6
<1> QED
  BY <1>3, <1>5, <1>6

LEMMA EmptyListIsSkipped ==
  ASSUME NEW d \in Documents, NEW label, Kids(d, 1) = {}
  PROVE  SkipsRoot(d, label)
<1>1. {j \in Kids(d, 1) : Complex(d, j)} = {}
  OBVIOUS
<1>2. Cardinality({j \in Kids(d, 1) : Complex(d, j)}) <= 1
  BY <1>1, FS_EmptySet
<1> QED
  BY <1>2 DEF SkipsRoot

(* Only the root is skipped.                                                *)
LEMMA EntryIsRecorded ==
  ASSUME NEW d \in Documents, NEW label, NEW n \in Walked(d, label)
  PROVE  /\ EntryOf(d, label, n).node = n
         /\ EntryOf(d, label, n).skip \in BOOLEAN
         /\ ~EntryOf(d, label, n).skip <=> n \in Recorded(d, label)
         /\ n \notin Recorded(d, label) => n = 1 /\ 1 \in Roots(d) /\ SkipsRoot(d, label)
<1>1. EntryOf(d, label, n).node = n
  BY DEF EntryOf, Entry
<1>2. n \in DOMAIN d
  BY WalkedAreNodes
<1>3. CASE n \notin Roots(d)
  <2>1. n \in Recorded(d, label)
    BY <1>3 DEF Walked
  <2>2. EntryOf(d, label, n).skip = FALSE
    BY <1>3 DEF EntryOf, Entry
  <2> QED
    BY <1>1, <2>1, <2>2
<1>4. CASE n \in Roots(d) /\ n # 1
  <2>1. n \in Recorded(d, label)
    BY <1>2, <1>4, RootsAreNodes DEF Recorded
  <2>2. EntryOf(d, label, n).skip = FALSE
    BY <1>4 DEF EntryOf, Entry
  <2> QED
    BY <1>1, <2>1, <2>2
<1>5. CASE n \in Roots(d) /\ n = 1
  <2>1. EntryOf(d, label, n).skip = (n = 1 /\ SkipsRoot(d, label))
    BY <1>5 DEF EntryOf, Entry
  <2>2. d[1].is # "object" => SkipsRoot(d, label)
    BY <1>5, RootsAreNodes, EmptyListIsSkipped
  <2>3. n \in Recorded(d, label) <=> ~SkipsRoot(d, label)
    BY <1>2, <1>5, <2>2 DEF Recorded
  <2>4. SkipsRoot(d, label) \in BOOLEAN
    BY DEF SkipsRoot
  <2> QED
    BY <1>1, <1>5, <2>1, <2>3, <2>4
<1> QED
  BY <1>3, <1>4, <1>5

(* The parent of an entry is what its record is nested in.                  *)
LEMMA ParentIsAround ==
  ASSUME NEW d \in Documents, NEW label, NEW n \in Recorded(d, label)
  PROVE  LET parent == EntryOf(d, label, n).parent
         IN  /\ \A p \in NestedIn(d, label) : p[2] = n => p = <<parent, n>> /\ parent # 0
             /\ parent # 0 => <<parent, n>> \in NestedIn(d, label)
<1>1. n \in DOMAIN d /\ n \in Walked(d, label)
  BY DEF Recorded, Walked
<1> DEFINE parent == EntryOf(d, label, n).parent
<1>2. \A p \in NestedIn(d, label) :
        /\ p = <<p[1], p[2]>> /\ p[1] \in Recorded(d, label)
        /\ p[2] # 1 /\ Around(d, p[2]) = p[1]
  BY DEF NestedIn
<1>3. 0 \notin Recorded(d, label)
  BY Nodes DEF Recorded
<1>4. CASE n \in Roots(d)
  <2>1. parent = 0
    BY <1>4 DEF EntryOf, Entry
  <2>2. n # 1 => Around(d, n) = 0
    BY <1>4, RootsAreNodes, Nodes DEF Around
  <2> QED
    BY <1>2, <1>3, <2>1, <2>2
<1>5. CASE n \notin Roots(d)
  <2> DEFINE h == Around(d, n)
  <2>1. n # 1 /\ h \in Walked(d, label)
    BY <1>5, RecordedAreHeld
  <2>2. parent = IF h = 1 /\ SkipsRoot(d, label) THEN 0 ELSE h
    BY <1>5 DEF EntryOf, Entry
  <2>3. h # 0
    BY <2>1, WalkedAreNodes
  <2> HIDE DEF h
  <2>4. CASE h = 1 /\ SkipsRoot(d, label)
    <3>1. h \notin Recorded(d, label)
      BY <2>4 DEF Recorded
    <3> QED
      BY <1>2, <2>2, <2>4, <3>1 DEF h
  <2>5. CASE ~(h = 1 /\ SkipsRoot(d, label))
    <3>1. h \in Recorded(d, label)
      BY <2>1, <2>5, EntryIsRecorded
    <3>2. <<h, n>> \in NestedIn(d, label)
      BY <2>1, <3>1 DEF NestedIn, h
    <3> QED
      BY <1>2, <2>2, <2>3, <2>5, <3>2 DEF h
  <2> QED
    BY <2>4, <2>5
<1> QED
  BY <1>4, <1>5

(* A visit adds the entries of what it holds.                               *)
LEMMA HeldEntry ==
  ASSUME NEW d \in Documents, NEW label, NEW h \in Walked(d, label), NEW n \in Held(d, h)
  PROVE  Entry(n, KeyOf(d, n), ChildParent(EntryOf(d, label, h)), FALSE) = EntryOf(d, label, n)
<1>1. n \notin Roots(d) /\ Around(d, n) = h
  BY HeldAreAround
<1>2. EntryOf(d, label, n) =
        Entry(n, KeyOf(d, n), IF h = 1 /\ SkipsRoot(d, label) THEN 0 ELSE h, FALSE)
  BY <1>1 DEF EntryOf
<1>3. ChildParent(EntryOf(d, label, h)) = IF h = 1 /\ SkipsRoot(d, label) THEN 0 ELSE h
  <2>1. CASE h \in Recorded(d, label)
    <3>1. ~(h = 1 /\ SkipsRoot(d, label))
      BY <2>1 DEF Recorded
    <3> QED
      BY <2>1, <3>1, EntryIsRecorded DEF ChildParent
  <2>2. CASE h \notin Recorded(d, label)
    <3>1. h = 1 /\ 1 \in Roots(d) /\ SkipsRoot(d, label) /\ EntryOf(d, label, h).skip
      BY <2>2, EntryIsRecorded
    <3>2. EntryOf(d, label, h).parent = 0
      BY <3>1 DEF EntryOf, Entry
    <3> QED
      BY <3>1, <3>2 DEF ChildParent
  <2> QED
    BY <2>1, <2>2
<1> QED
  BY <1>2, <1>3

LEMMA LabelIsKey ==
  ASSUME NEW r, Valid(r), NEW n \in Recorded(r.doc, r.label)
  PROVE  EntryOf(r.doc, r.label, n).label \in Key
<1> DEFINE d == r.doc
<1>1. d \in Documents /\ (r.label # NoLabel => r.label \in Key)
  BY ImportAssumption DEF Valid
<1>2. r.label = NoLabel => ~RequiresLabel(d)
  BY DEF Valid
<1>3. CASE n \in Roots(d)
  <2>1. r.label # NoLabel
    <3>1. CASE n = 1
      BY <3>1 DEF Recorded, SkipsRoot
    <3>2. CASE n # 1
      BY <1>1, <1>2, <1>3, <3>2, RootsAreNodes DEF RequiresLabel
    <3> QED
      BY <3>1, <3>2
  <2> QED
    BY <1>1, <1>3, <2>1 DEF EntryOf, Entry
<1>4. CASE n \notin Roots(d)
  <2>1. n # 1 /\ n \in DOMAIN d
    BY <1>1, <1>4, RecordedAreHeld DEF Recorded
  <2>2. KeyOf(d, n) \in Key
    BY <1>1, <2>1, Nodes DEF KeyOf
  <2> QED
    BY <1>4, <2>2 DEF EntryOf, Entry
<1> QED
  BY <1>3, <1>4

(* The fields of a draft are the properties of its object.                  *)
LEMMA FieldsAreProperties ==
  ASSUME NEW d \in Documents, NEW i \in DOMAIN d
  PROVE  /\ DOMAIN Fields(d, i) \subseteq Key
         /\ DOMAIN Fields(d, i) = {} <=> PropertyNodes(d, i) = {}
         /\ \A j \in PropertyNodes(d, i) :
              /\ d[j].key \in DOMAIN Fields(d, i)
              /\ d[i].is = "object" => Fields(d, i)[d[j].key] = ValueOf(d, j)
<1>1. DOMAIN Fields(d, i) = {d[j].key : j \in PropertyNodes(d, i)}
  BY DEF Fields
<1>2. \A j \in PropertyNodes(d, i) : j \in DOMAIN d /\ j # 1 /\ d[j].in = i
  BY Nodes DEF PropertyNodes, Kids
<1>3. DOMAIN Fields(d, i) \subseteq Key
  BY <1>1, <1>2, Nodes
<1>4. ASSUME NEW j \in PropertyNodes(d, i), d[i].is = "object"
      PROVE  Fields(d, i)[d[j].key] = ValueOf(d, j)
  <2> DEFINE c == CHOOSE x \in PropertyNodes(d, i) : d[x].key = d[j].key
  <2>1. c \in PropertyNodes(d, i) /\ d[c].key = d[j].key
    OBVIOUS
  <2>2. Fields(d, i)[d[j].key] = ValueOf(d, c)
    BY DEF Fields
  <2> HIDE DEF c
  <2>3. c = j
    BY <1>2, <1>4, <2>1, KeysAreUnique
  <2> QED
    BY <2>2, <2>3
<1> QED
  BY <1>1, <1>3, <1>4

-----------------------------------------------------------------------------
(* Requests.                                                                *)
LEMMA StartIsValid ==
  ASSUME RequestInv, NewRequest \/ SendAgain
  PROVE  \E r : /\ Start(r) /\ Valid(r)
                /\ r.merge \in {"create", "append", "rewrite"} /\ r.by \in MergeBy \cup {{}}
<1>1. CASE NewRequest
  <2>1. PICK d \in Documents, l \in Label \cup {NoLabel},
             m \in {"create", "append", "rewrite"}, by \in MergeBy \cup {{}} :
          Start([doc |-> d, label |-> l, merge |-> m, by |-> by])
    BY <1>1, Zenon DEF NewRequest
  <2> DEFINE r == [doc |-> d, label |-> l, merge |-> m, by |-> by]
  <2>2. r.label = NoLabel => ~RequiresLabel(r.doc)
    BY <2>1, Zenon DEF Start
  <2> QED
    BY <2>1, <2>2 DEF Valid
<1>2. CASE SendAgain
  BY <1>2 DEF SendAgain, RequestInv
<1> QED
  BY <1>1, <1>2

LEMMA RequestStep == RequestInv /\ [Next]_vars => RequestInv'
<1> SUFFICES ASSUME RequestInv, [Next]_vars PROVE RequestInv'
  OBVIOUS
<1>0. MaxImports \in Nat /\ import \in 0..MaxImports
  BY ImportAssumption DEF RequestInv
<1>1. CASE NewRequest \/ SendAgain
  <2>1. PICK r : /\ Start(r) /\ Valid(r)
                 /\ r.merge \in {"create", "append", "rewrite"} /\ r.by \in MergeBy \cup {{}}
    BY <1>1, StartIsValid
  <2>2. import' \in 0..MaxImports /\ import' # 0
    BY <1>0, <2>1 DEF Start
  <2>3. request' = r /\ pc' = "walk" /\ resent' \in BOOLEAN
    BY <2>1 DEF Start
  <2> QED
    BY <2>1, <2>2, <2>3 DEF RequestInv, Valid
<1>2. CASE Work
  <2>1. /\ UNCHANGED <<import, request, resent>> /\ pc # "idle"
        /\ pc' \in {"walk", "write", "done", "failed"}
    BY <1>2 DEF Work, Visit, Allow, Deny, Send, Create, Merge, Link, Finish, Fail
  <2> QED
    BY <2>1 DEF RequestInv, Valid
<1>3. CASE UNCHANGED vars
  BY <1>3 DEF vars, RequestInv, Valid
<1> QED
  BY <1>1, <1>2, <1>3 DEF Next

(* What a step of the import itself leaves alone.                           *)
LEMMA WorkFrame ==
  ASSUME Work
  PROVE  /\ UNCHANGED <<import, request, resent, saved>>
         /\ pc \in {"walk", "write"}
         /\ Rec' = Rec /\ Nested' = Nested /\ (Upsert <=> Upsert') /\ (Retrying <=> Retrying')
<1>1. UNCHANGED <<import, request, resent, saved>> /\ pc \in {"walk", "write"}
  BY DEF Work, Visit, Allow, Deny, Send, Create, Merge, Link, Finish, Fail
<1> QED
  BY <1>1 DEF Rec, Nested, Upsert, Retrying

LEMMA ValidWhileWorking ==
  ASSUME RequestInv, pc # "idle"
  PROVE  Valid(request) /\ request.doc \in Documents /\ import \in Nat \ {0}
  BY DEF RequestInv, Valid

-----------------------------------------------------------------------------
(* The walk.                                                                *)
LEMMA InOrderIsDistinct ==
  ASSUME NEW X, NEW S, S \in SUBSET Nat, IsFiniteSet(S),
         NEW t \in [1..Cardinality(S) -> X],
         \A n \in 1..Cardinality(S) : t[n].node = InOrder(S)[n]
  PROVE  t \in Seq(X) /\ Distinct(t) /\ NodesOf(t) = S
<1>1. /\ Cardinality(S) \in Nat
      /\ InOrder(S) \in [1..Cardinality(S) -> S]
      /\ \A i \in S : \E n \in 1..Cardinality(S) : InOrder(S)[n] = i
  BY OrderEnumerates
<1>2. t \in Seq(X) /\ DOMAIN t = 1..Cardinality(S)
  BY <1>1
<1>3. \A n \in DOMAIN t : InOrder(S)[n] \in S /\ t[n].node = InOrder(S)[n]
  BY <1>1, <1>2
<1>4. Distinct(t)
  BY <1>2, <1>3, OrderIsInjective DEF Distinct
<1>5. NodesOf(t) = S
  <2>1. \A n \in DOMAIN t : t[n].node \in S
    BY <1>3
  <2>2. \A i \in S : \E n \in DOMAIN t : t[n].node = i
    <3> SUFFICES ASSUME NEW i \in S PROVE \E n \in DOMAIN t : t[n].node = i
      OBVIOUS
    <3>1. PICK n \in 1..Cardinality(S) : InOrder(S)[n] = i
      BY <1>1
    <3> QED
      BY <1>2, <1>3, <3>1
  <2> QED
    BY <2>1, <2>2 DEF NodesOf
<1> QED
  BY <1>2, <1>4, <1>5

LEMMA HeldEntriesAreEntries ==
  ASSUME NEW d \in Documents, NEW label, NEW h \in Walked(d, label), NEW t,
         t = HeldEntries(d, h, ChildParent(EntryOf(d, label, h)))
  PROVE  t \in Seq(Entries(d, label)) /\ Distinct(t) /\ NodesOf(t) = Held(d, h)
<1>0. PICK S : S = Held(d, h)
  OBVIOUS
<1>f. PICK f : f = [i \in S |-> EntryOf(d, label, i)]
  OBVIOUS
<1>1. S \in SUBSET Nat /\ IsFiniteSet(S)
  BY <1>0, HeldAreNodes, NodesAreFinite
<1>2. \A i \in S : i \in Walked(d, label)
  BY <1>0, HeldAreAround DEF Walked
<1>3. \A i \in S : f[i] \in Entries(d, label) /\ f[i].node = i
  BY <1>f, <1>2, EntryIsRecorded DEF Entries
<1>4. \A n \in 1..Cardinality(S) : InOrder(S)[n] \in S
  BY <1>1, OrderEnumerates
<1>5. \A n \in 1..Cardinality(S) :
        Entry(InOrder(S)[n], KeyOf(d, InOrder(S)[n]), ChildParent(EntryOf(d, label, h)), FALSE)
          = f[InOrder(S)[n]]
  BY <1>0, <1>f, <1>4, HeldEntry
<1>6. t = [n \in 1..Cardinality(S) |-> f[InOrder(S)[n]]]
  BY <1>0, <1>5 DEF HeldEntries
<1>7. t \in Seq(Entries(d, label)) /\ Distinct(t) /\ NodesOf(t) = S
  <2>1. t \in [1..Cardinality(S) -> Entries(d, label)]
    BY <1>3, <1>4, <1>6
  <2>2. \A n \in 1..Cardinality(S) : t[n].node = InOrder(S)[n]
    BY <1>3, <1>4, <1>6
  <2> QED
    BY <1>1, <2>1, <2>2, InOrderIsDistinct
<1> QED
  BY <1>0, <1>7

LEMMA RootEntriesAreEntries ==
  ASSUME NEW d \in Documents, NEW label
  PROVE  /\ RootEntries(d, label) \in Seq(Entries(d, label))
         /\ Distinct(RootEntries(d, label)) /\ NodesOf(RootEntries(d, label)) = Roots(d)
<1>0. PICK t : t = RootEntries(d, label)
  OBVIOUS
<1>1. CASE d[1].is = "list" /\ Kids(d, 1) # {}
  <2>0. PICK S : S = Kids(d, 1)
    OBVIOUS
  <2>f. PICK f : f = [i \in S |-> EntryOf(d, label, i)]
    OBVIOUS
  <2>1. Roots(d) = S /\ 1 \notin S
    BY <1>1, <2>0, Nodes DEF Roots, Kids
  <2>2. S \in SUBSET Nat /\ IsFiniteSet(S)
    BY <2>0, HeldAreNodes, NodesAreFinite
  <2>3. \A i \in S : i \in Walked(d, label)
    BY <2>1 DEF Walked
  <2>4. \A i \in S : f[i] \in Entries(d, label) /\ f[i].node = i
    BY <2>f, <2>3, EntryIsRecorded DEF Entries
  <2>5. \A i \in S : f[i] = Entry(i, label, 0, FALSE)
    BY <2>f, <2>1 DEF EntryOf
  <2>6. \A n \in 1..Cardinality(S) : InOrder(S)[n] \in S
    BY <2>2, OrderEnumerates
  <2>7. \A n \in 1..Cardinality(S) : Entry(InOrder(S)[n], label, 0, FALSE) = f[InOrder(S)[n]]
    BY <2>5, <2>6
  <2>8. t = [n \in 1..Cardinality(S) |-> f[InOrder(S)[n]]]
    BY <1>0, <1>1, <2>0, <2>7 DEF RootEntries
  <2>9. t \in Seq(Entries(d, label)) /\ Distinct(t) /\ NodesOf(t) = S
    <3>1. t \in [1..Cardinality(S) -> Entries(d, label)]
      BY <2>4, <2>6, <2>8
    <3>2. \A n \in 1..Cardinality(S) : t[n].node = InOrder(S)[n]
      BY <2>4, <2>6, <2>8
    <3> QED
      BY <2>2, <3>1, <3>2, InOrderIsDistinct
  <2> QED
    BY <1>0, <2>1, <2>9
<1>2. CASE ~(d[1].is = "list" /\ Kids(d, 1) # {})
  <2>1. Roots(d) = {1} /\ 1 \in Walked(d, label)
    BY <1>2 DEF Roots, Walked
  <2>2. t = <<EntryOf(d, label, 1)>>
    <3>1. RootEntries(d, label) = <<Entry(1, label, 0, SkipsRoot(d, label))>>
      BY <1>2 DEF RootEntries
    <3>2. EntryOf(d, label, 1) = Entry(1, label, 0, SkipsRoot(d, label))
      <4>1. SkipsRoot(d, label) = (1 = 1 /\ SkipsRoot(d, label))
        BY DEF SkipsRoot
      <4>2. EntryOf(d, label, 1) = Entry(1, label, 0, 1 = 1 /\ SkipsRoot(d, label))
        BY <2>1 DEF EntryOf
      <4> QED
        BY <4>1, <4>2, Zenon
    <3> QED
      BY <1>0, <3>1, <3>2
  <2>3. EntryOf(d, label, 1) \in Entries(d, label) /\ EntryOf(d, label, 1).node = 1
    BY <2>1, EntryIsRecorded DEF Entries
  <2>4. /\ t \in Seq(Entries(d, label)) /\ DOMAIN t = {1} /\ t[1] = EntryOf(d, label, 1)
    BY <2>2, <2>3
  <2>5. Distinct(t)
    BY <2>4 DEF Distinct
  <2>6. NodesOf(t) = {1}
    BY <2>3, <2>4 DEF NodesOf
  <2> QED
    BY <1>0, <2>1, <2>4, <2>5, <2>6
<1> QED
  BY <1>0, <1>1, <1>2

LEMMA AppendElements ==
  ASSUME NEW X, NEW s \in Seq(X), NEW x \in X
  PROVE  Append(s, x) \in Seq(X) /\ Elements(Append(s, x)) = Elements(s) \cup {x}
<1>1. PICK n \in Nat : Len(s) = n /\ DOMAIN s = 1..n
  BY LenProperties
<1>2. PICK u : u = Append(s, x)
  OBVIOUS
<1>3. /\ u \in Seq(X) /\ Len(u) = n + 1 /\ u[n + 1] = x
      /\ \A i \in 1..n : u[i] = s[i]
  BY <1>1, <1>2, AppendProperties
<1>4. DOMAIN u = 1..(n + 1)
  BY <1>3, LenProperties
<1>5. \A i \in DOMAIN u : u[i] = x \/ (i \in DOMAIN s /\ u[i] = s[i])
  BY <1>1, <1>3, <1>4
<1>6. \A i \in DOMAIN s : i \in DOMAIN u /\ u[i] = s[i]
  BY <1>1, <1>3, <1>4
<1>7. n + 1 \in DOMAIN u
  BY <1>4
<1>8. Elements(u) = Elements(s) \cup {x}
  BY <1>3, <1>5, <1>6, <1>7 DEF Elements
<1> QED
  BY <1>2, <1>3, <1>8

LEMMA EntriesAreOfNodes ==
  ASSUME NEW d \in Documents, NEW label, NEW e \in Entries(d, label)
  PROVE  e.node \in Walked(d, label) /\ e = EntryOf(d, label, e.node)
<1>1. PICK n \in Walked(d, label) : e = EntryOf(d, label, n)
  BY DEF Entries
<1>2. e.node = n
  BY <1>1, EntryIsRecorded
<1> QED
  BY <1>1, <1>2

(* The nodes of the queue and those visited, when h has its turn.           *)
LEMMA TurnOf ==
  ASSUME NEW d, NEW h, NEW queued, NEW visited, NEW rest,
         queued = {h} \cup rest, h \notin rest, queued \cap visited = {},
         Roots(d) \subseteq queued \cup visited,
         \A v \in visited : Held(d, v) \subseteq queued \cup visited,
         \A n \in queued \cup visited : n \in Roots(d) \/ Around(d, n) \in visited,
         \A n \in Held(d, h) : n \notin Roots(d) /\ Around(d, n) = h
  PROVE  LET now == rest \cup Held(d, h)
             gone == visited \cup {h}
         IN  /\ Held(d, h) \cap (queued \cup visited) = {}
             /\ now \cap gone = {} /\ Roots(d) \subseteq now \cup gone
             /\ \A v \in gone : Held(d, v) \subseteq now \cup gone
             /\ \A n \in now \cup gone : n \in Roots(d) \/ Around(d, n) \in gone
<1>1. Held(d, h) \cap (queued \cup visited) = {}
  OBVIOUS
<1> QED
  BY <1>1

LEMMA VisitStep ==
  ASSUME RequestInv, SequencesInv, WalkInv, Visit
  PROVE  SequencesInv' /\ WalkInv' /\ pc' \in {"walk", "failed"}
<1>1. PICK d, label : d = request.doc /\ label = request.label
  OBVIOUS
<1>2. PICK e, h : e = Head(queue) /\ h = e.node
  OBVIOUS
<1>3. /\ pc = "walk" /\ queue # <<>> /\ d \in Documents
      /\ UNCHANGED <<request, chunk, rows, home>>
      /\ request'.doc = d /\ request'.label = label
  BY <1>1, ValidWhileWorking DEF Visit, writeVars
<1>4. /\ queue \in Seq(Entries(d, label)) /\ Distinct(queue)
      /\ chunk = <<>> /\ rows = <<>> /\ DOMAIN home = {}
      /\ NodesOf(queue) \cap Visited = {}
      /\ Roots(d) \subseteq NodesOf(queue) \cup Visited
      /\ \A v \in Visited : Held(d, v) \subseteq NodesOf(queue) \cup Visited
      /\ \A n \in NodesOf(queue) \cup Visited : n \in Roots(d) \/ Around(d, n) \in Visited
      /\ \A p \in NestedIn(d, label) : p[2] \in NodesOf(drafts) => p \in Elements(relations)
  BY <1>1, <1>3, Zenon DEF WalkInv, Nested
<1>5. /\ drafts \in Seq(Drafts(d, label)) /\ Distinct(drafts)
      /\ relations \in Seq(NestedIn(d, label))
  BY <1>1 DEF SequencesInv, Nested
<1>6. CASE d[h].is = Unset
  <2>1. pc' = "failed" /\ UNCHANGED <<drafts, relations>>
    BY <1>1, <1>2, <1>6 DEF Visit, walkVars
  <2> QED
    BY <1>3, <2>1 DEF SequencesInv, WalkInv, Nested
<1>7. CASE d[h].is # Unset
  <2>1. /\ pc' = "walk"
        /\ queue' = Tail(queue) \o HeldEntries(d, h, ChildParent(e))
        /\ e.skip => drafts' = drafts /\ relations' = relations
        /\ ~e.skip =>
             /\ drafts' = Append(drafts, [node |-> h, label |-> e.label, fields |-> Fields(d, h)])
             /\ relations' = IF e.parent = 0 THEN relations ELSE Append(relations, <<e.parent, h>>)
    BY <1>1, <1>2, <1>3, <1>7 DEF Visit
  <2>2. /\ e \in Entries(d, label) /\ Tail(queue) \in Seq(Entries(d, label))
        /\ Distinct(Tail(queue))
        /\ NodesOf(queue) = {h} \cup NodesOf(Tail(queue)) /\ h \notin NodesOf(Tail(queue))
    BY <1>2, <1>3, <1>4, TailIsDistinct
  <2>3. h \in Walked(d, label) /\ e = EntryOf(d, label, h)
    BY <1>2, <1>3, <2>2, EntriesAreOfNodes
  <2>4. PICK t : t = HeldEntries(d, h, ChildParent(e))
    OBVIOUS
  <2>5. t \in Seq(Entries(d, label)) /\ Distinct(t) /\ NodesOf(t) = Held(d, h)
    BY <1>3, <2>3, <2>4, HeldEntriesAreEntries
  <2>6. \A n \in Held(d, h) : n \notin Roots(d) /\ n # 1 /\ Around(d, n) = h
    BY <1>3, <2>3, HeldAreAround
  <2>7. PICK queued, visited, rest :
          queued = NodesOf(queue) /\ visited = Visited /\ rest = NodesOf(Tail(queue))
    OBVIOUS
  <2>8. PICK now, gone : now = rest \cup Held(d, h) /\ gone = visited \cup {h}
    OBVIOUS
  <2>9. /\ Held(d, h) \cap (queued \cup visited) = {}
        /\ now \cap gone = {} /\ Roots(d) \subseteq now \cup gone
        /\ \A v \in gone : Held(d, v) \subseteq now \cup gone
        /\ \A n \in now \cup gone : n \in Roots(d) \/ Around(d, n) \in gone
    <3>1. /\ queued = {h} \cup rest /\ h \notin rest /\ queued \cap visited = {}
          /\ Roots(d) \subseteq queued \cup visited
          /\ \A v \in visited : Held(d, v) \subseteq queued \cup visited
          /\ \A n \in queued \cup visited : n \in Roots(d) \/ Around(d, n) \in visited
      BY <1>4, <2>2, <2>7
    <3> QED
      BY <2>6, <2>8, <3>1, TurnOf
  <2>10. queue' \in Seq(Entries(d, label)) /\ Distinct(queue') /\ NodesOf(queue') = now
    <3>1. NodesOf(Tail(queue)) \cap NodesOf(t) = {}
      BY <2>2, <2>5, <2>7, <2>9
    <3>2. queue' = Tail(queue) \o t
      BY <2>1, <2>4
    <3>3. PICK X, s : X = Entries(d, label) /\ s = Tail(queue)
      OBVIOUS
    <3>4. /\ s \in Seq(X) /\ t \in Seq(X) /\ Distinct(s) /\ Distinct(t)
          /\ NodesOf(s) \cap NodesOf(t) = {}
      BY <2>2, <2>5, <3>1, <3>3
    <3>5. s \o t \in Seq(X) /\ NodesOf(s \o t) = NodesOf(s) \cup NodesOf(t) /\ Distinct(s \o t)
      BY <3>4, ConcatIsDistinct
    <3> QED
      BY <2>5, <2>7, <2>8, <3>2, <3>3, <3>5
  <2>11. /\ e.skip \in BOOLEAN /\ (~e.skip <=> h \in Recorded(d, label))
         /\ h \notin Recorded(d, label) => h = 1 /\ 1 \in Roots(d) /\ SkipsRoot(d, label)
         /\ h = 1 /\ h \in Recorded(d, label) => ~SkipsRoot(d, label)
    BY <1>3, <2>3, EntryIsRecorded DEF Recorded
  <2>12. NodesOf(drafts) \subseteq visited /\ h \in queued /\ h \notin visited
         /\ h \notin now /\ h \notin rest /\ rest \subseteq queued
    BY <1>4, <2>2, <2>6, <2>7, <2>8, <2>9 DEF Visited
  <2>13. /\ visited = NodesOf(drafts) \cup
                        IF 1 \in Roots(d) /\ SkipsRoot(d, label) THEN {1} \ queued ELSE {}
         /\ Visited' = NodesOf(drafts') \cup
                         IF 1 \in Roots(d) /\ SkipsRoot(d, label) THEN {1} \ now ELSE {}
    BY <1>1, <1>3, <2>7, <2>10 DEF Visited
  <2>14. CASE e.skip
    <3>1. h = 1 /\ 1 \in Roots(d) /\ SkipsRoot(d, label) /\ drafts' = drafts /\ relations' = relations
      BY <2>1, <2>11, <2>14
    <3>2. Visited' = gone
      BY <2>8, <2>12, <2>13, <3>1
    <3>3. WalkInv'
      BY <1>3, <1>4, <2>9, <2>10, <3>1, <3>2 DEF WalkInv, Nested
    <3> QED
      BY <1>3, <1>5, <2>1, <3>1, <3>3 DEF SequencesInv, Nested
  <2>15. CASE ~e.skip
    <3>1. PICK x : x = [node |-> h, label |-> e.label, fields |-> Fields(d, h)]
      OBVIOUS
    <3>2. x \in Drafts(d, label) /\ x.node = h /\ h \in Recorded(d, label)
      BY <2>3, <2>11, <2>15, <3>1 DEF Drafts, DraftOf
    <3>3. drafts' = Append(drafts, x)
      BY <2>1, <2>15, <3>1
    <3>4. /\ drafts' \in Seq(Drafts(d, label)) /\ Distinct(drafts')
          /\ NodesOf(drafts') = NodesOf(drafts) \cup {h}
      BY <1>5, <2>12, <3>2, <3>3, AppendIsDistinct
    <3>5. Visited' = gone
      <4>1. 1 \in Roots(d) /\ SkipsRoot(d, label) => (1 \in now <=> 1 \in queued)
        BY <2>2, <2>6, <2>7, <2>8, <2>11, <3>2
      <4> QED
        BY <2>8, <2>13, <3>4, <4>1
    <3>6. /\ relations' \in Seq(NestedIn(d, label))
          /\ \A p \in NestedIn(d, label) : p[2] \in NodesOf(drafts') => p \in Elements(relations')
      <4>1. /\ \A p \in NestedIn(d, label) : p[2] = h => p = <<e.parent, h>> /\ e.parent # 0
            /\ e.parent # 0 => <<e.parent, h>> \in NestedIn(d, label)
        BY <1>3, <2>3, <3>2, ParentIsAround
      <4>2. CASE e.parent = 0
        BY <1>4, <1>5, <2>1, <2>15, <3>4, <4>1, <4>2
      <4>3. CASE e.parent # 0
        <5>1. relations' = Append(relations, <<e.parent, h>>)
          BY <2>1, <2>15, <4>3
        <5>2. /\ relations' \in Seq(NestedIn(d, label))
              /\ Elements(relations') = Elements(relations) \cup {<<e.parent, h>>}
          <6>1. PICK X, y : X = NestedIn(d, label) /\ y = <<e.parent, h>>
            OBVIOUS
          <6>2. relations \in Seq(X) /\ y \in X
            BY <1>5, <4>1, <4>3, <6>1
          <6>3. /\ Append(relations, y) \in Seq(X)
                /\ Elements(Append(relations, y)) = Elements(relations) \cup {y}
            BY <6>2, AppendElements
          <6> QED
            BY <5>1, <6>1, <6>3
        <5> QED
          BY <1>4, <3>4, <4>1, <5>2
      <4> QED
        BY <4>2, <4>3
    <3>7. WalkInv'
      BY <1>3, <1>4, <2>9, <2>10, <3>5, <3>6 DEF WalkInv, Nested
    <3> QED
      BY <1>3, <2>1, <3>4, <3>6, <3>7, <1>5 DEF SequencesInv, Nested
  <2> QED
    BY <2>11, <2>14, <2>15
<1> QED
  BY <1>6, <1>7

(* Drafts are of recorded nodes.                                            *)
LEMMA DraftsAreOfNodes ==
  ASSUME NEW d, NEW label, NEW s \in Seq(Drafts(d, label))
  PROVE  /\ NodesOf(s) \subseteq Recorded(d, label)
         /\ \A i \in DOMAIN s : s[i] = DraftOf(d, label, s[i].node)
<1>1. \A i \in DOMAIN s : s[i] \in Drafts(d, label)
  BY ElementOfSeq, LenProperties
<1>2. \A x \in Drafts(d, label) : x.node \in Recorded(d, label) /\ x = DraftOf(d, label, x.node)
  BY DEF Drafts, DraftOf
<1> QED
  BY <1>1, <1>2 DEF NodesOf

(* When the queue is empty the walk has come to everything.                 *)
LEMMA WalkEnds ==
  ASSUME RequestInv, SequencesInv, WalkInv, pc = "walk", queue = <<>>
  PROVE  /\ NodesOf(drafts) = Rec /\ NodesOf(chunk) = {} /\ NodesOf(rows) = {} /\ DOMAIN home = {}
         /\ \A p \in Nested : p \in Elements(relations)
<1>1. PICK d, label : d = request.doc /\ label = request.label
  OBVIOUS
<1>2. PICK visited : visited = Visited
  OBVIOUS
<1>3. NodesOf(queue) = {}
  BY DEF NodesOf
<1>4. /\ d \in Documents /\ drafts \in Seq(Drafts(d, label))
      /\ chunk = <<>> /\ rows = <<>> /\ DOMAIN home = {}
      /\ Roots(d) \subseteq visited
      /\ \A v \in visited : Held(d, v) \subseteq visited
      /\ \A p \in Nested : p[2] \in NodesOf(drafts) => p \in Elements(relations)
  <2>1. d \in Documents /\ drafts \in Seq(Drafts(d, label))
    BY <1>1, ValidWhileWorking DEF SequencesInv
  <2>2. PICK reached : reached = NodesOf(queue) \cup Visited
    OBVIOUS
  <2>3. reached = visited
    BY <1>2, <1>3, <2>2
  <2> QED
    BY <1>1, <1>2, <2>1, <2>2, <2>3 DEF WalkInv
<1>5. Walked(d, label) \subseteq visited
  <2> DEFINE S == Walked(d, label) \ visited
  <2>1. S \in SUBSET DOMAIN d
    BY <1>4, WalkedAreNodes
  <2>2. S \in SUBSET Nat /\ IsFiniteSet(S)
    BY <1>4, <2>1, NodesAreFinite
  <2> HIDE DEF S
  <2>3. CASE S # {}
    <3>1. PICK m \in S : \A i \in S : m <= i
      BY <2>2, <2>3, Least
    <3>2. m \in Recorded(d, label) /\ m \notin Roots(d)
      BY <1>4, <3>1 DEF S, Walked
    <3>3. /\ Around(d, m) \in Walked(d, label) /\ Around(d, m) < m
          /\ m \in Held(d, Around(d, m))
      BY <1>4, <3>2, RecordedAreHeld
    <3>4. Around(d, m) \notin S /\ Around(d, m) \in Nat
      BY <1>4, <2>2, <3>1, <3>3, WalkedAreNodes
    <3> QED
      BY <1>4, <3>1, <3>3, <3>4 DEF S
  <2> QED
    BY <2>3 DEF S
<1>6. Rec = Recorded(d, label) /\ Rec \subseteq Walked(d, label)
  BY <1>1 DEF Rec, Walked
<1>7. NodesOf(drafts) = Rec
  <2>1. \A n \in Rec : n \in NodesOf(drafts)
    BY <1>1, <1>2, <1>5, <1>6 DEF Visited, Recorded
  <2> QED
    BY <1>4, <1>6, <2>1, DraftsAreOfNodes
<1>8. \A p \in Nested : p[2] \in Rec
  BY DEF Nested, NestedIn, Rec
<1> QED
  BY <1>4, <1>7, <1>8 DEF NodesOf

-----------------------------------------------------------------------------
(* The statements: which drafts a step takes, and where they go.            *)
LEMMA SendTakes ==
  ASSUME SequencesInv, Send
  PROVE  \E open :
           /\ open \in Seq(Drafts(request.doc, request.label)) /\ Len(open) <= ChunkSize
           /\ Distinct(open)
           /\ NodesOf(rows') \cap NodesOf(chunk') = {}
           /\ NodesOf(rows') \cup NodesOf(chunk') = NodesOf(open)
           /\ rows' \in Seq(Drafts(request.doc, request.label)) /\ Distinct(rows')
           /\ chunk' \in Seq(Drafts(request.doc, request.label)) /\ Distinct(chunk')
           /\ drafts' \in Seq(Drafts(request.doc, request.label)) /\ Distinct(drafts')
           /\ Len(rows') <= ChunkSize /\ Len(chunk') <= ChunkSize
           /\ \/ open = chunk /\ drafts' = drafts
              \/ /\ chunk = <<>> /\ NodesOf(open) \cap NodesOf(drafts') = {}
                 /\ NodesOf(open) \cup NodesOf(drafts') = NodesOf(drafts)
<1>1. PICK X : X = Drafts(request.doc, request.label)
  OBVIOUS
<1>2. PICK open : open = IF chunk # <<>> THEN chunk ELSE Chunk(drafts)
  OBVIOUS
<1>3. PICK group : group = {n \in DOMAIN open : Upsert => open[n].label = open[1].label}
  OBVIOUS
<1>4. PICK other : other = DOMAIN open \ group
  OBVIOUS
<1>5. rows' = Pick(open, group) /\ chunk' = Pick(open, other)
  BY <1>2, <1>3, <1>4 DEF Send
<1>6. /\ drafts \in Seq(X) /\ Distinct(drafts) /\ chunk \in Seq(X) /\ Distinct(chunk)
      /\ Len(chunk) <= ChunkSize
  BY <1>1 DEF SequencesInv
<1>7. /\ open \in Seq(X) /\ Distinct(open) /\ Len(open) <= ChunkSize
      /\ drafts' \in Seq(X) /\ Distinct(drafts')
      /\ \/ open = chunk /\ drafts' = drafts
         \/ /\ chunk = <<>> /\ NodesOf(open) \cap NodesOf(drafts') = {}
            /\ NodesOf(open) \cup NodesOf(drafts') = NodesOf(drafts)
  <2>1. CASE chunk # <<>>
    BY <1>2, <1>6, <2>1 DEF Send
  <2>2. CASE chunk = <<>>
    <3>1. drafts # <<>> /\ drafts' = Rest(drafts) /\ open = Chunk(drafts)
      BY <1>2, <2>2 DEF Send
    <3>2. /\ Chunk(drafts) \in Seq(X) /\ Rest(drafts) \in Seq(X) /\ Len(Chunk(drafts)) <= ChunkSize
      BY <1>6, <3>1, ChunkProperties
    <3>3. /\ Distinct(Chunk(drafts)) /\ Distinct(Rest(drafts))
          /\ NodesOf(Chunk(drafts)) \cap NodesOf(Rest(drafts)) = {}
          /\ NodesOf(Chunk(drafts)) \cup NodesOf(Rest(drafts)) = NodesOf(drafts)
      BY <1>6, <3>1, ChunkIsDistinct
    <3> QED
      BY <2>2, <3>1, <3>2, <3>3
  <2> QED
    BY <2>1, <2>2
<1>8. group \in SUBSET DOMAIN open /\ other \in SUBSET DOMAIN open
  BY <1>3, <1>4
<1>9. /\ rows' \in Seq(X) /\ Len(rows') <= Len(open)
      /\ chunk' \in Seq(X) /\ Len(chunk') <= Len(open)
  BY <1>5, <1>7, <1>8, PickProperties
<1>10. /\ Distinct(rows') /\ NodesOf(rows') = {open[i].node : i \in group}
       /\ Distinct(chunk') /\ NodesOf(chunk') = {open[i].node : i \in other}
  BY <1>5, <1>7, <1>8, PickIsDistinct
<1>11. Len(rows') <= ChunkSize /\ Len(chunk') <= ChunkSize
  <2>1. PICK a \in Nat, b \in Nat, n \in Nat, c \in Nat :
          a = Len(rows') /\ b = Len(chunk') /\ n = Len(open) /\ c = ChunkSize
    BY <1>7, <1>9, ImportAssumption, LenProperties
  <2> QED
    BY <1>7, <1>9, <2>1
<1>12. NodesOf(rows') \cap NodesOf(chunk') = {}
  BY <1>4, <1>7, <1>8, <1>10 DEF Distinct
<1>13. NodesOf(rows') \cup NodesOf(chunk') = NodesOf(open)
  BY <1>4, <1>8, <1>10 DEF NodesOf
<1> QED
  BY <1>1, <1>7, <1>9, <1>10, <1>11, <1>12, <1>13

LEMMA EmptySequences ==
  ASSUME NEW X
  PROVE  <<>> \in Seq(X) /\ Distinct(<<>>) /\ NodesOf(<<>>) = {} /\ Len(<<>>) <= ChunkSize
BY ImportAssumption DEF Distinct, NodesOf

(* The row a statement writes next.                                         *)
LEMMA RowTaken ==
  ASSUME RequestInv, SequencesInv, DraftsInv, pc = "write", rows # <<>>, rows' = Tail(rows)
  PROVE  LET n == Head(rows).node
         IN  /\ n \in Rec /\ n \notin DOMAIN home
             /\ Head(rows) = DraftOf(request.doc, request.label, n)
             /\ rows' \in Seq(Drafts(request.doc, request.label)) /\ Distinct(rows')
             /\ Len(rows') <= ChunkSize
             /\ NodesOf(rows) = {n} \cup NodesOf(rows') /\ n \notin NodesOf(rows')
<1>1. PICK X : X = Drafts(request.doc, request.label)
  OBVIOUS
<1>2. rows \in Seq(X) /\ Distinct(rows) /\ Len(rows) <= ChunkSize
  BY <1>1 DEF SequencesInv
<1>3. /\ Head(rows) \in X /\ Tail(rows) \in Seq(X) /\ Len(Tail(rows)) <= Len(rows)
      /\ Distinct(Tail(rows))
      /\ NodesOf(rows) = {Head(rows).node} \cup NodesOf(Tail(rows))
      /\ Head(rows).node \notin NodesOf(Tail(rows))
  BY <1>2, TailIsDistinct
<1>4. Len(rows') <= ChunkSize
  <2>1. PICK a \in Nat, n \in Nat, c \in Nat : a = Len(rows') /\ n = Len(rows) /\ c = ChunkSize
    BY <1>2, <1>3, ImportAssumption, LenProperties
  <2> QED
    BY <1>2, <1>3, <2>1
<1>5. PICK n \in Rec : Head(rows) = DraftOf(request.doc, request.label, n)
  BY <1>1, <1>3 DEF Drafts, Rec
<1>6. Head(rows).node = n
  BY <1>5 DEF DraftOf
<1>7. n \notin DOMAIN home
  BY <1>3, <1>6 DEF DraftsInv, Writing
<1> QED
  BY <1>1, <1>3, <1>4, <1>5, <1>6, <1>7

LEMMA SequencesStep ==
  RequestInv /\ SequencesInv /\ WalkInv /\ DraftsInv /\ [Next]_vars => SequencesInv'
<1> SUFFICES ASSUME RequestInv, SequencesInv, WalkInv, DraftsInv, [Next]_vars PROVE SequencesInv'
  OBVIOUS
<1>1. CASE NewRequest \/ SendAgain
  <2>1. PICK r : Start(r)
    BY <1>1, StartIsValid
  <2>2. drafts' = <<>> /\ relations' = <<>> /\ chunk' = <<>> /\ rows' = <<>>
    BY <2>1 DEF Start
  <2> QED
    BY <2>2, EmptySequences DEF SequencesInv
<1>2. CASE Visit
  BY <1>2, VisitStep
<1>3. CASE Send
  <2>1. UNCHANGED <<request, relations>>
    BY <1>3 DEF Send
  <2>2. /\ drafts' \in Seq(Drafts(request.doc, request.label)) /\ Distinct(drafts')
        /\ chunk' \in Seq(Drafts(request.doc, request.label)) /\ Distinct(chunk')
        /\ rows' \in Seq(Drafts(request.doc, request.label)) /\ Distinct(rows')
        /\ Len(chunk') <= ChunkSize /\ Len(rows') <= ChunkSize
    BY <1>3, SendTakes
  <2> QED
    BY <2>1, <2>2 DEF SequencesInv, Nested
<1>4. CASE Create \/ Merge
  <2>1. /\ UNCHANGED <<request, relations, drafts, chunk>>
        /\ pc = "write" /\ rows # <<>> /\ rows' = Tail(rows)
    BY <1>4 DEF Create, Merge, walkVars
  <2>2. /\ rows' \in Seq(Drafts(request.doc, request.label)) /\ Distinct(rows')
        /\ Len(rows') <= ChunkSize
    BY <2>1, RowTaken
  <2> QED
    BY <2>1, <2>2 DEF SequencesInv, Nested
<1>5. CASE Link
  <2>1. UNCHANGED <<request, drafts, chunk, rows>> /\ relations # <<>> /\ relations' = Rest(relations)
    BY <1>5 DEF Link, writeVars
  <2>2. relations' \in Seq(Nested)
    BY <2>1, ChunkProperties DEF SequencesInv
  <2> QED
    BY <2>1, <2>2 DEF SequencesInv, Nested
<1>6. CASE Allow \/ Deny \/ Finish \/ Fail \/ UNCHANGED vars
  <2>1. UNCHANGED <<request, drafts, relations, chunk, rows>>
    BY <1>6 DEF Allow, Deny, Finish, Fail, vars, walkVars, writeVars
  <2> QED
    BY <2>1 DEF SequencesInv, Nested
<1> QED
  BY <1>1, <1>2, <1>3, <1>4, <1>5, <1>6 DEF Next, Work

LEMMA WalkStep ==
  RequestInv /\ SequencesInv /\ WalkInv /\ [Next]_vars => WalkInv'
<1> SUFFICES ASSUME RequestInv, SequencesInv, WalkInv, [Next]_vars PROVE WalkInv'
  OBVIOUS
<1>1. CASE NewRequest \/ SendAgain
  <2>1. PICK r : Start(r) /\ Valid(r)
    BY <1>1, StartIsValid
  <2>2. PICK d, label : d = r.doc /\ label = r.label
    OBVIOUS
  <2>3. /\ request'.doc = d /\ request'.label = label /\ d \in Documents
        /\ queue' = RootEntries(d, label) /\ drafts' = <<>> /\ relations' = <<>>
        /\ chunk' = <<>> /\ rows' = <<>> /\ home' = <<>>
    BY <2>1, <2>2 DEF Start, Valid
  <2>4. /\ queue' \in Seq(Entries(d, label)) /\ Distinct(queue') /\ NodesOf(queue') = Roots(d)
    BY <2>3, RootEntriesAreEntries
  <2>5. NodesOf(drafts') = {} /\ DOMAIN home' = {}
    BY <2>3, EmptySequences
  <2>6. Visited' = {}
    BY <2>3, <2>4, <2>5 DEF Visited
  <2> QED
    BY <2>3, <2>4, <2>5, <2>6 DEF WalkInv, Nested
<1>2. CASE Visit
  BY <1>2, VisitStep
<1>3. CASE Allow \/ Deny \/ Send \/ Create \/ Merge \/ Link \/ Finish \/ Fail
  BY <1>3 DEF WalkInv, Allow, Deny, Send, Create, Merge, Link, Finish, Fail
<1>4. CASE UNCHANGED vars
  BY <1>4 DEF vars, walkVars, writeVars, WalkInv, Visited, Nested
<1> QED
  BY <1>1, <1>2, <1>3, <1>4 DEF Next, Work

LEMMA DraftsStep ==
  RequestInv /\ SequencesInv /\ WalkInv /\ DraftsInv /\ [Next]_vars => DraftsInv'
<1> SUFFICES ASSUME RequestInv, SequencesInv, WalkInv, DraftsInv, [Next]_vars PROVE DraftsInv'
  OBVIOUS
<1>1. CASE NewRequest \/ SendAgain
  <2>1. PICK r : Start(r)
    BY <1>1, StartIsValid
  <2> QED
    BY <2>1 DEF Start, DraftsInv, Writing
<1>2. CASE Visit
  BY <1>2, VisitStep DEF DraftsInv, Writing
<1>3. CASE Allow
  <2>1. /\ NodesOf(drafts) = Rec /\ NodesOf(chunk) = {} /\ NodesOf(rows) = {} /\ DOMAIN home = {}
    BY <1>3, WalkEnds DEF Allow
  <2>2. pc' = "write" /\ UNCHANGED <<request, drafts, chunk, rows, home>>
    BY <1>3 DEF Allow, walkVars, writeVars
  <2> QED
    BY <2>1, <2>2 DEF DraftsInv, Rec
<1>4. CASE Deny \/ Fail
  BY <1>4 DEF Deny, Fail, DraftsInv, Writing
<1>5. CASE Send
  <2>1. /\ pc = "write" /\ rows = <<>> /\ UNCHANGED <<pc, request, home>>
    BY <1>5 DEF Send
  <2>2. PICK open :
           /\ NodesOf(rows') \cap NodesOf(chunk') = {}
           /\ NodesOf(rows') \cup NodesOf(chunk') = NodesOf(open)
           /\ \/ open = chunk /\ drafts' = drafts
              \/ /\ chunk = <<>> /\ NodesOf(open) \cap NodesOf(drafts') = {}
                 /\ NodesOf(open) \cup NodesOf(drafts') = NodesOf(drafts)
    BY <1>5, SendTakes
  <2>3. /\ NodesOf(rows) = {} /\ NodesOf(chunk) \cap NodesOf(drafts) = {}
        /\ DOMAIN home \cap (NodesOf(chunk) \cup NodesOf(drafts)) = {}
        /\ DOMAIN home \cup NodesOf(chunk) \cup NodesOf(drafts) = Rec
    BY <2>1, EmptySequences DEF DraftsInv, Writing
  <2>4. /\ NodesOf(open) \cap NodesOf(drafts') = {}
        /\ NodesOf(open) \cup NodesOf(drafts') = NodesOf(chunk) \cup NodesOf(drafts)
    BY <2>2, <2>3, EmptySequences
  <2>5. /\ NodesOf(rows') \cap NodesOf(chunk') = {}
        /\ NodesOf(rows') \cap NodesOf(drafts') = {}
        /\ NodesOf(chunk') \cap NodesOf(drafts') = {}
        /\ DOMAIN home \cap (NodesOf(rows') \cup NodesOf(chunk') \cup NodesOf(drafts')) = {}
        /\ DOMAIN home \cup NodesOf(rows') \cup NodesOf(chunk') \cup NodesOf(drafts') = Rec
    BY <2>2, <2>3, <2>4
  <2> QED
    BY <2>1, <2>5 DEF DraftsInv, Rec
<1>6. CASE Create \/ Merge
  <2>1. /\ UNCHANGED <<pc, request, drafts, chunk>>
        /\ pc = "write" /\ rows # <<>> /\ rows' = Tail(rows)
        /\ \E ids : home' = Over([n \in {Head(rows).node} |-> ids], home)
    BY <1>6 DEF Create, Merge, walkVars
  <2>2. PICK n : n = Head(rows).node
    OBVIOUS
  <2>3. n \in Rec /\ NodesOf(rows) = {n} \cup NodesOf(rows') /\ n \notin NodesOf(rows')
    BY <2>1, <2>2, RowTaken
  <2>4. DOMAIN home' = DOMAIN home \cup {n}
    BY <2>1, <2>2 DEF Over
  <2>5. /\ NodesOf(rows) \cap NodesOf(chunk) = {}
        /\ NodesOf(rows) \cap NodesOf(drafts) = {}
        /\ NodesOf(chunk) \cap NodesOf(drafts) = {}
        /\ DOMAIN home \cap (NodesOf(rows) \cup NodesOf(chunk) \cup NodesOf(drafts)) = {}
        /\ DOMAIN home \cup NodesOf(rows) \cup NodesOf(chunk) \cup NodesOf(drafts) = Rec
    BY <2>1 DEF DraftsInv, Writing
  <2>6. /\ NodesOf(rows') \cap NodesOf(chunk) = {}
        /\ NodesOf(rows') \cap NodesOf(drafts) = {}
        /\ DOMAIN home' \cap (NodesOf(rows') \cup NodesOf(chunk) \cup NodesOf(drafts)) = {}
        /\ DOMAIN home' \cup NodesOf(rows') \cup NodesOf(chunk) \cup NodesOf(drafts) = Rec
    BY <2>3, <2>4, <2>5
  <2> QED
    BY <2>1, <2>5, <2>6 DEF DraftsInv, Rec
<1>7. CASE Link
  BY <1>7 DEF Link, writeVars, DraftsInv, Writing, Rec
<1>8. CASE Finish
  BY <1>8 DEF Finish, walkVars, writeVars, DraftsInv, Writing, Rec
<1>9. CASE UNCHANGED vars
  BY <1>9 DEF vars, walkVars, writeVars, DraftsInv, Writing, Rec
<1> QED
  BY <1>1, <1>2, <1>3, <1>4, <1>5, <1>6, <1>7, <1>8, <1>9 DEF Next, Work

-----------------------------------------------------------------------------
(* What a row does to the records: it makes one, or it changes those it is  *)
(* merged into.                                                             *)
Creates(row) ==
  /\ records' = records \cup {Created(row)}
  /\ Upsert => \E seen \in {records, matchable} : Matches(row, seen) = {}

MergesInto(row, ids) ==
  /\ Upsert /\ ids # {}
  /\ \E seen \in {records, matchable} : ids = {r.id : r \in Matches(row, seen)}
  /\ records' = {IF r.id \in ids THEN Merged(r, row) ELSE r : r \in records}

Settles(n, ids) ==
  /\ DOMAIN home' = DOMAIN home \cup {n} /\ home'[n] = ids
  /\ \A m \in DOMAIN home : m # n => home'[m] = home[m]
  /\ \/ DOMAIN Draft(n).fields = {} /\ idmap' = idmap
     \/ /\ DOMAIN idmap' = DOMAIN idmap \cup {n} /\ idmap'[n] \in ids
        /\ \A m \in DOMAIN idmap : m # n => idmap'[m] = idmap[m]

LEMMA RowWritten ==
  ASSUME RequestInv, SequencesInv, DraftsInv, Create \/ Merge
  PROVE  /\ UNCHANGED <<pc, import, request, resent, drafts, relations, chunk, matchable, links, saved>>
         /\ pc = "write" /\ rows # <<>> /\ rows' = Tail(rows)
         /\ \E n, ids :
              /\ n \in Rec /\ n \notin DOMAIN home /\ Settles(n, ids)
              /\ \/ ids = {DraftId(n)} /\ Creates(Draft(n))
                 \/ MergesInto(Draft(n), ids)
<1>1. /\ UNCHANGED <<pc, import, request, resent, drafts, relations, chunk, matchable, links, saved>>
      /\ pc = "write" /\ rows # <<>> /\ rows' = Tail(rows)
  BY DEF Create, Merge, walkVars
<1>2. PICK n, row : row = Head(rows) /\ n = row.node
  OBVIOUS
<1>3. n \in Rec /\ n \notin DOMAIN home /\ row = Draft(n)
  BY <1>1, <1>2, RowTaken DEF Draft
<1>4. \E ids :
        /\ home' = Over([m \in {n} |-> ids], home) /\ Answered(row, ids)
        /\ \/ ids = {DraftId(n)} /\ Creates(row)
           \/ MergesInto(row, ids)
  <2>1. CASE Create
    BY <1>2, <2>1 DEF Create, Creates
  <2>2. CASE Merge
    <3>1. PICK seen \in {records, matchable} :
            LET ids == {r.id : r \in Matches(row, seen)}
            IN  IF ids = {}
                THEN /\ records' = records \cup {Created(row)}
                     /\ home' = Over([m \in {n} |-> {DraftId(n)}], home)
                     /\ Answered(row, {DraftId(n)})
                ELSE /\ records' = {IF r.id \in ids THEN Merged(r, row) ELSE r : r \in records}
                     /\ home' = Over([m \in {n} |-> ids], home)
                     /\ Answered(row, ids)
      BY <1>2, <2>2 DEF Merge
    <3> DEFINE ids == {r.id : r \in Matches(row, seen)}
    <3>2. CASE ids = {}
      <4>1. Matches(row, seen) = {}
        BY <3>1, <3>2
      <4> QED
        BY <3>1, <3>2, <4>1 DEF Creates
    <3>3. CASE ids # {}
      <4>1. Upsert
        BY <2>2 DEF Merge
      <4>2. MergesInto(row, ids)
        BY <3>1, <3>3, <4>1 DEF MergesInto
      <4>3. home' = Over([m \in {n} |-> ids], home) /\ Answered(row, ids)
        BY <3>1, <3>3
      <4> QED
        BY <4>2, <4>3
    <3> QED
      BY <3>2, <3>3
  <2> QED
    BY <2>1, <2>2
<1>5. PICK ids :
        /\ home' = Over([m \in {n} |-> ids], home) /\ Answered(row, ids)
        /\ \/ ids = {DraftId(n)} /\ Creates(row)
           \/ MergesInto(row, ids)
  BY <1>4
<1>6. /\ DOMAIN home' = DOMAIN home \cup {n} /\ home'[n] = ids
      /\ \A m \in DOMAIN home : m # n => home'[m] = home[m]
  BY <1>5 DEF Over
<1>7. \/ DOMAIN row.fields = {} /\ idmap' = idmap
      \/ /\ DOMAIN idmap' = DOMAIN idmap \cup {n} /\ idmap'[n] \in ids
         /\ \A m \in DOMAIN idmap : m # n => idmap'[m] = idmap[m]
  <2>1. CASE DOMAIN row.fields = {}
    BY <1>5, <2>1 DEF Answered
  <2>2. CASE DOMAIN row.fields # {}
    <3>1. PICK id \in ids : idmap' = Over([m \in {n} |-> id], idmap)
      BY <1>2, <1>5, <2>2 DEF Answered
    <3>2. DOMAIN idmap' = DOMAIN idmap \cup {n} /\ idmap'[n] = id
      BY <3>1 DEF Over
    <3>3. \A m \in DOMAIN idmap : m # n => idmap'[m] = idmap[m]
      BY <3>1 DEF Over
    <3> QED
      BY <3>2, <3>3
  <2> QED
    BY <2>1, <2>2
<1> QED
  BY <1>1, <1>3, <1>5, <1>6, <1>7 DEF Settles

(* Where no row is written, the records stay or go back.                    *)
LEMMA RecordsStay ==
  ASSUME Visit \/ Allow \/ Deny \/ Send \/ Link \/ Finish
  PROVE  /\ UNCHANGED <<import, request, resent, records, saved, home, idmap>>
         /\ pc \in {"walk", "write"}
BY DEF Visit, Allow, Deny, Send, Link, Finish, writeVars

(* A row that is new has an id no record has.                               *)
LEMMA NewId ==
  ASSUME RequestInv, RecordsInv, NEW n \in Rec, n \notin DOMAIN home, pc # "idle"
  PROVE  /\ DraftId(n) \in Id
         /\ \A r \in records : r.id # DraftId(n)
<1>1. import \in 1..MaxImports /\ n \in Nat
  <2>1. request.doc \in Documents /\ n \in DOMAIN request.doc
    BY ValidWhileWorking DEF Rec, Recorded
  <2>2. import \in 0..MaxImports /\ import # 0
    BY DEF RequestInv
  <2> QED
    BY <2>1, <2>2, Nodes, ImportAssumption
<1>2. DraftId(n) = <<import, n>>
  BY DEF DraftId
<1>3. \A r \in records : r.id # DraftId(n)
  BY <1>2 DEF RecordsInv
<1> QED
  BY <1>1, <1>2, <1>3 DEF Id

LEMMA DraftIsProper ==
  ASSUME RequestInv, pc # "idle", NEW n \in Rec
  PROVE  /\ Draft(n).node = n /\ Draft(n).label \in Key /\ DOMAIN Draft(n).fields \subseteq Key
         /\ DOMAIN Draft(n).fields = {} <=> PropertyNodes(request.doc, n) = {}
<1>1. Valid(request) /\ request.doc \in Documents /\ n \in DOMAIN request.doc
  BY ValidWhileWorking DEF Rec, Recorded
<1>2. EntryOf(request.doc, request.label, n).label \in Key
  BY <1>1, LabelIsKey DEF Rec
<1>3. /\ DOMAIN Fields(request.doc, n) \subseteq Key
      /\ DOMAIN Fields(request.doc, n) = {} <=> PropertyNodes(request.doc, n) = {}
  BY <1>1, FieldsAreProperties
<1> QED
  BY <1>2, <1>3 DEF Draft, DraftOf

LEMMA CreatedIs ==
  ASSUME NEW n, Draft(n).node = n
  PROVE  /\ Created(Draft(n)).id = DraftId(n)
         /\ Created(Draft(n)).label = Draft(n).label
         /\ Created(Draft(n)).fields = Draft(n).fields
BY DEF Created

(* Records by their ids: what a merge makes of each.                        *)
LEMMA MergeByRecord ==
  ASSUME NEW row, NEW ids, MergesInto(row, ids), Proper(records)
  PROVE  /\ \A s \in records' : \E r \in records :
              /\ s.id = r.id /\ s.label = r.label
              /\ IF r.id \in ids THEN s = Merged(r, row) ELSE s = r
         /\ \A r \in records : \E s \in records' :
              /\ s.id = r.id /\ s.label = r.label
              /\ IF r.id \in ids THEN s = Merged(r, row) ELSE s = r
<1>1. \A r \in records : Merged(r, row).id = r.id /\ Merged(r, row).label = r.label
  BY DEF Merged
<1>2. records' = {IF r.id \in ids THEN Merged(r, row) ELSE r : r \in records}
  BY DEF MergesInto
<1> QED
  BY <1>1, <1>2

LEMMA MergedFields ==
  ASSUME NEW r, NEW row
  PROVE  /\ \A k : k \in DOMAIN Merged(r, row).fields <=>
              k \in DOMAIN row.fields \/ (request.merge # "rewrite" /\ k \in DOMAIN r.fields)
         /\ \A k \in DOMAIN row.fields : Merged(r, row).fields[k] = row.fields[k]
         /\ \A k \in DOMAIN r.fields \ DOMAIN row.fields :
              request.merge # "rewrite" => Merged(r, row).fields[k] = r.fields[k]
<1>1. Merged(r, row).fields =
        IF request.merge = "rewrite" THEN row.fields ELSE Over(row.fields, r.fields)
  BY DEF Merged
<1>2. /\ DOMAIN Over(row.fields, r.fields) = DOMAIN row.fields \cup DOMAIN r.fields
      /\ \A k \in DOMAIN row.fields : Over(row.fields, r.fields)[k] = row.fields[k]
      /\ \A k \in DOMAIN r.fields \ DOMAIN row.fields : Over(row.fields, r.fields)[k] = r.fields[k]
  BY DEF Over
<1> QED
  BY <1>1, <1>2

LEMMA ProperAfterRow ==
  ASSUME RequestInv, SequencesInv, DraftsInv, RecordsInv, pc = "write",
         NEW n \in Rec, n \notin DOMAIN home, NEW ids,
         Creates(Draft(n)) \/ MergesInto(Draft(n), ids)
  PROVE  Proper(records') /\ {r.id : r \in records} \subseteq {r.id : r \in records'}
<1>1. /\ DraftId(n) \in Id /\ \A r \in records : r.id # DraftId(n)
  BY NewId
<1>2. /\ Draft(n).node = n /\ Draft(n).label \in Key /\ DOMAIN Draft(n).fields \subseteq Key
  BY DraftIsProper
<1>3. /\ \A r \in records : r.id \in Id /\ r.label \in Key /\ DOMAIN r.fields \subseteq Key
      /\ \A r, s \in records : r.id = s.id => r = s
  BY DEF RecordsInv, Proper
<1>4. CASE Creates(Draft(n))
  <2>1. PICK x : x = Created(Draft(n))
    OBVIOUS
  <2>2. x.id = DraftId(n) /\ x.label = Draft(n).label /\ x.fields = Draft(n).fields
    BY <1>2, <2>1, CreatedIs
  <2>3. records' = records \cup {x}
    BY <1>4, <2>1 DEF Creates
  <2> QED
    BY <1>1, <1>2, <1>3, <2>2, <2>3 DEF Proper
<1>5. CASE MergesInto(Draft(n), ids)
  <2>1. \A s \in records' : \E r \in records :
          /\ s.id = r.id /\ s.label = r.label
          /\ IF r.id \in ids THEN s = Merged(r, Draft(n)) ELSE s = r
    BY <1>5, MergeByRecord DEF RecordsInv
  <2>2. \A r \in records : \E s \in records' : s.id = r.id
    BY <1>5, MergeByRecord DEF RecordsInv
  <2>3. \A s \in records' : s.id \in Id /\ s.label \in Key
    BY <1>3, <2>1
  <2>4. \A s \in records' : DOMAIN s.fields \subseteq Key
    <3> SUFFICES ASSUME NEW s \in records' PROVE DOMAIN s.fields \subseteq Key
      OBVIOUS
    <3>1. PICK r \in records : IF r.id \in ids THEN s = Merged(r, Draft(n)) ELSE s = r
      BY <2>1
    <3>2. DOMAIN r.fields \subseteq Key
      BY <1>3
    <3>3. DOMAIN Merged(r, Draft(n)).fields \subseteq DOMAIN Draft(n).fields \cup DOMAIN r.fields
      BY MergedFields
    <3> QED
      BY <1>2, <3>1, <3>2, <3>3
  <2>5. \A s, t \in records' : s.id = t.id => s = t
    <3> SUFFICES ASSUME NEW s \in records', NEW t \in records', s.id = t.id PROVE s = t
      OBVIOUS
    <3>1. PICK r \in records :
            s.id = r.id /\ IF r.id \in ids THEN s = Merged(r, Draft(n)) ELSE s = r
      BY <2>1
    <3>2. PICK q \in records :
            t.id = q.id /\ IF q.id \in ids THEN t = Merged(q, Draft(n)) ELSE t = q
      BY <2>1
    <3>3. r = q
      BY <1>3, <3>1, <3>2
    <3> QED
      BY <3>1, <3>2, <3>3
  <2> QED
    BY <2>2, <2>3, <2>4, <2>5 DEF Proper
<1> QED
  BY <1>4, <1>5

LEMMA RecordsStep ==
  RequestInv /\ SequencesInv /\ DraftsInv /\ RecordsInv /\ [Next]_vars => RecordsInv'
<1> SUFFICES ASSUME RequestInv, SequencesInv, DraftsInv, RecordsInv, [Next]_vars PROVE RecordsInv'
  OBVIOUS
<1>0. import \in Nat
  BY DEF RequestInv
<1>1. CASE NewRequest \/ SendAgain
  <2>1. PICK r : Start(r)
    BY <1>1, StartIsValid
  <2>2. /\ import' = import + 1 /\ records' = records /\ saved'.records = records
    BY <2>1 DEF Start
  <2>3. \A x \in records : x.id[1] \in Nat /\ x.id[1] <= import
    BY DEF RecordsInv, Proper, Id
  <2>4. \A x \in records : x.id[1] < import' /\ x.id[1] <= import' /\ x.id[1] # import'
    BY <1>0, <2>2, <2>3
  <2> QED
    BY <2>2, <2>4 DEF RecordsInv, Proper
<1>2. CASE Visit \/ Allow \/ Deny \/ Send \/ Link \/ Finish
  BY <1>2, RecordsStay DEF RecordsInv, Proper
<1>3. CASE Create \/ Merge
  <2>1. /\ UNCHANGED <<import, saved>> /\ pc = "write"
    BY <1>3, RowWritten
  <2>2. PICK n, ids : /\ n \in Rec /\ n \notin DOMAIN home /\ Settles(n, ids)
                      /\ \/ ids = {DraftId(n)} /\ Creates(Draft(n))
                         \/ MergesInto(Draft(n), ids)
    BY <1>3, RowWritten
  <2>3. Proper(records')
    BY <2>1, <2>2, ProperAfterRow
  <2>4. \A s \in records' : (\E r \in records : s.id = r.id) \/ (s.id = DraftId(n) /\ ids = {DraftId(n)})
    <3>1. CASE ids = {DraftId(n)} /\ Creates(Draft(n))
      <4>1. Created(Draft(n)).id = DraftId(n)
        BY <2>1, <2>2, DraftIsProper, CreatedIs
      <4> QED
        BY <3>1, <4>1 DEF Creates
    <3>2. CASE MergesInto(Draft(n), ids)
      BY <3>2, MergeByRecord DEF RecordsInv
    <3> QED
      BY <2>2, <3>1, <3>2
  <2>5. \A m \in DOMAIN home : m \in DOMAIN home' /\ home'[m] = home[m]
    BY <2>2 DEF Settles
  <2>6. n \in DOMAIN home' /\ home'[n] = ids /\ DraftId(n)[1] = import /\ DraftId(n)[2] = n
    BY <2>2 DEF Settles, DraftId
  <2>7. \A s \in records' :
          /\ s.id[1] <= import
          /\ s.id[1] = import => s.id[2] \in DOMAIN home' /\ s.id \in home'[s.id[2]]
    <3> SUFFICES ASSUME NEW s \in records'
                 PROVE  /\ s.id[1] <= import
                        /\ s.id[1] = import => s.id[2] \in DOMAIN home' /\ s.id \in home'[s.id[2]]
      OBVIOUS
    <3>1. CASE \E r \in records : s.id = r.id
      BY <2>5, <3>1 DEF RecordsInv
    <3>2. CASE s.id = DraftId(n) /\ ids = {DraftId(n)}
      BY <1>0, <2>6, <3>2
    <3> QED
      BY <2>4, <3>1, <3>2
  <2> QED
    BY <2>1, <2>3, <2>7 DEF RecordsInv, Proper
<1>4. CASE Fail
  <2>1. /\ UNCHANGED <<import, saved, home>> /\ records' = saved.records
    BY <1>4 DEF Fail, writeVars
  <2>2. \A r \in saved.records : r.id[1] \in Nat /\ r.id[1] < import
    BY DEF RecordsInv, Proper, Id
  <2>3. \A r \in saved.records : r.id[1] <= import /\ r.id[1] # import
    BY <1>0, <2>2
  <2> QED
    BY <2>1, <2>3 DEF RecordsInv, Proper
<1>5. CASE UNCHANGED vars
  BY <1>5 DEF vars, writeVars, RecordsInv, Proper
<1> QED
  BY <1>1, <1>2, <1>3, <1>4, <1>5 DEF Next, Work

-----------------------------------------------------------------------------
(* A record that was matched when the statement began is matched still.     *)
LEMMA MatchesStill ==
  ASSUME Proper(records), Persist(matchable, records), Upsert,
         NEW row, NEW seen \in {records, matchable}, NEW m \in Matches(row, seen)
  PROVE  \E r \in records : r.id = m.id /\ r.label = row.label /\ (Retrying => r \in Matches(row, records))
<1> DEFINE keys == IF request.by = {} THEN DOMAIN row.fields ELSE request.by
<1>1. /\ m \in seen /\ m.label = row.label
      /\ \A k \in keys : /\ k \in DOMAIN m.fields \cap DOMAIN row.fields
                         /\ m.fields[k] = row.fields[k]
  BY DEF Matches
<1>2. CASE seen = records
  BY <1>1, <1>2
<1>3. CASE seen = matchable
  <2>1. PICK r \in records :
          /\ r.id = m.id /\ r.label = m.label
          /\ Retrying => \A k \in DOMAIN m.fields :
               Kept(k) => k \in DOMAIN r.fields /\ r.fields[k] = m.fields[k]
    BY <1>1, <1>3 DEF Persist
  <2>2. \A k \in keys : Kept(k)
    BY DEF Kept
  <2>3. Retrying => \A k \in keys : /\ k \in DOMAIN r.fields \cap DOMAIN row.fields
                                    /\ r.fields[k] = row.fields[k]
    BY <1>1, <2>1, <2>2
  <2> QED
    BY <1>1, <2>1, <2>3 DEF Matches
<1> QED
  BY <1>2, <1>3

(* While a row is written, what the statement saw persists.                 *)
LEMMA Seen ==
  ASSUME MatchableInv, pc = "write", rows # <<>>
  PROVE  Persist(matchable, records)
BY DEF MatchableInv

LEMMA MergedIds ==
  ASSUME RecordsInv, MatchableInv, pc = "write", rows # <<>>,
         NEW row, NEW ids, MergesInto(row, ids)
  PROVE  ids \subseteq {r.id : r \in records}
<1>1. PICK seen \in {records, matchable} : ids = {r.id : r \in Matches(row, seen)}
  BY DEF MergesInto
<1>2. \A m \in Matches(row, seen) : \E r \in records : r.id = m.id
  BY Seen, MatchesStill DEF MergesInto, RecordsInv
<1> QED
  BY <1>1, <1>2

(* When the request can be retried, what a row is merged into is like it.   *)
LEMMA MergedAreLike ==
  ASSUME RecordsInv, MatchableInv, pc = "write", rows # <<>>, Retrying,
         NEW row, NEW ids, MergesInto(row, ids), NEW r \in records, r.id \in ids
  PROVE  r \in Matches(row, records)
<1>1. PICK seen \in {records, matchable} : ids = {m.id : m \in Matches(row, seen)}
  BY DEF MergesInto
<1>2. PICK m \in Matches(row, seen) : r.id = m.id
  BY <1>1
<1>3. PICK s \in records : s.id = m.id /\ s \in Matches(row, records)
  BY Seen, MatchesStill DEF MergesInto, RecordsInv
<1>4. r = s
  BY <1>2, <1>3 DEF RecordsInv, Proper
<1> QED
  BY <1>3, <1>4

LEMMA PersistIsReflexive == \A R : Persist(R, R)
BY DEF Persist

LEMMA PersistIsTransitive ==
  ASSUME NEW R, NEW S, NEW T, Persist(R, S), Persist(S, T)
  PROVE  Persist(R, T)
<1> SUFFICES ASSUME NEW r \in R
             PROVE  \E t \in T :
                      /\ t.id = r.id /\ t.label = r.label
                      /\ Retrying => \A k \in DOMAIN r.fields :
                           Kept(k) => k \in DOMAIN t.fields /\ t.fields[k] = r.fields[k]
                      /\ request.merge # "rewrite" => DOMAIN r.fields \subseteq DOMAIN t.fields
  BY DEF Persist
<1>1. PICK s \in S :
        /\ s.id = r.id /\ s.label = r.label
        /\ Retrying => \A k \in DOMAIN r.fields :
             Kept(k) => k \in DOMAIN s.fields /\ s.fields[k] = r.fields[k]
        /\ request.merge # "rewrite" => DOMAIN r.fields \subseteq DOMAIN s.fields
  BY DEF Persist
<1>2. PICK t \in T :
        /\ t.id = s.id /\ t.label = s.label
        /\ Retrying => \A k \in DOMAIN s.fields :
             Kept(k) => k \in DOMAIN t.fields /\ t.fields[k] = s.fields[k]
        /\ request.merge # "rewrite" => DOMAIN s.fields \subseteq DOMAIN t.fields
  BY DEF Persist
<1>3. Retrying => \A k \in DOMAIN r.fields :
        Kept(k) => k \in DOMAIN t.fields /\ t.fields[k] = r.fields[k]
  BY <1>1, <1>2
<1>4. request.merge # "rewrite" => DOMAIN r.fields \subseteq DOMAIN t.fields
  BY <1>1, <1>2
<1> QED
  BY <1>1, <1>2, <1>3, <1>4

(* Records outlive a row.                                                   *)
LEMMA RowPersists ==
  ASSUME RequestInv, RecordsInv, MatchableInv, pc = "write", rows # <<>>,
         NEW row, NEW ids, Creates(row) \/ MergesInto(row, ids)
  PROVE  Persist(records, records')
<1>1. CASE Creates(row)
  BY <1>1 DEF Creates, Persist
<1>2. CASE MergesInto(row, ids)
  <2> SUFFICES ASSUME NEW r \in records
               PROVE  \E s \in records' :
                        /\ s.id = r.id /\ s.label = r.label
                        /\ Retrying => \A k \in DOMAIN r.fields :
                             Kept(k) => k \in DOMAIN s.fields /\ s.fields[k] = r.fields[k]
                        /\ request.merge # "rewrite" => DOMAIN r.fields \subseteq DOMAIN s.fields
    BY DEF Persist
  <2>1. PICK s \in records' :
          /\ s.id = r.id /\ s.label = r.label
          /\ IF r.id \in ids THEN s = Merged(r, row) ELSE s = r
    BY <1>2, MergeByRecord DEF RecordsInv
  <2>2. CASE r.id \notin ids
    BY <2>1, <2>2
  <2>3. CASE r.id \in ids
    <3>1. s = Merged(r, row)
      BY <2>1, <2>3
    <3>2. /\ \A k : k \in DOMAIN s.fields <=>
               k \in DOMAIN row.fields \/ (request.merge # "rewrite" /\ k \in DOMAIN r.fields)
          /\ \A k \in DOMAIN row.fields : s.fields[k] = row.fields[k]
          /\ \A k \in DOMAIN r.fields \ DOMAIN row.fields :
               request.merge # "rewrite" => s.fields[k] = r.fields[k]
      BY <3>1, MergedFields
    <3>3. Retrying => \A k \in DOMAIN r.fields :
            Kept(k) => k \in DOMAIN s.fields /\ s.fields[k] = r.fields[k]
      <4> SUFFICES ASSUME Retrying, NEW k \in DOMAIN r.fields, Kept(k)
                   PROVE  k \in DOMAIN s.fields /\ s.fields[k] = r.fields[k]
        OBVIOUS
      <4>1. r \in Matches(row, records)
        BY <1>2, <2>3, MergedAreLike
      <4>2. CASE request.by = {}
        <5>1. request.merge # "rewrite"
          BY <4>2 DEF Retrying
        <5>2. k \in DOMAIN row.fields => r.fields[k] = row.fields[k]
          BY <4>1, <4>2 DEF Matches
        <5> QED
          BY <3>2, <5>1, <5>2
      <4>3. CASE request.by # {}
        <5>1. k \in DOMAIN row.fields /\ r.fields[k] = row.fields[k]
          BY <4>1, <4>3 DEF Matches, Kept
        <5> QED
          BY <3>2, <5>1
      <4> QED
        BY <4>2, <4>3
    <3> QED
      BY <2>1, <3>2, <3>3
  <2> QED
    BY <2>2, <2>3
<1> QED
  BY <1>1, <1>2

LEMMA MatchableStep ==
  RequestInv /\ SequencesInv /\ WalkInv /\ DraftsInv /\ RecordsInv /\ MatchableInv /\ [Next]_vars
    => MatchableInv'
<1> SUFFICES ASSUME RequestInv, SequencesInv, WalkInv, DraftsInv, RecordsInv, MatchableInv, [Next]_vars
             PROVE  MatchableInv'
  OBVIOUS
<1>0. ASSUME request' = request, Persist(matchable', records')
      PROVE  MatchableInv'
  <2>1. (Retrying' <=> Retrying) /\ request' = request
    BY <1>0 DEF Retrying, Upsert
  <2>2. Persist(matchable, records)'
    BY <1>0, <2>1 DEF Persist, Kept
  <2> QED
    BY <2>2 DEF MatchableInv
<1>1. CASE NewRequest \/ SendAgain
  <2>1. PICK r : Start(r)
    BY <1>1, StartIsValid
  <2> QED
    BY <2>1 DEF Start, MatchableInv
<1>2. CASE Visit
  BY <1>2, VisitStep DEF MatchableInv
<1>3. CASE Allow
  BY <1>3 DEF Allow, writeVars, WalkInv, MatchableInv
<1>4. CASE Deny \/ Finish \/ Fail
  BY <1>4 DEF Deny, Finish, Fail, MatchableInv
<1>5. CASE Send
  <2>1. matchable' = records /\ records' = records /\ request' = request
    BY <1>5 DEF Send
  <2>2. Persist(matchable', records')
    BY <2>1, PersistIsReflexive
  <2> QED
    BY <1>0, <2>1, <2>2
<1>6. CASE Create \/ Merge
  <2>1. /\ UNCHANGED <<request, matchable>> /\ pc = "write" /\ rows # <<>>
    BY <1>6, RowWritten
  <2>2. PICK n, ids : Creates(Draft(n)) \/ MergesInto(Draft(n), ids)
    BY <1>6, RowWritten
  <2>3. Persist(matchable, records) /\ Persist(records, records')
    BY <2>1, <2>2, Seen, RowPersists
  <2>4. Persist(matchable, records')
    BY <2>3, PersistIsTransitive
  <2> QED
    BY <1>0, <2>1, <2>4
<1>7. CASE Link
  BY <1>7 DEF Link, writeVars, MatchableInv
<1>8. CASE UNCHANGED vars
  BY <1>8 DEF vars, writeVars, MatchableInv, Persist, Retrying, Upsert, Kept
<1> QED
  BY <1>1, <1>2, <1>3, <1>4, <1>5, <1>6, <1>7, <1>8 DEF Next, Work

LEMMA HomeStep ==
  RequestInv /\ SequencesInv /\ WalkInv /\ DraftsInv /\ RecordsInv /\ HomeInv /\ MatchableInv
      /\ [Next]_vars
    => HomeInv'
<1> SUFFICES ASSUME RequestInv, SequencesInv, WalkInv, DraftsInv, RecordsInv, HomeInv, MatchableInv,
                    [Next]_vars
             PROVE  HomeInv'
  OBVIOUS
<1>1. CASE NewRequest \/ SendAgain
  <2>1. PICK r : Start(r)
    BY <1>1, StartIsValid
  <2>2. home' = <<>> /\ idmap' = <<>>
    BY <2>1 DEF Start
  <2>3. DOMAIN home' = {} /\ DOMAIN idmap' = {}
    BY <2>2
  <2> QED
    BY <2>3 DEF HomeInv
<1>2. CASE Visit \/ Deny \/ Fail
  <2>1. UNCHANGED <<request, home, idmap>> /\ pc' \in {"walk", "failed"}
    BY <1>2, VisitStep DEF Visit, Deny, Fail, writeVars
  <2> QED
    BY <2>1 DEF HomeInv, Writing, Rec
<1>3. CASE Allow
  <2>1. UNCHANGED <<request, home, idmap>> /\ DOMAIN home = {}
    BY <1>3, WalkEnds DEF Allow, writeVars
  <2> QED
    BY <2>1 DEF HomeInv, Rec
<1>4. CASE Send \/ Link \/ Finish
  <2>1. UNCHANGED <<import, request, records, home, idmap>> /\ pc = "write"
    BY <1>4 DEF Send, Link, Finish, writeVars
  <2> QED
    BY <2>1 DEF HomeInv, Writing, Rec, DraftId, Anonymous, Upsert
<1>5. CASE Create \/ Merge
  <2>1. UNCHANGED <<import, request>> /\ pc = "write" /\ rows # <<>>
    BY <1>5, RowWritten
  <2>2. PICK n, ids : /\ n \in Rec /\ n \notin DOMAIN home /\ Settles(n, ids)
                      /\ \/ ids = {DraftId(n)} /\ Creates(Draft(n))
                         \/ MergesInto(Draft(n), ids)
    BY <1>5, RowWritten
  <2>3. PICK old, new : old = {r.id : r \in records} /\ new = {r.id : r \in records'}
    OBVIOUS
  <2>4. old \subseteq new /\ old \subseteq Id /\ DraftId(n) \in Id
    BY <2>1, <2>2, <2>3, ProperAfterRow, NewId DEF RecordsInv, Proper
  <2>5. ids \subseteq new /\ ids \subseteq Id
    <3>1. CASE ids = {DraftId(n)} /\ Creates(Draft(n))
      <4>1. Created(Draft(n)).id = DraftId(n)
        BY <2>1, <2>2, DraftIsProper, CreatedIs
      <4>2. Created(Draft(n)) \in records'
        BY <3>1 DEF Creates
      <4> QED
        BY <2>3, <2>4, <3>1, <4>1, <4>2
    <3>2. CASE MergesInto(Draft(n), ids)
      BY <2>1, <2>3, <2>4, <3>2, MergedIds
    <3> QED
      BY <2>2, <3>1, <3>2
  <2>6. /\ DOMAIN home \subseteq Rec /\ DOMAIN idmap \subseteq DOMAIN home
        /\ \A m \in DOMAIN home : home[m] \subseteq Id /\ home[m] \subseteq old
        /\ \A m \in DOMAIN idmap : idmap[m] \in home[m]
        /\ \A m \in DOMAIN home : m \notin DOMAIN idmap => home[m] = {DraftId(m)} \/ Anonymous(m)
    BY <2>1, <2>3 DEF HomeInv, Writing
  <2>7. /\ DOMAIN home' = DOMAIN home \cup {n} /\ home'[n] = ids
        /\ \A m \in DOMAIN home : m # n /\ home'[m] = home[m]
    BY <2>2 DEF Settles
  <2>8. DOMAIN home' \subseteq Rec /\ \A m \in DOMAIN home' : home'[m] \subseteq Id /\ home'[m] \subseteq new
    BY <2>2, <2>4, <2>5, <2>6, <2>7
  <2>9. CASE DOMAIN Draft(n).fields = {} /\ idmap' = idmap
    <3>1. ids = {DraftId(n)} \/ Anonymous(n)
      <4>1. CASE MergesInto(Draft(n), ids)
        <5>1. PICK seen, m : m \in Matches(Draft(n), seen)
          BY <4>1 DEF MergesInto
        <5>2. \A k \in request.by : k \in DOMAIN Draft(n).fields
          BY <5>1 DEF Matches
        <5>3. request.by = {}
          BY <2>9, <5>2
        <5>4. PropertyNodes(request.doc, n) = {}
          BY <2>1, <2>2, <2>9, DraftIsProper
        <5> QED
          BY <4>1, <5>3, <5>4 DEF MergesInto, Anonymous
      <4> QED
        BY <2>2, <4>1
    <3>2. \A m \in DOMAIN home' : m \notin DOMAIN idmap' => home'[m] = {DraftId(m)} \/ Anonymous(m)
      BY <2>6, <2>7, <2>9, <3>1
    <3>3. DOMAIN idmap' \subseteq DOMAIN home' /\ \A m \in DOMAIN idmap' : idmap'[m] \in home'[m]
      BY <2>6, <2>7, <2>9
    <3> QED
      BY <2>1, <2>3, <2>8, <3>2, <3>3 DEF HomeInv, Writing, Rec, DraftId, Anonymous, Upsert
  <2>10. CASE /\ DOMAIN idmap' = DOMAIN idmap \cup {n} /\ idmap'[n] \in ids
              /\ \A m \in DOMAIN idmap : m # n => idmap'[m] = idmap[m]
    <3>1. DOMAIN idmap' \subseteq DOMAIN home' /\ \A m \in DOMAIN idmap' : idmap'[m] \in home'[m]
      BY <2>6, <2>7, <2>10
    <3>2. \A m \in DOMAIN home' : m \notin DOMAIN idmap' => home'[m] = {DraftId(m)} \/ Anonymous(m)
      BY <2>6, <2>7, <2>10
    <3> QED
      BY <2>1, <2>3, <2>8, <3>1, <3>2 DEF HomeInv, Writing, Rec, DraftId, Anonymous, Upsert
  <2> QED
    BY <2>2, <2>9, <2>10 DEF Settles
<1>6. CASE UNCHANGED vars
  BY <1>6 DEF vars, writeVars, HomeInv, Writing, Rec, DraftId, Anonymous, Upsert
<1> QED
  BY <1>1, <1>2, <1>3, <1>4, <1>5, <1>6 DEF Next, Work

-----------------------------------------------------------------------------
(* Links.                                                                   *)
LEMMA ChunkElements ==
  ASSUME NEW X, NEW s \in Seq(X), s # <<>>
  PROVE  /\ \A x \in Elements(s) : x \in Elements(Chunk(s)) \/ x \in Elements(Rest(s))
         /\ Elements(Chunk(s)) \subseteq Elements(s) /\ Elements(Rest(s)) \subseteq Elements(s)
<1>1. /\ \A i \in DOMAIN s :
           IF i <= ChunkSize THEN i \in DOMAIN Chunk(s) /\ Chunk(s)[i] = s[i]
           ELSE \E j \in DOMAIN Rest(s) : j = i - ChunkSize /\ Rest(s)[j] = s[i]
      /\ \A i \in DOMAIN Chunk(s) : i \in DOMAIN s /\ i <= ChunkSize /\ Chunk(s)[i] = s[i]
      /\ \A j \in DOMAIN Rest(s) :
           \E i \in DOMAIN s : i = ChunkSize + j /\ i > ChunkSize /\ Rest(s)[j] = s[i]
  BY ChunkProperties
<1>2. \A i \in DOMAIN s : \/ \E j \in DOMAIN Chunk(s) : Chunk(s)[j] = s[i]
                          \/ \E j \in DOMAIN Rest(s) : Rest(s)[j] = s[i]
  BY <1>1
<1>3. /\ \A j \in DOMAIN Chunk(s) : \E i \in DOMAIN s : Chunk(s)[j] = s[i]
      /\ \A j \in DOMAIN Rest(s) : \E i \in DOMAIN s : Rest(s)[j] = s[i]
  BY <1>1
<1> QED
  BY <1>2, <1>3 DEF Elements

(* What a link may be made from: the record a draft ended up in.            *)
LEMMA PersistedIsHome ==
  ASSUME RecordsInv, HomeInv, Writing, NEW n
  PROVE  /\ Persisted(n) \in {r.id : r \in records} /\ n \in DOMAIN home => Persisted(n) \in home[n]
         /\ n \in DOMAIN home /\ ~Anonymous(n) =>
              Persisted(n) \in home[n] /\ Persisted(n) \in {r.id : r \in records}
<1>1. CASE n \in DOMAIN idmap
  BY <1>1 DEF HomeInv, Persisted
<1>2. CASE n \notin DOMAIN idmap
  <2>1. Persisted(n) = DraftId(n) /\ DraftId(n)[1] = import /\ DraftId(n)[2] = n
    BY <1>2 DEF Persisted, DraftId
  <2>2. Persisted(n) \in {r.id : r \in records} => n \in DOMAIN home /\ Persisted(n) \in home[n]
    BY <2>1 DEF RecordsInv
  <2>3. n \in DOMAIN home /\ ~Anonymous(n) =>
          DraftId(n) \in home[n] /\ home[n] \subseteq {r.id : r \in records}
    BY <1>2 DEF HomeInv
  <2> QED
    BY <2>1, <2>2, <2>3
<1> QED
  BY <1>1, <1>2

LEMMA LinksStep ==
  RequestInv /\ SequencesInv /\ WalkInv /\ DraftsInv /\ RecordsInv /\ HomeInv /\ LinksInv
      /\ [Next]_vars
    => LinksInv'
<1> SUFFICES ASSUME RequestInv, SequencesInv, WalkInv, DraftsInv, RecordsInv, HomeInv, LinksInv,
                    [Next]_vars
             PROVE  LinksInv'
  OBVIOUS
<1>0. import \in Nat
  BY DEF RequestInv
<1>1. CASE NewRequest \/ SendAgain
  <2>1. PICK r : Start(r)
    BY <1>1, StartIsValid
  <2>2. /\ import' = import + 1 /\ links' = links /\ saved'.links = links /\ pc' = "walk"
    BY <2>1 DEF Start
  <2>3. \A l \in links : l.by \in 1..import /\ {l.source, l.target} \subseteq Id
    BY DEF LinksInv
  <2>4. \A l \in links : l.by \in 1..import' /\ l.by \in 1..(import' - 1) /\ l.by # import'
    BY <1>0, <2>2, <2>3
  <2> QED
    BY <2>2, <2>3, <2>4 DEF LinksInv, Writing
<1>2. CASE Visit \/ Deny
  <2>1. UNCHANGED <<import, links, saved>> /\ pc = "walk" /\ pc' \in {"walk", "failed"}
    BY <1>2, VisitStep DEF Visit, Deny
  <2> QED
    BY <2>1 DEF LinksInv, Writing
<1>3. CASE Allow
  <2>1. UNCHANGED <<import, request, links, saved, relations, home>> /\ pc = "walk" /\ pc' = "write"
    BY <1>3 DEF Allow, walkVars, writeVars
  <2>2. \A p \in Nested : p \in Elements(relations)
    BY <1>3, WalkEnds DEF Allow
  <2> QED
    BY <2>1, <2>2 DEF LinksInv, Writing, Nested
<1>4. CASE Send \/ Finish
  <2>1. /\ UNCHANGED <<import, request, links, saved, relations, home>>
        /\ pc = "write" /\ pc' \in {"write", "done"}
    BY <1>4 DEF Send, Finish, walkVars, writeVars
  <2> QED
    BY <2>1 DEF LinksInv, Writing, Nested, Anonymous, Upsert, Joins
<1>5. CASE Create \/ Merge
  <2>1. UNCHANGED <<import, request, links, saved, relations, pc>> /\ pc = "write"
    BY <1>5, RowWritten
  <2>2. PICK n, ids : n \notin DOMAIN home /\ Settles(n, ids)
    BY <1>5, RowWritten
  <2>3. \A m \in DOMAIN home : home'[m] = home[m]
    BY <2>2 DEF Settles
  <2>4. /\ \A l \in links : l.by \in 1..import /\ {l.source, l.target} \subseteq Id
        /\ \A l \in saved.links : l.by \in 1..(import - 1) /\ {l.source, l.target} \subseteq Id
        /\ \A p \in Nested : \/ Anonymous(p[1]) \/ Anonymous(p[2])
                             \/ p \in Elements(relations)
                             \/ \E l \in links : Joins(l, p)
        /\ \A l \in links : l.by = import => \E p \in Nested : Joins(l, p)
    BY <2>1 DEF LinksInv, Writing
  <2>5. \A l, p : Joins(l, p) => Joins(l, p)'
    BY <2>1, <2>2, <2>3 DEF Joins, Settles
  <2>6. Nested' = Nested /\ \A m : Anonymous(m)' <=> Anonymous(m)
    BY <2>1 DEF Nested, Anonymous, Upsert
  <2> QED
    BY <2>1, <2>4, <2>5, <2>6 DEF LinksInv, Writing
<1>6. CASE Link
  <2>1. /\ UNCHANGED <<pc, import, request, saved, home, idmap, records>>
        /\ pc = "write" /\ relations # <<>> /\ relations' = Rest(relations)
        /\ rows = <<>> /\ chunk = <<>> /\ drafts = <<>>
    BY <1>6 DEF Link, writeVars
  <2>2. PICK pairs : pairs = Chunk(relations)
    OBVIOUS
  <2>3. links' = links \cup
          {l \in {[by |-> import, source |-> Persisted(pairs[n][1]),
                   target |-> Persisted(pairs[n][2])] : n \in DOMAIN pairs} :
             {l.source, l.target} \subseteq {r.id : r \in records}}
    BY <1>6, <2>2 DEF Link
  <2>4. /\ Elements(pairs) \subseteq Nested
        /\ \A p \in Elements(relations) : p \in Elements(pairs) \/ p \in Elements(relations')
    <3>1. relations \in Seq(Nested)
      BY DEF SequencesInv
    <3>2. Elements(relations) \subseteq Nested
      BY <3>1, ElementOfSeq, LenProperties DEF Elements
    <3> QED
      BY <2>1, <2>2, <3>1, <3>2, ChunkElements
  <2>5. DOMAIN home = Rec
    BY <2>1, EmptySequences DEF DraftsInv, Writing
  <2>6. \A p \in Nested : p[1] \in DOMAIN home /\ p[2] \in DOMAIN home
    BY <2>5 DEF Nested, NestedIn, Rec
  <2>7. PICK ids : ids = {r.id : r \in records}
    OBVIOUS
  <2>8. \A l \in links' : l \in links \/
          \E p \in Elements(pairs) : /\ l.by = import /\ l.source = Persisted(p[1])
                                     /\ l.target = Persisted(p[2])
                                     /\ l.source \in ids /\ l.target \in ids
    BY <2>3, <2>7 DEF Elements
  <2>9. ids \subseteq Id /\ import \in 1..import
    <3>1. import # 0
      BY <2>1 DEF RequestInv
    <3> QED
      BY <1>0, <2>7, <3>1 DEF RecordsInv, Proper
  <2>10. \A n : /\ Persisted(n) \in ids /\ n \in DOMAIN home => Persisted(n) \in home[n]
                /\ n \in DOMAIN home /\ ~Anonymous(n) => Persisted(n) \in home[n] /\ Persisted(n) \in ids
    BY <2>1, <2>7, PersistedIsHome DEF Writing
  <2>11. \A l \in links' : l.by \in 1..import /\ {l.source, l.target} \subseteq Id
    BY <2>8, <2>9 DEF LinksInv
  <2>12. \A l \in links' : l.by = import => \E p \in Nested : Joins(l, p)
    <3> SUFFICES ASSUME NEW l \in links', l.by = import PROVE \E p \in Nested : Joins(l, p)
      OBVIOUS
    <3>1. CASE l \in links
      BY <2>1, <3>1 DEF LinksInv, Writing
    <3>2. CASE l \notin links
      <4>1. PICK p \in Nested : /\ l.source = Persisted(p[1]) /\ l.target = Persisted(p[2])
                                /\ l.source \in ids /\ l.target \in ids
        BY <2>4, <2>8, <3>2
      <4>2. l.source \in home[p[1]] /\ l.target \in home[p[2]]
        <5>1. PICK a, b : a = p[1] /\ b = p[2]
          OBVIOUS
        <5>2. a \in DOMAIN home /\ b \in DOMAIN home
          BY <2>6, <5>1
        <5>3. Persisted(a) \in home[a] /\ Persisted(b) \in home[b]
          BY <2>10, <4>1, <5>1, <5>2
        <5> QED
          BY <4>1, <5>1, <5>3
      <4> QED
        BY <2>6, <4>2 DEF Joins
    <3> QED
      BY <3>1, <3>2
  <2>13. \A p \in Nested : \/ Anonymous(p[1]) \/ Anonymous(p[2])
                           \/ p \in Elements(relations')
                           \/ \E l \in links' : Joins(l, p)
    <3> SUFFICES ASSUME NEW p \in Nested, ~Anonymous(p[1]), ~Anonymous(p[2]),
                        p \notin Elements(relations')
                 PROVE  \E l \in links' : Joins(l, p)
      OBVIOUS
    <3>1. CASE p \in Elements(pairs)
      <4>1. PICK n \in DOMAIN pairs : pairs[n] = p
        BY <3>1 DEF Elements
      <4>2. PICK l : l = [by |-> import, source |-> Persisted(p[1]), target |-> Persisted(p[2])]
        OBVIOUS
      <4>3. l.source \in home[p[1]] /\ l.target \in home[p[2]] /\ l.source \in ids /\ l.target \in ids
        <5>1. PICK a, b : a = p[1] /\ b = p[2]
          OBVIOUS
        <5>2. a \in DOMAIN home /\ b \in DOMAIN home /\ ~Anonymous(a) /\ ~Anonymous(b)
          BY <2>6, <5>1
        <5>3. /\ Persisted(a) \in home[a] /\ Persisted(a) \in ids
              /\ Persisted(b) \in home[b] /\ Persisted(b) \in ids
          BY <2>10, <5>2
        <5> QED
          BY <4>2, <5>1, <5>3
      <4>4. l \in links'
        BY <2>3, <2>7, <4>1, <4>2, <4>3
      <4> QED
        BY <2>6, <4>2, <4>3, <4>4 DEF Joins
    <3>2. CASE p \notin Elements(pairs)
      <4>1. p \notin Elements(relations)
        BY <2>4, <3>2
      <4>2. \E l \in links : Joins(l, p)
        BY <2>1, <4>1 DEF LinksInv, Writing
      <4> QED
        BY <2>3, <4>2
    <3> QED
      BY <3>1, <3>2
  <2>14. Nested' = Nested /\ (\A l, p : Joins(l, p) => Joins(l, p)')
         /\ (\A n : Anonymous(n)' <=> Anonymous(n))
    BY <2>1 DEF Nested, Anonymous, Upsert, Joins
  <2>15. \A l \in saved'.links : l.by \in 1..(import' - 1) /\ {l.source, l.target} \subseteq Id
    BY <2>1 DEF LinksInv
  <2> QED
    BY <2>1, <2>11, <2>12, <2>13, <2>14, <2>15 DEF LinksInv
<1>7. CASE Fail
  <2>1. UNCHANGED <<import, saved>> /\ links' = saved.links /\ pc' = "failed"
    BY <1>7 DEF Fail
  <2>2. \A l \in saved.links : l.by \in 1..import
    BY <1>0 DEF LinksInv
  <2> QED
    BY <2>1, <2>2 DEF LinksInv, Writing
<1>8. CASE UNCHANGED vars
  BY <1>8 DEF vars, walkVars, writeVars, LinksInv, Writing, Nested, Anonymous, Upsert, Joins
<1> QED
  BY <1>1, <1>2, <1>3, <1>4, <1>5, <1>6, <1>7, <1>8 DEF Next, Work

-----------------------------------------------------------------------------
(* Values. A property that a row before left on a record is kept, and where *)
(* rows are matched by all of their properties it is the same.              *)
LEMMA ValuesStep ==
  RequestInv /\ SequencesInv /\ WalkInv /\ DraftsInv /\ RecordsInv /\ HomeInv /\ ValuesInv
      /\ MatchableInv /\ [Next]_vars
    => ValuesInv'
<1> SUFFICES ASSUME RequestInv, SequencesInv, WalkInv, DraftsInv, RecordsInv, HomeInv, ValuesInv,
                    MatchableInv, [Next]_vars
             PROVE  ValuesInv'
  OBVIOUS
<1>1. CASE NewRequest \/ SendAgain
  <2>1. PICK r : Start(r)
    BY <1>1, StartIsValid
  <2> QED
    BY <2>1 DEF Start, ValuesInv, Writing
<1>2. CASE Visit \/ Deny \/ Fail
  <2>1. pc' \in {"walk", "failed"}
    BY <1>2, VisitStep DEF Deny, Fail
  <2> QED
    BY <2>1 DEF ValuesInv, Writing
<1>3. CASE Allow
  <2>1. DOMAIN home' = {}
    BY <1>3, WalkEnds DEF Allow, writeVars
  <2> QED
    BY <2>1 DEF ValuesInv
<1>4. CASE Send \/ Link \/ Finish
  <2>1. UNCHANGED <<request, records, home>> /\ pc = "write"
    BY <1>4 DEF Send, Link, Finish, writeVars
  <2> QED
    BY <2>1 DEF ValuesInv, Writing, Draft
<1>5. CASE Create \/ Merge
  <2>1. UNCHANGED <<import, request, pc>> /\ pc = "write" /\ rows # <<>>
    BY <1>5, RowWritten
  <2>2. PICK n, ids : /\ n \in Rec /\ n \notin DOMAIN home /\ Settles(n, ids)
                      /\ \/ ids = {DraftId(n)} /\ Creates(Draft(n))
                         \/ MergesInto(Draft(n), ids)
    BY <1>5, RowWritten
  <2>3. PICK row : row = Draft(n)
    OBVIOUS
  <2> SUFFICES ASSUME request.merge # "rewrite", NEW m \in DOMAIN home', NEW s \in records',
                      s.id \in home'[m], NEW k \in DOMAIN Draft(m).fields
               PROVE  /\ k \in DOMAIN s.fields
                      /\ request.by = {} => s.fields[k] = Draft(m).fields[k]
    BY <2>1 DEF ValuesInv, Draft
  <2>4. \/ m = n /\ home'[m] = ids
        \/ m \in DOMAIN home /\ m # n /\ home'[m] = home[m]
    BY <2>2 DEF Settles
  <2>5. m \in DOMAIN home => \A r \in records : r.id \in home[m] =>
          /\ k \in DOMAIN r.fields
          /\ request.by = {} => r.fields[k] = Draft(m).fields[k]
    BY <2>1 DEF ValuesInv, Writing
  <2>6. \A r \in records : r.id # DraftId(n)
    BY <2>1, <2>2, NewId
  <2>7. CASE ids = {DraftId(n)} /\ Creates(row)
    <3>1. PICK x : x = Created(row)
      OBVIOUS
    <3>2. x.id = DraftId(n) /\ x.fields = row.fields /\ records' = records \cup {x}
      BY <2>1, <2>2, <2>3, <2>7, <3>1, DraftIsProper, CreatedIs DEF Creates
    <3>3. m \in DOMAIN home => DraftId(n) \notin home[m]
      BY <2>1, <2>6 DEF HomeInv, Writing
    <3> QED
      BY <2>3, <2>4, <2>5, <2>6, <2>7, <3>2, <3>3
  <2>8. CASE MergesInto(row, ids)
    <3>1. PICK r \in records : s.id = r.id /\ IF r.id \in ids THEN s = Merged(r, row) ELSE s = r
      BY <2>8, MergeByRecord DEF RecordsInv
    <3>2. CASE r.id \notin ids
      BY <2>4, <2>5, <3>1, <3>2
    <3>3. CASE r.id \in ids
      <4>1. s = Merged(r, row) /\ request.merge = "append"
        BY <2>8, <3>1, <3>3 DEF MergesInto, Upsert, RequestInv
      <4>2. /\ \A j : j \in DOMAIN s.fields <=>
                 j \in DOMAIN row.fields \/ (request.merge # "rewrite" /\ j \in DOMAIN r.fields)
            /\ \A j \in DOMAIN row.fields : s.fields[j] = row.fields[j]
            /\ \A j \in DOMAIN r.fields \ DOMAIN row.fields :
                 request.merge # "rewrite" => s.fields[j] = r.fields[j]
        BY <4>1, MergedFields
      <4>3. CASE m = n
        BY <2>3, <4>2, <4>3
      <4>4. CASE m \in DOMAIN home /\ s.id \in home[m]
        <5>1. k \in DOMAIN r.fields /\ (request.by = {} => r.fields[k] = Draft(m).fields[k])
          BY <2>5, <3>1, <4>4
        <5>2. request.by = {} /\ k \in DOMAIN row.fields => r.fields[k] = row.fields[k]
          <6> SUFFICES ASSUME request.by = {}, k \in DOMAIN row.fields
                       PROVE  r.fields[k] = row.fields[k]
            OBVIOUS
          <6>1. Retrying
            BY <2>8, <4>1 DEF Retrying, MergesInto
          <6>2. r \in Matches(row, records)
            BY <2>1, <2>8, <3>3, <6>1, MergedAreLike
          <6> QED
            BY <6>2 DEF Matches
        <5> QED
          BY <4>1, <4>2, <5>1, <5>2
      <4> QED
        BY <2>4, <4>3, <4>4
    <3> QED
      BY <3>2, <3>3
  <2> QED
    BY <2>2, <2>3, <2>7, <2>8
<1>6. CASE UNCHANGED vars
  BY <1>6 DEF vars, writeVars, ValuesInv, Writing, Draft
<1> QED
  BY <1>1, <1>2, <1>3, <1>4, <1>5, <1>6 DEF Next, Work

-----------------------------------------------------------------------------
(* Retries. What a draft matches is there to be matched again.              *)
LEMMA MatchesPersist ==
  ASSUME NEW R, NEW S, Persist(R, S), Retrying, NEW row, Matches(row, R) # {}
  PROVE  Matches(row, S) # {}
<1> DEFINE keys == IF request.by = {} THEN DOMAIN row.fields ELSE request.by
<1>1. PICK r \in Matches(row, R) : TRUE
  OBVIOUS
<1>2. /\ r \in R /\ r.label = row.label
      /\ \A k \in keys : /\ k \in DOMAIN r.fields \cap DOMAIN row.fields
                         /\ r.fields[k] = row.fields[k]
  BY <1>1 DEF Matches
<1>3. PICK s \in S :
        /\ s.label = r.label
        /\ \A k \in DOMAIN r.fields : Kept(k) => k \in DOMAIN s.fields /\ s.fields[k] = r.fields[k]
  BY <1>2 DEF Persist
<1>4. \A k \in keys : Kept(k)
  BY DEF Kept
<1>5. \A k \in keys : k \in DOMAIN s.fields \cap DOMAIN row.fields /\ s.fields[k] = row.fields[k]
  BY <1>2, <1>3, <1>4
<1>6. s \in Matches(row, S)
  BY <1>2, <1>3, <1>5 DEF Matches
<1> QED
  BY <1>6

LEMMA StoredPersists ==
  ASSUME NEW N, NEW R, NEW S, Stored(N, R), Persist(R, S), Retrying
  PROVE  Stored(N, S)
BY MatchesPersist DEF Stored

LEMMA RowIsStored ==
  ASSUME RequestInv, SequencesInv, DraftsInv, RecordsInv, MatchableInv, pc = "write", rows # <<>>,
         Retrying, NEW n \in Rec, NEW ids,
         Creates(Draft(n)) \/ MergesInto(Draft(n), ids), Findable(n)
  PROVE  Matches(Draft(n), records') # {}
<1>1. CASE Creates(Draft(n))
  <2>1. PICK row, x : row = Draft(n) /\ x = Created(row)
    OBVIOUS
  <2>2. x.label = row.label /\ x.fields = row.fields /\ x \in records'
    BY <1>1, <2>1, DraftIsProper, CreatedIs DEF Creates
  <2>3. \A k \in (IF request.by = {} THEN DOMAIN row.fields ELSE request.by) : k \in DOMAIN row.fields
    BY <2>1 DEF Findable
  <2>4. x \in Matches(row, records')
    BY <2>2, <2>3 DEF Matches
  <2> QED
    BY <2>1, <2>4
<1>2. CASE MergesInto(Draft(n), ids)
  <2>1. PICK id \in ids : TRUE
    BY <1>2 DEF MergesInto
  <2>2. PICK r \in records : r.id = id
    BY <1>2, <2>1, MergedIds
  <2>3. r \in Matches(Draft(n), records)
    BY <1>2, <2>2, MergedAreLike
  <2> QED
    BY <1>2, <2>3, RowPersists, MatchesPersist
<1> QED
  BY <1>1, <1>2

LEMMA StoredStep ==
  RequestInv /\ SequencesInv /\ WalkInv /\ DraftsInv /\ RecordsInv /\ MatchableInv /\ StoredInv
      /\ [Next]_vars
    => StoredInv'
<1> SUFFICES ASSUME RequestInv, SequencesInv, WalkInv, DraftsInv, RecordsInv, MatchableInv, StoredInv,
                    [Next]_vars
             PROVE  StoredInv'
  OBVIOUS
<1>1. CASE NewRequest \/ SendAgain
  <2>1. PICK r : Start(r)
    BY <1>1, StartIsValid
  <2> QED
    BY <2>1 DEF Start, StoredInv, Writing
<1>2. CASE Visit \/ Deny \/ Fail
  <2>1. pc' \in {"walk", "failed"}
    BY <1>2, VisitStep DEF Deny, Fail
  <2> QED
    BY <2>1 DEF StoredInv, Writing
<1>3. CASE Allow
  <2>1. DOMAIN home' = {}
    BY <1>3, WalkEnds DEF Allow, writeVars
  <2> QED
    BY <2>1 DEF StoredInv, Stored
<1>4. CASE Send \/ Link \/ Finish \/ UNCHANGED vars
  <2>1. UNCHANGED <<request, records, home>> /\ (Writing' => Writing)
    BY <1>4 DEF Send, Link, Finish, vars, writeVars, Writing
  <2>2. (Retrying' => Retrying) /\ (Stored(DOMAIN home, records) => Stored(DOMAIN home, records)')
    BY <2>1 DEF Retrying, Upsert, Stored, Findable, Draft, Matches
  <2> QED
    BY <2>1, <2>2 DEF StoredInv
<1>5. CASE Create \/ Merge
  <2>1. UNCHANGED <<request, pc>> /\ pc = "write" /\ rows # <<>>
    BY <1>5, RowWritten
  <2>2. PICK n, ids : /\ n \in Rec /\ n \notin DOMAIN home /\ Settles(n, ids)
                      /\ (Creates(Draft(n)) \/ MergesInto(Draft(n), ids))
    BY <1>5, RowWritten
  <2> SUFFICES ASSUME Retrying PROVE Stored(DOMAIN home, records)'
    BY <2>1 DEF StoredInv, Retrying, Upsert
  <2>3. Stored(DOMAIN home, records)
    BY <2>1 DEF StoredInv, Writing
  <2>4. Persist(records, records')
    BY <2>1, <2>2, RowPersists
  <2>5. Stored(DOMAIN home, records')
    BY <2>3, <2>4, StoredPersists
  <2>6. Findable(n) => Matches(Draft(n), records') # {}
    BY <2>1, <2>2, RowIsStored
  <2>7. DOMAIN home' = DOMAIN home \cup {n}
    BY <2>2 DEF Settles
  <2>8. \A m \in DOMAIN home' : Findable(m) => Matches(Draft(m), records') # {}
    BY <2>5, <2>6, <2>7 DEF Stored
  <2> QED
    BY <2>1, <2>8 DEF Stored, Findable, Draft, Matches
<1> QED
  BY <1>1, <1>2, <1>3, <1>4, <1>5 DEF Next, Work

LEMMA RetryStep ==
  RequestInv /\ SequencesInv /\ WalkInv /\ DraftsInv /\ RecordsInv /\ MatchableInv /\ StoredInv
      /\ RetryInv /\ [Next]_vars
    => RetryInv'
<1> SUFFICES ASSUME RequestInv, SequencesInv, WalkInv, DraftsInv, RecordsInv, MatchableInv, StoredInv,
                    RetryInv, [Next]_vars
             PROVE  RetryInv'
  OBVIOUS
<1>1. CASE NewRequest \/ SendAgain
  <2>1. PICK r : Start(r)
    BY <1>1, StartIsValid
  <2> SUFFICES ASSUME resent', Retrying' PROVE RetryInv'
    BY DEF RetryInv
  <2>2. /\ pc = "done" /\ request' = request /\ import' = import + 1
        /\ records' = records /\ rows' = <<>>
    BY <2>1 DEF Start
  <2>3. Retrying /\ DOMAIN home = Rec
    BY <2>2, EmptySequences DEF Retrying, Upsert, DraftsInv, Writing
  <2>4. Stored(Rec, records)
    BY <2>2, <2>3 DEF StoredInv, Writing
  <2>5. Stored(Rec, records)'
    BY <2>2, <2>4 DEF Rec, Stored, Findable, Draft, Matches
  <2>6. \A x \in records : x.id[1] # import'
    <3>1. \A x \in records : x.id[1] \in Nat /\ x.id[1] <= import
      BY DEF RecordsInv, Proper, Id
    <3>2. import \in Nat
      BY DEF RequestInv
    <3> QED
      BY <2>2, <3>1, <3>2
  <2> QED
    BY <2>2, <2>5, <2>6 DEF RetryInv
<1>2. CASE Deny \/ Fail
  BY <1>2 DEF Deny, Fail, RetryInv
<1>3. CASE Visit \/ Allow \/ Send \/ Link \/ Finish \/ UNCHANGED vars
  <2>1. /\ UNCHANGED <<import, request, resent, records>>
        /\ pc' \in {"walk", "write", "done"} => pc \in {"walk", "write", "done"}
        /\ pc' = "write" /\ rows' # <<>> =>
             matchable' = records \/ (pc = "write" /\ rows # <<>> /\ matchable' = matchable)
    BY <1>3, VisitStep DEF Visit, Allow, Send, Link, Finish, vars, writeVars, WalkInv
  <2>2. PICK R : R = matchable'
    OBVIOUS
  <2> SUFFICES ASSUME resent, Retrying, pc \in {"walk", "write", "done"}
               PROVE  RetryInv'
    BY <2>1 DEF RetryInv, Retrying, Upsert
  <2>3. Stored(Rec, records) /\ (pc' = "write" /\ rows' # <<>> => Stored(Rec, R))
    BY <2>1, <2>2 DEF RetryInv
  <2>4. Stored(Rec, records)' /\ (pc' = "write" /\ rows' # <<>> => Stored(Rec, matchable)')
    BY <2>1, <2>2, <2>3 DEF Rec, Stored, Findable, Draft, Matches
  <2>5. \A r \in records : r.id[1] = import => ~(request.by \subseteq DOMAIN r.fields)
    BY DEF RetryInv
  <2> QED
    BY <2>1, <2>4, <2>5 DEF RetryInv
<1>4. CASE Create \/ Merge
  <2>1. /\ UNCHANGED <<import, request, resent, matchable, pc>>
        /\ pc = "write" /\ rows # <<>>
    BY <1>4, RowWritten
  <2>2. PICK n, ids : /\ n \in Rec /\ n \notin DOMAIN home
                      /\ (Creates(Draft(n)) \/ MergesInto(Draft(n), ids))
    BY <1>4, RowWritten
  <2> SUFFICES ASSUME resent, Retrying PROVE RetryInv'
    BY <2>1 DEF RetryInv, Retrying, Upsert
  <2>3. /\ Stored(Rec, records) /\ Stored(Rec, matchable)
        /\ \A r \in records : r.id[1] = import => ~(request.by \subseteq DOMAIN r.fields)
    BY <2>1 DEF RetryInv
  <2>4. Persist(records, records')
    BY <2>1, <2>2, RowPersists
  <2>5. Stored(Rec, records')
    BY <2>3, <2>4, StoredPersists
  <2>6. \A s \in records' : s.id[1] = import => ~(request.by \subseteq DOMAIN s.fields)
    <3>1. CASE Creates(Draft(n))
      <4>1. PICK seen \in {records, matchable} : Matches(Draft(n), seen) = {}
        BY <3>1 DEF Creates, Retrying
      <4>2. ~Findable(n)
        BY <2>2, <2>3, <4>1 DEF Stored
      <4>3. Created(Draft(n)).fields = Draft(n).fields
        BY <2>1, <2>2, DraftIsProper, CreatedIs
      <4> QED
        BY <2>3, <3>1, <4>2, <4>3 DEF Creates, Findable
    <3>2. CASE MergesInto(Draft(n), ids)
      <4> SUFFICES ASSUME NEW s \in records', s.id[1] = import, request.by \subseteq DOMAIN s.fields
                   PROVE  FALSE
        OBVIOUS
      <4>1. PICK r \in records : s.id = r.id /\ IF r.id \in ids THEN s = Merged(r, Draft(n)) ELSE s = r
        BY <3>2, MergeByRecord DEF RecordsInv
      <4>2. ~(request.by \subseteq DOMAIN r.fields)
        BY <2>3, <4>1
      <4>3. r.id \in ids
        BY <4>1, <4>2
      <4>4. r \in Matches(Draft(n), records)
        BY <2>1, <3>2, <4>3, MergedAreLike
      <4>5. request.by \subseteq DOMAIN r.fields
        BY <4>4 DEF Matches
      <4> QED
        BY <4>2, <4>5
    <3> QED
      BY <2>2, <3>1, <3>2
  <2>7. Stored(Rec, records)' /\ Stored(Rec, matchable)'
    BY <2>1, <2>3, <2>5 DEF Rec, Stored, Findable, Draft, Matches
  <2> QED
    BY <2>1, <2>6, <2>7 DEF RetryInv
<1> QED
  BY <1>1, <1>2, <1>3, <1>4 DEF Next, Work

-----------------------------------------------------------------------------
LEMMA InitEstablishes == Init => IInv
<1> SUFFICES ASSUME Init PROVE IInv
  OBVIOUS
<1>1. /\ pc = "idle" /\ import = 0 /\ resent = FALSE /\ records = {} /\ links = {}
      /\ request = [doc |-> <<>>, label |-> NoLabel, merge |-> "create", by |-> {}]
      /\ drafts = <<>> /\ relations = <<>> /\ chunk = <<>> /\ rows = <<>>
      /\ idmap = <<>> /\ home = <<>> /\ saved = [records |-> {}, links |-> {}]
  BY DEF Init
<1>2. RequestInv
  <2>1. 0 \in 0..MaxImports
    BY ImportAssumption
  <2>2. request.doc = <<>> /\ request.label = NoLabel /\ request.merge = "create" /\ request.by = {}
    BY <1>1
  <2> QED
    BY <1>1, <2>1, <2>2 DEF RequestInv
<1>3. SequencesInv
  BY <1>1, EmptySequences DEF SequencesInv
<1>4. DOMAIN home = {} /\ DOMAIN idmap = {}
  BY <1>1
<1>5. WalkInv /\ DraftsInv /\ ValuesInv /\ MatchableInv /\ StoredInv /\ RetryInv
  BY <1>1 DEF WalkInv, DraftsInv, ValuesInv, MatchableInv, StoredInv, RetryInv, Writing
<1>6. RecordsInv
  BY <1>1 DEF RecordsInv, Proper
<1>7. HomeInv
  BY <1>1, <1>4 DEF HomeInv, Writing
<1>8. LinksInv
  BY <1>1 DEF LinksInv, Writing
<1> QED
  BY <1>2, <1>3, <1>5, <1>6, <1>7, <1>8 DEF IInv

LEMMA NextPreserves == IInv /\ [Next]_vars => IInv'
BY RequestStep, SequencesStep, WalkStep, DraftsStep, RecordsStep, HomeStep, LinksStep, ValuesStep,
   MatchableStep, StoredStep, RetryStep DEF IInv

(* The invariant that all of the others follow from.                        *)
THEOREM Inductive == Spec => []IInv
BY InitEstablishes, NextPreserves, PTL DEF Spec

(* Every variable has its type, no two records share an id, no more drafts  *)
(* are held than the document has nodes, and no statement has more rows     *)
(* than CHUNK_SIZE.                                                         *)
THEOREM TypeCorrect == Spec => []TypeOK
<1>1. IInv => TypeOK
  <2> SUFFICES ASSUME IInv PROVE TypeOK
    OBVIOUS
  <2> USE DEF IInv
  <2>1. request.doc \in Documents \cup {<<>>} /\ request.label \in Label \cup {NoLabel}
    BY DEF RequestInv, Valid
  <2>2. Rec \subseteq DOMAIN request.doc
    BY DEF Rec, Recorded
  <2>3. DOMAIN home \subseteq DOMAIN request.doc /\ \A n \in DOMAIN home : home[n] \subseteq Id
    BY <2>2 DEF HomeInv
  <2>4. \A n \in DOMAIN idmap : idmap[n] \in Id
    BY DEF HomeInv
  <2>5. Len(drafts) <= Len(request.doc) /\ Len(rows) <= ChunkSize
    <3>1. PICK n \in Nat : Len(request.doc) = n /\ DOMAIN request.doc = 1..n
      BY <2>1, Nodes
    <3>2. PICK X : X = Drafts(request.doc, request.label)
      OBVIOUS
    <3>3. drafts \in Seq(X) /\ Distinct(drafts) /\ NodesOf(drafts) \subseteq 1..n
      BY <2>2, <3>1, <3>2, DraftsAreOfNodes DEF SequencesInv, Rec
    <3>4. Len(drafts) <= n
      BY <3>3, DistinctIsShort
    <3> QED
      BY <3>1, <3>4 DEF SequencesInv
  <2>6. /\ \A r \in records : r.id \in Id /\ r.label \in Key /\ DOMAIN r.fields \subseteq Key
        /\ \A r, s \in records : r.id = s.id => r = s
    BY DEF RecordsInv, Proper
  <2>7. \A l \in links : l.by \in 1..import /\ {l.source, l.target} \subseteq Id
    BY DEF LinksInv
  <2> QED
    BY <2>1, <2>3, <2>4, <2>5, <2>6, <2>7 DEF TypeOK, RequestInv
<1> QED
  BY <1>1, Inductive, PTL

(* No property of an object is lost when an import is done, whatever the    *)
(* documents, the chunk size and what earlier imports left.                 *)
THEOREM ValuesStay == Spec => []NoValueLost
<1>1. IInv => NoValueLost
  <2> SUFFICES ASSUME IInv, pc = "done", request.merge # "rewrite",
                      NEW i \in DOMAIN request.doc, request.doc[i].is = "object",
                      NEW j \in PropertyNodes(request.doc, i)
               PROVE  /\ i \in DOMAIN home
                      /\ \A r \in records :
                           r.id \in home[i] =>
                             /\ request.doc[j].key \in DOMAIN r.fields
                             /\ request.by = {} =>
                                  r.fields[request.doc[j].key] = ValueOf(request.doc, j)
    BY DEF NoValueLost
  <2> USE DEF IInv
  <2>1. PICK d : d = request.doc
    OBVIOUS
  <2>2. d \in Documents /\ Valid(request)
    BY <2>1, ValidWhileWorking
  <2>3. DOMAIN home = Rec
    BY EmptySequences DEF DraftsInv, Writing
  <2>4. i \in Rec
    <3>1. CASE i # 1
      BY <3>1 DEF Rec, Recorded
    <3>2. CASE i = 1
      <4>1. j \in Kids(d, 1) /\ ~Complex(d, j)
        BY <2>1, <3>2 DEF PropertyNodes
      <4>2. request.label # NoLabel
        BY <2>1, <2>2, <4>1 DEF Valid, RequiresLabel
      <4>3. ~SkipsRoot(d, request.label)
        BY <4>1, <4>2 DEF SkipsRoot
      <4> QED
        BY <2>1, <3>2, <4>3 DEF Rec, Recorded
    <3> QED
      BY <3>1, <3>2
  <2>5. /\ d[j].key \in DOMAIN Fields(d, i)
        /\ Fields(d, i)[d[j].key] = ValueOf(d, j)
    BY <2>1, <2>2, FieldsAreProperties
  <2>6. Draft(i).fields = Fields(d, i)
    BY <2>1 DEF Draft, DraftOf
  <2>7. \A r \in records : r.id \in home[i] =>
          /\ d[j].key \in DOMAIN r.fields
          /\ request.by = {} => r.fields[d[j].key] = Draft(i).fields[d[j].key]
    BY <2>3, <2>4, <2>5, <2>6 DEF ValuesInv, Writing
  <2> QED
    BY <2>1, <2>3, <2>4, <2>5, <2>6, <2>7
<1> QED
  BY <1>1, Inductive, PTL

(* When an import is done, the links it made are the nesting of its         *)
(* document, whichever statements wrote the ends.                           *)
THEOREM LinksFollow == Spec => []LinksFollowNesting
<1>1. IInv => LinksFollowNesting
  <2> SUFFICES ASSUME IInv, pc = "done" PROVE LinksFollowNesting
    BY DEF LinksFollowNesting
  <2> USE DEF IInv
  <2>1. DOMAIN home = Rec /\ relations = <<>>
    BY EmptySequences DEF DraftsInv, Writing
  <2>2. \A p : p \notin Elements(relations)
    BY <2>1 DEF Elements
  <2>3. \A p \in Nested : ~Anonymous(p[1]) /\ ~Anonymous(p[2]) => \E l \in links : Joins(l, p)
    BY <2>2 DEF LinksInv, Writing
  <2>4. \A l \in links : l.by = import => \E p \in Nested : Joins(l, p)
    BY DEF LinksInv, Writing
  <2> QED
    BY <2>1, <2>3, <2>4 DEF LinksFollowNesting, Joins, Nested, Rec
<1> QED
  BY <1>1, Inductive, PTL

(* An import that merges and is sent again after it succeeded creates no    *)
(* record with all of the keys it is matched by.                            *)
THEOREM RetryCreates == Spec => []RetryCreatesNothing
<1>1. IInv => RetryCreatesNothing
  BY DEF IInv, RetryInv, RetryCreatesNothing, Retrying
<1> QED
  BY <1>1, Inductive, PTL

=============================================================================
