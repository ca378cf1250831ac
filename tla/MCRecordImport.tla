---------------------------- MODULE MCRecordImport ----------------------------
(* Model-checking instances of RecordImport.                                *)
EXTENDS RecordImport

CONSTANTS a, b, v, w

Object(in, key) == [is |-> "object", in |-> in, key |-> key]
List(in, key)   == [is |-> "list", in |-> in, key |-> key]
Prim(x, in, key) == [is |-> x, in |-> in, key |-> key]

(* Every document of at most three nodes.                                   *)
Nodes(n) == {[is |-> x, in |-> i, key |-> k] :
               x \in {"object", "list", v, Unset}, i \in 1..(n - 1), k \in {a, b}}
Small ==
  {d \in UNION {{<<[is |-> x, in |-> 0, key |-> a]>> \o rest : rest \in
        {<<>>} \cup {<<m>> : m \in Nodes(2)} \cup {<<m, n>> : m \in Nodes(2), n \in Nodes(3)}} :
        x \in {"object", "list"}} : IsDocument(d)}

(* A record within a record, both with a property; one whose middle record  *)
(* has none; twins in a list; a list with a scalar and a record of another  *)
(* label; a list at the root with records that share a property; a root     *)
(* that is skipped or not, over a record with a record and a list of one.   *)
Nested   == <<Object(0, a), Prim(v, 1, a), Object(1, b), Prim(v, 3, a)>>
Middle   == <<Object(0, a), Prim(v, 1, a), Object(1, b), Object(3, a), Prim(w, 4, a)>>
Twins    == <<Object(0, a), List(1, a), Object(2, a), Prim(v, 3, a), Object(2, a), Prim(v, 5, a)>>
Mixed    == <<Object(0, a), Prim(w, 1, b), List(1, a), Prim(v, 3, a), Object(3, a), Prim(v, 5, b)>>
Rows     == <<List(0, a), Object(1, a), Prim(v, 2, a), Object(1, a), Prim(v, 4, a),
              Prim(w, 4, b), Object(1, a), Prim(w, 7, a)>>
Two      == <<Object(0, a), Object(1, a), Prim(v, 2, a), Object(2, b), Prim(v, 4, b),
              List(1, b), Object(6, b), Prim(v, 7, b), Prim(w, 7, a)>>
Core == {Nested, Middle, Twins, Mixed, Rows, Two}
All  == Core \cup Small

Merges == {{}, {a}, {a, b}}
=============================================================================
