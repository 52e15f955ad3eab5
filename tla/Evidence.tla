------------------------------ MODULE Evidence ------------------------------
(***************************************************************************)
(* Relationship evidence: src/joinlint/runtime/evidence.py.                *)
(*                                                                         *)
(* The aggregate measurements `_measure` takes of a child and a parent     *)
(* table, the observed cardinality and the findings derived from them, and *)
(* the authorization that decides whether a relationship may be joined on. *)
(* A table is the sequence of its key values: a key is Null when any of    *)
(* its columns is NULL, which is all the evidence queries tell apart.      *)
(***************************************************************************)
EXTENDS Naturals, FiniteSets, Sequences

CONSTANT Null   \* a key with a NULL column

Cardinalities == {"one_to_one", "one_to_many", "many_to_one", "many_to_many"}

(* Provenance of a relationship the runtime verifies.                      *)
Provenances == {"declared", "curated"}

(***************************************************************************)
(* Findings.                                                               *)
(***************************************************************************)
BlockingCodes == {"REFERENCED_KEY_NOT_UNIQUE", "ORPHAN_CHILD_ROW",
                  "CARDINALITY_DRIFT", "MANY_TO_MANY_FANOUT"}

FindingCodes == BlockingCodes \cup {"CHILD_KEY_NULL"}

(* The observed cardinalities a declared one admits.                       *)
Allowed ==
  [declared \in Cardinalities |->
     CASE declared = "one_to_one"  -> {"one_to_one"}
       [] declared = "one_to_many" -> {"one_to_one", "one_to_many"}
       [] declared = "many_to_one" -> {"one_to_one", "many_to_one"}
       [] OTHER                    -> Cardinalities]

(* What the findings depend on, of everything `_measure` counts.           *)
Measurements ==
  [parentUnique : BOOLEAN, nulls : BOOLEAN, orphans : BOOLEAN,
   observed : Cardinalities]

Findings(m, declared) ==
  {code \in FindingCodes :
     \/ code = "REFERENCED_KEY_NOT_UNIQUE" /\ ~m.parentUnique
     \/ code = "CHILD_KEY_NULL"            /\ m.nulls
     \/ code = "ORPHAN_CHILD_ROW"          /\ m.orphans
     \/ code = "CARDINALITY_DRIFT"         /\ m.observed \notin Allowed[declared]
     \/ code = "MANY_TO_MANY_FANOUT"       /\ m.observed = "many_to_many"}

(* `authorize`: evidence is usable for the snapshot it was measured on     *)
(* when nothing it found is blocking. (Every record is of mode "exact".)   *)
Usable(record, currentSnapshot) ==
  /\ record.snap = currentSnapshot
  /\ record.findings \cap BlockingCodes = {}

(***************************************************************************)
(* Measuring two tables of keys.                                           *)
(***************************************************************************)
RowsWith(table, key) == {i \in DOMAIN table : table[i] = key}

NonNull(table) == {i \in DOMAIN table : table[i] # Null}

Keys(table) == {table[i] : i \in NonNull(table)}

(* The largest group of rows that share a non-null key, 0 without one.     *)
LargestGroup(table) ==
  LET sizes == {0} \cup {Cardinality(RowsWith(table, k)) : k \in Keys(table)}
  IN  CHOOSE n \in sizes : \A m \in sizes : m <= n

ObservedCardinality(maxChildren, maxParents) ==
  CASE maxChildren <= 1 /\ maxParents <= 1 -> "one_to_one"
    [] maxChildren <= 1 /\ maxParents > 1  -> "one_to_many"
    [] maxChildren > 1  /\ maxParents <= 1 -> "many_to_one"
    [] OTHER                               -> "many_to_many"

(* Child rows with a key that some parent row carries.                     *)
Included(child, parent) ==
  {i \in NonNull(child) : \E j \in DOMAIN parent : parent[j] = child[i]}

Measure(child, parent) ==
  [parentUnique |-> Cardinality(NonNull(parent)) = Cardinality(Keys(parent)),
   nulls        |-> Len(child) - Cardinality(NonNull(child)) # 0,
   orphans      |-> Cardinality(NonNull(child))
                      - Cardinality(Included(child, parent)) # 0,
   observed     |-> ObservedCardinality(LargestGroup(child),
                                        LargestGroup(parent)),
   maxChildren  |-> LargestGroup(child),
   maxParents   |-> LargestGroup(parent)]

=============================================================================
