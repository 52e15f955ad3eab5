----------------------------- MODULE Validation -----------------------------
(***************************************************************************)
(* scanner.py, candidates.py and validation.py on the columns of one       *)
(* snapshot: the profile of a column, what makes two columns a candidate,  *)
(* and what validating a relationship between them finds.                  *)
(*                                                                         *)
(* A column is a sequence of values as they are written, or Null for NULL  *)
(* and the empty string. A writing has a type, and stands for the          *)
(* canonical writing of the same value: 1.0 for 1, TRUE for true.          *)
(***************************************************************************)
EXTENDS Naturals, Sequences, FiniteSets, FiniteSetsExt, Functions

CONSTANTS
  Null,
  Writings    \* [value as written -> [type, canonical]]

Directed == {"one_to_one", "one_to_many", "many_to_one", "many_to_many"}

ASSUME ValidationConstants ==
  /\ Null \notin DOMAIN Writings
  /\ \A v \in DOMAIN Writings :
       /\ Writings[v].type \in {"integer", "number", "boolean", "text"}
       /\ LET canon == Writings[v].canonical IN
            canon \in DOMAIN Writings /\ Writings[canon].canonical = canon

-----------------------------------------------------------------------------
(* Profiles.                                                               *)

(* The rows of a column that hold a value.                                 *)
Present(column) == {i \in DOMAIN column : column[i] # Null}

InferType(column) ==
  LET types == {Writings[column[i]].type : i \in Present(column)} IN
  CASE types = {} -> "unknown"
    [] types = {"integer"} -> "integer"
    [] "number" \in types /\ types \subseteq {"integer", "number"} -> "number"
    [] types = {"boolean"} -> "boolean"
    [] OTHER -> "text"

Normal(v, type) ==
  IF type \in {"integer", "number", "boolean"} THEN Writings[v].canonical ELSE v

Normalized(column) ==
  [i \in Present(column) |-> Normal(column[i], InferType(column))]

Values(column) == Range(Normalized(column))

Profile(column) ==
  [type     |-> InferType(column),
   nulls    |-> Len(column) - Cardinality(Present(column)),
   distinct |-> Cardinality(Values(column)),
   unique   |-> Cardinality(Present(column)) = Cardinality(Values(column))]

-----------------------------------------------------------------------------
(* Candidates.                                                             *)

TypesAreCompatible(child, parent) ==
  LET types == {InferType(child), InferType(parent)} IN
  \/ Cardinality(types) = 1 /\ types # {"unknown"}
  \/ types \subseteq {"integer", "number"}

Among(column, others) ==
  {i \in Present(column) : Normalized(column)[i] \in Values(others)}

Orphans(child, parent) == Cardinality(Present(child)) - Cardinality(Among(child, parent))

IsCandidate(child, parent) ==
  /\ Profile(parent).unique /\ TypesAreCompatible(child, parent)
  /\ Among(child, parent) # {}

(* Mutant: the parent's uniqueness decides the cardinality.                *)
CandidateByParent(child, parent) ==
  [cardinality |-> IF Profile(parent).unique THEN "one_to_one" ELSE "many_to_one",
   confidence |->
     IF Orphans(child, parent) = 0 /\ Profile(child).nulls = 0 THEN "strong"
     ELSE IF Cardinality(Among(child, parent)) * 10 >= Cardinality(Present(child)) * 8
     THEN "medium" ELSE "low"]

Candidate(child, parent) ==
  [cardinality |-> IF Profile(child).unique THEN "one_to_one" ELSE "many_to_one",
   confidence |->
     IF Orphans(child, parent) = 0 /\ Profile(child).nulls = 0 THEN "strong"
     ELSE IF Cardinality(Among(child, parent)) * 10 >= Cardinality(Present(child)) * 8
     THEN "medium" ELSE "low"]

-----------------------------------------------------------------------------
(* Validating a relationship.                                              *)

MostRows(column, values) ==
  Max({0} \cup {Cardinality({i \in Present(column) : Normalized(column)[i] = v}) : v \in values})

(* Mutant: the two sides are exchanged.                                    *)
ObservedExchanged(fromPerTo, toPerFrom) ==
  CASE fromPerTo <= 1 /\ toPerFrom <= 1 -> "one_to_one"
    [] fromPerTo <= 1 /\ toPerFrom > 1  -> "many_to_one"
    [] fromPerTo > 1  /\ toPerFrom <= 1 -> "one_to_many"
    [] OTHER                            -> "many_to_many"

ObservedDirected(fromPerTo, toPerFrom) ==
  CASE fromPerTo <= 1 /\ toPerFrom <= 1 -> "one_to_one"
    [] fromPerTo <= 1 /\ toPerFrom > 1  -> "one_to_many"
    [] fromPerTo > 1  /\ toPerFrom <= 1 -> "many_to_one"
    [] OTHER                            -> "many_to_many"

LegacyBlocking == {"REFERENCED_KEY_NOT_UNIQUE", "ORPHAN_CHILD_ROW", "CARDINALITY_DRIFT",
                   "MANY_TO_MANY_FANOUT", "COMPOUND_FANOUT", "SCHEMA_DRIFT"}

ValidationCodes == LegacyBlocking \cup {"CHILD_KEY_NULL", "GRAIN_CHANGE"}

(* Mutant: uniqueness is asked of the child.                               *)
ValidateChildKey(from, to, declared) ==
  LET matched   == Values(from) \cap Values(to)
      fromPerTo == MostRows(from, matched)
      toPerFrom == MostRows(to, matched)
      observed  == ObservedDirected(fromPerTo, toPerFrom)
  IN [observed |-> observed, fromPerTo |-> fromPerTo, toPerFrom |-> toPerFrom,
      findings |-> {code \in ValidationCodes :
        \/ code = "REFERENCED_KEY_NOT_UNIQUE" /\ ~Profile(from).unique
        \/ code = "CHILD_KEY_NULL" /\ Cardinality(Present(from)) < Len(from)
        \/ code = "ORPHAN_CHILD_ROW" /\ Orphans(from, to) # 0
        \/ code = "CARDINALITY_DRIFT" /\ observed # declared
        \/ code = "GRAIN_CHANGE" /\ observed # "one_to_one"
        \/ code = "MANY_TO_MANY_FANOUT" /\ observed = "many_to_many"}]

ValidateRelationship(from, to, declared) ==
  LET matched   == Values(from) \cap Values(to)
      fromPerTo == MostRows(from, matched)
      toPerFrom == MostRows(to, matched)
      observed  == ObservedDirected(fromPerTo, toPerFrom)
  IN [observed |-> observed, fromPerTo |-> fromPerTo, toPerFrom |-> toPerFrom,
      findings |-> {code \in ValidationCodes :
        \/ code = "REFERENCED_KEY_NOT_UNIQUE" /\ ~Profile(to).unique
        \/ code = "CHILD_KEY_NULL" /\ Cardinality(Present(from)) < Len(from)
        \/ code = "ORPHAN_CHILD_ROW" /\ Orphans(from, to) # 0
        \/ code = "CARDINALITY_DRIFT" /\ observed # declared
        \/ code = "GRAIN_CHANGE" /\ observed # "one_to_one"
        \/ code = "MANY_TO_MANY_FANOUT" /\ observed = "many_to_many"}]

=============================================================================
