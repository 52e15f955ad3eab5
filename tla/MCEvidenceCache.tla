-------------------------- MODULE MCEvidenceCache --------------------------
(* Small instances of EvidenceCache for TLC.                               *)
EXTENDS EvidenceCache, TLC

CONSTANTS s1, s2, s3, rel, day1, day2

(* One curated relationship; the second day the child column drifts.       *)
OneDeclaration == {[rel |-> rel, prov |-> "curated", card |-> "one_to_one"]}

(* The same relationship before and after its cardinality is edited.       *)
EditedDeclaration ==
  OneDeclaration \cup {[rel |-> rel, prov |-> "curated", card |-> "many_to_one"]}

Drifting ==
  [pair \in Relationships \X Snapshots |->
     [parentUnique |-> TRUE, nulls |-> FALSE, orphans |-> FALSE,
      observed |-> IF pair[2] = day1 THEN "one_to_one" ELSE "many_to_one"]]

ServerSymmetry == Permutations(Servers)

=============================================================================
