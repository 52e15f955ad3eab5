-------------------------- MODULE MCRuntimeService --------------------------
(* Small instances of RuntimeService for TLC.                              *)
EXTENDS RuntimeService, TLC

CONSTANTS s1, s2, orders, invoices, day1, day2

ForeignKey == [rel |-> orders, prov |-> "declared", card |-> "many_to_one"]
Reviewed == [rel |-> orders, prov |-> "curated", card |-> "many_to_one"]
ReviewedOnly == [rel |-> invoices, prov |-> "curated", card |-> "one_to_one"]

AllDeclarations == {ForeignKey, ReviewedOnly}

OneForeignKey == {ForeignKey}

TwoModels == {{}, {ReviewedOnly}}
OneModel == {{ReviewedOnly}}

(* A single relationship on a single content.                              *)
OneReviewed == {ReviewedOnly}
NoForeignKey == {}
OneInvoices ==
  [usable \in SUBSET Relationships |-> IF usable = {} THEN <<>> ELSE <<{invoices}>>]
OneDay ==
  [pair \in Relationships \X Snapshots |->
     [parentUnique |-> TRUE, nulls |-> FALSE, orphans |-> FALSE,
      observed |-> "one_to_one"]]

(* Either relationship makes a tree; invoices, if usable, comes first.     *)
EitherTree ==
  [usable \in SUBSET Relationships |->
     SelectSeq(<<{invoices}, {orders}>>, LAMBDA tree : tree \subseteq usable)]

(* On the second day orders has orphans; invoices is as good as before.    *)
TwoDays ==
  [pair \in Relationships \X Snapshots |->
     [parentUnique |-> TRUE, nulls |-> FALSE,
      orphans |-> pair = <<orders, day2>>,
      observed |-> "one_to_one"]]

ServerSymmetry == Permutations(Servers)

=============================================================================
