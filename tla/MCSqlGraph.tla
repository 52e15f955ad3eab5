----------------------------- MODULE MCSqlGraph -----------------------------
(* Small instances of SqlGraph for TLC, over the shop of MCJoinPlanner.    *)
EXTENDS MCJoinPlanner, SqlGraph

Equality(child, column, parent, join) ==
  [left |-> <<child, column>>, right |-> <<parent, "code">>, join |-> join,
   filters |-> TRUE]

(* The joins of two instances that the shop's relationships suggest.       *)
Column(entity) == IF entity = orders THEN "customer" ELSE "superior"

Suggested(entity) ==
  {pair \in (DOMAIN entity) \X (DOMAIN entity) :
     pair[1] # pair[2] /\ entity[pair[2]] = customers}

Latest(pair) == IF pair[1] < pair[2] THEN pair[2] ELSE pair[1]

Query(entity, pairs, nullable) ==
  [entity |-> entity, nullable |-> nullable,
   scope |-> [ref \in DOMAIN entity |-> 1], inner |-> [ref \in DOMAIN entity |-> 0],
   equalities |-> {Equality(p[1], Column(entity[p[1]]), p[2], Latest(p)) : p \in pairs}]

(* Every instance after the first is joined to an earlier one.             *)
Trees(entity) ==
  {pairs \in SUBSET Suggested(entity) :
     /\ \A ref \in (DOMAIN entity) \ {1} : \E p \in pairs : Latest(p) = ref
     /\ Cardinality(pairs) = Len(entity) - 1}

TreeQueries ==
  UNION {{Query(entity, pairs, nullable) :
            pairs \in Trees(entity), nullable \in {{}, {3}}} :
         entity \in {Superior, Siblings}}

(* A superior's order: with an equality in the WHERE clause, with one in a *)
(* left join it says nothing of, with a second join of the same customer,  *)
(* with one no relationship suggests, and with an instance left out.       *)
Chain(nullable) == Query(Superior, {<<1, 2>>, <<2, 3>>}, nullable)

OtherQueries ==
  {Chain({2, 3}), Query(Siblings, {<<1, 2>>, <<3, 2>>}, {2, 3}),
   [Chain({3}) EXCEPT !.equalities =
      {Equality(1, "customer", 2, 0), Equality(2, "superior", 3, 3)}],
   [Chain({3}) EXCEPT !.equalities = @ \cup {Equality(1, "customer", 2, 3)}],
   [Chain({}) EXCEPT !.equalities =
      @ \cup {[Equality(2, "code", 3, 3) EXCEPT !.right = <<3, "code">>]}],
   Query(Superior, {<<1, 2>>}, {})}

(* A superior's order, where the orders are a derived table of their own.  *)
DerivedQuery ==
  [Query(<<orders, orders, customers, customers>>, {<<2, 3>>, <<3, 4>>}, {})
     EXCEPT !.scope = <<2, 1, 1, 1>>, !.inner = <<0, 1, 0, 0>>]

ShopQueries == TreeQueries \cup OtherQueries \cup {DerivedQuery}

(* Two orders with their customers, side by side; an order and a customer  *)
(* compared below an OR, or in the select list; the orders of superiors,   *)
(* whom a derived table shows once for each customer they are superior of. *)
LooseQueries ==
  {Query(<<orders, customers, customers, customers>>, {<<1, 2>>, <<3, 4>>}, {}),
   [Query(<<orders, customers>>, {}, {}) EXCEPT !.equalities =
      {[Equality(1, "customer", 2, 0) EXCEPT !.filters = FALSE]}],
   [Query(<<customers, customers, customers, orders>>, {<<1, 2>>, <<4, 3>>}, {})
      EXCEPT !.scope = <<2, 2, 1, 1>>, !.inner = <<0, 0, 2, 0>>]}

(* Both customers of the order are its customer, and one the other's superior.*)
CyclicQueries ==
  {[Chain({}) EXCEPT !.equalities = @ \cup {Equality(1, "customer", 3, 3)}]}

PlanRequests ==
  {Asked(Superior, 1, 1, 2), Asked(Superior, 2, 2, 2), Asked(Siblings, 1, 1, 1),
   Asked(Siblings, 1, 1, 2)}

=============================================================================
