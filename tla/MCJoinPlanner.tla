--------------------------- MODULE MCJoinPlanner ---------------------------
(* Small instances of JoinPlanner for TLC.                                 *)
EXTENDS JoinPlanner

CONSTANTS orders, customers, value1, value2

(* Orders have a customer, and customers another one.                      *)
ShopColumns ==
  [e \in {orders, customers} |->
     IF e = orders THEN {"customer"} ELSE {"code", "superior"}]

Seed(child, column, prov) ==
  [child |-> child, parent |-> customers, childColumns |-> <<column>>,
   parentColumns |-> <<"code">>, prov |-> prov, card |-> "many_to_one"]

Shop == [r \in 1 .. 2 |-> IF r = 1 THEN Seed(orders, "customer", "declared")
                                   ELSE Seed(customers, "superior", "curated")]

(* An order and two customers; two orders and a customer; three customers. *)
Superior == <<orders, customers, customers>>
Siblings == <<orders, customers, orders>>
Family   == <<customers, customers, customers>>

Asked(entity, start, expected, depth) ==
  [refs |-> DOMAIN entity, entity |-> entity, start |-> start,
   expected |-> expected, depth |-> depth, alternatives |-> TRUE]

ShopRequests ==
  {Asked(e, s, x, 2) : e \in {Superior, Siblings}, s \in {1, 2}, x \in 1 .. 3}
  \cup {Asked(Siblings, 1, 1, 1), Asked(Family, 1, 1, 2), Asked(Family, 1, 2, 2)}

ValueSymmetry == Permutations(Values)

=============================================================================
