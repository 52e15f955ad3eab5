--------------------------- MODULE MCLegacyPaths ---------------------------
(* Small instances of LegacyPaths for TLC.                                 *)
EXTENDS LegacyPaths, TLC

CONSTANTS orders, customers, regions, key, ref, one, oneAsNumber, two, word

TheColumns == orders :> {ref} @@ customers :> {key, ref} @@ regions :> {key}

TheWritings ==
  one :> [type |-> "integer", canonical |-> one]
  @@ oneAsNumber :> [type |-> "number", canonical |-> one]
  @@ two :> [type |-> "integer", canonical |-> two]
  @@ word :> [type |-> "text", canonical |-> word]

OrdersRef     == <<orders, ref>>
CustomersKey  == <<customers, key>>
CustomersRef  == <<customers, ref>>
RegionsKey    == <<regions, key>>

Rel(id, from, to, card) == [id |-> id, from |-> from, to |-> to, card |-> card]

EndpointOrder == <<OrdersRef, CustomersKey, CustomersRef, RegionsKey>>
Place(endpoint) == CHOOSE i \in DOMAIN EndpointOrder : EndpointOrder[i] = endpoint

SomeIds == [pair \in Endpoints \X Endpoints |->
              CASE pair = <<OrdersRef, CustomersKey>> -> 1
                [] pair = <<CustomersRef, RegionsKey>> -> 2
                [] OTHER -> 10 * Place(pair[1]) + Place(pair[2])]

Model(relationships) ==
  [entities |-> {orders, customers, regions}, relationships |-> relationships]

(* One relationship, whose two columns hold anything; the rest is still.   *)
(* The order of rows changes nothing: columns are written in one order.    *)
Order == <<Null, one, oneAsNumber, two, word>>

Column(values, rows) ==
  UNION {{c \in [1..n -> values] :
            \A i, j \in 1..n : \A k, l \in DOMAIN Order :
              i < j /\ c[i] = Order[k] /\ c[j] = Order[l] => k <= l} : n \in 0..rows}

Tables(ofOrders, ofCustomers, ofRegions) ==
  orders :> [i \in DOMAIN ofOrders |-> ref :> ofOrders[i]]
  @@ customers :> [i \in DOMAIN ofCustomers |-> key :> ofCustomers[i][1] @@ ref :> ofCustomers[i][2]]
  @@ regions :> [i \in DOMAIN ofRegions |-> key :> ofRegions[i]]

AnyValue == {Order[k] : k \in DOMAIN Order}

PairTables ==
  {Tables(child, [i \in DOMAIN parent |-> <<parent[i], Null>>], <<>>) :
     child \in Column(AnyValue, 2), parent \in Column(AnyValue, 2)}

Pairs ==
  {[tables |-> t, model |-> Model(m)] : t \in PairTables,
     m \in {{}} \cup {{Rel(1, OrdersRef, CustomersKey, card)} : card \in Directed}}

(* Two relationships in a row, and two that refer to one table; two rows   *)
(* each.                                                                   *)
Chain == {Rel(1, OrdersRef, CustomersKey, "many_to_one"), Rel(2, CustomersRef, RegionsKey, "many_to_one")}

Twos == {c \in Column({one, two}, 2) : Len(c) = 2}

Chains ==
  {[tables |-> Tables(a, [i \in 1..2 |-> <<keys[i], refs[i]>>], c), model |-> Model(m)] :
     a \in Twos, keys \in Twos, refs \in [1..2 -> {one, two}], c \in Twos,
     m \in {Chain, {Rel(1, OrdersRef, CustomersKey, "one_to_one"),
                    Rel(2, CustomersRef, RegionsKey, "many_to_one")},
                   {Rel(1, OrdersRef, CustomersKey, "many_to_one"),
                    Rel(42, RegionsKey, CustomersKey, "many_to_one")}}}

(* Any choice of five relationships: two beside each other, one that       *)
(* closes a triangle, one of a table to itself.                            *)
OneRowEach == Tables(<<one>>, <<<<one, one>>>>, <<one>>)

Graphs ==
  {[tables |-> OneRowEach, model |-> Model(m)] :
     m \in SUBSET (Chain \cup {Rel(3, OrdersRef, CustomersRef, "many_to_one"),
                               Rel(4, OrdersRef, RegionsKey, "many_to_one"),
                               Rel(5, CustomersRef, CustomersKey, "many_to_one")})}

(* A source that changes: a row more, a row that refers to nothing, back.  *)
Apart    == Tables(<<one>>, <<<<one, two>>>>, <<two>>)
Repeated == Tables(<<one, one>>, <<<<one, two>>>>, <<two>>)
Orphaned == Tables(<<one, two>>, <<<<one, two>>>>, <<two>>)

SomeChanges == {Apart, Repeated} \X {Apart, Repeated, Orphaned}

Changing ==
  {[tables |-> Apart, model |-> m] :
     m \in {Model(Chain), [entities |-> {orders, customers}, relationships |-> {}]}}

AllProjects == Pairs \cup Chains \cup Graphs \cup Changing

SomeOldEdges == {[id |-> 1, direction |-> "forward", card |-> "many_to_many"]}

=============================================================================
