--------------------------- MODULE SqlQueryProofs ---------------------------
(***************************************************************************)
(* What a query that passes returns, and that a plan written as a query    *)
(* passes, proved for any catalog and any rows.                            *)
(* Without a plan: every row of the expected instance at most once, and no *)
(* row without one, if the query joins its instances in their order. With  *)
(* a plan: the rows the plan joins, if the query compares only to join.    *)
(* And the planner and the validator agree: what the one finds safe does   *)
(* not fan out where the other searches.                                   *)
(***************************************************************************)
EXTENDS SqlGraphProofs

-----------------------------------------------------------------------------
(* Edges of a query and the search's steps, sorted.                        *)

IsSorting(s, S, rank) ==
  /\ DOMAIN s = 1 .. Cardinality(S)
  /\ \A i \in 1 .. Cardinality(S) :
       (\E e \in S : rank[e] + 1 = i) => s[i] \in S /\ rank[s[i]] + 1 = i

LEMMA SortingIsOnto ==
  ASSUME NEW S, IsFiniteSet(S), NEW R, IsOrder(R, S), NEW rank, Places(rank, S, R),
         NEW s, IsSorting(s, S, rank)
  PROVE  /\ Cardinality(S) \in Nat /\ DOMAIN s = 1 .. Cardinality(S)
         /\ \A i \in DOMAIN s : s[i] \in S
         /\ \A e \in S : \E i \in DOMAIN s : s[i] = e
<1> DEFINE c == Cardinality(S)
<1>1. /\ c \in Nat
      /\ \A e \in S : rank[e] \in Nat /\ rank[e] < c
      /\ \A e, f \in S : rank[e] = rank[f] => e = f
      /\ \A i \in 1 .. c : \E e \in S : rank[e] + 1 = i
  BY Ranks
<1>2. DOMAIN s = 1 .. c /\ \A i \in 1 .. c : s[i] \in S /\ rank[s[i]] + 1 = i
  BY <1>1 DEF IsSorting
<1>3. ASSUME NEW e \in S
      PROVE  \E i \in 1 .. c : s[i] = e
  <2>1. rank[e] \in Nat /\ rank[e] + 1 \in 1 .. c
    BY <1>1
  <2>2. PICK i \in 1 .. c : i = rank[e] + 1
    BY <2>1
  <2>3. s[i] \in S /\ rank[s[i]] + 1 = rank[e] + 1
    BY <1>2, <2>2
  <2>4. rank[s[i]] = rank[e]
    BY <1>1, <2>1, <2>3
  <2>5. QED
    BY <1>1, <2>3, <2>4
<1>4. QED
  BY <1>1, <1>2, <1>3

(* Numbers, as the search takes them up.                                   *)
LEMMA NumbersAreSorted ==
  ASSUME NEW S \in SUBSET Nat, IsFiniteSet(S)
  PROVE  /\ Cardinality(S) \in Nat /\ DOMAIN Ascending(S) = 1 .. Cardinality(S)
         /\ \A i \in DOMAIN Ascending(S) : Ascending(S)[i] \in S
         /\ \A e \in S : \E i \in DOMAIN Ascending(S) : Ascending(S)[i] = e
<1> DEFINE Lesser(e) == Cardinality({f \in S : f < e})
           rank == [e \in S |-> Cardinality({f \in S : <<f, e>> \in Smaller})]
           s == Ascending(S)
<1>1. IsOrder(Smaller, S)
  <2>1. \A x, y \in S : <<x, y>> \in Smaller <=> x < y
    BY DEF Smaller
  <2>2. QED
    BY <2>1 DEF IsOrder
<1>2. Places(rank, S, Smaller)
  BY DEF Places
<1>3. \A e \in S : rank[e] = Lesser(e)
  <2> SUFFICES ASSUME NEW e \in S
               PROVE  rank[e] = Lesser(e)
    OBVIOUS
  <2>1. {f \in S : <<f, e>> \in Smaller} = {f \in S : f < e}
    BY DEF Smaller
  <2>2. QED
    BY <2>1
<1> HIDE DEF rank
<1>4. s = [i \in 1 .. Cardinality(S) |-> CHOOSE e \in S : Lesser(e) + 1 = i]
  BY DEF Ascending, Sorted, Before
<1> HIDE DEF Lesser
<1>5. IsSorting(s, S, rank)
  <2> HIDE DEF s
  <2>1. ASSUME NEW i \in 1 .. Cardinality(S), NEW e \in S, rank[e] + 1 = i
        PROVE  s[i] \in S /\ rank[s[i]] + 1 = i
    <3> DEFINE x == CHOOSE f \in S : Lesser(f) + 1 = i
    <3>1. \E f \in S : Lesser(f) + 1 = i
      BY <1>3, <2>1
    <3>2. x \in S /\ Lesser(x) + 1 = i
      BY <3>1
    <3>3. s[i] = x
      BY <1>4
    <3> HIDE DEF x
    <3>4. QED
      BY <1>3, <3>2, <3>3
  <2>2. DOMAIN s = 1 .. Cardinality(S)
    BY <1>4
  <2>3. QED
    BY <2>1, <2>2 DEF IsSorting
<1> HIDE DEF s
<1>6. /\ Cardinality(S) \in Nat /\ DOMAIN s = 1 .. Cardinality(S)
      /\ \A i \in DOMAIN s : s[i] \in S
      /\ \A e \in S : \E i \in DOMAIN s : s[i] = e
  BY <1>1, <1>2, <1>5, SortingIsOnto
<1>7. QED
  BY <1>6 DEF s

-----------------------------------------------------------------------------
(* What a query is, and its edges.                                         *)

LEMMA QueriesAreTyped ==
  ASSUME NEW query \in Queries
  PROVE  /\ Len(query.entity) \in Nat /\ Refs(query) = 1 .. Len(query.entity) /\ 1 \in Refs(query)
         /\ \A ref \in Refs(query) : query.entity[ref] \in Entities
         /\ query.nullable \subseteq Refs(query) /\ 1 \notin query.nullable
         /\ IsFiniteSet(query.equalities)
<1>1. IsQuery(query)
  BY SqlConstants
<1>2. query.entity \in Seq(Entities) /\ query.entity # <<>>
  BY <1>1 DEF IsQuery
<1>3. Len(query.entity) \in Nat /\ DOMAIN query.entity = 1 .. Len(query.entity)
  BY <1>2, LenProperties
<1>4. Len(query.entity) # 0
  BY <1>2, EmptySeq
<1>5. \A ref \in Refs(query) : query.entity[ref] \in Entities
  BY <1>2, <1>3, ElementOfSeq DEF Refs
<1>6. query.nullable \subseteq 2 .. Len(query.entity) /\ IsFiniteSet(query.equalities)
  BY <1>1 DEF IsQuery
<1>7. QED
  BY <1>3, <1>4, <1>5, <1>6 DEF Refs

IsEndpoint(query, end) ==
  /\ end = <<end[1], end[2]>> /\ end[1] \in Refs(query)
  /\ end[2] \in Columns[query.entity[end[1]]]

LEMMA EqualitiesAreTyped ==
  ASSUME NEW query \in Queries, NEW eq \in query.equalities
  PROVE  /\ IsEndpoint(query, eq.left) /\ IsEndpoint(query, eq.right)
         /\ eq = [left |-> eq.left, right |-> eq.right, join |-> eq.join, filters |-> eq.filters]
         /\ eq.join \in {0} \cup Refs(query) /\ eq.filters \in BOOLEAN
         /\ eq.join = 0 \/ (eq.left[1] <= eq.join /\ eq.right[1] <= eq.join)
<1> DEFINE endpoints == {end \in Refs(query) \X UNION {Columns[e] : e \in Entities} :
                           end[2] \in Columns[query.entity[end[1]]]}
<1>1. IsQuery(query) /\ Refs(query) = 1 .. Len(query.entity) /\ Len(query.entity) \in Nat
  BY SqlConstants, QueriesAreTyped
<1>2. eq \in [left : endpoints, right : endpoints, join : 0 .. Len(query.entity), filters : BOOLEAN]
  BY <1>1 DEF IsQuery
<1>3. eq.join = 0 \/ (eq.left[1] <= eq.join /\ eq.right[1] <= eq.join)
  BY <1>1 DEF IsQuery
<1>4. \A end \in endpoints : IsEndpoint(query, end)
  BY DEF IsEndpoint
<1> HIDE DEF endpoints
<1>5. QED
  BY <1>1, <1>2, <1>3, <1>4

(* An equality of an edge, whichever side it is written on.                *)
Spans(eq, e, p) ==
  \/ eq.left = <<e.left, p[1]>> /\ eq.right = <<e.right, p[2]>>
  \/ eq.right = <<e.left, p[1]>> /\ eq.left = <<e.right, p[2]>>

KindOf(query, eq) == IF InLeftJoin(query, eq) THEN "left" ELSE "inner"

LEMMA OrientedSpans ==
  ASSUME NEW query \in Queries, NEW eq \in Crossing(query), NEW o, o = Oriented(query, eq)
  PROVE  /\ o.left = <<o.left[1], o.left[2]>> /\ o.right = <<o.right[1], o.right[2]>>
         /\ o.left[1] \in Refs(query) /\ o.right[1] \in Refs(query) /\ o.left[1] # o.right[1]
         /\ query.scope[o.left[1]] = query.scope[o.right[1]]
         /\ \/ eq.left = o.left /\ eq.right = o.right
            \/ eq.left = o.right /\ eq.right = o.left
         /\ o.join = eq.join /\ KindOf(query, o) = KindOf(query, eq)
         /\ InLeftJoin(query, eq) /\ ~ UnsupportedShape(query) => o.right[1] = eq.join
<1>1. /\ eq \in query.equalities
      /\ eq.left[1] # eq.right[1] /\ query.scope[eq.left[1]] = query.scope[eq.right[1]]
  BY DEF Crossing
<1>2. /\ IsEndpoint(query, eq.left) /\ IsEndpoint(query, eq.right)
      /\ eq = [left |-> eq.left, right |-> eq.right, join |-> eq.join, filters |-> eq.filters]
  BY <1>1, EqualitiesAreTyped
<1>3. \/ NullableOnLeft(query, eq) /\ o.left = eq.right /\ o.right = eq.left /\ o.join = eq.join
      \/ ~ NullableOnLeft(query, eq) /\ o = eq
  <2>1. CASE NullableOnLeft(query, eq)
    <3> DEFINE l == eq.left
               r == eq.right
               j == eq.join
               f == eq.filters
    <3>1. eq = [left |-> l, right |-> r, join |-> j, filters |-> f]
      BY <1>2
    <3>2. o = [eq EXCEPT !.left = r, !.right = l]
      BY <2>1 DEF Oriented
    <3> HIDE DEF l, r, j, f
    <3>3. o.left = r /\ o.right = l /\ o.join = j
      BY <3>1, <3>2
    <3>4. QED
      BY <2>1, <3>3 DEF l, r, j
  <2>2. CASE ~ NullableOnLeft(query, eq)
    BY <2>2 DEF Oriented
  <2>3. QED
    BY <2>1, <2>2
<1>4. o.join = eq.join
  BY <1>3
<1>5. KindOf(query, o) = KindOf(query, eq)
  BY <1>4 DEF KindOf, InLeftJoin
<1>6. ASSUME InLeftJoin(query, eq), ~ UnsupportedShape(query)
      PROVE  o.right[1] = eq.join
  <2>1. eq.join \in {eq.left[1], eq.right[1]}
    BY <1>6 DEF UnsupportedShape
  <2>2. NullableOnLeft(query, eq) <=> eq.left[1] = eq.join
    BY <1>6 DEF NullableOnLeft
  <2>3. QED
    BY <1>3, <2>1, <2>2
<1>7. QED
  BY <1>1, <1>2, <1>3, <1>4, <1>5, <1>6 DEF IsEndpoint

Sides(query) == {Oriented(query, eq) : eq \in Crossing(query)}

GroupOf(query, o) ==
  {other \in Sides(query) : /\ other.left[1] = o.left[1] /\ other.right[1] = o.right[1]
                            /\ KindOf(query, other) = KindOf(query, o)}

PairsOf(query, o) == {<<x.left[2], x.right[2]>> : x \in GroupOf(query, o)}

EdgeOf(query, o) ==
  [left |-> o.left[1], right |-> o.right[1], kind |-> KindOf(query, o), pairs |-> PairsOf(query, o)]

LEMMA EdgesAreOfSides ==
  ASSUME NEW query
  PROVE  Edges(query) = {EdgeOf(query, o) : o \in Sides(query)}
BY DEF Edges, EdgeOf, PairsOf, GroupOf, Sides, KindOf

(* Every pair of an edge is an equality of the query, of the edge's kind.  *)
LEMMA EdgesJoin ==
  ASSUME NEW query \in Queries, NEW e \in Edges(query)
  PROVE  /\ e.left \in Refs(query) /\ e.right \in Refs(query) /\ e.left # e.right
         /\ query.scope[e.left] = query.scope[e.right] /\ e.kind \in {"left", "inner"}
         /\ e.pairs # {}
         /\ \A p \in e.pairs : \E eq \in Crossing(query) :
              /\ Spans(eq, e, p) /\ KindOf(query, eq) = e.kind
              /\ e.kind = "left" /\ ~ UnsupportedShape(query) => eq.join = e.right
<1>1. PICK o \in Sides(query) : e = EdgeOf(query, o)
  BY EdgesAreOfSides
<1>2. PICK eq \in Crossing(query) : o = Oriented(query, eq)
  BY DEF Sides
<1>3. /\ e.left = o.left[1] /\ e.right = o.right[1] /\ e.kind = KindOf(query, o)
      /\ e.pairs = PairsOf(query, o)
  BY <1>1 DEF EdgeOf
<1>4. /\ e.left \in Refs(query) /\ e.right \in Refs(query) /\ e.left # e.right
      /\ query.scope[e.left] = query.scope[e.right]
  BY <1>2, <1>3, OrientedSpans
<1>5. e.kind \in {"left", "inner"}
  BY <1>3 DEF KindOf
<1>6. e.pairs # {}
  <2>1. o \in GroupOf(query, o)
    BY DEF GroupOf
  <2>2. <<o.left[2], o.right[2]>> \in PairsOf(query, o)
    BY <2>1 DEF PairsOf
  <2>3. QED
    BY <1>3, <2>2
<1>7. ASSUME NEW p \in e.pairs
      PROVE  \E other \in Crossing(query) :
               /\ Spans(other, e, p) /\ KindOf(query, other) = e.kind
               /\ e.kind = "left" /\ ~ UnsupportedShape(query) => other.join = e.right
  <2>1. PICK x \in GroupOf(query, o) : p = <<x.left[2], x.right[2]>>
    BY <1>3, <1>7 DEF PairsOf
  <2>2. /\ x \in Sides(query) /\ x.left[1] = e.left /\ x.right[1] = e.right
        /\ KindOf(query, x) = e.kind
    BY <1>3, <2>1 DEF GroupOf
  <2>3. PICK other \in Crossing(query) : x = Oriented(query, other)
    BY <2>2 DEF Sides
  <2>4. /\ x.left = <<x.left[1], x.left[2]>> /\ x.right = <<x.right[1], x.right[2]>>
        /\ \/ other.left = x.left /\ other.right = x.right
           \/ other.left = x.right /\ other.right = x.left
        /\ KindOf(query, x) = KindOf(query, other)
        /\ InLeftJoin(query, other) /\ ~ UnsupportedShape(query) => x.right[1] = other.join
    BY <2>3, OrientedSpans
  <2>5. p[1] = x.left[2] /\ p[2] = x.right[2]
    BY <2>1
  <2>6. Spans(other, e, p)
    BY <2>2, <2>4, <2>5 DEF Spans
  <2>7. e.kind = "left" => InLeftJoin(query, other)
    BY <2>2, <2>4 DEF KindOf
  <2>8. QED
    BY <2>2, <2>4, <2>6, <2>7
<1>8. QED
  BY <1>4, <1>5, <1>6, <1>7

(* Every equality between two instances is of an edge.                     *)
LEMMA CrossingsAreEdges ==
  ASSUME NEW query \in Queries, NEW eq \in Crossing(query)
  PROVE  \E e \in Edges(query) : {e.left, e.right} = {eq.left[1], eq.right[1]}
<1>1. PICK o \in Sides(query) : o = Oriented(query, eq)
  BY DEF Sides
<1>2. PICK e \in Edges(query) : e = EdgeOf(query, o)
  BY EdgesAreOfSides
<1>3. e.left = o.left[1] /\ e.right = o.right[1]
  BY <1>2 DEF EdgeOf
<1>4. \/ eq.left = o.left /\ eq.right = o.right
      \/ eq.left = o.right /\ eq.right = o.left
  BY <1>1, OrientedSpans
<1>5. QED
  BY <1>3, <1>4

LEMMA EdgesAreFinite ==
  ASSUME NEW query \in Queries
  PROVE  IsFiniteSet(Edges(query))
<1> DEFINE S == Crossing(query)
           edge == [eq \in S |-> EdgeOf(query, Oriented(query, eq))]
           T == {edge[eq] : eq \in S}
<1>1. IsFiniteSet(S)
  <2>1. S \in SUBSET query.equalities
    BY DEF Crossing
  <2>2. IsFiniteSet(query.equalities)
    BY QueriesAreTyped
  <2> HIDE DEF S
  <2>3. QED
    BY <2>1, <2>2, FS_Subset
<1>2. T = Edges(query)
  BY EdgesAreOfSides DEF Sides
<1>3. edge \in Surjection(S, T)
  <2>1. edge \in [S -> T] /\ \A t \in T : \E s \in S : edge[s] = t
    OBVIOUS
  <2> HIDE DEF edge, S, T
  <2>2. QED
    BY <2>1 DEF Surjection
<1> HIDE DEF edge, S, T
<1>4. IsFiniteSet(T)
  BY <1>1, <1>3, FS_Surjection
<1>5. QED
  BY <1>2, <1>4

EdgeKey(e) == <<e.left, e.right, IF e.kind = "inner" THEN 0 ELSE 1>>

EarlierEdges(query) ==
  {pair \in Edges(query) \X Edges(query) : EarlierEdge(pair[1], pair[2])}

LEMMA EdgesAreOrdered ==
  ASSUME NEW query \in Queries
  PROVE  IsOrder(EarlierEdges(query), Edges(query))
<1> DEFINE E == Edges(query)
<1>1. \A e \in E : EdgeKey(e) \in [1 .. 3 -> Nat]
  <2> SUFFICES ASSUME NEW e \in E
               PROVE  EdgeKey(e) \in [1 .. 3 -> Nat]
    OBVIOUS
  <2> DEFINE k == IF e.kind = "inner" THEN 0 ELSE 1
  <2>1. e.left \in Nat /\ e.right \in Nat
    BY EdgesJoin, QueriesAreTyped
  <2>2. k \in Nat /\ EdgeKey(e) = <<e.left, e.right, k>>
    BY DEF EdgeKey
  <2> HIDE DEF k
  <2>3. <<e.left, e.right, k>> \in [1 .. 3 -> Nat]
    BY <2>1, <2>2
  <2>4. QED
    BY <2>2, <2>3
<1>2. \A e, f \in E : EdgeKey(e) = EdgeKey(f) => e = f
  <2> SUFFICES ASSUME NEW e \in E, NEW f \in E, EdgeKey(e) = EdgeKey(f)
               PROVE  e = f
    OBVIOUS
  <2>1. PICK o \in Sides(query) : e = EdgeOf(query, o)
    BY EdgesAreOfSides
  <2>2. PICK x \in Sides(query) : f = EdgeOf(query, x)
    BY EdgesAreOfSides
  <2>3. \A g : EdgeKey(g)[1] = g.left /\ EdgeKey(g)[2] = g.right
               /\ EdgeKey(g)[3] = IF g.kind = "inner" THEN 0 ELSE 1
    BY DEF EdgeKey
  <2>4. e.left = f.left /\ e.right = f.right /\ (e.kind = "inner" <=> f.kind = "inner")
    BY <2>3
  <2>5. e.kind = f.kind
    BY <2>4, EdgesJoin
  <2>6. o.left[1] = x.left[1] /\ o.right[1] = x.right[1] /\ KindOf(query, o) = KindOf(query, x)
    BY <2>1, <2>2, <2>4, <2>5 DEF EdgeOf
  <2>7. PairsOf(query, o) = PairsOf(query, x)
    BY <2>6 DEF PairsOf, GroupOf
  <2>8. QED
    BY <2>1, <2>2, <2>6, <2>7 DEF EdgeOf
<1>3. \A e, f \in E : <<e, f>> \in EarlierEdges(query) <=> Lower(EdgeKey(e), EdgeKey(f))
  BY DEF EarlierEdges, EarlierEdge, EdgeKey
<1> HIDE DEF E
<1>4. \A e \in E : ~ Lower(EdgeKey(e), EdgeKey(e))
  BY <1>1, KeysAreOrdered
<1>5. \A e, f \in E : e # f => Lower(EdgeKey(e), EdgeKey(f)) \/ Lower(EdgeKey(f), EdgeKey(e))
  BY <1>1, <1>2, KeysAreOrdered
<1>6. \A e, f, g \in E : Lower(EdgeKey(e), EdgeKey(f)) /\ Lower(EdgeKey(f), EdgeKey(g))
                         => Lower(EdgeKey(e), EdgeKey(g))
  BY <1>1, KeysAreOrdered
<1>7. IsOrder(EarlierEdges(query), E)
  BY <1>3, <1>4, <1>5, <1>6 DEF IsOrder
<1>8. QED
  BY <1>7 DEF E

LEMMA EdgesAreSorted ==
  ASSUME NEW query \in Queries
  PROVE  /\ Cardinality(Edges(query)) \in Nat
         /\ DOMAIN Sorted(Edges(query), EarlierEdge) = 1 .. Cardinality(Edges(query))
         /\ \A i \in DOMAIN Sorted(Edges(query), EarlierEdge) :
              Sorted(Edges(query), EarlierEdge)[i] \in Edges(query)
         /\ \A e \in Edges(query) : \E i \in DOMAIN Sorted(Edges(query), EarlierEdge) :
              Sorted(Edges(query), EarlierEdge)[i] = e
<1> DEFINE S == Edges(query)
           R == EarlierEdges(query)
           rank == [e \in S |-> Cardinality({f \in S : <<f, e>> \in R})]
           s == Sorted(S, EarlierEdge)
           Earliers(e) == Cardinality({f \in S : EarlierEdge(f, e)})
<1>1. IsOrder(R, S) /\ IsFiniteSet(S)
  BY EdgesAreOrdered, EdgesAreFinite
<1>2. Places(rank, S, R)
  BY DEF Places
<1>3. \A e \in S : rank[e] = Earliers(e)
  <2> SUFFICES ASSUME NEW e \in S
               PROVE  rank[e] = Earliers(e)
    OBVIOUS
  <2>1. {f \in S : <<f, e>> \in R} = {f \in S : EarlierEdge(f, e)}
    BY DEF EarlierEdges
  <2>2. QED
    BY <2>1
<1> HIDE DEF rank
<1>4. s = [i \in 1 .. Cardinality(S) |-> CHOOSE e \in S : Earliers(e) + 1 = i]
  BY DEF Sorted, Before
<1> HIDE DEF Earliers
<1>5. IsSorting(s, S, rank)
  <2> HIDE DEF s, S
  <2>1. ASSUME NEW i \in 1 .. Cardinality(S), NEW e \in S, rank[e] + 1 = i
        PROVE  s[i] \in S /\ rank[s[i]] + 1 = i
    <3> DEFINE x == CHOOSE f \in S : Earliers(f) + 1 = i
    <3>1. \E f \in S : Earliers(f) + 1 = i
      BY <1>3, <2>1
    <3>2. x \in S /\ Earliers(x) + 1 = i
      BY <3>1
    <3>3. s[i] = x
      BY <1>4
    <3> HIDE DEF x
    <3>4. QED
      BY <1>3, <3>2, <3>3
  <2>2. DOMAIN s = 1 .. Cardinality(S)
    BY <1>4
  <2>3. QED
    BY <2>1, <2>2 DEF IsSorting
<1> HIDE DEF s, S, R
<1>6. /\ Cardinality(S) \in Nat /\ DOMAIN s = 1 .. Cardinality(S)
      /\ \A i \in DOMAIN s : s[i] \in S
      /\ \A e \in S : \E i \in DOMAIN s : s[i] = e
  BY <1>1, <1>2, <1>5, SortingIsOnto
<1>7. QED
  BY <1>6 DEF s, S

-----------------------------------------------------------------------------
(* What a matched edge joins.                                              *)

(* A relationship of several columns joins two entities. (Between two      *)
(* instances of one entity its pairs of columns could be written in        *)
(* different directions, which matching does not tell apart.)              *)
ReflexiveAreSingle ==
  \A r \in Relationships :
    Catalog[r].child = Catalog[r].parent => Len(Catalog[r].childColumns) = 1

(* Pair p of the edge is pair i of the relationship, its child on the left *)
(* or on the right.                                                        *)
ReadsLeft(query, e, r, i, p) ==
  /\ query.entity[e.left] = Catalog[r].child /\ p[1] = Catalog[r].childColumns[i]
  /\ query.entity[e.right] = Catalog[r].parent /\ p[2] = Catalog[r].parentColumns[i]

ReadsRight(query, e, r, i, p) ==
  /\ query.entity[e.right] = Catalog[r].child /\ p[2] = Catalog[r].childColumns[i]
  /\ query.entity[e.left] = Catalog[r].parent /\ p[1] = Catalog[r].parentColumns[i]

LEMMA RelationshipsAreTyped ==
  ASSUME NEW r \in Relationships
  PROVE  /\ r \in Nat /\ Catalog[r].child \in Entities /\ Catalog[r].parent \in Entities
         /\ Len(Catalog[r].childColumns) \in Nat
         /\ DOMAIN Catalog[r].childColumns = 1 .. Len(Catalog[r].childColumns)
         /\ DOMAIN Catalog[r].parentColumns = DOMAIN Catalog[r].childColumns
         /\ \A i \in DOMAIN Catalog[r].childColumns :
              /\ Catalog[r].childColumns[i] \in Columns[Catalog[r].child]
              /\ Catalog[r].parentColumns[i] \in Columns[Catalog[r].parent]
<1> DEFINE cc == Catalog[r].childColumns
           pc == Catalog[r].parentColumns
<1>1. /\ r \in Nat /\ Catalog[r].child \in Entities /\ Catalog[r].parent \in Entities
      /\ cc \in Seq(Columns[Catalog[r].child]) /\ pc \in Seq(Columns[Catalog[r].parent])
      /\ Len(cc) = Len(pc)
  BY PlannerConstants
<1> HIDE DEF cc, pc
<1>2. /\ Len(cc) \in Nat /\ DOMAIN cc = 1 .. Len(cc) /\ DOMAIN pc = 1 .. Len(pc)
  BY <1>1, LenProperties
<1>3. \A i \in 1 .. Len(cc) : cc[i] \in Columns[Catalog[r].child] /\ pc[i] \in Columns[Catalog[r].parent]
  BY <1>1, ElementOfSeq
<1>4. QED
  BY <1>1, <1>2, <1>3 DEF cc, pc

LEMMA PairsAreRead ==
  ASSUME NEW query, NEW e, NEW r, SeedEndpoints(r) = Endpoints(query, e)
  PROVE  /\ \A i \in DOMAIN Catalog[r].childColumns : \E p \in e.pairs :
              ReadsLeft(query, e, r, i, p) \/ ReadsRight(query, e, r, i, p)
         /\ \A p \in e.pairs : \E i \in DOMAIN Catalog[r].childColumns :
              ReadsLeft(query, e, r, i, p) \/ ReadsRight(query, e, r, i, p)
<1> DEFINE a == query.entity[e.left]
           b == query.entity[e.right]
           c == Catalog[r].child
           d == Catalog[r].parent
           cc == Catalog[r].childColumns
           pc == Catalog[r].parentColumns
           seeds == {{<<c, cc[i]>>, <<d, pc[i]>>} : i \in DOMAIN cc}
           ends == {{<<a, p[1]>>, <<b, p[2]>>} : p \in e.pairs}
<1>1. seeds = ends
  BY DEF SeedEndpoints, Endpoints
<1>2. ASSUME NEW i \in DOMAIN cc, NEW p \in e.pairs,
             {<<a, p[1]>>, <<b, p[2]>>} = {<<c, cc[i]>>, <<d, pc[i]>>}
      PROVE  ReadsLeft(query, e, r, i, p) \/ ReadsRight(query, e, r, i, p)
  <2> DEFINE w == <<a, p[1]>>
             x == <<b, p[2]>>
             y == <<c, cc[i]>>
             z == <<d, pc[i]>>
  <2>1. {w, x} = {y, z}
    BY <1>2
  <2>2. (w = y => a = c /\ p[1] = cc[i]) /\ (w = z => a = d /\ p[1] = pc[i])
    OBVIOUS
  <2>3. (x = y => b = c /\ p[2] = cc[i]) /\ (x = z => b = d /\ p[2] = pc[i])
    OBVIOUS
  <2> HIDE DEF w, x, y, z
  <2>4. (w = y /\ x = z) \/ (w = z /\ x = y)
    BY <2>1
  <2>5. QED
    BY <2>2, <2>3, <2>4 DEF ReadsLeft, ReadsRight
<1>3. ASSUME NEW i \in DOMAIN cc
      PROVE  \E p \in e.pairs : ReadsLeft(query, e, r, i, p) \/ ReadsRight(query, e, r, i, p)
  <2>1. {<<c, cc[i]>>, <<d, pc[i]>>} \in seeds
    OBVIOUS
  <2>2. PICK p \in e.pairs : {<<a, p[1]>>, <<b, p[2]>>} = {<<c, cc[i]>>, <<d, pc[i]>>}
    BY <1>1, <2>1
  <2>3. QED
    BY <1>2, <2>2
<1>4. ASSUME NEW p \in e.pairs
      PROVE  \E i \in DOMAIN cc : ReadsLeft(query, e, r, i, p) \/ ReadsRight(query, e, r, i, p)
  <2>1. {<<a, p[1]>>, <<b, p[2]>>} \in ends
    OBVIOUS
  <2>2. PICK i \in DOMAIN cc : {<<a, p[1]>>, <<b, p[2]>>} = {<<c, cc[i]>>, <<d, pc[i]>>}
    BY <1>1, <2>1
  <2>3. QED
    BY <1>2, <2>2
<1>5. QED
  BY <1>3, <1>4

(* The child is on the left exactly if all pairs read so.                  *)
LEMMA ChildIsFound ==
  ASSUME ReflexiveAreSingle, NEW query \in Queries, NEW e \in Edges(query),
         NEW r \in Relationships, SeedEndpoints(r) = Endpoints(query, e)
  PROVE  \A i \in DOMAIN Catalog[r].childColumns : \E p \in e.pairs :
           IF ChildIsLeft(query, e, r) THEN ReadsLeft(query, e, r, i, p)
                                       ELSE ReadsRight(query, e, r, i, p)
<1> DEFINE a == query.entity[e.left]
           c == Catalog[r].child
           d == Catalog[r].parent
           cc == Catalog[r].childColumns
           lefts == {<<a, p[1]>> : p \in e.pairs}
           children == {<<c, column>> : column \in ToSet(cc)}
           Left(i, p) == ReadsLeft(query, e, r, i, p)
           Right(i, p) == ReadsRight(query, e, r, i, p)
<1>1. /\ \A i \in DOMAIN cc : \E p \in e.pairs : Left(i, p) \/ Right(i, p)
      /\ \A p \in e.pairs : \E i \in DOMAIN cc : Left(i, p) \/ Right(i, p)
  BY PairsAreRead
<1>2. ChildIsLeft(query, e, r) <=> lefts = children
  BY DEF ChildIsLeft
<1>3. \A i \in DOMAIN cc : <<c, cc[i]>> \in children
  BY DEF ToSet
<1>4. \A x \in children : \E i \in DOMAIN cc : x = <<c, cc[i]>>
  BY DEF ToSet
<1>5. PICK p0 \in e.pairs : TRUE
  BY EdgesJoin
<1>6. \A i, p : Left(i, p) => a = c /\ p[1] = cc[i]
  BY DEF ReadsLeft
<1>7. \A i, p : Right(i, p) => a = d
  BY DEF ReadsRight
<1>8. CASE c # d
  <2>1. CASE a = c
    <3>1. /\ \A i \in DOMAIN cc : \E p \in e.pairs : Left(i, p)
          /\ \A p \in e.pairs : \E i \in DOMAIN cc : Left(i, p)
      BY <1>1, <1>7, <1>8, <2>1
    <3>2. \A x \in lefts : x \in children
      <4> SUFFICES ASSUME NEW p \in e.pairs
                   PROVE  <<a, p[1]>> \in children
        OBVIOUS
      <4>1. PICK i \in DOMAIN cc : a = c /\ p[1] = cc[i]
        BY <1>6, <3>1
      <4>2. QED
        BY <1>3, <4>1
    <3>3. \A x \in children : x \in lefts
      <4> SUFFICES ASSUME NEW x \in children
                   PROVE  x \in lefts
        OBVIOUS
      <4>1. PICK i \in DOMAIN cc : x = <<c, cc[i]>>
        BY <1>4
      <4>2. PICK p \in e.pairs : a = c /\ p[1] = cc[i]
        BY <1>6, <3>1
      <4>3. x = <<a, p[1]>>
        BY <4>1, <4>2
      <4>4. QED
        BY <4>3
    <3> HIDE DEF lefts, children
    <3>4. ChildIsLeft(query, e, r)
      BY <1>2, <3>2, <3>3
    <3>5. QED
      BY <3>1, <3>4
  <2>2. CASE a # c
    <3>1. \A i \in DOMAIN cc : \E p \in e.pairs : Right(i, p)
      BY <1>1, <1>6, <2>2
    <3>2. <<a, p0[1]>> \in lefts
      OBVIOUS
    <3>3. \A x \in children : x[1] = c
      OBVIOUS
    <3>4. ~ (<<a, p0[1]>> \in children)
      BY <2>2, <3>3
    <3> HIDE DEF lefts, children
    <3>5. ~ ChildIsLeft(query, e, r)
      BY <1>2, <3>2, <3>4
    <3>6. QED
      BY <3>1, <3>5
  <2>3. QED
    BY <2>1, <2>2
<1>9. CASE c = d
  <2>1. DOMAIN cc = {1}
    BY <1>9, RelationshipsAreTyped DEF ReflexiveAreSingle
  <2>2. a = c
    BY <1>1, <1>5, <1>6, <1>7, <1>9
  <2>3. children = {<<c, cc[1]>>}
    BY <1>3, <1>4, <2>1
  <2>4. CASE ChildIsLeft(query, e, r)
    <3>1. PICK p \in e.pairs : Left(1, p) \/ Right(1, p)
      BY <1>1, <2>1
    <3>2. <<a, p[1]>> \in {<<c, cc[1]>>}
      BY <1>2, <2>3, <2>4
    <3>3. p[1] = cc[1]
      BY <3>2
    <3>4. Left(1, p)
      BY <1>9, <3>1, <3>3 DEF ReadsLeft, ReadsRight
    <3>5. QED
      BY <2>1, <2>4, <3>4
  <2>5. CASE ~ ChildIsLeft(query, e, r)
    <3>1. \E p \in e.pairs : p[1] # cc[1]
      <4> SUFFICES ASSUME \A p \in e.pairs : p[1] = cc[1]
                   PROVE  FALSE
        OBVIOUS
      <4>1. \A x \in lefts : x \in {<<c, cc[1]>>}
        BY <2>2
      <4>2. <<a, p0[1]>> \in lefts /\ <<a, p0[1]>> = <<c, cc[1]>>
        BY <2>2
      <4> HIDE DEF lefts
      <4>3. lefts = {<<c, cc[1]>>}
        BY <4>1, <4>2
      <4>4. QED
        BY <1>2, <2>3, <2>5, <4>3
    <3>2. PICK p \in e.pairs : p[1] # cc[1]
      BY <3>1
    <3>3. Right(1, p)
      <4>1. PICK i \in DOMAIN cc : Left(i, p) \/ Right(i, p)
        BY <1>1
      <4>2. i = 1
        BY <2>1
      <4>3. QED
        BY <1>6, <3>2, <4>1, <4>2
    <3>4. QED
      BY <2>1, <2>5, <3>3
  <2>6. QED
    BY <2>4, <2>5
<1>10. QED
  BY <1>8, <1>9

(* The columns of a matched relationship are compared by the query.        *)
Compares(query, e, m, i, eq) ==
  /\ KindOf(query, eq) = e.kind
  /\ e.kind = "left" /\ ~ UnsupportedShape(query) => eq.join = e.right
  /\ LET child == <<m.child, Catalog[m.rel].childColumns[i]>>
         parent == <<m.parent, Catalog[m.rel].parentColumns[i]>>
     IN  \/ eq.left = child /\ eq.right = parent
         \/ eq.left = parent /\ eq.right = child

LEMMA MatchedIsOf ==
  ASSUME NEW query, NEW e, Matching(query, e) # {}, NEW m, m = MatchedEdge(query, e)
  PROVE  /\ m.rel \in Authorized /\ m.rel \in Relationships
         /\ SeedEndpoints(m.rel) = Endpoints(query, e)
         /\ m.kind = e.kind /\ m.right = e.right
         /\ ChildIsLeft(query, e, m.rel) => m.child = e.left /\ m.parent = e.right
         /\ ~ ChildIsLeft(query, e, m.rel) => m.child = e.right /\ m.parent = e.left
<1> DEFINE r == CHOOSE r \in Matching(query, e) : \A other \in Matching(query, e) : r <= other
<1>1. r \in Matching(query, e)
  <2> DEFINE S == Matching(query, e)
  <2>1. S \in SUBSET Nat
    BY RelationshipsAreTyped DEF Matching, Authorized
  <2> HIDE DEF S
  <2>2. \E x \in S : \A other \in S : x <= other
    <3>1. S # {}
      BY DEF S
    <3>2. QED
      BY <2>1, <3>1, LeastIsThere
  <2>3. QED
    BY <2>2 DEF S
<1>2. m = [rel |-> r, kind |-> e.kind, right |-> e.right,
           child |-> IF ChildIsLeft(query, e, r) THEN e.left ELSE e.right,
           parent |-> IF ChildIsLeft(query, e, r) THEN e.right ELSE e.left]
  BY DEF MatchedEdge
<1> HIDE DEF r
<1>3. m.rel = r /\ m.kind = e.kind /\ m.right = e.right
  BY <1>2
<1>4. /\ ChildIsLeft(query, e, r) => m.child = e.left /\ m.parent = e.right
      /\ ~ ChildIsLeft(query, e, r) => m.child = e.right /\ m.parent = e.left
  BY <1>2
<1>5. r \in Authorized /\ r \in Relationships /\ SeedEndpoints(r) = Endpoints(query, e)
  BY <1>1 DEF Matching, Authorized
<1>6. QED
  BY <1>3, <1>4, <1>5

LEMMA MatchedJoins ==
  ASSUME ReflexiveAreSingle, NEW query \in Queries, NEW e \in Edges(query),
         Matching(query, e) # {}, NEW m, m = MatchedEdge(query, e)
  PROVE  /\ m.rel \in Authorized /\ m.rel \in Relationships /\ m.kind = e.kind /\ m.right = e.right
         /\ \/ m.child = e.left /\ m.parent = e.right
            \/ m.child = e.right /\ m.parent = e.left
         /\ query.entity[m.child] = Catalog[m.rel].child
         /\ query.entity[m.parent] = Catalog[m.rel].parent
         /\ \E i \in DOMAIN Catalog[m.rel].childColumns : TRUE
         /\ \A i \in DOMAIN Catalog[m.rel].childColumns :
              \E eq \in Crossing(query) : Compares(query, e, m, i, eq)
<1> DEFINE r == m.rel
<1>1. /\ r \in Authorized /\ r \in Relationships /\ SeedEndpoints(r) = Endpoints(query, e)
      /\ m.kind = e.kind /\ m.right = e.right
      /\ ChildIsLeft(query, e, r) => m.child = e.left /\ m.parent = e.right
      /\ ~ ChildIsLeft(query, e, r) => m.child = e.right /\ m.parent = e.left
  BY MatchedIsOf
<1>2. m.rel = r
  OBVIOUS
<1> HIDE DEF r
<1>3. m.rel = r /\ m.kind = e.kind /\ m.right = e.right
  BY <1>1, <1>2
<1>4. /\ ChildIsLeft(query, e, r) => m.child = e.left /\ m.parent = e.right
      /\ ~ ChildIsLeft(query, e, r) => m.child = e.right /\ m.parent = e.left
  BY <1>1
<1>5. r \in Authorized /\ r \in Relationships /\ SeedEndpoints(r) = Endpoints(query, e)
  BY <1>1
<1>6. \A i \in DOMAIN Catalog[r].childColumns : \E p \in e.pairs :
        IF ChildIsLeft(query, e, r) THEN ReadsLeft(query, e, r, i, p)
                                    ELSE ReadsRight(query, e, r, i, p)
  BY <1>5, ChildIsFound
<1>7. \E i \in DOMAIN Catalog[r].childColumns : TRUE
  BY <1>5, EdgesJoin, PairsAreRead
<1>8. query.entity[m.child] = Catalog[r].child /\ query.entity[m.parent] = Catalog[r].parent
  BY <1>4, <1>6, <1>7 DEF ReadsLeft, ReadsRight
<1>9. ASSUME NEW i \in DOMAIN Catalog[r].childColumns
      PROVE  \E eq \in Crossing(query) : Compares(query, e, m, i, eq)
  <2> DEFINE child == <<m.child, Catalog[r].childColumns[i]>>
             parent == <<m.parent, Catalog[r].parentColumns[i]>>
  <2>1. PICK p \in e.pairs : IF ChildIsLeft(query, e, r) THEN ReadsLeft(query, e, r, i, p)
                                                         ELSE ReadsRight(query, e, r, i, p)
    BY <1>6
  <2>2. PICK eq \in Crossing(query) :
          /\ Spans(eq, e, p) /\ KindOf(query, eq) = e.kind
          /\ e.kind = "left" /\ ~ UnsupportedShape(query) => eq.join = e.right
    BY EdgesJoin
  <2>3. \/ <<e.left, p[1]>> = child /\ <<e.right, p[2]>> = parent
        \/ <<e.left, p[1]>> = parent /\ <<e.right, p[2]>> = child
    BY <1>4, <2>1 DEF ReadsLeft, ReadsRight
  <2>4. \/ eq.left = child /\ eq.right = parent
        \/ eq.left = parent /\ eq.right = child
    BY <2>2, <2>3 DEF Spans
  <2>5. QED
    BY <1>3, <2>2, <2>4 DEF Compares
<1>10. QED
  BY <1>3, <1>4, <1>5, <1>7, <1>8, <1>9

-----------------------------------------------------------------------------
(* The rows of a result.                                                   *)

(* A query without derived tables.                                         *)
IsFlat(query) ==
  \A ref \in Refs(query) : query.inner[ref] = 0 /\ query.scope[ref] = query.scope[1]

LEMMA RowsOfResults ==
  ASSUME TablesInv, NEW query \in Queries, IsFlat(query), NEW row \in Result(query),
         NEW ref \in Refs(query)
  PROVE  /\ row \in [Refs(query) -> 0 .. MaxRows]
         /\ row[ref] = 0 => ref \in query.nullable /\ Found(query, row, ref) = {}
         /\ row[ref] # 0 => /\ row[ref] \in Found(query, row, ref)
                            /\ row[ref] \in DOMAIN tables[query.entity[ref]]
                            /\ Meet(query, row, Clause(query, ref))
         /\ Meet(query, row, Clause(query, 0))
<1>1. /\ row \in [Refs(query) -> 0 .. MaxRows] /\ Meet(query, row, Clause(query, 0))
      /\ IF Found(query, row, ref) = {} /\ ref \in query.nullable
         THEN row[ref] = 0 ELSE row[ref] \in Found(query, row, ref)
  BY DEF Result
<1>2. Found(query, row, ref) =
        {i \in DOMAIN tables[query.entity[ref]] :
           Meet(query, [row EXCEPT ![ref] = i], Clause(query, ref))}
  BY DEF Found, IsFlat
<1>3. 0 \notin DOMAIN tables[query.entity[ref]]
  <2>1. query.entity[ref] \in Entities
    BY QueriesAreTyped
  <2>2. QED
    BY <2>1 DEF TablesInv
<1>4. ASSUME row[ref] \in Found(query, row, ref)
      PROVE  /\ row[ref] \in DOMAIN tables[query.entity[ref]]
             /\ Meet(query, row, Clause(query, ref))
  <2>1. [row EXCEPT ![ref] = row[ref]] = row
    BY <1>1
  <2>2. row[ref] \in DOMAIN tables[query.entity[ref]]
        /\ Meet(query, [row EXCEPT ![ref] = row[ref]], Clause(query, ref))
    BY <1>2, <1>4
  <2>3. QED
    BY <2>1, <2>2
<1>5. QED
  BY <1>1, <1>3, <1>4

(* Columns are read from rows of the tables.                               *)
RowsInv == \A e \in Entities : \A i \in DOMAIN tables[e] : tables[e][i] \in Rows(e)

(* An equality that restricts the result holds of every row, or of every   *)
(* row for which its left join found a match.                              *)
LEMMA EqualitiesHold ==
  ASSUME TablesInv, NEW query \in Queries, IsFlat(query), NEW row \in Result(query),
         NEW eq \in Crossing(query), eq.filters,
         KindOf(query, eq) = "inner" \/ (eq.join \in Refs(query) /\ row[eq.join] # 0)
  PROVE  /\ row[eq.left[1]] # 0 /\ row[eq.right[1]] # 0
         /\ Value(query, row, eq.left) # Null
         /\ Value(query, row, eq.left) = Value(query, row, eq.right)
<1>1. eq \in query.equalities /\ eq.join \in {0} \cup Refs(query)
  BY EqualitiesAreTyped DEF Crossing
<1>2. eq \in Clause(query, eq.join)
  BY <1>1 DEF Clause
<1>3. Meet(query, row, Clause(query, eq.join))
  <2>1. CASE eq.join = 0
    <3>1. 1 \in Refs(query)
      BY QueriesAreTyped
    <3>2. QED
      BY <2>1, <3>1, RowsOfResults
  <2>2. CASE eq.join \in Refs(query)
    <3>1. eq.join \notin query.nullable \/ row[eq.join] # 0
      BY DEF KindOf, InLeftJoin
    <3>2. QED
      BY <2>2, <3>1, RowsOfResults
  <2>3. QED
    BY <1>1, <2>1, <2>2
<1>4. /\ Value(query, row, eq.left) # Null
      /\ Value(query, row, eq.left) = Value(query, row, eq.right)
  BY <1>2, <1>3 DEF Meet
<1>5. QED
  BY <1>4 DEF Value

EveryOneFilters(query) == \A eq \in Crossing(query) : eq.filters

(* The edge restricts this row: it is no left join, or one with a match.   *)
Restricts(e, row) == e.kind = "inner" \/ row[e.right] # 0

(* Two instances joined by a matched edge are joined by the relationship.  *)
LEMMA MatchedRowsMeet ==
  ASSUME TablesInv, RowsInv, ReflexiveAreSingle,
         NEW query \in Queries, IsFlat(query), EveryOneFilters(query), ~ UnsupportedShape(query),
         NEW e \in Edges(query), Matching(query, e) # {}, NEW m, m = MatchedEdge(query, e),
         NEW row \in Result(query), Restricts(e, row)
  PROVE  /\ row[m.child] # 0 /\ row[m.parent] # 0
         /\ RowsMeet(m.rel, row[m.child], row[m.parent])
<1> DEFINE r == m.rel
           cc == Catalog[r].childColumns
           pc == Catalog[r].parentColumns
           C == Catalog[r].child
           P == Catalog[r].parent
           below == tables[C][row[m.child]]
           above == tables[P][row[m.parent]]
<1>1. /\ r \in Relationships /\ query.entity[m.child] = C /\ query.entity[m.parent] = P
      /\ \E i \in DOMAIN cc : TRUE
      /\ \A i \in DOMAIN cc : \E eq \in Crossing(query) : Compares(query, e, m, i, eq)
      /\ m.child \in Refs(query) /\ m.parent \in Refs(query)
  BY MatchedJoins, EdgesJoin
<1>2. /\ DOMAIN pc = DOMAIN cc
      /\ \A i \in DOMAIN cc : cc[i] \in Columns[C] /\ pc[i] \in Columns[P]
      /\ C \in Entities /\ P \in Entities
  BY <1>1, RelationshipsAreTyped
<1>3. e.kind \in {"left", "inner"} /\ e.right \in Refs(query)
  BY EdgesJoin
<1>4. ASSUME NEW i \in DOMAIN cc
      PROVE  /\ row[m.child] # 0 /\ row[m.parent] # 0
             /\ below[cc[i]] # Null /\ below[cc[i]] = above[pc[i]]
  <2>1. PICK eq \in Crossing(query) : Compares(query, e, m, i, eq)
    BY <1>1
  <2>2. KindOf(query, eq) = "inner" \/ (eq.join \in Refs(query) /\ row[eq.join] # 0)
    BY <1>3, <2>1 DEF Compares, Restricts
  <2>3. eq.filters
    BY DEF EveryOneFilters
  <2>4. /\ row[eq.left[1]] # 0 /\ row[eq.right[1]] # 0
        /\ Value(query, row, eq.left) # Null
        /\ Value(query, row, eq.left) = Value(query, row, eq.right)
    BY <2>2, <2>3, EqualitiesHold
  <2> DEFINE child == <<m.child, cc[i]>>
             parent == <<m.parent, pc[i]>>
  <2>5. \/ eq.left = child /\ eq.right = parent
        \/ eq.left = parent /\ eq.right = child
    BY <2>1 DEF Compares
  <2>6. /\ row[child[1]] # 0 /\ row[parent[1]] # 0
        /\ Value(query, row, child) # Null /\ Value(query, row, child) = Value(query, row, parent)
    BY <2>4, <2>5
  <2>7. Value(query, row, child) = below[cc[i]] /\ Value(query, row, parent) = above[pc[i]]
    BY <1>1, <2>6 DEF Value
  <2>8. QED
    BY <2>6, <2>7
<1>5. row[m.child] # 0 /\ row[m.parent] # 0
  BY <1>1, <1>4
<1>6. row[m.child] \in DOMAIN tables[C] /\ row[m.parent] \in DOMAIN tables[P]
  BY <1>1, <1>5, RowsOfResults
<1>7. below \in Rows(C)
  BY <1>2, <1>6 DEF RowsInv
<1> DEFINE key == [i \in DOMAIN cc |-> below[cc[i]]]
<1>8. KeyOf(below, cc) = key
  BY <1>4 DEF KeyOf
<1>9. KeyOf(above, pc) = key
  <2>1. \A i \in DOMAIN pc : above[pc[i]] # Null /\ above[pc[i]] = below[cc[i]]
    BY <1>2, <1>4
  <2>2. KeyOf(above, pc) = [i \in DOMAIN pc |-> above[pc[i]]]
    BY <2>1 DEF KeyOf
  <2> HIDE DEF below, above, cc, pc
  <2>3. QED
    BY <1>2, <2>1, <2>2
<1>10. key # Null
  <2>1. \A i \in DOMAIN cc : below[cc[i]] \in Values
    BY <1>2, <1>4, <1>7 DEF Rows
  <2>2. Null \notin [DOMAIN cc -> Values]
    BY <1>1, SqlConstants
  <2> HIDE DEF below, cc
  <2>3. key \in [DOMAIN cc -> Values]
    BY <2>1
  <2>4. QED
    BY <2>2, <2>3
<1>11. Meets(r, row[m.child], row[m.parent])
  BY <1>8, <1>9, <1>10 DEF Meets
<1>12. QED
  BY <1>5, <1>6, <1>11 DEF RowsMeet

-----------------------------------------------------------------------------
(* The search for the grain.                                               *)

IsRest(rest, s, t) == s # <<>> /\ rest = Tail(s) \o t

LEMMA TailAndMore ==
  ASSUME NEW S, NEW s \in Seq(S), NEW t \in Seq(S), NEW rest, IsRest(rest, s, t)
  PROVE  /\ rest \in Seq(S) /\ Head(s) \in S
         /\ \A k \in DOMAIN s : s[k] = Head(s) \/ \E j \in DOMAIN rest : rest[j] = s[k]
         /\ \A k \in DOMAIN t : \E j \in DOMAIN rest : rest[j] = t[k]
         /\ \A j \in DOMAIN rest : (\E k \in DOMAIN s : rest[j] = s[k]) \/ \E k \in DOMAIN t : rest[j] = t[k]
<1> DEFINE tail == Tail(s)
<1>1. /\ Head(s) \in S /\ tail \in Seq(S) /\ Len(tail) = Len(s) - 1
      /\ \A i \in 1 .. Len(tail) : tail[i] = s[i + 1]
  BY HeadTailProperties DEF IsRest
<1>2. Head(s) = s[1]
  OBVIOUS
<1>3. /\ Len(s) \in Nat /\ DOMAIN s = 1 .. Len(s) /\ Len(t) \in Nat /\ DOMAIN t = 1 .. Len(t)
      /\ Len(tail) \in Nat
  BY <1>1, LenProperties
<1> HIDE DEF tail
<1>4. /\ rest \in Seq(S) /\ Len(rest) = Len(tail) + Len(t)
      /\ \A i \in 1 .. Len(tail) + Len(t) :
           rest[i] = IF i <= Len(tail) THEN tail[i] ELSE t[i - Len(tail)]
  BY <1>1, ConcatProperties DEF tail, IsRest
<1>5. DOMAIN rest = 1 .. Len(tail) + Len(t)
  BY <1>4, LenProperties
<1>6. ASSUME NEW k \in DOMAIN s, k # 1
      PROVE  \E j \in DOMAIN rest : rest[j] = s[k]
  <2>1. /\ k - 1 \in DOMAIN rest /\ k - 1 \in 1 .. Len(tail) /\ (k - 1) + 1 = k
        /\ k - 1 <= Len(tail)
    BY <1>1, <1>3, <1>5, <1>6
  <2>2. rest[k - 1] = s[k]
    BY <1>1, <1>4, <1>5, <2>1
  <2>3. QED
    BY <2>1, <2>2
<1>7. ASSUME NEW k \in DOMAIN t
      PROVE  \E j \in DOMAIN rest : rest[j] = t[k]
  <2>1. /\ Len(tail) + k \in DOMAIN rest /\ ~ (Len(tail) + k <= Len(tail))
        /\ (Len(tail) + k) - Len(tail) = k
    BY <1>3, <1>5
  <2>2. rest[Len(tail) + k] = t[k]
    BY <1>4, <1>5, <2>1
  <2>3. QED
    BY <2>1, <2>2
<1>8. ASSUME NEW j \in DOMAIN rest
      PROVE  (\E k \in DOMAIN s : rest[j] = s[k]) \/ \E k \in DOMAIN t : rest[j] = t[k]
  <2>1. CASE j <= Len(tail)
    <3>1. j \in 1 .. Len(tail) /\ j + 1 \in DOMAIN s
      BY <1>1, <1>3, <1>5, <2>1
    <3>2. rest[j] = s[j + 1]
      BY <1>1, <1>4, <1>5, <2>1, <3>1
    <3>3. QED
      BY <3>1, <3>2
  <2>2. CASE ~ (j <= Len(tail))
    <3>1. j - Len(tail) \in DOMAIN t
      BY <1>3, <1>5, <2>2
    <3>2. rest[j] = t[j - Len(tail)]
      BY <1>4, <1>5, <2>2
    <3>3. QED
      BY <3>1, <3>2
  <2>3. QED
    BY <2>1, <2>2
<1>9. QED
  BY <1>1, <1>2, <1>4, <1>6, <1>7, <1>8

(* All edges of the query are matched, each by its relationship.           *)
IsMatched(query) ==
  /\ ~ UnsupportedShape(query)
  /\ \E n \in Nat : DOMAIN matched = 1 .. n
  /\ \A e \in Edges(query) :
       Matching(query, e) # {} /\ \E i \in DOMAIN matched : matched[i] = MatchedEdge(query, e)
  /\ \A i \in DOMAIN matched : \E e \in Edges(query) : matched[i] = MatchedEdge(query, e)

(* Where the search is, and where it goes on to.                           *)
PlacesOfSearch == Nat \X Nat

NextPlace(i, x) == <<Across(matched[i], x[1]), x[1]>>

(* A place from which nothing that is reached, however far, fans out: it   *)
(* belongs to places that do not fan out and lead to one another only.     *)
IsClosed(G) ==
  \A x \in G : /\ ~ FansOut(x[1], x[2])
               /\ \A i \in Onwards(x[1], x[2]) : NextPlace(i, x) \in G

IsGood(x) == \E G \in SUBSET PlacesOfSearch : x \in G /\ IsClosed(G)

LEMMA GoodGoesOn ==
  ASSUME NEW x, IsGood(x)
  PROVE  /\ ~ FansOut(x[1], x[2])
         /\ \A i \in Onwards(x[1], x[2]) : IsGood(NextPlace(i, x))
<1>1. PICK G \in SUBSET PlacesOfSearch : x \in G /\ IsClosed(G)
  BY DEF IsGood
<1>2. QED
  BY <1>1 DEF IsClosed, IsGood

LEMMA GoodBeforeGood ==
  ASSUME NEW x \in PlacesOfSearch, ~ FansOut(x[1], x[2]),
         \A i \in Onwards(x[1], x[2]) : IsGood(NextPlace(i, x))
  PROVE  IsGood(x)
<1> DEFINE G == {y \in PlacesOfSearch : IsGood(y)}
           H == G \cup {x}
<1>1. \A y : IsGood(y) => y \in G
  BY DEF IsGood
<1>2. ASSUME NEW y \in H
      PROVE  /\ ~ FansOut(y[1], y[2])
             /\ \A i \in Onwards(y[1], y[2]) : NextPlace(i, y) \in H
  <2>1. CASE y = x
    BY <1>1, <2>1
  <2>2. CASE y # x
    <3>1. IsGood(y)
      BY <2>2
    <3>2. QED
      BY <1>1, <3>1, GoodGoesOn
  <2>3. QED
    BY <2>1, <2>2
<1> HIDE DEF H
<1>3. IsClosed(H)
  BY <1>2 DEF IsClosed
<1>4. QED
  BY <1>3 DEF IsGood, H

LEMMA OnwardsAreSorted ==
  ASSUME NEW n \in Nat, DOMAIN matched = 1 .. n, NEW ref, NEW previous
  PROVE  /\ DOMAIN Ascending(Onwards(ref, previous)) = 1 .. Cardinality(Onwards(ref, previous))
         /\ Cardinality(Onwards(ref, previous)) \in Nat
         /\ \A k \in DOMAIN Ascending(Onwards(ref, previous)) :
              Ascending(Onwards(ref, previous))[k] \in Onwards(ref, previous)
         /\ \A i \in Onwards(ref, previous) : \E k \in DOMAIN Ascending(Onwards(ref, previous)) :
              Ascending(Onwards(ref, previous))[k] = i
<1> DEFINE S == Onwards(ref, previous)
<1>1. S \in SUBSET (1 .. n) /\ S \in SUBSET Nat
  BY DEF Onwards, Near
<1>2. IsFiniteSet(1 .. n)
  BY FirstNumbers
<1> HIDE DEF S
<1>3. IsFiniteSet(S)
  BY <1>1, <1>2, FS_Subset
<1>4. /\ DOMAIN Ascending(S) = 1 .. Cardinality(S) /\ Cardinality(S) \in Nat
      /\ \A k \in DOMAIN Ascending(S) : Ascending(S)[k] \in S
      /\ \A i \in S : \E k \in DOMAIN Ascending(S) : Ascending(S)[k] = i
  BY <1>1, <1>3, NumbersAreSorted
<1>5. QED
  BY <1>4 DEF S

(* While the search runs, the start is good if all that is pending is; so  *)
(* it is when nothing is pending any more.                                 *)
Ends(query, g) ==
  Cardinality(Named(query, sql.grain)) = 1 =>
    /\ g \notin NullableRefs(matched)
    /\ (\A k \in DOMAIN queue : IsGood(queue[k])) => IsGood(<<g, 0>>)

IsSearching(query) ==
  /\ IsMatched(query) /\ queue \in Seq(PlacesOfSearch)
  /\ outcome = "passes" => queue = <<>>
  /\ \A g \in Named(query, sql.grain) : Ends(query, g)

SearchInv ==
  (outcome = "passes" \/ queue # <<>>) /\ sql.plan = 0 =>
    evidence # None /\ \E query \in Queries : sql.query = query /\ IsSearching(query)

LEMMA SearchInvInit ==
  SqlInit => SearchInv
BY SqlConstants DEF SqlInit, SearchInv

LEMMA MatchesStay ==
  ASSUME UNCHANGED evidence
  PROVE  /\ \A query, e : Matching(query, e)' = Matching(query, e)
         /\ \A query, e : MatchedEdge(query, e)' = MatchedEdge(query, e)
<1>1. Authorized' = Authorized
  BY DEF Authorized
<1>2. \A query, e : Matching(query, e)' = Matching(query, e)
  BY <1>1 DEF Matching, SeedEndpoints, Endpoints
<1>3. \A query, e : MatchedEdge(query, e)' = MatchedEdge(query, e)
  <2> SUFFICES ASSUME NEW query, NEW e
               PROVE  MatchedEdge(query, e)' = MatchedEdge(query, e)
    OBVIOUS
  <2> DEFINE Least(S) == CHOOSE r \in S : \A other \in S : r <= other
             Edge(r) == [rel |-> r, kind |-> e.kind, right |-> e.right,
                         child |-> IF ChildIsLeft(query, e, r) THEN e.left ELSE e.right,
                         parent |-> IF ChildIsLeft(query, e, r) THEN e.right ELSE e.left]
  <2>1. MatchedEdge(query, e) = Edge(Least(Matching(query, e)))
    BY DEF MatchedEdge
  <2>2. MatchedEdge(query, e)' = Edge(Least(Matching(query, e)'))
    BY DEF MatchedEdge
  <2>3. Matching(query, e)' = Matching(query, e)
    BY <1>2
  <2> HIDE DEF Least, Edge
  <2>4. QED
    BY <2>1, <2>2, <2>3
<1>4. QED
  BY <1>2, <1>3

LEMMA MatchedStays ==
  ASSUME UNCHANGED <<evidence, matched>>
  PROVE  /\ \A query : IsMatched(query)' = IsMatched(query)
         /\ \A x : IsGood(x)' = IsGood(x)
<1>1. /\ \A query, e : Matching(query, e)' = Matching(query, e)
      /\ \A query, e : MatchedEdge(query, e)' = MatchedEdge(query, e)
  BY MatchesStay
<1>2. \A query : IsMatched(query)' = IsMatched(query)
  BY <1>1 DEF IsMatched, UnsupportedShape, Edges, Crossing, Oriented, NullableOnLeft, InLeftJoin, Refs
<1>3. \A ref, previous : Onwards(ref, previous)' = Onwards(ref, previous)
  BY DEF Onwards, Near, Across
<1>4. \A ref, previous : FansOut(ref, previous)' = FansOut(ref, previous)
  BY <1>3 DEF FansOut, Matches
<1>5. \A i, x : NextPlace(i, x)' = NextPlace(i, x)
  BY DEF NextPlace, Across
<1>6. \A G : IsClosed(G)' = IsClosed(G)
  BY <1>3, <1>4, <1>5 DEF IsClosed
<1>7. \A x : IsGood(x)' = IsGood(x)
  BY <1>6 DEF IsGood, PlacesOfSearch
<1>8. QED
  BY <1>2, <1>7

LEMMA SearchInvStays ==
  ASSUME SearchInv, UNCHANGED <<evidence, matched, sql, queue, outcome>>
  PROVE  SearchInv'
<1>1. /\ \A query : IsMatched(query)' = IsMatched(query)
      /\ \A x : IsGood(x)' = IsGood(x)
  BY MatchedStays
<1>2. \A query, g : Ends(query, g)' = Ends(query, g)
  BY <1>1 DEF Ends, Named, GraphRefs, Edges, NullableRefs
<1>3. \A query : IsSearching(query)' = IsSearching(query)
  BY <1>1, <1>2 DEF IsSearching, Named, PlacesOfSearch
<1>4. QED
  BY <1>3 DEF SearchInv

LEMMA NamedAreFinite ==
  ASSUME NEW query \in Queries, NEW grain
  PROVE  Named(query, grain) \in SUBSET Refs(query) /\ IsFiniteSet(Named(query, grain))
<1>1. Named(query, grain) \in SUBSET Refs(query)
  BY EdgesJoin DEF Named, GraphRefs
<1>2. IsFiniteSet(Refs(query))
  BY QueriesAreTyped, FirstNumbers
<1>3. QED
  BY <1>1, <1>2, FS_Subset

(* What is not blocked at once has all its edges matched.                  *)
LEMMA ValidateMatches ==
  ASSUME NEW query \in Queries, NEW grain, NEW plan, ValidateSql(query, grain, plan),
         UNCHANGED evidence, outcome' = "passes" \/ queue' # <<>>
  PROVE  /\ sql' = [query |-> query, grain |-> grain, plan |-> plan]
         /\ ~ MissingPredicate(query) /\ IsMatched(query)'
         /\ Decide(query, matched', grain, plan)
<1> DEFINE edges == Sorted(Edges(query), EarlierEdge)
<1>1. sql' = [query |-> query, grain |-> grain, plan |-> plan]
  BY DEF ValidateSql
<1>2. \A code : code # "passes" => ~ Blocked(code)
  BY DEF Blocked
<1>3. ~ (UnsupportedShape(query) \/ MissingPredicate(query)
           \/ \E i \in DOMAIN edges : Matching(query, edges[i]) = {})
  <2> SUFFICES ASSUME UnsupportedShape(query) \/ MissingPredicate(query)
                        \/ \E i \in DOMAIN edges : Matching(query, edges[i]) = {}
               PROVE  FALSE
    OBVIOUS
  <2>1. Blocked(CASE UnsupportedShape(query) -> "UNSUPPORTED_JOIN_SHAPE"
                  [] MissingPredicate(query) -> "MISSING_JOIN_PREDICATE"
                  [] plan # 0 -> "PROOF_GRAPH_MISMATCH"
                  [] OTHER -> "UNSUPPORTED_JOIN_EDGE")
    BY DEF ValidateSql
  <2>2. CASE UnsupportedShape(query)
    BY <1>2, <2>1, <2>2
  <2>3. CASE ~ UnsupportedShape(query) /\ MissingPredicate(query)
    BY <1>2, <2>1, <2>3
  <2>4. CASE ~ UnsupportedShape(query) /\ ~ MissingPredicate(query) /\ plan # 0
    BY <1>2, <2>1, <2>4
  <2>5. CASE ~ UnsupportedShape(query) /\ ~ MissingPredicate(query) /\ plan = 0
    BY <1>2, <2>1, <2>5
  <2>6. QED
    BY <2>2, <2>3, <2>4, <2>5
<1>4. /\ matched' = [i \in DOMAIN edges |-> MatchedEdge(query, edges[i])]
      /\ Decide(query, matched', grain, plan)
  BY <1>3 DEF ValidateSql
<1>5. /\ \E n \in Nat : DOMAIN edges = 1 .. n
      /\ \A i \in DOMAIN edges : edges[i] \in Edges(query)
      /\ \A e \in Edges(query) : \E i \in DOMAIN edges : edges[i] = e
  BY EdgesAreSorted
<1>6. /\ \A e : Matching(query, e)' = Matching(query, e)
      /\ \A e : MatchedEdge(query, e)' = MatchedEdge(query, e)
  BY MatchesStay
<1>7. UnsupportedShape(query)' = UnsupportedShape(query) /\ Edges(query)' = Edges(query)
  OBVIOUS
<1>8. IsMatched(query)'
  <2>1. DOMAIN matched' = DOMAIN edges
    BY <1>4
  <2>2. \A i \in DOMAIN edges : matched'[i] = MatchedEdge(query, edges[i])
    BY <1>4
  <2> HIDE DEF edges
  <2>3. \A e \in Edges(query) : Matching(query, e) # {}
                                /\ \E i \in DOMAIN matched' : matched'[i] = MatchedEdge(query, e)
    BY <1>3, <1>5, <2>1, <2>2
  <2>4. \A i \in DOMAIN matched' : \E e \in Edges(query) : matched'[i] = MatchedEdge(query, e)
    BY <1>5, <2>1, <2>2
  <2>5. QED
    <3>1. (~ UnsupportedShape(query))' /\ (\E n \in Nat : DOMAIN matched = 1 .. n)'
      BY <1>3, <1>5, <1>7, <2>1
    <3>2. \A e \in Edges(query) :
            Matching(query, e)' # {}
            /\ \E i \in (DOMAIN matched)' : (matched[i])' = MatchedEdge(query, e)'
      BY <1>6, <2>3
    <3>3. \A i \in (DOMAIN matched)' : \E e \in Edges(query) :
            (matched[i])' = MatchedEdge(query, e)'
      BY <1>6, <2>4
    <3>4. QED
      BY <1>7, <3>1, <3>2, <3>3 DEF IsMatched
<1>9. QED
  BY <1>1, <1>3, <1>4, <1>8

LEMMA ValidateStarts ==
  ASSUME NEW query \in Queries, NEW grain, NEW plan, ValidateSql(query, grain, plan),
         evidence # None, UNCHANGED evidence
  PROVE  SearchInv'
<1> SUFFICES ASSUME outcome' = "passes" \/ queue' # <<>>, sql'.plan = 0
             PROVE  /\ evidence' # None
                    /\ \E q \in Queries : sql'.query = q /\ IsSearching(q)'
  BY DEF SearchInv
<1>1. /\ sql' = [query |-> query, grain |-> grain, plan |-> plan] /\ IsMatched(query)'
      /\ Decide(query, matched', grain, plan)
  BY ValidateMatches
<1>2. plan = 0 /\ sql'.query = query /\ sql'.grain = grain
  BY <1>1
<1>3. \A code : code # "passes" => ~ Blocked(code)
  BY DEF Blocked
<1>4. Named(query, grain)' = Named(query, grain)
  OBVIOUS
<1>5. CASE Cardinality(Named(query, grain)) = 1
  <2> DEFINE named == Named(query, grain)
             start == CHOOSE ref \in named : TRUE
  <2>1. named = {start}
    <3>1. IsFiniteSet(named)
      BY NamedAreFinite
    <3> HIDE DEF named
    <3>2. PICK x : named = {x}
      BY <1>5, <3>1, FS_Singleton DEF named
    <3>3. start \in named
      BY <3>2
    <3>4. QED
      BY <3>2, <3>3
  <2>2. SearchFrom(query, matched', start)
    BY <1>1, <1>2, <1>5 DEF Decide
  <2>3. /\ start \notin NullableRefs(matched')
        /\ queue' = <<<<start, 0>>>> /\ outcome' = None
    BY <1>3, <2>2 DEF SearchFrom
  <2>4. start \in Nat
    <3>1. start \in GraphRefs(query)
      BY <2>1 DEF Named
    <3>2. start \in Refs(query)
      BY <3>1, EdgesJoin DEF GraphRefs
    <3>3. QED
      BY <3>2, QueriesAreTyped
  <2> HIDE DEF start, named
  <2>5. queue' \in Seq(PlacesOfSearch)
    BY <2>3, <2>4 DEF PlacesOfSearch
  <2>6. 1 \in DOMAIN queue' /\ queue'[1] = <<start, 0>>
    BY <2>3
  <2>7. (\A k \in DOMAIN queue : IsGood(queue[k]))' => IsGood(<<start, 0>>)'
    BY <2>6 DEF IsGood
  <2>8. \A g \in Named(query, grain) : Ends(query, g)'
    BY <1>2, <2>1, <2>3, <2>7 DEF Ends, named
  <2>9. outcome' # "passes"
    BY <2>3, SqlConstants
  <2>10. IsSearching(query)'
    BY <1>1, <1>2, <1>4, <2>5, <2>8, <2>9 DEF IsSearching, PlacesOfSearch
  <2>11. QED
    BY <1>2, <2>10
<1>6. CASE Cardinality(Named(query, grain)) # 1
  <2>1. outcome' = "passes" /\ queue' = <<>>
    BY <1>1, <1>2, <1>6 DEF Decide
  <2>2. queue' \in Seq(PlacesOfSearch)
    BY <2>1
  <2>3. \A g : Ends(query, g)'
    BY <1>2, <1>4, <1>6 DEF Ends
  <2>4. IsSearching(query)'
    BY <1>1, <2>1, <2>2, <2>3 DEF IsSearching, PlacesOfSearch
  <2>5. QED
    BY <1>2, <2>4
<1>7. QED
  BY <1>5, <1>6

LEMMA MatchedAreOfRefs ==
  ASSUME NEW query \in Queries, IsMatched(query), NEW i \in DOMAIN matched
  PROVE  matched[i].child \in Nat /\ matched[i].parent \in Nat
<1>1. PICK e \in Edges(query) : matched[i] = MatchedEdge(query, e) /\ Matching(query, e) # {}
  BY DEF IsMatched
<1>2. \/ matched[i].child = e.left /\ matched[i].parent = e.right
      \/ matched[i].child = e.right /\ matched[i].parent = e.left
  BY <1>1, MatchedIsOf
<1>3. e.left \in Nat /\ e.right \in Nat
  BY EdgesJoin, QueriesAreTyped
<1>4. QED
  BY <1>2, <1>3

(* All that is pending is good if all that is pending after a step is, and *)
(* after a step that does not fan out it still is.                         *)
LEMMA PendingWasGood ==
  ASSUME NEW query \in Queries, IsMatched(query),
         queue \in Seq(PlacesOfSearch), queue # <<>>,
         NEW head, head = Head(queue), ~ FansOut(head[1], head[2]),
         NEW rest, rest = Pending(head[1], head[2])
  PROVE  /\ rest \in Seq(PlacesOfSearch)
         /\ (\A k \in DOMAIN rest : IsGood(rest[k])) <=> (\A k \in DOMAIN queue : IsGood(queue[k]))
<1> DEFINE s == Ascending(Onwards(head[1], head[2]))
           more == [k \in DOMAIN s |-> NextPlace(s[k], head)]
<1>1. /\ \E c \in Nat : DOMAIN s = 1 .. c
      /\ \A k \in DOMAIN s : s[k] \in Onwards(head[1], head[2])
      /\ \A i \in Onwards(head[1], head[2]) : \E k \in DOMAIN s : s[k] = i
  <2>1. PICK n \in Nat : DOMAIN matched = 1 .. n
    BY DEF IsMatched
  <2>2. QED
    BY <2>1, OnwardsAreSorted
<1>2. rest = Tail(queue) \o more
  BY DEF Pending, NextPlace
<1>3. head \in PlacesOfSearch
  BY HeadTailProperties
<1> HIDE DEF s
<1>4. \A k \in DOMAIN s : NextPlace(s[k], head) \in PlacesOfSearch
  <2> SUFFICES ASSUME NEW k \in DOMAIN s
               PROVE  NextPlace(s[k], head) \in PlacesOfSearch
    OBVIOUS
  <2>1. s[k] \in DOMAIN matched
    BY <1>1 DEF Onwards, Near
  <2>2. matched[s[k]].child \in Nat /\ matched[s[k]].parent \in Nat
    BY <2>1, MatchedAreOfRefs
  <2>3. head[1] \in Nat
    BY <1>3 DEF PlacesOfSearch
  <2>4. QED
    BY <2>2, <2>3 DEF NextPlace, Across, PlacesOfSearch
<1>5. more \in Seq(PlacesOfSearch) /\ DOMAIN more = DOMAIN s
  <2>1. PICK c \in Nat : DOMAIN s = 1 .. c
    BY <1>1
  <2>2. more \in [1 .. c -> PlacesOfSearch]
    BY <1>4, <2>1
  <2> HIDE DEF more
  <2>3. more \in Seq(PlacesOfSearch)
    BY <2>2, SeqDef
  <2>4. QED
    BY <2>1, <2>2, <2>3
<1>6. \A k \in DOMAIN s : more[k] = NextPlace(s[k], head)
  OBVIOUS
<1> HIDE DEF more
<1>7. /\ rest \in Seq(PlacesOfSearch)
      /\ \A k \in DOMAIN queue : queue[k] = head \/ \E j \in DOMAIN rest : rest[j] = queue[k]
      /\ \A k \in DOMAIN more : \E j \in DOMAIN rest : rest[j] = more[k]
      /\ \A j \in DOMAIN rest :
           (\E k \in DOMAIN queue : rest[j] = queue[k]) \/ \E k \in DOMAIN more : rest[j] = more[k]
  <2> DEFINE S == PlacesOfSearch
  <2>1. queue \in Seq(S) /\ more \in Seq(S) /\ IsRest(rest, queue, more)
    BY <1>2, <1>5 DEF IsRest
  <2> HIDE DEF S
  <2>2. /\ rest \in Seq(S)
        /\ \A k \in DOMAIN queue : queue[k] = Head(queue) \/ \E j \in DOMAIN rest : rest[j] = queue[k]
        /\ \A k \in DOMAIN more : \E j \in DOMAIN rest : rest[j] = more[k]
        /\ \A j \in DOMAIN rest :
             (\E k \in DOMAIN queue : rest[j] = queue[k]) \/ \E k \in DOMAIN more : rest[j] = more[k]
    BY <2>1, TailAndMore
  <2>3. QED
    BY <2>2 DEF S
<1>8. ASSUME \A k \in DOMAIN rest : IsGood(rest[k])
      PROVE  \A k \in DOMAIN queue : IsGood(queue[k])
  <2>1. ASSUME NEW i \in Onwards(head[1], head[2])
        PROVE  IsGood(NextPlace(i, head))
    <3>1. PICK k \in DOMAIN s : s[k] = i
      BY <1>1
    <3>2. PICK j \in DOMAIN rest : rest[j] = NextPlace(i, head)
      BY <1>5, <1>6, <1>7, <3>1
    <3>3. QED
      BY <1>8, <3>2
  <2>2. IsGood(head)
    BY <1>3, <2>1, GoodBeforeGood
  <2>3. QED
    BY <1>7, <1>8, <2>2
<1>9. ASSUME \A k \in DOMAIN queue : IsGood(queue[k])
      PROVE  \A k \in DOMAIN rest : IsGood(rest[k])
  <2>1. IsGood(head)
    <3>1. 1 \in DOMAIN queue /\ head = queue[1]
      OBVIOUS
    <3>2. QED
      BY <1>9, <3>1
  <2>2. \A k \in DOMAIN more : IsGood(more[k])
    BY <1>1, <1>5, <1>6, <2>1, GoodGoesOn
  <2>3. QED
    BY <1>7, <1>9, <2>2
<1>10. QED
  BY <1>7, <1>8, <1>9

LEMMA SearchGoesOn ==
  ASSUME SearchInv, Search
  PROVE  SearchInv'
<1> SUFFICES ASSUME outcome' = "passes" \/ queue' # <<>>, sql'.plan = 0
             PROVE  /\ evidence' # None
                    /\ \E q \in Queries : sql'.query = q /\ IsSearching(q)'
  BY DEF SearchInv
<1>1. UNCHANGED <<evidence, matched, sql>> /\ queue # <<>>
  BY DEF Search, vars
<1>2. PICK query \in Queries : sql.query = query /\ IsSearching(query)
  BY <1>1 DEF SearchInv
<1>3. evidence # None
  BY <1>1 DEF SearchInv
<1> DEFINE head == Head(queue)
           rest == Pending(head[1], head[2])
<1>4. ~ FansOut(head[1], head[2]) /\ queue' = rest
      /\ outcome' = IF rest = <<>> THEN "passes" ELSE outcome
  BY DEF Search, Blocked
<1>5. outcome # "passes"
  BY <1>1, <1>2 DEF IsSearching
<1>6. outcome' = "passes" => queue' = <<>>
  BY <1>4, <1>5
<1>7. /\ rest \in Seq(PlacesOfSearch)
      /\ (\A k \in DOMAIN rest : IsGood(rest[k])) => (\A k \in DOMAIN queue : IsGood(queue[k]))
  BY <1>1, <1>2, <1>4, PendingWasGood DEF IsSearching
<1> HIDE DEF rest, head
<1>8. /\ \A q : IsMatched(q)' = IsMatched(q)
      /\ \A x : IsGood(x)' = IsGood(x)
  BY <1>1, MatchedStays
<1>9. (\A k \in DOMAIN queue : IsGood(queue[k]))' <=> (\A k \in DOMAIN rest : IsGood(rest[k]))
  BY <1>4, <1>8
<1>10. ASSUME NEW g \in Named(query, sql.grain)
       PROVE  Ends(query, g)'
  <2>1. Ends(query, g)
    BY <1>2 DEF IsSearching
  <2>2. Named(query, sql.grain)' = Named(query, sql.grain)
        /\ NullableRefs(matched)' = NullableRefs(matched)
    BY <1>1 DEF Named, GraphRefs, Edges, NullableRefs
  <2>3. IsGood(<<g, 0>>)' = IsGood(<<g, 0>>)
    BY <1>8
  <2>4. QED
    BY <1>7, <1>9, <2>1, <2>2, <2>3 DEF Ends
<1>11. Named(query, sql.grain)' = Named(query, sql.grain)
  BY <1>1 DEF Named, GraphRefs, Edges
<1>12. IsSearching(query)'
  BY <1>2, <1>4, <1>6, <1>7, <1>8, <1>10, <1>11 DEF IsSearching, PlacesOfSearch
<1>13. QED
  BY <1>1, <1>2, <1>3, <1>12

LEMMA SearchInvNext ==
  PlanInv /\ SearchInv /\ [SqlNext]_<<vars, sqlVars>> => SearchInv'
<1> SUFFICES ASSUME PlanInv, SearchInv, [SqlNext]_<<vars, sqlVars>>
             PROVE  SearchInv'
  OBVIOUS
<1>1. CASE Verify /\ UNCHANGED sqlVars
  BY <1>1 DEF Verify, SearchInv, sqlVars
<1>2. CASE GetJoinPlan /\ UNCHANGED sqlVars
  <2>1. UNCHANGED <<evidence, matched, sql, queue, outcome>>
    BY <1>2 DEF GetJoinPlan, sqlVars
  <2>2. QED
    BY <2>1, SearchInvStays
<1>3. CASE ValidateAlone
  <2>1. PICK query \in Queries, grain \in Grains : ValidateSql(query, grain, 0)
    BY <1>3 DEF ValidateAlone
  <2>2. evidence # None /\ UNCHANGED evidence
    BY <1>3 DEF ValidateAlone, vars
  <2>3. QED
    BY <2>1, <2>2, ValidateStarts
<1>4. CASE ValidateWithPlan
  <2>1. PICK query \in Queries, plan \in DOMAIN answer, grain \in request.refs :
          ValidateSql(query, grain, plan)
    BY <1>4 DEF ValidateWithPlan
  <2>2. evidence # None /\ UNCHANGED evidence
    BY <1>4 DEF ValidateWithPlan, PlanInv, vars
  <2>3. QED
    BY <2>1, <2>2, ValidateStarts
<1>5. CASE Search
  BY <1>5, SearchGoesOn
<1>6. CASE UNCHANGED <<vars, sqlVars>>
  <2>1. UNCHANGED <<evidence, matched, sql, queue, outcome>>
    BY <1>6 DEF vars, sqlVars
  <2>2. QED
    BY <2>1, SearchInvStays
<1>7. QED
  BY <1>1, <1>2, <1>3, <1>4, <1>5, <1>6 DEF SqlNext

LEMMA SearchInvAlways ==
  SqlSpec => []SearchInv
BY SearchInvInit, SearchInvNext, PlanInvAlways, PTL DEF SqlSpec

-----------------------------------------------------------------------------
(* The rows of a query's tables are rows of their entities.                *)

LEMMA RowsInvAlways ==
  SqlSpec => []RowsInv
<1>1. SqlInit => RowsInv
  <2> SUFFICES ASSUME SqlInit, NEW e \in Entities, NEW i \in DOMAIN tables[e]
               PROVE  tables[e][i] \in Rows(e)
    BY DEF RowsInv
  <2>1. ToSet(tables[e]) \subseteq Rows(e)
    BY DEF SqlInit, Init
  <2>2. QED
    BY <2>1 DEF ToSet
<1>2. RowsInv /\ [SqlNext]_<<vars, sqlVars>> => RowsInv'
  <2> SUFFICES ASSUME RowsInv, [SqlNext]_<<vars, sqlVars>>
               PROVE  RowsInv'
    OBVIOUS
  <2>1. tables' = tables
    BY DEF SqlNext, Verify, GetJoinPlan, ValidateAlone, ValidateWithPlan, Search, vars
  <2>2. QED
    BY <2>1 DEF RowsInv, Rows
<1>3. QED
  BY <1>1, <1>2, PTL DEF SqlSpec

(* The largest groups are numbers.                                         *)
LEMMA GroupsAreCounted ==
  ASSUME TablesInv, evidence = Measured, NEW r \in Relationships
  PROVE  evidence[r].maxParents \in Nat /\ evidence[r].maxChildren \in Nat
<1> DEFINE child == KeysIn(Catalog[r].child, Catalog[r].childColumns)
           parent == KeysIn(Catalog[r].parent, Catalog[r].parentColumns)
           n == Len(tables[Catalog[r].child])
           m == Len(tables[Catalog[r].parent])
<1>1. Catalog[r].child \in Entities /\ Catalog[r].parent \in Entities
  BY PlannerConstants
<1>2. n \in Nat /\ DOMAIN child = 1 .. n /\ m \in Nat /\ DOMAIN parent = 1 .. m
  BY <1>1 DEF TablesInv, KeysIn
<1>3. evidence[r].maxParents = LargestGroup(parent) /\ evidence[r].maxChildren = LargestGroup(child)
  BY DEF Measured, Measure
<1> HIDE DEF child, parent, n, m
<1>4. QED
  BY <1>2, <1>3, LargestIsThere

-----------------------------------------------------------------------------
(* Instances joined in their order.                                        *)

(* A query without derived tables, all of whose equalities restrict its    *)
(* result and which joins every instance but the first to one before it.   *)
JoinedInOrder(query) ==
  /\ IsFlat(query) /\ EveryOneFilters(query)
  /\ \A ref \in Refs(query) \ {1} : \E eq \in Crossing(query), before \in Refs(query) :
       before < ref /\ {eq.left[1], eq.right[1]} = {before, ref}

(* Matched edge i joins instance b to instance a, which stands before it.  *)
IsJoint(query, i, a, b) ==
  /\ i \in DOMAIN matched /\ a \in Refs(query) /\ b \in Refs(query) /\ a < b
  /\ \E e \in Edges(query) : /\ Matching(query, e) # {} /\ matched[i] = MatchedEdge(query, e)
                             /\ {e.left, e.right} = {a, b} /\ (e.kind = "inner" \/ e.right = b)

LEMMA JointsAreThere ==
  ASSUME NEW query \in Queries, IsMatched(query), JoinedInOrder(query),
         NEW ref \in Refs(query), ref # 1
  PROVE  \E before \in Refs(query), i \in DOMAIN matched : IsJoint(query, i, before, ref)
<1>1. PICK eq \in Crossing(query), before \in Refs(query) :
        before < ref /\ {eq.left[1], eq.right[1]} = {before, ref}
  BY DEF JoinedInOrder
<1>2. PICK e \in Edges(query) : {e.left, e.right} = {before, ref}
  BY <1>1, CrossingsAreEdges
<1>3. PICK i \in DOMAIN matched : Matching(query, e) # {} /\ matched[i] = MatchedEdge(query, e)
  BY DEF IsMatched
<1>4. ASSUME e.kind # "inner"
      PROVE  e.right = ref
  <2>1. e.kind = "left" /\ ~ UnsupportedShape(query)
    BY <1>4, EdgesJoin DEF IsMatched
  <2>2. PICK p \in e.pairs : TRUE
    BY EdgesJoin
  <2>3. PICK other \in Crossing(query) : Spans(other, e, p) /\ other.join = e.right
    BY <2>1, EdgesJoin
  <2>4. \/ other.left[1] = e.left /\ other.right[1] = e.right
        \/ other.left[1] = e.right /\ other.right[1] = e.left
    <3> DEFINE x == <<e.left, p[1]>>
               y == <<e.right, p[2]>>
    <3>1. x[1] = e.left /\ y[1] = e.right
      OBVIOUS
    <3>2. (other.left = x /\ other.right = y) \/ (other.right = x /\ other.left = y)
      BY <2>3 DEF Spans
    <3> HIDE DEF x, y
    <3>3. QED
      BY <3>1, <3>2
  <2>5. other.join = 0 \/ (other.left[1] <= other.join /\ other.right[1] <= other.join)
    BY EqualitiesAreTyped DEF Crossing
  <2>6. e.right \in {before, ref} /\ before \in Nat /\ ref \in Nat /\ e.right # 0
    <3>1. Len(query.entity) \in Nat /\ Refs(query) = 1 .. Len(query.entity)
      BY QueriesAreTyped
    <3>2. e.right \in {before, ref}
      BY <1>2
    <3>3. QED
      BY <3>1, <3>2
  <2>7. e.left <= e.right
    BY <2>3, <2>4, <2>5, <2>6
  <2>8. QED
    BY <1>1, <1>2, <2>6, <2>7
<1>5. QED
  BY <1>1, <1>2, <1>3, <1>4 DEF IsJoint

(* The two ends of a joint, and the step of the search across it.          *)
AreEnds(a, b, near, far) == (near = a /\ far = b) \/ (near = b /\ far = a)

GoesTo(near, previous, far) == previous # far /\ IsGood(<<near, previous>>)

IsCrossed(m, near, far) ==
  ~ (Matches(m, near) > 1) /\ near \in {m.child, m.parent} /\ far = Across(m, near)

LEMMA JointsAreCrossed ==
  ASSUME ReflexiveAreSingle, NEW query \in Queries, NEW i, NEW a, NEW b, IsJoint(query, i, a, b),
         NEW near, NEW far, AreEnds(a, b, near, far),
         NEW previous, GoesTo(near, previous, far)
  PROVE  IsGood(<<far, near>>) /\ IsCrossed(matched[i], near, far)
<1>1. PICK e \in Edges(query) : /\ Matching(query, e) # {} /\ matched[i] = MatchedEdge(query, e)
                                /\ {e.left, e.right} = {a, b}
  BY DEF IsJoint
<1>2. \/ matched[i].child = e.left /\ matched[i].parent = e.right
      \/ matched[i].child = e.right /\ matched[i].parent = e.left
  BY <1>1, MatchedIsOf
<1>3. e.left # e.right
  BY EdgesJoin
<1>4. near \in {matched[i].child, matched[i].parent} /\ far = Across(matched[i], near)
  BY <1>1, <1>2, <1>3 DEF AreEnds, Across
<1> DEFINE x == <<near, previous>>
<1>5. x[1] = near /\ x[2] = previous
  OBVIOUS
<1>6. i \in Onwards(near, previous)
  BY <1>4 DEF Onwards, Near, IsJoint, GoesTo
<1>7. ~ FansOut(near, previous) /\ IsGood(NextPlace(i, x))
  BY <1>5, <1>6, GoodGoesOn DEF GoesTo
<1>8. NextPlace(i, x) = <<far, near>>
  BY <1>4 DEF NextPlace
<1>9. ~ (Matches(matched[i], near) > 1)
  BY <1>6, <1>7 DEF FansOut
<1>10. QED
  BY <1>4, <1>7, <1>8, <1>9 DEF IsCrossed

(* What the proofs below have in common: a matched query and its rows.     *)
IsAnswered(query) ==
  /\ TablesInv /\ RowsInv /\ evidence = Measured
  /\ IsMatched(query) /\ JoinedInOrder(query)

LEMMA JointRowsMeet ==
  ASSUME ReflexiveAreSingle, NEW query \in Queries, IsAnswered(query),
         NEW i, NEW a, NEW b, IsJoint(query, i, a, b),
         NEW row \in Result(query),
         row[b] # 0 \/ matched[i].right # b \/ matched[i].kind # "left"
  PROVE  /\ matched[i].rel \in Relationships /\ row[a] # 0 /\ row[b] # 0
         /\ RowsMeet(matched[i].rel, row[matched[i].child], row[matched[i].parent])
<1>1. PICK e \in Edges(query) : /\ Matching(query, e) # {} /\ matched[i] = MatchedEdge(query, e)
                                /\ {e.left, e.right} = {a, b} /\ (e.kind = "inner" \/ e.right = b)
  BY DEF IsJoint
<1>2. PICK m : m = MatchedEdge(query, e)
  OBVIOUS
<1>3. /\ m.rel \in Relationships /\ m.kind = e.kind /\ m.right = e.right
      /\ \/ m.child = e.left /\ m.parent = e.right
         \/ m.child = e.right /\ m.parent = e.left
  BY <1>1, <1>2, MatchedJoins
<1>4. /\ IsFlat(query) /\ EveryOneFilters(query) /\ ~ UnsupportedShape(query)
      /\ TablesInv /\ RowsInv
  BY DEF IsAnswered, JoinedInOrder, IsMatched
<1>5. Restricts(e, row)
  <2>1. e.kind = "inner" \/ e.kind = "left"
    BY EdgesJoin
  <2>2. QED
    BY <1>1, <1>2, <1>3, <2>1 DEF Restricts
<1>6. /\ row[m.child] # 0 /\ row[m.parent] # 0
      /\ RowsMeet(m.rel, row[m.child], row[m.parent])
  BY <1>1, <1>2, <1>4, <1>5, MatchedRowsMeet
<1>7. row[a] # 0 /\ row[b] # 0
  BY <1>1, <1>3, <1>6
<1>8. QED
  BY <1>1, <1>2, <1>3, <1>6, <1>7

(* Two rows that agree at one end of a joint agree at the other, where the *)
(* search crosses it.                                                      *)
LEMMA JointRowsAreOne ==
  ASSUME ReflexiveAreSingle, NEW query \in Queries, IsAnswered(query),
         NEW i, NEW a, NEW b, IsJoint(query, i, a, b),
         NEW near, NEW far, AreEnds(a, b, near, far),
         NEW previous, GoesTo(near, previous, far),
         NEW row \in Result(query), NEW other \in Result(query),
         row[b] # 0, other[b] # 0, row[near] = other[near]
  PROVE  row[far] = other[far]
<1> DEFINE m == matched[i]
<1>1. /\ m.rel \in Relationships
      /\ RowsMeet(m.rel, row[m.child], row[m.parent])
      /\ RowsMeet(m.rel, other[m.child], other[m.parent])
  BY JointRowsMeet
<1>2. /\ ~ (Matches(m, near) > 1) /\ near \in {m.child, m.parent} /\ far = Across(m, near)
  <2>1. IsCrossed(matched[i], near, far)
    BY JointsAreCrossed
  <2>2. QED
    BY <2>1 DEF IsCrossed
<1>3. TablesInv /\ evidence = Measured
  BY DEF IsAnswered
<1>4. evidence[m.rel].maxParents \in Nat /\ evidence[m.rel].maxChildren \in Nat
  BY <1>1, <1>3, GroupsAreCounted
<1>5. /\ evidence[m.rel].maxParents <= 1 /\ row[m.child] = other[m.child]
           => row[m.parent] = other[m.parent]
      /\ evidence[m.rel].maxChildren <= 1 /\ row[m.parent] = other[m.parent]
           => row[m.child] = other[m.child]
  BY <1>1, <1>3, RowsMetAreOne
<1> HIDE DEF m
<1>6. CASE m.child = near
  <2>1. far = m.parent /\ ~ (evidence[m.rel].maxParents > 1)
    BY <1>2, <1>6 DEF Across, Matches
  <2>2. evidence[m.rel].maxParents <= 1
    BY <1>4, <2>1
  <2>3. QED
    BY <1>5, <1>6, <2>1, <2>2
<1>7. CASE m.child # near
  <2>1. near = m.parent /\ far = m.child /\ ~ (evidence[m.rel].maxChildren > 1)
    BY <1>2, <1>7 DEF Across, Matches
  <2>2. evidence[m.rel].maxChildren <= 1
    BY <1>4, <2>1
  <2>3. QED
    BY <1>5, <2>1, <2>2
<1>8. QED
  BY <1>6, <1>7

(* What a join finds depends on the rows before it alone.                  *)
LEMMA FoundByTheRowsBefore ==
  ASSUME NEW query \in Queries, IsFlat(query), NEW ref \in Refs(query),
         NEW row \in Result(query), NEW other \in Result(query),
         \A before \in Refs(query) : before < ref => row[before] = other[before]
  PROVE  Found(query, row, ref) = Found(query, other, ref)
<1> DEFINE rows == [Refs(query) -> 0 .. MaxRows]
           With(x, n) == [x EXCEPT ![ref] = n]
<1>1. row \in rows /\ other \in rows
  BY DEF Result
<1>2. Len(query.entity) \in Nat /\ Refs(query) = 1 .. Len(query.entity)
  BY QueriesAreTyped
<1>3. ASSUME NEW n, NEW eq \in Clause(query, ref)
      PROVE  /\ With(row, n)[eq.left[1]] = With(other, n)[eq.left[1]]
             /\ With(row, n)[eq.right[1]] = With(other, n)[eq.right[1]]
  <2>1. eq \in query.equalities /\ eq.join = ref
    BY DEF Clause
  <2>2. /\ eq.left[1] \in Refs(query) /\ eq.right[1] \in Refs(query)
        /\ eq.join = 0 \/ (eq.left[1] <= eq.join /\ eq.right[1] <= eq.join)
    BY <2>1, EqualitiesAreTyped DEF IsEndpoint
  <2>3. \A before \in Refs(query) : before <= ref => With(row, n)[before] = With(other, n)[before]
    BY <1>1, <1>2
  <2>4. QED
    BY <1>2, <2>1, <2>2, <2>3
<1> HIDE DEF With
<1>4. ASSUME NEW n
      PROVE  Meet(query, With(row, n), Clause(query, ref))
               <=> Meet(query, With(other, n), Clause(query, ref))
  <2>1. ASSUME NEW eq \in Clause(query, ref)
        PROVE  /\ Value(query, With(row, n), eq.left) = Value(query, With(other, n), eq.left)
               /\ Value(query, With(row, n), eq.right) = Value(query, With(other, n), eq.right)
    BY <1>3 DEF Value
  <2>2. QED
    BY <2>1 DEF Meet
<1>5. /\ Found(query, row, ref) =
           {n \in DOMAIN tables[query.entity[ref]] : Meet(query, With(row, n), Clause(query, ref))}
      /\ Found(query, other, ref) =
           {n \in DOMAIN tables[query.entity[ref]] : Meet(query, With(other, n), Clause(query, ref))}
  BY DEF Found, IsFlat, With
<1>6. QED
  BY <1>4, <1>5

-----------------------------------------------------------------------------
(* Rows that agree at the start of a search that ends agree everywhere.    *)

(* An instance before each instance but the first, joined to it.           *)
IsUpper(query, up) ==
  /\ up \in [Refs(query) -> Refs(query)]
  /\ \A ref \in Refs(query) \ {1} : \E i \in DOMAIN matched : IsJoint(query, i, up[ref], ref)

LEMMA UppersAreThere ==
  ASSUME NEW query \in Queries, IsMatched(query), JoinedInOrder(query)
  PROVE  \E up : IsUpper(query, up)
<1> DEFINE Joint(before, ref) == \E i \in DOMAIN matched : IsJoint(query, i, before, ref)
           up == [ref \in Refs(query) |->
                    IF ref = 1 THEN 1 ELSE CHOOSE before \in Refs(query) : Joint(before, ref)]
<1>1. \A ref \in Refs(query) \ {1} : \E before \in Refs(query) : Joint(before, ref)
  BY JointsAreThere
<1>2. 1 \in Refs(query)
  BY QueriesAreTyped
<1> HIDE DEF Joint
<1>3. ASSUME NEW ref \in Refs(query)
      PROVE  up[ref] \in Refs(query) /\ (ref # 1 => Joint(up[ref], ref))
  <2> DEFINE upper == CHOOSE before \in Refs(query) : Joint(before, ref)
  <2>1. ref # 1 => upper \in Refs(query) /\ Joint(upper, ref)
    BY <1>1
  <2>2. up[ref] = IF ref = 1 THEN 1 ELSE upper
    OBVIOUS
  <2> HIDE DEF up, upper
  <2>3. QED
    BY <1>2, <2>1, <2>2
<1>4. up \in [Refs(query) -> Refs(query)]
  BY <1>3
<1> HIDE DEF up
<1>5. IsUpper(query, up)
  BY <1>3, <1>4 DEF IsUpper, Joint
<1>6. QED
  BY <1>5

LEMMA UppersAreLess ==
  ASSUME NEW query \in Queries, NEW up, IsUpper(query, up), NEW ref \in Refs(query), ref # 1
  PROVE  up[ref] \in Refs(query) /\ up[ref] < ref /\ up[ref] # 0 /\ ref \in Nat /\ up[ref] \in Nat
<1>1. up[ref] \in Refs(query) /\ up[ref] < ref
  BY DEF IsUpper, IsJoint
<1>2. Len(query.entity) \in Nat /\ Refs(query) = 1 .. Len(query.entity)
  BY QueriesAreTyped
<1>3. QED
  BY <1>1, <1>2

(* The instances on the way from g to the first.                           *)
IsWay(query, up, g, way) ==
  way \in SUBSET Refs(query) /\ g \in way /\ \A a \in way : a # 1 => up[a] \in way

WayOf(query, up, g) ==
  {a \in Refs(query) : \A way : IsWay(query, up, g, way) => a \in way}

LEMMA WaysAreThere ==
  ASSUME NEW query \in Queries, NEW up, IsUpper(query, up), NEW g \in Refs(query)
  PROVE  /\ IsWay(query, up, g, WayOf(query, up, g)) /\ 1 \in WayOf(query, up, g)
         /\ \A way : IsWay(query, up, g, way) => WayOf(query, up, g) \subseteq way
<1> DEFINE A == WayOf(query, up, g)
<1>1. \A way : IsWay(query, up, g, way) => A \subseteq way
  BY DEF WayOf
<1>2. A \in SUBSET Refs(query) /\ g \in A
  BY DEF WayOf, IsWay
<1>3. ASSUME NEW a \in A, a # 1
      PROVE  up[a] \in A
  <2>1. up[a] \in Refs(query)
    BY <1>2, <1>3, UppersAreLess
  <2>2. ASSUME NEW way, IsWay(query, up, g, way)
        PROVE  up[a] \in way
    <3>1. a \in way
      BY <1>1, <2>2
    <3>2. QED
      BY <1>3, <2>2, <3>1 DEF IsWay
  <2>3. QED
    BY <2>1, <2>2 DEF WayOf
<1> HIDE DEF A
<1>4. PICK n \in A : \A m \in A : n <= m
  <2>1. A \in SUBSET Nat
    BY <1>2, QueriesAreTyped
  <2>2. QED
    BY <1>2, <2>1, LeastIsThere
<1>5. n = 1
  <2> SUFFICES ASSUME n # 1
               PROVE  FALSE
    OBVIOUS
  <2>1. up[n] \in A /\ n \in Refs(query)
    BY <1>2, <1>3
  <2>2. up[n] < n /\ up[n] \in Nat /\ n \in Nat
    BY <2>1, UppersAreLess
  <2>3. n <= up[n]
    BY <1>4, <2>1
  <2>4. QED
    BY <2>2, <2>3
<1>6. QED
  BY <1>1, <1>2, <1>3, <1>5 DEF A, IsWay

(* An instance of the way: the search comes to it from the one it was      *)
(* reached by, and the two rows agree there.                               *)
IsMet(up, way, row, other, a) ==
  /\ row[a] = other[a] /\ row[a] # 0
  /\ \E previous : /\ IsGood(<<a, previous>>)
                   /\ previous = 0 \/ (previous \in way /\ previous # 1 /\ up[previous] = a)

LEMMA WaysAreMet ==
  ASSUME ReflexiveAreSingle, NEW query \in Queries, IsAnswered(query),
         NEW up, IsUpper(query, up), NEW g \in Refs(query), IsGood(<<g, 0>>),
         NEW row \in Result(query), NEW other \in Result(query),
         row[g] = other[g], row[g] # 0
  PROVE  \A a \in WayOf(query, up, g) : IsMet(up, WayOf(query, up, g), row, other, a)
<1> DEFINE A == WayOf(query, up, g)
           met == {a \in A : IsMet(up, A, row, other, a)}
<1>1. /\ A \in SUBSET Refs(query) /\ g \in A /\ \A a \in A : a # 1 => up[a] \in A
      /\ \A way : IsWay(query, up, g, way) => A \subseteq way
  BY WaysAreThere DEF IsWay
<1> HIDE DEF A
<1>2. g \in met
  BY <1>1 DEF IsMet
<1>3. ASSUME NEW b \in met, b # 1
      PROVE  up[b] \in met
  <2> DEFINE a == up[b]
  <2>1. b \in A /\ b \in Refs(query) /\ a \in A /\ row[b] = other[b] /\ row[b] # 0
    BY <1>1, <1>3 DEF IsMet
  <2>2. PICK previous : /\ IsGood(<<b, previous>>)
                        /\ previous = 0 \/ (previous \in A /\ previous # 1 /\ up[previous] = b)
    BY <1>3 DEF IsMet
  <2>3. a < b /\ a # 0 /\ a \in Nat /\ b \in Nat
    BY <1>3, <2>1, UppersAreLess
  <2>4. previous # a
    <3>1. CASE previous = 0
      BY <2>3, <3>1
    <3>2. CASE previous \in A /\ previous # 1 /\ up[previous] = b
      <4>1. b < previous /\ previous \in Nat
        BY <1>1, <3>2, UppersAreLess
      <4>2. QED
        BY <2>3, <4>1
    <3>3. QED
      BY <2>2, <3>1, <3>2
  <2>5. PICK i \in DOMAIN matched : IsJoint(query, i, a, b)
    BY <1>3, <2>1 DEF IsUpper
  <2> HIDE DEF a
  <2>6. GoesTo(b, previous, a) /\ AreEnds(a, b, b, a)
    BY <2>2, <2>4 DEF GoesTo, AreEnds
  <2>7. IsGood(<<a, b>>)
    BY <2>5, <2>6, JointsAreCrossed
  <2>8. row[a] = other[a]
    BY <2>1, <2>5, <2>6, JointRowsAreOne
  <2>9. row[a] # 0
    BY <2>1, <2>5, JointRowsMeet
  <2>10. IsMet(up, A, row, other, a)
    BY <1>3, <2>1, <2>7, <2>8, <2>9 DEF IsMet, a
  <2>11. QED
    BY <2>1, <2>10 DEF a
<1>4. IsWay(query, up, g, met)
  BY <1>1, <1>2, <1>3 DEF IsWay
<1>5. QED
  BY <1>1, <1>4 DEF A

LEMMA RowsAreTold ==
  ASSUME ReflexiveAreSingle, NEW query \in Queries, IsAnswered(query),
         NEW g \in Refs(query), IsGood(<<g, 0>>),
         NEW row \in Result(query), NEW other \in Result(query),
         row[g] = other[g], row[g] # 0
  PROVE  row = other
<1>1. PICK up : IsUpper(query, up)
  BY UppersAreThere DEF IsAnswered
<1> DEFINE A == WayOf(query, up, g)
           Same(k) == row[k] = other[k] /\ (k \in A \/ IsGood(<<k, up[k]>>))
           wrong == {k \in Refs(query) : ~ Same(k)}
<1>2. 1 \in A
  BY <1>1, WaysAreThere
<1>3. \A a \in A : IsMet(up, A, row, other, a)
  BY <1>1, WaysAreMet
<1>4. Refs(query) \in SUBSET Nat
  BY QueriesAreTyped
<1> HIDE DEF A
<1>5. wrong = {}
  <2> SUFFICES ASSUME wrong # {}
               PROVE  FALSE
    OBVIOUS
  <2>1. PICK k \in wrong : \A m \in wrong : k <= m
    <3>1. wrong \in SUBSET Nat
      BY <1>4
    <3> HIDE DEF wrong
    <3>2. QED
      BY <3>1, LeastIsThere
  <2>2. k \in Refs(query) /\ k \notin A /\ k # 1
    BY <1>2, <1>3, <2>1 DEF IsMet
  <2> DEFINE p == up[k]
  <2>3. p \in Refs(query) /\ p < k /\ p \in Nat /\ k \in Nat
    BY <1>1, <2>2, UppersAreLess
  <2>4. \A before \in Refs(query) : before < k => Same(before)
    <3> SUFFICES ASSUME NEW before \in Refs(query), before < k, ~ Same(before)
                 PROVE  FALSE
      OBVIOUS
    <3>1. before \in wrong /\ before \in Nat
      BY <1>4
    <3>2. k <= before
      BY <2>1, <3>1
    <3>3. QED
      BY <2>3, <3>1, <3>2
  <2>5. row[p] = other[p] /\ (p \in A \/ IsGood(<<p, up[p]>>))
    BY <2>3, <2>4
  <2>6. PICK i \in DOMAIN matched : IsJoint(query, i, p, k)
    BY <1>1, <2>2 DEF IsUpper
  <2>7. \E previous : GoesTo(p, previous, k)
    <3>1. CASE p \in A
      <4>1. PICK previous : /\ IsGood(<<p, previous>>)
                            /\ previous = 0 \/ (previous \in A /\ previous # 1 /\ up[previous] = p)
        BY <1>3, <3>1 DEF IsMet
      <4>2. previous # k
        BY <2>2, <2>3, <4>1
      <4>3. QED
        BY <4>1, <4>2 DEF GoesTo
    <3>2. CASE p \notin A
      <4>1. IsGood(<<p, up[p]>>) /\ p # 1
        BY <1>2, <2>5, <3>2
      <4>2. up[p] < p /\ up[p] \in Nat
        BY <1>1, <2>3, <4>1, UppersAreLess
      <4>3. up[p] # k
        BY <2>3, <4>2
      <4>4. QED
        BY <4>1, <4>3 DEF GoesTo
    <3>3. QED
      BY <3>1, <3>2
  <2>8. PICK previous : GoesTo(p, previous, k)
    BY <2>7
  <2>9. AreEnds(p, k, p, k)
    BY DEF AreEnds
  <2>10. IsGood(<<k, p>>)
    BY <2>6, <2>8, <2>9, JointsAreCrossed
  <2>11. row[k] = other[k]
    <3>1. CASE row[k] # 0 /\ other[k] # 0
      BY <2>5, <2>6, <2>8, <2>9, <3>1, JointRowsAreOne
    <3>2. CASE row[k] = 0 \/ other[k] = 0
      <4>1. TablesInv /\ IsFlat(query)
        BY DEF IsAnswered, JoinedInOrder
      <4>2. Found(query, row, k) = Found(query, other, k)
        BY <2>2, <2>4, <4>1, FoundByTheRowsBefore
      <4>3. /\ row[k] = 0 => Found(query, row, k) = {}
            /\ row[k] # 0 => row[k] \in Found(query, row, k)
            /\ other[k] = 0 => Found(query, other, k) = {}
            /\ other[k] # 0 => other[k] \in Found(query, other, k)
        BY <2>2, <4>1, RowsOfResults
      <4>4. QED
        BY <3>2, <4>2, <4>3
    <3>3. QED
      BY <3>1, <3>2
  <2>12. QED
    BY <2>1, <2>10, <2>11
<1>6. \A k \in Refs(query) : row[k] = other[k]
  BY <1>5
<1>7. row \in [Refs(query) -> 0 .. MaxRows] /\ other \in [Refs(query) -> 0 .. MaxRows]
  BY DEF Result
<1>8. QED
  BY <1>6, <1>7

LEMMA RowsHaveAGrain ==
  ASSUME ReflexiveAreSingle, NEW query \in Queries, IsAnswered(query),
         NEW g \in Refs(query), g \notin NullableRefs(matched), NEW row \in Result(query)
  PROVE  row[g] # 0
<1>1. TablesInv /\ IsFlat(query)
  BY DEF IsAnswered, JoinedInOrder
<1>2. CASE g = 1
  BY <1>1, <1>2, QueriesAreTyped, RowsOfResults
<1>3. CASE g # 1
  <2>1. PICK before \in Refs(query), i \in DOMAIN matched : IsJoint(query, i, before, g)
    BY <1>3, JointsAreThere DEF IsAnswered
  <2>2. matched[i].right # g \/ matched[i].kind # "left"
    BY DEF NullableRefs
  <2>3. QED
    BY <2>1, <2>2, JointRowsMeet
<1>4. QED
  BY <1>2, <1>3

(* A query that passes with an expected grain and no plan returns every    *)
(* row of that instance at most once and no row without one: for any       *)
(* catalog, any rows and any query that joins its instances in their       *)
(* order, whatever else it joins or compares (_grain_compatible).          *)
THEOREM PassedQueriesKeepGrain ==
  ASSUME ReflexiveAreSingle
  PROVE  SqlSpec => [](JoinedInOrder(sql.query) => PassesKeepGrain)
<1>1. SearchInv /\ EvidenceInv /\ RowsInv => (JoinedInOrder(sql.query) => PassesKeepGrain)
  <2> SUFFICES ASSUME SearchInv, EvidenceInv, RowsInv, JoinedInOrder(sql.query),
                      Passed, sql.plan = 0,
                      Cardinality(Named(sql.query, sql.grain)) = 1,
                      NEW g \in Named(sql.query, sql.grain)
               PROVE  KeepsGrainOf(sql.query, g)
    BY DEF PassesKeepGrain
  <2>1. evidence # None /\ \E query \in Queries : sql.query = query /\ IsSearching(query)
    BY DEF SearchInv, Passed
  <2>2. PICK query \in Queries : sql.query = query /\ IsSearching(query)
    BY <2>1
  <2>3. /\ IsMatched(query) /\ queue = <<>> /\ Ends(query, g)
    BY <2>2 DEF IsSearching, Passed
  <2>4. g \notin NullableRefs(matched) /\ IsGood(<<g, 0>>)
    <3>1. DOMAIN queue = {}
      BY <2>3
    <3>2. QED
      BY <2>2, <2>3, <3>1 DEF Ends
  <2>5. g \in Refs(query)
    BY <2>2, NamedAreFinite
  <2>6. IsAnswered(query)
    BY <2>1, <2>2, <2>3 DEF IsAnswered, EvidenceInv
  <2>7. \A row, other \in Result(query) : row[g] # 0 /\ (row[g] = other[g] => row = other)
    BY <2>4, <2>5, <2>6, RowsHaveAGrain, RowsAreTold
  <2>8. QED
    BY <2>2, <2>7 DEF KeepsGrainOf
<1>2. QED
  BY <1>1, SearchInvAlways, EvidenceInvAlways, RowsInvAlways, PTL

-----------------------------------------------------------------------------
(* The other way round: rows that meet are rows the query joins.           *)

(* Two instances of one entity are compared by one equality.               *)
IsOneWay(query, e) ==
  query.entity[e.left] = query.entity[e.right] => \A p, other \in e.pairs : p = other

LEMMA AllPairsAreRead ==
  ASSUME ReflexiveAreSingle, NEW query \in Queries, NEW e \in Edges(query), IsOneWay(query, e),
         NEW r \in Relationships, SeedEndpoints(r) = Endpoints(query, e), NEW p \in e.pairs
  PROVE  \E i \in DOMAIN Catalog[r].childColumns :
           IF ChildIsLeft(query, e, r) THEN ReadsLeft(query, e, r, i, p)
                                       ELSE ReadsRight(query, e, r, i, p)
<1>1. PICK i \in DOMAIN Catalog[r].childColumns :
        ReadsLeft(query, e, r, i, p) \/ ReadsRight(query, e, r, i, p)
  BY PairsAreRead
<1>2. PICK other \in e.pairs : IF ChildIsLeft(query, e, r) THEN ReadsLeft(query, e, r, i, other)
                                                          ELSE ReadsRight(query, e, r, i, other)
  BY ChildIsFound
<1>3. CASE query.entity[e.left] = query.entity[e.right]
  <2>1. p = other
    BY <1>3 DEF IsOneWay
  <2>2. QED
    BY <1>2, <2>1
<1>4. CASE query.entity[e.left] # query.entity[e.right]
  BY <1>1, <1>2, <1>4 DEF ReadsLeft, ReadsRight
<1>5. QED
  BY <1>3, <1>4

(* Column pair i of the matched relationship is what the equality compares.*)
IsCompared(m, i, eq) ==
  LET child == <<m.child, Catalog[m.rel].childColumns[i]>>
      parent == <<m.parent, Catalog[m.rel].parentColumns[i]>>
  IN  \/ eq.left = child /\ eq.right = parent
      \/ eq.left = parent /\ eq.right = child

LEMMA EqualitiesAreOfRelationships ==
  ASSUME ReflexiveAreSingle, NEW query \in Queries, NEW e \in Edges(query), IsOneWay(query, e),
         Matching(query, e) # {}, NEW m, m = MatchedEdge(query, e),
         NEW p \in e.pairs, NEW eq, Spans(eq, e, p)
  PROVE  \E i \in DOMAIN Catalog[m.rel].childColumns : IsCompared(m, i, eq)
<1>1. /\ m.rel \in Relationships /\ SeedEndpoints(m.rel) = Endpoints(query, e)
      /\ ChildIsLeft(query, e, m.rel) => m.child = e.left /\ m.parent = e.right
      /\ ~ ChildIsLeft(query, e, m.rel) => m.child = e.right /\ m.parent = e.left
  BY MatchedIsOf
<1>2. PICK i \in DOMAIN Catalog[m.rel].childColumns :
        IF ChildIsLeft(query, e, m.rel) THEN ReadsLeft(query, e, m.rel, i, p)
                                        ELSE ReadsRight(query, e, m.rel, i, p)
  BY <1>1, AllPairsAreRead
<1> DEFINE child == <<m.child, Catalog[m.rel].childColumns[i]>>
           parent == <<m.parent, Catalog[m.rel].parentColumns[i]>>
<1>3. \/ <<e.left, p[1]>> = child /\ <<e.right, p[2]>> = parent
      \/ <<e.left, p[1]>> = parent /\ <<e.right, p[2]>> = child
  BY <1>1, <1>2 DEF ReadsLeft, ReadsRight
<1>4. \/ eq.left = child /\ eq.right = parent
      \/ eq.left = parent /\ eq.right = child
  BY <1>3 DEF Spans
<1>5. QED
  BY <1>4 DEF IsCompared

LEMMA CrossingsAreSpanned ==
  ASSUME NEW query \in Queries, NEW eq \in Crossing(query)
  PROVE  \E e \in Edges(query) : \E p \in e.pairs : Spans(eq, e, p)
<1>1. PICK o \in Sides(query) : o = Oriented(query, eq)
  BY DEF Sides
<1>2. PICK e \in Edges(query) : e = EdgeOf(query, o)
  BY EdgesAreOfSides
<1> DEFINE p == <<o.left[2], o.right[2]>>
<1>3. e.left = o.left[1] /\ e.right = o.right[1] /\ e.pairs = PairsOf(query, o)
  BY <1>2 DEF EdgeOf
<1>4. p \in PairsOf(query, o)
  BY DEF PairsOf, GroupOf
<1>5. /\ o.left = <<o.left[1], o.left[2]>> /\ o.right = <<o.right[1], o.right[2]>>
      /\ \/ eq.left = o.left /\ eq.right = o.right
         \/ eq.left = o.right /\ eq.right = o.left
  BY <1>1, OrientedSpans
<1>6. p[1] = o.left[2] /\ p[2] = o.right[2]
  OBVIOUS
<1>7. Spans(eq, e, p)
  BY <1>3, <1>5, <1>6 DEF Spans
<1>8. QED
  BY <1>3, <1>4, <1>7

LEMMA RowsThatMeetAreJoined ==
  ASSUME ReflexiveAreSingle, NEW query \in Queries, NEW e \in Edges(query), IsOneWay(query, e),
         Matching(query, e) # {}, NEW m, m = MatchedEdge(query, e),
         NEW p \in e.pairs, NEW eq, Spans(eq, e, p),
         NEW row, row[m.child] # 0, row[m.parent] # 0, Meets(m.rel, row[m.child], row[m.parent])
  PROVE  /\ Value(query, row, eq.left) # Null
         /\ Value(query, row, eq.left) = Value(query, row, eq.right)
<1> DEFINE r == m.rel
           cc == Catalog[r].childColumns
           pc == Catalog[r].parentColumns
           below == tables[Catalog[r].child][row[m.child]]
           above == tables[Catalog[r].parent][row[m.parent]]
<1>1. r \in Relationships /\ query.entity[m.child] = Catalog[r].child
      /\ query.entity[m.parent] = Catalog[r].parent
  BY MatchedJoins
<1>2. DOMAIN pc = DOMAIN cc
  BY <1>1, RelationshipsAreTyped
<1>3. PICK i \in DOMAIN cc : IsCompared(m, i, eq)
  BY EqualitiesAreOfRelationships
<1>4. KeyOf(below, cc) # Null /\ KeyOf(below, cc) = KeyOf(above, pc)
  BY DEF Meets
<1> HIDE DEF below, above, cc, pc
<1>5. below[cc[i]] # Null /\ below[cc[i]] = above[pc[i]]
  <2>1. KeyOf(below, cc) = [n \in DOMAIN cc |-> below[cc[n]]] /\ below[cc[i]] # Null
    BY <1>4 DEF KeyOf
  <2>2. KeyOf(above, pc) = [n \in DOMAIN pc |-> above[pc[n]]]
    BY <1>4 DEF KeyOf
  <2>3. KeyOf(below, cc)[i] = below[cc[i]] /\ KeyOf(above, pc)[i] = above[pc[i]]
    BY <1>2, <2>1, <2>2
  <2>4. QED
    BY <1>4, <2>1, <2>3
<1> DEFINE child == <<m.child, cc[i]>>
           parent == <<m.parent, pc[i]>>
<1>6. /\ child[1] = m.child /\ child[2] = cc[i] /\ parent[1] = m.parent /\ parent[2] = pc[i]
  OBVIOUS
<1>7. \/ eq.left = child /\ eq.right = parent
      \/ eq.left = parent /\ eq.right = child
  BY <1>3 DEF IsCompared, cc, pc
<1> HIDE DEF child, parent
<1>8. Value(query, row, child) = below[cc[i]] /\ Value(query, row, parent) = above[pc[i]]
  BY <1>1, <1>6 DEF Value, below, above
<1>9. QED
  BY <1>5, <1>7, <1>8

-----------------------------------------------------------------------------
(* A query bound to a plan: its instances are the plan's refs.             *)

LEMMA AllAreJoined ==
  ASSUME NEW query \in Queries, IsFlat(query), ~ MissingPredicate(query), GraphRefs(query) # {}
  PROVE  GraphRefs(query) = Refs(query)
<1>1. GraphRefs(query) \subseteq Refs(query)
  BY EdgesJoin DEF GraphRefs
<1>2. ASSUME NEW ref \in Refs(query) \ GraphRefs(query)
      PROVE  FALSE
  <2>1. PICK other \in GraphRefs(query) : TRUE
    OBVIOUS
  <2>2. other \in Refs(query) \ {ref}
    BY <1>1, <2>1
  <2>3. query.scope[other] = query.scope[ref]
    BY <2>2 DEF IsFlat
  <2>4. QED
    BY <2>2, <2>3 DEF MissingPredicate
<1>3. QED
  BY <1>1, <1>2

(* The edge of the query is that of the plan, under the mapping.           *)
IsPlanned(mapping, m, e) ==
  /\ m.rel = e.rel
  /\ e.traversal = "forward" => mapping[m.child] = e.from /\ mapping[m.parent] = e.to
  /\ e.traversal # "forward" => mapping[m.child] = e.to /\ mapping[m.parent] = e.from

(* Each ref of the request is one instance of the query, of its entity,    *)
(* and the edges are the same.                                             *)
IsBinding(query, q, plan, mapping) ==
  /\ mapping \in [Refs(query) -> q.refs]
  /\ \A i, j \in Refs(query) : i # j => mapping[i] # mapping[j]
  /\ \A ref \in q.refs : \E i \in Refs(query) : mapping[i] = ref
  /\ \A i \in Refs(query) : query.entity[i] = q.entity[mapping[i]]
  /\ \A i \in DOMAIN matched : \E n \in DOMAIN plan : IsPlanned(mapping, matched[i], plan[n])
  /\ \A n \in DOMAIN plan : \E i \in DOMAIN matched : IsPlanned(mapping, matched[i], plan[n])

LEMMA MappingsAreBindings ==
  ASSUME NEW query \in Queries, IsFlat(query), ~ MissingPredicate(query),
         NEW q \in Requests, NEW plan, NEW mapping \in Mappings(query, matched, q, plan)
  PROVE  IsBinding(query, q, plan, mapping)
<1> DEFINE EndsOf(e) == IF e.traversal = "forward" THEN <<e.rel, e.from, e.to>>
                                                  ELSE <<e.rel, e.to, e.from>>
           Triple(m) == <<m.rel, mapping[m.child], mapping[m.parent]>>
<1>1. /\ mapping \in [GraphRefs(query) -> q.refs]
      /\ \A i, j \in GraphRefs(query) : i # j => mapping[i] # mapping[j]
      /\ Cardinality(GraphRefs(query)) = Cardinality(q.refs)
      /\ \A i \in GraphRefs(query) : query.entity[i] = q.entity[mapping[i]]
      /\ {Triple(matched[i]) : i \in DOMAIN matched} = {EndsOf(plan[n]) : n \in DOMAIN plan}
  BY DEF Mappings
<1>2. IsFiniteSet(q.refs) /\ Cardinality(q.refs) \in 2 .. 8
  BY PlannerConstants
<1>3. GraphRefs(query) = Refs(query)
  <2>1. GraphRefs(query) # {}
    BY <1>1, <1>2, FS_EmptySet
  <2>2. QED
    BY <2>1, AllAreJoined
<1>4. \A ref \in q.refs : \E i \in Refs(query) : mapping[i] = ref
  <2> DEFINE S == Refs(query)
             T == q.refs
  <2>1. /\ mapping \in [S -> T] /\ Cardinality(S) = Cardinality(T) /\ IsFiniteSet(T)
        /\ \A i, j \in S : i # j => mapping[i] # mapping[j]
    BY <1>1, <1>2, <1>3
  <2> HIDE DEF S, T
  <2>2. mapping \in Injection(S, T)
    BY <2>1 DEF Injection, IsInjective
  <2>3. mapping \in Surjection(S, T)
    BY <2>1, <2>2, FS_Injection
  <2>4. \A ref \in T : \E i \in S : mapping[i] = ref
    BY <2>3 DEF Surjection
  <2>5. QED
    BY <2>4 DEF S, T
<1>5. \A m, e : Triple(m) = EndsOf(e) => IsPlanned(mapping, m, e)
  BY DEF IsPlanned
<1> HIDE DEF Triple, EndsOf
<1>6. \A i \in DOMAIN matched : \E n \in DOMAIN plan : Triple(matched[i]) = EndsOf(plan[n])
  BY <1>1
<1>7. \A n \in DOMAIN plan : \E i \in DOMAIN matched : Triple(matched[i]) = EndsOf(plan[n])
  BY <1>1
<1>8. QED
  BY <1>1, <1>3, <1>4, <1>5, <1>6, <1>7 DEF IsBinding

(* The query has no derived table and compares nothing but the columns its *)
(* joins are matched by, each in a condition that restricts the result.    *)
ComparesOnlyToJoin(query) ==
  /\ IsFlat(query)
  /\ \A eq \in query.equalities : eq \in Crossing(query) /\ eq.filters
  /\ \A e \in Edges(query) : IsOneWay(query, e)

(* A query that is bound to a plan, over the tables measured.              *)
IsBound(query, q, plan, mapping) ==
  /\ TablesInv /\ RowsInv
  /\ IsMatched(query) /\ ComparesOnlyToJoin(query)
  /\ IsBinding(query, q, plan, mapping)
  /\ \A n \in DOMAIN plan : IsEdge(q, plan[n])

(* The row taken of an instance is the one picked for its ref.             *)
IsPicked(query, mapping, row, pick) ==
  \A i \in Refs(query) : row[i] = pick[mapping[i]]

PlanMeets(e, pick) ==
  IF e.traversal = "forward" THEN Meets(e.rel, pick[e.from], pick[e.to])
                             ELSE Meets(e.rel, pick[e.to], pick[e.from])

LEMMA MeetingAlongThePlan ==
  ASSUME NEW m, NEW e, NEW mapping, NEW row, NEW pick, IsPlanned(mapping, m, e),
         row[m.child] = pick[mapping[m.child]], row[m.parent] = pick[mapping[m.parent]]
  PROVE  Meets(m.rel, row[m.child], row[m.parent]) <=> PlanMeets(e, pick)
BY DEF IsPlanned, PlanMeets

LEMMA JoinedAlongThePlan ==
  ASSUME NEW q, NEW plan, NEW pick, NEW row
  PROVE  pick \in Joined(q, plan, row) <=>
           /\ pick \in [q.refs -> 1 .. MaxRows]
           /\ \A ref \in q.refs : pick[ref] <= Len(tables[q.entity[ref]])
           /\ pick[q.expected] = row
           /\ \A n \in DOMAIN plan : PlanMeets(plan[n], pick)
BY DEF Joined, PlanMeets

LEMMA MatchedAreOfEdges ==
  ASSUME NEW query \in Queries, IsMatched(query), NEW i \in DOMAIN matched
  PROVE  \E e \in Edges(query) :
           /\ Matching(query, e) # {} /\ matched[i] = MatchedEdge(query, e)
           /\ matched[i].child \in Refs(query) /\ matched[i].parent \in Refs(query)
<1>1. PICK e \in Edges(query) : matched[i] = MatchedEdge(query, e) /\ Matching(query, e) # {}
  BY DEF IsMatched
<1>2. e.left \in Refs(query) /\ e.right \in Refs(query)
  BY EdgesJoin
<1>3. \/ matched[i].child = e.left /\ matched[i].parent = e.right
      \/ matched[i].child = e.right /\ matched[i].parent = e.left
  BY <1>1, MatchedIsOf
<1>4. QED
  BY <1>1, <1>2, <1>3

LEMMA RowsAreOfThePlan ==
  ASSUME ReflexiveAreSingle, NEW query \in Queries, NEW q \in Requests, NEW plan, NEW mapping,
         IsBound(query, q, plan, mapping),
         NEW row \in Result(query), \A i \in Refs(query) : row[i] # 0,
         NEW pick \in [q.refs -> 1 .. MaxRows], IsPicked(query, mapping, row, pick)
  PROVE  pick \in Joined(q, plan, pick[q.expected])
<1>1. /\ TablesInv /\ RowsInv /\ IsMatched(query) /\ IsFlat(query) /\ EveryOneFilters(query)
      /\ ~ UnsupportedShape(query) /\ IsBinding(query, q, plan, mapping)
  <2>1. /\ TablesInv /\ RowsInv /\ IsMatched(query) /\ ComparesOnlyToJoin(query)
        /\ IsBinding(query, q, plan, mapping)
    BY DEF IsBound
  <2>2. IsFlat(query) /\ EveryOneFilters(query)
    BY <2>1 DEF ComparesOnlyToJoin, EveryOneFilters, Crossing
  <2>3. ~ UnsupportedShape(query)
    BY <2>1 DEF IsMatched
  <2>4. QED
    BY <2>1, <2>2, <2>3
<1>2. ASSUME NEW ref \in q.refs
      PROVE  pick[ref] <= Len(tables[q.entity[ref]])
  <2>1. PICK i \in Refs(query) : mapping[i] = ref
    BY <1>1 DEF IsBinding
  <2>2. query.entity[i] = q.entity[ref] /\ query.entity[i] \in Entities
    BY <1>1, <2>1, QueriesAreTyped DEF IsBinding
  <2>3. row[i] \in DOMAIN tables[query.entity[i]]
    BY <1>1, RowsOfResults
  <2>4. row[i] \in 1 .. Len(tables[q.entity[ref]]) /\ row[i] = pick[ref]
    BY <1>1, <2>1, <2>2, <2>3 DEF TablesInv, IsPicked
  <2>5. Len(tables[q.entity[ref]]) \in Nat
    BY <1>1, <2>2 DEF TablesInv
  <2>6. QED
    BY <2>4, <2>5
<1>3. ASSUME NEW n \in DOMAIN plan
      PROVE  PlanMeets(plan[n], pick)
  <2>1. PICK i \in DOMAIN matched : IsPlanned(mapping, matched[i], plan[n])
    BY <1>1 DEF IsBinding
  <2>2. PICK m : m = matched[i]
    OBVIOUS
  <2>3. PICK e \in Edges(query) : Matching(query, e) # {} /\ m = MatchedEdge(query, e)
                                  /\ m.child \in Refs(query) /\ m.parent \in Refs(query)
    BY <1>1, <2>2, MatchedAreOfEdges
  <2>4. Restricts(e, row)
    BY EdgesJoin DEF Restricts
  <2>5. Meets(m.rel, row[m.child], row[m.parent])
    BY <1>1, <2>3, <2>4, MatchedRowsMeet DEF RowsMeet
  <2>6. IsPlanned(mapping, m, plan[n])
    BY <2>1, <2>2
  <2>7. row[m.child] = pick[mapping[m.child]] /\ row[m.parent] = pick[mapping[m.parent]]
    BY <2>3 DEF IsPicked
  <2>8. QED
    BY <2>5, <2>6, <2>7, MeetingAlongThePlan
<1>4. QED
  BY <1>2, <1>3, JoinedAlongThePlan

LEMMA RowsOfThePlanAreJoined ==
  ASSUME ReflexiveAreSingle, NEW query \in Queries, NEW q \in Requests, NEW plan, NEW mapping,
         IsBound(query, q, plan, mapping),
         NEW first, NEW pick \in Joined(q, plan, first),
         NEW row \in [Refs(query) -> 0 .. MaxRows], IsPicked(query, mapping, row, pick)
  PROVE  row \in Result(query) /\ \A i \in Refs(query) : row[i] # 0
<1>1. /\ TablesInv /\ IsMatched(query) /\ IsFlat(query) /\ IsBinding(query, q, plan, mapping)
      /\ \A eq \in query.equalities : eq \in Crossing(query)
      /\ \A e \in Edges(query) : IsOneWay(query, e)
  BY DEF IsBound, ComparesOnlyToJoin
<1>2. /\ pick \in [q.refs -> 1 .. MaxRows]
      /\ \A ref \in q.refs : pick[ref] <= Len(tables[q.entity[ref]])
      /\ \A n \in DOMAIN plan : PlanMeets(plan[n], pick)
  BY JoinedAlongThePlan
<1>3. ASSUME NEW i \in Refs(query)
      PROVE  row[i] # 0 /\ row[i] \in DOMAIN tables[query.entity[i]]
  <2>1. /\ mapping[i] \in q.refs /\ query.entity[i] = q.entity[mapping[i]]
        /\ query.entity[i] \in Entities
    BY <1>1, QueriesAreTyped DEF IsBinding
  <2>2. /\ row[i] \in 1 .. MaxRows /\ row[i] <= Len(tables[query.entity[i]])
    BY <1>2, <2>1 DEF IsPicked
  <2>3. DOMAIN tables[query.entity[i]] = 1 .. Len(tables[query.entity[i]])
        /\ Len(tables[query.entity[i]]) \in Nat /\ MaxRows \in Nat
    BY <1>1, <2>1, PlannerConstants DEF TablesInv
  <2>4. QED
    BY <2>2, <2>3
<1>4. ASSUME NEW eq \in query.equalities
      PROVE  /\ Value(query, row, eq.left) # Null
             /\ Value(query, row, eq.left) = Value(query, row, eq.right)
  <2>1. PICK e \in Edges(query) : \E p \in e.pairs : Spans(eq, e, p)
    BY <1>1, CrossingsAreSpanned
  <2>2. PICK p \in e.pairs : Spans(eq, e, p)
    BY <2>1
  <2>3. PICK i \in DOMAIN matched : matched[i] = MatchedEdge(query, e)
    BY <1>1 DEF IsMatched
  <2>4. PICK m : m = matched[i]
    OBVIOUS
  <2>5. Matching(query, e) # {} /\ m = MatchedEdge(query, e) /\ IsOneWay(query, e)
    BY <1>1, <2>3, <2>4 DEF IsMatched
  <2>6. m.child \in Refs(query) /\ m.parent \in Refs(query)
    BY <1>1, <2>4, MatchedAreOfEdges
  <2>7. PICK n \in DOMAIN plan : IsPlanned(mapping, m, plan[n])
    BY <1>1, <2>4 DEF IsBinding
  <2>8. row[m.child] = pick[mapping[m.child]] /\ row[m.parent] = pick[mapping[m.parent]]
    BY <2>6 DEF IsPicked
  <2>9. Meets(m.rel, row[m.child], row[m.parent])
    BY <1>2, <2>7, <2>8, MeetingAlongThePlan
  <2>10. row[m.child] # 0 /\ row[m.parent] # 0
    BY <1>3, <2>6
  <2>11. QED
    BY <2>2, <2>5, <2>9, <2>10, RowsThatMeetAreJoined
<1>5. \A ref : Meet(query, row, Clause(query, ref))
  BY <1>4 DEF Meet, Clause
<1>6. ASSUME NEW ref \in Refs(query)
      PROVE  row[ref] \in Found(query, row, ref)
  <2>1. [row EXCEPT ![ref] = row[ref]] = row
    OBVIOUS
  <2>2. Meet(query, [row EXCEPT ![ref] = row[ref]], Clause(query, ref))
    BY <1>5, <2>1
  <2>3. Found(query, row, ref) =
          {n \in DOMAIN tables[query.entity[ref]] :
             Meet(query, [row EXCEPT ![ref] = n], Clause(query, ref))}
    BY <1>1 DEF Found, IsFlat
  <2>4. QED
    BY <1>3, <2>2, <2>3
<1>7. QED
  BY <1>3, <1>5, <1>6 DEF Result

LEMMA BoundQueriesJoinAsPlanned ==
  ASSUME ReflexiveAreSingle, NEW query \in Queries, NEW q \in Requests, NEW plan, NEW mapping,
         IsBound(query, q, plan, mapping)
  PROVE  \E instance \in [q.refs -> Refs(query)] :
           /\ \A a, b \in q.refs : a # b => instance[a] # instance[b]
           /\ {[ref \in q.refs |-> row[instance[ref]]] :
                 row \in {r \in Result(query) : \A i \in Refs(query) : r[i] # 0}}
                = PlannedRows(q, plan)
<1> DEFINE instance == [ref \in q.refs |-> CHOOSE i \in Refs(query) : mapping[i] = ref]
           inner == {r \in Result(query) : \A i \in Refs(query) : r[i] # 0}
           Picked(row) == [ref \in q.refs |-> row[instance[ref]]]
<1>1. IsBinding(query, q, plan, mapping) /\ TablesInv /\ MaxRows \in Nat
  BY PlannerConstants DEF IsBound
<1>2. \A ref \in q.refs : instance[ref] \in Refs(query) /\ mapping[instance[ref]] = ref
  <2> SUFFICES ASSUME NEW ref \in q.refs
               PROVE  instance[ref] \in Refs(query) /\ mapping[instance[ref]] = ref
    OBVIOUS
  <2>1. PICK place \in Refs(query) : mapping[place] = ref
    BY <1>1 DEF IsBinding
  <2>2. instance[ref] = CHOOSE i \in Refs(query) : mapping[i] = ref
    OBVIOUS
  <2> HIDE DEF instance
  <2>3. QED
    BY <2>1, <2>2
<1>3. instance \in [q.refs -> Refs(query)]
  BY <1>2
<1> HIDE DEF instance
<1>4. \A i \in Refs(query) : mapping[i] \in q.refs /\ instance[mapping[i]] = i
  <2>1. \A i \in Refs(query) : mapping[i] \in q.refs
    BY <1>1 DEF IsBinding
  <2>2. \A i, j \in Refs(query) : i # j => mapping[i] # mapping[j]
    BY <1>1 DEF IsBinding
  <2>3. QED
    BY <1>2, <2>1, <2>2
<1>5. \A a, b \in q.refs : a # b => instance[a] # instance[b]
  BY <1>2
<1>6. ASSUME NEW row \in inner
      PROVE  Picked(row) \in PlannedRows(q, plan)
  <2>1. row \in Result(query) /\ \A i \in Refs(query) : row[i] # 0
    OBVIOUS
  <2>2. row \in [Refs(query) -> 0 .. MaxRows]
    BY <2>1 DEF Result
  <2>3. PICK pick : pick = Picked(row)
    OBVIOUS
  <2>4. \A i \in Refs(query) : row[i] \in 1 .. MaxRows
    BY <1>1, <2>1, <2>2
  <2>5. pick \in [q.refs -> 1 .. MaxRows]
    BY <1>2, <2>3, <2>4
  <2>6. IsPicked(query, mapping, row, pick)
    BY <1>4, <2>3 DEF IsPicked
  <2>7. pick \in Joined(q, plan, pick[q.expected])
    BY <2>1, <2>5, <2>6, RowsAreOfThePlan
  <2>8. pick[q.expected] \in DOMAIN tables[q.entity[q.expected]]
    <3>1. q.expected \in q.refs /\ q.entity[q.expected] \in Entities
      BY RequestsAreFinite
    <3>2. pick[q.expected] <= Len(tables[q.entity[q.expected]])
      BY <2>7, <3>1, JoinedAlongThePlan
    <3>3. /\ pick[q.expected] \in 1 .. MaxRows
          /\ DOMAIN tables[q.entity[q.expected]] = 1 .. Len(tables[q.entity[q.expected]])
          /\ Len(tables[q.entity[q.expected]]) \in Nat
      BY <1>1, <2>5, <3>1 DEF TablesInv
    <3>4. QED
      BY <1>1, <3>2, <3>3
  <2>9. QED
    BY <2>3, <2>7, <2>8 DEF PlannedRows
<1>7. ASSUME NEW pick \in PlannedRows(q, plan)
      PROVE  \E row \in inner : pick = Picked(row)
  <2>1. PICK first : pick \in Joined(q, plan, first)
    BY DEF PlannedRows
  <2>2. pick \in [q.refs -> 1 .. MaxRows]
    BY <2>1, JoinedAlongThePlan
  <2>3. PICK row : row = [i \in Refs(query) |-> pick[mapping[i]]]
    OBVIOUS
  <2>4. row \in [Refs(query) -> 0 .. MaxRows]
    BY <1>1, <1>4, <2>2, <2>3
  <2>5. IsPicked(query, mapping, row, pick)
    BY <2>3 DEF IsPicked
  <2>6. row \in inner
    BY <2>1, <2>4, <2>5, RowsOfThePlanAreJoined
  <2>7. \A ref \in q.refs : row[instance[ref]] = pick[ref]
    BY <1>2, <2>3
  <2>8. pick = Picked(row)
    BY <2>2, <2>7
  <2>9. QED
    BY <2>6, <2>8
<1>8. {Picked(row) : row \in inner} = PlannedRows(q, plan)
  BY <1>6, <1>7
<1>9. QED
  BY <1>3, <1>5, <1>8

(* A query validated with a plan is bound to it until it is blocked.       *)
BoundInv ==
  (outcome = "passes" \/ queue # <<>>) /\ sql.plan # 0 =>
    /\ answer # None /\ sql.plan \in DOMAIN answer
    /\ \E query \in Queries :
         /\ sql.query = query /\ IsMatched(query) /\ ~ MissingPredicate(query)
         /\ Mappings(query, matched, request, answer[sql.plan]) # {}

LEMMA BoundInvInit ==
  SqlInit => BoundInv
BY SqlConstants DEF SqlInit, BoundInv

LEMMA BoundInvStays ==
  ASSUME BoundInv, UNCHANGED <<evidence, request, answer, matched, sql, queue, outcome>>
  PROVE  BoundInv'
<1>1. \A query : IsMatched(query)' = IsMatched(query)
  BY MatchedStays
<1>2. QED
  BY <1>1 DEF BoundInv

LEMMA ValidateBinds ==
  ASSUME NEW query \in Queries, NEW grain, NEW plan, ValidateSql(query, grain, plan),
         answer # None, plan \in DOMAIN answer, UNCHANGED <<evidence, request, answer>>
  PROVE  BoundInv'
<1> SUFFICES ASSUME outcome' = "passes" \/ queue' # <<>>, sql'.plan # 0
             PROVE  /\ answer' # None /\ sql'.plan \in DOMAIN answer'
                    /\ \E q \in Queries :
                         /\ sql'.query = q /\ IsMatched(q)' /\ ~ MissingPredicate(q)
                         /\ Mappings(q, matched', request', answer'[sql'.plan]) # {}
  BY DEF BoundInv
<1>1. /\ sql' = [query |-> query, grain |-> grain, plan |-> plan]
      /\ ~ MissingPredicate(query) /\ IsMatched(query)'
      /\ Decide(query, matched', grain, plan)
  BY ValidateMatches
<1>2. sql'.query = query /\ sql'.plan = plan /\ plan # 0
  BY <1>1
<1>3. Mappings(query, matched', request, answer[plan]) # {}
  <2> SUFFICES ASSUME Mappings(query, matched', request, answer[plan]) = {}
               PROVE  FALSE
    OBVIOUS
  <2>1. Blocked("PROOF_GRAPH_MISMATCH")
    BY <1>1, <1>2 DEF Decide
  <2>2. QED
    BY <2>1 DEF Blocked
<1>4. QED
  BY <1>1, <1>2, <1>3

LEMMA BoundInvNext ==
  PlanInv /\ BoundInv /\ [SqlNext]_<<vars, sqlVars>> => BoundInv'
<1> SUFFICES ASSUME PlanInv, BoundInv, [SqlNext]_<<vars, sqlVars>>
             PROVE  BoundInv'
  OBVIOUS
<1>1. CASE Verify /\ UNCHANGED sqlVars
  BY <1>1 DEF Verify, BoundInv, PlanInv, sqlVars
<1>2. CASE GetJoinPlan /\ UNCHANGED sqlVars
  BY <1>2 DEF GetJoinPlan, BoundInv, sqlVars
<1>3. CASE ValidateAlone
  <2>1. PICK query \in Queries, grain \in Grains : ValidateSql(query, grain, 0)
    BY <1>3 DEF ValidateAlone
  <2>2. sql'.plan = 0
    BY <2>1 DEF ValidateSql
  <2>3. QED
    BY <2>2 DEF BoundInv
<1>4. CASE ValidateWithPlan
  <2>1. PICK query \in Queries, plan \in DOMAIN answer, grain \in request.refs :
          ValidateSql(query, grain, plan)
    BY <1>4 DEF ValidateWithPlan
  <2>2. answer # None /\ UNCHANGED <<evidence, request, answer>>
    BY <1>4 DEF ValidateWithPlan, vars
  <2>3. QED
    BY <2>1, <2>2, ValidateBinds
<1>5. CASE Search
  <2>1. UNCHANGED <<evidence, request, answer, matched, sql>> /\ queue # <<>>
    BY <1>5 DEF Search, vars
  <2>2. \A query : IsMatched(query)' = IsMatched(query)
    BY <2>1, MatchedStays
  <2>3. QED
    BY <2>1, <2>2 DEF BoundInv
<1>6. CASE UNCHANGED <<vars, sqlVars>>
  <2>1. UNCHANGED <<evidence, request, answer, matched, sql, queue, outcome>>
    BY <1>6 DEF vars, sqlVars
  <2>2. QED
    BY <2>1, BoundInvStays
<1>7. QED
  BY <1>1, <1>2, <1>3, <1>4, <1>5, <1>6 DEF SqlNext

(* A query that passes with a plan joins the rows the plan joins, up to    *)
(* the names of its instances and but for what its left joins add, for any *)
(* catalog, any rows and any query that compares only what its joins are   *)
(* matched by (_proof_mapping).                                            *)
THEOREM PassedQueriesJoinAsPlanned ==
  ASSUME ReflexiveAreSingle
  PROVE  SqlSpec => [](ComparesOnlyToJoin(sql.query) => BoundSqlJoinsAsPlanned)
<1>1. PlanInv /\ BoundInv /\ EvidenceInv /\ RowsInv
        => (ComparesOnlyToJoin(sql.query) => BoundSqlJoinsAsPlanned)
  <2> SUFFICES ASSUME PlanInv, BoundInv, EvidenceInv, RowsInv, ComparesOnlyToJoin(sql.query),
                      Passed, sql.plan # 0
               PROVE  BoundSqlJoinsAsPlanned
    BY DEF BoundSqlJoinsAsPlanned
  <2>1. /\ answer # None /\ sql.plan \in DOMAIN answer
        /\ \E query \in Queries :
             /\ sql.query = query /\ IsMatched(query) /\ ~ MissingPredicate(query)
             /\ Mappings(query, matched, request, answer[sql.plan]) # {}
    BY DEF BoundInv, Passed
  <2>2. PICK query \in Queries :
          /\ sql.query = query /\ IsMatched(query) /\ ~ MissingPredicate(query)
          /\ Mappings(query, matched, request, answer[sql.plan]) # {}
    BY <2>1
  <2>3. PICK q \in Requests : request = q /\ answer = PlanJoin(q)
    BY <2>1 DEF PlanInv
  <2>4. PICK plan : plan = answer[sql.plan]
    OBVIOUS
  <2>5. PICK mapping : mapping \in Mappings(query, matched, q, plan)
    BY <2>2, <2>3, <2>4
  <2>6. IsBinding(query, q, plan, mapping)
    BY <2>2, <2>5, MappingsAreBindings DEF ComparesOnlyToJoin
  <2>7. \A n \in DOMAIN plan : IsEdge(q, plan[n])
    <3>1. plan \in AllTrees(q)
      BY <2>1, <2>3, <2>4, PlansAreSafeTrees
    <3>2. plan \in [1 .. Cardinality(q.refs) - 1 -> CandidateEdges(q)]
      BY <3>1 DEF AllTrees
    <3>3. QED
      BY <3>2, CandidatesAreEdges
  <2>8. IsBound(query, q, plan, mapping)
    BY <2>2, <2>6, <2>7 DEF IsBound, EvidenceInv
  <2>9. PICK instance \in [q.refs -> Refs(query)] :
          /\ \A a, b \in q.refs : a # b => instance[a] # instance[b]
          /\ {[ref \in q.refs |-> row[instance[ref]]] :
                row \in {r \in Result(query) : \A i \in Refs(query) : r[i] # 0}}
               = PlannedRows(q, plan)
    BY <2>8, BoundQueriesJoinAsPlanned
  <2>10. QED
    BY <2>2, <2>3, <2>4, <2>9 DEF BoundSqlJoinsAsPlanned
<1>2. QED
  BY <1>1, BoundInvInit, BoundInvNext, PlanInvAlways, EvidenceInvAlways, RowsInvAlways,
     PTL DEF SqlSpec

-----------------------------------------------------------------------------
(* The search of the validator meets nothing that the planner's does not.  *)

(* Crossing an edge of the query is a step along the plan's edge.          *)
LEMMA StepsAreCrossings ==
  ASSUME NEW q, NEW plan, NEW n \in DOMAIN plan, IsEdge(q, plan[n]),
         NEW mapping, NEW m, IsPlanned(mapping, m, plan[n]),
         NEW i \in {m.child, m.parent}, m.child # m.parent
  PROVE  \E s \in Steps(plan) :
           s.from = mapping[i] /\ s.to = mapping[Across(m, i)] /\ s.matches = Matches(m, i)
<1> DEFINE e == plan[n]
           s == [from |-> e.from, to |-> e.to, matches |-> e.matches]
           t == [from |-> e.to, to |-> e.from, matches |-> e.reverse]
<1>1. s \in Steps(plan) /\ t \in Steps(plan)
  BY DEF Steps, ToSet
<1>2. /\ s.from = e.from /\ s.to = e.to /\ s.matches = e.matches
      /\ t.from = e.to /\ t.to = e.from /\ t.matches = e.reverse
  OBVIOUS
<1>3. /\ e.traversal \in {"forward", "reverse"}
      /\ e = IF e.traversal = "forward" THEN Forward(e.rel, e.from, e.to)
                                        ELSE Backward(e.rel, e.from, e.to)
  BY DEF IsEdge
<1>4. /\ m.rel = e.rel
      /\ e.traversal = "forward" => mapping[m.child] = e.from /\ mapping[m.parent] = e.to
      /\ e.traversal # "forward" => mapping[m.child] = e.to /\ mapping[m.parent] = e.from
  BY DEF IsPlanned
<1> HIDE DEF e, s, t
<1>5. CASE e.traversal = "forward"
  <2>1. e.matches = evidence[e.rel].maxParents /\ e.reverse = evidence[e.rel].maxChildren
    BY <1>3, <1>5 DEF Forward
  <2>2. CASE i = m.child
    BY <1>1, <1>2, <1>4, <1>5, <2>1, <2>2 DEF Across, Matches
  <2>3. CASE i = m.parent
    BY <1>1, <1>2, <1>4, <1>5, <2>1, <2>3 DEF Across, Matches
  <2>4. QED
    BY <2>2, <2>3
<1>6. CASE e.traversal # "forward"
  <2>1. e.matches = evidence[e.rel].maxChildren /\ e.reverse = evidence[e.rel].maxParents
    BY <1>3, <1>6 DEF Backward
  <2>2. CASE i = m.child
    BY <1>1, <1>2, <1>4, <1>6, <2>1, <2>2 DEF Across, Matches
  <2>3. CASE i = m.parent
    BY <1>1, <1>2, <1>4, <1>6, <2>1, <2>3 DEF Across, Matches
  <2>4. QED
    BY <2>2, <2>3
<1>7. QED
  BY <1>5, <1>6

LEMMA MatchedJoinTwo ==
  ASSUME NEW query \in Queries, IsMatched(query), NEW k \in DOMAIN matched
  PROVE  /\ matched[k].child \in Refs(query) /\ matched[k].parent \in Refs(query)
         /\ matched[k].child # matched[k].parent /\ matched[k].rel \in Relationships
<1>1. PICK e \in Edges(query) : matched[k] = MatchedEdge(query, e) /\ Matching(query, e) # {}
  BY DEF IsMatched
<1>2. e.left \in Refs(query) /\ e.right \in Refs(query) /\ e.left # e.right
  BY EdgesJoin
<1>3. /\ matched[k].rel \in Relationships
      /\ \/ matched[k].child = e.left /\ matched[k].parent = e.right
         \/ matched[k].child = e.right /\ matched[k].parent = e.left
  BY <1>1, MatchedIsOf
<1>4. QED
  BY <1>2, <1>3

(* What the planner's search meets, where the validator's search is.       *)
MetAt(mapping, x) ==
  [ref |-> mapping[x[1]], parent |-> IF x[2] = 0 THEN mapping[x[1]] ELSE mapping[x[2]]]

LEMMA BoundSearchesAreGood ==
  ASSUME TablesInv, evidence = Measured,
         NEW query \in Queries, IsMatched(query), NEW q \in Requests,
         NEW plan \in AllTrees(q), GrainCompatible(q, plan),
         NEW mapping, IsBinding(query, q, plan, mapping),
         NEW start \in Refs(query), mapping[start] = q.expected
  PROVE  IsGood(<<start, 0>>)
<1>1. PICK met : /\ [ref |-> q.expected, parent |-> q.expected] \in met
                 /\ \A s \in Leaving(Steps(plan), met) :
                      s.matches <= 1 /\ [ref |-> s.to, parent |-> s.from] \in met
  BY SafeTreesAreWalked
<1>2. /\ \A i, j \in Refs(query) : i # j => mapping[i] # mapping[j]
      /\ \A k \in DOMAIN matched : \E n \in DOMAIN plan : IsPlanned(mapping, matched[k], plan[n])
  BY DEF IsBinding
<1>3. \A n \in DOMAIN plan : IsEdge(q, plan[n])
  BY CandidatesAreEdges DEF AllTrees
<1>4. Refs(query) \subseteq Nat /\ 0 \notin Refs(query)
  BY QueriesAreTyped
<1> DEFINE G == {x \in PlacesOfSearch :
                   x[1] \in Refs(query) /\ x[2] \in {0} \cup Refs(query) /\ MetAt(mapping, x) \in met}
<1>5. ASSUME NEW x \in G, NEW k \in Onwards(x[1], x[2])
      PROVE  ~ (Matches(matched[k], x[1]) > 1) /\ NextPlace(k, x) \in G
  <2> DEFINE i == x[1]
             j == x[2]
             other == Across(matched[k], i)
  <2>1. i \in Refs(query) /\ j \in {0} \cup Refs(query) /\ MetAt(mapping, x) \in met
    OBVIOUS
  <2>2. k \in DOMAIN matched /\ i \in {matched[k].child, matched[k].parent} /\ other # j
    BY DEF Onwards, Near
  <2>3. /\ matched[k].child \in Refs(query) /\ matched[k].parent \in Refs(query)
        /\ matched[k].child # matched[k].parent
    BY <2>2, MatchedJoinTwo
  <2>4. other \in Refs(query) /\ other # i
    BY <2>2, <2>3 DEF Across
  <2>5. PICK n \in DOMAIN plan : IsPlanned(mapping, matched[k], plan[n])
    BY <1>2, <2>2
  <2>6. PICK s \in Steps(plan) : s.from = mapping[i] /\ s.to = mapping[other]
                                 /\ s.matches = Matches(matched[k], i)
    <3>1. IsEdge(q, plan[n])
      BY <1>3
    <3>2. PICK m : m = matched[k]
      OBVIOUS
    <3>3. i \in {m.child, m.parent} /\ m.child # m.parent /\ IsPlanned(mapping, m, plan[n])
      BY <2>2, <2>3, <2>5, <3>2
    <3> HIDE DEF i
    <3>4. \E s \in Steps(plan) :
            s.from = mapping[i] /\ s.to = mapping[Across(m, i)] /\ s.matches = Matches(m, i)
      BY <3>1, <3>3, StepsAreCrossings
    <3>5. QED
      BY <3>2, <3>4
  <2>7. PICK m : m = MetAt(mapping, x)
    OBVIOUS
  <2>8. m.ref = mapping[i] /\ m.parent = IF j = 0 THEN mapping[i] ELSE mapping[j]
    BY <2>7 DEF MetAt
  <2> HIDE DEF i, j, other
  <2>9. mapping[other] # m.parent
    BY <1>2, <2>1, <2>2, <2>4, <2>8
  <2>10. m \in met
    BY <2>1, <2>7
  <2>11. s \in Leaving(Steps(plan), met)
    BY <2>6, <2>8, <2>9, <2>10 DEF Leaving
  <2>12. Matches(matched[k], i) <= 1 /\ [ref |-> mapping[other], parent |-> mapping[i]] \in met
    BY <1>1, <2>6, <2>11
  <2>13. Matches(matched[k], i) \in Nat
    <3>1. matched[k].rel \in Relationships
      BY <2>2, MatchedJoinTwo
    <3>2. QED
      BY <3>1, GroupsAreCounted DEF Matches
  <2>14. ~ (Matches(matched[k], i) > 1)
    BY <2>12, <2>13
  <2>15. PICK next : next = NextPlace(k, x)
    OBVIOUS
  <2>16. next = <<other, i>>
    BY <2>15 DEF NextPlace, other, i
  <2>17. next[1] = other /\ next[2] = i /\ i # 0 /\ next \in PlacesOfSearch
    BY <1>4, <2>1, <2>4, <2>16 DEF PlacesOfSearch
  <2>18. MetAt(mapping, next) \in met
    BY <2>12, <2>17 DEF MetAt
  <2>19. next \in G
    BY <2>1, <2>4, <2>17, <2>18
  <2>20. QED
    BY <2>15, <2>19, <2>14 DEF i
<1>6. <<start, 0>> \in G
  <2>1. PICK x : x = <<start, 0>>
    OBVIOUS
  <2>2. x[1] = start /\ x[2] = 0 /\ x \in PlacesOfSearch
    BY <1>4, <2>1 DEF PlacesOfSearch
  <2>3. MetAt(mapping, x) \in met
    BY <1>1, <2>2 DEF MetAt
  <2>4. QED
    BY <2>1, <2>2, <2>3
<1>7. IsClosed(G)
  <2> HIDE DEF G
  <2>1. \A x \in G : /\ ~ FansOut(x[1], x[2])
                     /\ \A k \in Onwards(x[1], x[2]) : NextPlace(k, x) \in G
    <3> SUFFICES ASSUME NEW x \in G
                 PROVE  /\ ~ FansOut(x[1], x[2])
                        /\ \A k \in Onwards(x[1], x[2]) : NextPlace(k, x) \in G
      OBVIOUS
    <3>1. \A k \in Onwards(x[1], x[2]) : ~ (Matches(matched[k], x[1]) > 1) /\ NextPlace(k, x) \in G
      BY <1>5
    <3>2. QED
      BY <3>1 DEF FansOut
  <2>2. QED
    BY <2>1 DEF IsClosed
<1>8. G \in SUBSET PlacesOfSearch
  OBVIOUS
<1> HIDE DEF G
<1>9. QED
  BY <1>6, <1>7, <1>8 DEF IsGood

-----------------------------------------------------------------------------
(* A plan written as a query: its refs in the order they are joined.       *)

(* No two relationships have the same endpoints: the validator tells them  *)
(* apart by nothing else, and takes the first.                             *)
DifferentEndpoints ==
  \A r, other \in Relationships : SeedEndpoints(r) = SeedEndpoints(other) => r = other

(* A relationship does not have the same endpoints on both sides: the      *)
(* validator tells the sides apart by nothing else. It joins on some.      *)
DifferentSides ==
  \A r \in Relationships :
    {<<Catalog[r].child, column>> : column \in ToSet(Catalog[r].childColumns)}
      # {<<Catalog[r].parent, column>> : column \in ToSet(Catalog[r].parentColumns)}

RefAt(q, plan, i) == IF i = 1 THEN q.start ELSE plan[i - 1].to

PlaceOf(q, plan, ref) == IF ref = q.start THEN 1 ELSE 1 + CHOOSE i \in DOMAIN plan : plan[i].to = ref

(* The refs have the places in which the plan meets them.                  *)
ArePlaced(q, plan, N) ==
  /\ \A ref \in q.refs : PlaceOf(q, plan, ref) \in 1 .. N + 1 /\ RefAt(q, plan, PlaceOf(q, plan, ref)) = ref
  /\ \A i \in 1 .. N + 1 : RefAt(q, plan, i) \in q.refs /\ PlaceOf(q, plan, RefAt(q, plan, i)) = i
  /\ \A i \in 1 .. N : /\ plan[i].from \in q.refs /\ plan[i].to \in q.refs
                       /\ PlaceOf(q, plan, plan[i].to) = i + 1
                       /\ PlaceOf(q, plan, plan[i].from) \in 1 .. i

LEMMA RefsArePlaced ==
  ASSUME NEW q \in Requests, NEW candidates, NEW N \in Nat, NEW plan,
         IsTree(q, candidates, N, plan), MetBy(q, plan, N) = q.refs
  PROVE  ArePlaced(q, plan, N)
<1>0. DOMAIN plan = 1 .. N
  BY DEF IsTree
<1>1. ASSUME NEW i \in 1 .. N
      PROVE  /\ plan[i].to # q.start /\ plan[i].to \in q.refs
             /\ PlaceOf(q, plan, plan[i].to) = i + 1
  <2>1. plan[i].to \notin MetBy(q, plan, i - 1)
    BY MetOnce
  <2>2. plan[i].to # q.start
    BY <2>1 DEF MetBy
  <2>3. plan[i].to \in q.refs
    BY DEF MetBy
  <2> DEFINE j == CHOOSE k \in 1 .. N : plan[k].to = plan[i].to
  <2>4. j \in 1 .. N /\ plan[j].to = plan[i].to
    OBVIOUS
  <2>5. PlaceOf(q, plan, plan[i].to) = 1 + j
    BY <1>0, <2>2 DEF PlaceOf
  <2> HIDE DEF j
  <2>6. j = i
    BY <2>4, MetOnce
  <2>7. QED
    BY <2>2, <2>3, <2>5, <2>6
<1>2. PlaceOf(q, plan, q.start) = 1 /\ RefAt(q, plan, 1) = q.start /\ q.start \in q.refs
  BY RequestsAreFinite DEF PlaceOf, RefAt
<1>3. ASSUME NEW i \in 1 .. N + 1
      PROVE  RefAt(q, plan, i) \in q.refs /\ PlaceOf(q, plan, RefAt(q, plan, i)) = i
  <2>1. CASE i = 1
    BY <1>2, <2>1
  <2>2. CASE i # 1
    <3>1. i - 1 \in 1 .. N /\ (i - 1) + 1 = i
      BY <2>2
    <3>2. RefAt(q, plan, i) = plan[i - 1].to
      BY <2>2 DEF RefAt
    <3>3. QED
      BY <1>1, <3>1, <3>2
  <2>3. QED
    BY <2>1, <2>2
<1>4. ASSUME NEW n \in 0 .. N, NEW ref \in MetBy(q, plan, n)
      PROVE  PlaceOf(q, plan, ref) \in 1 .. n + 1 /\ RefAt(q, plan, PlaceOf(q, plan, ref)) = ref
  <2>1. CASE ref = q.start
    BY <1>2, <2>1
  <2>2. CASE ref # q.start
    <3>1. PICK j \in 1 .. n : ref = plan[j].to
      BY <2>2 DEF MetBy
    <3>2. j \in 1 .. N /\ j + 1 \in 1 .. n + 1 /\ j + 1 # 1 /\ (j + 1) - 1 = j
      OBVIOUS
    <3>3. PlaceOf(q, plan, ref) = j + 1
      BY <1>1, <3>1, <3>2
    <3>4. RefAt(q, plan, j + 1) = plan[j].to
      BY <3>2 DEF RefAt
    <3>5. QED
      BY <3>1, <3>2, <3>3, <3>4
  <2>3. QED
    BY <2>1, <2>2
<1>5. ASSUME NEW i \in 1 .. N
      PROVE  plan[i].from \in q.refs /\ PlaceOf(q, plan, plan[i].from) \in 1 .. i
  <2>1. PICK n \in 0 .. N : n = i - 1
    OBVIOUS
  <2>2. plan[i].from \in MetBy(q, plan, n)
    BY <2>1, MetOnce
  <2>3. MetBy(q, plan, n) \subseteq MetBy(q, plan, N)
    BY MetByGrows
  <2>4. PlaceOf(q, plan, plan[i].from) \in 1 .. n + 1 /\ n + 1 = i
    BY <1>4, <2>1, <2>2
  <2>5. QED
    BY <2>2, <2>3, <2>4
<1>6. \A ref \in q.refs : PlaceOf(q, plan, ref) \in 1 .. N + 1 /\ RefAt(q, plan, PlaceOf(q, plan, ref)) = ref
  <2>1. N \in 0 .. N
    OBVIOUS
  <2>2. QED
    BY <1>4, <2>1
<1>7. QED
  BY <1>1, <1>3, <1>5, <1>6 DEF ArePlaced

(* The columns an edge compares, where it comes from and where it goes.    *)
FromColumns(e) ==
  IF e.traversal = "forward" THEN Catalog[e.rel].childColumns ELSE Catalog[e.rel].parentColumns

ToColumns(e) ==
  IF e.traversal = "forward" THEN Catalog[e.rel].parentColumns ELSE Catalog[e.rel].childColumns

(* The equality for one column pair of the edge, as it is written, and as  *)
(* it is normalized; the edge they make.                                   *)
WrittenAs(q, plan, i, c) ==
  LET from == <<PlaceOf(q, plan, plan[i].from), FromColumns(plan[i])[c]>>
      to == <<PlaceOf(q, plan, plan[i].to), ToColumns(plan[i])[c]>>
      forward == plan[i].traversal = "forward"
  IN  [left |-> IF forward THEN from ELSE to, right |-> IF forward THEN to ELSE from,
       join |-> i + 1, filters |-> TRUE]

SideAt(q, plan, i, c) ==
  [left |-> <<PlaceOf(q, plan, plan[i].from), FromColumns(plan[i])[c]>>,
   right |-> <<i + 1, ToColumns(plan[i])[c]>>, join |-> i + 1, filters |-> TRUE]

EdgeAt(q, plan, i) ==
  [left |-> PlaceOf(q, plan, plan[i].from), right |-> i + 1, kind |-> "inner",
   pairs |-> {<<FromColumns(plan[i])[c], ToColumns(plan[i])[c]>> :
                c \in DOMAIN Catalog[plan[i].rel].childColumns}]

(* A query that writes the plan, and what the plan is.                     *)
IsWriting(query, q, plan, N) ==
  /\ N # 0 /\ Cardinality(q.refs) = N + 1 /\ DOMAIN plan = 1 .. N /\ Len(plan) = N
  /\ ArePlaced(q, plan, N)
  /\ \A i \in 1 .. N : IsEdge(q, plan[i]) /\ plan[i].rel \in Authorized
  /\ query.nullable = {} /\ IsFlat(query) /\ Refs(query) = 1 .. N + 1
  /\ \A ref \in q.refs : query.entity[PlaceOf(q, plan, ref)] = q.entity[ref]
  /\ \A i \in 1 .. N : \A c \in DOMAIN Catalog[plan[i].rel].childColumns :
       WrittenAs(q, plan, i, c) \in query.equalities
  /\ \A eq \in query.equalities :
       \E i \in 1 .. N : \E c \in DOMAIN Catalog[plan[i].rel].childColumns :
         eq = WrittenAs(q, plan, i, c)

LEMMA WritingIsThere ==
  ASSUME NEW query \in Queries, NEW q \in Requests, NEW plan \in AllTrees(q),
         Writes(query, q, plan)
  PROVE  IsWriting(query, q, plan, Cardinality(q.refs) - 1) /\ Cardinality(q.refs) - 1 \in Nat
<1> DEFINE N == Cardinality(q.refs) - 1
           C == CandidateEdges(q)
<1>1. /\ N \in Nat /\ Cardinality(q.refs) = N + 1 /\ IsFiniteSet(q.refs) /\ q.start \in q.refs
  BY RequestsAreFinite
<1>2. \A e \in C : IsEdge(q, e) /\ e.rel \in Authorized
  BY CandidatesAreEdges
<1>3. Within(q, C)
  BY <1>2 DEF Within, IsEdge
<1>4. IsTree(q, C, N, plan)
  BY DEF AllTrees, IsTree, MetBy
<1>5. plan \in [1 .. N -> C]
  BY <1>4 DEF IsTree
<1>6. N # 0
  BY PlannerConstants
<1> HIDE DEF C, N
<1>7. MetBy(q, plan, N) = q.refs
  <2>1. IsFiniteSet(MetBy(q, plan, N)) /\ Cardinality(MetBy(q, plan, N)) = N + 1
    BY <1>1, <1>4, RefsAreCounted
  <2>2. MetBy(q, plan, N) \in SUBSET q.refs
    BY <1>1, <1>3, <1>5 DEF MetBy, Within
  <2>3. QED
    BY <1>1, <2>1, <2>2, FS_Subset
<1>8. ArePlaced(q, plan, N)
  BY <1>1, <1>4, <1>7, RefsArePlaced
<1>9. Len(plan) = N /\ DOMAIN plan = 1 .. N
  <2>1. plan \in Seq(C)
    BY <1>1, <1>5, SeqDef
  <2>2. QED
    BY <1>1, <1>5, <2>1, LenProperties
<1> DEFINE On(i) ==
      {[left |-> <<PlaceOf(q, plan, IF plan[i].traversal = "forward" THEN plan[i].from ELSE plan[i].to),
                   Catalog[plan[i].rel].childColumns[c]>>,
        right |-> <<PlaceOf(q, plan, IF plan[i].traversal = "forward" THEN plan[i].to ELSE plan[i].from),
                    Catalog[plan[i].rel].parentColumns[c]>>,
        join |-> i + 1, filters |-> TRUE] : c \in DOMAIN Catalog[plan[i].rel].childColumns}
<1>10. /\ query.nullable = {} /\ IsFlat(query)
       /\ query.entity = [i \in 1 .. Len(plan) + 1 |->
                            q.entity[IF i = 1 THEN q.start ELSE plan[i - 1].to]]
       /\ query.equalities = UNION {On(i) : i \in DOMAIN plan}
  BY DEF Writes, PlaceOf, IsFlat
<1>11. \A i \in 1 .. N : On(i) = {WrittenAs(q, plan, i, c) : c \in DOMAIN Catalog[plan[i].rel].childColumns}
  BY DEF WrittenAs, FromColumns, ToColumns
<1> HIDE DEF On
<1>12. \A i \in 1 .. N : \A c \in DOMAIN Catalog[plan[i].rel].childColumns :
         WrittenAs(q, plan, i, c) \in query.equalities
  BY <1>9, <1>10, <1>11
<1>13. \A eq \in query.equalities :
         \E i \in 1 .. N : \E c \in DOMAIN Catalog[plan[i].rel].childColumns :
           eq = WrittenAs(q, plan, i, c)
  BY <1>9, <1>10, <1>11
<1>14. Refs(query) = 1 .. N + 1
  BY <1>9, <1>10 DEF Refs
<1>15. \A ref \in q.refs : query.entity[PlaceOf(q, plan, ref)] = q.entity[ref]
  <2> SUFFICES ASSUME NEW ref \in q.refs
               PROVE  query.entity[PlaceOf(q, plan, ref)] = q.entity[ref]
    OBVIOUS
  <2>1. PICK i \in 1 .. N + 1 : i = PlaceOf(q, plan, ref) /\ RefAt(q, plan, i) = ref
    BY <1>8 DEF ArePlaced
  <2>2. query.entity[i] = q.entity[RefAt(q, plan, i)]
    BY <1>9, <1>10 DEF RefAt
  <2>3. QED
    BY <2>1, <2>2
<1>16. \A i \in 1 .. N : IsEdge(q, plan[i]) /\ plan[i].rel \in Authorized
  BY <1>2, <1>5
<1>17. IsWriting(query, q, plan, N)
  BY <1>1, <1>6, <1>8, <1>9, <1>10, <1>12, <1>13, <1>14, <1>15, <1>16 DEF IsWriting
<1>18. QED
  BY <1>1, <1>17 DEF N

LEMMA SidesAreSwapped ==
  ASSUME NEW a, NEW b, NEW j, NEW f, NEW side, side = [left |-> b, right |-> a, join |-> j, filters |-> f]
  PROVE  [side EXCEPT !.left = a, !.right = b] = [left |-> a, right |-> b, join |-> j, filters |-> f]
<1> DEFINE swapped == [side EXCEPT !.left = a, !.right = b]
<1>1. DOMAIN side = {"left", "right", "join", "filters"}
  OBVIOUS
<1>2. swapped = [x \in {"left", "right", "join", "filters"} |-> swapped[x]]
  BY <1>1
<1>3. swapped.left = a /\ swapped.right = b /\ swapped.join = j /\ swapped.filters = f
  BY <1>1
<1> HIDE DEF swapped
<1>4. swapped = [left |-> a, right |-> b, join |-> j, filters |-> f]
  BY <1>2, <1>3
<1>5. QED
  BY <1>4 DEF swapped

LEMMA WrittenIsOriented ==
  ASSUME NEW query, NEW q, NEW plan, NEW N \in Nat, IsWriting(query, q, plan, N),
         NEW i \in 1 .. N, NEW c \in DOMAIN Catalog[plan[i].rel].childColumns
  PROVE  /\ WrittenAs(q, plan, i, c) \in Crossing(query)
         /\ Oriented(query, WrittenAs(q, plan, i, c)) = SideAt(q, plan, i, c)
<1> DEFINE eq == WrittenAs(q, plan, i, c)
           a == PlaceOf(q, plan, plan[i].from)
           b == PlaceOf(q, plan, plan[i].to)
           from == <<a, FromColumns(plan[i])[c]>>
           to == <<b, ToColumns(plan[i])[c]>>
           forward == plan[i].traversal = "forward"
<1>1. /\ eq \in query.equalities /\ query.nullable = {}
      /\ a \in 1 .. i /\ b = i + 1 /\ Refs(query) = 1 .. N + 1
      /\ \A ref \in Refs(query) : query.scope[ref] = query.scope[1]
  BY DEF IsWriting, ArePlaced, IsFlat
<1>2. /\ eq = [left |-> IF forward THEN from ELSE to, right |-> IF forward THEN to ELSE from,
               join |-> i + 1, filters |-> TRUE]
      /\ SideAt(q, plan, i, c) = [left |-> from, right |-> to, join |-> i + 1, filters |-> TRUE]
  BY <1>1 DEF WrittenAs, SideAt
<1>3. from[1] = a /\ to[1] = b
  OBVIOUS
<1>4. a # b /\ a < b /\ a \in Refs(query) /\ b \in Refs(query) /\ ~ (b < a)
  BY <1>1
<1> HIDE DEF eq, from, to, a, b
<1>5. NullableOnLeft(query, eq) <=> eq.right[1] < eq.left[1]
  BY <1>1 DEF NullableOnLeft, InLeftJoin
<1>6. CASE forward
  <2>1. eq = [left |-> from, right |-> to, join |-> i + 1, filters |-> TRUE]
    BY <1>2, <1>6
  <2>2. eq.left = from /\ eq.right = to
    BY <2>1
  <2>3. eq \in Crossing(query)
    BY <1>1, <1>3, <1>4, <2>2 DEF Crossing
  <2>4. Oriented(query, eq) = eq
    BY <1>3, <1>4, <1>5, <2>2 DEF Oriented
  <2>5. QED
    BY <1>2, <2>1, <2>3, <2>4 DEF eq
<1>7. CASE ~ forward
  <2>1. eq = [left |-> to, right |-> from, join |-> i + 1, filters |-> TRUE]
    BY <1>2, <1>7
  <2>2. eq.left = to /\ eq.right = from
    BY <2>1
  <2>3. eq \in Crossing(query)
    BY <1>1, <1>3, <1>4, <2>2 DEF Crossing
  <2>4. Oriented(query, eq) = [eq EXCEPT !.left = from, !.right = to]
    BY <1>3, <1>4, <1>5, <2>2 DEF Oriented
  <2>5. PICK side, j : side = eq /\ j = i + 1
    OBVIOUS
  <2>6. Oriented(query, eq) = [left |-> from, right |-> to, join |-> i + 1, filters |-> TRUE]
    BY <2>1, <2>4, <2>5, SidesAreSwapped
  <2>7. QED
    BY <1>2, <2>3, <2>6 DEF eq
<1>8. QED
  BY <1>6, <1>7

LEMMA SidesAreWritten ==
  ASSUME NEW query, NEW q, NEW plan, NEW N \in Nat, IsWriting(query, q, plan, N)
  PROVE  /\ \A i \in 1 .. N : \A c \in DOMAIN Catalog[plan[i].rel].childColumns :
              SideAt(q, plan, i, c) \in Sides(query)
         /\ \A o \in Sides(query) :
              \E i \in 1 .. N : \E c \in DOMAIN Catalog[plan[i].rel].childColumns :
                o = SideAt(q, plan, i, c)
<1>1. ASSUME NEW i \in 1 .. N, NEW c \in DOMAIN Catalog[plan[i].rel].childColumns
      PROVE  SideAt(q, plan, i, c) \in Sides(query)
  BY WrittenIsOriented DEF Sides
<1>2. ASSUME NEW o \in Sides(query)
      PROVE  \E i \in 1 .. N : \E c \in DOMAIN Catalog[plan[i].rel].childColumns :
               o = SideAt(q, plan, i, c)
  <2>1. PICK eq \in Crossing(query) : o = Oriented(query, eq)
    BY DEF Sides
  <2>2. eq \in query.equalities
    BY DEF Crossing
  <2>3. PICK i \in 1 .. N : \E c \in DOMAIN Catalog[plan[i].rel].childColumns :
               eq = WrittenAs(q, plan, i, c)
    BY <2>2 DEF IsWriting
  <2>4. PICK c \in DOMAIN Catalog[plan[i].rel].childColumns : eq = WrittenAs(q, plan, i, c)
    BY <2>3
  <2>5. Oriented(query, eq) = SideAt(q, plan, i, c)
    BY <2>4, WrittenIsOriented
  <2>6. QED
    BY <2>1, <2>5
<1>3. QED
  BY <1>1, <1>2

LEMMA EdgesAreWritten ==
  ASSUME NEW query, NEW q, NEW plan, NEW N \in Nat, IsWriting(query, q, plan, N), DifferentSides
  PROVE  /\ ~ UnsupportedShape(query)
         /\ \A i \in 1 .. N : EdgeAt(q, plan, i) \in Edges(query)
         /\ \A e \in Edges(query) : \E i \in 1 .. N : e = EdgeAt(q, plan, i)
<1>1. ~ UnsupportedShape(query)
  BY DEF UnsupportedShape, InLeftJoin, IsWriting
<1>2. /\ \A i \in 1 .. N : \A c \in DOMAIN Catalog[plan[i].rel].childColumns :
           SideAt(q, plan, i, c) \in Sides(query)
      /\ \A o \in Sides(query) :
           \E i \in 1 .. N : \E c \in DOMAIN Catalog[plan[i].rel].childColumns :
             o = SideAt(q, plan, i, c)
  BY SidesAreWritten
<1>3. \A o : KindOf(query, o) = "inner"
  BY DEF KindOf, InLeftJoin, IsWriting
<1>4. ASSUME NEW i \in 1 .. N, NEW c \in DOMAIN Catalog[plan[i].rel].childColumns
      PROVE  EdgeOf(query, SideAt(q, plan, i, c)) = EdgeAt(q, plan, i)
  <2> DEFINE o == SideAt(q, plan, i, c)
             P == {<<FromColumns(plan[i])[d], ToColumns(plan[i])[d]>> :
                     d \in DOMAIN Catalog[plan[i].rel].childColumns}
  <2>1. \A k, d : /\ SideAt(q, plan, k, d).left[1] = PlaceOf(q, plan, plan[k].from)
                  /\ SideAt(q, plan, k, d).left[2] = FromColumns(plan[k])[d]
                  /\ SideAt(q, plan, k, d).right[1] = k + 1
                  /\ SideAt(q, plan, k, d).right[2] = ToColumns(plan[k])[d]
    BY DEF SideAt
  <2>2. ASSUME NEW p \in PairsOf(query, o)
        PROVE  p \in P
    <3>1. PICK x \in GroupOf(query, o) : p = <<x.left[2], x.right[2]>>
      BY DEF PairsOf
    <3>2. x \in Sides(query) /\ x.right[1] = o.right[1]
      BY DEF GroupOf
    <3>3. PICK k \in 1 .. N : \E d \in DOMAIN Catalog[plan[k].rel].childColumns : x = SideAt(q, plan, k, d)
      BY <1>2, <3>2
    <3>4. PICK d \in DOMAIN Catalog[plan[k].rel].childColumns : x = SideAt(q, plan, k, d)
      BY <3>3
    <3>5. k + 1 = i + 1
      BY <2>1, <3>2, <3>4
    <3>6. k = i
      BY <3>5
    <3>7. QED
      BY <2>1, <3>1, <3>4, <3>6
  <2>3. ASSUME NEW p \in P
        PROVE  p \in PairsOf(query, o)
    <3>1. PICK d \in DOMAIN Catalog[plan[i].rel].childColumns :
            p = <<FromColumns(plan[i])[d], ToColumns(plan[i])[d]>>
      OBVIOUS
    <3>2. PICK x \in Sides(query) : x = SideAt(q, plan, i, d)
      BY <1>2
    <3>3. x \in GroupOf(query, o)
      BY <1>3, <2>1, <3>2 DEF GroupOf
    <3>4. p = <<x.left[2], x.right[2]>>
      BY <2>1, <3>1, <3>2
    <3>5. QED
      BY <3>3, <3>4 DEF PairsOf
  <2> HIDE DEF P
  <2>4. PairsOf(query, o) = P
    BY <2>2, <2>3
  <2>5. QED
    BY <1>3, <2>1, <2>4 DEF EdgeOf, EdgeAt, P
<1>5. ASSUME NEW i \in 1 .. N
      PROVE  \E c \in DOMAIN Catalog[plan[i].rel].childColumns : TRUE
  <2>1. PICK r \in Relationships : r = plan[i].rel
    BY DEF IsWriting, IsEdge
  <2>2. DOMAIN Catalog[r].childColumns = DOMAIN Catalog[r].parentColumns
    BY RelationshipsAreTyped
  <2>3. DOMAIN Catalog[r].childColumns # {}
    BY <2>2 DEF DifferentSides, ToSet
  <2>4. QED
    BY <2>1, <2>3
<1>6. \A i \in 1 .. N : EdgeAt(q, plan, i) \in Edges(query)
  <2> SUFFICES ASSUME NEW i \in 1 .. N
               PROVE  EdgeAt(q, plan, i) \in Edges(query)
    OBVIOUS
  <2>1. PICK c \in DOMAIN Catalog[plan[i].rel].childColumns : TRUE
    BY <1>5
  <2>2. SideAt(q, plan, i, c) \in Sides(query) /\ EdgeOf(query, SideAt(q, plan, i, c)) = EdgeAt(q, plan, i)
    BY <1>2, <1>4
  <2>3. QED
    BY <2>2, EdgesAreOfSides
<1>7. ASSUME NEW e \in Edges(query)
      PROVE  \E i \in 1 .. N : e = EdgeAt(q, plan, i)
  <2>1. PICK o \in Sides(query) : e = EdgeOf(query, o)
    BY EdgesAreOfSides
  <2>2. PICK i \in 1 .. N : \E c \in DOMAIN Catalog[plan[i].rel].childColumns : o = SideAt(q, plan, i, c)
    BY <1>2
  <2>3. PICK c \in DOMAIN Catalog[plan[i].rel].childColumns : o = SideAt(q, plan, i, c)
    BY <2>2
  <2>4. QED
    BY <1>4, <2>1, <2>3
<1>8. QED
  BY <1>1, <1>6, <1>7

LEMMA WritingJoinsAll ==
  ASSUME NEW query, NEW q, NEW plan, NEW N \in Nat, IsWriting(query, q, plan, N), DifferentSides
  PROVE  GraphRefs(query) = Refs(query) /\ ~ MissingPredicate(query)
<1>1. /\ \A i \in 1 .. N : EdgeAt(q, plan, i) \in Edges(query)
      /\ \A e \in Edges(query) : \E i \in 1 .. N : e = EdgeAt(q, plan, i)
  BY EdgesAreWritten
<1>2. \A i : EdgeAt(q, plan, i).left = PlaceOf(q, plan, plan[i].from) /\ EdgeAt(q, plan, i).right = i + 1
  BY DEF EdgeAt
<1>3. /\ N # 0 /\ Refs(query) = 1 .. N + 1
      /\ \A i \in 1 .. N : PlaceOf(q, plan, plan[i].from) \in 1 .. i
  BY DEF IsWriting, ArePlaced
<1>4. ASSUME NEW ref \in GraphRefs(query)
      PROVE  ref \in Refs(query)
  <2>1. PICK e \in Edges(query) : ref \in {e.left, e.right}
    BY DEF GraphRefs
  <2>2. PICK i \in 1 .. N : e = EdgeAt(q, plan, i)
    BY <1>1
  <2>3. ref = i + 1 \/ ref = PlaceOf(q, plan, plan[i].from)
    BY <1>2, <2>1, <2>2
  <2>4. PlaceOf(q, plan, plan[i].from) \in 1 .. i
    BY <1>3
  <2>5. QED
    BY <1>3, <2>3, <2>4
<1>5. ASSUME NEW i \in 1 .. N
      PROVE  i + 1 \in GraphRefs(query) /\ PlaceOf(q, plan, plan[i].from) \in GraphRefs(query)
  <2>1. PICK e \in Edges(query) : e = EdgeAt(q, plan, i)
    BY <1>1
  <2>2. i + 1 \in {e.left, e.right} /\ PlaceOf(q, plan, plan[i].from) \in {e.left, e.right}
    BY <1>2, <2>1
  <2>3. QED
    BY <2>2 DEF GraphRefs
<1>6. ASSUME NEW ref \in Refs(query)
      PROVE  ref \in GraphRefs(query)
  <2>1. CASE ref = 1
    <3>1. 1 \in 1 .. N
      BY <1>3
    <3>2. PlaceOf(q, plan, plan[1].from) \in 1 .. 1 /\ PlaceOf(q, plan, plan[1].from) \in GraphRefs(query)
      BY <1>3, <1>5, <3>1
    <3>3. QED
      BY <2>1, <3>2
  <2>2. CASE ref # 1
    <3>1. ref - 1 \in 1 .. N /\ (ref - 1) + 1 = ref
      BY <1>3, <2>2
    <3>2. QED
      BY <1>5, <3>1
  <2>3. QED
    BY <2>1, <2>2
<1>7. GraphRefs(query) = Refs(query)
  BY <1>4, <1>6
<1>8. QED
  BY <1>7 DEF MissingPredicate

(* The edges it makes are matched by the plan's relationships, the right   *)
(* way round.                                                              *)
ChildRef(e) == IF e.traversal = "forward" THEN e.from ELSE e.to
ParentRef(e) == IF e.traversal = "forward" THEN e.to ELSE e.from

IsMatchedBy(m, q, plan, i) ==
  /\ m.rel = plan[i].rel /\ m.kind = "inner"
  /\ m.child = PlaceOf(q, plan, ChildRef(plan[i]))
  /\ m.parent = PlaceOf(q, plan, ParentRef(plan[i]))

LEMMA WrittenIsMatched ==
  ASSUME DifferentEndpoints, DifferentSides, NEW query, NEW q, NEW plan, NEW N \in Nat,
         IsWriting(query, q, plan, N), NEW i \in 1 .. N,
         NEW m, m = MatchedEdge(query, EdgeAt(q, plan, i))
  PROVE  Matching(query, EdgeAt(q, plan, i)) # {} /\ IsMatchedBy(m, q, plan, i)
<1> DEFINE r == plan[i].rel
           x == EdgeAt(q, plan, i)
           D == DOMAIN Catalog[r].childColumns
           FC == FromColumns(plan[i])
           TC == ToColumns(plan[i])
           near == query.entity[x.left]
           far == query.entity[x.right]
           forward == plan[i].traversal = "forward"
           cc == Catalog[r].childColumns
           pc == Catalog[r].parentColumns
           child == Catalog[r].child
           parent == Catalog[r].parent
<1>1. /\ x.left = PlaceOf(q, plan, plan[i].from) /\ x.right = PlaceOf(q, plan, plan[i].to)
      /\ x.kind = "inner" /\ x.pairs = {<<FC[c], TC[c]>> : c \in D}
  BY DEF EdgeAt, IsWriting, ArePlaced
<1>2. /\ r \in Relationships /\ r \in Authorized /\ DOMAIN pc = D
      /\ near = q.entity[plan[i].from] /\ far = q.entity[plan[i].to]
  <2>1. IsEdge(q, plan[i]) /\ r \in Authorized
    BY DEF IsWriting
  <2>2. plan[i].from \in q.refs /\ plan[i].to \in q.refs /\ r \in Relationships
    BY <2>1 DEF IsEdge
  <2>3. QED
    BY <1>1, <2>1, <2>2, RelationshipsAreTyped DEF IsWriting
<1>3. /\ forward => FC = cc /\ TC = pc /\ near = child /\ far = parent
      /\ ~ forward => FC = pc /\ TC = cc /\ near = parent /\ far = child
  BY <1>2 DEF IsWriting, IsEdge, FromColumns, ToColumns
<1>4. SeedEndpoints(r) = {{<<child, cc[c]>>, <<parent, pc[c]>>} : c \in D}
  BY DEF SeedEndpoints
<1>5. Endpoints(query, x) = {{<<near, p[1]>>, <<far, p[2]>>} : p \in x.pairs}
  BY DEF Endpoints
<1>6. ChildIsLeft(query, x, r) <=>
        {<<near, p[1]>> : p \in x.pairs} = {<<child, column>> : column \in ToSet(cc)}
  BY DEF ChildIsLeft
<1>7. /\ {<<child, column>> : column \in ToSet(cc)} = {<<child, cc[c]>> : c \in D}
      /\ {<<parent, column>> : column \in ToSet(pc)} = {<<parent, pc[c]>> : c \in D}
  BY <1>2 DEF ToSet
<1>8. {<<child, column>> : column \in ToSet(cc)} # {<<parent, column>> : column \in ToSet(pc)}
  BY <1>2 DEF DifferentSides
<1> HIDE DEF x, FC, TC, near, far, cc, pc, child, parent, D
<1>9. Endpoints(query, x) = {{<<near, FC[c]>>, <<far, TC[c]>>} : c \in D}
  <2>1. \A end \in Endpoints(query, x) : \E c \in D : end = {<<near, FC[c]>>, <<far, TC[c]>>}
    <3> SUFFICES ASSUME NEW end \in Endpoints(query, x)
                 PROVE  \E c \in D : end = {<<near, FC[c]>>, <<far, TC[c]>>}
      OBVIOUS
    <3>1. PICK p \in x.pairs : end = {<<near, p[1]>>, <<far, p[2]>>}
      BY <1>5
    <3>2. PICK c \in D : p = <<FC[c], TC[c]>>
      BY <1>1
    <3>3. QED
      BY <3>1, <3>2
  <2>2. \A c \in D : {<<near, FC[c]>>, <<far, TC[c]>>} \in Endpoints(query, x)
    <3> SUFFICES ASSUME NEW c \in D
                 PROVE  {<<near, FC[c]>>, <<far, TC[c]>>} \in Endpoints(query, x)
      OBVIOUS
    <3>1. PICK p \in x.pairs : p = <<FC[c], TC[c]>>
      BY <1>1
    <3>2. p[1] = FC[c] /\ p[2] = TC[c]
      BY <3>1
    <3>3. {<<near, p[1]>>, <<far, p[2]>>} \in Endpoints(query, x)
      BY <1>5
    <3>4. QED
      BY <3>2, <3>3
  <2>3. QED
    BY <2>1, <2>2
<1>10. {<<near, p[1]>> : p \in x.pairs} = {<<near, FC[c]>> : c \in D}
  <2>1. \A p \in x.pairs : \E c \in D : p[1] = FC[c]
    BY <1>1
  <2>2. ASSUME NEW c \in D
        PROVE  \E p \in x.pairs : p[1] = FC[c]
    <3>1. PICK p \in x.pairs : p = <<FC[c], TC[c]>>
      BY <1>1
    <3>2. QED
      BY <3>1
  <2>3. QED
    BY <2>1, <2>2
<1>11. Endpoints(query, x) = SeedEndpoints(r)
  <2>1. CASE forward
    BY <1>3, <1>4, <1>9, <2>1
  <2>2. CASE ~ forward
    <3>1. \A c : {<<near, FC[c]>>, <<far, TC[c]>>} = {<<child, cc[c]>>, <<parent, pc[c]>>}
      BY <1>3, <2>2
    <3>2. QED
      BY <1>4, <1>9, <3>1
  <2>3. QED
    BY <2>1, <2>2
<1>12. ChildIsLeft(query, x, r) <=> forward
  <2>1. CASE forward
    BY <1>3, <1>6, <1>7, <1>10, <2>1
  <2>2. CASE ~ forward
    BY <1>3, <1>6, <1>7, <1>8, <1>10, <2>2
  <2>3. QED
    BY <2>1, <2>2
<1>13. r \in Matching(query, x)
  BY <1>2, <1>11 DEF Matching
<1>14. m = MatchedEdge(query, x)
  BY DEF x
<1>15. /\ m.rel \in Relationships /\ SeedEndpoints(m.rel) = Endpoints(query, x) /\ m.kind = x.kind
       /\ ChildIsLeft(query, x, m.rel) => m.child = x.left /\ m.parent = x.right
       /\ ~ ChildIsLeft(query, x, m.rel) => m.child = x.right /\ m.parent = x.left
  BY <1>13, <1>14, MatchedIsOf
<1>16. m.rel = r
  BY <1>2, <1>11, <1>15 DEF DifferentEndpoints
<1>17. QED
  BY <1>1, <1>12, <1>13, <1>15, <1>16 DEF x, ChildRef, ParentRef, IsMatchedBy

LEMMA EdgesAreCounted ==
  ASSUME NEW query, NEW q, NEW plan, NEW N \in Nat, IsWriting(query, q, plan, N), DifferentSides
  PROVE  Cardinality(Edges(query)) = N
<1> DEFINE S == 1 .. N
           T == Edges(query)
           edge == [i \in S |-> EdgeAt(q, plan, i)]
<1>1. /\ \A i \in 1 .. N : EdgeAt(q, plan, i) \in Edges(query)
      /\ \A e \in Edges(query) : \E i \in 1 .. N : e = EdgeAt(q, plan, i)
  BY EdgesAreWritten
<1>2. edge \in [S -> T] /\ \A t \in T : \E i \in S : edge[i] = t
  BY <1>1
<1>3. \A i, j \in S : edge[i] = edge[j] => i = j
  <2> SUFFICES ASSUME NEW i \in S, NEW j \in S, edge[i] = edge[j]
               PROVE  i = j
    OBVIOUS
  <2>1. edge[i].right = i + 1 /\ edge[j].right = j + 1
    BY DEF EdgeAt
  <2> HIDE DEF edge
  <2>2. i + 1 = j + 1
    BY <2>1
  <2>3. QED
    BY <2>2
<1>4. IsFiniteSet(S) /\ Cardinality(S) = N
  BY FirstNumbers
<1> HIDE DEF edge, S, T
<1>5. edge \in Surjection(S, T) /\ edge \in Injection(S, T)
  BY <1>2, <1>3 DEF Surjection, Injection, IsInjective
<1>6. Cardinality(T) = Cardinality(S)
  BY <1>4, <1>5, FS_Surjection
<1>7. QED
  BY <1>4, <1>6 DEF T

(* Matching a query, edge after edge.                                      *)
MatchedOf(query) ==
  [i \in DOMAIN Sorted(Edges(query), EarlierEdge) |->
     MatchedEdge(query, Sorted(Edges(query), EarlierEdge)[i])]

IsMatchedAs(edges, q, plan, N) ==
  /\ Len(edges) = N /\ DOMAIN edges = 1 .. N
  /\ \A k \in 1 .. N : \E i \in 1 .. N : IsMatchedBy(edges[k], q, plan, i)
  /\ \A i \in 1 .. N : \E k \in 1 .. N : IsMatchedBy(edges[k], q, plan, i)

LEMMA WrittenIsMatchedAs ==
  ASSUME DifferentEndpoints, DifferentSides, NEW query \in Queries, NEW q, NEW plan,
         NEW N \in Nat, IsWriting(query, q, plan, N)
  PROVE  /\ \A i \in DOMAIN Sorted(Edges(query), EarlierEdge) :
              Matching(query, Sorted(Edges(query), EarlierEdge)[i]) # {}
         /\ IsMatchedAs(MatchedOf(query), q, plan, N)
<1> DEFINE s == Sorted(Edges(query), EarlierEdge)
           edges == MatchedOf(query)
<1>1. /\ DOMAIN s = 1 .. N
      /\ \A k \in DOMAIN s : s[k] \in Edges(query)
      /\ \A e \in Edges(query) : \E k \in DOMAIN s : s[k] = e
  BY EdgesAreSorted, EdgesAreCounted
<1>2. edges = [k \in DOMAIN s |-> MatchedEdge(query, s[k])]
  BY DEF MatchedOf
<1> HIDE DEF s, edges
<1>3. /\ \A i \in 1 .. N : EdgeAt(q, plan, i) \in Edges(query)
      /\ \A e \in Edges(query) : \E i \in 1 .. N : e = EdgeAt(q, plan, i)
  BY EdgesAreWritten
<1>4. DOMAIN edges = 1 .. N /\ Len(edges) = N
  <2> DEFINE S == {MatchedEdge(query, s[k]) : k \in 1 .. N}
  <2>1. edges \in [1 .. N -> S]
    BY <1>1, <1>2
  <2> HIDE DEF S
  <2>2. edges \in Seq(S)
    BY <2>1, SeqDef
  <2>3. QED
    BY <2>1, <2>2, LenProperties
<1>5. ASSUME NEW k \in 1 .. N
      PROVE  \E i \in 1 .. N : s[k] = EdgeAt(q, plan, i)
  BY <1>1, <1>3
<1>6. ASSUME NEW k \in 1 .. N
      PROVE  Matching(query, s[k]) # {}
  BY <1>5, WrittenIsMatched
<1>7. ASSUME NEW k \in 1 .. N
      PROVE  \E i \in 1 .. N : IsMatchedBy(edges[k], q, plan, i)
  <2>1. PICK i \in 1 .. N : s[k] = EdgeAt(q, plan, i)
    BY <1>5
  <2>2. PICK m : m = edges[k]
    OBVIOUS
  <2>3. m = MatchedEdge(query, EdgeAt(q, plan, i))
    BY <1>1, <1>2, <2>1, <2>2
  <2>4. QED
    BY <2>2, <2>3, WrittenIsMatched
<1>8. ASSUME NEW i \in 1 .. N
      PROVE  \E k \in 1 .. N : IsMatchedBy(edges[k], q, plan, i)
  <2>1. PICK k \in 1 .. N : s[k] = EdgeAt(q, plan, i)
    BY <1>1, <1>3
  <2>2. PICK m : m = edges[k]
    OBVIOUS
  <2>3. m = MatchedEdge(query, EdgeAt(q, plan, i))
    BY <1>1, <1>2, <2>1, <2>2
  <2>4. QED
    BY <2>2, <2>3, WrittenIsMatched
<1>9. IsMatchedAs(edges, q, plan, N)
  BY <1>4, <1>7, <1>8 DEF IsMatchedAs
<1>10. QED
  BY <1>1, <1>6, <1>9 DEF s, edges

(* The places are a mapping, so the query has the plan's graph.            *)
LEMMA WritingIsMapped ==
  ASSUME DifferentSides, NEW query \in Queries, NEW q, NEW plan, NEW N \in Nat,
         IsWriting(query, q, plan, N), NEW edges, IsMatchedAs(edges, q, plan, N)
  PROVE  Mappings(query, edges, q, plan) # {} /\ NullableRefs(edges) = {}
<1> DEFINE EndsOf(e) == IF e.traversal = "forward" THEN <<e.rel, e.from, e.to>>
                                                  ELSE <<e.rel, e.to, e.from>>
           places == [i \in GraphRefs(query) |-> RefAt(q, plan, i)]
           Triple(m) == <<m.rel, places[m.child], places[m.parent]>>
<1>1. /\ GraphRefs(query) = 1 .. N + 1 /\ Cardinality(q.refs) = N + 1 /\ DOMAIN plan = 1 .. N
      /\ ArePlaced(q, plan, N)
      /\ \A ref \in q.refs : query.entity[PlaceOf(q, plan, ref)] = q.entity[ref]
  BY WritingJoinsAll DEF IsWriting
<1>2. Len(plan) = N
  BY DEF IsWriting
<1>3. /\ \A i \in 1 .. N + 1 : places[i] = RefAt(q, plan, i) /\ places[i] \in q.refs
                               /\ PlaceOf(q, plan, places[i]) = i
      /\ \A ref \in q.refs : places[PlaceOf(q, plan, ref)] = ref
  BY <1>1 DEF ArePlaced
<1>4. places \in [GraphRefs(query) -> q.refs]
  BY <1>1, <1>3
<1> HIDE DEF places
<1>5. \A i, j \in GraphRefs(query) : i # j => places[i] # places[j]
  BY <1>1, <1>3
<1>6. \A i \in GraphRefs(query) : query.entity[i] = q.entity[places[i]]
  BY <1>1, <1>3
<1>7. Cardinality(GraphRefs(query)) = Cardinality(q.refs)
  <2>1. N + 1 \in Nat
    OBVIOUS
  <2>2. QED
    BY <1>1, <2>1, FirstNumbers
<1>8. ASSUME NEW m, NEW i \in 1 .. N, IsMatchedBy(m, q, plan, i)
      PROVE  Triple(m) = EndsOf(plan[i])
  <2>1. plan[i].from \in q.refs /\ plan[i].to \in q.refs
    BY <1>1 DEF ArePlaced
  <2>2. ChildRef(plan[i]) \in q.refs /\ ParentRef(plan[i]) \in q.refs
    BY <2>1 DEF ChildRef, ParentRef
  <2>3. m.rel = plan[i].rel /\ places[m.child] = ChildRef(plan[i]) /\ places[m.parent] = ParentRef(plan[i])
    BY <1>3, <1>8, <2>2 DEF IsMatchedBy
  <2>4. QED
    BY <2>3 DEF ChildRef, ParentRef
<1> HIDE DEF Triple, EndsOf
<1>9. DOMAIN edges = 1 .. N
  BY DEF IsMatchedAs
<1>10. \A k \in 1 .. N : \E i \in 1 .. N : Triple(edges[k]) = EndsOf(plan[i])
  BY <1>8 DEF IsMatchedAs
<1>11. \A i \in 1 .. N : \E k \in 1 .. N : Triple(edges[k]) = EndsOf(plan[i])
  BY <1>8 DEF IsMatchedAs
<1>12. {Triple(edges[k]) : k \in DOMAIN edges} = {EndsOf(plan[i]) : i \in DOMAIN plan}
  <2> DEFINE A == {Triple(edges[k]) : k \in DOMAIN edges}
             B == {EndsOf(plan[i]) : i \in DOMAIN plan}
  <2>1. ASSUME NEW t \in A
        PROVE  t \in B
    <3>1. PICK k \in 1 .. N : t = Triple(edges[k])
      BY <1>9
    <3>2. PICK i \in 1 .. N : Triple(edges[k]) = EndsOf(plan[i])
      BY <1>10
    <3>3. QED
      BY <1>1, <3>1, <3>2
  <2>2. ASSUME NEW t \in B
        PROVE  t \in A
    <3>1. PICK i \in 1 .. N : t = EndsOf(plan[i])
      BY <1>1
    <3>2. PICK k \in 1 .. N : Triple(edges[k]) = EndsOf(plan[i])
      BY <1>11
    <3>3. QED
      BY <1>9, <3>1, <3>2
  <2> HIDE DEF A, B
  <2>3. A = B
    BY <2>1, <2>2
  <2>4. QED
    BY <2>3 DEF A, B
<1>13. places \in Mappings(query, edges, q, plan)
  BY <1>2, <1>4, <1>5, <1>6, <1>7, <1>12 DEF Mappings, Triple, EndsOf, IsMatchedAs
<1>14. \A k \in DOMAIN edges : edges[k].kind # "left"
  <2> SUFFICES ASSUME NEW k \in DOMAIN edges
               PROVE  edges[k].kind # "left"
    OBVIOUS
  <2>1. edges[k].kind = "inner"
    BY DEF IsMatchedAs, IsMatchedBy
  <2>2. QED
    BY <2>1
<1>15. NullableRefs(edges) = {}
  BY <1>14 DEF NullableRefs
<1>16. QED
  BY <1>13, <1>15

(* What is validated so begins the search where the planner began its own. *)
LEMMA MappingsAreOnto ==
  ASSUME NEW query, NEW q \in Requests, NEW edges, NEW plan,
         NEW mapping \in Mappings(query, edges, q, plan), NEW ref \in q.refs
  PROVE  \E i \in GraphRefs(query) : mapping[i] = ref
<1> DEFINE S == GraphRefs(query)
           T == q.refs
<1>1. /\ mapping \in [S -> T] /\ Cardinality(S) = Cardinality(T) /\ IsFiniteSet(T)
      /\ \A i, j \in S : i # j => mapping[i] # mapping[j]
  BY RequestsAreFinite DEF Mappings
<1>2. ref \in T
  OBVIOUS
<1> HIDE DEF S, T
<1>3. mapping \in Injection(S, T)
  BY <1>1 DEF Injection, IsInjective
<1>4. mapping \in Surjection(S, T)
  BY <1>1, <1>3, FS_Injection
<1>5. QED
  BY <1>2, <1>4 DEF Surjection, S

LEMMA WritingStarts ==
  ASSUME DifferentEndpoints, DifferentSides,
         NEW query \in Queries, NEW grain, NEW n, n # 0, ValidateSql(query, grain, n),
         NEW q \in Requests, request = q, answer = PlanJoin(q), n \in DOMAIN answer,
         NEW plan, plan = answer[n], Writes(query, q, plan), grain = q.expected
  PROVE  \E mapping \in Mappings(query, matched', q, plan), start \in Refs(query) :
           mapping[start] = grain /\ queue' = <<<<start, 0>>>> /\ outcome' = None
<1> DEFINE N == Cardinality(q.refs) - 1
           edges == Sorted(Edges(query), EarlierEdge)
<1>1. plan \in AllTrees(q) /\ q.entity[q.expected] \in Keyed
  <2>1. plan \in AllTrees(q)
    BY PlansAreSafeTrees
  <2>2. q.entity[q.expected] \notin Keyed => PlanJoin(q) = <<>>
    BY DEF PlanJoin
  <2>3. DOMAIN <<>> = {}
    OBVIOUS
  <2>4. QED
    BY <2>1, <2>2, <2>3
<1>2. IsWriting(query, q, plan, N) /\ N \in Nat
  BY <1>1, WritingIsThere
<1> HIDE DEF N
<1>3. /\ \A i \in DOMAIN edges : Matching(query, edges[i]) # {}
      /\ IsMatchedAs(MatchedOf(query), q, plan, N)
  BY <1>2, WrittenIsMatchedAs
<1>4. ~ UnsupportedShape(query) /\ ~ MissingPredicate(query) /\ GraphRefs(query) = Refs(query)
  BY <1>2, EdgesAreWritten, WritingJoinsAll
<1>5. matched' = MatchedOf(query) /\ Decide(query, matched', grain, n)
  BY <1>3, <1>4 DEF ValidateSql, MatchedOf
<1>6. Mappings(query, matched', q, plan) # {} /\ NullableRefs(matched') = {}
  BY <1>2, <1>3, <1>5, WritingIsMapped
<1>7. PICK mapping \in Mappings(query, matched', q, plan) :
        SearchFrom(query, matched', CHOOSE ref \in GraphRefs(query) : mapping[ref] = grain)
  BY <1>5, <1>6 DEF Decide
<1> DEFINE start == CHOOSE ref \in GraphRefs(query) : mapping[ref] = grain
<1>8. start \in GraphRefs(query) /\ mapping[start] = grain
  <2>1. grain \in q.refs
    BY RequestsAreFinite
  <2>2. \E ref \in GraphRefs(query) : mapping[ref] = grain
    BY <2>1, MappingsAreOnto
  <2>3. QED
    BY <2>2
<1>9. SearchFrom(query, matched', start)
  BY <1>7
<1> HIDE DEF start
<1>10. query.entity[start] = q.entity[mapping[start]]
  BY <1>8 DEF Mappings
<1>11. queue' = <<<<start, 0>>>> /\ outcome' = None
  BY <1>1, <1>6, <1>8, <1>9, <1>10 DEF SearchFrom
<1>12. QED
  BY <1>4, <1>8, <1>11

(* A plan written as a query, validated with its grain, passes or is still *)
(* being searched, and what is pending is good if the start is.            *)
IsPassing(query, mapping, start) ==
  /\ mapping[start] = sql.grain /\ queue \in Seq(PlacesOfSearch)
  /\ queue # <<>> \/ outcome = "passes"
  /\ outcome \in {None, "passes"}
  /\ IsGood(<<start, 0>>) => \A k \in DOMAIN queue : IsGood(queue[k])

WrittenInv ==
  sql # None /\ sql.plan # 0 /\ sql.grain = request.expected
    /\ Writes(sql.query, request, answer[sql.plan])
    => /\ answer # None /\ sql.plan \in DOMAIN answer
       /\ \E query \in Queries : sql.query = query /\
            \E mapping \in Mappings(query, matched, request, answer[sql.plan]), start \in Refs(query) :
              IsPassing(query, mapping, start)

LEMMA WrittenInvInit ==
  SqlInit => WrittenInv
BY DEF SqlInit, WrittenInv

LEMMA WrittenInvStays ==
  ASSUME WrittenInv, UNCHANGED <<evidence, request, answer, matched, sql, queue, outcome>>
  PROVE  WrittenInv'
<1>1. \A x : IsGood(x)' = IsGood(x)
  BY MatchedStays
<1>2. \A query, mapping, start : IsPassing(query, mapping, start)' = IsPassing(query, mapping, start)
  BY <1>1 DEF IsPassing, PlacesOfSearch
<1>3. QED
  BY <1>2 DEF WrittenInv

LEMMA ValidateWrites ==
  ASSUME DifferentEndpoints, DifferentSides, PlanInv,
         NEW query \in Queries, NEW grain, NEW n, ValidateSql(query, grain, n),
         answer # None, n \in DOMAIN answer, UNCHANGED <<evidence, request, answer>>
  PROVE  WrittenInv'
<1>1. sql' = [query |-> query, grain |-> grain, plan |-> n]
  BY DEF ValidateSql
<1>2. sql'.query = query /\ sql'.grain = grain /\ sql'.plan = n
  BY <1>1
<1>3. PICK q \in Requests : request = q /\ answer = PlanJoin(q)
  BY DEF PlanInv
<1>4. PICK plan : plan = answer[n]
  OBVIOUS
<1> SUFFICES ASSUME n # 0, grain = q.expected, Writes(query, q, plan)
             PROVE  \E mapping \in Mappings(query, matched', q, plan), start \in Refs(query) :
                      IsPassing(query, mapping, start)'
  BY <1>2, <1>3, <1>4 DEF WrittenInv
<1>5. PICK mapping \in Mappings(query, matched', q, plan), start \in Refs(query) :
        mapping[start] = grain /\ queue' = <<<<start, 0>>>> /\ outcome' = None
  BY <1>3, <1>4, WritingStarts
<1>6. start \in Nat
  BY QueriesAreTyped
<1>7. queue' \in Seq(PlacesOfSearch) /\ queue' # <<>>
  BY <1>5, <1>6 DEF PlacesOfSearch
<1>8. \A k \in DOMAIN queue' : queue'[k] = <<start, 0>>
  BY <1>5
<1>9. IsGood(<<start, 0>>)' => (\A k \in DOMAIN queue : IsGood(queue[k]))'
  BY <1>8 DEF IsGood
<1>10. IsPassing(query, mapping, start)'
  BY <1>2, <1>5, <1>7, <1>9 DEF IsPassing, PlacesOfSearch
<1>11. QED
  BY <1>10

LEMMA WrittenGoesOn ==
  ASSUME DifferentEndpoints, DifferentSides, EvidenceInv, PlanInv, BoundInv, WrittenInv, Search
  PROVE  WrittenInv'
<1>1. UNCHANGED <<evidence, request, answer, matched, sql>> /\ queue # <<>>
  BY DEF Search, vars
<1> SUFFICES ASSUME sql # None, sql.plan # 0, sql.grain = request.expected,
                    Writes(sql.query, request, answer[sql.plan])
             PROVE  WrittenInv'
  BY <1>1 DEF WrittenInv
<1>2. /\ answer # None /\ sql.plan \in DOMAIN answer
      /\ \E query \in Queries : sql.query = query /\
           \E mapping \in Mappings(query, matched, request, answer[sql.plan]), start \in Refs(query) :
             IsPassing(query, mapping, start)
  BY DEF WrittenInv
<1>3. PICK query \in Queries : sql.query = query /\
        \E mapping \in Mappings(query, matched, request, answer[sql.plan]), start \in Refs(query) :
          IsPassing(query, mapping, start)
  BY <1>2
<1>4. PICK mapping \in Mappings(query, matched, request, answer[sql.plan]), start \in Refs(query) :
        IsPassing(query, mapping, start)
  BY <1>3
<1>5. IsMatched(query) /\ ~ MissingPredicate(query)
  BY <1>1, <1>3 DEF BoundInv
<1>6. PICK q \in Requests : request = q /\ answer = PlanJoin(q) /\ evidence # None
  BY <1>2 DEF PlanInv
<1>7. PICK plan : plan = answer[sql.plan]
  OBVIOUS
<1>8. plan \in AllTrees(q) /\ GrainCompatible(q, plan)
  BY <1>2, <1>6, <1>7, PlansAreSafeTrees DEF TreeIsSafe
<1>9. IsBinding(query, q, plan, mapping)
  <2>1. IsFlat(query)
    BY <1>3, <1>6, <1>7, <1>8, WritingIsThere DEF IsWriting
  <2>2. mapping \in Mappings(query, matched, q, plan)
    BY <1>6, <1>7
  <2>3. QED
    BY <1>5, <2>1, <2>2, MappingsAreBindings
<1>10. IsGood(<<start, 0>>)
  <2>1. mapping[start] = q.expected
    BY <1>4, <1>6 DEF IsPassing
  <2>2. TablesInv /\ evidence = Measured
    BY <1>6 DEF EvidenceInv
  <2>3. QED
    BY <1>5, <1>8, <1>9, <2>1, <2>2, BoundSearchesAreGood
<1> DEFINE head == Head(queue)
           rest == Pending(head[1], head[2])
<1>11. /\ queue \in Seq(PlacesOfSearch) /\ \A k \in DOMAIN queue : IsGood(queue[k])
       /\ outcome \in {None, "passes"} /\ mapping[start] = sql.grain
  BY <1>4, <1>10 DEF IsPassing
<1>12. ~ FansOut(head[1], head[2])
  <2>1. 1 \in DOMAIN queue /\ head = queue[1]
    BY <1>1, <1>11
  <2> HIDE DEF head
  <2>2. IsGood(head)
    BY <1>11, <2>1
  <2>3. QED
    BY <2>2, GoodGoesOn
<1>13. queue' = rest /\ outcome' = IF rest = <<>> THEN "passes" ELSE outcome
  BY <1>12 DEF Search
<1>14. /\ rest \in Seq(PlacesOfSearch)
       /\ (\A k \in DOMAIN rest : IsGood(rest[k])) <=> (\A k \in DOMAIN queue : IsGood(queue[k]))
  BY <1>1, <1>5, <1>11, <1>12, PendingWasGood
<1> HIDE DEF head, rest
<1>15. \A x : IsGood(x)' = IsGood(x)
  BY <1>1, MatchedStays
<1>16. (\A k \in DOMAIN queue : IsGood(queue[k]))'
  BY <1>11, <1>13, <1>14, <1>15
<1>17. IsPassing(query, mapping, start)'
  BY <1>1, <1>11, <1>13, <1>14, <1>16 DEF IsPassing, PlacesOfSearch
<1>18. QED
  BY <1>1, <1>2, <1>3, <1>4, <1>17 DEF WrittenInv

LEMMA WrittenInvNext ==
  ASSUME DifferentEndpoints, DifferentSides
  PROVE  EvidenceInv /\ PlanInv /\ BoundInv /\ WrittenInv /\ [SqlNext]_<<vars, sqlVars>> => WrittenInv'
<1> SUFFICES ASSUME EvidenceInv, PlanInv, BoundInv, WrittenInv, [SqlNext]_<<vars, sqlVars>>
             PROVE  WrittenInv'
  OBVIOUS
<1>1. CASE Verify /\ UNCHANGED sqlVars
  <2>1. evidence = None /\ UNCHANGED <<request, answer, matched, sql, queue, outcome>>
    BY <1>1 DEF Verify, sqlVars
  <2>2. answer = None
    BY <2>1 DEF PlanInv
  <2>3. QED
    BY <2>1, <2>2 DEF WrittenInv
<1>2. CASE sql = None /\ GetJoinPlan /\ UNCHANGED sqlVars
  BY <1>2 DEF WrittenInv, sqlVars
<1>3. CASE ValidateAlone
  <2>1. PICK query \in Queries, grain \in Grains : ValidateSql(query, grain, 0)
    BY <1>3 DEF ValidateAlone
  <2>2. sql'.plan = 0
    BY <2>1 DEF ValidateSql
  <2>3. QED
    BY <2>2 DEF WrittenInv
<1>4. CASE ValidateWithPlan
  <2>1. PICK query \in Queries, plan \in DOMAIN answer, grain \in request.refs :
          ValidateSql(query, grain, plan)
    BY <1>4 DEF ValidateWithPlan
  <2>2. answer # None /\ UNCHANGED <<evidence, request, answer>>
    BY <1>4 DEF ValidateWithPlan, vars
  <2>3. QED
    BY <2>1, <2>2, ValidateWrites
<1>5. CASE Search
  BY <1>5, WrittenGoesOn
<1>6. CASE UNCHANGED <<vars, sqlVars>>
  <2>1. UNCHANGED <<evidence, request, answer, matched, sql, queue, outcome>>
    BY <1>6 DEF vars, sqlVars
  <2>2. QED
    BY <2>1, WrittenInvStays
<1>7. QED
  BY <1>1, <1>2, <1>3, <1>4, <1>5, <1>6 DEF SqlNext

(* A plan written as a query in its own order, with its own conditions, is *)
(* never blocked when it is validated with that plan and its grain, for    *)
(* any catalog whose relationships the validator can tell apart, any rows, *)
(* any request and any plan returned (_proof_mapping, _grain_compatible).  *)
THEOREM WrittenPlansPass ==
  ASSUME DifferentEndpoints, DifferentSides
  PROVE  SqlSpec => []PlannedSqlPasses
<1>1. WrittenInv => PlannedSqlPasses
  BY DEF WrittenInv, IsPassing, PlannedSqlPasses
<1>2. QED
  BY <1>1, WrittenInvInit, WrittenInvNext, BoundInvInit, BoundInvNext, PlanInvAlways,
     EvidenceInvAlways, PTL DEF SqlSpec

=============================================================================
