------------------------------ MODULE SqlGraph ------------------------------
(***************************************************************************)
(* Validating a query: normalize_sql_graph and validate_sql_graph in       *)
(* src/joinlint/runtime/sql.py, with and without a plan, over the tables   *)
(* and the plans of JoinPlanner.                                           *)
(*                                                                         *)
(* A query is what the normalizer looks at: the instances it takes rows    *)
(* from, in their order, and its equalities of columns, each with the      *)
(* join it stands in (0 outside of every join). `filters` tells whether an *)
(* equality has to hold of a row of the result, which the normalizer does  *)
(* not look at: one below an OR or in the select list does not. A derived  *)
(* table is an instance too, `inner` the instance of its own scope that it *)
(* shows; its scope stands before it, and it is not the nullable side of a *)
(* left join.                                                              *)
(***************************************************************************)
EXTENDS JoinPlanner

CONSTANTS
  Queries,     \* [entity : Seq(Entities), nullable : SUBSET instances,
               \*  scope : Seq(Nat), inner : Seq(Nat) (0: a table),
               \*  equalities : SUBSET [left, right : <<ref, column>>, join, filters]]
  Grains       \* expected_grain_ref without a plan: an entity, or None

VARIABLES
  sql,      \* None, or [query, grain, plan]: plan is 0 or that answer[plan] is bound
  matched,  \* the edges of the query, each with its relationship
  queue,    \* the instances the search for the grain has still to visit
  outcome   \* None, "passes", or the code it is blocked with

sqlVars == <<sql, matched, queue, outcome>>

Refs(query) == DOMAIN query.entity

(* What a query is: an ON clause speaks of what stands before its join and *)
(* of what it joins; nothing is a row of the first instance's left join.   *)
IsQuery(query) ==
  LET endpoints == {end \in Refs(query) \X UNION {Columns[e] : e \in Entities} :
                      end[2] \in Columns[query.entity[end[1]]]}
  IN  /\ query.entity \in Seq(Entities) /\ query.entity # <<>>
      /\ query.nullable \subseteq 2 .. Len(query.entity)
      /\ query.scope \in [Refs(query) -> Nat]
      /\ \A ref \in Refs(query) : query.inner[ref] \in 0 .. ref - 1
      /\ IsFiniteSet(query.equalities)
      /\ query.equalities \subseteq
           [left : endpoints, right : endpoints, join : 0 .. Len(query.entity), filters : BOOLEAN]
      /\ \A eq \in query.equalities :
           eq.join = 0 \/ (eq.left[1] <= eq.join /\ eq.right[1] <= eq.join)

ASSUME SqlConstants ==
  /\ \A query \in Queries : IsQuery(query)
  /\ \A r \in Relationships : Null \notin [DOMAIN Catalog[r].childColumns -> Values]
  /\ None # "passes"

-----------------------------------------------------------------------------
(* normalize_sql_graph: equalities between two instances are grouped by    *)
(* the instances and the kind of join. A left join has its nullable side   *)
(* on the right; for an inner join the side is a matter of names.          *)
InLeftJoin(query, equality) == equality.join \in query.nullable

Crossing(query) ==
  {eq \in query.equalities :
     eq.left[1] # eq.right[1] /\ query.scope[eq.left[1]] = query.scope[eq.right[1]]}

NullableOnLeft(query, eq) ==
  IF InLeftJoin(query, eq) THEN eq.left[1] = eq.join ELSE eq.right[1] < eq.left[1]

Oriented(query, eq) ==
  IF NullableOnLeft(query, eq) THEN [eq EXCEPT !.left = eq.right, !.right = eq.left]
                               ELSE eq

UnsupportedShape(query) ==
  \E eq \in Crossing(query) :
    InLeftJoin(query, eq) /\ eq.join \notin {eq.left[1], eq.right[1]}

Edges(query) ==
  LET oriented == {Oriented(query, eq) : eq \in Crossing(query)}
      Kind(eq) == IF InLeftJoin(query, eq) THEN "left" ELSE "inner"
      Group(eq) == {other \in oriented :
                      /\ other.left[1] = eq.left[1] /\ other.right[1] = eq.right[1]
                      /\ Kind(other) = Kind(eq)}
  IN  {[left |-> eq.left[1], right |-> eq.right[1], kind |-> Kind(eq),
        pairs |-> {<<e.left[2], e.right[2]>> : e \in Group(eq)}] : eq \in oriented}

GraphRefs(query) == UNION {{e.left, e.right} : e \in Edges(query)}

MissingPredicate(query) ==
  \E ref \in Refs(query) \ GraphRefs(query) :
    \E other \in Refs(query) \ {ref} : query.scope[other] = query.scope[ref]

EarlierEdge(e, f) ==
  Lower(<<e.left, e.right, IF e.kind = "inner" THEN 0 ELSE 1>>,
        <<f.left, f.right, IF f.kind = "inner" THEN 0 ELSE 1>>)

(* _match_relationship and _relationship_refs: an edge is matched when its *)
(* pairs of endpoints are those of an authorized relationship, whichever   *)
(* side they stand on; the child is the side with the child's endpoints.   *)
Endpoints(query, e) ==
  {{<<query.entity[e.left], p[1]>>, <<query.entity[e.right], p[2]>>} : p \in e.pairs}

SeedEndpoints(r) ==
  LET seed == Catalog[r] IN
  {{<<seed.child, seed.childColumns[i]>>, <<seed.parent, seed.parentColumns[i]>>} :
     i \in DOMAIN seed.childColumns}

Matching(query, e) ==
  {r \in Authorized : SeedEndpoints(r) = Endpoints(query, e)}

ChildIsLeft(query, e, r) ==
  {<<query.entity[e.left], p[1]>> : p \in e.pairs}
    = {<<Catalog[r].child, column>> : column \in ToSet(Catalog[r].childColumns)}

MatchedEdge(query, e) ==
  LET r == CHOOSE r \in Matching(query, e) :
             \A other \in Matching(query, e) : r <= other
      childLeft == ChildIsLeft(query, e, r)
  IN  [rel |-> r, kind |-> e.kind, right |-> e.right,
       child |-> IF childLeft THEN e.left ELSE e.right,
       parent |-> IF childLeft THEN e.right ELSE e.left]

(* _proof_mapping: an assignment of the query's instances to the plan's    *)
(* refs, entity by entity, under which the edges are the same.             *)
(* Mutant: the relationships are compared, not what they join.             *)
MappingsByRelationship(query, edges, q, plan) ==
  {mapping \in [GraphRefs(query) -> q.refs] :
     /\ \A i, j \in GraphRefs(query) : i # j => mapping[i] # mapping[j]
     /\ Cardinality(GraphRefs(query)) = Cardinality(q.refs)
     /\ \A i \in GraphRefs(query) : query.entity[i] = q.entity[mapping[i]]
     /\ Len(edges) = Len(plan)
     /\ {edges[i].rel : i \in DOMAIN edges} = {plan[i].rel : i \in DOMAIN plan}}

Mappings(query, edges, q, plan) ==
  LET Ends(e) == IF e.traversal = "forward" THEN <<e.rel, e.from, e.to>>
                                            ELSE <<e.rel, e.to, e.from>>
  IN {mapping \in [GraphRefs(query) -> q.refs] :
       /\ \A i, j \in GraphRefs(query) : i # j => mapping[i] # mapping[j]
       /\ Cardinality(GraphRefs(query)) = Cardinality(q.refs)
       /\ \A i \in GraphRefs(query) : query.entity[i] = q.entity[mapping[i]]
       /\ Len(edges) = Len(plan)
       /\ {<<edges[i].rel, mapping[edges[i].child], mapping[edges[i].parent]>> :
             i \in DOMAIN edges} = {Ends(plan[i]) : i \in DOMAIN plan}}

-----------------------------------------------------------------------------
(* The steps of validate_sql: normalizing and matching, then the search    *)
(* for the grain, an instance at a time.                                   *)
SqlInit ==
  Init /\ sql = None /\ matched = <<>> /\ queue = <<>> /\ outcome = None

Blocked(code) == outcome' = code /\ queue' = <<>>

(* _expected_sql_ref without a plan: the entity has to have one instance.  *)
Named(query, grain) == {ref \in GraphRefs(query) : query.entity[ref] = grain}

NullableRefs(edges) == {edges[i].right : i \in {j \in DOMAIN edges : edges[j].kind = "left"}}

SearchFrom(query, edges, ref) ==
  IF query.entity[ref] \notin Keyed \/ ref \in NullableRefs(edges)
  THEN Blocked("GRAIN_INCOMPATIBLE")
  ELSE queue' = <<<<ref, 0>>>> /\ outcome' = None

(* What becomes of a query with all its edges matched. Where several       *)
(* mappings fit, the code takes the first in an order made of names.       *)
Decide(query, edges, grain, plan) ==
  IF plan = 0
  THEN LET named == Named(query, grain) IN
       IF Cardinality(named) = 1
       THEN SearchFrom(query, edges, CHOOSE ref \in named : TRUE)
       ELSE outcome' = "passes" /\ queue' = <<>>
  ELSE LET mappings == Mappings(query, edges, request, answer[plan]) IN
       IF mappings = {} THEN Blocked("PROOF_GRAPH_MISMATCH")
       ELSE \E mapping \in mappings :
              SearchFrom(query, edges, CHOOSE ref \in GraphRefs(query) : mapping[ref] = grain)

ValidateSql(query, grain, plan) ==
  LET edges == Sorted(Edges(query), EarlierEdge)
      unmatched == \E i \in DOMAIN edges : Matching(query, edges[i]) = {}
      Edge(i) == MatchedEdge(query, edges[i])
  IN  /\ sql' = [query |-> query, grain |-> grain, plan |-> plan]
      /\ IF UnsupportedShape(query) \/ MissingPredicate(query) \/ unmatched
         THEN /\ matched' = <<>>
              /\ Blocked(CASE UnsupportedShape(query) -> "UNSUPPORTED_JOIN_SHAPE"
                           [] MissingPredicate(query) -> "MISSING_JOIN_PREDICATE"
                           [] plan # 0 -> "PROOF_GRAPH_MISMATCH"
                           [] OTHER -> "UNSUPPORTED_JOIN_EDGE")
         ELSE /\ matched' = [i \in DOMAIN edges |-> Edge(i)]
              /\ Decide(query, matched', grain, plan)

ValidateAlone ==
  /\ evidence # None /\ answer = None /\ sql = None
  /\ \E query \in Queries, grain \in Grains : ValidateSql(query, grain, 0)
  /\ UNCHANGED vars

(* With a plan the grain is that of the plan unless another ref is asked.  *)
ValidateWithPlan ==
  /\ answer # None /\ sql = None
  /\ \E query \in Queries, plan \in DOMAIN answer, grain \in request.refs :
       ValidateSql(query, grain, plan)
  /\ UNCHANGED vars

(* _grain_compatible: the edges of an instance, what is across an edge, and *)
(* how many rows are met there. `matched` is in the order of the edges.    *)
Near(ref) == {i \in DOMAIN matched : ref \in {matched[i].child, matched[i].parent}}

Across(e, ref) == IF e.child = ref THEN e.parent ELSE e.child

(* Mutant: the rows met from the parent and from the child are exchanged.  *)
MatchesExchanged(e, ref) ==
  IF e.child = ref THEN evidence[e.rel].maxChildren ELSE evidence[e.rel].maxParents

Matches(e, ref) ==
  IF e.child = ref THEN evidence[e.rel].maxParents ELSE evidence[e.rel].maxChildren

Onwards(ref, previous) == {i \in Near(ref) : Across(matched[i], ref) # previous}

(* Mutant: the rows met are not looked at beyond the first edge.           *)
FansOutAtStart(ref, previous) ==
  previous = 0 /\ \E i \in Onwards(ref, previous) : Matches(matched[i], ref) > 1

FansOut(ref, previous) ==
  \E i \in Onwards(ref, previous) : Matches(matched[i], ref) > 1

Ascending(steps) == Sorted(steps, <)

(* Mutant: an instance without another neighbour stays in the queue.       *)
LeafStays(ref, previous) ==
  LET steps == Ascending(Onwards(ref, previous)) IN
  IF steps = <<>> THEN queue
  ELSE Tail(queue) \o [i \in DOMAIN steps |-> <<Across(matched[steps[i]], ref), ref>>]

Pending(ref, previous) ==
  LET steps == Ascending(Onwards(ref, previous)) IN
  Tail(queue) \o [i \in DOMAIN steps |-> <<Across(matched[steps[i]], ref), ref>>]

Search ==
  /\ queue # <<>>
  /\ LET ref == Head(queue)[1]
         previous == Head(queue)[2]
         rest == Pending(ref, previous)
     IN  IF FansOut(ref, previous) THEN Blocked("GRAIN_INCOMPATIBLE")
         ELSE /\ queue' = rest
              /\ outcome' = IF rest = <<>> THEN "passes" ELSE outcome
  /\ UNCHANGED <<vars, sql, matched>>

SqlNext ==
  \/ (Verify \/ (sql = None /\ GetJoinPlan)) /\ UNCHANGED sqlVars
  \/ ValidateAlone
  \/ ValidateWithPlan
  \/ Search

(* The search runs on: nothing in it waits for anybody.                    *)
SqlSpec == SqlInit /\ [][SqlNext]_<<vars, sqlVars>> /\ WF_<<vars, sqlVars>>(Search)

-----------------------------------------------------------------------------
(* What a query returns: a row is the row taken of every instance, 0 where *)
(* a left join found none. A row of a derived table is a row of its scope. *)
Value(query, row, endpoint) ==
  IF row[endpoint[1]] = 0 THEN Null
  ELSE tables[query.entity[endpoint[1]]][row[endpoint[1]]][endpoint[2]]

Meet(query, row, equalities) ==
  \A eq \in equalities :
    LET value == Value(query, row, eq.left)
    IN  value # Null /\ value = Value(query, row, eq.right)

Clause(query, ref) == {eq \in query.equalities : eq.join = ref /\ eq.filters}

(* The rows of an instance that its join finds for the rows before it.     *)
Found(query, row, ref) ==
  LET offered == IF query.inner[ref] = 0 THEN DOMAIN tables[query.entity[ref]]
                                         ELSE {row[query.inner[ref]]}
  IN  {i \in offered : Meet(query, [row EXCEPT ![ref] = i], Clause(query, ref))}

Result(query) ==
  {row \in [Refs(query) -> 0 .. MaxRows] :
     /\ \A ref \in Refs(query) :
          LET found == Found(query, row, ref) IN
          IF found = {} /\ ref \in query.nullable THEN row[ref] = 0 ELSE row[ref] \in found
     /\ Meet(query, row, Clause(query, 0))}

KeepsGrainOf(query, ref) ==
  \A row, other \in Result(query) :
    row[ref] # 0 /\ (row # other => row[ref] # other[ref])

Passed == outcome = "passes"

(* A query that passes with an expected grain returns every row of that    *)
(* instance at most once and no row without one. The validator concludes   *)
(* it from the largest groups of each relationship, the kinds of the joins *)
(* and the shape of the graph; the rows here are those SQL returns.        *)
PassesKeepGrain ==
  Passed /\ sql.plan = 0 =>
    LET named == Named(sql.query, sql.grain) IN
    Cardinality(named) = 1 => \A ref \in named : KeepsGrainOf(sql.query, ref)

(* A query that passes with a plan joins what the plan joins: up to the    *)
(* names of the instances, and but for the rows left joins add, it returns *)
(* the rows that joining along the plan yields (_proof_mapping).           *)
PlannedRows(q, plan) ==
  UNION {Joined(q, plan, row) : row \in DOMAIN tables[q.entity[q.expected]]}

BoundSqlJoinsAsPlanned ==
  Passed /\ sql.plan # 0 =>
    LET query == sql.query
        inner == {row \in Result(query) : \A ref \in Refs(query) : row[ref] # 0}
        instances == {m \in [request.refs -> Refs(query)] :
                        \A a, b \in request.refs : a # b => m[a] # m[b]}
    IN  \E instance \in instances :
          {[ref \in request.refs |-> row[instance[ref]]] : row \in inner}
            = PlannedRows(request, answer[sql.plan])

(* Writing a plan as inner joins of tables, in its order, in one scope.    *)
Writes(query, q, plan) ==
  LET Place(ref) == IF ref = q.start THEN 1
                    ELSE 1 + CHOOSE i \in DOMAIN plan : plan[i].to = ref
      Child(e) == IF e.traversal = "forward" THEN e.from ELSE e.to
      Parent(e) == IF e.traversal = "forward" THEN e.to ELSE e.from
      On(i) == LET e == plan[i]  seed == Catalog[e.rel] IN
               {[left |-> <<Place(Child(e)), seed.childColumns[c]>>,
                 right |-> <<Place(Parent(e)), seed.parentColumns[c]>>,
                 join |-> i + 1, filters |-> TRUE] : c \in DOMAIN seed.childColumns}
  IN  /\ query.nullable = {}
      /\ \A ref \in Refs(query) : query.inner[ref] = 0 /\ query.scope[ref] = query.scope[1]
      /\ query.entity = [i \in 1 .. Len(plan) + 1 |->
                           q.entity[IF i = 1 THEN q.start ELSE plan[i - 1].to]]
      /\ query.equalities = UNION {On(i) : i \in DOMAIN plan}

(* A plan written as SQL, joining in the plan's order, is never blocked    *)
(* when it is validated with that plan and its grain: the planner's search *)
(* and the validator's agree.                                              *)
PlannedSqlPasses ==
  sql # None /\ sql.plan # 0 /\ sql.grain = request.expected
    /\ Writes(sql.query, request, answer[sql.plan])
    => outcome \in {None, "passes"}

(* Every validation is decided: the search for the grain ends.             *)
ValidationsEnd == sql # None ~> outcome # None

=============================================================================
