---------------------------- MODULE JoinPlanner ----------------------------
(***************************************************************************)
(* Planning a join: plan_join in src/joinlint/runtime/planner.py, over the *)
(* relationships that measuring the tables authorizes (Evidence).          *)
(*                                                                         *)
(* A request names instances (refs) of entities; the planner grows         *)
(* spanning trees of authorized edges from the start ref, depth first in a *)
(* fixed order, keeps the first four and returns the safe ones among them. *)
(* The tables themselves are part of the state, so that what a plan        *)
(* promises can be compared with the rows that joining along it yields.    *)
(***************************************************************************)
EXTENDS Evidence, SequencesExt

CONSTANTS
  Entities,     \* tables
  Columns,      \* [Entities -> set of columns]: those some relationship joins on
  Catalog,      \* [rel -> [child, parent, childColumns, parentColumns, prov, card]]
  Keyed,        \* entities with a stable unique key
  Values,       \* values of the columns
  MaxRows,      \* bound: rows of a table
  Requests,     \* [refs, entity, start, expected, depth, alternatives]
  TreeLimit,    \* the limit _spanning_trees is called with: 4
  None          \* nothing asked, answered or measured yet

(* Relationship ids and refs are compared as byte strings: numbers here.   *)
Relationships == DOMAIN Catalog

ASSUME PlannerConstants ==
  /\ Relationships \subseteq Nat /\ IsFiniteSet(Relationships)
  /\ \A r \in Relationships :
       LET seed == Catalog[r] IN
       /\ seed.child \in Entities /\ seed.parent \in Entities
       /\ seed.prov \in Provenances /\ seed.card \in Cardinalities
       /\ seed.childColumns \in Seq(Columns[seed.child])
       /\ seed.parentColumns \in Seq(Columns[seed.parent])
       /\ Len(seed.childColumns) = Len(seed.parentColumns)
  /\ \A q \in Requests :
       /\ q.refs \subseteq Nat /\ IsFiniteSet(q.refs) /\ Cardinality(q.refs) \in 2 .. 8
       /\ q.entity \in [q.refs -> Entities]
       /\ q.start \in q.refs /\ q.expected \in q.refs
       /\ q.depth \in 1 .. 4 /\ q.alternatives \in BOOLEAN
  /\ MaxRows \in Nat /\ TreeLimit \in Nat

VARIABLES
  tables,    \* [Entities -> Seq([column -> Values \cup {Null}])]: the snapshot
  evidence,  \* None, or [rel -> what `_measure` counts]
  request,   \* None, or the request answered
  answer     \* None, or the plans returned: none, or the plan and the others

vars == <<tables, evidence, request, answer>>

(* The key of a row: Null as soon as one of its columns is NULL.           *)
KeyOf(row, columns) ==
  IF \E i \in DOMAIN columns : row[columns[i]] = Null THEN Null
  ELSE [i \in DOMAIN columns |-> row[columns[i]]]

KeysIn(entity, columns) ==
  [i \in DOMAIN tables[entity] |-> KeyOf(tables[entity][i], columns)]

(* verify_relationship of every relationship of the catalog.               *)
Measured ==
  [r \in Relationships |->
     Measure(KeysIn(Catalog[r].child, Catalog[r].childColumns),
             KeysIn(Catalog[r].parent, Catalog[r].parentColumns))]

-----------------------------------------------------------------------------
(* build_authorized_graph: the relationships without a blocking finding.   *)
Authorized ==
  {r \in Relationships :
     Findings(evidence[r], Catalog[r].card) \cap BlockingCodes = {}}

(* _candidate_edges: a relationship may be crossed between any two refs of *)
(* its entities, from the child to the parent or back; `matches` are the   *)
(* rows met crossing it, `reverse` those met on the way back.              *)
Forward(r, from, to) ==
  [rel |-> r, from |-> from, to |-> to, traversal |-> "forward",
   matches |-> evidence[r].maxParents, reverse |-> evidence[r].maxChildren]

Backward(r, from, to) ==
  [rel |-> r, from |-> from, to |-> to, traversal |-> "reverse",
   matches |-> evidence[r].maxChildren, reverse |-> evidence[r].maxParents]

CandidateEdges(q) ==
  LET Crossing(r) ==
        {pair \in q.refs \X q.refs :
           /\ pair[1] # pair[2]
           /\ q.entity[pair[1]] = Catalog[r].child
           /\ q.entity[pair[2]] = Catalog[r].parent}
  IN  UNION {{Forward(r, pair[1], pair[2]) : pair \in Crossing(r)}
               \cup {Backward(r, pair[2], pair[1]) : pair \in Crossing(r)} :
             r \in Authorized}

Fanout(e) == e.matches > 1

(* _candidate_key; equal keys stay in the order in which they were made.   *)
CandidateKey(e) ==
  <<IF Catalog[e.rel].prov = "curated" THEN 0 ELSE 1, IF Fanout(e) THEN 1 ELSE 0,
    e.rel, e.from, e.to, IF e.traversal = "forward" THEN 0 ELSE 1>>

Lower(k, l) ==
  \E i \in DOMAIN k : k[i] < l[i] /\ \A j \in 1 .. i - 1 : k[j] = l[j]

Precedes(e, f) == Lower(CandidateKey(e), CandidateKey(f))

Before(e, S, Less(_, _)) == Cardinality({f \in S : Less(f, e)})

First(limit, S, Less(_, _)) == {e \in S : Before(e, S, Less) < limit}

Sorted(S, Less(_, _)) ==
  [n \in 1 .. Cardinality(S) |-> CHOOSE e \in S : Before(e, S, Less) + 1 = n]

(* _spanning_trees: `grow` adds an edge that reaches one more ref; `depths` *)
(* maps the refs of the growing tree to their distance from the start.     *)
(* Mutant: the depth of the ref reached is not counted.                    *)
OpenTooDeep(q, depths, e) ==
  /\ e.from \in DOMAIN depths /\ e.to \notin DOMAIN depths
  /\ depths[e.from] <= q.depth

(* Mutant: a ref may not be as far as the depth.                           *)
OpenTooShallow(q, depths, e) ==
  /\ e.from \in DOMAIN depths /\ e.to \notin DOMAIN depths
  /\ depths[e.from] + 1 < q.depth

Open(q, depths, e) ==
  /\ e.from \in DOMAIN depths /\ e.to \notin DOMAIN depths
  /\ depths[e.from] + 1 <= q.depth

Reached(depths, e) ==
  [ref \in DOMAIN depths \cup {e.to} |->
     IF ref = e.to THEN depths[e.from] + 1 ELSE depths[ref]]

Larger(q, candidates, growing) ==
  UNION {{[depths |-> Reached(g.depths, e), tree |-> Append(g.tree, e)] :
            e \in {f \in candidates : Open(q, g.depths, f)}} : g \in growing}

(* A tree is complete after one edge for each ref but the start.           *)
Grow(q, candidates) ==
  LET Grown[n \in 0 .. Cardinality(q.refs) - 1] ==
        IF n = 0 THEN {[depths |-> [ref \in {q.start} |-> 0], tree |-> <<>>]}
                 ELSE Larger(q, candidates, Grown[n - 1])
  IN  {g.tree : g \in Grown[Cardinality(q.refs) - 1]}

(* Depth first, of two trees the one is met first whose edge comes first   *)
(* where they part; the search stops at the limit.                         *)
MetEarlier(one, other) ==
  \E i \in DOMAIN one : /\ Precedes(one[i], other[i])
                        /\ \A j \in 1 .. i - 1 : one[j] = other[j]

SpanningTrees(q, candidates) == First(TreeLimit, Grow(q, candidates), MetEarlier)

(* grain_compatible: its search from the expected ref meets no edge that   *)
(* leads away from it to more than one row.                                *)
Steps(tree) ==
  {[from |-> e.from, to |-> e.to, matches |-> e.matches] : e \in ToSet(tree)} \cup
  {[from |-> e.to, to |-> e.from, matches |-> e.reverse] : e \in ToSet(tree)}

(* The steps on from where the queue is: not back to where it came from.   *)
Leaving(steps, met) ==
  {s \in steps : \E m \in met : s.from = m.ref /\ s.to # m.parent}

(* A walk through a tree, never back, has as many steps as edges at most.  *)
GrainCompatible(q, tree) ==
  LET steps == Steps(tree)
      Met[n \in 0 .. Len(tree)] ==
        IF n = 0 THEN {[ref |-> q.expected, parent |-> q.expected]}
        ELSE {[ref |-> s.to, parent |-> s.from] : s \in Leaving(steps, Met[n - 1])}
  IN  \A n \in 0 .. Len(tree) : \A s \in Leaving(steps, Met[n]) : s.matches <= 1

(* Mutant: the expected grain is not looked at.                            *)
OneFanoutIsSafe(q, tree) ==
  Cardinality({i \in DOMAIN tree : Fanout(tree[i])}) <= 1

TreeIsSafe(q, tree) ==
  /\ Cardinality({i \in DOMAIN tree : Fanout(tree[i])}) <= 1
  /\ GrainCompatible(q, tree)

PlanJoin(q) ==
  LET trees == SpanningTrees(q, CandidateEdges(q))
      safe == Sorted({tree \in trees : TreeIsSafe(q, tree)}, MetEarlier)
  IN  IF q.entity[q.expected] \notin Keyed THEN <<>>
      ELSE IF q.alternatives THEN safe
      ELSE SubSeq(safe, 1, IF safe = <<>> THEN 0 ELSE 1)

-----------------------------------------------------------------------------
Rows(entity) == [Columns[entity] -> Values \cup {Null}]

Init ==
  /\ tables \in [Entities -> UNION {[1 .. n -> UNION {Rows(e) : e \in Entities}] :
                                    n \in 0 .. MaxRows}]
  /\ \A e \in Entities : ToSet(tables[e]) \subseteq Rows(e)
  /\ evidence = None /\ request = None /\ answer = None

Verify ==
  /\ evidence = None
  /\ evidence' = Measured
  /\ UNCHANGED <<tables, request, answer>>

GetJoinPlan ==
  /\ evidence # None /\ answer = None
  /\ \E q \in Requests :
       /\ request' = q
       /\ answer' = PlanJoin(q)
  /\ UNCHANGED <<tables, evidence>>

Next == Verify \/ GetJoinPlan

Spec == Init /\ [][Next]_vars

-----------------------------------------------------------------------------
(* Properties.                                                             *)
Answered == answer # None

(* The rows of the tables that joining along the tree combines with one    *)
(* row of the expected entity: each ref gets a row, and the keys of each   *)
(* edge are equal and not NULL.                                            *)
Meets(r, child, parent) ==
  LET key == KeyOf(tables[Catalog[r].child][child], Catalog[r].childColumns)
  IN  key # Null
      /\ key = KeyOf(tables[Catalog[r].parent][parent], Catalog[r].parentColumns)

Joined(q, tree, row) ==
  {pick \in [q.refs -> 1 .. MaxRows] :
     /\ \A ref \in q.refs : pick[ref] <= Len(tables[q.entity[ref]])
     /\ pick[q.expected] = row
     /\ \A i \in DOMAIN tree :
          LET e == tree[i] IN
          IF e.traversal = "forward" THEN Meets(e.rel, pick[e.from], pick[e.to])
                                     ELSE Meets(e.rel, pick[e.to], pick[e.from])}

KeepsGrain(q, tree) ==
  \A row \in DOMAIN tables[q.entity[q.expected]] :
    Cardinality(Joined(q, tree, row)) <= 1

(* Joining the tables along any plan returned, the first or an alternative,*)
(* repeats no row of the expected entity: what a plan promises of the data *)
(* (grain_compatible), from the measurements of each relationship alone.   *)
PlansKeepGrain ==
  Answered => \A n \in DOMAIN answer : KeepsGrain(request, answer[n])

(* A tree that reaches every ref from the start within the depth.          *)
Hops(q, tree, ref) ==
  LET Reach[n \in 0 .. q.depth] ==
        IF n = 0 THEN {q.start}
        ELSE Reach[n - 1] \cup
               {tree[i].to : i \in {j \in DOMAIN tree : tree[j].from \in Reach[n - 1]}}
  IN  ref \in Reach[q.depth]

(* Every plan joins each ref once, within max_depth joins from the start,  *)
(* and uses only relationships without a blocking finding (plan_join).     *)
PlansAreTrees ==
  Answered => \A n \in DOMAIN answer :
    /\ Len(answer[n]) = Cardinality(request.refs) - 1
    /\ \A ref \in request.refs : Hops(request, answer[n], ref)
    /\ \A i \in DOMAIN answer[n] : answer[n][i].rel \in Authorized

(* All trees the request could be answered with, edge by edge from the     *)
(* start: each joins one more ref to one that is there.                    *)
AllTrees(q) ==
  {tree \in [1 .. Cardinality(q.refs) - 1 -> CandidateEdges(q)] :
     /\ \A i \in DOMAIN tree :
          LET there == {q.start} \cup {tree[j].to : j \in 1 .. i - 1} IN
          tree[i].from \in there /\ tree[i].to \notin there
     /\ \A ref \in q.refs : Hops(q, tree, ref)}

(* A request is refused only if each tree of authorized joins within the   *)
(* depth is unsafe, unless there are more trees than plan_join looks at:   *)
(* it cuts their list before it drops the unsafe ones.                     *)
SafePlansAreFound ==
  Answered /\ answer = <<>> =>
    \/ request.entity[request.expected] \notin Keyed
    \/ \A tree \in AllTrees(request) : ~TreeIsSafe(request, tree)
    \/ Cardinality(AllTrees(request)) > TreeLimit

=============================================================================
