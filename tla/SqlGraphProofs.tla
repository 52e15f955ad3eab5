---------------------------- MODULE SqlGraphProofs ----------------------------
(***************************************************************************)
(* What the planner plans, proved for any catalog, any rows and any        *)
(* request: the trees it finds are all there are, and those it calls safe  *)
(* repeat no row of the expected entity. Its search has met all there is   *)
(* to be met when it ends.                                                 *)
(***************************************************************************)
EXTENDS SqlGraph, FiniteSetTheorems, FunctionTheorems, SequenceTheorems,
        WellFoundedInduction, TLAPS

-----------------------------------------------------------------------------
(* Counting and induction.                                                 *)

(* A set of numbers has a least one.                                       *)
LEMMA LeastIsThere ==
  ASSUME NEW S \in SUBSET Nat, S # {}
  PROVE  \E n \in S : \A m \in S : n <= m
<1> DEFINE R == OpToRel(<, Nat)
<1>1. IsWellFoundedOn(R, Nat)
  BY NatLessThanWellFounded
<1>2. PICK n \in S : \A m \in S : ~ (<<m, n>> \in R)
  <2> DEFINE T == S
  <2>1. T \subseteq Nat /\ T # {}
    OBVIOUS
  <2> HIDE DEF R, T
  <2>2. \E n \in T : \A m \in T : ~ (<<m, n>> \in R)
    BY <1>1, <2>1, WFMin
  <2>3. QED
    BY <2>2 DEF T
<1>3. \A m \in S : ~ (m < n) /\ m \in Nat
  BY <1>2 DEF OpToRel
<1> HIDE DEF R
<1>4. \A m \in S : n <= m
  BY <1>3
<1>5. QED
  BY <1>4

(* What holds at first and goes on from each number holds up to the last.  *)
LEMMA UpTo ==
  ASSUME NEW N \in Nat, NEW S, 0 \in S, \A k \in 0 .. N : k \in S /\ k < N => k + 1 \in S
  PROVE  \A k \in 0 .. N : k \in S
<1> DEFINE Wrong == {k \in 0 .. N : k \notin S}
<1> SUFFICES ASSUME Wrong # {}
             PROVE  FALSE
  OBVIOUS
<1>1. PICK k \in Wrong : \A m \in Wrong : k <= m
  <2>1. Wrong \in SUBSET Nat
    OBVIOUS
  <2> HIDE DEF Wrong
  <2>2. QED
    BY <2>1, LeastIsThere
<1>2. k \in 0 .. N /\ k \notin S /\ k # 0
  OBVIOUS
<1>3. k - 1 \in 0 .. N /\ ~ (k <= k - 1) /\ k - 1 < N /\ (k - 1) + 1 = k
  BY <1>2
<1>4. k - 1 \in S
  BY <1>1, <1>3
<1>5. k \in S
  BY <1>3, <1>4
<1>6. QED
  BY <1>2, <1>5

(* A set that is finite has at most one element when it counts one.        *)
LEMMA AtMostOne ==
  ASSUME NEW S, IsFiniteSet(S)
  PROVE  Cardinality(S) <= 1 <=> \A x, y \in S : x = y
<1>1. Cardinality(S) \in Nat
  BY FS_CardinalityType
<1>2. CASE Cardinality(S) = 0
  BY <1>2, FS_EmptySet
<1>3. CASE Cardinality(S) = 1
  BY <1>3, FS_Singleton
<1>4. CASE Cardinality(S) > 1
  <2>1. PICK x \in S : TRUE
    BY <1>4, FS_EmptySet
  <2>2. S # {x}
    BY <1>4, FS_Singleton
  <2>3. PICK y \in S : y # x
    BY <2>1, <2>2
  <2>4. QED
    BY <1>1, <1>4, <2>1, <2>3
<1>5. QED
  BY <1>1, <1>2, <1>3, <1>4

LEMMA FirstNumbers ==
  ASSUME NEW n \in Nat
  PROVE  IsFiniteSet(1 .. n) /\ Cardinality(1 .. n) = n
BY FS_Interval

(* What starts somewhere and goes on from each value can be counted as far *)
(* as is asked.                                                            *)
Iterated(f, a, g, n) == f = [k \in 0 .. n |-> IF k = 0 THEN a ELSE g[f[k - 1]]]

LEMMA Iterates ==
  ASSUME NEW T, NEW a \in T, NEW g \in [T -> T], NEW N \in Nat
  PROVE  \E f \in [0 .. N -> T] : Iterated(f, a, g, N)
<1> DEFINE There(n) == \E f \in [0 .. n -> T] : Iterated(f, a, g, n)
           Missing == {n \in Nat : ~ There(n)}
<1> SUFFICES ASSUME Missing # {}
             PROVE  FALSE
  OBVIOUS
<1>1. PICK n \in Missing : \A m \in Missing : n <= m
  <2>1. Missing \in SUBSET Nat
    OBVIOUS
  <2> HIDE DEF Missing
  <2>2. QED
    BY <2>1, LeastIsThere
<1>2. n \in Nat /\ \A m \in Nat : m < n => There(m)
  BY <1>1
<1>3. CASE n = 0
  <2> DEFINE f == [k \in 0 .. 0 |-> a]
  <2>1. \A k \in 0 .. 0 : k = 0
    OBVIOUS
  <2>2. f \in [0 .. 0 -> T] /\ Iterated(f, a, g, 0)
    BY <2>1 DEF Iterated
  <2>3. QED
    BY <1>1, <1>3, <2>2
<1>4. CASE n # 0
  <2>1. n - 1 \in Nat /\ n - 1 < n
    BY <1>2, <1>4
  <2>2. PICK h \in [0 .. (n - 1) -> T] : Iterated(h, a, g, n - 1)
    BY <1>2, <2>1
  <2>3. \A k \in 0 .. (n - 1) : h[k] = IF k = 0 THEN a ELSE g[h[k - 1]]
    BY <2>2 DEF Iterated
  <2> DEFINE f == [k \in 0 .. n |-> IF k = n THEN g[h[n - 1]] ELSE h[k]]
  <2>4. \A k \in 0 .. n : k # n => k \in 0 .. (n - 1)
    BY <1>2
  <2>5. \A k \in 0 .. n : k # 0 => k - 1 \in 0 .. n /\ k - 1 # n
    BY <1>2
  <2>6. \A k \in 0 .. n : f[k] = IF k = 0 THEN a ELSE g[f[k - 1]]
    <3> SUFFICES ASSUME NEW k \in 0 .. n
                 PROVE  f[k] = IF k = 0 THEN a ELSE g[f[k - 1]]
      OBVIOUS
    <3>1. CASE k = n
      BY <1>4, <2>5, <3>1
    <3>2. CASE k # n
      BY <2>3, <2>4, <2>5, <3>2
    <3>3. QED
      BY <3>1, <3>2
  <2>7. n - 1 \in 0 .. (n - 1)
    BY <1>2, <1>4
  <2>8. f \in [0 .. n -> T]
    BY <2>2, <2>4, <2>7
  <2>9. f = [k \in 0 .. n |-> f[k]]
    OBVIOUS
  <2> HIDE DEF f
  <2>10. Iterated(f, a, g, n)
    BY <2>6, <2>9 DEF Iterated
  <2>11. QED
    BY <1>1, <2>8, <2>10
<1>5. QED
  BY <1>3, <1>4

-----------------------------------------------------------------------------
(* Sorting.                                                                *)

(* A strict order of a set in which any two elements have their places.    *)
IsOrder(R, S) ==
  /\ \A x \in S : <<x, x>> \notin R
  /\ \A x, y \in S : x # y => <<x, y>> \in R \/ <<y, x>> \in R
  /\ \A x, y, z \in S : <<x, y>> \in R /\ <<y, z>> \in R => <<x, z>> \in R

Places(rank, S, R) == rank = [e \in S |-> Cardinality({f \in S : <<f, e>> \in R})]

LEMMA Ranks ==
  ASSUME NEW S, IsFiniteSet(S), NEW R, IsOrder(R, S), NEW rank, Places(rank, S, R)
  PROVE  /\ Cardinality(S) \in Nat
         /\ \A e \in S : rank[e] \in Nat /\ rank[e] < Cardinality(S)
         /\ \A e, f \in S : rank[e] = rank[f] => e = f
         /\ \A n \in 1 .. Cardinality(S) : \E e \in S : rank[e] + 1 = n
<1> DEFINE Below(e) == {f \in S : <<f, e>> \in R}
           c == Cardinality(S)
<1>1. c \in Nat
  BY FS_CardinalityType
<1>2. \A e \in S : IsFiniteSet(Below(e)) /\ Cardinality(Below(e)) \in Nat
  <2> SUFFICES ASSUME NEW e \in S
               PROVE  IsFiniteSet(Below(e)) /\ Cardinality(Below(e)) \in Nat
    OBVIOUS
  <2>1. Below(e) \subseteq S
    OBVIOUS
  <2> HIDE DEF Below
  <2>2. QED
    BY <2>1, FS_Subset, FS_CardinalityType
<1>3. \A e \in S : Cardinality(Below(e)) < c
  <2> SUFFICES ASSUME NEW e \in S
               PROVE  Cardinality(Below(e)) < c
    OBVIOUS
  <2>1. Below(e) \subseteq S /\ e \notin Below(e)
    BY DEF IsOrder
  <2> HIDE DEF Below
  <2>2. Cardinality(Below(e)) <= c /\ (Cardinality(Below(e)) = c => Below(e) = S)
    BY <2>1, FS_Subset
  <2>3. QED
    BY <1>1, <1>2, <2>1, <2>2
<1>4. \A e, f \in S : <<e, f>> \in R => Cardinality(Below(e)) < Cardinality(Below(f))
  <2> SUFFICES ASSUME NEW e \in S, NEW f \in S, <<e, f>> \in R
               PROVE  Cardinality(Below(e)) < Cardinality(Below(f))
    OBVIOUS
  <2>1. Below(e) \subseteq Below(f) /\ e \in Below(f) /\ e \notin Below(e)
    BY DEF IsOrder
  <2>2. IsFiniteSet(Below(f)) /\ Cardinality(Below(f)) \in Nat /\ Cardinality(Below(e)) \in Nat
    BY <1>2
  <2> HIDE DEF Below
  <2>3. /\ Cardinality(Below(e)) <= Cardinality(Below(f))
        /\ Cardinality(Below(e)) = Cardinality(Below(f)) => Below(e) = Below(f)
    BY <2>1, <2>2, FS_Subset
  <2>4. QED
    BY <2>1, <2>2, <2>3
<1>5. \A e \in S : rank[e] = Cardinality(Below(e))
  BY DEF Places
<1> HIDE DEF Below
<1>6. \A e, f \in S : rank[e] = rank[f] => e = f
  <2> SUFFICES ASSUME NEW e \in S, NEW f \in S, rank[e] = rank[f], e # f
               PROVE  FALSE
    OBVIOUS
  <2>1. <<e, f>> \in R \/ <<f, e>> \in R
    BY DEF IsOrder
  <2>2. Cardinality(Below(e)) < Cardinality(Below(f)) \/ Cardinality(Below(f)) < Cardinality(Below(e))
    BY <1>4, <2>1
  <2>3. QED
    BY <1>2, <1>5, <2>2
<1>7. \A n \in 1 .. c : \E e \in S : rank[e] + 1 = n
  <2> DEFINE place == [e \in S |-> rank[e] + 1]
  <2>1. place \in [S -> 1 .. c]
    BY <1>1, <1>2, <1>3, <1>5
  <2>2. \A e, f \in S : place[e] = place[f] => e = f
    <3> SUFFICES ASSUME NEW e \in S, NEW f \in S, place[e] = place[f]
                 PROVE  e = f
      OBVIOUS
    <3>1. rank[e] \in Nat /\ rank[f] \in Nat /\ rank[e] + 1 = rank[f] + 1
      BY <1>2, <1>5
    <3>2. QED
      BY <1>6, <3>1
  <2>3. IsFiniteSet(1 .. c) /\ Cardinality(1 .. c) = c
    BY <1>1, FirstNumbers
  <2>4. \A e \in S : place[e] = rank[e] + 1
    OBVIOUS
  <2> HIDE DEF place
  <2>5. place \in Injection(S, 1 .. c)
    BY <2>1, <2>2 DEF Injection, IsInjective
  <2>6. place \in Surjection(S, 1 .. c)
    BY <2>3, <2>5, FS_Injection
  <2>7. QED
    BY <2>4, <2>6 DEF Surjection
<1>8. QED
  BY <1>1, <1>2, <1>3, <1>5, <1>6, <1>7

(* Sequences of one length in the order of their first difference.         *)
Lexical(R, k, l) ==
  \E i \in DOMAIN k : <<k[i], l[i]>> \in R /\ \A j \in 1 .. i - 1 : k[j] = l[j]

LEMMA LexicalOrders ==
  ASSUME NEW n \in Nat, NEW T, NEW R, IsOrder(R, T),
         NEW k \in [1 .. n -> T], NEW l \in [1 .. n -> T], NEW m \in [1 .. n -> T]
  PROVE  /\ ~ Lexical(R, k, k)
         /\ k # l => Lexical(R, k, l) \/ Lexical(R, l, k)
         /\ Lexical(R, k, l) /\ Lexical(R, l, m) => Lexical(R, k, m)
<1>1. ~ Lexical(R, k, k)
  BY DEF Lexical, IsOrder
<1>2. ASSUME k # l
      PROVE  Lexical(R, k, l) \/ Lexical(R, l, k)
  <2> DEFINE D == {i \in 1 .. n : k[i] # l[i]}
  <2>1. D \in SUBSET Nat /\ D # {}
    BY <1>2
  <2>2. PICK i \in D : \A j \in D : i <= j
    <3> HIDE DEF D
    <3>1. QED
      BY <2>1, LeastIsThere
  <2>3. i \in 1 .. n /\ k[i] # l[i] /\ k[i] \in T /\ l[i] \in T
    OBVIOUS
  <2>4. \A j \in 1 .. i - 1 : k[j] = l[j]
    <3> SUFFICES ASSUME NEW j \in 1 .. i - 1, k[j] # l[j]
                 PROVE  FALSE
      OBVIOUS
    <3>1. j \in D /\ ~ (i <= j)
      BY <2>3
    <3>2. QED
      BY <2>2, <3>1
  <2>5. <<k[i], l[i]>> \in R \/ <<l[i], k[i]>> \in R
    BY <2>3 DEF IsOrder
  <2>6. DOMAIN k = 1 .. n /\ DOMAIN l = 1 .. n
    OBVIOUS
  <2>7. QED
    BY <2>3, <2>4, <2>5, <2>6 DEF Lexical
<1>3. ASSUME Lexical(R, k, l), Lexical(R, l, m)
      PROVE  Lexical(R, k, m)
  <2>1. PICK i \in 1 .. n : <<k[i], l[i]>> \in R /\ \A j \in 1 .. i - 1 : k[j] = l[j]
    BY <1>3 DEF Lexical
  <2>2. PICK h \in 1 .. n : <<l[h], m[h]>> \in R /\ \A j \in 1 .. h - 1 : l[j] = m[j]
    BY <1>3 DEF Lexical
  <2>3. DOMAIN k = 1 .. n
    OBVIOUS
  <2>4. CASE i < h
    <3>1. i \in 1 .. h - 1 /\ \A j \in 1 .. i - 1 : j \in 1 .. h - 1
      BY <2>4
    <3>2. <<k[i], m[i]>> \in R /\ \A j \in 1 .. i - 1 : k[j] = m[j]
      BY <2>1, <2>2, <3>1
    <3>3. QED
      BY <2>3, <3>2 DEF Lexical
  <2>5. CASE h < i
    <3>1. h \in 1 .. i - 1 /\ \A j \in 1 .. h - 1 : j \in 1 .. i - 1
      BY <2>5
    <3>2. <<k[h], m[h]>> \in R /\ \A j \in 1 .. h - 1 : k[j] = m[j]
      BY <2>1, <2>2, <3>1
    <3>3. QED
      BY <2>3, <3>2 DEF Lexical
  <2>6. CASE h = i
    <3>1. k[i] \in T /\ l[i] \in T /\ m[i] \in T
      OBVIOUS
    <3>2. <<k[i], m[i]>> \in R /\ \A j \in 1 .. i - 1 : k[j] = m[j]
      BY <2>1, <2>2, <2>6, <3>1 DEF IsOrder
    <3>3. QED
      BY <2>3, <3>2 DEF Lexical
  <2>7. QED
    BY <2>4, <2>5, <2>6
<1>4. QED
  BY <1>1, <1>2, <1>3

(* Numbers are ordered, and so are keys made of them.                      *)
Smaller == {pair \in Nat \X Nat : pair[1] < pair[2]}

LEMMA KeysAreOrdered ==
  ASSUME NEW n \in Nat,
         NEW k \in [1 .. n -> Nat], NEW l \in [1 .. n -> Nat], NEW m \in [1 .. n -> Nat]
  PROVE  /\ ~ Lower(k, k)
         /\ k # l => Lower(k, l) \/ Lower(l, k)
         /\ Lower(k, l) /\ Lower(l, m) => Lower(k, m)
<1>1. \A x, y \in Nat : <<x, y>> \in Smaller <=> x < y
  BY DEF Smaller
<1>2. IsOrder(Smaller, Nat)
  BY <1>1 DEF IsOrder
<1>3. ASSUME NEW a \in [1 .. n -> Nat], NEW b \in [1 .. n -> Nat]
      PROVE  Lower(a, b) <=> Lexical(Smaller, a, b)
  <2>1. \A i \in DOMAIN a : a[i] < b[i] <=> <<a[i], b[i]>> \in Smaller
    BY <1>1
  <2>2. QED
    BY <2>1 DEF Lower, Lexical
<1>4. QED
  BY <1>2, <1>3, LexicalOrders

-----------------------------------------------------------------------------
(* Candidate edges.                                                        *)

LEMMA RequestsAreFinite ==
  ASSUME NEW q \in Requests
  PROVE  /\ q.refs \in SUBSET Nat /\ IsFiniteSet(q.refs)
         /\ Cardinality(q.refs) \in Nat /\ Cardinality(q.refs) - 1 \in Nat
         /\ q.entity \in [q.refs -> Entities]
         /\ q.start \in q.refs /\ q.expected \in q.refs /\ q.depth \in Nat
BY PlannerConstants

(* What is known of an edge by its shape.                                  *)
IsEdge(q, e) ==
  /\ e.rel \in Relationships
  /\ e.from \in q.refs /\ e.to \in q.refs /\ e.from # e.to
  /\ e.traversal \in {"forward", "reverse"}
  /\ e = IF e.traversal = "forward" THEN Forward(e.rel, e.from, e.to)
                                    ELSE Backward(e.rel, e.from, e.to)
  /\ LET child == IF e.traversal = "forward" THEN e.from ELSE e.to
         parent == IF e.traversal = "forward" THEN e.to ELSE e.from
     IN  q.entity[child] = Catalog[e.rel].child /\ q.entity[parent] = Catalog[e.rel].parent

LEMMA CandidatesAreEdges ==
  ASSUME NEW q \in Requests, NEW e \in CandidateEdges(q)
  PROVE  IsEdge(q, e) /\ e.rel \in Authorized
<1> DEFINE Crosses(r) == {pair \in q.refs \X q.refs :
                           /\ pair[1] # pair[2]
                           /\ q.entity[pair[1]] = Catalog[r].child
                           /\ q.entity[pair[2]] = Catalog[r].parent}
<1>1. PICK r \in Authorized : \E pair \in Crosses(r) :
        e = Forward(r, pair[1], pair[2]) \/ e = Backward(r, pair[2], pair[1])
  BY DEF CandidateEdges
<1>2. PICK pair \in Crosses(r) :
        e = Forward(r, pair[1], pair[2]) \/ e = Backward(r, pair[2], pair[1])
  BY <1>1
<1>3. /\ pair[1] \in q.refs /\ pair[2] \in q.refs /\ pair[1] # pair[2]
      /\ q.entity[pair[1]] = Catalog[r].child /\ q.entity[pair[2]] = Catalog[r].parent
  OBVIOUS
<1>4. r \in Relationships
  BY DEF Authorized
<1> HIDE DEF Crosses
<1>5. CASE e = Forward(r, pair[1], pair[2])
  <2>1. e.rel = r /\ e.from = pair[1] /\ e.to = pair[2] /\ e.traversal = "forward"
    BY <1>5 DEF Forward
  <2>2. QED
    BY <1>1, <1>3, <1>4, <1>5, <2>1 DEF IsEdge
<1>6. CASE e = Backward(r, pair[2], pair[1])
  <2>1. e.rel = r /\ e.from = pair[2] /\ e.to = pair[1] /\ e.traversal = "reverse"
    BY <1>6 DEF Backward
  <2>2. QED
    BY <1>1, <1>3, <1>4, <1>6, <2>1 DEF IsEdge
<1>7. QED
  BY <1>2, <1>5, <1>6

(* There are finitely many of them.                                        *)
LEMMA CandidatesAreFinite ==
  ASSUME NEW q \in Requests
  PROVE  IsFiniteSet(CandidateEdges(q))
<1> DEFINE E == CandidateEdges(q)
           T == (Relationships \X {"forward", "reverse"}) \X (q.refs \X q.refs)
           name == [e \in E |-> <<<<e.rel, e.traversal>>, <<e.from, e.to>>>>]
<1>1. \A e \in E : IsEdge(q, e)
  BY CandidatesAreEdges
<1>2. name \in [E -> T]
  <2>1. \A e \in E : <<<<e.rel, e.traversal>>, <<e.from, e.to>>>> \in T
    BY <1>1 DEF IsEdge
  <2> HIDE DEF E, T
  <2>2. QED
    BY <2>1
<1>3. \A e, f \in E : name[e] = name[f] => e = f
  BY <1>1 DEF IsEdge
<1>4. IsFiniteSet(T)
  <2>1. IsFiniteSet(Relationships) /\ IsFiniteSet(q.refs)
    BY PlannerConstants
  <2>2. IsFiniteSet({"forward"} \cup {"reverse"})
    BY FS_Singleton, FS_Union
  <2>3. {"forward"} \cup {"reverse"} = {"forward", "reverse"}
    OBVIOUS
  <2>4. IsFiniteSet(Relationships \X {"forward", "reverse"}) /\ IsFiniteSet(q.refs \X q.refs)
    BY <2>1, <2>2, <2>3, FS_Product
  <2>5. QED
    BY <2>4, FS_Product
<1>5. name \in Injection(E, T)
  <2> HIDE DEF E, T
  <2>1. DOMAIN name = E
    OBVIOUS
  <2> HIDE DEF name
  <2>2. QED
    BY <1>2, <1>3, <2>1 DEF Injection, IsInjective
<1> HIDE DEF E, T, name
<1>6. IsFiniteSet(E)
  BY <1>4, <1>5, FS_Injection
<1>7. QED
  BY <1>6 DEF E

(* The order of the candidates.                                            *)
Earlier(q) == {pair \in CandidateEdges(q) \X CandidateEdges(q) : Precedes(pair[1], pair[2])}

LEMMA CandidatesAreOrdered ==
  ASSUME NEW q \in Requests
  PROVE  IsOrder(Earlier(q), CandidateEdges(q))
<1> DEFINE E == CandidateEdges(q)
<1>1. \A e \in E : CandidateKey(e) \in [1 .. 6 -> Nat]
  <2> SUFFICES ASSUME NEW e \in E
               PROVE  CandidateKey(e) \in [1 .. 6 -> Nat]
    OBVIOUS
  <2>1. IsEdge(q, e)
    BY CandidatesAreEdges
  <2>2. e.rel \in Nat /\ e.from \in Nat /\ e.to \in Nat
    BY <2>1, PlannerConstants DEF IsEdge
  <2> DEFINE a == IF Catalog[e.rel].prov = "curated" THEN 0 ELSE 1
             b == IF Fanout(e) THEN 1 ELSE 0
             c == IF e.traversal = "forward" THEN 0 ELSE 1
  <2>3. a \in Nat /\ b \in Nat /\ c \in Nat
    OBVIOUS
  <2>4. CandidateKey(e) = <<a, b, e.rel, e.from, e.to, c>>
    BY DEF CandidateKey
  <2> HIDE DEF a, b, c
  <2>5. <<a, b, e.rel, e.from, e.to, c>> \in [1 .. 6 -> Nat]
    BY <2>2, <2>3
  <2>6. QED
    BY <2>4, <2>5
<1>2. \A e, f \in E : CandidateKey(e) = CandidateKey(f) => e = f
  <2> SUFFICES ASSUME NEW e \in E, NEW f \in E, CandidateKey(e) = CandidateKey(f)
               PROVE  e = f
    OBVIOUS
  <2>1. IsEdge(q, e) /\ IsEdge(q, f)
    BY CandidatesAreEdges
  <2>2. \A g : CandidateKey(g)[3] = g.rel /\ CandidateKey(g)[4] = g.from
               /\ CandidateKey(g)[5] = g.to
               /\ CandidateKey(g)[6] = IF g.traversal = "forward" THEN 0 ELSE 1
    BY DEF CandidateKey
  <2>3. e.rel = f.rel /\ e.from = f.from /\ e.to = f.to
        /\ (e.traversal = "forward" <=> f.traversal = "forward")
    BY <2>2
  <2>4. QED
    BY <2>1, <2>3 DEF IsEdge
<1>3. \A e, f \in E : <<e, f>> \in Earlier(q) <=> Lower(CandidateKey(e), CandidateKey(f))
  BY DEF Earlier, Precedes
<1> HIDE DEF E
<1>4. \A e \in E : ~ Lower(CandidateKey(e), CandidateKey(e))
  BY <1>1, KeysAreOrdered
<1>5. \A e, f \in E : e # f => \/ Lower(CandidateKey(e), CandidateKey(f))
                              \/ Lower(CandidateKey(f), CandidateKey(e))
  BY <1>1, <1>2, KeysAreOrdered
<1>6. \A e, f, g \in E : /\ Lower(CandidateKey(e), CandidateKey(f))
                         /\ Lower(CandidateKey(f), CandidateKey(g))
                         => Lower(CandidateKey(e), CandidateKey(g))
  BY <1>1, KeysAreOrdered
<1>7. IsOrder(Earlier(q), E)
  BY <1>3, <1>4, <1>5, <1>6 DEF IsOrder
<1>8. QED
  BY <1>7 DEF E

-----------------------------------------------------------------------------
(* The trees that grow from the start.                                     *)

Within(q, candidates) == \A e \in candidates : e.from \in q.refs /\ e.to \in q.refs

(* The refs met by the first n edges of a tree.                            *)
MetBy(q, tree, n) == {q.start} \cup {tree[j].to : j \in 1 .. n}

(* Trees of n edges with the distances of their refs.                      *)
IsGrowth(q, candidates, n, depths, tree) ==
  /\ tree \in [1 .. n -> candidates]
  /\ depths \in [MetBy(q, tree, n) -> Nat]
  /\ depths[q.start] = 0
  /\ \A i \in 1 .. n :
       /\ tree[i].from \in MetBy(q, tree, i - 1) /\ tree[i].to \notin MetBy(q, tree, i - 1)
       /\ depths[tree[i].to] = depths[tree[i].from] + 1
       /\ depths[tree[i].to] <= q.depth

Growths(q, candidates) ==
  [depths : UNION {[some -> Nat] : some \in SUBSET q.refs}, tree : Seq(candidates)]

Seedling(q) == {[depths |-> [ref \in {q.start} |-> 0], tree |-> <<>>]}

AreGrown(f, q, candidates, n) ==
  f = [k \in 0 .. n |-> IF k = 0 THEN Seedling(q) ELSE Larger(q, candidates, f[k - 1])]

LEMMA ReachedIsTyped ==
  ASSUME NEW q \in Requests, NEW some \in SUBSET q.refs, NEW depths \in [some -> Nat],
         NEW e, e.to \in q.refs, Open(q, depths, e)
  PROVE  /\ Reached(depths, e) \in [some \cup {e.to} -> Nat]
         /\ some \cup {e.to} \in SUBSET q.refs
         /\ e.from \in some /\ e.to \notin some
<1>1. e.from \in some /\ e.to \notin some
  BY DEF Open
<1>2. depths[e.from] + 1 \in Nat
  BY <1>1
<1>3. QED
  BY <1>1, <1>2 DEF Reached

LEMMA LargerIsTyped ==
  ASSUME NEW q \in Requests, NEW candidates, Within(q, candidates),
         NEW growing \in SUBSET Growths(q, candidates)
  PROVE  Larger(q, candidates, growing) \in SUBSET Growths(q, candidates)
<1> SUFFICES ASSUME NEW g \in growing, NEW e \in candidates, Open(q, g.depths, e)
             PROVE  [depths |-> Reached(g.depths, e), tree |-> Append(g.tree, e)]
                      \in Growths(q, candidates)
  BY DEF Larger
<1>1. g \in Growths(q, candidates) /\ e.to \in q.refs
  BY DEF Within
<1>2. PICK some \in SUBSET q.refs : g.depths \in [some -> Nat]
  BY <1>1 DEF Growths
<1>3. g.tree \in Seq(candidates)
  BY <1>1 DEF Growths
<1>4. Append(g.tree, e) \in Seq(candidates)
  BY <1>3, AppendProperties
<1>5. Reached(g.depths, e) \in [some \cup {e.to} -> Nat] /\ some \cup {e.to} \in SUBSET q.refs
  BY <1>1, <1>2, ReachedIsTyped
<1>6. QED
  BY <1>4, <1>5 DEF Growths

LEMMA SeedlingIsTyped ==
  ASSUME NEW q \in Requests, NEW candidates
  PROVE  Seedling(q) \in SUBSET Growths(q, candidates)
<1>1. {q.start} \in SUBSET q.refs
  BY RequestsAreFinite
<1>2. [ref \in {q.start} |-> 0] \in [{q.start} -> Nat]
  OBVIOUS
<1>3. <<>> \in Seq(candidates)
  BY EmptySeq
<1> DEFINE D == UNION {[some -> Nat] : some \in SUBSET q.refs}
           S == Seq(candidates)
<1>4. [ref \in {q.start} |-> 0] \in D
  BY <1>1, <1>2
<1> HIDE DEF D, S
<1>5. [depths |-> [ref \in {q.start} |-> 0], tree |-> <<>>] \in [depths : D, tree : S]
  BY <1>3, <1>4 DEF S
<1>6. QED
  BY <1>5 DEF Growths, Seedling, D, S

LEMMA GrowIsThere ==
  ASSUME NEW q \in Requests, NEW candidates, Within(q, candidates)
  PROVE  \E f : /\ AreGrown(f, q, candidates, Cardinality(q.refs) - 1)
                /\ Grow(q, candidates) = {g.tree : g \in f[Cardinality(q.refs) - 1]}
<1> DEFINE N == Cardinality(q.refs) - 1
           T == SUBSET Growths(q, candidates)
           larger == [growing \in T |-> Larger(q, candidates, growing)]
<1>1. N \in Nat
  BY RequestsAreFinite
<1>2. Seedling(q) \in T
  BY SeedlingIsTyped
<1>3. larger \in [T -> T]
  BY LargerIsTyped
<1>4. PICK f \in [0 .. N -> T] : Iterated(f, Seedling(q), larger, N)
  <2> HIDE DEF N, T, larger
  <2>1. QED
    BY <1>1, <1>2, <1>3, Iterates
<1>5. \A k \in 0 .. N : f[k] = IF k = 0 THEN Seedling(q) ELSE Larger(q, candidates, f[k - 1])
  <2>1. \A k \in 0 .. N : k # 0 => k - 1 \in 0 .. N
    BY <1>1
  <2>2. \A k \in 0 .. N : f[k] = IF k = 0 THEN Seedling(q) ELSE larger[f[k - 1]]
    BY <1>4 DEF Iterated
  <2>3. \A k \in 0 .. N : k # 0 => larger[f[k - 1]] = Larger(q, candidates, f[k - 1])
    BY <1>4, <2>1
  <2>4. QED
    BY <2>2, <2>3
<1>6. f = [k \in 0 .. N |-> f[k]]
  BY <1>4
<1> HIDE DEF T, larger
<1>7. AreGrown(f, q, candidates, N)
  BY <1>5, <1>6 DEF AreGrown
<1> DEFINE g == CHOOSE h : AreGrown(h, q, candidates, N)
<1>8. AreGrown(g, q, candidates, N)
  BY <1>7
<1>9. Grow(q, candidates) = {h.tree : h \in g[N]}
  BY DEF Grow, AreGrown, Seedling, N
<1>10. QED
  BY <1>8, <1>9

(* A tree and one more edge.                                               *)
IsLonger(longer, tree, e, n, candidates) ==
  /\ tree \in [1 .. n -> candidates] /\ e \in candidates
  /\ longer \in [1 .. n + 1 -> candidates]
  /\ \A i \in 1 .. n : longer[i] = tree[i]
  /\ longer[n + 1] = e

LEMMA AppendIsLonger ==
  ASSUME NEW candidates, NEW n \in Nat, NEW tree \in [1 .. n -> candidates], NEW e \in candidates
  PROVE  IsLonger(Append(tree, e), tree, e, n, candidates)
<1>1. tree \in Seq(candidates)
  BY SeqDef
<1>2. Len(tree) = n
  BY <1>1, LenProperties
<1>3. /\ Append(tree, e) \in Seq(candidates) /\ Len(Append(tree, e)) = n + 1
      /\ \A i \in 1 .. n : Append(tree, e)[i] = tree[i]
      /\ Append(tree, e)[n + 1] = e
  BY <1>1, <1>2, AppendProperties
<1>4. PICK longer : longer = Append(tree, e)
  OBVIOUS
<1>5. longer \in [1 .. n + 1 -> candidates]
  <2>1. longer \in Seq(candidates) /\ Len(longer) = n + 1
    BY <1>3, <1>4
  <2>2. QED
    BY <2>1, LenProperties
<1>6. IsLonger(longer, tree, e, n, candidates)
  BY <1>3, <1>4, <1>5 DEF IsLonger
<1>7. QED
  BY <1>4, <1>6

LEMMA LongerIsAppend ==
  ASSUME NEW candidates, NEW n \in Nat, NEW longer, NEW tree, NEW e,
         IsLonger(longer, tree, e, n, candidates)
  PROVE  longer = Append(tree, e)
<1>1. /\ tree \in [1 .. n -> candidates] /\ e \in candidates
      /\ longer \in [1 .. n + 1 -> candidates]
      /\ \A i \in 1 .. n : longer[i] = tree[i]
      /\ longer[n + 1] = e
  BY DEF IsLonger
<1>2. IsLonger(Append(tree, e), tree, e, n, candidates)
  BY <1>1, AppendIsLonger
<1>3. PICK other : other = Append(tree, e)
  OBVIOUS
<1>4. /\ other \in [1 .. n + 1 -> candidates]
      /\ \A i \in 1 .. n : other[i] = tree[i]
      /\ other[n + 1] = e
  BY <1>2, <1>3 DEF IsLonger
<1>5. \A i \in 1 .. n + 1 : other[i] = longer[i]
  <2>1. \A i \in 1 .. n + 1 : i \in 1 .. n \/ i = n + 1
    OBVIOUS
  <2>2. QED
    BY <1>1, <1>4, <2>1
<1>6. QED
  BY <1>1, <1>3, <1>4, <1>5

LEMMA MetByAsBefore ==
  ASSUME NEW q, NEW candidates, NEW n \in Nat, NEW longer, NEW tree, NEW e,
         IsLonger(longer, tree, e, n, candidates), NEW k \in 0 .. n
  PROVE  MetBy(q, longer, k) = MetBy(q, tree, k)
<1>1. \A j \in 1 .. k : longer[j] = tree[j]
  BY DEF IsLonger
<1>2. {longer[j].to : j \in 1 .. k} = {tree[j].to : j \in 1 .. k}
  BY <1>1
<1>3. QED
  BY <1>2 DEF MetBy

LEMMA MetByLonger ==
  ASSUME NEW q, NEW candidates, NEW n \in Nat, NEW longer, NEW tree, NEW e,
         IsLonger(longer, tree, e, n, candidates)
  PROVE  /\ \A k \in 0 .. n : MetBy(q, longer, k) = MetBy(q, tree, k)
         /\ MetBy(q, longer, n + 1) = MetBy(q, tree, n) \cup {e.to}
<1>1. \A k \in 0 .. n : MetBy(q, longer, k) = MetBy(q, tree, k)
  BY MetByAsBefore
<1>2. 1 .. n + 1 = 1 .. n \cup {n + 1} /\ n \in 0 .. n
  OBVIOUS
<1>3. {longer[j].to : j \in 1 .. n + 1} = {longer[j].to : j \in 1 .. n} \cup {e.to}
  BY <1>2 DEF IsLonger
<1>4. MetBy(q, longer, n + 1) = MetBy(q, longer, n) \cup {e.to}
  BY <1>3 DEF MetBy
<1>5. QED
  BY <1>1, <1>2, <1>4

LEMMA MetByGrows ==
  ASSUME NEW q, NEW tree, NEW n \in Nat, NEW k \in 0 .. n
  PROVE  MetBy(q, tree, k) \subseteq MetBy(q, tree, n) /\ q.start \in MetBy(q, tree, k)
<1>1. \A j \in 1 .. k : j \in 1 .. n
  OBVIOUS
<1>2. QED
  BY <1>1 DEF MetBy

LEMMA LongerGrowth ==
  ASSUME NEW q \in Requests, NEW candidates, NEW n \in Nat, NEW depths, NEW tree, NEW e \in candidates,
         IsGrowth(q, candidates, n, depths, tree), Open(q, depths, e)
  PROVE  IsGrowth(q, candidates, n + 1, Reached(depths, e), Append(tree, e))
<1> DEFINE met == MetBy(q, tree, n)
           further == Reached(depths, e)
<1>1. PICK longer : longer = Append(tree, e)
  OBVIOUS
<1>2. /\ tree \in [1 .. n -> candidates]
      /\ depths \in [met -> Nat] /\ depths[q.start] = 0
      /\ \A i \in 1 .. n :
           /\ tree[i].from \in MetBy(q, tree, i - 1) /\ tree[i].to \notin MetBy(q, tree, i - 1)
           /\ depths[tree[i].to] = depths[tree[i].from] + 1
           /\ depths[tree[i].to] <= q.depth
  BY DEF IsGrowth
<1>3. IsLonger(longer, tree, e, n, candidates)
  BY <1>1, <1>2, AppendIsLonger
<1>4. /\ \A i \in 1 .. n : longer[i] = tree[i]
      /\ longer[n + 1] = e /\ longer \in [1 .. n + 1 -> candidates]
  BY <1>3 DEF IsLonger
<1>5. /\ \A k \in 0 .. n : MetBy(q, longer, k) = MetBy(q, tree, k)
      /\ MetBy(q, longer, n + 1) = met \cup {e.to}
  <2> HIDE DEF met, further
  <2>1. ASSUME NEW k \in 0 .. n
        PROVE  MetBy(q, longer, k) = MetBy(q, tree, k)
    BY <1>3, MetByAsBefore
  <2>2. MetBy(q, longer, n + 1) = MetBy(q, tree, n) \cup {e.to}
    BY <1>3, MetByLonger
  <2>3. QED
    BY <2>1, <2>2 DEF met
<1>6. e.from \in met /\ e.to \notin met /\ depths[e.from] + 1 <= q.depth
  BY <1>2 DEF Open
<1>7. /\ further \in [met \cup {e.to} -> Nat]
      /\ \A ref \in met : further[ref] = depths[ref]
      /\ further[e.to] = depths[e.from] + 1
  BY <1>2, <1>6 DEF Reached
<1>8. q.start \in met
  BY DEF MetBy
<1> HIDE DEF met, further
<1>9. ASSUME NEW i \in 1 .. n + 1
      PROVE  /\ longer[i].from \in MetBy(q, longer, i - 1) /\ longer[i].to \notin MetBy(q, longer, i - 1)
             /\ further[longer[i].to] = further[longer[i].from] + 1
             /\ further[longer[i].to] <= q.depth
  <2>1. CASE i \in 1 .. n
    <3>1. i - 1 \in 0 .. n /\ longer[i] = tree[i]
      BY <1>4, <2>1
    <3>2. MetBy(q, tree, i - 1) \subseteq met
      BY <3>1, MetByGrows DEF met
    <3>3. tree[i].to \in met
      BY <2>1 DEF met, MetBy
    <3>4. QED
      BY <1>2, <1>5, <1>7, <2>1, <3>1, <3>2, <3>3
  <2>2. CASE i = n + 1
    <3>1. i - 1 = n /\ n \in 0 .. n /\ longer[i] = e
      BY <1>4, <2>2
    <3>2. MetBy(q, longer, i - 1) = met
      BY <1>5, <3>1 DEF met
    <3>3. QED
      BY <1>6, <1>7, <3>1, <3>2
  <2>3. QED
    BY <2>1, <2>2
<1>10. IsGrowth(q, candidates, n + 1, further, longer)
  BY <1>2, <1>4, <1>5, <1>7, <1>8, <1>9 DEF IsGrowth
<1>11. QED
  BY <1>1, <1>10 DEF further

(* A growth is a smaller one and its last edge.                            *)
IsLast(q, candidates, before, shorter, e, depths, tree) ==
  /\ e \in candidates /\ Open(q, before, e)
  /\ depths = Reached(before, e) /\ tree = Append(shorter, e)

LEMMA ShorterGrowth ==
  ASSUME NEW q \in Requests, NEW candidates, NEW n \in Nat, NEW depths, NEW tree,
         IsGrowth(q, candidates, n + 1, depths, tree)
  PROVE  \E before, shorter :
           IsGrowth(q, candidates, n, before, shorter)
             /\ IsLast(q, candidates, before, shorter, tree[n + 1], depths, tree)
<1> DEFINE shorter == [i \in 1 .. n |-> tree[i]]
           e == tree[n + 1]
           met == MetBy(q, shorter, n)
           before == [ref \in met |-> depths[ref]]
<1>1. /\ tree \in [1 .. n + 1 -> candidates]
      /\ depths \in [MetBy(q, tree, n + 1) -> Nat] /\ depths[q.start] = 0
      /\ \A i \in 1 .. n + 1 :
           /\ tree[i].from \in MetBy(q, tree, i - 1) /\ tree[i].to \notin MetBy(q, tree, i - 1)
           /\ depths[tree[i].to] = depths[tree[i].from] + 1
           /\ depths[tree[i].to] <= q.depth
  BY DEF IsGrowth
<1>2. IsLonger(tree, shorter, e, n, candidates)
  <2>1. shorter \in [1 .. n -> candidates] /\ e \in candidates
    BY <1>1
  <2>2. QED
    BY <1>1, <2>1 DEF IsLonger
<1>3. tree = Append(shorter, e)
  BY <1>2, LongerIsAppend
<1>4. /\ \A k \in 0 .. n : MetBy(q, tree, k) = MetBy(q, shorter, k)
      /\ MetBy(q, tree, n + 1) = met \cup {e.to}
  <2> HIDE DEF met, shorter, e
  <2>1. \A k \in 0 .. n : MetBy(q, tree, k) = MetBy(q, shorter, k)
    BY <1>2, MetByLonger
  <2>2. MetBy(q, tree, n + 1) = MetBy(q, shorter, n) \cup {e.to}
    BY <1>2, MetByLonger
  <2>3. QED
    BY <2>1, <2>2 DEF met
<1>5. /\ \A i \in 1 .. n : tree[i] = shorter[i]
      /\ shorter \in [1 .. n -> candidates] /\ e \in candidates
  BY <1>2 DEF IsLonger
<1>6. before \in [met -> Nat] /\ \A ref \in met : before[ref] = depths[ref]
  BY <1>1, <1>4
<1>7. n + 1 \in 1 .. n + 1 /\ (n + 1) - 1 = n /\ n \in 0 .. n
  OBVIOUS
<1>8. /\ e.from \in met /\ e.to \notin met
      /\ depths[e.to] = depths[e.from] + 1 /\ depths[e.to] <= q.depth
  BY <1>1, <1>4, <1>7
<1>9. q.start \in met
  BY DEF MetBy
<1>10. DOMAIN before = met
  OBVIOUS
<1> HIDE DEF met, before, shorter, e
<1>11. Open(q, before, e)
  BY <1>6, <1>8, <1>10 DEF Open
<1>12. depths = Reached(before, e)
  <2>1. DOMAIN depths = met \cup {e.to} /\ depths = [ref \in DOMAIN depths |-> depths[ref]]
    BY <1>1, <1>4
  <2>2. \A ref \in met \cup {e.to} :
          depths[ref] = IF ref = e.to THEN before[e.from] + 1 ELSE before[ref]
    BY <1>6, <1>8
  <2>3. QED
    BY <1>10, <2>1, <2>2 DEF Reached
<1>13. ASSUME NEW i \in 1 .. n
       PROVE  /\ shorter[i].from \in MetBy(q, shorter, i - 1) /\ shorter[i].to \notin MetBy(q, shorter, i - 1)
              /\ before[shorter[i].to] = before[shorter[i].from] + 1
              /\ before[shorter[i].to] <= q.depth
  <2>1. i - 1 \in 0 .. n /\ i \in 1 .. n + 1 /\ tree[i] = shorter[i]
    BY <1>5
  <2>2. MetBy(q, shorter, i - 1) \subseteq met
    BY <2>1, MetByGrows DEF met
  <2>3. shorter[i].to \in met
    BY DEF met, MetBy
  <2>4. QED
    BY <1>1, <1>4, <1>6, <2>1, <2>2, <2>3
<1>14. IsGrowth(q, candidates, n, before, shorter)
  BY <1>1, <1>5, <1>6, <1>9, <1>13 DEF IsGrowth, met
<1>15. IsLast(q, candidates, before, shorter, tree[n + 1], depths, tree)
  BY <1>3, <1>5, <1>11, <1>12 DEF e, IsLast
<1>16. QED
  BY <1>14, <1>15

(* After k edges there are the growths of k edges, no more and no fewer.   *)
AtStart(q) == [ref \in {q.start} |-> 0]

LEMMA NothingButTheStart ==
  ASSUME NEW q, NEW candidates, NEW depths, NEW tree
  PROVE  IsGrowth(q, candidates, 0, depths, tree) <=> depths = AtStart(q) /\ tree = <<>>
<1>1. 1 .. 0 = {}
  OBVIOUS
<1>2. MetBy(q, tree, 0) = {q.start}
  BY <1>1 DEF MetBy
<1>3. tree \in [1 .. 0 -> candidates] <=> tree = <<>>
  <2>1. ASSUME tree \in [1 .. 0 -> candidates]
        PROVE  tree = <<>>
    <3>1. tree \in Seq(candidates)
      BY <2>1, SeqDef
    <3>2. Len(tree) = 0
      BY <2>1, <3>1, LenProperties
    <3>3. QED
      BY <3>1, <3>2, EmptySeq
  <2>2. <<>> \in [1 .. 0 -> candidates]
    BY <1>1
  <2>3. QED
    BY <2>1, <2>2
<1>4. depths \in [{q.start} -> Nat] /\ depths[q.start] = 0 <=> depths = AtStart(q)
  <2>1. ASSUME depths \in [{q.start} -> Nat], depths[q.start] = 0
        PROVE  depths = AtStart(q)
    BY <2>1 DEF AtStart
  <2>2. QED
    BY <2>1 DEF AtStart
<1>5. QED
  BY <1>1, <1>2, <1>3, <1>4 DEF IsGrowth

LEMMA GrownAreGrowths ==
  ASSUME NEW q \in Requests, NEW candidates, NEW N \in Nat, NEW f, AreGrown(f, q, candidates, N)
  PROVE  /\ \A g \in f[N] : IsGrowth(q, candidates, N, g.depths, g.tree)
         /\ \A depths, tree : IsGrowth(q, candidates, N, depths, tree) =>
              [depths |-> depths, tree |-> tree] \in f[N]
<1> DEFINE Sound(k) == \A g \in f[k] : IsGrowth(q, candidates, k, g.depths, g.tree)
           Whole(k) == \A depths, tree : IsGrowth(q, candidates, k, depths, tree) =>
                         [depths |-> depths, tree |-> tree] \in f[k]
           S == {k \in 0 .. N : Sound(k) /\ Whole(k)}
<1>0. \A k \in 0 .. N : f[k] = IF k = 0 THEN Seedling(q) ELSE Larger(q, candidates, f[k - 1])
  BY DEF AreGrown
<1> HIDE DEF S, Sound, Whole
<1>1. 0 \in S
  <2>1. f[0] = Seedling(q)
    BY <1>0
  <2>2. Sound(0)
    <3> SUFFICES ASSUME NEW g \in f[0]
                 PROVE  IsGrowth(q, candidates, 0, g.depths, g.tree)
      BY DEF Sound
    <3>1. g.depths = AtStart(q) /\ g.tree = <<>>
      BY <2>1 DEF Seedling, AtStart
    <3>2. QED
      BY <3>1, NothingButTheStart
  <2>3. Whole(0)
    <3> SUFFICES ASSUME NEW depths, NEW tree, IsGrowth(q, candidates, 0, depths, tree)
                 PROVE  [depths |-> depths, tree |-> tree] \in f[0]
      BY DEF Whole
    <3>0. IsGrowth(q, candidates, 0, depths, tree)
      OBVIOUS
    <3>1. depths = AtStart(q) /\ tree = <<>>
      BY <3>0, NothingButTheStart
    <3>2. QED
      BY <2>1, <3>1 DEF Seedling, AtStart
  <2>4. QED
    BY <2>2, <2>3 DEF S
<1>2. ASSUME NEW n \in 0 .. N, n \in S, n < N
      PROVE  n + 1 \in S
  <2>1. n \in Nat /\ n + 1 \in 0 .. N /\ n + 1 # 0 /\ (n + 1) - 1 = n
    BY <1>2
  <2>2. f[n + 1] = Larger(q, candidates, f[n])
    BY <1>0, <2>1
  <2>3. Sound(n) /\ Whole(n)
    BY <1>2 DEF S
  <2>4. Sound(n + 1)
    <3> SUFFICES ASSUME NEW h \in f[n + 1]
                 PROVE  IsGrowth(q, candidates, n + 1, h.depths, h.tree)
      BY DEF Sound
    <3>1. PICK g \in f[n] : \E e \in {c \in candidates : Open(q, g.depths, c)} :
            h = [depths |-> Reached(g.depths, e), tree |-> Append(g.tree, e)]
      BY <2>2 DEF Larger
    <3>2. PICK e \in candidates : Open(q, g.depths, e) /\
            h = [depths |-> Reached(g.depths, e), tree |-> Append(g.tree, e)]
      BY <3>1
    <3>3. IsGrowth(q, candidates, n, g.depths, g.tree)
      BY <2>3 DEF Sound
    <3>4. IsGrowth(q, candidates, n + 1, Reached(g.depths, e), Append(g.tree, e))
      BY <2>1, <3>2, <3>3, LongerGrowth
    <3>5. h.depths = Reached(g.depths, e) /\ h.tree = Append(g.tree, e)
      BY <3>2
    <3>6. QED
      BY <2>1, <3>4, <3>5
  <2>5. Whole(n + 1)
    <3> SUFFICES ASSUME NEW depths, NEW tree, IsGrowth(q, candidates, n + 1, depths, tree)
                 PROVE  [depths |-> depths, tree |-> tree] \in f[n + 1]
      BY DEF Whole
    <3>0. IsGrowth(q, candidates, n + 1, depths, tree) /\ n \in Nat
      BY <2>1
    <3> DEFINE e == tree[n + 1]
    <3> HIDE DEF e
    <3>10. \E before, shorter :
             IsGrowth(q, candidates, n, before, shorter)
               /\ IsLast(q, candidates, before, shorter, e, depths, tree)
      BY <3>0, ShorterGrowth DEF e
    <3>1. PICK before, shorter :
            /\ IsGrowth(q, candidates, n, before, shorter)
            /\ e \in candidates /\ Open(q, before, e)
            /\ depths = Reached(before, e)
            /\ tree = Append(shorter, e)
      BY <3>10 DEF IsLast
    <3> DEFINE g == [depths |-> before, tree |-> shorter]
    <3>2. g \in f[n] /\ g.depths = before /\ g.tree = shorter
      BY <2>3, <3>1 DEF Whole
    <3> HIDE DEF g, e
    <3>3. [depths |-> Reached(g.depths, e), tree |-> Append(g.tree, e)]
            \in Larger(q, candidates, f[n])
      <4> DEFINE made(h) == {[depths |-> Reached(h.depths, c), tree |-> Append(h.tree, c)] :
                               c \in {b \in candidates : Open(q, h.depths, b)}}
      <4>1. e \in {b \in candidates : Open(q, g.depths, b)}
        BY <3>1, <3>2
      <4>2. [depths |-> Reached(g.depths, e), tree |-> Append(g.tree, e)] \in made(g)
        BY <4>1
      <4>3. Larger(q, candidates, f[n]) = UNION {made(h) : h \in f[n]}
        BY DEF Larger
      <4> HIDE DEF made
      <4>4. QED
        BY <3>2, <4>2, <4>3
    <3>4. QED
      BY <2>2, <3>1, <3>2, <3>3
  <2>6. QED
    BY <2>1, <2>4, <2>5 DEF S
<1>3. N \in S
  <2>1. \A k \in 0 .. N : k \in S
    BY <1>1, <1>2, UpTo
  <2>2. QED
    BY <2>1
<1>4. QED
  BY <1>3 DEF S, Sound, Whole

(* Without the limit on depth: trees, and the distances in them.           *)
IsTree(q, candidates, n, tree) ==
  /\ tree \in [1 .. n -> candidates]
  /\ \A i \in 1 .. n : tree[i].from \in MetBy(q, tree, i - 1) /\ tree[i].to \notin MetBy(q, tree, i - 1)

Measures(q, n, depths, tree) ==
  /\ depths \in [MetBy(q, tree, n) -> Nat]
  /\ depths[q.start] = 0
  /\ \A i \in 1 .. n : depths[tree[i].to] = depths[tree[i].from] + 1

LEMMA GrowthsAreTrees ==
  ASSUME NEW q, NEW candidates, NEW n \in Nat, NEW depths, NEW tree
  PROVE  IsGrowth(q, candidates, n, depths, tree) <=>
           /\ IsTree(q, candidates, n, tree) /\ Measures(q, n, depths, tree)
           /\ \A i \in 1 .. n : depths[tree[i].to] <= q.depth
BY DEF IsGrowth, IsTree, Measures

LEMMA OneRefMore ==
  ASSUME NEW q, NEW tree, NEW n \in Nat
  PROVE  MetBy(q, tree, n + 1) = MetBy(q, tree, n) \cup {tree[n + 1].to}
<1>1. 1 .. n + 1 = 1 .. n \cup {n + 1}
  OBVIOUS
<1>2. {tree[j].to : j \in 1 .. n + 1} = {tree[j].to : j \in 1 .. n} \cup {tree[n + 1].to}
  BY <1>1
<1>3. QED
  BY <1>2 DEF MetBy

LEMMA DistancesExist ==
  ASSUME NEW q, NEW candidates, NEW N \in Nat, NEW tree, IsTree(q, candidates, N, tree)
  PROVE  \E depths : Measures(q, N, depths, tree)
<1> DEFINE S == {k \in 0 .. N : \E depths : Measures(q, k, depths, tree)}
<1>1. 0 \in S
  <2>1. MetBy(q, tree, 0) = {q.start}
    BY DEF MetBy
  <2>2. Measures(q, 0, [ref \in {q.start} |-> 0], tree)
    BY <2>1 DEF Measures
  <2>3. QED
    BY <2>2
<1>2. ASSUME NEW n \in 0 .. N, n \in S, n < N
      PROVE  n + 1 \in S
  <2>1. n \in Nat /\ n + 1 \in 1 .. N /\ (n + 1) - 1 = n /\ n + 1 \in 0 .. N
    BY <1>2
  <2>2. PICK before : Measures(q, n, before, tree)
    BY <1>2
  <2> DEFINE e == tree[n + 1]
             met == MetBy(q, tree, n)
             depths == [ref \in met \cup {e.to} |-> IF ref = e.to THEN before[e.from] + 1 ELSE before[ref]]
  <2>3. e.from \in met /\ e.to \notin met
    BY <2>1 DEF IsTree
  <2>4. /\ before \in [met -> Nat] /\ before[q.start] = 0
        /\ \A i \in 1 .. n : before[tree[i].to] = before[tree[i].from] + 1
    BY <2>2 DEF Measures
  <2>5. MetBy(q, tree, n + 1) = met \cup {e.to}
    BY <2>1, OneRefMore
  <2>6. q.start \in met
    BY DEF MetBy
  <2>7. \A i \in 1 .. n : tree[i].to \in met /\ tree[i].from \in met
    <3> SUFFICES ASSUME NEW i \in 1 .. n
                 PROVE  tree[i].to \in met /\ tree[i].from \in met
      OBVIOUS
    <3>1. i \in 1 .. N /\ i - 1 \in 0 .. n
      BY <2>1
    <3>2. tree[i].from \in MetBy(q, tree, i - 1)
      BY <3>1 DEF IsTree
    <3>3. MetBy(q, tree, i - 1) \subseteq met
      BY <2>1, <3>1, MetByGrows
    <3>4. tree[i].to \in met
      BY DEF MetBy
    <3>5. QED
      BY <3>2, <3>3, <3>4
  <2>8. /\ depths \in [met \cup {e.to} -> Nat]
        /\ \A ref \in met : depths[ref] = before[ref]
        /\ depths[e.to] = before[e.from] + 1
    BY <2>3, <2>4
  <2> HIDE DEF met, depths
  <2>9. \A i \in 1 .. n + 1 : depths[tree[i].to] = depths[tree[i].from] + 1
    <3>1. \A i \in 1 .. n + 1 : i \in 1 .. n \/ i = n + 1
      BY <2>1
    <3>2. depths[e.to] = depths[e.from] + 1
      BY <2>3, <2>8
    <3>3. QED
      BY <2>4, <2>7, <2>8, <3>1, <3>2
  <2>10. Measures(q, n + 1, depths, tree)
    BY <2>4, <2>5, <2>6, <2>8, <2>9 DEF Measures
  <2>11. QED
    BY <2>1, <2>10
<1> HIDE DEF S
<1>3. \A k \in 0 .. N : k \in S
  BY <1>1, <1>2, UpTo
<1>4. N \in S
  BY <1>3
<1>5. QED
  BY <1>4 DEF S

(* A tree of n edges has one ref more than edges.                          *)
LEMMA RefsAreCounted ==
  ASSUME NEW q, NEW candidates, NEW N \in Nat, NEW tree, IsTree(q, candidates, N, tree)
  PROVE  IsFiniteSet(MetBy(q, tree, N)) /\ Cardinality(MetBy(q, tree, N)) = N + 1
<1> DEFINE S == {k \in 0 .. N : IsFiniteSet(MetBy(q, tree, k)) /\ Cardinality(MetBy(q, tree, k)) = k + 1}
<1>1. 0 \in S
  <2>1. MetBy(q, tree, 0) = {q.start}
    BY DEF MetBy
  <2>2. PICK x : x = q.start
    OBVIOUS
  <2>3. IsFiniteSet({x}) /\ Cardinality({x}) = 1
    BY FS_Singleton
  <2>4. QED
    BY <2>1, <2>2, <2>3
<1>2. ASSUME NEW k \in 0 .. N, k \in S, k < N
      PROVE  k + 1 \in S
  <2>1. k + 1 \in 1 .. N /\ (k + 1) - 1 = k /\ k + 1 \in 0 .. N
    BY <1>2
  <2>2. tree[k + 1].to \notin MetBy(q, tree, k)
    BY <2>1 DEF IsTree
  <2>3. MetBy(q, tree, k + 1) = MetBy(q, tree, k) \cup {tree[k + 1].to}
    BY OneRefMore
  <2>4. IsFiniteSet(MetBy(q, tree, k)) /\ Cardinality(MetBy(q, tree, k)) = k + 1
    BY <1>2
  <2>5. PICK met : met = MetBy(q, tree, k)
    OBVIOUS
  <2>6. PICK new : new = tree[k + 1].to
    OBVIOUS
  <2>7. IsFiniteSet(met) /\ new \notin met
    BY <2>2, <2>4, <2>5, <2>6
  <2>8. IsFiniteSet(met \cup {new}) /\ Cardinality(met \cup {new}) = Cardinality(met) + 1
    BY <2>7, FS_AddElement
  <2>9. IsFiniteSet(MetBy(q, tree, k + 1)) /\ Cardinality(MetBy(q, tree, k + 1)) = (k + 1) + 1
    BY <2>3, <2>4, <2>5, <2>6, <2>8
  <2>10. QED
    BY <2>1, <2>9
<1> HIDE DEF S
<1>3. \A k \in 0 .. N : k \in S
  BY <1>1, <1>2, UpTo
<1>4. N \in S
  BY <1>3
<1>5. QED
  BY <1>4 DEF S

(* The refs within so many joins from the start.                           *)
Further(q, tree, met) == met \cup {tree[i].to : i \in {j \in DOMAIN tree : tree[j].from \in met}}

AreReached(f, q, tree, n) ==
  f = [k \in 0 .. n |-> IF k = 0 THEN {q.start} ELSE Further(q, tree, f[k - 1])]

LEMMA HopsAreThere ==
  ASSUME NEW q \in Requests, NEW tree, \A i \in DOMAIN tree : tree[i].to \in q.refs
  PROVE  \E f : /\ AreReached(f, q, tree, q.depth)
                /\ \A ref : Hops(q, tree, ref) <=> ref \in f[q.depth]
<1> DEFINE N == q.depth
           T == SUBSET q.refs
           further == [met \in T |-> Further(q, tree, met)]
<1>1. N \in Nat
  BY RequestsAreFinite
<1>2. {q.start} \in T
  BY RequestsAreFinite
<1>3. further \in [T -> T]
  BY DEF Further
<1>4. PICK f \in [0 .. N -> T] : Iterated(f, {q.start}, further, N)
  <2> HIDE DEF N, T, further
  <2>1. QED
    BY <1>1, <1>2, <1>3, Iterates
<1>5. \A k \in 0 .. N : f[k] = IF k = 0 THEN {q.start} ELSE Further(q, tree, f[k - 1])
  <2>1. \A k \in 0 .. N : k # 0 => k - 1 \in 0 .. N
    BY <1>1
  <2>2. \A k \in 0 .. N : f[k] = IF k = 0 THEN {q.start} ELSE further[f[k - 1]]
    BY <1>4 DEF Iterated
  <2>3. \A k \in 0 .. N : k # 0 => further[f[k - 1]] = Further(q, tree, f[k - 1])
    BY <1>4, <2>1
  <2>4. QED
    BY <2>2, <2>3
<1>6. f = [k \in 0 .. N |-> f[k]]
  BY <1>4
<1> HIDE DEF T, further
<1>7. AreReached(f, q, tree, N)
  BY <1>5, <1>6 DEF AreReached
<1> DEFINE g == CHOOSE h : AreReached(h, q, tree, N)
<1>8. AreReached(g, q, tree, N)
  BY <1>7
<1>9. \A ref : Hops(q, tree, ref) <=> ref \in g[N]
  BY DEF Hops, AreReached, Further, N
<1>10. QED
  BY <1>8, <1>9

(* They are those whose distance is no more.                               *)
LEMMA HopsAreDistances ==
  ASSUME NEW q \in Requests, NEW candidates, Within(q, candidates),
         NEW N \in Nat, NEW tree, IsTree(q, candidates, N, tree),
         NEW depths, Measures(q, N, depths, tree)
  PROVE  \A ref : Hops(q, tree, ref) <=> ref \in MetBy(q, tree, N) /\ depths[ref] <= q.depth
<1> DEFINE met == MetBy(q, tree, N)
           near(k) == {ref \in met : depths[ref] <= k}
<1>1. /\ DOMAIN tree = 1 .. N /\ tree \in [1 .. N -> candidates]
      /\ q.depth \in Nat
      /\ \A i \in DOMAIN tree : tree[i].to \in q.refs
  BY RequestsAreFinite DEF IsTree, Within
<1>2. PICK f : /\ AreReached(f, q, tree, q.depth)
               /\ \A ref : Hops(q, tree, ref) <=> ref \in f[q.depth]
  BY <1>1, HopsAreThere
<1>3. \A k \in 0 .. q.depth : f[k] = IF k = 0 THEN {q.start} ELSE Further(q, tree, f[k - 1])
  BY <1>2 DEF AreReached
<1>4. \A i \in 1 .. N : tree[i].to \in met /\ tree[i].from \in met
  <2> SUFFICES ASSUME NEW i \in 1 .. N
               PROVE  tree[i].to \in met /\ tree[i].from \in met
    OBVIOUS
  <2>1. i - 1 \in 0 .. N
    OBVIOUS
  <2>2. tree[i].from \in MetBy(q, tree, i - 1)
    BY DEF IsTree
  <2>3. MetBy(q, tree, i - 1) \subseteq met
    BY <2>1, MetByGrows
  <2>4. tree[i].to \in met
    BY DEF MetBy
  <2>5. QED
    BY <2>2, <2>3, <2>4
<1>5. /\ depths \in [met -> Nat] /\ depths[q.start] = 0 /\ q.start \in met
      /\ \A i \in 1 .. N : depths[tree[i].to] = depths[tree[i].from] + 1
  BY DEF Measures, MetBy
<1>6. \A ref \in met : ref = q.start \/ \E i \in 1 .. N : ref = tree[i].to
  BY DEF MetBy
<1> HIDE DEF met
<1> DEFINE S == {k \in 0 .. q.depth : f[k] = near(k)}
<1>7. 0 \in S
  <2>1. f[0] = {q.start}
    BY <1>1, <1>3
  <2>2. ASSUME NEW ref \in near(0)
        PROVE  ref = q.start
    <3>1. depths[ref] = 0 /\ ref \in met
      BY <1>5, <2>2
    <3>2. \A i \in 1 .. N : depths[tree[i].to] # 0
      BY <1>4, <1>5
    <3>3. QED
      BY <1>6, <3>1, <3>2
  <2>3. q.start \in near(0)
    BY <1>5
  <2>4. near(0) = {q.start}
    BY <2>2, <2>3
  <2>5. QED
    BY <1>1, <2>1, <2>4
<1>8. ASSUME NEW k \in 0 .. q.depth, k \in S, k < q.depth
      PROVE  k + 1 \in S
  <2>1. k + 1 \in 0 .. q.depth /\ k + 1 # 0 /\ (k + 1) - 1 = k /\ k \in Nat
    BY <1>1, <1>8
  <2>2. f[k + 1] = Further(q, tree, near(k))
    BY <1>3, <1>8, <2>1
  <2>3. f[k + 1] = near(k) \cup {tree[i].to : i \in {j \in 1 .. N : tree[j].from \in near(k)}}
    BY <1>1, <2>2 DEF Further
  <2>4. ASSUME NEW ref \in f[k + 1]
        PROVE  ref \in near(k + 1)
    <3>1. CASE ref \in near(k)
      BY <1>5, <2>1, <3>1
    <3>2. CASE \E i \in 1 .. N : ref = tree[i].to /\ tree[i].from \in near(k)
      BY <1>4, <1>5, <2>1, <3>2
    <3>3. QED
      BY <2>3, <2>4, <3>1, <3>2
  <2>5. ASSUME NEW ref \in near(k + 1)
        PROVE  ref \in f[k + 1]
    <3>1. CASE ref = q.start
      BY <1>5, <2>1, <2>3, <3>1
    <3>2. CASE \E i \in 1 .. N : ref = tree[i].to
      <4>1. PICK i \in 1 .. N : ref = tree[i].to
        BY <3>2
      <4>2. depths[tree[i].from] <= k /\ tree[i].from \in met
        BY <1>4, <1>5, <2>1, <2>5, <4>1
      <4>3. QED
        BY <2>3, <4>1, <4>2
    <3>3. QED
      BY <1>6, <2>5, <3>1, <3>2
  <2>6. f[k + 1] = near(k + 1)
    BY <2>4, <2>5
  <2>7. QED
    BY <2>1, <2>6
<1> HIDE DEF S
<1>9. \A k \in 0 .. q.depth : k \in S
  BY <1>1, <1>7, <1>8, UpTo
<1>10. q.depth \in S
  BY <1>1, <1>9
<1>11. f[q.depth] = near(q.depth)
  BY <1>10 DEF S
<1>12. QED
  BY <1>2, <1>11 DEF met

(* What grows is every tree that reaches all refs within the depth.        *)
LEMMA GrowIsAllTrees ==
  ASSUME NEW q \in Requests
  PROVE  Grow(q, CandidateEdges(q)) = AllTrees(q)
<1> DEFINE C == CandidateEdges(q)
           N == Cardinality(q.refs) - 1
<1>1. Within(q, C)
  BY CandidatesAreEdges DEF Within, IsEdge
<1>2. /\ N \in Nat /\ IsFiniteSet(q.refs) /\ Cardinality(q.refs) = N + 1
      /\ q.start \in q.refs /\ q.depth \in Nat
  BY RequestsAreFinite
<1>3. \A tree : tree \in AllTrees(q) <=> IsTree(q, C, N, tree) /\ \A ref \in q.refs : Hops(q, tree, ref)
  BY DEF AllTrees, IsTree, MetBy
<1> HIDE DEF C, N
<1>4. PICK f : AreGrown(f, q, C, N) /\ Grow(q, C) = {g.tree : g \in f[N]}
  BY <1>1, GrowIsThere DEF N
<1>5. ASSUME NEW tree \in Grow(q, C)
      PROVE  tree \in AllTrees(q)
  <2>1. PICK g \in f[N] : tree = g.tree
    BY <1>4, <1>5
  <2>2. PICK depths : depths = g.depths
    OBVIOUS
  <2>3. IsGrowth(q, C, N, depths, tree)
    BY <1>2, <1>4, <2>1, <2>2, GrownAreGrowths
  <2>4. /\ IsTree(q, C, N, tree) /\ Measures(q, N, depths, tree)
        /\ \A i \in 1 .. N : depths[tree[i].to] <= q.depth
    BY <1>2, <2>3, GrowthsAreTrees
  <2>5. MetBy(q, tree, N) = q.refs
    <3>1. IsFiniteSet(MetBy(q, tree, N)) /\ Cardinality(MetBy(q, tree, N)) = N + 1
      BY <1>2, <2>4, RefsAreCounted
    <3>2. MetBy(q, tree, N) \in SUBSET q.refs
      BY <1>1, <1>2, <2>4 DEF MetBy, IsTree, Within
    <3>3. QED
      BY <1>2, <3>1, <3>2, FS_Subset
  <2>6. \A ref \in q.refs : depths[ref] <= q.depth
    <3>1. \A ref \in q.refs : ref = q.start \/ \E i \in 1 .. N : ref = tree[i].to
      BY <2>5 DEF MetBy
    <3>2. depths[q.start] <= q.depth
      BY <1>2, <2>4 DEF Measures
    <3>3. QED
      BY <2>4, <3>1, <3>2
  <2>7. \A ref : Hops(q, tree, ref) <=> ref \in MetBy(q, tree, N) /\ depths[ref] <= q.depth
    BY <1>1, <1>2, <2>4, HopsAreDistances
  <2>8. QED
    BY <1>3, <2>4, <2>5, <2>6, <2>7
<1>6. ASSUME NEW tree \in AllTrees(q)
      PROVE  tree \in Grow(q, C)
  <2>1. IsTree(q, C, N, tree) /\ \A ref \in q.refs : Hops(q, tree, ref)
    BY <1>3, <1>6
  <2>2. PICK depths : Measures(q, N, depths, tree)
    BY <1>2, <2>1, DistancesExist
  <2>3. \A ref : Hops(q, tree, ref) <=> ref \in MetBy(q, tree, N) /\ depths[ref] <= q.depth
    BY <1>1, <1>2, <2>1, <2>2, HopsAreDistances
  <2>4. \A i \in 1 .. N : tree[i].to \in q.refs
    BY <1>1, <2>1 DEF IsTree, Within
  <2>5. \A i \in 1 .. N : depths[tree[i].to] <= q.depth
    BY <2>1, <2>3, <2>4
  <2>6. IsGrowth(q, C, N, depths, tree)
    BY <1>2, <2>1, <2>2, <2>5, GrowthsAreTrees
  <2>7. [depths |-> depths, tree |-> tree] \in f[N]
    BY <1>2, <1>4, <2>6, GrownAreGrowths
  <2>8. PICK g \in f[N] : g = [depths |-> depths, tree |-> tree]
    BY <2>7
  <2>9. g.tree = tree
    BY <2>8
  <2>10. QED
    BY <1>4, <2>9
<1>7. QED
  BY <1>5, <1>6 DEF C

(* Their number is finite, and they have an order.                         *)
LEMMA FunctionsAreFinite ==
  ASSUME NEW D, IsFiniteSet(D), NEW T, IsFiniteSet(T)
  PROVE  IsFiniteSet([D -> T])
<1> DEFINE F == [D -> T]
           P == SUBSET (D \X T)
           graph == [tree \in F |-> {<<i, tree[i]>> : i \in D}]
<1>1. IsFiniteSet(P)
  <2>1. IsFiniteSet(D \X T)
    BY FS_Product
  <2>2. QED
    BY <2>1, FS_SUBSET
<1>2. graph \in [F -> P]
  <2>1. \A tree \in F : {<<i, tree[i]>> : i \in D} \in P
    OBVIOUS
  <2> HIDE DEF F, P
  <2>2. QED
    BY <2>1
<1>3. \A k, l \in F : graph[k] = graph[l] => k = l
  <2> SUFFICES ASSUME NEW k \in F, NEW l \in F, graph[k] = graph[l]
               PROVE  k = l
    OBVIOUS
  <2>1. {<<i, k[i]>> : i \in D} = {<<i, l[i]>> : i \in D}
    OBVIOUS
  <2>2. \A i \in D : k[i] = l[i]
    <3> SUFFICES ASSUME NEW i \in D
                 PROVE  k[i] = l[i]
      OBVIOUS
    <3>1. <<i, k[i]>> \in {<<j, l[j]>> : j \in D}
      BY <2>1
    <3>2. QED
      BY <3>1
  <2>3. QED
    BY <2>2
<1>4. DOMAIN graph = F
  OBVIOUS
<1> HIDE DEF F, P, graph
<1>5. graph \in Injection(F, P)
  BY <1>2, <1>3, <1>4 DEF Injection, IsInjective
<1>6. IsFiniteSet(F)
  BY <1>1, <1>5, FS_Injection
<1>7. QED
  BY <1>6 DEF F

Sooner(S) == {pair \in S \X S : MetEarlier(pair[1], pair[2])}

LEMMA TreesAreOrdered ==
  ASSUME NEW q \in Requests, NEW n \in Nat, NEW S \in SUBSET [1 .. n -> CandidateEdges(q)]
  PROVE  IsOrder(Sooner(S), S)
<1> DEFINE C == CandidateEdges(q)
           R == Earlier(q)
<1>1. IsOrder(R, C)
  BY CandidatesAreOrdered
<1>2. \A k, l \in S : MetEarlier(k, l) <=> Lexical(R, k, l)
  <2> SUFFICES ASSUME NEW k \in S, NEW l \in S
               PROVE  MetEarlier(k, l) <=> Lexical(R, k, l)
    OBVIOUS
  <2>1. DOMAIN k = 1 .. n /\ \A i \in 1 .. n : k[i] \in C /\ l[i] \in C
    OBVIOUS
  <2>2. \A i \in 1 .. n : <<k[i], l[i]>> \in R <=> Precedes(k[i], l[i])
    BY <2>1 DEF Earlier
  <2> HIDE DEF R, C
  <2>3. QED
    BY <2>1, <2>2 DEF MetEarlier, Lexical
<1>3. \A k, l, m \in S :
        /\ ~ Lexical(R, k, k)
        /\ k # l => Lexical(R, k, l) \/ Lexical(R, l, k)
        /\ Lexical(R, k, l) /\ Lexical(R, l, m) => Lexical(R, k, m)
  <2> HIDE DEF R
  <2> SUFFICES ASSUME NEW k \in S, NEW l \in S, NEW m \in S
               PROVE  /\ ~ Lexical(R, k, k)
                      /\ k # l => Lexical(R, k, l) \/ Lexical(R, l, k)
                      /\ Lexical(R, k, l) /\ Lexical(R, l, m) => Lexical(R, k, m)
    OBVIOUS
  <2>1. k \in [1 .. n -> C] /\ l \in [1 .. n -> C] /\ m \in [1 .. n -> C]
    OBVIOUS
  <2> HIDE DEF C
  <2>2. QED
    BY <1>1, <2>1, LexicalOrders
<1> HIDE DEF R, C
<1>4. \A k, l \in S : <<k, l>> \in Sooner(S) <=> Lexical(R, k, l)
  BY <1>2 DEF Sooner
<1>5. QED
  BY <1>3, <1>4 DEF IsOrder

(* Sorting keeps all there is, and a limit that is not exceeded as well.   *)
LEMMA SortingKeepsAll ==
  ASSUME NEW q \in Requests, NEW n \in Nat, NEW S \in SUBSET [1 .. n -> CandidateEdges(q)]
  PROVE  /\ IsFiniteSet(S) /\ Cardinality(S) \in Nat
         /\ \A limit \in Nat : Cardinality(S) <= limit => First(limit, S, MetEarlier) = S
         /\ DOMAIN Sorted(S, MetEarlier) = 1 .. Cardinality(S)
         /\ \A i \in 1 .. Cardinality(S) : Sorted(S, MetEarlier)[i] \in S
         /\ \A tree \in S : \E i \in 1 .. Cardinality(S) : Sorted(S, MetEarlier)[i] = tree
<1> DEFINE R == Sooner(S)
           rank == [e \in S |-> Cardinality({f \in S : <<f, e>> \in R})]
           c == Cardinality(S)
<1>1. IsFiniteSet(S)
  <2>1. IsFiniteSet([1 .. n -> CandidateEdges(q)])
    BY CandidatesAreFinite, FirstNumbers, FunctionsAreFinite
  <2>2. QED
    BY <2>1, FS_Subset
<1>2. IsOrder(R, S)
  BY TreesAreOrdered
<1>3. \A e \in S : rank[e] = Before(e, S, MetEarlier)
  <2> SUFFICES ASSUME NEW e \in S
               PROVE  rank[e] = Before(e, S, MetEarlier)
    OBVIOUS
  <2>1. {f \in S : <<f, e>> \in R} = {f \in S : MetEarlier(f, e)}
    BY DEF Sooner
  <2>2. QED
    BY <2>1 DEF Before
<1>4. /\ c \in Nat
      /\ \A e \in S : rank[e] \in Nat /\ rank[e] < c
      /\ \A e, f \in S : rank[e] = rank[f] => e = f
      /\ \A i \in 1 .. c : \E e \in S : rank[e] + 1 = i
  <2>1. Places(rank, S, R)
    BY DEF Places
  <2> HIDE DEF R, rank
  <2>2. QED
    BY <1>1, <1>2, <2>1, Ranks
<1> HIDE DEF R, rank
<1>5. \A limit \in Nat : c <= limit => First(limit, S, MetEarlier) = S
  <2> SUFFICES ASSUME NEW limit \in Nat, c <= limit
               PROVE  First(limit, S, MetEarlier) = S
    OBVIOUS
  <2>1. \A e \in S : Before(e, S, MetEarlier) < limit
    BY <1>3, <1>4
  <2>2. QED
    BY <2>1 DEF First
<1>6. Sorted(S, MetEarlier) = [i \in 1 .. c |-> CHOOSE e \in S : Before(e, S, MetEarlier) + 1 = i]
  BY DEF Sorted
<1>7. \A i \in 1 .. c : Sorted(S, MetEarlier)[i] \in S /\ rank[Sorted(S, MetEarlier)[i]] + 1 = i
  <2> SUFFICES ASSUME NEW i \in 1 .. c
               PROVE  Sorted(S, MetEarlier)[i] \in S /\ rank[Sorted(S, MetEarlier)[i]] + 1 = i
    OBVIOUS
  <2> DEFINE x == CHOOSE e \in S : Before(e, S, MetEarlier) + 1 = i
  <2>1. \E e \in S : Before(e, S, MetEarlier) + 1 = i
    BY <1>3, <1>4
  <2>2. x \in S /\ Before(x, S, MetEarlier) + 1 = i
    BY <2>1
  <2>3. Sorted(S, MetEarlier)[i] = x
    BY <1>6
  <2> HIDE DEF x
  <2>4. QED
    BY <1>3, <2>2, <2>3
<1>8. \A tree \in S : \E i \in 1 .. c : Sorted(S, MetEarlier)[i] = tree
  <2> SUFFICES ASSUME NEW tree \in S
               PROVE  \E i \in 1 .. c : Sorted(S, MetEarlier)[i] = tree
    OBVIOUS
  <2>1. rank[tree] \in Nat /\ rank[tree] + 1 \in 1 .. c
    BY <1>4
  <2>2. PICK i \in 1 .. c : i = rank[tree] + 1
    BY <2>1
  <2>3. PICK other : other = Sorted(S, MetEarlier)[i]
    OBVIOUS
  <2>4. other \in S /\ rank[other] + 1 = rank[tree] + 1
    BY <1>7, <2>2, <2>3
  <2>5. rank[other] = rank[tree]
    BY <1>4, <2>1, <2>4
  <2>6. QED
    BY <1>4, <2>3, <2>4, <2>5
<1>9. DOMAIN Sorted(S, MetEarlier) = 1 .. c
  BY <1>6
<1>10. QED
  BY <1>1, <1>4, <1>5, <1>7, <1>8, <1>9 DEF c

(* What is planned is safe, and among all the trees there are; with no     *)
(* more trees than are looked at, nothing is planned only if none is safe. *)
LEMMA PlansAreSafeTrees ==
  ASSUME NEW q \in Requests
  PROVE  /\ \A n \in DOMAIN PlanJoin(q) :
              PlanJoin(q)[n] \in AllTrees(q) /\ TreeIsSafe(q, PlanJoin(q)[n])
         /\ PlanJoin(q) = <<>> =>
              \/ q.entity[q.expected] \notin Keyed
              \/ \A tree \in AllTrees(q) : ~ TreeIsSafe(q, tree)
              \/ Cardinality(AllTrees(q)) > TreeLimit
<1> DEFINE N == Cardinality(q.refs) - 1
           C == CandidateEdges(q)
           all == AllTrees(q)
           looked == First(TreeLimit, all, MetEarlier)
           good == {tree \in looked : TreeIsSafe(q, tree)}
           safe == Sorted(good, MetEarlier)
           some == SubSeq(safe, 1, IF safe = <<>> THEN 0 ELSE 1)
<1>1. N \in Nat
  BY RequestsAreFinite
<1>2. all \in SUBSET [1 .. N -> C]
  BY DEF AllTrees
<1>3. looked \in SUBSET all
  BY DEF First
<1>4. Grow(q, C) = all
  BY GrowIsAllTrees
<1>5. SpanningTrees(q, C) = looked
  BY <1>4 DEF SpanningTrees
<1>6. PlanJoin(q) = IF q.entity[q.expected] \notin Keyed THEN <<>>
                    ELSE IF q.alternatives THEN safe ELSE some
  BY <1>5 DEF PlanJoin
<1> HIDE DEF all, looked
<1>7. good \in SUBSET [1 .. N -> C]
  BY <1>2, <1>3
<1> HIDE DEF N, C, good
<1>8. /\ Cardinality(good) \in Nat
      /\ DOMAIN safe = 1 .. Cardinality(good)
      /\ \A i \in 1 .. Cardinality(good) : safe[i] \in good
      /\ \A tree \in good : \E i \in 1 .. Cardinality(good) : safe[i] = tree
  BY <1>1, <1>7, SortingKeepsAll DEF C
<1> HIDE DEF safe
<1>9. safe = <<>> => good = {}
  <2>1. safe = <<>> => DOMAIN safe = {}
    OBVIOUS
  <2>2. QED
    BY <1>8, <2>1
<1>10. safe # <<>> => 1 \in DOMAIN safe
  <2> SUFFICES ASSUME 1 \notin DOMAIN safe
               PROVE  safe = <<>>
    OBVIOUS
  <2>1. Cardinality(good) = 0
    BY <1>8
  <2>2. safe \in Seq(good)
    <3>1. safe = [i \in 1 .. Cardinality(good) |-> safe[i]]
      BY <1>6, <1>8 DEF safe, Sorted
    <3>2. safe \in [1 .. Cardinality(good) -> good]
      BY <1>8, <3>1
    <3>3. QED
      BY <1>8, <3>2, SeqDef
  <2>3. Len(safe) = 0
    BY <1>8, <2>1, <2>2, LenProperties
  <2>4. QED
    BY <2>2, <2>3, EmptySeq
<1>11. /\ DOMAIN some \subseteq DOMAIN safe
       /\ \A i \in DOMAIN some : some[i] = safe[i]
       /\ some = <<>> => safe = <<>>
  <2>1. CASE safe = <<>>
    <3>1. some = [i \in 1 .. 0 |-> safe[i]]
      BY <2>1
    <3>2. DOMAIN some = {}
      BY <3>1
    <3>3. QED
      BY <2>1, <3>2
  <2>2. CASE safe # <<>>
    <3>1. some = [i \in 1 .. 1 |-> safe[i]]
      BY <2>2
    <3>2. DOMAIN some = {1} /\ some[1] = safe[1]
      BY <3>1
    <3>3. some # <<>>
      BY <3>2
    <3>4. QED
      BY <1>10, <2>2, <3>2, <3>3
  <2>3. QED
    BY <2>1, <2>2
<1> HIDE DEF some
<1>12. \A i \in DOMAIN safe : safe[i] \in all /\ TreeIsSafe(q, safe[i])
  BY <1>3, <1>8 DEF good
<1>13. ASSUME NEW n \in DOMAIN PlanJoin(q)
       PROVE  PlanJoin(q)[n] \in all /\ TreeIsSafe(q, PlanJoin(q)[n])
  <2>1. q.entity[q.expected] \in Keyed
    <3>1. DOMAIN <<>> = {}
      OBVIOUS
    <3>2. QED
      BY <1>6, <1>13, <3>1
  <2>2. PlanJoin(q) = safe \/ PlanJoin(q) = some
    BY <1>6, <2>1
  <2>3. QED
    BY <1>11, <1>12, <1>13, <2>2
<1>14. ASSUME PlanJoin(q) = <<>>, q.entity[q.expected] \in Keyed,
              ~ (Cardinality(all) > TreeLimit)
       PROVE  \A tree \in all : ~ TreeIsSafe(q, tree)
  <2>1. good = {}
    BY <1>6, <1>9, <1>11, <1>14
  <2>2. looked = all
    <3>1. /\ Cardinality(all) \in Nat
          /\ \A limit \in Nat : Cardinality(all) <= limit => First(limit, all, MetEarlier) = all
      BY <1>1, <1>2, SortingKeepsAll DEF C
    <3>2. TreeLimit \in Nat
      BY PlannerConstants
    <3>3. Cardinality(all) <= TreeLimit
      BY <1>14, <3>1, <3>2
    <3>4. QED
      BY <3>1, <3>2, <3>3 DEF looked
  <2>3. QED
    BY <2>1, <2>2 DEF good
<1>15. QED
  BY <1>13, <1>14 DEF all

-----------------------------------------------------------------------------
(* What is answered is a plan of a request, by the evidence of the tables. *)

PlanInv ==
  answer # None =>
    evidence # None /\ \E q \in Requests : request = q /\ answer = PlanJoin(q)

LEMMA PlansStay ==
  ASSUME NEW q, UNCHANGED evidence
  PROVE  PlanJoin(q)' = PlanJoin(q)
<1>1. Authorized' = Authorized
  BY DEF Authorized
<1>2. CandidateEdges(q)' = CandidateEdges(q)
  BY <1>1 DEF CandidateEdges, Forward, Backward
<1>3. QED
  BY <1>2 DEF PlanJoin, SpanningTrees

LEMMA PlanInvInit ==
  SqlInit => PlanInv
BY DEF SqlInit, Init, PlanInv

LEMMA PlanInvStays ==
  ASSUME PlanInv, UNCHANGED <<evidence, request, answer>>
  PROVE  PlanInv'
<1>1. \A q \in Requests : PlanJoin(q)' = PlanJoin(q)
  BY PlansStay
<1>2. QED
  BY <1>1 DEF PlanInv

LEMMA PlanInvNext ==
  PlanInv /\ [SqlNext]_<<vars, sqlVars>> => PlanInv'
<1> SUFFICES ASSUME PlanInv, [SqlNext]_<<vars, sqlVars>>
             PROVE  PlanInv'
  OBVIOUS
<1>1. CASE Verify
  BY <1>1 DEF Verify, PlanInv
<1>2. CASE GetJoinPlan
  <2>1. PICK q \in Requests : request' = q /\ answer' = PlanJoin(q)
    BY <1>2 DEF GetJoinPlan
  <2>2. evidence' = evidence /\ evidence # None
    BY <1>2 DEF GetJoinPlan
  <2>3. PlanJoin(q)' = PlanJoin(q)
    BY <2>2, PlansStay
  <2>4. QED
    BY <2>1, <2>2, <2>3 DEF PlanInv
<1>3. CASE UNCHANGED <<evidence, request, answer>>
  BY <1>3, PlanInvStays
<1>4. QED
  BY <1>1, <1>2, <1>3 DEF SqlNext, ValidateAlone, ValidateWithPlan, Search, vars

LEMMA PlanInvAlways ==
  SqlSpec => []PlanInv
BY PlanInvInit, PlanInvNext, PTL DEF SqlSpec

(* Every plan joins each ref once, within the depth of the request, and by *)
(* authorized relationships alone (plan_join).                             *)
THEOREM PlannedTreesAreWhole ==
  SqlSpec => []PlansAreTrees
<1>1. PlanInv => PlansAreTrees
  <2> SUFFICES ASSUME PlanInv, answer # None, NEW n \in DOMAIN answer
               PROVE  /\ Len(answer[n]) = Cardinality(request.refs) - 1
                      /\ \A ref \in request.refs : Hops(request, answer[n], ref)
                      /\ \A i \in DOMAIN answer[n] : answer[n][i].rel \in Authorized
    BY DEF PlansAreTrees, Answered
  <2>1. PICK q \in Requests : request = q /\ answer = PlanJoin(q)
    BY DEF PlanInv
  <2> DEFINE N == Cardinality(q.refs) - 1
             C == CandidateEdges(q)
             tree == answer[n]
  <2>2. tree \in AllTrees(q)
    BY <2>1, PlansAreSafeTrees
  <2>3. tree \in [1 .. N -> C] /\ \A ref \in q.refs : Hops(q, tree, ref)
    BY <2>2 DEF AllTrees
  <2>4. N \in Nat
    BY RequestsAreFinite
  <2>5. \A e \in C : e.rel \in Authorized
    BY CandidatesAreEdges
  <2> HIDE DEF N, C, tree
  <2>6. Len(tree) = N
    <3>1. tree \in Seq(C) /\ DOMAIN tree = 1 .. N
      BY <2>3, <2>4, SeqDef
    <3>2. QED
      BY <2>4, <3>1, LenProperties
  <2>7. \A i \in DOMAIN tree : tree[i].rel \in Authorized
    BY <2>3, <2>5
  <2>8. QED
    BY <2>1, <2>3, <2>6, <2>7 DEF N, tree
<1>2. QED
  BY <1>1, PlanInvAlways, PTL

(* A request is refused for want of a safe plan only when no tree that the *)
(* planner could have found is safe, as long as it looks at all of them.   *)
THEOREM RefusedWithoutSafePlans ==
  SqlSpec => []SafePlansAreFound
<1>1. PlanInv => SafePlansAreFound
  <2> SUFFICES ASSUME PlanInv, answer # None, answer = <<>>
               PROVE  \/ request.entity[request.expected] \notin Keyed
                      \/ \A tree \in AllTrees(request) : ~TreeIsSafe(request, tree)
                      \/ Cardinality(AllTrees(request)) > TreeLimit
    BY DEF SafePlansAreFound, Answered
  <2>1. PICK q \in Requests : request = q /\ answer = PlanJoin(q)
    BY DEF PlanInv
  <2>2. QED
    BY <2>1, PlansAreSafeTrees
<1>2. QED
  BY <1>1, PlanInvAlways, PTL

-----------------------------------------------------------------------------
(* The size of the largest group is one, and none is larger.               *)
LEMMA LargestIsThere ==
  ASSUME NEW table, NEW n \in Nat, DOMAIN table = 1 .. n
  PROVE  /\ LargestGroup(table) \in Nat
         /\ \A k \in Keys(table) : /\ IsFiniteSet(RowsWith(table, k))
                                  /\ Cardinality(RowsWith(table, k)) \in Nat
                                  /\ Cardinality(RowsWith(table, k)) <= LargestGroup(table)
<1> DEFINE sizes == {0} \cup {Cardinality(RowsWith(table, k)) : k \in Keys(table)}
           below == {m \in Nat : n - m \in sizes}
<1>1. \A k : IsFiniteSet(RowsWith(table, k)) /\ Cardinality(RowsWith(table, k)) \in 0 .. n
  <2> SUFFICES ASSUME NEW k
               PROVE  IsFiniteSet(RowsWith(table, k)) /\ Cardinality(RowsWith(table, k)) \in 0 .. n
    OBVIOUS
  <2>1. RowsWith(table, k) \in SUBSET (1 .. n)
    BY DEF RowsWith
  <2>2. IsFiniteSet(1 .. n) /\ Cardinality(1 .. n) = n
    BY FirstNumbers
  <2>3. IsFiniteSet(RowsWith(table, k)) /\ Cardinality(RowsWith(table, k)) <= n
    BY <2>1, <2>2, FS_Subset
  <2>4. Cardinality(RowsWith(table, k)) \in Nat
    BY <2>3, FS_CardinalityType
  <2>5. QED
    BY <2>3, <2>4
<1>2. 0 \in sizes /\ \A m \in sizes : m \in 0 .. n
  BY <1>1
<1>3. LargestGroup(table) = CHOOSE m \in sizes : \A l \in sizes : l <= m
  BY DEF LargestGroup
<1>4. \A k \in Keys(table) : Cardinality(RowsWith(table, k)) \in sizes
  OBVIOUS
<1> HIDE DEF sizes
<1>5. \E m \in sizes : \A l \in sizes : l <= m
  <2>1. below \in SUBSET Nat /\ below # {}
    <3>1. n \in below
      BY <1>2
    <3>2. QED
      BY <3>1
  <2>2. PICK least \in below : \A m \in below : least <= m
    <3> HIDE DEF below
    <3>1. QED
      BY <2>1, LeastIsThere
  <2>3. least \in Nat /\ n - least \in sizes
    OBVIOUS
  <2>4. \A l \in sizes : l <= n - least
    <3> SUFFICES ASSUME NEW l \in sizes
                 PROVE  l <= n - least
      OBVIOUS
    <3>1. l \in 0 .. n /\ n - l \in Nat /\ n - (n - l) = l
      BY <1>2
    <3>2. n - l \in below
      BY <3>1
    <3>3. least <= n - l
      BY <2>2, <3>2
    <3>4. QED
      BY <2>3, <3>1, <3>3
  <2>5. QED
    BY <2>3, <2>4
<1>6. LargestGroup(table) \in sizes /\ \A l \in sizes : l <= LargestGroup(table)
  BY <1>3, <1>5
<1>7. QED
  BY <1>1, <1>2, <1>4, <1>6

(* What the largest group tells of the rows.                               *)

(* What the largest group tells of the rows.                               *)
LEMMA GroupsOfOne ==
  ASSUME NEW table, NEW n \in Nat, DOMAIN table = 1 .. n, LargestGroup(table) <= 1,
         NEW i \in 1 .. n, NEW j \in 1 .. n, table[i] = table[j], table[i] # Null
  PROVE  i = j
<1> DEFINE group == RowsWith(table, table[i])
<1>1. table[i] \in Keys(table) /\ i \in group /\ j \in group
  BY DEF Keys, NonNull, RowsWith
<1> HIDE DEF group
<1>2. /\ LargestGroup(table) \in Nat
      /\ IsFiniteSet(group) /\ Cardinality(group) \in Nat /\ Cardinality(group) <= LargestGroup(table)
  BY <1>1, LargestIsThere DEF group
<1>3. Cardinality(group) <= 1
  BY <1>2
<1>4. QED
  BY <1>1, <1>2, <1>3, AtMostOne

(* Tables are sequences of rows.                                           *)
TablesInv == \A e \in Entities : Len(tables[e]) \in Nat /\ DOMAIN tables[e] = 1 .. Len(tables[e])

(* Rows that meet across a relationship: one side tells the other where    *)
(* the other's groups are of one.                                          *)
RowsMeet(r, a, c) ==
  a \in DOMAIN tables[Catalog[r].child] /\ c \in DOMAIN tables[Catalog[r].parent] /\ Meets(r, a, c)

LEMMA RowsMetAreOne ==
  ASSUME TablesInv, evidence = Measured, NEW r \in Relationships,
         NEW a, NEW b, NEW c, NEW d, RowsMeet(r, a, c), RowsMeet(r, b, d)
  PROVE  /\ evidence[r].maxParents <= 1 /\ a = b => c = d
         /\ evidence[r].maxChildren <= 1 /\ c = d => a = b
<1> DEFINE child == KeysIn(Catalog[r].child, Catalog[r].childColumns)
           parent == KeysIn(Catalog[r].parent, Catalog[r].parentColumns)
           n == Len(tables[Catalog[r].child])
           m == Len(tables[Catalog[r].parent])
<1>1. Catalog[r].child \in Entities /\ Catalog[r].parent \in Entities
  BY PlannerConstants
<1>2. /\ n \in Nat /\ DOMAIN child = 1 .. n /\ a \in 1 .. n /\ b \in 1 .. n
      /\ m \in Nat /\ DOMAIN parent = 1 .. m /\ c \in 1 .. m /\ d \in 1 .. m
  BY <1>1 DEF TablesInv, KeysIn, RowsMeet
<1>3. /\ child[a] = KeyOf(tables[Catalog[r].child][a], Catalog[r].childColumns)
      /\ child[b] = KeyOf(tables[Catalog[r].child][b], Catalog[r].childColumns)
      /\ parent[c] = KeyOf(tables[Catalog[r].parent][c], Catalog[r].parentColumns)
      /\ parent[d] = KeyOf(tables[Catalog[r].parent][d], Catalog[r].parentColumns)
  BY DEF KeysIn, RowsMeet
<1>4. child[a] # Null /\ child[a] = parent[c] /\ child[b] # Null /\ child[b] = parent[d]
  BY <1>3 DEF Meets, RowsMeet
<1>5. evidence[r].maxParents = LargestGroup(parent) /\ evidence[r].maxChildren = LargestGroup(child)
  BY DEF Measured, Measure
<1> HIDE DEF child, parent, n, m
<1>6. evidence[r].maxParents <= 1 /\ a = b => c = d
  BY <1>2, <1>4, <1>5, GroupsOfOne
<1>7. evidence[r].maxChildren <= 1 /\ c = d => a = b
  BY <1>2, <1>4, <1>5, GroupsOfOne
<1>8. QED
  BY <1>6, <1>7

-----------------------------------------------------------------------------
(* The search for the grain meets every ref of the tree.                   *)

AreMet(f, q, tree, n) ==
  f = [k \in 0 .. n |->
         IF k = 0 THEN {[ref |-> q.expected, parent |-> q.expected]}
         ELSE {[ref |-> s.to, parent |-> s.from] : s \in Leaving(Steps(tree), f[k - 1])}]

LEMMA StepsOfTree ==
  ASSUME NEW tree, NEW s \in Steps(tree)
  PROVE  \E i \in DOMAIN tree :
           \/ s.from = tree[i].from /\ s.to = tree[i].to /\ s.matches = tree[i].matches
           \/ s.from = tree[i].to /\ s.to = tree[i].from /\ s.matches = tree[i].reverse
BY DEF Steps, ToSet

LEMMA TreeIsStepped ==
  ASSUME NEW tree, NEW i \in DOMAIN tree
  PROVE  /\ \E s \in Steps(tree) : s.from = tree[i].from /\ s.to = tree[i].to
         /\ \E s \in Steps(tree) : s.from = tree[i].to /\ s.to = tree[i].from
<1> DEFINE e == tree[i]
           s == [from |-> e.from, to |-> e.to, matches |-> e.matches]
           t == [from |-> e.to, to |-> e.from, matches |-> e.reverse]
<1>1. e \in ToSet(tree)
  BY DEF ToSet
<1> HIDE DEF e
<1>2. s \in Steps(tree) /\ t \in Steps(tree)
  BY <1>1 DEF Steps
<1>3. s.from = e.from /\ s.to = e.to /\ t.from = e.to /\ t.to = e.from
  OBVIOUS
<1> HIDE DEF s, t
<1>4. QED
  BY <1>2, <1>3 DEF e

LEMMA SearchIsThere ==
  ASSUME NEW q \in Requests, NEW candidates, Within(q, candidates),
         NEW N \in Nat, NEW tree \in [1 .. N -> candidates]
  PROVE  \E f : /\ AreMet(f, q, tree, N)
                /\ f \in [0 .. N -> SUBSET [ref : q.refs, parent : q.refs]]
                /\ GrainCompatible(q, tree) <=>
                     \A n \in 0 .. N : \A s \in Leaving(Steps(tree), f[n]) : s.matches <= 1
<1> DEFINE T == SUBSET [ref : q.refs, parent : q.refs]
           start == {[ref |-> q.expected, parent |-> q.expected]}
           on(met) == {[ref |-> s.to, parent |-> s.from] : s \in Leaving(Steps(tree), met)}
           search == [met \in T |-> on(met)]
<1>1. Len(tree) = N /\ DOMAIN tree = 1 .. N
  <2>1. tree \in Seq(candidates)
    BY SeqDef
  <2>2. QED
    BY <2>1, LenProperties
<1>2. start \in T
  BY RequestsAreFinite
<1>3. search \in [T -> T]
  <2>1. ASSUME NEW met \in T
        PROVE  on(met) \in T
    <3> SUFFICES ASSUME NEW s \in Leaving(Steps(tree), met)
                 PROVE  [ref |-> s.to, parent |-> s.from] \in [ref : q.refs, parent : q.refs]
      OBVIOUS
    <3>1. s \in Steps(tree)
      BY DEF Leaving
    <3>2. PICK i \in DOMAIN tree : \/ s.from = tree[i].from /\ s.to = tree[i].to
                                   \/ s.from = tree[i].to /\ s.to = tree[i].from
      BY <3>1, StepsOfTree
    <3>3. tree[i] \in candidates
      BY <1>1
    <3>4. s.from \in q.refs /\ s.to \in q.refs
      BY <3>2, <3>3 DEF Within
    <3>5. QED
      BY <3>4
  <2> HIDE DEF T, on
  <2>2. QED
    BY <2>1
<1>4. PICK f \in [0 .. N -> T] : Iterated(f, start, search, N)
  <2> HIDE DEF T, start, search
  <2>1. QED
    BY <1>2, <1>3, Iterates
<1>5. \A k \in 0 .. N : f[k] = IF k = 0 THEN start ELSE on(f[k - 1])
  <2>1. \A k \in 0 .. N : k # 0 => k - 1 \in 0 .. N
    OBVIOUS
  <2>2. \A k \in 0 .. N : f[k] = IF k = 0 THEN start ELSE search[f[k - 1]]
    BY <1>4 DEF Iterated
  <2>3. \A k \in 0 .. N : k # 0 => search[f[k - 1]] = on(f[k - 1])
    <3> HIDE DEF T, on
    <3>1. QED
      BY <1>4, <2>1
  <2> HIDE DEF start, search, on
  <2>4. QED
    BY <2>2, <2>3
<1>6. f = [k \in 0 .. N |-> f[k]]
  BY <1>4
<1>7. f = [k \in 0 .. N |-> IF k = 0 THEN start ELSE on(f[k - 1])]
  <2> HIDE DEF T, start, search, on
  <2>1. QED
    BY <1>5, <1>6
<1>8. AreMet(f, q, tree, N)
  BY <1>7 DEF AreMet
<1> DEFINE g == CHOOSE h : AreMet(h, q, tree, N)
<1>9. AreMet(g, q, tree, N)
  BY <1>8
<1>10. GrainCompatible(q, tree) <=>
         \A n \in 0 .. N : \A s \in Leaving(Steps(tree), g[n]) : s.matches <= 1
  BY <1>1 DEF GrainCompatible, AreMet
<1>11. g \in [0 .. N -> T]
  <2> HIDE DEF g
  <2>1. \A k \in 0 .. N : g[k] = IF k = 0 THEN start ELSE on(g[k - 1])
    BY <1>9 DEF AreMet
  <2>2. g = [k \in 0 .. N |-> g[k]]
    BY <1>9 DEF AreMet
  <2> DEFINE S == {k \in 0 .. N : g[k] \in T}
  <2>3. 0 \in S
    <3> HIDE DEF T, start, on
    <3>1. 0 \in 0 .. N /\ g[0] = start
      BY <2>1
    <3>2. QED
      BY <1>2, <3>1
  <2>4. ASSUME NEW k \in 0 .. N, k \in S, k < N
        PROVE  k + 1 \in S
    <3>1. k + 1 \in 0 .. N /\ k + 1 # 0 /\ (k + 1) - 1 = k
      BY <2>4
    <3>2. g[k + 1] = on(g[k])
      BY <2>1, <3>1
    <3>3. g[k] \in T /\ search[g[k]] = on(g[k])
      BY <2>4
    <3>4. on(g[k]) \in T
      BY <1>3, <3>3
    <3> HIDE DEF T, on
    <3>5. QED
      BY <3>1, <3>2, <3>4
  <2> HIDE DEF S
  <2>5. \A k \in 0 .. N : k \in S
    BY <2>3, <2>4, UpTo
  <2>6. \A k \in 0 .. N : g[k] \in T
    BY <2>5 DEF S
  <2> HIDE DEF T, start, search, on
  <2>7. QED
    BY <2>2, <2>6
<1>12. QED
  BY <1>9, <1>10, <1>11

(* A set of refs that no edge of the tree leaves is all of them or none.   *)
LEMMA TreesAreConnected ==
  ASSUME NEW q, NEW candidates, NEW N \in Nat, NEW tree, IsTree(q, candidates, N, tree),
         NEW V, \A i \in 1 .. N : tree[i].from \in V <=> tree[i].to \in V,
         NEW some \in MetBy(q, tree, N), some \in V
  PROVE  MetBy(q, tree, N) \subseteq V
<1> DEFINE S == {k \in 0 .. N : MetBy(q, tree, k) \cap V # {} => MetBy(q, tree, k) \subseteq V}
<1>1. 0 \in S
  BY DEF MetBy
<1>2. ASSUME NEW k \in 0 .. N, k \in S, k < N
      PROVE  k + 1 \in S
  <2>1. k + 1 \in 1 .. N /\ (k + 1) - 1 = k /\ k + 1 \in 0 .. N
    BY <1>2
  <2>2. MetBy(q, tree, k + 1) = MetBy(q, tree, k) \cup {tree[k + 1].to}
    BY OneRefMore
  <2>3. tree[k + 1].from \in MetBy(q, tree, k)
    BY <2>1 DEF IsTree
  <2>4. tree[k + 1].from \in V <=> tree[k + 1].to \in V
    BY <2>1
  <2>5. QED
    BY <1>2, <2>1, <2>2, <2>3, <2>4
<1> HIDE DEF S
<1>3. \A k \in 0 .. N : k \in S
  BY <1>1, <1>2, UpTo
<1>4. N \in S
  BY <1>3
<1>5. QED
  BY <1>4 DEF S

(* The search goes back to no ref it comes from, and what it has met grows *)
(* until it has met all: there are as many rounds as there are edges.      *)
IsSearched(q, candidates, N, tree, f) ==
  /\ Within(q, candidates) /\ \A e \in candidates : e.from # e.to
  /\ Cardinality(q.refs) = N + 1
  /\ IsTree(q, candidates, N, tree) /\ MetBy(q, tree, N) = q.refs
  /\ f \in [0 .. N -> SUBSET [ref : q.refs, parent : q.refs]] /\ AreMet(f, q, tree, N)

LEMMA SearchMeetsAll ==
  ASSUME NEW q \in Requests, NEW candidates, NEW N \in Nat, NEW tree, NEW f,
         IsSearched(q, candidates, N, tree, f)
  PROVE  \A ref \in q.refs : \E k \in 0 .. N : \E m \in f[k] : m.ref = ref
<1> DEFINE V(n) == {ref \in q.refs : \E k \in 0 .. n : \E m \in f[k] : m.ref = ref}
<1>0. /\ Within(q, candidates) /\ \A e \in candidates : e.from # e.to
      /\ Cardinality(q.refs) = N + 1
      /\ IsTree(q, candidates, N, tree) /\ MetBy(q, tree, N) = q.refs
      /\ f \in [0 .. N -> SUBSET [ref : q.refs, parent : q.refs]] /\ AreMet(f, q, tree, N)
  BY DEF IsSearched
<1>1. /\ IsFiniteSet(q.refs) /\ q.expected \in q.refs
      /\ tree \in [1 .. N -> candidates] /\ DOMAIN tree = 1 .. N
  BY <1>0, RequestsAreFinite DEF IsTree
<1>2. /\ f[0] = {[ref |-> q.expected, parent |-> q.expected]}
      /\ \A k \in 0 .. N : k # 0 =>
           f[k] = {[ref |-> s.to, parent |-> s.from] : s \in Leaving(Steps(tree), f[k - 1])}
  <2>1. f[0] = {[ref |-> q.expected, parent |-> q.expected]}
    BY <1>0 DEF AreMet
  <2>2. ASSUME NEW k \in 0 .. N, k # 0
        PROVE  f[k] = {[ref |-> s.to, parent |-> s.from] : s \in Leaving(Steps(tree), f[k - 1])}
    BY <1>0, <2>2 DEF AreMet
  <2>3. QED
    BY <2>1, <2>2
<1>3. \A k \in 0 .. N : \A m \in f[k] : m.ref \in q.refs /\ m.parent \in q.refs
  BY <1>0
<1>4. \A i \in 1 .. N : /\ tree[i].from \in q.refs /\ tree[i].to \in q.refs
                        /\ tree[i].from # tree[i].to
  BY <1>0, <1>1 DEF Within
<1>5. \A n, k \in 0 .. N : k <= n => V(k) \subseteq V(n)
  OBVIOUS
<1>6. ASSUME NEW n \in 0 .. N, n < N, NEW a \in V(n), NEW s \in Steps(tree), s.from = a, s.to # a,
             s.to \in q.refs
      PROVE  s.to \in V(n + 1)
  <2>1. PICK k \in 0 .. n : \E m \in f[k] : m.ref = a
    OBVIOUS
  <2>2. PICK m \in f[k] : m.ref = a
    BY <2>1
  <2>3. k \in 0 .. N /\ k + 1 \in 0 .. N /\ k + 1 \in 0 .. n + 1 /\ k + 1 # 0 /\ (k + 1) - 1 = k
    BY <1>6
  <2>4. CASE s.to # m.parent
    <3>1. s \in Leaving(Steps(tree), f[k])
      BY <1>6, <2>2, <2>4 DEF Leaving
    <3>2. PICK next : next = [ref |-> s.to, parent |-> s.from]
      OBVIOUS
    <3>3. next \in f[k + 1] /\ next.ref = s.to
      BY <1>2, <2>3, <3>1, <3>2
    <3>4. QED
      BY <1>6, <2>3, <3>3
  <2>5. CASE s.to = m.parent
    <3>1. k # 0
      <4> SUFFICES ASSUME k = 0
                   PROVE  FALSE
        OBVIOUS
      <4>1. m = [ref |-> q.expected, parent |-> q.expected]
        BY <1>2, <2>2
      <4>2. QED
        BY <1>6, <2>2, <2>5, <4>1
    <3>2. PICK t \in Leaving(Steps(tree), f[k - 1]) : m = [ref |-> t.to, parent |-> t.from]
      BY <1>2, <2>2, <2>3, <3>1
    <3>3. m.parent = t.from
      BY <3>2
    <3>4. PICK before \in f[k - 1] : t.from = before.ref
      BY DEF Leaving
    <3>5. k - 1 \in 0 .. n + 1
      BY <2>3, <3>1
    <3>6. QED
      BY <1>6, <2>5, <3>3, <3>4, <3>5
  <2>6. QED
    BY <2>4, <2>5
<1>7. ASSUME NEW n \in 0 .. N, n < N, V(n + 1) = V(n)
      PROVE  V(n) = q.refs
  <2>1. \A i \in 1 .. N : tree[i].from \in V(n) <=> tree[i].to \in V(n)
    <3> SUFFICES ASSUME NEW i \in 1 .. N
                 PROVE  tree[i].from \in V(n) <=> tree[i].to \in V(n)
      OBVIOUS
    <3>1. /\ tree[i].from \in q.refs /\ tree[i].to \in q.refs
          /\ tree[i].from # tree[i].to
      BY <1>4
    <3>2. i \in DOMAIN tree
      BY <1>1
    <3>3. PICK s \in Steps(tree) : s.from = tree[i].from /\ s.to = tree[i].to
      BY <3>2, TreeIsStepped
    <3>4. PICK t \in Steps(tree) : t.from = tree[i].to /\ t.to = tree[i].from
      BY <3>2, TreeIsStepped
    <3> HIDE DEF V
    <3>5. tree[i].from \in V(n) => tree[i].to \in V(n)
      BY <1>6, <1>7, <3>1, <3>3
    <3>6. tree[i].to \in V(n) => tree[i].from \in V(n)
      BY <1>6, <1>7, <3>1, <3>4
    <3>7. QED
      BY <3>5, <3>6
  <2>2. q.expected \in V(n)
    <3>1. PICK m \in f[0] : m = [ref |-> q.expected, parent |-> q.expected]
      BY <1>2
    <3>2. m.ref = q.expected /\ 0 \in 0 .. n
      BY <3>1
    <3>3. QED
      BY <1>1, <3>2
  <2>3. V(n) \subseteq q.refs
    OBVIOUS
  <2> HIDE DEF V
  <2>4. MetBy(q, tree, N) \subseteq V(n)
    BY <1>0, <1>1, <2>1, <2>2, TreesAreConnected
  <2>5. QED
    BY <1>0, <2>3, <2>4
<1>8. \A n \in 0 .. N : V(n) \in SUBSET q.refs /\ IsFiniteSet(V(n)) /\ Cardinality(V(n)) \in Nat
  <2> SUFFICES ASSUME NEW n \in 0 .. N
               PROVE  V(n) \in SUBSET q.refs /\ IsFiniteSet(V(n)) /\ Cardinality(V(n)) \in Nat
    OBVIOUS
  <2>1. V(n) \in SUBSET q.refs
    OBVIOUS
  <2> HIDE DEF V
  <2>2. IsFiniteSet(V(n))
    BY <1>1, <2>1, FS_Subset
  <2>3. QED
    BY <2>1, <2>2, FS_CardinalityType
<1>9. q.expected \in V(0)
  <2>1. PICK m \in f[0] : m = [ref |-> q.expected, parent |-> q.expected]
    BY <1>2
  <2>2. m.ref = q.expected /\ 0 \in 0 .. 0
    BY <2>1
  <2>3. QED
    BY <1>1, <2>2
<1> HIDE DEF V
<1> DEFINE S == {n \in 0 .. N : V(n) = q.refs \/ Cardinality(V(n)) >= n + 1}
<1>10. 0 \in S
  <2>1. Cardinality(V(0)) # 0
    BY <1>8, <1>9, FS_EmptySet
  <2>2. Cardinality(V(0)) \in Nat
    BY <1>8
  <2>3. QED
    BY <2>1, <2>2
<1>11. ASSUME NEW n \in 0 .. N, n \in S, n < N
       PROVE  n + 1 \in S
  <2>1. n + 1 \in 0 .. N /\ n <= n + 1
    BY <1>11
  <2>2. /\ V(n) \subseteq V(n + 1) /\ V(n + 1) \subseteq q.refs /\ IsFiniteSet(V(n + 1))
        /\ Cardinality(V(n)) \in Nat /\ Cardinality(V(n + 1)) \in Nat
    BY <1>5, <1>8, <2>1
  <2>3. CASE V(n) = q.refs
    BY <2>1, <2>2, <2>3
  <2>4. CASE V(n) # q.refs
    <3>1. V(n + 1) # V(n)
      BY <1>7, <1>11, <2>4
    <3>2. Cardinality(V(n)) <= Cardinality(V(n + 1)) /\ Cardinality(V(n)) # Cardinality(V(n + 1))
      BY <2>2, <3>1, FS_Subset
    <3>3. Cardinality(V(n)) >= n + 1
      BY <1>11, <2>4
    <3>4. Cardinality(V(n + 1)) >= (n + 1) + 1
      BY <2>2, <3>2, <3>3
    <3>5. QED
      BY <2>1, <3>4
  <2>5. QED
    BY <2>3, <2>4
<1> HIDE DEF S
<1>12. \A n \in 0 .. N : n \in S
  BY <1>10, <1>11, UpTo
<1>13. N \in 0 .. N /\ N \in S
  BY <1>12
<1>14. V(N) = q.refs
  <2>1. V(N) \in SUBSET q.refs /\ Cardinality(V(N)) \in Nat
    BY <1>8, <1>13
  <2>2. Cardinality(V(N)) <= N + 1
    BY <1>0, <1>1, <2>1, FS_Subset
  <2>3. V(N) = q.refs \/ Cardinality(V(N)) = Cardinality(q.refs)
    BY <1>0, <1>13, <2>1, <2>2 DEF S
  <2>4. QED
    BY <1>1, <2>1, <2>3, FS_Subset
<1>15. QED
  BY <1>14 DEF V

(* Two rows joined along a safe tree with one row of the expected entity   *)
(* agree where the search gets, and so everywhere.                         *)
LEMMA SafeTreesKeepGrain ==
  ASSUME TablesInv, evidence = Measured,
         NEW q \in Requests, NEW tree \in AllTrees(q), GrainCompatible(q, tree)
  PROVE  KeepsGrain(q, tree)
<1> DEFINE N == Cardinality(q.refs) - 1
           C == CandidateEdges(q)
<1>1. /\ N \in Nat /\ Cardinality(q.refs) = N + 1 /\ IsFiniteSet(q.refs)
      /\ q.entity \in [q.refs -> Entities] /\ q.expected \in q.refs /\ q.start \in q.refs
  BY RequestsAreFinite
<1>2. \A e \in C : IsEdge(q, e)
  BY CandidatesAreEdges
<1>3. Within(q, C) /\ \A e \in C : e.from # e.to
  BY <1>2 DEF Within, IsEdge
<1>4. IsTree(q, C, N, tree)
  BY DEF AllTrees, IsTree, MetBy
<1>5. tree \in [1 .. N -> C] /\ DOMAIN tree = 1 .. N
  BY <1>4 DEF IsTree
<1> HIDE DEF C, N
<1>6. MetBy(q, tree, N) = q.refs
  <2>1. IsFiniteSet(MetBy(q, tree, N)) /\ Cardinality(MetBy(q, tree, N)) = N + 1
    BY <1>1, <1>4, RefsAreCounted
  <2>2. MetBy(q, tree, N) \in SUBSET q.refs
    BY <1>1, <1>3, <1>5 DEF MetBy, Within
  <2>3. QED
    BY <1>1, <2>1, <2>2, FS_Subset
<1>7. PICK f : /\ AreMet(f, q, tree, N)
               /\ f \in [0 .. N -> SUBSET [ref : q.refs, parent : q.refs]]
               /\ \A n \in 0 .. N : \A s \in Leaving(Steps(tree), f[n]) : s.matches <= 1
  BY <1>1, <1>3, <1>5, SearchIsThere
<1>8. \A ref \in q.refs : \E k \in 0 .. N : \E m \in f[k] : m.ref = ref
  <2>1. IsSearched(q, C, N, tree, f)
    BY <1>1, <1>3, <1>4, <1>6, <1>7 DEF IsSearched
  <2>2. QED
    BY <1>1, <2>1, SearchMeetsAll
<1>9. ASSUME NEW row \in DOMAIN tables[q.entity[q.expected]],
             NEW x \in Joined(q, tree, row), NEW y \in Joined(q, tree, row)
      PROVE  x = y
  <2>1. /\ x \in [q.refs -> 1 .. MaxRows] /\ y \in [q.refs -> 1 .. MaxRows]
        /\ x[q.expected] = y[q.expected]
    BY DEF Joined
  <2>2. \A ref \in q.refs : x[ref] \in DOMAIN tables[q.entity[ref]]
                            /\ y[ref] \in DOMAIN tables[q.entity[ref]]
    <3> SUFFICES ASSUME NEW ref \in q.refs
                 PROVE  x[ref] \in DOMAIN tables[q.entity[ref]]
                        /\ y[ref] \in DOMAIN tables[q.entity[ref]]
      OBVIOUS
    <3>1. x[ref] <= Len(tables[q.entity[ref]]) /\ y[ref] <= Len(tables[q.entity[ref]])
      BY DEF Joined
    <3>2. /\ Len(tables[q.entity[ref]]) \in Nat
          /\ DOMAIN tables[q.entity[ref]] = 1 .. Len(tables[q.entity[ref]])
      BY <1>1 DEF TablesInv
    <3>3. x[ref] \in Nat /\ x[ref] >= 1 /\ y[ref] \in Nat /\ y[ref] >= 1
      BY <2>1, PlannerConstants
    <3>4. QED
      BY <3>1, <3>2, <3>3
  <2>3. ASSUME NEW i \in 1 .. N
        PROVE  /\ tree[i].matches <= 1 /\ x[tree[i].from] = y[tree[i].from]
                    => x[tree[i].to] = y[tree[i].to]
               /\ tree[i].reverse <= 1 /\ x[tree[i].to] = y[tree[i].to]
                    => x[tree[i].from] = y[tree[i].from]
    <3> DEFINE e == tree[i]
    <3>1. IsEdge(q, e)
      BY <1>2, <1>5
    <3>2. /\ IF e.traversal = "forward" THEN Meets(e.rel, x[e.from], x[e.to])
                                        ELSE Meets(e.rel, x[e.to], x[e.from])
          /\ IF e.traversal = "forward" THEN Meets(e.rel, y[e.from], y[e.to])
                                        ELSE Meets(e.rel, y[e.to], y[e.from])
      BY <1>5 DEF Joined
    <3> HIDE DEF e
    <3>3. e.rel \in Relationships /\ e.from \in q.refs /\ e.to \in q.refs
      BY <3>1 DEF IsEdge
    <3>4. /\ x[e.from] \in DOMAIN tables[q.entity[e.from]] /\ x[e.to] \in DOMAIN tables[q.entity[e.to]]
          /\ y[e.from] \in DOMAIN tables[q.entity[e.from]] /\ y[e.to] \in DOMAIN tables[q.entity[e.to]]
      BY <2>2, <3>3
    <3>5. CASE e.traversal = "forward"
      <4>1. /\ q.entity[e.from] = Catalog[e.rel].child /\ q.entity[e.to] = Catalog[e.rel].parent
            /\ e = Forward(e.rel, e.from, e.to)
        BY <3>1, <3>5 DEF IsEdge
      <4>2. e.matches = evidence[e.rel].maxParents /\ e.reverse = evidence[e.rel].maxChildren
        BY <4>1 DEF Forward
      <4>3. Meets(e.rel, x[e.from], x[e.to]) /\ Meets(e.rel, y[e.from], y[e.to])
        BY <3>2, <3>5
      <4>4. RowsMeet(e.rel, x[e.from], x[e.to]) /\ RowsMeet(e.rel, y[e.from], y[e.to])
        BY <3>4, <4>1, <4>3 DEF RowsMeet
      <4>5. /\ evidence[e.rel].maxParents <= 1 /\ x[e.from] = y[e.from] => x[e.to] = y[e.to]
            /\ evidence[e.rel].maxChildren <= 1 /\ x[e.to] = y[e.to] => x[e.from] = y[e.from]
        BY <3>3, <4>4, RowsMetAreOne
      <4>6. QED
        BY <4>2, <4>5 DEF e
    <3>6. CASE e.traversal # "forward"
      <4>1. /\ q.entity[e.to] = Catalog[e.rel].child /\ q.entity[e.from] = Catalog[e.rel].parent
            /\ e = Backward(e.rel, e.from, e.to)
        BY <3>1, <3>6 DEF IsEdge
      <4>2. e.matches = evidence[e.rel].maxChildren /\ e.reverse = evidence[e.rel].maxParents
        BY <4>1 DEF Backward
      <4>3. Meets(e.rel, x[e.to], x[e.from]) /\ Meets(e.rel, y[e.to], y[e.from])
        BY <3>2, <3>6
      <4>4. RowsMeet(e.rel, x[e.to], x[e.from]) /\ RowsMeet(e.rel, y[e.to], y[e.from])
        BY <3>4, <4>1, <4>3 DEF RowsMeet
      <4>5. /\ evidence[e.rel].maxParents <= 1 /\ x[e.to] = y[e.to] => x[e.from] = y[e.from]
            /\ evidence[e.rel].maxChildren <= 1 /\ x[e.from] = y[e.from] => x[e.to] = y[e.to]
        BY <3>3, <4>4, RowsMetAreOne
      <4>6. QED
        BY <4>2, <4>5 DEF e
    <3>7. QED
      BY <3>5, <3>6
  <2>4. ASSUME NEW s \in Steps(tree), s.matches <= 1, x[s.from] = y[s.from]
        PROVE  x[s.to] = y[s.to]
    <3>1. PICK i \in DOMAIN tree :
            \/ s.from = tree[i].from /\ s.to = tree[i].to /\ s.matches = tree[i].matches
            \/ s.from = tree[i].to /\ s.to = tree[i].from /\ s.matches = tree[i].reverse
      BY StepsOfTree
    <3>2. i \in 1 .. N
      BY <1>5
    <3>3. QED
      BY <2>3, <2>4, <3>1, <3>2
  <2> DEFINE S == {k \in 0 .. N : \A m \in f[k] : x[m.ref] = y[m.ref]}
  <2>5. 0 \in S
    <3>1. f[0] = {[ref |-> q.expected, parent |-> q.expected]} /\ 0 \in 0 .. N
      BY <1>1, <1>7 DEF AreMet
    <3>2. QED
      BY <2>1, <3>1
  <2>6. ASSUME NEW k \in 0 .. N, k \in S, k < N
        PROVE  k + 1 \in S
    <3>1. k + 1 \in 0 .. N /\ k + 1 # 0 /\ (k + 1) - 1 = k
      BY <1>1, <2>6
    <3>2. f[k + 1] = {[ref |-> s.to, parent |-> s.from] : s \in Leaving(Steps(tree), f[k])}
      BY <1>7, <3>1 DEF AreMet
    <3>3. ASSUME NEW m \in f[k + 1]
          PROVE  x[m.ref] = y[m.ref]
      <4>1. PICK s \in Leaving(Steps(tree), f[k]) : m = [ref |-> s.to, parent |-> s.from]
        BY <3>2
      <4>2. s \in Steps(tree) /\ s.matches <= 1 /\ m.ref = s.to
        BY <1>7, <4>1 DEF Leaving
      <4>3. PICK before \in f[k] : s.from = before.ref
        BY DEF Leaving
      <4>4. x[s.from] = y[s.from]
        BY <2>6, <4>3
      <4>5. QED
        BY <2>4, <4>2, <4>4
    <3>4. QED
      BY <3>1, <3>3
  <2> HIDE DEF S
  <2>7. \A k \in 0 .. N : k \in S
    BY <1>1, <2>5, <2>6, UpTo
  <2>8. \A ref \in q.refs : x[ref] = y[ref]
    BY <1>8, <2>7 DEF S
  <2>9. QED
    BY <2>1, <2>8
<1>10. ASSUME NEW row \in DOMAIN tables[q.entity[q.expected]]
       PROVE  Cardinality(Joined(q, tree, row)) <= 1
  <2>1. IsFiniteSet(1 .. MaxRows)
    BY PlannerConstants, FirstNumbers
  <2>2. IsFiniteSet([q.refs -> 1 .. MaxRows])
    BY <1>1, <2>1, FunctionsAreFinite
  <2>3. Joined(q, tree, row) \in SUBSET [q.refs -> 1 .. MaxRows]
    BY DEF Joined
  <2>4. IsFiniteSet(Joined(q, tree, row))
    BY <2>2, <2>3, FS_Subset
  <2>5. QED
    BY <1>9, <2>4, AtMostOne
<1>11. QED
  BY <1>10 DEF KeepsGrain

-----------------------------------------------------------------------------
(* The evidence is that of the tables, which stay as they are.             *)
EvidenceInv == TablesInv /\ (evidence # None => evidence = Measured)

LEMMA EvidenceInvInit ==
  SqlInit => EvidenceInv
<1> SUFFICES ASSUME SqlInit
             PROVE  EvidenceInv
  OBVIOUS
<1>1. TablesInv
  <2> SUFFICES ASSUME NEW e \in Entities
               PROVE  Len(tables[e]) \in Nat /\ DOMAIN tables[e] = 1 .. Len(tables[e])
    BY DEF TablesInv
  <2> DEFINE R == UNION {Rows(entity) : entity \in Entities}
  <2>1. PICK n \in 0 .. MaxRows : tables[e] \in [1 .. n -> R]
    BY DEF SqlInit, Init
  <2>2. n \in Nat
    BY PlannerConstants
  <2> HIDE DEF R
  <2>3. tables[e] \in Seq(R) /\ DOMAIN tables[e] = 1 .. n
    BY <2>1, <2>2, SeqDef
  <2>4. QED
    BY <2>3, LenProperties
<1>2. QED
  BY <1>1 DEF EvidenceInv, SqlInit, Init

LEMMA EvidenceInvNext ==
  EvidenceInv /\ [SqlNext]_<<vars, sqlVars>> => EvidenceInv'
<1> SUFFICES ASSUME EvidenceInv, [SqlNext]_<<vars, sqlVars>>
             PROVE  EvidenceInv'
  OBVIOUS
<1>1. tables' = tables
  BY DEF SqlNext, Verify, GetJoinPlan, ValidateAlone, ValidateWithPlan, Search, vars
<1>2. TablesInv'
  BY <1>1 DEF EvidenceInv, TablesInv
<1>3. Measured' = Measured
  BY <1>1 DEF Measured, KeysIn
<1>4. evidence' = Measured \/ evidence' = evidence
  BY DEF SqlNext, Verify, GetJoinPlan, ValidateAlone, ValidateWithPlan, Search, vars
<1>5. QED
  BY <1>2, <1>3, <1>4 DEF EvidenceInv

LEMMA EvidenceInvAlways ==
  SqlSpec => []EvidenceInv
BY EvidenceInvInit, EvidenceInvNext, PTL DEF SqlSpec

(* Joining the tables along any plan repeats no row of the expected        *)
(* entity, whatever the rows: what grain_compatible concludes from the     *)
(* largest groups of each relationship.                                    *)
THEOREM PlannedJoinsKeepGrain ==
  SqlSpec => []PlansKeepGrain
<1>1. PlanInv /\ EvidenceInv => PlansKeepGrain
  <2> SUFFICES ASSUME PlanInv, EvidenceInv, answer # None, NEW n \in DOMAIN answer
               PROVE  KeepsGrain(request, answer[n])
    BY DEF PlansKeepGrain, Answered
  <2>1. PICK q \in Requests : request = q /\ answer = PlanJoin(q) /\ evidence # None
    BY DEF PlanInv
  <2>2. answer[n] \in AllTrees(q) /\ GrainCompatible(q, answer[n])
    BY <2>1, PlansAreSafeTrees DEF TreeIsSafe
  <2>3. TablesInv /\ evidence = Measured
    BY <2>1 DEF EvidenceInv
  <2>4. QED
    BY <2>1, <2>2, <2>3, SafeTreesKeepGrain
<1>2. QED
  BY <1>1, PlanInvAlways, EvidenceInvAlways, PTL

-----------------------------------------------------------------------------
(* A walk through a tree, never back, ends: it has met a branch of the     *)
(* tree, of which only the ref it comes from is next to where it is.       *)

Joins(tree, i, a, b) ==
  \/ tree[i].from = a /\ tree[i].to = b
  \/ tree[i].from = b /\ tree[i].to = a

(* V hangs together below `top`, which was met before the rest of it.      *)
IsBranch(q, tree, N, V, top) ==
  /\ top \in V
  /\ \A i \in 1 .. N : tree[i].to \in V /\ tree[i].to # top => tree[i].from \in V
  /\ \A i \in 1 .. N : tree[i].to = top => V \cap MetBy(q, tree, i - 1) = {}

LEMMA MetOnce ==
  ASSUME NEW q, NEW candidates, NEW N \in Nat, NEW tree, IsTree(q, candidates, N, tree),
         NEW i \in 1 .. N, NEW k \in 1 .. N
  PROVE  /\ tree[i].from \in MetBy(q, tree, i - 1) /\ tree[i].to \notin MetBy(q, tree, i - 1)
         /\ tree[i].to \in MetBy(q, tree, k - 1) => i < k
         /\ i < k => tree[i].to \in MetBy(q, tree, k - 1)
         /\ i < k => MetBy(q, tree, i - 1) \subseteq MetBy(q, tree, k - 1)
         /\ tree[i].to = tree[k].to => i = k
<1>1. \A j \in 1 .. N : tree[j].from \in MetBy(q, tree, j - 1) /\ tree[j].to \notin MetBy(q, tree, j - 1)
  BY DEF IsTree
<1>2. ASSUME NEW a \in 1 .. N, NEW b \in 1 .. N, a <= b
      PROVE  MetBy(q, tree, a - 1) \subseteq MetBy(q, tree, b - 1)
  <2>1. b - 1 \in Nat /\ a - 1 \in 0 .. b - 1
    BY <1>2
  <2>2. PICK n \in Nat : n = b - 1
    BY <2>1
  <2>3. PICK m \in 0 .. n : m = a - 1
    BY <2>1, <2>2
  <2>4. MetBy(q, tree, m) \subseteq MetBy(q, tree, n)
    BY MetByGrows
  <2>5. QED
    BY <2>2, <2>3, <2>4
<1>3. ASSUME NEW a \in 1 .. N, NEW b \in 1 .. N, a < b
      PROVE  tree[a].to \in MetBy(q, tree, b - 1)
  <2>1. a \in 1 .. b - 1
    BY <1>3
  <2>2. QED
    BY <2>1 DEF MetBy
<1>4. tree[i].to \in MetBy(q, tree, k - 1) => i < k
  <2> SUFFICES ASSUME ~ (i < k)
               PROVE  tree[i].to \notin MetBy(q, tree, k - 1)
    OBVIOUS
  <2>1. k <= i
    OBVIOUS
  <2>2. QED
    BY <1>1, <1>2, <2>1
<1>5. ASSUME tree[i].to = tree[k].to, i # k
      PROVE  FALSE
  <2>1. i < k \/ k < i
    BY <1>5
  <2>2. CASE i < k
    BY <1>1, <1>3, <1>5, <2>2
  <2>3. CASE k < i
    BY <1>1, <1>3, <1>5, <2>3
  <2>4. QED
    BY <2>1, <2>2, <2>3
<1>6. i < k => i <= k
  OBVIOUS
<1>7. QED
  BY <1>1, <1>2, <1>3, <1>4, <1>5, <1>6

(* Nothing outside of a branch is next to two of its refs.                 *)
LEMMA OneNeighbour ==
  ASSUME NEW q, NEW candidates, NEW N \in Nat, NEW tree, IsTree(q, candidates, N, tree),
         NEW V, NEW top, IsBranch(q, tree, N, V, top),
         NEW t, t \notin V, NEW r \in V, NEW u \in V,
         NEW i \in 1 .. N, Joins(tree, i, r, t), NEW k \in 1 .. N, Joins(tree, k, u, t)
  PROVE  r = u
<1>1. ASSUME NEW a \in V, NEW b \in V, NEW m \in 1 .. N, NEW n \in 1 .. N,
             tree[m].from = t, tree[m].to = a, tree[n].from = b, tree[n].to = t
      PROVE  FALSE
  <2>1. a = top
    BY <1>1 DEF IsBranch
  <2>2. V \cap MetBy(q, tree, m - 1) = {}
    BY <1>1, <2>1 DEF IsBranch
  <2>3. tree[m].from \in MetBy(q, tree, m - 1) /\ tree[n].from \in MetBy(q, tree, n - 1)
    BY MetOnce
  <2>4. n < m
    BY <1>1, <2>3, MetOnce
  <2>5. MetBy(q, tree, n - 1) \subseteq MetBy(q, tree, m - 1)
    BY <2>4, MetOnce
  <2>6. QED
    BY <1>1, <2>2, <2>3, <2>5
<1>2. CASE tree[i].from = r /\ tree[i].to = t
  <2>1. CASE tree[k].from = u /\ tree[k].to = t
    <3>1. i = k
      BY <1>2, <2>1, MetOnce
    <3>2. QED
      BY <1>2, <2>1, <3>1
  <2>2. CASE tree[k].from = t /\ tree[k].to = u
    BY <1>1, <1>2, <2>2
  <2>3. QED
    BY <2>1, <2>2 DEF Joins
<1>3. CASE tree[i].from = t /\ tree[i].to = r
  <2>1. CASE tree[k].from = u /\ tree[k].to = t
    BY <1>1, <1>3, <2>1
  <2>2. CASE tree[k].from = t /\ tree[k].to = u
    BY <1>3, <2>2 DEF IsBranch
  <2>3. QED
    BY <2>1, <2>2 DEF Joins
<1>4. QED
  BY <1>2, <1>3 DEF Joins

(* A branch with a ref next to it is a branch.                             *)
LEMMA BranchGrows ==
  ASSUME NEW q, NEW candidates, NEW N \in Nat, NEW tree, IsTree(q, candidates, N, tree),
         NEW V, NEW top, IsBranch(q, tree, N, V, top),
         NEW t, t \notin V, NEW r \in V, NEW i \in 1 .. N, Joins(tree, i, r, t)
  PROVE  \E higher : IsBranch(q, tree, N, V \cup {t}, higher)
<1> DEFINE W == V \cup {t}
<1>1. CASE tree[i].from = t /\ tree[i].to = r
  <2>1. r = top /\ V \cap MetBy(q, tree, i - 1) = {}
    BY <1>1 DEF IsBranch
  <2>2. ASSUME NEW j \in 1 .. N, tree[j].to \in W, tree[j].to # t
        PROVE  tree[j].from \in W
    <3>1. CASE tree[j].to = top
      <4>1. j = i
        BY <1>1, <2>1, <3>1, MetOnce
      <4>2. QED
        BY <1>1, <4>1
    <3>2. CASE tree[j].to # top
      BY <2>2, <3>2 DEF IsBranch
    <3>3. QED
      BY <3>1, <3>2
  <2>3. ASSUME NEW j \in 1 .. N, tree[j].to = t
        PROVE  W \cap MetBy(q, tree, j - 1) = {}
    <3>1. t \in MetBy(q, tree, i - 1) /\ t \notin MetBy(q, tree, j - 1)
      BY <1>1, <2>3, MetOnce
    <3>2. j < i
      BY <2>3, <3>1, MetOnce
    <3>3. MetBy(q, tree, j - 1) \subseteq MetBy(q, tree, i - 1)
      BY <3>2, MetOnce
    <3>4. QED
      BY <2>1, <3>1, <3>3
  <2> HIDE DEF W
  <2>4. t \in W
    BY DEF W
  <2>5. IsBranch(q, tree, N, W, t)
    BY <2>2, <2>3, <2>4 DEF IsBranch
  <2>6. QED
    BY <2>5 DEF W
<1>2. CASE tree[i].from = r /\ tree[i].to = t
  <2>1. ASSUME NEW j \in 1 .. N, tree[j].to \in W, tree[j].to # top
        PROVE  tree[j].from \in W
    <3>1. CASE tree[j].to = t
      <4>1. j = i
        BY <1>2, <3>1, MetOnce
      <4>2. QED
        BY <1>2, <4>1
    <3>2. CASE tree[j].to # t
      BY <2>1, <3>2 DEF IsBranch
    <3>3. QED
      BY <3>1, <3>2
  <2>2. ASSUME NEW j \in 1 .. N, tree[j].to = top
        PROVE  W \cap MetBy(q, tree, j - 1) = {}
    <3>1. V \cap MetBy(q, tree, j - 1) = {}
      BY <2>2 DEF IsBranch
    <3>2. t \notin MetBy(q, tree, j - 1)
      <4> SUFFICES ASSUME t \in MetBy(q, tree, j - 1)
                   PROVE  FALSE
        OBVIOUS
      <4>1. i < j
        BY <1>2, MetOnce
      <4>2. tree[i].from \in MetBy(q, tree, j - 1)
        BY <4>1, MetOnce
      <4>3. QED
        BY <1>2, <3>1, <4>2
    <3>3. QED
      BY <3>1, <3>2
  <2> HIDE DEF W
  <2>3. top \in W
    BY DEF W, IsBranch
  <2>4. IsBranch(q, tree, N, W, top)
    BY <2>1, <2>2, <2>3 DEF IsBranch
  <2>5. QED
    BY <2>4 DEF W
<1>3. QED
  BY <1>1, <1>2 DEF Joins

(* Where a walk of n steps is: what it met is a branch, and all that is    *)
(* next to it, but where it comes from, it has not met.                    *)
IsWalked(q, tree, N, n, m, V) ==
  /\ V \subseteq q.refs /\ m.ref \in V /\ Cardinality(V) = n + 1
  /\ \E top : IsBranch(q, tree, N, V, top)
  /\ \A i \in 1 .. N : \A t : Joins(tree, i, m.ref, t) /\ t # m.parent => t \notin V

LEMMA WalkGoesOn ==
  ASSUME NEW q \in Requests, NEW candidates, NEW N \in Nat, NEW tree, NEW f,
         IsSearched(q, candidates, N, tree, f),
         NEW n \in Nat, NEW m, NEW V, IsWalked(q, tree, N, n, m, V),
         NEW i \in 1 .. N, NEW t, Joins(tree, i, m.ref, t), t # m.parent
  PROVE  IsWalked(q, tree, N, n + 1, [ref |-> t, parent |-> m.ref], V \cup {t})
<1>0. /\ Within(q, candidates) /\ \A e \in candidates : e.from # e.to
      /\ IsTree(q, candidates, N, tree)
  BY DEF IsSearched
<1>1. /\ V \subseteq q.refs /\ m.ref \in V /\ Cardinality(V) = n + 1
      /\ \A j \in 1 .. N : \A other : Joins(tree, j, m.ref, other) /\ other # m.parent => other \notin V
  BY DEF IsWalked
<1>2. PICK top : IsBranch(q, tree, N, V, top)
  BY DEF IsWalked
<1>3. t \notin V
  BY <1>1
<1>4. t \in q.refs
  <2>1. tree[i] \in candidates
    BY <1>0 DEF IsTree
  <2>2. QED
    BY <1>0, <2>1 DEF Within, Joins
<1>5. Cardinality(V \cup {t}) = (n + 1) + 1
  <2>1. IsFiniteSet(q.refs)
    BY RequestsAreFinite
  <2>2. IsFiniteSet(V)
    BY <1>1, <2>1, FS_Subset
  <2>3. QED
    BY <1>1, <1>3, <2>2, FS_AddElement
<1>6. \E higher : IsBranch(q, tree, N, V \cup {t}, higher)
  BY <1>0, <1>1, <1>2, <1>3, BranchGrows
<1>7. ASSUME NEW k \in 1 .. N, NEW u, Joins(tree, k, t, u), u # m.ref
      PROVE  u \notin V \cup {t}
  <2>1. u # t
    <3>1. tree[k] \in candidates
      BY <1>0 DEF IsTree
    <3>2. tree[k].from # tree[k].to
      BY <1>0, <3>1
    <3>3. QED
      BY <1>7, <3>2 DEF Joins
  <2>2. u \notin V
    <3> SUFFICES ASSUME u \in V
                 PROVE  FALSE
      OBVIOUS
    <3>1. Joins(tree, k, u, t)
      BY <1>7 DEF Joins
    <3>2. m.ref = u
      BY <1>0, <1>1, <1>2, <1>3, <3>1, OneNeighbour
    <3>3. QED
      BY <1>7, <3>2
  <2>3. QED
    BY <2>1, <2>2
<1>8. QED
  BY <1>1, <1>4, <1>5, <1>6, <1>7 DEF IsWalked

(* A walk has no more steps than the tree has edges.                       *)
LEMMA WalksEnd ==
  ASSUME NEW q \in Requests, NEW candidates, NEW N \in Nat, NEW tree, NEW f,
         IsSearched(q, candidates, N, tree, f)
  PROVE  Leaving(Steps(tree), f[N]) = {}
<1>0. /\ Cardinality(q.refs) = N + 1 /\ IsTree(q, candidates, N, tree)
      /\ AreMet(f, q, tree, N) /\ DOMAIN tree = 1 .. N
  BY DEF IsSearched, IsTree
<1>1. IsFiniteSet(q.refs) /\ q.expected \in q.refs
  BY RequestsAreFinite
<1> DEFINE S == {k \in 0 .. N : \A m \in f[k] : \E V : IsWalked(q, tree, N, k, m, V)}
<1>2. ASSUME NEW s \in Steps(tree)
      PROVE  \E i \in 1 .. N : Joins(tree, i, s.from, s.to)
  BY <1>0, StepsOfTree DEF Joins
<1>3. 0 \in S
  <2>1. f[0] = {[ref |-> q.expected, parent |-> q.expected]}
    BY <1>0 DEF AreMet
  <2>2. PICK x : x = q.expected
    OBVIOUS
  <2>3. Cardinality({x}) = 1
    BY FS_Singleton
  <2>4. \A i \in 1 .. N : tree[i].from # tree[i].to
    <3>1. \A i \in 1 .. N : tree[i] \in candidates
      BY <1>0 DEF IsTree
    <3>2. QED
      BY <3>1 DEF IsSearched
  <2>5. IsBranch(q, tree, N, {x}, x)
    <3>1. \A i \in 1 .. N : tree[i].to = x => {x} \cap MetBy(q, tree, i - 1) = {}
      BY <1>0 DEF IsTree
    <3>2. QED
      BY <3>1 DEF IsBranch
  <2>6. \A i \in 1 .. N : \A t : Joins(tree, i, x, t) => t # x
    BY <2>4 DEF Joins
  <2>7. PICK m : m = [ref |-> x, parent |-> x]
    OBVIOUS
  <2>8. m.ref = x /\ m.parent = x
    BY <2>7
  <2>9. IsWalked(q, tree, N, 0, m, {x})
    BY <1>1, <2>2, <2>3, <2>5, <2>6, <2>8 DEF IsWalked
  <2>10. QED
    BY <2>1, <2>2, <2>7, <2>9
<1>4. ASSUME NEW k \in 0 .. N, k \in S, k < N
      PROVE  k + 1 \in S
  <2>1. k + 1 \in 0 .. N /\ k + 1 # 0 /\ (k + 1) - 1 = k /\ k \in Nat
    BY <1>4
  <2>2. f[k + 1] = {[ref |-> s.to, parent |-> s.from] : s \in Leaving(Steps(tree), f[k])}
    BY <1>0, <2>1 DEF AreMet
  <2>3. ASSUME NEW m \in f[k + 1]
        PROVE  \E V : IsWalked(q, tree, N, k + 1, m, V)
    <3>1. PICK s \in Leaving(Steps(tree), f[k]) : m = [ref |-> s.to, parent |-> s.from]
      BY <2>2
    <3>2. PICK before \in f[k] : s.from = before.ref /\ s.to # before.parent
      BY DEF Leaving
    <3>3. PICK i \in 1 .. N : Joins(tree, i, s.from, s.to)
      BY <1>2 DEF Leaving
    <3>4. PICK V : IsWalked(q, tree, N, k, before, V)
      BY <1>4
    <3>5. PICK t : t = s.to
      OBVIOUS
    <3>6. Joins(tree, i, before.ref, t) /\ t # before.parent
      BY <3>2, <3>3, <3>5
    <3>7. IsWalked(q, tree, N, k + 1, [ref |-> t, parent |-> before.ref], V \cup {t})
      BY <2>1, <3>4, <3>6, WalkGoesOn
    <3>8. QED
      BY <3>1, <3>2, <3>5, <3>7
  <2>4. QED
    BY <2>1, <2>3
<1> HIDE DEF S
<1>5. \A k \in 0 .. N : k \in S
  BY <1>3, <1>4, UpTo
<1>6. ASSUME NEW s \in Leaving(Steps(tree), f[N])
      PROVE  FALSE
  <2>1. N \in 0 .. N /\ \A m \in f[N] : \E V : IsWalked(q, tree, N, N, m, V)
    BY <1>5 DEF S
  <2>2. PICK before \in f[N] : s.from = before.ref /\ s.to # before.parent
    BY <1>6 DEF Leaving
  <2>3. PICK i \in 1 .. N : Joins(tree, i, s.from, s.to)
    BY <1>2, <1>6 DEF Leaving
  <2>4. PICK V : IsWalked(q, tree, N, N, before, V)
    BY <2>1
  <2>5. PICK t : t = s.to
    OBVIOUS
  <2>6. Joins(tree, i, before.ref, t) /\ t # before.parent
    BY <2>2, <2>3, <2>5
  <2>7. PICK W : W = V \cup {t}
    OBVIOUS
  <2>8. PICK m : m = [ref |-> t, parent |-> before.ref]
    OBVIOUS
  <2>9. IsWalked(q, tree, N, N + 1, m, W)
    BY <2>4, <2>6, <2>7, <2>8, WalkGoesOn
  <2>10. W \subseteq q.refs /\ Cardinality(W) = (N + 1) + 1
    BY <2>9 DEF IsWalked
  <2>11. Cardinality(W) <= Cardinality(q.refs)
    BY <1>1, <2>10, FS_Subset
  <2>12. QED
    BY <1>0, <2>10, <2>11
<1>7. QED
  BY <1>6

(* What the search meets in a safe tree: places from which nothing that    *)
(* leads away fans out, and which lead to one another only.                *)
LEMMA SafeTreesAreWalked ==
  ASSUME NEW q \in Requests, NEW tree \in AllTrees(q), GrainCompatible(q, tree)
  PROVE  \E met : /\ [ref |-> q.expected, parent |-> q.expected] \in met
                 /\ \A s \in Leaving(Steps(tree), met) :
                      s.matches <= 1 /\ [ref |-> s.to, parent |-> s.from] \in met
<1> DEFINE N == Cardinality(q.refs) - 1
           C == CandidateEdges(q)
<1>1. /\ N \in Nat /\ Cardinality(q.refs) = N + 1 /\ IsFiniteSet(q.refs) /\ q.start \in q.refs
  BY RequestsAreFinite
<1>2. \A e \in C : IsEdge(q, e)
  BY CandidatesAreEdges
<1>3. Within(q, C) /\ \A e \in C : e.from # e.to
  BY <1>2 DEF Within, IsEdge
<1>4. IsTree(q, C, N, tree)
  BY DEF AllTrees, IsTree, MetBy
<1>5. tree \in [1 .. N -> C]
  BY <1>4 DEF IsTree
<1> HIDE DEF C, N
<1>6. MetBy(q, tree, N) = q.refs
  <2>1. IsFiniteSet(MetBy(q, tree, N)) /\ Cardinality(MetBy(q, tree, N)) = N + 1
    BY <1>1, <1>4, RefsAreCounted
  <2>2. MetBy(q, tree, N) \in SUBSET q.refs
    BY <1>1, <1>3, <1>5 DEF MetBy, Within
  <2>3. QED
    BY <1>1, <2>1, <2>2, FS_Subset
<1>7. PICK f : /\ AreMet(f, q, tree, N)
               /\ f \in [0 .. N -> SUBSET [ref : q.refs, parent : q.refs]]
               /\ \A n \in 0 .. N : \A s \in Leaving(Steps(tree), f[n]) : s.matches <= 1
  BY <1>1, <1>3, <1>5, SearchIsThere
<1>8. Leaving(Steps(tree), f[N]) = {}
  <2>1. IsSearched(q, C, N, tree, f)
    BY <1>1, <1>3, <1>4, <1>6, <1>7 DEF IsSearched
  <2>2. QED
    BY <1>1, <2>1, WalksEnd
<1>9. /\ f[0] = {[ref |-> q.expected, parent |-> q.expected]}
      /\ \A k \in 0 .. N : k # 0 =>
           f[k] = {[ref |-> s.to, parent |-> s.from] : s \in Leaving(Steps(tree), f[k - 1])}
  <2>1. f[0] = {[ref |-> q.expected, parent |-> q.expected]}
    BY <1>1, <1>7 DEF AreMet
  <2>2. ASSUME NEW k \in 0 .. N, k # 0
        PROVE  f[k] = {[ref |-> s.to, parent |-> s.from] : s \in Leaving(Steps(tree), f[k - 1])}
    BY <1>7, <2>2 DEF AreMet
  <2>3. QED
    BY <2>1, <2>2
<1> DEFINE met == {m \in [ref : q.refs, parent : q.refs] : \E n \in 0 .. N : m \in f[n]}
<1>10. \A n \in 0 .. N : \A m \in f[n] : m \in met
  BY <1>7
<1>11. [ref |-> q.expected, parent |-> q.expected] \in met
  BY <1>1, <1>9, <1>10
<1>12. ASSUME NEW s \in Leaving(Steps(tree), met)
       PROVE  s.matches <= 1 /\ [ref |-> s.to, parent |-> s.from] \in met
  <2>1. PICK m \in met : s.from = m.ref /\ s.to # m.parent
    BY DEF Leaving
  <2>2. PICK n \in 0 .. N : m \in f[n]
    OBVIOUS
  <2>3. s \in Leaving(Steps(tree), f[n])
    BY <2>1, <2>2 DEF Leaving
  <2>4. n # N
    BY <1>8, <2>3
  <2>5. n + 1 \in 0 .. N /\ n + 1 # 0 /\ (n + 1) - 1 = n
    BY <1>1, <2>4
  <2>6. [ref |-> s.to, parent |-> s.from] \in f[n + 1]
    BY <1>9, <2>3, <2>5
  <2> HIDE DEF met
  <2>7. QED
    BY <1>7, <1>10, <2>3, <2>5, <2>6
<1>13. QED
  BY <1>11, <1>12

=============================================================================
