-------------------------- MODULE LegacyPathsProofs --------------------------
(***************************************************************************)
(* Proofs about LegacyPaths, for any tables, models, candidates and        *)
(* changes of the source: what the commands accept and pass holds of the   *)
(* rows, however long the tables and the paths are.                        *)
(***************************************************************************)
EXTENDS LegacyPaths, FiniteSetTheorems, FunctionTheorems, SequenceTheorems,
        WellFoundedInduction, TLAPS

-----------------------------------------------------------------------------
(* What the operators of Validation mean, for columns of any length and    *)
(* any writings: counts that agree, or that do not exceed one, stated of   *)
(* the rows themselves.                                                    *)

Cells == DOMAIN Writings \cup {Null}

RowsOf(column, v) == {i \in Present(column) : Normalized(column)[i] = v}

(* No two rows of a column hold one value.                                 *)
NoneRepeats(column) ==
  \A i, j \in Present(column) : Normalized(column)[i] = Normalized(column)[j] => i = j

Matched(from, to) == Values(from) \cap Values(to)

(* No two rows of a column hold one of these values.                       *)
NoneRepeatsAmong(column, values) ==
  \A v \in values : \A i, j \in RowsOf(column, v) : i = j

-----------------------------------------------------------------------------
(* Counting.                                                               *)

(* A set has at most one element when its cardinality is at most one.      *)
LEMMA AtMostOne ==
  ASSUME NEW S, IsFiniteSet(S)
  PROVE  Cardinality(S) <= 1 <=> \A x, y \in S : x = y
<1>1. Cardinality(S) \in Nat
  BY FS_CardinalityType
<1>2. CASE Cardinality(S) = 0
  BY <1>2, FS_EmptySet
<1>3. CASE Cardinality(S) = 1
  BY <1>3, FS_Singleton
<1>4. CASE Cardinality(S) > 1
  <2>1. PICK x \in S : TRUE
    BY <1>4, FS_EmptySet
  <2>2. S # {x}
    BY <1>4, FS_Singleton
  <2>3. PICK y \in S : y # x
    BY <2>1, <2>2
  <2>4. QED
    BY <1>1, <1>4, <2>1, <2>3
<1>5. QED
  BY <1>1, <1>2, <1>3, <1>4

LEMMA FirstNumbers ==
  ASSUME NEW n \in Nat
  PROVE  IsFiniteSet(1..n) /\ Cardinality(1..n) = n
BY FS_Interval

(* Exactly one, likewise.                                                  *)
LEMMA ExactlyOne ==
  ASSUME NEW S, IsFiniteSet(S), NEW x \in S, \A y \in S : y = x
  PROVE  Cardinality(S) = 1
<1>1. S = {x}
  OBVIOUS
<1>2. QED
  BY <1>1, FS_Singleton

(* A set of numbers that has a bound has a largest.                        *)
LEMMA MaxIsThere ==
  ASSUME NEW S \in SUBSET Nat, S # {}, NEW n \in Nat, \A x \in S : x <= n
  PROVE  Max(S) \in S /\ \A y \in S : Max(S) >= y
<1> DEFINE R == OpToRel(<, Nat)
           T == {k \in Nat : k <= n /\ n - k \in S}
<1>1. IsWellFoundedOn(R, Nat)
  BY NatLessThanWellFounded
<1>2. PICK x \in S : TRUE
  OBVIOUS
<1>3. n - x \in T
  <2>1. x \in Nat /\ x <= n
    OBVIOUS
  <2>2. n - x \in Nat /\ n - x <= n /\ n - (n - x) = x
    BY <2>1
  <2>3. QED
    BY <2>2
<1>4. T \subseteq Nat /\ T # {}
  BY <1>3
<1>5. PICK k \in T : \A y \in T : ~ (<<y, k>> \in R)
  <2> HIDE DEF R, T
  <2>1. QED
    BY <1>1, <1>4, WFMin
<1>6. \A y \in T : ~ (y < k)
  BY <1>5 DEF OpToRel
<1>7. n - k \in S /\ k \in Nat /\ k <= n
  BY <1>5
<1>8. \A y \in S : n - k >= y
  <2> SUFFICES ASSUME NEW y \in S
               PROVE  n - k >= y
    OBVIOUS
  <2>1. y \in Nat /\ y <= n
    OBVIOUS
  <2>2. n - y \in Nat /\ n - y <= n /\ n - (n - y) = y
    BY <2>1
  <2>3. n - y \in T
    BY <2>2
  <2>4. ~ (n - y < k)
    BY <1>6, <2>3
  <2>5. QED
    BY <1>7, <2>1, <2>4
<1>9. QED
  BY <1>7, <1>8 DEF Max

-----------------------------------------------------------------------------
(* Columns.                                                                *)

LEMMA PresentIsFinite ==
  ASSUME NEW column \in Seq(Cells)
  PROVE  /\ Len(column) \in Nat /\ DOMAIN column = 1..Len(column)
         /\ Present(column) \subseteq 1..Len(column)
         /\ IsFiniteSet(Present(column))
         /\ Cardinality(Present(column)) \in Nat
         /\ Cardinality(Present(column)) <= Len(column)
         /\ \A i \in Present(column) : column[i] \in DOMAIN Writings
<1>1. Len(column) \in Nat /\ DOMAIN column = 1..Len(column)
  OBVIOUS
<1>2. Present(column) \subseteq 1..Len(column)
  BY <1>1 DEF Present
<1>3. IsFiniteSet(1..Len(column)) /\ Cardinality(1..Len(column)) = Len(column)
  BY <1>1, FirstNumbers
<1>4. IsFiniteSet(Present(column)) /\ Cardinality(Present(column)) <= Len(column)
  BY <1>2, <1>3, FS_Subset
<1>5. \A i \in Present(column) : column[i] \in DOMAIN Writings
  BY DEF Present, Cells
<1>6. QED
  BY <1>1, <1>2, <1>4, <1>5, FS_CardinalityType

LEMMA NormalizedRows ==
  ASSUME NEW column
  PROVE  /\ Normalized(column) \in [Present(column) -> Values(column)]
         /\ DOMAIN Normalized(column) = Present(column)
         /\ \A v : v \in Values(column) <=> \E i \in Present(column) : Normalized(column)[i] = v
BY DEF Normalized, Values, Range

LEMMA RowsOfAreFinite ==
  ASSUME NEW column \in Seq(Cells), NEW v
  PROVE  /\ IsFiniteSet(RowsOf(column, v))
         /\ Cardinality(RowsOf(column, v)) \in Nat
         /\ Cardinality(RowsOf(column, v)) <= Len(column)
<1>1. RowsOf(column, v) \subseteq Present(column)
  BY DEF RowsOf
<1>2. /\ IsFiniteSet(RowsOf(column, v))
      /\ Cardinality(RowsOf(column, v)) <= Cardinality(Present(column))
  BY <1>1, PresentIsFinite, FS_Subset
<1>3. Cardinality(RowsOf(column, v)) \in Nat
  BY <1>2, FS_CardinalityType
<1>4. QED
  BY <1>2, <1>3, PresentIsFinite

(* The count of distinct values says that no row repeats another.          *)
LEMMA UniqueMeansNoneRepeats ==
  ASSUME NEW column \in Seq(Cells)
  PROVE  Profile(column).unique <=> NoneRepeats(column)
<1> DEFINE f == Normalized(column)
           P == Present(column)
           V == Values(column)
<1>1. f \in Surjection(P, V)
  <2>1. f \in [P -> V] /\ \A t \in V : \E s \in P : f[s] = t
    BY NormalizedRows
  <2>2. QED
    BY <2>1, Fun_IsSurj
<1>2. IsFiniteSet(P)
  BY PresentIsFinite
<1>3. Cardinality(V) = Cardinality(P) <=> f \in Injection(P, V)
  <2> HIDE DEF f, P, V
  <2>1. QED
    BY <1>1, <1>2, FS_Surjection
<1>4. f \in Injection(P, V) <=> \A i, j \in P : f[i] = f[j] => i = j
  <2>1. f \in [P -> V]
    BY NormalizedRows
  <2> HIDE DEF f, P, V
  <2>2. QED
    BY <2>1, Fun_IsInj, Fun_InjectionProperties
<1>5. Profile(column).unique <=> Cardinality(P) = Cardinality(V)
  BY DEF Profile
<1>6. QED
  BY <1>3, <1>4, <1>5 DEF NoneRepeats

(* No orphan: every row that holds a value finds it.                       *)
LEMMA NoOrphans ==
  ASSUME NEW child \in Seq(Cells), NEW parent
  PROVE  /\ Orphans(child, parent) = 0 <=> Values(child) \subseteq Values(parent)
         /\ Orphans(child, parent) \in Nat
<1> DEFINE A == Among(child, parent)
           P == Present(child)
<1>1. A \subseteq P
  BY DEF Among
<1>2. IsFiniteSet(P) /\ Cardinality(P) \in Nat
  BY PresentIsFinite
<1>3. /\ Cardinality(A) <= Cardinality(P) /\ Cardinality(A) \in Nat
      /\ Cardinality(P) = Cardinality(A) => P = A
  <2> HIDE DEF A, P
  <2>1. QED
    BY <1>1, <1>2, FS_Subset, FS_CardinalityType
<1>4. Orphans(child, parent) = 0 <=> P = A
  <2>1. Orphans(child, parent) = Cardinality(P) - Cardinality(A)
    BY DEF Orphans
  <2>2. QED
    BY <2>1, <1>2, <1>3
<1>5. P = A <=> Values(child) \subseteq Values(parent)
  BY NormalizedRows DEF Among
<1>6. QED
  BY <1>2, <1>3, <1>4, <1>5 DEF Orphans

(* The largest group of rows is one row when no value repeats.             *)
LEMMA MostRowsIsOne ==
  ASSUME NEW column \in Seq(Cells), NEW values
  PROVE  /\ MostRows(column, values) \in Nat
         /\ MostRows(column, values) <= 1 <=> NoneRepeatsAmong(column, values)
<1> DEFINE S == {0} \cup {Cardinality(RowsOf(column, v)) : v \in values}
<1>1. MostRows(column, values) = Max(S)
  BY DEF MostRows, RowsOf
<1>2. S \in SUBSET Nat /\ 0 \in S /\ \A x \in S : x <= Len(column)
  BY RowsOfAreFinite, PresentIsFinite
<1>3. Max(S) \in S /\ \A y \in S : Max(S) >= y
  <2> HIDE DEF S
  <2>1. QED
    BY <1>2, MaxIsThere, PresentIsFinite
<1>4. Max(S) \in Nat
  BY <1>2, <1>3
<1>5. Max(S) <= 1 <=> \A v \in values : Cardinality(RowsOf(column, v)) <= 1
  <2>1. ASSUME Max(S) <= 1, NEW v \in values
        PROVE  Cardinality(RowsOf(column, v)) <= 1
    <3>1. Cardinality(RowsOf(column, v)) \in S
      OBVIOUS
    <3>2. Cardinality(RowsOf(column, v)) \in Nat /\ Max(S) >= Cardinality(RowsOf(column, v))
      BY <3>1, <1>2, <1>3
    <3> HIDE DEF S
    <3>3. QED
      BY <3>2, <2>1, <1>4
  <2>2. ASSUME \A v \in values : Cardinality(RowsOf(column, v)) <= 1
        PROVE  Max(S) <= 1
    <3>1. CASE Max(S) = 0
      BY <3>1
    <3>2. CASE Max(S) # 0
      <4>1. PICK v \in values : Max(S) = Cardinality(RowsOf(column, v))
        BY <3>2, <1>3
      <4>2. QED
        BY <4>1, <2>2
    <3>3. QED
      BY <3>1, <3>2
  <2>3. QED
    BY <2>1, <2>2
<1>6. \A v \in values :
        Cardinality(RowsOf(column, v)) <= 1 <=> \A i, j \in RowsOf(column, v) : i = j
  BY RowsOfAreFinite, AtMostOne
<1>7. QED
  BY <1>1, <1>4, <1>5, <1>6 DEF NoneRepeatsAmong

-----------------------------------------------------------------------------
(* Relationships.                                                          *)

(* Each finding, by what it says of the rows.                              *)
LEMMA FindingsMean ==
  ASSUME NEW from \in Seq(Cells), NEW to \in Seq(Cells), NEW declared
  PROVE  LET found == ValidateRelationship(from, to, declared) IN
         /\ found.findings \subseteq ValidationCodes
         /\ found.fromPerTo \in Nat /\ found.toPerFrom \in Nat
         /\ found.fromPerTo <= 1 <=> NoneRepeatsAmong(from, Matched(from, to))
         /\ found.toPerFrom <= 1 <=> NoneRepeatsAmong(to, Matched(from, to))
         /\ found.observed = ObservedDirected(found.fromPerTo, found.toPerFrom)
         /\ "REFERENCED_KEY_NOT_UNIQUE" \in found.findings <=> ~NoneRepeats(to)
         /\ "CHILD_KEY_NULL" \in found.findings <=> Present(from) # DOMAIN from
         /\ "ORPHAN_CHILD_ROW" \in found.findings <=> ~(Values(from) \subseteq Values(to))
         /\ "CARDINALITY_DRIFT" \in found.findings <=> found.observed # declared
         /\ "MANY_TO_MANY_FANOUT" \in found.findings <=> found.observed = "many_to_many"
         /\ "COMPOUND_FANOUT" \notin found.findings /\ "SCHEMA_DRIFT" \notin found.findings
<1> DEFINE found == ValidateRelationship(from, to, declared)
<1>1. found.findings =
        {code \in ValidationCodes :
          \/ code = "REFERENCED_KEY_NOT_UNIQUE" /\ ~Profile(to).unique
          \/ code = "CHILD_KEY_NULL" /\ Cardinality(Present(from)) < Len(from)
          \/ code = "ORPHAN_CHILD_ROW" /\ Orphans(from, to) # 0
          \/ code = "CARDINALITY_DRIFT" /\ found.observed # declared
          \/ code = "GRAIN_CHANGE" /\ found.observed # "one_to_one"
          \/ code = "MANY_TO_MANY_FANOUT" /\ found.observed = "many_to_many"}
  BY DEF ValidateRelationship
<1>2. /\ found.fromPerTo = MostRows(from, Matched(from, to))
      /\ found.toPerFrom = MostRows(to, Matched(from, to))
      /\ found.observed = ObservedDirected(found.fromPerTo, found.toPerFrom)
  BY DEF ValidateRelationship, Matched
<1>3. /\ found.fromPerTo \in Nat /\ found.toPerFrom \in Nat
      /\ found.fromPerTo <= 1 <=> NoneRepeatsAmong(from, Matched(from, to))
      /\ found.toPerFrom <= 1 <=> NoneRepeatsAmong(to, Matched(from, to))
  BY <1>2, MostRowsIsOne
<1>4. Profile(to).unique <=> NoneRepeats(to)
  BY UniqueMeansNoneRepeats
<1>5. Cardinality(Present(from)) < Len(from) <=> Present(from) # DOMAIN from
  <2>1. /\ Len(from) \in Nat /\ DOMAIN from = 1..Len(from)
        /\ Present(from) \subseteq 1..Len(from) /\ Cardinality(Present(from)) \in Nat
    BY PresentIsFinite
  <2>2. IsFiniteSet(1..Len(from)) /\ Cardinality(1..Len(from)) = Len(from)
    BY <2>1, FirstNumbers
  <2>3. /\ Cardinality(Present(from)) <= Len(from)
        /\ Cardinality(Present(from)) = Len(from) => Present(from) = 1..Len(from)
    BY <2>1, <2>2, FS_Subset
  <2>4. QED
    BY <2>1, <2>2, <2>3
<1>6. Orphans(from, to) # 0 <=> ~(Values(from) \subseteq Values(to))
  BY NoOrphans
<1> HIDE DEF found
<1>7. /\ "REFERENCED_KEY_NOT_UNIQUE" \in found.findings <=> ~NoneRepeats(to)
      /\ "CHILD_KEY_NULL" \in found.findings <=> Present(from) # DOMAIN from
      /\ "ORPHAN_CHILD_ROW" \in found.findings <=> ~(Values(from) \subseteq Values(to))
      /\ "CARDINALITY_DRIFT" \in found.findings <=> found.observed # declared
      /\ "MANY_TO_MANY_FANOUT" \in found.findings <=> found.observed = "many_to_many"
      /\ "COMPOUND_FANOUT" \notin found.findings /\ "SCHEMA_DRIFT" \notin found.findings
      /\ found.findings \subseteq ValidationCodes
  BY <1>1, <1>4, <1>5, <1>6 DEF ValidationCodes, LegacyBlocking
<1>8. QED
  BY <1>2, <1>3, <1>7 DEF found

(* Where every value is matched, none repeats among the matched only when  *)
(* none repeats at all.                                                    *)
LEMMA AllMatched ==
  ASSUME NEW from, NEW to, Values(from) \subseteq Values(to)
  PROVE  NoneRepeatsAmong(from, Matched(from, to)) <=> NoneRepeats(from)
<1>1. Matched(from, to) = Values(from)
  BY DEF Matched
<1>2. NoneRepeatsAmong(from, Values(from)) <=> NoneRepeats(from)
  BY NormalizedRows DEF NoneRepeatsAmong, NoneRepeats, RowsOf
<1>3. QED
  BY <1>1, <1>2

LEMMA NoneRepeatsAnywhere ==
  ASSUME NEW column, NEW values, NoneRepeats(column)
  PROVE  NoneRepeatsAmong(column, values)
BY DEF NoneRepeats, NoneRepeatsAmong, RowsOf

(* What is left when nothing found is blocking.                            *)
LEMMA PassingPair ==
  ASSUME NEW from \in Seq(Cells), NEW to \in Seq(Cells), NEW declared,
         ValidateRelationship(from, to, declared).findings \cap LegacyBlocking = {}
  PROVE  LET found == ValidateRelationship(from, to, declared) IN
         /\ NoneRepeats(to) /\ Values(from) \subseteq Values(to)
         /\ found.observed = declared /\ found.toPerFrom <= 1
         /\ found.fromPerTo \in Nat /\ found.toPerFrom \in Nat
         /\ found.fromPerTo <= 1 <=> NoneRepeats(from)
         /\ declared = IF NoneRepeats(from) THEN "one_to_one" ELSE "many_to_one"
<1> DEFINE found == ValidateRelationship(from, to, declared)
<1>1. {"REFERENCED_KEY_NOT_UNIQUE", "ORPHAN_CHILD_ROW", "CARDINALITY_DRIFT"}
        \cap found.findings = {}
  BY DEF LegacyBlocking
<1>2. /\ NoneRepeats(to) /\ Values(from) \subseteq Values(to) /\ found.observed = declared
      /\ found.fromPerTo \in Nat /\ found.toPerFrom \in Nat
      /\ found.observed = ObservedDirected(found.fromPerTo, found.toPerFrom)
      /\ found.fromPerTo <= 1 <=> NoneRepeatsAmong(from, Matched(from, to))
      /\ found.toPerFrom <= 1 <=> NoneRepeatsAmong(to, Matched(from, to))
  <2> HIDE DEF found
  <2>1. QED
    BY <1>1, FindingsMean DEF found
<1> HIDE DEF found
<1>3. found.toPerFrom <= 1 /\ (found.fromPerTo <= 1 <=> NoneRepeats(from))
  BY <1>2, AllMatched, NoneRepeatsAnywhere
<1>4. declared = IF NoneRepeats(from) THEN "one_to_one" ELSE "many_to_one"
  BY <1>2, <1>3 DEF ObservedDirected
<1>5. QED
  BY <1>2, <1>3, <1>4 DEF found

(* A candidate without orphans has the cardinality that is then observed.  *)
LEMMA CandidatesAreObserved ==
  ASSUME NEW from \in Seq(Cells), NEW to \in Seq(Cells), IsCandidate(from, to)
  PROVE  LET found == ValidateRelationship(from, to, Candidate(from, to).cardinality) IN
         /\ "CARDINALITY_DRIFT" \in found.findings => "ORPHAN_CHILD_ROW" \in found.findings
         /\ Candidate(from, to).confidence = "strong" => found.findings \subseteq {"GRAIN_CHANGE"}
<1> DEFINE declared == Candidate(from, to).cardinality
           found == ValidateRelationship(from, to, declared)
<1>1. NoneRepeats(to)
  BY UniqueMeansNoneRepeats DEF IsCandidate
<1>2. declared = IF NoneRepeats(from) THEN "one_to_one" ELSE "many_to_one"
  BY UniqueMeansNoneRepeats DEF Candidate
<1>3. /\ found.findings \subseteq ValidationCodes
      /\ found.fromPerTo \in Nat /\ found.toPerFrom \in Nat
      /\ found.fromPerTo <= 1 <=> NoneRepeatsAmong(from, Matched(from, to))
      /\ found.toPerFrom <= 1 <=> NoneRepeatsAmong(to, Matched(from, to))
      /\ found.observed = ObservedDirected(found.fromPerTo, found.toPerFrom)
      /\ "REFERENCED_KEY_NOT_UNIQUE" \in found.findings <=> ~NoneRepeats(to)
      /\ "CHILD_KEY_NULL" \in found.findings <=> Present(from) # DOMAIN from
      /\ "ORPHAN_CHILD_ROW" \in found.findings <=> ~(Values(from) \subseteq Values(to))
      /\ "CARDINALITY_DRIFT" \in found.findings <=> found.observed # declared
      /\ "MANY_TO_MANY_FANOUT" \in found.findings <=> found.observed = "many_to_many"
      /\ "COMPOUND_FANOUT" \notin found.findings /\ "SCHEMA_DRIFT" \notin found.findings
  <2> HIDE DEF declared
  <2>1. QED
    BY FindingsMean
<1> HIDE DEF found
<1>4. Values(from) \subseteq Values(to) => found.observed = declared
  <2> SUFFICES ASSUME Values(from) \subseteq Values(to)
               PROVE  found.observed = declared
    OBVIOUS
  <2>1. found.toPerFrom <= 1 /\ (found.fromPerTo <= 1 <=> NoneRepeats(from))
    BY <1>1, <1>3, AllMatched, NoneRepeatsAnywhere
  <2> HIDE DEF declared
  <2>2. QED
    BY <2>1, <1>2, <1>3 DEF ObservedDirected
<1>5. Candidate(from, to).confidence = "strong" =>
        Values(from) \subseteq Values(to) /\ Present(from) = DOMAIN from
  <2> SUFFICES ASSUME Candidate(from, to).confidence = "strong"
               PROVE  Values(from) \subseteq Values(to) /\ Present(from) = DOMAIN from
    OBVIOUS
  <2>1. Orphans(from, to) = 0 /\ Profile(from).nulls = 0
    BY DEF Candidate
  <2>2. Values(from) \subseteq Values(to)
    BY <2>1, NoOrphans
  <2>3. /\ Len(from) \in Nat /\ DOMAIN from = 1..Len(from)
        /\ Present(from) \subseteq 1..Len(from) /\ Cardinality(Present(from)) \in Nat
    BY PresentIsFinite
  <2>4. Len(from) = Cardinality(Present(from))
    BY <2>1, <2>3 DEF Profile
  <2>5. IsFiniteSet(1..Len(from)) /\ Cardinality(1..Len(from)) = Len(from)
    BY <2>3, FirstNumbers
  <2>6. Present(from) = 1..Len(from)
    BY <2>3, <2>4, <2>5, FS_Subset
  <2>7. QED
    BY <2>2, <2>3, <2>6
<1>6. "CARDINALITY_DRIFT" \in found.findings => "ORPHAN_CHILD_ROW" \in found.findings
  <2> HIDE DEF declared
  <2>1. QED
    BY <1>3, <1>4
<1>7. declared \in {"one_to_one", "many_to_one"}
  BY <1>2
<1>8. Candidate(from, to).confidence = "strong" => found.findings \subseteq {"GRAIN_CHANGE"}
  <2> SUFFICES ASSUME Candidate(from, to).confidence = "strong"
               PROVE  found.findings \subseteq {"GRAIN_CHANGE"}
    OBVIOUS
  <2> HIDE DEF declared
  <2>1. found.observed = declared /\ found.observed # "many_to_many"
    BY <1>4, <1>5, <1>7
  <2>2. QED
    BY <2>1, <1>1, <1>3, <1>5 DEF ValidationCodes, LegacyBlocking
<1>9. QED
  BY <1>6, <1>8 DEF found

-----------------------------------------------------------------------------
(* The operators of LegacyPaths, of a source and a model given.            *)

ColumnIn(t, endpoint) ==
  [i \in DOMAIN t[endpoint[1]] |-> t[endpoint[1]][i][endpoint[2]]]

ValidatedIn(t, r) == ValidateRelationship(ColumnIn(t, r.from), ColumnIn(t, r.to), r.card)

IdsIn(m) == {r.id : r \in m.relationships}
RelationshipIn(m, id) == CHOOSE r \in m.relationships : r.id = id

ResultsIn(t, m) ==
  [id \in IdsIn(m) |-> [rel |-> RelationshipIn(m, id),
                        result |-> ValidatedIn(t, RelationshipIn(m, id))]]

OriginIn(m, edge) ==
  LET r == RelationshipIn(m, edge.id) IN IF edge.direction = "forward" THEN r.from[1] ELSE r.to[1]
TargetIn(m, edge) ==
  LET r == RelationshipIn(m, edge.id) IN IF edge.direction = "forward" THEN r.to[1] ELSE r.from[1]

-----------------------------------------------------------------------------
(* The inductive invariant.                                                *)

ModelOK(m) ==
  /\ m \in Models
  /\ \A r \in m.relationships :
       /\ {r.from[1], r.to[1]} \subseteq m.entities
       /\ \A s \in m.relationships : r.id = s.id => r = s

(* The results of a scan are those of what it scanned.                     *)
ManifestOK(scanned) == scanned.results = ResultsIn(scanned.tables, scanned.model)

(* An answer that vouches for relationships has found what validating      *)
(* them, in the source and the model as they are, finds.                   *)
VouchesFor(a, t, m) ==
  a.code = "ok" /\ a.kind \in {"validate", "check", "baseline", "edges"} =>
    \A r \in a.about : r \in m.relationships /\ ValidatedIn(t, r).findings \subseteq a.findings

(* So has one that vouches for a path, and it says when two of the         *)
(* relationships on it fan out.                                            *)
IsPath(m, p) ==
  /\ Len(p) \in Nat \ {0} /\ DOMAIN p = 1..Len(p)
  /\ \A i \in DOMAIN p : p[i].id \in IdsIn(m)
  /\ \A i \in 2..Len(p) : OriginIn(m, p[i]) = TargetIn(m, p[i - 1])
  /\ \A i \in DOMAIN p :
       TargetIn(m, p[i]) \notin {OriginIn(m, p[1])} \cup {TargetIn(m, p[j]) : j \in 1..(i - 1)}

FoundOnPath(a, t, m) ==
  /\ \A i \in DOMAIN a.about :
       ValidatedIn(t, RelationshipIn(m, a.about[i].id)).findings \subseteq a.findings
  /\ \A i, j \in DOMAIN a.about :
       /\ FansOut(ValidatedIn(t, RelationshipIn(m, a.about[i].id)))
       /\ FansOut(ValidatedIn(t, RelationshipIn(m, a.about[j].id)))
       /\ a.about[i].id # a.about[j].id
       => "COMPOUND_FANOUT" \in a.findings

VouchesForPath(a, t, m) ==
  a.code = "ok" /\ a.kind = "path" => IsPath(m, a.about) /\ FoundOnPath(a, t, m)

(* What was accepted is a candidate in the source, and is confirmed.       *)
AcceptedAsCandidate(a, t, m) ==
  a.kind = "accept" =>
    \A r \in a.about :
      /\ r \in m.relationships
      /\ IsCandidate(ColumnIn(t, r.from), ColumnIn(t, r.to))
      /\ r.card = Candidate(ColumnIn(t, r.from), ColumnIn(t, r.to)).cardinality
      /\ a.code = Candidate(ColumnIn(t, r.from), ColumnIn(t, r.to)).confidence

AnswerOK(a, t, m) ==
  /\ a.findings \subseteq ValidationCodes
  /\ VouchesFor(a, t, m)
  /\ VouchesForPath(a, t, m)
  /\ AcceptedAsCandidate(a, t, m)

PathInv ==
  /\ IsSource(tables)
  /\ ModelOK(model)
  /\ manifest # None => ManifestOK(manifest)
  /\ answer # None => AnswerOK(answer, tables, model)

-----------------------------------------------------------------------------
(* Lemmas.                                                                 *)

LEMMA HereAndNow ==
  /\ \A e : ColumnOf(e) = ColumnIn(tables, e)
  /\ \A r : Validated(r) = ValidatedIn(tables, r)
  /\ Ids = IdsIn(model)
  /\ \A id : Relationship(id) = RelationshipIn(model, id)
  /\ Results = ResultsIn(tables, model)
  /\ \A e : Origin(e) = OriginIn(model, e) /\ Target(e) = TargetIn(model, e)
BY DEF ColumnOf, ColumnIn, Validated, ValidatedIn, Ids, IdsIn, Relationship, RelationshipIn,
       Results, ResultsIn, Origin, OriginIn, Target, TargetIn, Relationships

(* An id stands for one relationship.                                      *)
LEMMA FoundById ==
  ASSUME NEW m, ModelOK(m)
  PROVE  /\ \A id \in IdsIn(m) :
              RelationshipIn(m, id) \in m.relationships /\ RelationshipIn(m, id).id = id
         /\ \A r \in m.relationships : r.id \in IdsIn(m) /\ RelationshipIn(m, r.id) = r
BY DEF ModelOK, IdsIn, RelationshipIn

LEMMA ColumnsAreCells ==
  ASSUME NEW t, IsSource(t), NEW e \in Endpoints
  PROVE  /\ ColumnIn(t, e) \in Seq(Cells)
         /\ DOMAIN ColumnIn(t, e) = DOMAIN t[e[1]]
<1>0. PICK entity \in Entities : e \in {entity} \X Columns[entity]
  BY DEF Endpoints
<1>1. PICK column \in Columns[entity] : e = <<entity, column>>
  BY <1>0
<1> DEFINE Rows == [Columns[entity] -> Cells]
           rows == t[entity]
<1>2. rows \in Seq(Rows)
  BY DEF IsSource, Cells
<1>3. e[1] = entity /\ e[2] = column
  BY <1>1
<1>4. ColumnIn(t, e) = [i \in DOMAIN rows |-> rows[i][column]]
  BY <1>3 DEF ColumnIn
<1>5. Len(rows) \in Nat /\ DOMAIN rows = 1..Len(rows) /\ \A i \in 1..Len(rows) : rows[i] \in Rows
  <2> HIDE DEF Rows, rows
  <2>1. QED
    BY <1>2, LenProperties, ElementOfSeq
<1>6. \A i \in 1..Len(rows) : rows[i][column] \in Cells
  BY <1>5
<1>7. ColumnIn(t, e) \in [1..Len(rows) -> Cells]
  <2> HIDE DEF rows
  <2>1. QED
    BY <1>4, <1>5, <1>6
<1>8. ColumnIn(t, e) \in Seq(Cells)
  <2> HIDE DEF rows
  <2>1. QED
    BY <1>5, <1>7, SeqDef
<1>9. QED
  BY <1>3, <1>4, <1>8

(* Validating finds nothing that is not a code.                            *)
LEMMA FindingsAreCodes ==
  ASSUME NEW t, NEW r
  PROVE  ValidatedIn(t, r).findings \subseteq ValidationCodes
BY DEF ValidatedIn, ValidateRelationship

(* The findings in the results of some ids.                                *)
LEMMA FindingsOfResults ==
  ASSUME NEW t, NEW m, NEW ids, ids \subseteq IdsIn(m)
  PROVE  LET found == FindingsIn([id \in ids |-> ResultsIn(t, m)[id]]) IN
         /\ found \subseteq ValidationCodes
         /\ \A id \in ids : ValidatedIn(t, RelationshipIn(m, id)).findings \subseteq found
<1> DEFINE some == [id \in ids |-> ResultsIn(t, m)[id]]
<1>1. DOMAIN some = ids
  OBVIOUS
<1>2. \A id \in ids : some[id].result = ValidatedIn(t, RelationshipIn(m, id))
  BY DEF ResultsIn
<1>3. FindingsIn(some) = UNION {some[id].result.findings : id \in ids}
  BY <1>1 DEF FindingsIn
<1> HIDE DEF some
<1>4. \A id \in ids : some[id].result.findings \subseteq FindingsIn(some)
  BY <1>3
<1>5. FindingsIn(some) \subseteq ValidationCodes
  BY <1>2, <1>3, FindingsAreCodes
<1>6. QED
  BY <1>2, <1>4, <1>5 DEF some

LEMMA FindingsOfAll ==
  ASSUME NEW t, NEW m, ModelOK(m)
  PROVE  /\ FindingsIn(ResultsIn(t, m)) \subseteq ValidationCodes
         /\ \A r \in m.relationships : ValidatedIn(t, r).findings \subseteq FindingsIn(ResultsIn(t, m))
<1>1. ResultsIn(t, m) = [id \in IdsIn(m) |-> ResultsIn(t, m)[id]]
  BY DEF ResultsIn
<1>2. /\ FindingsIn(ResultsIn(t, m)) \subseteq ValidationCodes
      /\ \A id \in IdsIn(m) : ValidatedIn(t, RelationshipIn(m, id)).findings
                                \subseteq FindingsIn(ResultsIn(t, m))
  BY <1>1, FindingsOfResults
<1>3. QED
  BY <1>2, FoundById

-----------------------------------------------------------------------------
(* Every step keeps the invariant.                                         *)

(* A command that leaves the source, the model and the manifest alone      *)
(* keeps the invariant when its answer is right.                           *)
LEMMA AnswersKeepIt ==
  ASSUME PathInv, UNCHANGED <<tables, model, manifest>>,
         answer' # None => AnswerOK(answer', tables, model)
  PROVE  PathInv'
BY DEF PathInv

(* An answer that vouches for nothing and found nothing.                   *)
LEMMA AnswersOfNothing ==
  ASSUME NEW kind, NEW code, NEW about, NEW findings, NEW t, NEW m,
         findings \subseteq ValidationCodes,
         code = "ok" => kind \notin {"validate", "check", "baseline", "edges", "path"},
         kind = "accept" => about = {}
  PROVE  AnswerOK([kind |-> kind, code |-> code, about |-> about, findings |-> findings], t, m)
BY DEF AnswerOK, VouchesFor, VouchesForPath, AcceptedAsCandidate

(* An answer that passes relationships on what validating them found.      *)
LEMMA AnswersOfRelationships ==
  ASSUME NEW kind \in {"validate", "check", "baseline", "edges"}, NEW about, NEW findings,
         NEW t, NEW m,
         findings \subseteq ValidationCodes,
         \A r \in about : r \in m.relationships /\ ValidatedIn(t, r).findings \subseteq findings
  PROVE  AnswerOK([kind |-> kind, code |-> "ok", about |-> about, findings |-> findings], t, m)
BY DEF AnswerOK, VouchesFor, VouchesForPath, AcceptedAsCandidate

LEMMA ScanKeepsIt ==
  ASSUME PathInv, Scan
  PROVE  PathInv'
<1>1. /\ manifest' = [tables |-> tables, model |-> model, results |-> Results]
      /\ answer' = [kind |-> "scan", code |-> "ok", about |-> Ids, findings |-> {}]
      /\ UNCHANGED <<tables, model>>
  BY DEF Scan, Answers, Says
<1>2. ManifestOK(manifest')
  BY <1>1, HereAndNow DEF ManifestOK
<1>3. AnswerOK(answer', tables, model)
  BY <1>1, AnswersOfNothing
<1>4. QED
  BY <1>1, <1>2, <1>3 DEF PathInv

LEMMA ValidateKeepsIt ==
  ASSUME PathInv, ValidateProject
  PROVE  PathInv'
<1> DEFINE found == FindingsIn(Results)
<1>1. /\ answer' = [kind |-> "validate", code |-> "ok", about |-> Relationships, findings |-> found]
      /\ UNCHANGED <<tables, model, manifest>>
  BY DEF ValidateProject, Answers, Says
<1>2. /\ found \subseteq ValidationCodes
      /\ \A r \in model.relationships : ValidatedIn(tables, r).findings \subseteq found
  BY FindingsOfAll, HereAndNow DEF PathInv
<1> HIDE DEF found
<1>3. AnswerOK(answer', tables, model)
  BY <1>1, <1>2, AnswersOfRelationships DEF Relationships
<1>4. QED
  BY <1>1, <1>3, AnswersKeepIt

LEMMA BaselineKeepsIt ==
  ASSUME PathInv, UpdateBaseline
  PROVE  PathInv'
<1> DEFINE found == FindingsIn(Results)
<1>1. /\ \/ answer' = [kind |-> "baseline", code |-> "refused", about |-> {}, findings |-> found]
         \/ answer' = [kind |-> "baseline", code |-> "ok", about |-> Relationships,
                       findings |-> found]
      /\ UNCHANGED <<tables, model, manifest>>
  BY DEF UpdateBaseline, Answers, Says
<1>2. /\ found \subseteq ValidationCodes
      /\ \A r \in model.relationships : ValidatedIn(tables, r).findings \subseteq found
  BY FindingsOfAll, HereAndNow DEF PathInv
<1> HIDE DEF found
<1>3. CASE answer' = [kind |-> "baseline", code |-> "refused", about |-> {}, findings |-> found]
  BY <1>1, <1>2, <1>3, AnswersOfNothing, AnswersKeepIt
<1>4. CASE answer' = [kind |-> "baseline", code |-> "ok", about |-> Relationships,
                      findings |-> found]
  <2>1. AnswerOK(answer', tables, model)
    BY <1>2, <1>4, AnswersOfRelationships DEF Relationships
  <2>2. QED
    BY <1>1, <2>1, AnswersKeepIt
<1>5. QED
  BY <1>1, <1>3, <1>4

LEMMA CheckKeepsIt ==
  ASSUME PathInv, Check
  PROVE  PathInv'
<1> DEFINE found == FindingsIn(Results)
           drift == CompareBaseline
<1>1. /\ \/ answer' = [kind |-> "check", code |-> "BASELINE_MISSING", about |-> {}, findings |-> {}]
         \/ answer' = [kind |-> "check", code |-> "ok", about |-> Relationships,
                       findings |-> found \cup drift]
      /\ UNCHANGED <<tables, model, manifest>>
  BY DEF Check, Answers, Says
<1>2. /\ found \subseteq ValidationCodes
      /\ \A r \in model.relationships : ValidatedIn(tables, r).findings \subseteq found
  BY FindingsOfAll, HereAndNow DEF PathInv
<1>3. drift \subseteq ValidationCodes
  BY DEF CompareBaseline, ValidationCodes, LegacyBlocking
<1> HIDE DEF found, drift
<1>4. CASE answer' = [kind |-> "check", code |-> "BASELINE_MISSING", about |-> {}, findings |-> {}]
  BY <1>1, <1>4, AnswersOfNothing, AnswersKeepIt
<1>5. CASE answer' = [kind |-> "check", code |-> "ok", about |-> Relationships,
                      findings |-> found \cup drift]
  <2>1. AnswerOK(answer', tables, model)
    BY <1>2, <1>3, <1>5, AnswersOfRelationships DEF Relationships
  <2>2. QED
    BY <1>1, <2>1, AnswersKeepIt
<1>6. QED
  BY <1>1, <1>4, <1>5

LEMMA ChangeKeepsIt ==
  ASSUME PathInv, ChangeSource
  PROVE  PathInv'
<1>1. IsSource(tables')
  BY PathConstants DEF ChangeSource
<1>2. answer' = None /\ UNCHANGED <<model, manifest>>
  BY DEF ChangeSource, Asked
<1>3. QED
  BY <1>1, <1>2 DEF PathInv

LEMMA ForgetKeepsIt ==
  ASSUME PathInv, Forget
  PROVE  PathInv'
BY AnswersKeepIt DEF Forget

(* What an accepted candidate adds is a relationship whose id is new.      *)
LEMMA AcceptKeepsIt ==
  ASSUME PathInv, NEW from \in Endpoints, NEW to \in Endpoints, Accept(from, to)
  PROVE  PathInv'
<1> DEFINE child == ColumnOf(from)
           parent == ColumnOf(to)
           found == Candidate(child, parent)
           rel == [id |-> IdOf[<<from, to>>], from |-> from, to |-> to, card |-> found.cardinality]
<1>1. CASE Refusal(from, to) # "none"
  <2>1. /\ answer' = [kind |-> "accept", code |-> Refusal(from, to), about |-> {}, findings |-> {}]
        /\ UNCHANGED <<tables, model, manifest>>
    BY <1>1 DEF Accept, Answers, Says
  <2>2. AnswerOK(answer', tables, model)
    BY <2>1, AnswersOfNothing
  <2>3. QED
    BY <2>1, <2>2, AnswersKeepIt
<1>2. CASE Refusal(from, to) = "none"
  <2>1. /\ answer' = [kind |-> "accept", code |-> found.confidence, about |-> {rel}, findings |-> {}]
        /\ model' = [model EXCEPT !.relationships = @ \cup {rel}]
        /\ UNCHANGED <<tables, manifest>>
    BY <1>2 DEF Accept, Answers, Says
  <2>2. /\ from[1] # to[1] /\ IsCandidate(child, parent) /\ IdOf[<<from, to>>] \notin Ids
        /\ {from[1], to[1]} \subseteq model.entities
    <3> HIDE DEF child, parent
    <3>1. QED
      BY <1>2 DEF Refusal, child, parent
  <2>3. found.cardinality \in Directed /\ found.confidence \in {"strong", "medium", "low"}
    BY DEF Candidate, Directed
  <2>4. /\ rel.from = from /\ rel.to = to /\ rel.card = found.cardinality
        /\ rel.id = IdOf[<<from, to>>]
    OBVIOUS
  <2>5. rel \in [id : Nat, from : Endpoints, to : Endpoints, card : Directed]
    BY <2>3, PathConstants
  <2> HIDE DEF rel, found
  <2>6. model' \in Models /\ model'.entities = model.entities
        /\ model'.relationships = model.relationships \cup {rel}
    BY <2>1, <2>5 DEF PathInv, ModelOK, Models
  <2>7. \A s \in model.relationships : s.id # rel.id
    BY <2>2, <2>4 DEF Ids, Relationships
  <2>8. ModelOK(model')
    BY <2>2, <2>4, <2>6, <2>7 DEF PathInv, ModelOK
  <2>9. AnswerOK(answer', tables, model')
    <3>1. rel \in model'.relationships
      BY <2>6
    <3>2. answer'.kind = "accept" /\ answer'.about = {rel} /\ answer'.findings = {}
          /\ answer'.code = found.confidence
      BY <2>1
    <3>3. AcceptedAsCandidate(answer', tables, model')
      BY <2>2, <2>4, <3>1, <3>2, HereAndNow DEF AcceptedAsCandidate, found
    <3>4. VouchesFor(answer', tables, model') /\ VouchesForPath(answer', tables, model')
      BY <3>2 DEF VouchesFor, VouchesForPath
    <3>5. QED
      BY <3>2, <3>3, <3>4 DEF AnswerOK
  <2>10. QED
    BY <2>1, <2>8, <2>9 DEF PathInv
<1>3. QED
  BY <1>1, <1>2

LEMMA FindKeepsIt ==
  ASSUME PathInv, NEW source \in Entities, NEW target \in Entities, NEW depth,
         FindJoinPath(source, target, depth)
  PROVE  PathInv'
<1>1. /\ \E code, about : answer' = [kind |-> "find", code |-> code, about |-> about, findings |-> {}]
      /\ UNCHANGED <<tables, model, manifest>>
  BY DEF FindJoinPath, Answers, Says
<1>2. PICK code, about :
        answer' = [kind |-> "find", code |-> code, about |-> about, findings |-> {}]
  BY <1>1
<1>3. AnswerOK(answer', tables, model)
  BY <1>2, AnswersOfNothing
<1>4. QED
  BY <1>1, <1>3, AnswersKeepIt

(* A manifest that is fresh holds the results of now.                      *)
LEMMA FreshIsNow ==
  ASSUME PathInv, Fresh
  PROVE  manifest.results = ResultsIn(tables, model)
BY DEF PathInv, Fresh, ManifestOK

LEMMA EdgesKeepIt ==
  ASSUME PathInv, NEW ids, ValidateEdges(ids)
  PROVE  PathInv'
<1> DEFINE found == FindingsIn([id \in ids |-> manifest.results[id]])
           named == {Relationship(id) : id \in ids}
<1>1. CASE ~Fresh \/ ~(ids \subseteq Ids)
  <2>1. /\ answer' = [kind |-> "edges", code |-> "EVIDENCE_STALE", about |-> {}, findings |-> {}]
        /\ UNCHANGED <<tables, model, manifest>>
    BY <1>1 DEF ValidateEdges, Answers, Says
  <2>2. QED
    BY <2>1, AnswersOfNothing, AnswersKeepIt
<1>2. CASE Fresh /\ ids \subseteq Ids
  <2>1. /\ answer' = [kind |-> "edges", code |-> "ok", about |-> named, findings |-> found]
        /\ UNCHANGED <<tables, model, manifest>>
    BY <1>2 DEF ValidateEdges, Answers, Says
  <2>2. ids \subseteq IdsIn(model) /\ ModelOK(model)
    BY <1>2, HereAndNow DEF PathInv
  <2>3. found = FindingsIn([id \in ids |-> ResultsIn(tables, model)[id]])
    BY <1>2, FreshIsNow
  <2>4. /\ found \subseteq ValidationCodes
        /\ \A id \in ids : ValidatedIn(tables, RelationshipIn(model, id)).findings \subseteq found
    BY <2>2, <2>3, FindingsOfResults
  <2>5. \A r \in named : /\ r \in model.relationships
                         /\ ValidatedIn(tables, r).findings \subseteq found
    BY <2>2, <2>4, FoundById, HereAndNow
  <2> HIDE DEF found, named
  <2>6. AnswerOK(answer', tables, model)
    BY <2>1, <2>4, <2>5, AnswersOfRelationships
  <2>7. QED
    BY <2>1, <2>6, AnswersKeepIt
<1>3. QED
  BY <1>1, <1>2

LEMMA PathsAreSequences ==
  ASSUME NEW S, NEW n \in Nat, NEW path \in BoundedSeq(S, n)
  PROVE  Len(path) \in Nat /\ DOMAIN path = 1..Len(path) /\ (path # <<>> => Len(path) # 0)
<1>1. PICK m \in 0..n : path \in [1..m -> S]
  BY DEF BoundedSeq, SeqOf
<1>2. path \in Seq(S)
  BY <1>1, SeqDef
<1>3. QED
  BY <1>2, LenProperties, EmptySeq

(* More than one of the relationships that fan out.                        *)
LEMMA CompoundMeansTwo ==
  ASSUME NEW path, Len(path) \in Nat, DOMAIN path = 1..Len(path), NEW res,
         ~Compound([id \in {path[i].id : i \in DOMAIN path} |-> res[id]]),
         NEW i \in DOMAIN path, NEW j \in DOMAIN path,
         FansOut(res[path[i].id].result), FansOut(res[path[j].id].result)
  PROVE  path[i].id = path[j].id
<1> DEFINE ids == {path[k].id : k \in DOMAIN path}
           some == [id \in ids |-> res[id]]
           fan == {id \in DOMAIN some : FansOut(some[id].result)}
           f == [k \in 1..Len(path) |-> path[k].id]
<1>1. IsFiniteSet(1..Len(path))
  BY FirstNumbers
<1>2. f \in Surjection(1..Len(path), ids)
  <2>1. f \in [1..Len(path) -> ids] /\ \A t \in ids : \E k \in 1..Len(path) : f[k] = t
    OBVIOUS
  <2> HIDE DEF f, ids
  <2>2. QED
    BY <2>1, Fun_IsSurj
<1>3. IsFiniteSet(ids)
  <2> HIDE DEF f, ids
  <2>1. QED
    BY <1>1, <1>2, FS_Surjection
<1>4. fan \subseteq ids
  OBVIOUS
<1>5. IsFiniteSet(fan)
  <2> HIDE DEF fan, ids
  <2>1. QED
    BY <1>3, <1>4, FS_Subset
<1>6. Cardinality(fan) \in Nat
  BY <1>5, FS_CardinalityType
<1>7. ~(Cardinality(fan) > 1)
  BY DEF Compound
<1>8. path[i].id \in fan /\ path[j].id \in fan
  OBVIOUS
<1> HIDE DEF fan
<1>9. QED
  BY <1>5, <1>6, <1>7, <1>8, AtMostOne

LEMMA PathKeepsIt ==
  ASSUME PathInv, NEW path \in BoundedSeq(Edges \cup OldEdges, EdgeLimit + 1), ValidatePath(path)
  PROVE  PathInv'
<1> DEFINE ids == {path[i].id : i \in DOMAIN path}
           some == [id \in ids |-> manifest.results[id]]
           compound == IF Compound(some) THEN {"COMPOUND_FANOUT"} ELSE {}
           found == FindingsIn(some)
<1>0. UNCHANGED <<tables, model, manifest>>
  BY DEF ValidatePath
<1>1. CASE path = <<>> \/ Len(path) > EdgeLimit \/ ~PathShapeOK(path)
  <2>1. answer' = [kind |-> "path", code |-> "INVALID_ARGUMENT", about |-> <<>>, findings |-> {}]
    BY <1>1 DEF ValidatePath, Answers, Says
  <2>2. AnswerOK(answer', tables, model)
    BY <2>1, AnswersOfNothing
  <2>3. QED
    BY <1>0, <2>2, AnswersKeepIt
<1>2. CASE path # <<>> /\ PathShapeOK(path) /\ ~(Len(path) > EdgeLimit) /\ ~Fresh
  <2>1. answer' = [kind |-> "path", code |-> "EVIDENCE_STALE", about |-> <<>>, findings |-> {}]
    BY <1>2 DEF ValidatePath, Answers, Says
  <2>2. AnswerOK(answer', tables, model)
    BY <2>1, AnswersOfNothing
  <2>3. QED
    BY <1>0, <2>2, AnswersKeepIt
<1>3. CASE path # <<>> /\ PathShapeOK(path) /\ ~(Len(path) > EdgeLimit) /\ Fresh
  <2>1. answer' = [kind |-> "path", code |-> "ok", about |-> path, findings |-> found \cup compound]
    BY <1>3 DEF ValidatePath, Answers, Says
  <2>2. Len(path) \in Nat \ {0} /\ DOMAIN path = 1..Len(path)
    <3>1. EdgeLimit + 1 \in Nat
      BY PathConstants
    <3>2. QED
      BY <1>3, <3>1, PathsAreSequences
  <2>3. IsPath(model, path)
    BY <1>3, <2>2, HereAndNow DEF PathShapeOK, IsPath
  <2>4. ids \subseteq IdsIn(model)
    BY <1>3, HereAndNow DEF PathShapeOK
  <2>5. manifest.results = ResultsIn(tables, model)
    BY <1>3, FreshIsNow
  <2>6. /\ found \subseteq ValidationCodes
        /\ \A id \in ids : ValidatedIn(tables, RelationshipIn(model, id)).findings \subseteq found
    <3>1. found = FindingsIn([id \in ids |-> ResultsIn(tables, model)[id]])
      BY <2>5
    <3> HIDE DEF ids, found
    <3>2. QED
      BY <3>1, <2>4, FindingsOfResults
  <2>7. \A id \in ids : manifest.results[id].result = ValidatedIn(tables, RelationshipIn(model, id))
    BY <2>4, <2>5 DEF ResultsIn
  <2>8. \A i, j \in DOMAIN path :
          /\ FansOut(ValidatedIn(tables, RelationshipIn(model, path[i].id)))
          /\ FansOut(ValidatedIn(tables, RelationshipIn(model, path[j].id)))
          /\ path[i].id # path[j].id
          => Compound(some)
    <3> SUFFICES ASSUME ~Compound(some), NEW i \in DOMAIN path, NEW j \in DOMAIN path,
                        FansOut(manifest.results[path[i].id].result),
                        FansOut(manifest.results[path[j].id].result)
                 PROVE  path[i].id = path[j].id
      BY <2>7
    <3>1. PICK res : res = manifest.results
      OBVIOUS
    <3>2. ~Compound([id \in {path[k].id : k \in DOMAIN path} |-> res[id]])
      BY <3>1
    <3>3. FansOut(res[path[i].id].result) /\ FansOut(res[path[j].id].result)
      BY <3>1
    <3>4. QED
      BY <2>2, <3>2, <3>3, CompoundMeansTwo
  <2>9. compound \subseteq ValidationCodes /\ (Compound(some) => "COMPOUND_FANOUT" \in compound)
    BY DEF ValidationCodes, LegacyBlocking
  <2>10. \A i \in DOMAIN path : path[i].id \in ids
    OBVIOUS
  <2> HIDE DEF ids, some, compound, found
  <2>11. FoundOnPath(answer', tables, model)
    BY <2>1, <2>6, <2>8, <2>9, <2>10 DEF FoundOnPath
  <2>12. AnswerOK(answer', tables, model)
    BY <2>1, <2>3, <2>6, <2>9, <2>11 DEF AnswerOK, VouchesFor, VouchesForPath, AcceptedAsCandidate
  <2>13. QED
    BY <1>0, <2>12, AnswersKeepIt
<1>4. QED
  BY <1>1, <1>2, <1>3

LEMMA PathInvHolds ==
  PathSpec => []PathInv
<1>1. Init => PathInv
  BY PathConstants DEF Init, PathInv, ModelOK
<1>2. PathInv /\ [Next]_pathVars => PathInv'
  <2> SUFFICES ASSUME PathInv, [Next]_pathVars
               PROVE  PathInv'
    OBVIOUS
  <2>1. CASE Scan
    BY <2>1, ScanKeepsIt
  <2>2. CASE ValidateProject
    BY <2>2, ValidateKeepsIt
  <2>3. CASE UpdateBaseline
    BY <2>3, BaselineKeepsIt
  <2>4. CASE Check
    BY <2>4, CheckKeepsIt
  <2>5. CASE ChangeSource
    BY <2>5, ChangeKeepsIt
  <2>6. CASE Forget
    BY <2>6, ForgetKeepsIt
  <2>7. CASE \E from, to \in Endpoints : Accept(from, to)
    BY <2>7, AcceptKeepsIt
  <2>8. CASE \E source, target \in Entities, depth \in PathDepths : FindJoinPath(source, target, depth)
    BY <2>8, FindKeepsIt
  <2>9. CASE \E path \in BoundedSeq(Edges \cup OldEdges, EdgeLimit + 1) : ValidatePath(path)
    BY <2>9, PathKeepsIt
  <2>10. CASE \E ids \in (SUBSET (Ids \cup {edge.id : edge \in OldEdges})) \ {{}} : ValidateEdges(ids)
    BY <2>10, EdgesKeepIt
  <2>11. CASE UNCHANGED pathVars
    BY <2>11 DEF PathInv, pathVars
  <2>12. QED
    BY <2>1, <2>2, <2>3, <2>4, <2>5, <2>6, <2>7, <2>8, <2>9, <2>10, <2>11 DEF Next
<1>3. QED
  BY <1>1, <1>2, PTL DEF PathSpec

-----------------------------------------------------------------------------
(* What the invariant says of the relationships that are vouched for.      *)

(* Their columns are columns, and validating them finds nothing blocking.  *)
LEMMA VouchedPass ==
  ASSUME PathInv, Passed, NEW r \in Vouched
  PROVE  /\ r \in Relationships /\ r.from \in Endpoints /\ r.to \in Endpoints
         /\ ColumnOf(r.from) \in Seq(Cells) /\ ColumnOf(r.to) \in Seq(Cells)
         /\ DOMAIN ColumnOf(r.from) = DOMAIN tables[r.from[1]]
         /\ DOMAIN ColumnOf(r.to) = DOMAIN tables[r.to[1]]
         /\ Validated(r).findings \cap LegacyBlocking = {}
<1>1. AnswerOK(answer, tables, model) /\ answer.code = "ok" /\ answer.findings \cap LegacyBlocking = {}
  BY DEF PathInv, Passed, Asked
<1>2. r \in model.relationships /\ ValidatedIn(tables, r).findings \subseteq answer.findings
  <2>1. CASE answer.kind \in {"validate", "check", "baseline", "edges"}
    <3>1. r \in answer.about
      BY <2>1 DEF Vouched
    <3>2. QED
      BY <1>1, <2>1, <3>1 DEF AnswerOK, VouchesFor
  <2>2. CASE answer.kind = "path"
    <3>1. PICK i \in DOMAIN answer.about : r = Relationship(answer.about[i].id)
      BY <2>2 DEF Vouched
    <3>2. /\ answer.about[i].id \in IdsIn(model)
          /\ ValidatedIn(tables, RelationshipIn(model, answer.about[i].id)).findings
               \subseteq answer.findings
      BY <1>1, <2>2, <3>1 DEF AnswerOK, VouchesForPath, IsPath, FoundOnPath
    <3>3. r = RelationshipIn(model, answer.about[i].id)
      BY <3>1, HereAndNow
    <3>4. ModelOK(model)
      BY DEF PathInv
    <3>5. QED
      BY <3>2, <3>3, <3>4, FoundById
  <2>3. answer.kind \in {"validate", "check", "baseline", "edges", "path"}
    BY DEF Vouched
  <2>4. QED
    BY <2>1, <2>2, <2>3
<1>3. r.from \in Endpoints /\ r.to \in Endpoints
  BY <1>2 DEF PathInv, ModelOK, Models
<1>4. IsSource(tables)
  BY DEF PathInv
<1>5. QED
  BY <1>1, <1>2, <1>3, <1>4, ColumnsAreCells, HereAndNow DEF Relationships

(* The rows that meet hold one value.                                      *)
LEMMA MeetMeans ==
  ASSUME NEW r, NEW i \in DOMAIN ColumnOf(r.from), NEW j \in DOMAIN ColumnOf(r.to)
  PROVE  Meet(r, i, j) <=>
           /\ i \in Present(ColumnOf(r.from)) /\ j \in Present(ColumnOf(r.to))
           /\ Normalized(ColumnOf(r.from))[i] = Normalized(ColumnOf(r.to))[j]
BY DEF Meet, Present, Normalized

(* What passes, row by row: a row that refers to something meets one row,  *)
(* and meets no row that another row of its side meets unless many do.     *)
LEMMA PassingRows ==
  ASSUME PathInv, Passed, NEW r \in Vouched
  PROVE  LET from == DOMAIN tables[r.from[1]] to == DOMAIN tables[r.to[1]] IN
         /\ \A i \in from : ColumnOf(r.from)[i] # Null => \E j \in to : Meet(r, i, j)
         /\ \A i \in from : \A j, k \in to : Meet(r, i, j) /\ Meet(r, i, k) => j = k
         /\ NoneRepeats(ColumnOf(r.from)) =>
              \A j \in to : \A i, k \in from : Meet(r, i, j) /\ Meet(r, k, j) => i = k
         /\ r.card = "one_to_one" => NoneRepeats(ColumnOf(r.from))
         /\ ~NoneRepeats(ColumnOf(r.from)) => FansOut(Validated(r))
<1> DEFINE child == ColumnOf(r.from)
           parent == ColumnOf(r.to)
<1>1. /\ child \in Seq(Cells) /\ parent \in Seq(Cells)
      /\ DOMAIN child = DOMAIN tables[r.from[1]] /\ DOMAIN parent = DOMAIN tables[r.to[1]]
      /\ Validated(r).findings \cap LegacyBlocking = {}
  BY VouchedPass
<1>2. Validated(r) = ValidateRelationship(child, parent, r.card)
  BY DEF Validated
<1>3. PICK found : found = Validated(r)
  OBVIOUS
<1>4. /\ NoneRepeats(parent) /\ Values(child) \subseteq Values(parent)
      /\ found.fromPerTo \in Nat
      /\ found.fromPerTo <= 1 <=> NoneRepeats(child)
      /\ r.card = IF NoneRepeats(child) THEN "one_to_one" ELSE "many_to_one"
  <2> HIDE DEF child, parent
  <2>1. QED
    BY <1>1, <1>2, <1>3, PassingPair
<1>5. \A i \in DOMAIN child, j \in DOMAIN parent :
        Meet(r, i, j) <=> /\ i \in Present(child) /\ j \in Present(parent)
                          /\ Normalized(child)[i] = Normalized(parent)[j]
  BY MeetMeans
<1>6. /\ Present(child) \subseteq DOMAIN child /\ Present(parent) \subseteq DOMAIN parent
      /\ \A i \in DOMAIN child : child[i] # Null => i \in Present(child)
  BY DEF Present
<1> HIDE DEF child, parent
<1>7. \A i \in DOMAIN child : child[i] # Null => \E j \in DOMAIN parent : Meet(r, i, j)
  BY <1>4, <1>5, <1>6, NormalizedRows
<1>8. /\ \A i \in DOMAIN child : \A j, k \in DOMAIN parent : Meet(r, i, j) /\ Meet(r, i, k) => j = k
      /\ NoneRepeats(child) =>
           \A j \in DOMAIN parent : \A i, k \in DOMAIN child : Meet(r, i, j) /\ Meet(r, k, j) => i = k
  BY <1>4, <1>5 DEF NoneRepeats
<1>9. ~NoneRepeats(child) => FansOut(Validated(r))
  BY <1>3, <1>4 DEF FansOut
<1>10. r.card = "one_to_one" => NoneRepeats(child)
  BY <1>4
<1>11. QED
  BY <1>1, <1>7, <1>8, <1>9, <1>10 DEF child, parent

LEMMA PassingHolds ==
  ASSUME PathInv, Passed, NEW r \in Vouched
  PROVE  Holds(r)
<1> DEFINE from == DOMAIN tables[r.from[1]]
           to == DOMAIN tables[r.to[1]]
<1>1. /\ \A i \in from : ColumnOf(r.from)[i] # Null => \E j \in to : Meet(r, i, j)
      /\ \A i \in from : \A j, k \in to : Meet(r, i, j) /\ Meet(r, i, k) => j = k
      /\ r.card = "one_to_one" =>
           \A j \in to : \A i, k \in from : Meet(r, i, j) /\ Meet(r, k, j) => i = k
  BY PassingRows
<1>2. IsFiniteSet(from) /\ IsFiniteSet(to)
  <2>1. /\ ColumnOf(r.from) \in Seq(Cells) /\ ColumnOf(r.to) \in Seq(Cells)
        /\ DOMAIN ColumnOf(r.from) = from /\ DOMAIN ColumnOf(r.to) = to
    BY VouchedPass
  <2> HIDE DEF from, to
  <2>2. QED
    BY <2>1, LenProperties, FirstNumbers
<1> HIDE DEF from, to
<1>3. ASSUME NEW i \in from, ColumnOf(r.from)[i] # Null
      PROVE  Cardinality({j \in to : Meet(r, i, j)}) = 1
  <2> DEFINE S == {j \in to : Meet(r, i, j)}
  <2>1. PICK j \in to : Meet(r, i, j)
    BY <1>1, <1>3
  <2>2. j \in S /\ \A k \in S : k = j
    BY <1>1, <2>1
  <2>3. IsFiniteSet(S)
    BY <1>2, FS_Subset
  <2> HIDE DEF S
  <2>4. Cardinality(S) = 1
    BY <2>2, <2>3, ExactlyOne
  <2>5. QED
    BY <2>4 DEF S
<1>4. ASSUME r.card = "one_to_one", NEW j \in to
      PROVE  Cardinality({i \in from : Meet(r, i, j)}) <= 1
  <2> DEFINE S == {i \in from : Meet(r, i, j)}
  <2>1. \A i, k \in S : i = k
    BY <1>1, <1>4
  <2>2. IsFiniteSet(S)
    BY <1>2, FS_Subset
  <2> HIDE DEF S
  <2>3. Cardinality(S) <= 1
    BY <2>1, <2>2, AtMostOne
  <2>4. QED
    BY <2>3 DEF S
<1>5. QED
  BY <1>3, <1>4 DEF Holds, from, to

-----------------------------------------------------------------------------
(* The theorems.                                                           *)

(* The confirmed relationships stay between entities of the model, each    *)
(* with an id of its own, a manifest has a result for each it was made     *)
(* with, and answers report known findings (accept_candidate,              *)
(* collect_current_evidence).                                              *)
THEOREM TablesStayOK == PathSpec => []TablesOK
<1>1. PathInv => TablesOK
  BY DEF PathInv, TablesOK, ModelOK, Models, ManifestOK, ResultsIn, IdsIn, Relationships, Asked,
         AnswerOK
<1>2. QED
  BY <1>1, PathInvHolds, PTL

(* Whatever passes holds of the rows the source has now, for tables of any *)
(* length (validate_relationship, validate_cached_path).                   *)
THEOREM WhatPassesHolds == PathSpec => []PassingMeansHolding
<1>1. PathInv => PassingMeansHolding
  BY PassingHolds DEF PassingMeansHolding
<1>2. QED
  BY <1>1, PathInvHolds, PTL

(* What was accepted validates on the source it was discovered in          *)
(* (accept_candidate, _candidate_for_columns, validate_relationship).      *)
THEOREM WhatIsAcceptedHolds == PathSpec => []AcceptedHolds
<1>1. ASSUME PathInv, Asked, answer.kind = "accept", NEW r \in answer.about
      PROVE  /\ answer.code = "strong" => Validated(r).findings \subseteq {"GRAIN_CHANGE"}
             /\ "CARDINALITY_DRIFT" \in Validated(r).findings =>
                  "ORPHAN_CHILD_ROW" \in Validated(r).findings
  <2> DEFINE child == ColumnIn(tables, r.from)
             parent == ColumnIn(tables, r.to)
  <2>1. /\ r \in model.relationships /\ IsCandidate(child, parent)
        /\ r.card = Candidate(child, parent).cardinality
        /\ answer.code = Candidate(child, parent).confidence
    BY <1>1 DEF PathInv, Asked, AnswerOK, AcceptedAsCandidate
  <2>2. r.from \in Endpoints /\ r.to \in Endpoints /\ IsSource(tables)
    BY <1>1, <2>1 DEF PathInv, ModelOK, Models
  <2>3. child \in Seq(Cells) /\ parent \in Seq(Cells)
    BY <2>2, ColumnsAreCells
  <2>4. Validated(r) = ValidateRelationship(child, parent, Candidate(child, parent).cardinality)
    BY <2>1, HereAndNow DEF ValidatedIn
  <2> HIDE DEF child, parent
  <2>5. QED
    BY <2>1, <2>3, <2>4, CandidatesAreObserved
<1>2. PathInv => AcceptedHolds
  BY <1>1 DEF AcceptedHolds
<1>3. QED
  BY <1>2, PathInvHolds, PTL

-----------------------------------------------------------------------------
(* Paths.                                                                  *)

(* The entities of a path in order.                                        *)
Node(p, i) == IF i = 0 THEN OriginIn(model, p[1]) ELSE TargetIn(model, p[i])

LEMMA NodesOfAPath ==
  ASSUME NEW p, IsPath(model, p)
  PROVE  /\ \A i \in 1..Len(p) : OriginIn(model, p[i]) = Node(p, i - 1)
         /\ \A i \in 1..Len(p) : TargetIn(model, p[i]) = Node(p, i)
         /\ \A i, j \in 0..Len(p) : Node(p, i) = Node(p, j) => i = j
         /\ PathEntities(p) = {Node(p, i) : i \in 0..Len(p)}
<1>1. Len(p) \in Nat \ {0} /\ DOMAIN p = 1..Len(p)
  BY DEF IsPath
<1>2. \A i \in 1..Len(p) : TargetIn(model, p[i]) = Node(p, i)
  BY <1>1 DEF Node
<1>3. \A i \in 1..Len(p) : OriginIn(model, p[i]) = Node(p, i - 1)
  <2> SUFFICES ASSUME NEW i \in 1..Len(p)
               PROVE  OriginIn(model, p[i]) = Node(p, i - 1)
    OBVIOUS
  <2>1. CASE i = 1
    BY <2>1 DEF Node
  <2>2. CASE i # 1
    <3>1. i \in 2..Len(p) /\ i - 1 # 0
      BY <1>1, <2>2
    <3>2. QED
      BY <3>1 DEF IsPath, Node
  <2>3. QED
    BY <2>1, <2>2
<1>4. ASSUME NEW i \in 0..Len(p), NEW j \in 0..Len(p), j < i
      PROVE  Node(p, i) # Node(p, j)
  <2>1. i \in 1..Len(p)
    BY <1>1, <1>4
  <2>2. TargetIn(model, p[i])
          \notin {OriginIn(model, p[1])} \cup {TargetIn(model, p[k]) : k \in 1..(i - 1)}
    BY <1>1, <2>1 DEF IsPath
  <2>3. CASE j = 0
    BY <1>2, <2>1, <2>2, <2>3 DEF Node
  <2>4. CASE j # 0
    <3>1. j \in 1..(i - 1) /\ j \in 1..Len(p)
      BY <1>1, <1>4, <2>4
    <3>2. QED
      BY <1>2, <2>1, <2>2, <3>1
  <2>5. QED
    BY <2>3, <2>4
<1>5. \A i, j \in 0..Len(p) : Node(p, i) = Node(p, j) => i = j
  <2> SUFFICES ASSUME NEW i \in 0..Len(p), NEW j \in 0..Len(p), i # j
               PROVE  Node(p, i) # Node(p, j)
    OBVIOUS
  <2>1. i < j \/ j < i
    BY <1>1
  <2>2. QED
    BY <2>1, <1>4
<1>6. PathEntities(p) = {Node(p, i) : i \in 0..Len(p)}
  <2>1. PathEntities(p) = {OriginIn(model, p[1])} \cup {TargetIn(model, p[i]) : i \in 1..Len(p)}
    BY <1>1, HereAndNow DEF PathEntities
  <2>2. 0..Len(p) = {0} \cup 1..Len(p)
    BY <1>1
  <2>3. {Node(p, i) : i \in 0..Len(p)} = {Node(p, 0)} \cup {Node(p, i) : i \in 1..Len(p)}
    BY <2>2
  <2>4. Node(p, 0) = OriginIn(model, p[1])
    BY DEF Node
  <2>5. QED
    BY <1>2, <2>1, <2>3, <2>4
<1>7. QED
  BY <1>2, <1>3, <1>5, <1>6

(* What reaches its neighbours, away from a place, reaches everything.     *)
LEMMA Spreads ==
  ASSUME NEW n \in Nat, NEW A, NEW k \in 0..n, k \in A,
         \A i \in 1..n : i <= k /\ i \in A => i - 1 \in A,
         \A i \in 1..n : i > k /\ i - 1 \in A => i \in A
  PROVE  0..n \subseteq A
<1>1. ASSUME NEW D \in SUBSET Nat, D # {}
      PROVE  \E x \in D : \A y \in D : x <= y
  <2> DEFINE R == OpToRel(<, Nat)
  <2>1. IsWellFoundedOn(R, Nat)
    BY NatLessThanWellFounded
  <2>2. PICK x \in D : \A y \in D : ~ (<<y, x>> \in R)
    <3> HIDE DEF R
    <3>1. QED
      BY <1>1, <2>1, WFMin
  <2>3. \A y \in D : ~ (y < x)
    BY <2>2 DEF OpToRel
  <2> HIDE DEF R
  <2>4. QED
    BY <2>3
<1>2. ASSUME NEW q \in 0..n, q > k
      PROVE  q \in A
  <2> SUFFICES ASSUME q \notin A
               PROVE  FALSE
    OBVIOUS
  <2> DEFINE D == {i \in 0..n : i > k /\ i \notin A}
  <2>1. D \in SUBSET Nat /\ D # {}
    BY <1>2
  <2>2. PICK x \in D : \A y \in D : x <= y
    <3> HIDE DEF D
    <3>1. QED
      BY <2>1, <1>1
  <2>3. x \in 1..n /\ x > k /\ x \notin A
    OBVIOUS
  <2>4. x - 1 \in 0..n /\ ~(x <= x - 1) /\ (x - 1 = k \/ x - 1 > k)
    BY <2>3
  <2>5. x - 1 \in A
    BY <2>2, <2>4
  <2>6. QED
    BY <2>3, <2>5
<1>3. ASSUME NEW q \in 0..n, q < k
      PROVE  q \in A
  <2> SUFFICES ASSUME q \notin A
               PROVE  FALSE
    OBVIOUS
  <2> DEFINE D == {d \in 0..n : d <= k /\ k - d \notin A}
  <2>1. D \in SUBSET Nat /\ k - q \in D
    <3>1. k - q \in 0..n /\ k - q <= k /\ k - (k - q) = q
      BY <1>3
    <3>2. QED
      BY <3>1
  <2>2. PICK x \in D : \A y \in D : x <= y
    <3> HIDE DEF D
    <3>1. QED
      BY <2>1, <1>1
  <2>3. x \in 0..n /\ x <= k /\ k - x \notin A
    OBVIOUS
  <2>4. x # 0
    BY <2>3
  <2>5. x - 1 \in 0..n /\ x - 1 <= k /\ ~(x <= x - 1) /\ k - (x - 1) \in 1..n
        /\ k - (x - 1) <= k /\ k - (x - 1) - 1 = k - x
    BY <2>3, <2>4
  <2>6. k - (x - 1) \in A
    BY <2>2, <2>5
  <2>7. QED
    BY <2>3, <2>5, <2>6
<1>4. QED
  BY <1>2, <1>3

(* The relationships on a path, by place, and their ends.                  *)
On(p, i) == RelationshipIn(model, p[i].id)

LEMMA EndsOnAPath ==
  ASSUME NEW p, IsPath(model, p), NEW i \in 1..Len(p)
  PROVE  \/ On(p, i).from[1] = Node(p, i - 1) /\ On(p, i).to[1] = Node(p, i)
         \/ On(p, i).to[1] = Node(p, i - 1) /\ On(p, i).from[1] = Node(p, i)
BY NodesOfAPath DEF On, OriginIn, TargetIn

(* One relationship is at one place.                                       *)
LEMMA OncePerPath ==
  ASSUME NEW p, IsPath(model, p), NEW i \in 1..Len(p), NEW j \in 1..Len(p), p[i].id = p[j].id
  PROVE  i = j
<1>1. On(p, i) = On(p, j)
  BY DEF On
<1>2. Len(p) \in Nat
  BY DEF IsPath
<1>3. i - 1 \in 0..Len(p) /\ j - 1 \in 0..Len(p) /\ i \in 0..Len(p) /\ j \in 0..Len(p)
  BY <1>2
<1>4. \/ Node(p, i) = Node(p, j)
      \/ Node(p, i) = Node(p, j - 1) /\ Node(p, i - 1) = Node(p, j)
  BY <1>1, EndsOnAPath
<1>5. i = j \/ (i = j - 1 /\ i - 1 = j)
  BY <1>3, <1>4, NodesOfAPath
<1>6. QED
  BY <1>5, <1>2

(* The path a passing answer vouches for.                                  *)
LEMMA PassingPath ==
  ASSUME PathInv, Passed, answer.kind = "path"
  PROVE  /\ IsPath(model, answer.about) /\ Len(answer.about) \in Nat \ {0}
         /\ \A i \in 1..Len(answer.about) : On(answer.about, i) \in Vouched
         /\ \A i, j \in 1..Len(answer.about) :
              FansOut(Validated(On(answer.about, i))) /\ FansOut(Validated(On(answer.about, j)))
                => i = j
<1> DEFINE p == answer.about
<1>1. /\ AnswerOK(answer, tables, model) /\ answer.code = "ok"
      /\ answer.findings \cap LegacyBlocking = {}
  BY DEF PathInv, Passed, Asked
<1>2. IsPath(model, p) /\ FoundOnPath(answer, tables, model)
  BY <1>1 DEF AnswerOK, VouchesForPath
<1>3. Len(p) \in Nat \ {0} /\ DOMAIN p = 1..Len(p)
  BY <1>2 DEF IsPath
<1>4. \A i \in 1..Len(p) : On(p, i) \in Vouched
  BY <1>3, HereAndNow DEF Vouched, On
<1>5. "COMPOUND_FANOUT" \notin answer.findings
  BY <1>1 DEF LegacyBlocking
<1>6. ASSUME NEW i \in 1..Len(p), NEW j \in 1..Len(p),
             FansOut(Validated(On(p, i))), FansOut(Validated(On(p, j)))
      PROVE  i = j
  <2>1. p[i].id = p[j].id
    BY <1>2, <1>3, <1>5, <1>6, HereAndNow DEF FoundOnPath, On
  <2>2. QED
    BY <1>2, <2>1, OncePerPath
<1>7. \A i, j \in 1..Len(p) :
        FansOut(Validated(On(p, i))) /\ FansOut(Validated(On(p, j))) => i = j
  BY <1>6
<1>8. QED
  BY <1>2, <1>3, <1>4, <1>7

(* Two joined rows that share the row of one end of a relationship on the  *)
(* path share the other's, towards the referenced side; and back, unless   *)
(* the relationship fans out.                                              *)
LEMMA RowsAgree ==
  ASSUME PathInv, Passed, answer.kind = "path",
         NEW one \in JoinedRows(answer.about), NEW other \in JoinedRows(answer.about),
         NEW i \in 1..Len(answer.about), NEW r, r = On(answer.about, i)
  PROVE  /\ one[r.from[1]] = other[r.from[1]] => one[r.to[1]] = other[r.to[1]]
         /\ ~FansOut(Validated(r)) /\ one[r.to[1]] = other[r.to[1]] =>
              one[r.from[1]] = other[r.from[1]]
<1> DEFINE p == answer.about
           from == DOMAIN tables[r.from[1]]
           to == DOMAIN tables[r.to[1]]
<1>1. /\ IsPath(model, p) /\ Len(p) \in Nat \ {0} /\ r \in Vouched /\ DOMAIN p = 1..Len(p)
  BY PassingPath DEF IsPath
<1>2. r.from[1] \in PathEntities(p) /\ r.to[1] \in PathEntities(p)
  <2>1. i - 1 \in 0..Len(p) /\ i \in 0..Len(p)
    BY <1>1
  <2>2. Node(p, i - 1) \in PathEntities(p) /\ Node(p, i) \in PathEntities(p)
    BY <1>1, <2>1, NodesOfAPath
  <2>3. QED
    BY <1>1, <2>2, EndsOnAPath
<1>3. r = Relationship(p[i].id)
  BY HereAndNow DEF On
<1>4. /\ one[r.from[1]] \in from /\ one[r.to[1]] \in to /\ Meet(r, one[r.from[1]], one[r.to[1]])
      /\ other[r.from[1]] \in from /\ other[r.to[1]] \in to
      /\ Meet(r, other[r.from[1]], other[r.to[1]])
  BY <1>1, <1>2, <1>3 DEF JoinedRows
<1>5. /\ \A j \in from : \A k, l \in to : Meet(r, j, k) /\ Meet(r, j, l) => k = l
      /\ ~FansOut(Validated(r)) =>
           \A k \in to : \A j, l \in from : Meet(r, j, k) /\ Meet(r, l, k) => j = l
  BY <1>1, PassingRows
<1> HIDE DEF from, to
<1>6. QED
  BY <1>4, <1>5

(* The place on the path whose rows are not repeated: the side that refers *)
(* to the other, of the relationship that fans out.                        *)
LEMMA GrainOfAPath ==
  ASSUME PathInv, Passed, answer.kind = "path"
  PROVE  \E k \in 0..Len(answer.about) :
           \A one, other \in JoinedRows(answer.about) :
             one[Node(answer.about, k)] = other[Node(answer.about, k)] =>
               \A i \in 0..Len(answer.about) : one[Node(answer.about, i)] = other[Node(answer.about, i)]
<1> DEFINE p == answer.about
           n == Len(p)
<1>1. /\ IsPath(model, p) /\ n \in Nat \ {0}
      /\ \A i, j \in 1..n : FansOut(Validated(On(p, i))) /\ FansOut(Validated(On(p, j))) => i = j
  BY PassingPath
(* It is enough that away from the place, each relationship is crossed in  *)
(* a direction in which it does not fan out.                               *)
<1>2. PICK k \in 0..n :
        \A i \in 1..n :
          \/ ~FansOut(Validated(On(p, i)))
          \/ i > k /\ On(p, i).from[1] = Node(p, i - 1) /\ On(p, i).to[1] = Node(p, i)
          \/ i <= k /\ On(p, i).to[1] = Node(p, i - 1) /\ On(p, i).from[1] = Node(p, i)
  <2>1. CASE \A i \in 1..n : ~FansOut(Validated(On(p, i)))
    <3>1. 0 \in 0..n
      BY <1>1
    <3>2. QED
      BY <2>1, <3>1
  <2>2. CASE \E i \in 1..n : FansOut(Validated(On(p, i)))
    <3>1. PICK m \in 1..n : FansOut(Validated(On(p, m)))
      BY <2>2
    <3>2. \A i \in 1..n : FansOut(Validated(On(p, i))) => i = m
      BY <1>1, <3>1
    <3>3. CASE On(p, m).from[1] = Node(p, m - 1) /\ On(p, m).to[1] = Node(p, m)
      <4>1. m - 1 \in 0..n /\ m > m - 1
        BY <1>1
      <4>2. QED
        BY <3>2, <3>3, <4>1
    <3>4. CASE On(p, m).to[1] = Node(p, m - 1) /\ On(p, m).from[1] = Node(p, m)
      <4>1. m \in 0..n /\ m <= m
        BY <1>1
      <4>2. QED
        BY <3>2, <3>4, <4>1
    <3>5. QED
      BY <1>1, <3>3, <3>4, EndsOnAPath
  <2>3. QED
    BY <2>1, <2>2
<1>3. ASSUME NEW one \in JoinedRows(p), NEW other \in JoinedRows(p),
             one[Node(p, k)] = other[Node(p, k)]
      PROVE  \A i \in 0..n : one[Node(p, i)] = other[Node(p, i)]
  <2> DEFINE A == {i \in 0..n : one[Node(p, i)] = other[Node(p, i)]}
  <2>1. k \in A
    BY <1>3
  <2>2. \A i \in 1..n :
          \/ On(p, i).from[1] = Node(p, i - 1) /\ On(p, i).to[1] = Node(p, i)
          \/ On(p, i).to[1] = Node(p, i - 1) /\ On(p, i).from[1] = Node(p, i)
    BY <1>1, EndsOnAPath
  <2>3. \A i \in 1..n :
          /\ one[On(p, i).from[1]] = other[On(p, i).from[1]] =>
               one[On(p, i).to[1]] = other[On(p, i).to[1]]
          /\ ~FansOut(Validated(On(p, i))) /\ one[On(p, i).to[1]] = other[On(p, i).to[1]] =>
               one[On(p, i).from[1]] = other[On(p, i).from[1]]
    BY RowsAgree
  <2>4. \A i \in 1..n :
          /\ i <= k /\ one[Node(p, i)] = other[Node(p, i)] =>
               one[Node(p, i - 1)] = other[Node(p, i - 1)]
          /\ i > k /\ one[Node(p, i - 1)] = other[Node(p, i - 1)] =>
               one[Node(p, i)] = other[Node(p, i)]
    <3> SUFFICES ASSUME NEW i \in 1..n
                 PROVE  /\ i <= k /\ one[Node(p, i)] = other[Node(p, i)] =>
                             one[Node(p, i - 1)] = other[Node(p, i - 1)]
                        /\ i > k /\ one[Node(p, i - 1)] = other[Node(p, i - 1)] =>
                             one[Node(p, i)] = other[Node(p, i)]
      OBVIOUS
    <3>1. ~(i > k /\ i <= k)
      BY <1>1
    <3> HIDE DEF n, p, A
    <3>2. QED
      BY <1>2, <2>2, <2>3, <3>1
  <2>5. \A i \in 1..n : i \in 0..n /\ i - 1 \in 0..n
    BY <1>1
  <2>6. /\ \A i \in 1..n : i <= k /\ i \in A => i - 1 \in A
        /\ \A i \in 1..n : i > k /\ i - 1 \in A => i \in A
    BY <2>4, <2>5
  <2> HIDE DEF A
  <2>7. 0..n \subseteq A
    <3>1. PICK m \in Nat : m = n
      BY <1>1
    <3>2. QED
      BY <2>1, <2>6, <3>1, Spreads
  <2>8. QED
    BY <2>7 DEF A
<1>4. QED
  BY <1>3

(* A passing path repeats no row of one entity on it, however long it is   *)
(* (validate_cached_path, validate_path).                                  *)
THEOREM PassingPathsHaveAGrain == PathSpec => []PassingPathsKeepAGrain
<1>1. ASSUME PathInv, Passed, answer.kind = "path"
      PROVE  \E e \in PathEntities(answer.about) :
               \A one, other \in JoinedRows(answer.about) : one[e] = other[e] => one = other
  <2> DEFINE p == answer.about
             n == Len(p)
             Grain(k) == \A one, other \in JoinedRows(p) :
                           one[Node(p, k)] = other[Node(p, k)] =>
                             \A i \in 0..n : one[Node(p, i)] = other[Node(p, i)]
  <2>0. \E k \in 0..n : Grain(k)
    BY <1>1, GrainOfAPath
  <2>1. PICK k \in 0..n : Grain(k)
    BY <2>0
  <2>2. PathEntities(p) = {Node(p, i) : i \in 0..n}
    BY <1>1, PassingPath, NodesOfAPath
  <2>3. Node(p, k) \in PathEntities(p)
    BY <2>2
  <2>4. ASSUME NEW one \in JoinedRows(p), NEW other \in JoinedRows(p),
               one[Node(p, k)] = other[Node(p, k)]
        PROVE  one = other
    <3>1. \A e \in PathEntities(p) : one[e] = other[e]
      BY <2>1, <2>2, <2>4
    <3>2. PICK S : one \in [PathEntities(p) -> S] /\ other \in [PathEntities(p) -> S]
      BY DEF JoinedRows
    <3> HIDE DEF p
    <3>3. QED
      BY <3>1, <3>2
  <2>5. QED
    BY <2>3, <2>4
<1>2. PathInv => PassingPathsKeepAGrain
  BY <1>1 DEF PassingPathsKeepAGrain
<1>3. QED
  BY <1>2, PathInvHolds, PTL

-----------------------------------------------------------------------------
(* The runtime.                                                            *)

(* A column whose values are written canonically is its own normal form.   *)
LEMMA PlainIsNormal ==
  ASSUME NEW column, Plain(column)
  PROVE  \A i \in Present(column) : Normalized(column)[i] = column[i]
BY DEF Plain, Normalized, Normal

(* Both count alike.                                                       *)
LEMMA SameCardinality == \A S : Runtime!Cardinality(S) = Cardinality(S)
BY DEF Runtime!Cardinality, Cardinality

(* The groups of rows the runtime counts in SQL are those of the commands. *)
LEMMA SameGroups ==
  ASSUME NEW column \in Seq(Cells), Plain(column)
  PROVE  /\ Runtime!NonNull(column) = Present(column)
         /\ Runtime!Keys(column) = Values(column)
         /\ Runtime!LargestGroup(column) \in Nat
         /\ Runtime!LargestGroup(column) <= 1 <=> NoneRepeats(column)
<1> DEFINE sizes == {0} \cup {Cardinality(RowsOf(column, v)) : v \in Values(column)}
           largest == Runtime!LargestGroup(column)
<1>1. Runtime!NonNull(column) = Present(column)
  BY DEF Runtime!NonNull, Present
<1>2. Runtime!Keys(column) = Values(column)
  BY <1>1, PlainIsNormal, NormalizedRows DEF Runtime!Keys
<1>3. \A v \in Values(column) : Runtime!RowsWith(column, v) = RowsOf(column, v)
  <2> SUFFICES ASSUME NEW v \in Values(column)
               PROVE  Runtime!RowsWith(column, v) = RowsOf(column, v)
    OBVIOUS
  <2>1. PICK i \in Present(column) : v = column[i]
    BY PlainIsNormal, NormalizedRows
  <2>2. v # Null
    BY <2>1 DEF Present
  <2>3. \A j : j \in RowsOf(column, v) <=> j \in Present(column) /\ column[j] = v
    BY PlainIsNormal DEF RowsOf
  <2>4. \A j : j \in Runtime!RowsWith(column, v) <=> j \in DOMAIN column /\ column[j] = v
    BY DEF Runtime!RowsWith
  <2>5. QED
    BY <2>2, <2>3, <2>4 DEF Present
<1>4. largest = CHOOSE n \in sizes : \A m \in sizes : m <= n
  <2>1. sizes = {0} \cup {Cardinality(Runtime!RowsWith(column, v)) : v \in Runtime!Keys(column)}
    BY <1>2, <1>3
  <2> HIDE DEF sizes
  <2>2. QED
    BY <2>1, SameCardinality DEF Runtime!LargestGroup
<1>5. MostRows(column, Values(column)) = Max(sizes)
  BY DEF MostRows, RowsOf
<1>6. sizes \in SUBSET Nat /\ 0 \in sizes /\ \A x \in sizes : x <= Len(column)
  BY RowsOfAreFinite
<1>7. Len(column) \in Nat
  OBVIOUS
<1> HIDE DEF sizes, largest
<1>8. Max(sizes) \in sizes /\ \A m \in sizes : Max(sizes) >= m
  BY <1>6, <1>7, MaxIsThere
<1>9. \A m \in sizes : m <= Max(sizes)
  BY <1>6, <1>8
<1>10. largest \in sizes /\ \A m \in sizes : m <= largest
  BY <1>4, <1>8, <1>9
<1>11. largest = Max(sizes)
  <2>1. largest <= Max(sizes) /\ Max(sizes) <= largest
    BY <1>8, <1>9, <1>10
  <2>2. largest \in Nat /\ Max(sizes) \in Nat
    BY <1>6, <1>8, <1>10
  <2>3. QED
    BY <2>1, <2>2
<1>12. MostRows(column, Values(column)) <= 1 <=> NoneRepeats(column)
  <2>1. Matched(column, column) = Values(column)
    BY DEF Matched
  <2>2. QED
    BY <2>1, MostRowsIsOne, AllMatched
<1>13. QED
  BY <1>1, <1>2, <1>5, <1>6, <1>8, <1>11, <1>12 DEF largest

LEMMA RuntimeMeasuresTheSame ==
  ASSUME NEW child \in Seq(Cells), NEW parent \in Seq(Cells), Plain(child), Plain(parent),
         NoneRepeats(parent), Values(child) \subseteq Values(parent)
  PROVE  LET m == Runtime!Measure(child, parent) IN
         /\ m.parentUnique /\ ~m.orphans
         /\ m.observed = IF NoneRepeats(child) THEN "one_to_one" ELSE "many_to_one"
<1> DEFINE m == Runtime!Measure(child, parent)
<1>1. m.parentUnique
  <2>1. m.parentUnique <=> Cardinality(Present(parent)) = Cardinality(Values(parent))
    BY SameGroups, SameCardinality DEF Runtime!Measure
  <2>2. Profile(parent).unique
    BY UniqueMeansNoneRepeats
  <2>3. QED
    BY <2>1, <2>2 DEF Profile
<1>2. ~m.orphans
  <2>1. Runtime!Included(child, parent) = Present(child)
    <3>1. \A i \in Present(child) : \E j \in DOMAIN parent : parent[j] = child[i]
      <4> SUFFICES ASSUME NEW i \in Present(child)
                   PROVE  \E j \in DOMAIN parent : parent[j] = child[i]
        OBVIOUS
      <4>1. child[i] \in Values(parent)
        BY PlainIsNormal, NormalizedRows
      <4>2. PICK j \in Present(parent) : parent[j] = child[i]
        BY <4>1, PlainIsNormal, NormalizedRows
      <4>3. QED
        BY <4>2 DEF Present
    <3>2. QED
      BY <3>1, SameGroups DEF Runtime!Included
  <2>2. Cardinality(Present(child)) \in Nat
    BY PresentIsFinite
  <2>3. m.orphans <=> Cardinality(Present(child)) - Cardinality(Present(child)) # 0
    BY <2>1, SameGroups, SameCardinality DEF Runtime!Measure
  <2>4. QED
    BY <2>2, <2>3
<1>3. m.observed = IF NoneRepeats(child) THEN "one_to_one" ELSE "many_to_one"
  <2>1. m.observed = Runtime!ObservedCardinality(Runtime!LargestGroup(child),
                                                 Runtime!LargestGroup(parent))
    BY DEF Runtime!Measure
  <2>2. /\ Runtime!LargestGroup(child) \in Nat /\ Runtime!LargestGroup(parent) \in Nat
        /\ Runtime!LargestGroup(child) <= 1 <=> NoneRepeats(child)
        /\ Runtime!LargestGroup(parent) <= 1
    BY SameGroups
  <2> HIDE DEF m
  <2>3. QED
    BY <2>1, <2>2 DEF Runtime!ObservedCardinality
<1>4. QED
  BY <1>1, <1>2, <1>3

(* Where values are written canonically, what passes the commands passes   *)
(* the verification of the runtime (validate_relationship, _measure,       *)
(* _findings).                                                             *)
THEOREM RuntimeAgreesAlways == PathSpec => []RuntimeAgrees
<1>1. ASSUME PathInv, Passed, NEW r \in Vouched,
             Plain(ColumnOf(r.from)), Plain(ColumnOf(r.to))
      PROVE  Runtime!Findings(Runtime!Measure(ColumnOf(r.from), ColumnOf(r.to)), r.card)
               \cap Runtime!BlockingCodes = {}
  <2>1. PICK child \in Seq(Cells), parent \in Seq(Cells) :
          child = ColumnOf(r.from) /\ parent = ColumnOf(r.to)
    BY <1>1, VouchedPass
  <2>2. ValidateRelationship(child, parent, r.card).findings \cap LegacyBlocking = {}
    BY <1>1, <2>1, VouchedPass DEF Validated
  <2>3. /\ NoneRepeats(parent) /\ Values(child) \subseteq Values(parent)
        /\ r.card = IF NoneRepeats(child) THEN "one_to_one" ELSE "many_to_one"
    BY <2>2, PassingPair
  <2>4. PICK m : m = Runtime!Measure(child, parent)
    OBVIOUS
  <2>5. m.parentUnique /\ ~m.orphans /\ m.observed = r.card
    BY <1>1, <2>1, <2>3, <2>4, RuntimeMeasuresTheSame
  <2>6. r.card \in Runtime!Allowed[r.card] /\ r.card # "many_to_many"
    BY <2>3 DEF Runtime!Allowed, Runtime!Cardinalities
  <2>7. Runtime!Findings(m, r.card) \cap Runtime!BlockingCodes = {}
    BY <2>5, <2>6 DEF Runtime!Findings, Runtime!BlockingCodes, Runtime!FindingCodes
  <2>8. QED
    BY <2>1, <2>4, <2>7
<1>2. PathInv => RuntimeAgrees
  BY <1>1 DEF RuntimeAgrees
<1>3. QED
  BY <1>2, PathInvHolds, PTL

-----------------------------------------------------------------------------
(* find_join_path.                                                         *)

(* One round of the queue, for all walks in it.                            *)
Round(walks, target) ==
  UNION {Onwards(w) : w \in {v \in walks : v.path = <<>> \/ v.at # target}}

Start(source) == {[at |-> source, path |-> <<>>, met |-> {source}]}

AreWalks(f, source, target, n) ==
  f = [k \in 0..n |-> IF k = 0 THEN Start(source) ELSE Round(f[k - 1], target)]

(* Rounds can be counted as far as is asked.                               *)
LEMMA WalksExist ==
  ASSUME NEW source, NEW target, NEW depth \in Nat
  PROVE  \E f : AreWalks(f, source, target, depth)
<1> DEFINE Missing == {n \in Nat : ~ \E f : AreWalks(f, source, target, n)}
           R == OpToRel(<, Nat)
<1> SUFFICES ASSUME Missing # {}
             PROVE  FALSE
  OBVIOUS
<1>1. IsWellFoundedOn(R, Nat)
  BY NatLessThanWellFounded
<1>2. PICK n \in Missing : \A m \in Missing : ~ (<<m, n>> \in R)
  <2>1. Missing \subseteq Nat
    OBVIOUS
  <2> HIDE DEF R, Missing
  <2>2. QED
    BY <1>1, <2>1, WFMin
<1>3. n \in Nat /\ \A m \in Nat : m < n => m \notin Missing
  BY <1>2 DEF OpToRel
<1>4. CASE n = 0
  <2> DEFINE f == [k \in 0..0 |-> Start(source)]
  <2>1. \A k \in 0..0 : k = 0
    OBVIOUS
  <2>2. AreWalks(f, source, target, 0)
    BY <2>1 DEF AreWalks
  <2>3. QED
    BY <1>2, <1>4, <2>2
<1>5. CASE n # 0
  <2>1. n - 1 \in Nat /\ n - 1 < n
    BY <1>3, <1>5
  <2>2. PICK g : AreWalks(g, source, target, n - 1)
    BY <1>3, <2>1
  <2>3. \A k \in 0..(n - 1) : g[k] = IF k = 0 THEN Start(source) ELSE Round(g[k - 1], target)
    BY <2>2 DEF AreWalks
  <2> DEFINE f == [k \in 0..n |-> IF k = n THEN Round(g[n - 1], target) ELSE g[k]]
  <2>4. \A k \in 0..n : k # n => k \in 0..(n - 1)
    BY <1>3
  <2>5. \A k \in 0..n : k # 0 => k - 1 \in 0..n /\ k - 1 # n
    BY <1>3
  <2>6. \A k \in 0..n : f[k] = IF k = 0 THEN Start(source) ELSE Round(f[k - 1], target)
    <3> SUFFICES ASSUME NEW k \in 0..n
                 PROVE  f[k] = IF k = 0 THEN Start(source) ELSE Round(f[k - 1], target)
      OBVIOUS
    <3>1. CASE k = n
      BY <1>5, <2>5, <3>1
    <3>2. CASE k # n
      BY <2>3, <2>4, <2>5, <3>2
    <3>3. QED
      BY <3>1, <3>2
  <2>7. DOMAIN f = 0..n /\ f = [k \in 0..n |-> f[k]]
    OBVIOUS
  <2> HIDE DEF f
  <2>8. AreWalks(f, source, target, n)
    BY <2>6, <2>7 DEF AreWalks
  <2>9. QED
    BY <1>2, <2>8
<1>6. QED
  BY <1>4, <1>5

LEMMA PathsFromWalks ==
  ASSUME NEW source, NEW target, NEW depth \in Nat
  PROVE  \E f : /\ AreWalks(f, source, target, depth)
                /\ PathsFrom(source, target, depth) =
                     {w.path : w \in {v \in UNION {f[k] : k \in 1..depth} : v.at = target}}
<1> DEFINE f == CHOOSE g : AreWalks(g, source, target, depth)
<1>1. AreWalks(f, source, target, depth)
  BY WalksExist
<1>2. PathsFrom(source, target, depth) =
        {w.path : w \in {v \in UNION {f[k] : k \in 1..depth} : v.at = target}}
  BY DEF PathsFrom, AreWalks, Start, Round
<1>3. QED
  BY <1>1, <1>2

(* A walk of k edges from an entity, as a function of its places; it meets *)
(* the target, if at all, at its end.                                      *)
At(source, p, i) == IF i = 0 THEN source ELSE Target(p[i])

Walks(source, target, k) ==
  {p \in [1..k -> Edges] :
     \A i \in 1..k : /\ Origin(p[i]) = At(source, p, i - 1)
                     /\ Target(p[i]) \notin {At(source, p, j) : j \in 0..(i - 1)}
                     /\ i < k => Target(p[i]) # target}

Walk(source, p, k) == [at |-> At(source, p, k), path |-> p, met |-> {At(source, p, j) : j \in 0..k}]

(* A walk and one more edge.                                               *)
IsLonger(q, p, e, k) ==
  /\ p \in [1..k -> Edges] /\ e \in Edges /\ q \in [1..(k + 1) -> Edges]
  /\ \A i \in 1..k : q[i] = p[i]
  /\ q[k + 1] = e

LEMMA OneMoreEdge ==
  ASSUME NEW source, NEW target, NEW k \in Nat, NEW p, NEW q, NEW e, IsLonger(q, p, e, k)
  PROVE  /\ q \in Walks(source, target, k + 1) <=>
              /\ p \in Walks(source, target, k)
              /\ k = 0 \/ At(source, p, k) # target
              /\ Origin(e) = At(source, p, k)
              /\ Target(e) \notin {At(source, p, j) : j \in 0..k}
         /\ \A j \in 0..k : At(source, q, j) = At(source, p, j)
         /\ At(source, q, k + 1) = Target(e)
         /\ {At(source, q, j) : j \in 0..(k + 1)} = {At(source, p, j) : j \in 0..k} \cup {Target(e)}
<1>0. /\ p \in [1..k -> Edges] /\ e \in Edges /\ q \in [1..(k + 1) -> Edges]
      /\ \A i \in 1..k : q[i] = p[i]
      /\ q[k + 1] = e
  BY DEF IsLonger
<1>1. \A j \in 0..k : At(source, q, j) = At(source, p, j)
  <2> SUFFICES ASSUME NEW j \in 0..k
               PROVE  At(source, q, j) = At(source, p, j)
    OBVIOUS
  <2>1. CASE j = 0
    BY <2>1 DEF At
  <2>2. CASE j # 0
    <3>1. j \in 1..k
      BY <2>2
    <3>2. QED
      BY <1>0, <2>2, <3>1 DEF At
  <2>3. QED
    BY <2>1, <2>2
<1>2. At(source, q, k + 1) = Target(e)
  <2>1. k + 1 # 0
    OBVIOUS
  <2>2. QED
    BY <1>0, <2>1 DEF At
<1>3. {At(source, q, j) : j \in 0..(k + 1)} = {At(source, p, j) : j \in 0..k} \cup {Target(e)}
  <2>1. 0..(k + 1) = 0..k \cup {k + 1}
    OBVIOUS
  <2>2. {At(source, q, j) : j \in 0..(k + 1)} = {At(source, q, j) : j \in 0..k} \cup {At(source, q, k + 1)}
    BY <2>1
  <2>3. {At(source, q, j) : j \in 0..k} = {At(source, p, j) : j \in 0..k}
    BY <1>1
  <2>4. QED
    BY <1>2, <2>2, <2>3
<1>4. \A i \in 1..k : /\ i - 1 \in 0..k /\ q[i] = p[i]
                      /\ {At(source, q, j) : j \in 0..(i - 1)} = {At(source, p, j) : j \in 0..(i - 1)}
                      /\ At(source, q, i - 1) = At(source, p, i - 1)
  <2> SUFFICES ASSUME NEW i \in 1..k
               PROVE  /\ i - 1 \in 0..k /\ q[i] = p[i]
                      /\ {At(source, q, j) : j \in 0..(i - 1)} = {At(source, p, j) : j \in 0..(i - 1)}
                      /\ At(source, q, i - 1) = At(source, p, i - 1)
    OBVIOUS
  <2>1. i - 1 \in 0..k /\ \A j \in 0..(i - 1) : j \in 0..k
    OBVIOUS
  <2>2. QED
    BY <1>0, <1>1, <2>1
<1> DEFINE Good(w, n, i) == /\ Origin(w[i]) = At(source, w, i - 1)
                            /\ Target(w[i]) \notin {At(source, w, j) : j \in 0..(i - 1)}
                            /\ i < n => Target(w[i]) # target
<1>5. q \in Walks(source, target, k + 1) <=> \A i \in 1..(k + 1) : Good(q, k + 1, i)
  BY <1>0 DEF Walks
<1>6. p \in Walks(source, target, k) <=> \A i \in 1..k : Good(p, k, i)
  BY <1>0 DEF Walks
<1>7. 1..(k + 1) = 1..k \cup {k + 1}
  OBVIOUS
<1>8. Good(q, k + 1, k + 1) <=> /\ Origin(e) = At(source, p, k)
                                /\ Target(e) \notin {At(source, p, j) : j \in 0..k}
  <2>1. (k + 1) - 1 = k /\ ~(k + 1 < k + 1)
    OBVIOUS
  <2>2. k \in 0..k
    OBVIOUS
  <2>3. At(source, q, k) = At(source, p, k)
    BY <1>1, <2>2
  <2>4. {At(source, q, j) : j \in 0..k} = {At(source, p, j) : j \in 0..k}
    BY <1>1
  <2>5. QED
    BY <1>0, <2>1, <2>3, <2>4
<1>9. \A i \in 1..k : Good(q, k + 1, i) <=> Good(p, k, i) /\ (i = k => Target(p[i]) # target)
  <2> SUFFICES ASSUME NEW i \in 1..k
               PROVE  Good(q, k + 1, i) <=> Good(p, k, i) /\ (i = k => Target(p[i]) # target)
    OBVIOUS
  <2>1. i < k + 1 /\ (i < k <=> i # k)
    OBVIOUS
  <2>2. QED
    BY <1>4, <2>1
<1>10. k # 0 => (k \in 1..k /\ At(source, p, k) = Target(p[k]))
  BY DEF At
<1>11. k = 0 => 1..k = {}
  OBVIOUS
<1> HIDE DEF Good
<1>12. (\A i \in 1..(k + 1) : Good(q, k + 1, i)) <=>
         /\ \A i \in 1..k : Good(p, k, i)
         /\ k = 0 \/ At(source, p, k) # target
         /\ Good(q, k + 1, k + 1)
  BY <1>7, <1>9, <1>10, <1>11
<1>13. QED
  BY <1>1, <1>2, <1>3, <1>5, <1>6, <1>8, <1>12

LEMMA AppendIsLonger ==
  ASSUME NEW k \in Nat, NEW p \in [1..k -> Edges], NEW e \in Edges
  PROVE  IsLonger(Append(p, e), p, e, k)
<1> DEFINE S == Edges
<1>1. p \in [1..k -> S] /\ e \in S
  OBVIOUS
<1> HIDE DEF S
<1>2. p \in Seq(S)
  BY <1>1, SeqDef
<1>3. Len(p) = k
  BY <1>1, <1>2, LenProperties
<1>4. /\ Append(p, e) \in Seq(S) /\ Len(Append(p, e)) = k + 1
      /\ \A i \in 1..k : Append(p, e)[i] = p[i]
      /\ Append(p, e)[k + 1] = e
  BY <1>1, <1>2, <1>3, AppendProperties
<1>5. PICK q : q = Append(p, e)
  OBVIOUS
<1>6. q \in [1..(k + 1) -> S]
  <2>1. q \in Seq(S) /\ Len(q) = k + 1
    BY <1>4, <1>5
  <2>2. QED
    BY <2>1, LenProperties
<1>7. IsLonger(q, p, e, k)
  BY <1>1, <1>4, <1>5, <1>6 DEF S, IsLonger
<1>8. QED
  BY <1>5, <1>7

(* The queue holds, after k rounds, the walks of k edges.                  *)
WalkRecords(source, target, k) == {Walk(source, p, k) : p \in Walks(source, target, k)}

LEMMA FirstRound ==
  ASSUME NEW source, NEW target
  PROVE  Start(source) = WalkRecords(source, target, 0)
<1>1. Walks(source, target, 0) = {<<>>}
  <2>1. PICK S : S = Edges
    OBVIOUS
  <2>2. <<>> \in [1..0 -> S]
    BY EmptySeq, LenProperties
  <2>3. \A p \in [1..0 -> S] : p = <<>>
    BY <2>2
  <2>4. \A i : i \notin 1..0
    OBVIOUS
  <2>5. QED
    BY <2>1, <2>2, <2>3, <2>4 DEF Walks
<1>2. {At(source, <<>>, j) : j \in 0..0} = {source} /\ At(source, <<>>, 0) = source
  <2>1. 0..0 = {0}
    OBVIOUS
  <2>2. QED
    BY <2>1 DEF At
<1>3. WalkRecords(source, target, 0) = {Walk(source, <<>>, 0)}
  BY <1>1 DEF WalkRecords
<1>4. Walk(source, <<>>, 0) = [at |-> source, path |-> <<>>, met |-> {source}]
  BY <1>2 DEF Walk
<1>5. QED
  BY <1>3, <1>4 DEF Start

LEMMA NextRound ==
  ASSUME NEW source, NEW target, NEW k \in Nat
  PROVE  Round(WalkRecords(source, target, k), target) = WalkRecords(source, target, k + 1)
<1>1. ASSUME NEW w \in Round(WalkRecords(source, target, k), target)
      PROVE  w \in WalkRecords(source, target, k + 1)
  <2>1. PICK v \in WalkRecords(source, target, k) :
          (v.path = <<>> \/ v.at # target) /\ w \in Onwards(v)
    BY <1>1 DEF Round
  <2>2. PICK p \in Walks(source, target, k) : v = Walk(source, p, k)
    BY <2>1 DEF WalkRecords
  <2>3. PICK e \in Edges :
          /\ Origin(e) = v.at /\ Target(e) \notin v.met
          /\ w = [at |-> Target(e), path |-> Append(v.path, e), met |-> v.met \cup {Target(e)}]
    BY <2>1 DEF Onwards
  <2>4. /\ v.at = At(source, p, k) /\ v.path = p /\ v.met = {At(source, p, j) : j \in 0..k}
    BY <2>2 DEF Walk
  <2>5. p \in [1..k -> Edges]
    BY DEF Walks
  <2>6. PICK q : q = Append(p, e)
    OBVIOUS
  <2>7. IsLonger(q, p, e, k)
    BY <2>5, <2>6, AppendIsLonger
  <2>8. k = 0 \/ At(source, p, k) # target
    <3>1. CASE p = <<>>
      <4>1. k = 0
        BY <2>5, <3>1
      <4>2. QED
        BY <4>1
    <3>2. CASE p # <<>>
      BY <2>1, <2>4, <3>2
    <3>3. QED
      BY <3>1, <3>2
  <2>9. /\ q \in Walks(source, target, k + 1)
        /\ At(source, q, k + 1) = Target(e)
        /\ {At(source, q, j) : j \in 0..(k + 1)} = {At(source, p, j) : j \in 0..k} \cup {Target(e)}
    BY <2>3, <2>4, <2>7, <2>8, OneMoreEdge
  <2>10. w = Walk(source, q, k + 1)
    BY <2>3, <2>4, <2>6, <2>9 DEF Walk
  <2>11. QED
    BY <2>9, <2>10 DEF WalkRecords
<1>2. ASSUME NEW w \in WalkRecords(source, target, k + 1)
      PROVE  w \in Round(WalkRecords(source, target, k), target)
  <2>1. PICK q \in Walks(source, target, k + 1) : w = Walk(source, q, k + 1)
    BY <1>2 DEF WalkRecords
  <2>2. q \in [1..(k + 1) -> Edges]
    BY DEF Walks
  <2>3. k + 1 \in 1..(k + 1) /\ \A i \in 1..k : i \in 1..(k + 1)
    OBVIOUS
  <2>4. PICK p \in [1..k -> Edges] : \A i \in 1..k : q[i] = p[i]
    <3>1. [i \in 1..k |-> q[i]] \in [1..k -> Edges]
      BY <2>2, <2>3
    <3>2. QED
      BY <3>1
  <2>5. PICK e \in Edges : q[k + 1] = e
    BY <2>2, <2>3
  <2>6. /\ p \in Walks(source, target, k)
        /\ k = 0 \/ At(source, p, k) # target
        /\ Origin(e) = At(source, p, k)
        /\ Target(e) \notin {At(source, p, j) : j \in 0..k}
        /\ At(source, q, k + 1) = Target(e)
        /\ {At(source, q, j) : j \in 0..(k + 1)} = {At(source, p, j) : j \in 0..k} \cup {Target(e)}
    <3>1. IsLonger(q, p, e, k)
      BY <2>2, <2>4, <2>5 DEF IsLonger
    <3>2. QED
      BY <3>1, OneMoreEdge
  <2>7. q = Append(p, e)
    <3>1. /\ Append(p, e) \in [1..(k + 1) -> Edges]
          /\ \A i \in 1..k : Append(p, e)[i] = p[i]
          /\ Append(p, e)[k + 1] = e
      BY AppendIsLonger DEF IsLonger
    <3>2. \A i \in 1..(k + 1) : i \in 1..k \/ i = k + 1
      OBVIOUS
    <3>3. \A i \in 1..(k + 1) : q[i] = Append(p, e)[i]
      BY <2>4, <2>5, <3>1, <3>2
    <3>4. PICK r : r = Append(p, e)
      OBVIOUS
    <3>5. r \in [1..(k + 1) -> Edges] /\ \A i \in 1..(k + 1) : q[i] = r[i]
      BY <3>1, <3>3, <3>4
    <3>6. q = r
      BY <2>2, <3>5
    <3>7. QED
      BY <3>4, <3>6
  <2>8. PICK v : v = Walk(source, p, k)
    OBVIOUS
  <2>9. v.at = At(source, p, k) /\ v.path = p /\ v.met = {At(source, p, j) : j \in 0..k}
    BY <2>8 DEF Walk
  <2>10. v \in WalkRecords(source, target, k)
    BY <2>6, <2>8 DEF WalkRecords
  <2>11. v.path = <<>> \/ v.at # target
    <3>1. CASE k = 0
      <4>1. p = <<>>
        BY <2>4, <3>1
      <4>2. QED
        BY <2>9, <4>1
    <3>2. QED
      BY <2>6, <2>9, <3>1
  <2>12. w = [at |-> Target(e), path |-> Append(v.path, e), met |-> v.met \cup {Target(e)}]
    BY <2>1, <2>6, <2>7, <2>9 DEF Walk
  <2>13. w \in Onwards(v)
    BY <2>6, <2>9, <2>12 DEF Onwards
  <2>14. QED
    BY <2>10, <2>11, <2>13 DEF Round
<1>3. QED
  BY <1>1, <1>2

LEMMA RoundsAreWalks ==
  ASSUME NEW source, NEW target, NEW n \in Nat, NEW f, AreWalks(f, source, target, n)
  PROVE  \A k \in 0..n : f[k] = WalkRecords(source, target, k)
<1> DEFINE Wrong == {k \in 0..n : f[k] # WalkRecords(source, target, k)}
           R == OpToRel(<, Nat)
<1> SUFFICES ASSUME Wrong # {}
             PROVE  FALSE
  OBVIOUS
<1>1. IsWellFoundedOn(R, Nat)
  BY NatLessThanWellFounded
<1>2. PICK k \in Wrong : \A m \in Wrong : ~ (<<m, k>> \in R)
  <2>1. Wrong \subseteq Nat
    OBVIOUS
  <2> HIDE DEF R, Wrong
  <2>2. QED
    BY <1>1, <2>1, WFMin
<1>3. k \in 0..n /\ \A m \in 0..n : m < k => f[m] = WalkRecords(source, target, m)
  <2>1. k \in 0..n
    OBVIOUS
  <2>2. ASSUME NEW m \in 0..n, m < k
        PROVE  m \notin Wrong
    <3>1. <<m, k>> \in R
      BY <2>1, <2>2 DEF OpToRel
    <3>2. QED
      BY <1>2, <3>1
  <2>3. QED
    BY <2>1, <2>2
<1>4. f[k] = IF k = 0 THEN Start(source) ELSE Round(f[k - 1], target)
  BY <1>3 DEF AreWalks
<1>5. CASE k = 0
  BY <1>2, <1>4, <1>5, FirstRound
<1>6. CASE k # 0
  <2>1. k - 1 \in Nat /\ k - 1 \in 0..n /\ k - 1 < k /\ (k - 1) + 1 = k
    BY <1>3, <1>6
  <2>2. f[k - 1] = WalkRecords(source, target, k - 1)
    BY <1>3, <2>1
  <2>3. PICK m \in Nat : m = k - 1
    BY <2>1
  <2>4. Round(WalkRecords(source, target, m), target) = WalkRecords(source, target, m + 1)
    BY NextRound
  <2>5. f[k] = WalkRecords(source, target, k)
    BY <1>4, <1>6, <2>1, <2>2, <2>3, <2>4
  <2>6. QED
    BY <1>2, <2>5
<1>7. QED
  BY <1>5, <1>6

(* The paths found are the walks that end at the target.                   *)
LEMMA PathsAreWalks ==
  ASSUME NEW source, NEW target, NEW depth \in Nat
  PROVE  \A p : p \in PathsFrom(source, target, depth) <=>
                  \E k \in 1..depth : p \in Walks(source, target, k) /\ At(source, p, k) = target
<1>1. PICK f : /\ AreWalks(f, source, target, depth)
               /\ PathsFrom(source, target, depth) =
                    {w.path : w \in {v \in UNION {f[k] : k \in 1..depth} : v.at = target}}
  BY PathsFromWalks
<1>2. \A k \in 1..depth : f[k] = WalkRecords(source, target, k)
  <2>1. \A k \in 1..depth : k \in 0..depth
    OBVIOUS
  <2>2. QED
    BY <1>1, <2>1, RoundsAreWalks
<1>3. \A p, k : Walk(source, p, k).path = p /\ Walk(source, p, k).at = At(source, p, k)
  BY DEF Walk
<1>4. ASSUME NEW p \in PathsFrom(source, target, depth)
      PROVE  \E k \in 1..depth : p \in Walks(source, target, k) /\ At(source, p, k) = target
  <2>0. PICK k \in 1..depth : \E w \in f[k] : w.at = target /\ p = w.path
    BY <1>1, <1>4
  <2>1. PICK w \in f[k] : w.at = target /\ p = w.path
    BY <2>0
  <2>2. PICK q \in Walks(source, target, k) : w = Walk(source, q, k)
    BY <1>2, <2>1 DEF WalkRecords
  <2>3. QED
    BY <1>3, <2>1, <2>2
<1>5. ASSUME NEW p, NEW k \in 1..depth, p \in Walks(source, target, k), At(source, p, k) = target
      PROVE  p \in PathsFrom(source, target, depth)
  <2>1. PICK w : w = Walk(source, p, k)
    OBVIOUS
  <2>2. w \in f[k] /\ w.at = target /\ w.path = p
    BY <1>2, <1>3, <1>5, <2>1 DEF WalkRecords
  <2>3. QED
    BY <1>1, <2>2
<1>6. QED
  BY <1>4, <1>5

LEMMA EdgesAreOfTheModel ==
  ASSUME ModelOK(model), NEW e \in Edges
  PROVE  e.id \in Ids /\ e.card = Relationship(e.id).card
<1>1. PICK r \in Relationships, d \in {"forward", "reverse"} :
        e = [id |-> r.id, direction |-> d, card |-> r.card]
  BY DEF Edges
<1>2. e.id = r.id /\ e.card = r.card
  BY <1>1
<1>3. r.id \in IdsIn(model) /\ RelationshipIn(model, r.id) = r
  BY FoundById DEF Relationships
<1>4. QED
  BY <1>2, <1>3, HereAndNow

(* The shape that validate_join asks of a path is that of a walk.          *)
LEMMA WalksHaveTheShape ==
  ASSUME ModelOK(model), NEW source, NEW target, NEW k \in Nat \ {0}, NEW p \in [1..k -> Edges]
  PROVE  p \in Walks(source, target, k) /\ At(source, p, k) = target <=>
           /\ PathShapeOK(p) /\ Origin(p[1]) = source /\ Target(p[k]) = target
<1>1. DOMAIN p = 1..k
  OBVIOUS
<1>2. Len(p) = k
  <2> DEFINE S == Edges
  <2>1. p \in [1..k -> S]
    OBVIOUS
  <2> HIDE DEF S
  <2>2. p \in Seq(S)
    BY <2>1, SeqDef
  <2>3. QED
    BY <2>1, <2>2, LenProperties
<1>3. 1 \in 1..k /\ k \in 1..k /\ \A i \in 2..k : i \in 1..k /\ i - 1 \in 1..k /\ i - 1 # 0
  OBVIOUS
<1>4. At(source, p, 0) = source /\ \A i \in 1..k : At(source, p, i) = Target(p[i])
  BY DEF At
<1>5. \A i \in 1..k :
        {At(source, p, j) : j \in 0..(i - 1)} = {source} \cup {Target(p[j]) : j \in 1..(i - 1)}
  <2> SUFFICES ASSUME NEW i \in 1..k
               PROVE  {At(source, p, j) : j \in 0..(i - 1)}
                        = {source} \cup {Target(p[j]) : j \in 1..(i - 1)}
    OBVIOUS
  <2>1. 0..(i - 1) = {0} \cup 1..(i - 1) /\ \A j \in 1..(i - 1) : j \in 1..k
    OBVIOUS
  <2>2. {At(source, p, j) : j \in 0..(i - 1)} =
          {At(source, p, 0)} \cup {At(source, p, j) : j \in 1..(i - 1)}
    BY <2>1
  <2>3. {At(source, p, j) : j \in 1..(i - 1)} = {Target(p[j]) : j \in 1..(i - 1)}
    BY <1>4, <2>1
  <2>4. QED
    BY <1>4, <2>2, <2>3
<1>6. \A i \in 1..k : p[i].id \in Ids /\ p[i].card = Relationship(p[i].id).card
  BY EdgesAreOfTheModel
<1>7. ASSUME p \in Walks(source, target, k), At(source, p, k) = target
      PROVE  PathShapeOK(p) /\ Origin(p[1]) = source /\ Target(p[k]) = target
  <2>1. \A i \in 1..k : /\ Origin(p[i]) = At(source, p, i - 1)
                        /\ Target(p[i]) \notin {At(source, p, j) : j \in 0..(i - 1)}
    BY <1>7 DEF Walks
  <2>2. Origin(p[1]) = source
    <3>1. 1 - 1 = 0
      OBVIOUS
    <3>2. QED
      BY <1>3, <1>4, <2>1, <3>1
  <2>3. Target(p[k]) = target
    BY <1>3, <1>4, <1>7
  <2>4. \A i \in 2..k : Origin(p[i]) = Target(p[i - 1])
    BY <1>3, <1>4, <2>1
  <2>5. \A i \in 1..k : Target(p[i]) \notin {Origin(p[1])} \cup {Target(p[j]) : j \in 1..(i - 1)}
    BY <1>5, <2>1, <2>2
  <2>6. PathShapeOK(p)
    BY <1>1, <1>2, <1>6, <2>4, <2>5 DEF PathShapeOK
  <2>7. QED
    BY <2>2, <2>3, <2>6
<1>8. ASSUME PathShapeOK(p), Origin(p[1]) = source, Target(p[k]) = target
      PROVE  p \in Walks(source, target, k) /\ At(source, p, k) = target
  <2>1. /\ \A i \in 2..k : Origin(p[i]) = Target(p[i - 1])
        /\ \A i \in 1..k : Target(p[i]) \notin {source} \cup {Target(p[j]) : j \in 1..(i - 1)}
    BY <1>1, <1>2, <1>8 DEF PathShapeOK
  <2>2. \A i \in 1..k : Origin(p[i]) = At(source, p, i - 1)
    <3> SUFFICES ASSUME NEW i \in 1..k
                 PROVE  Origin(p[i]) = At(source, p, i - 1)
      OBVIOUS
    <3>1. CASE i = 1
      <4>1. i - 1 = 0
        BY <3>1
      <4>2. QED
        BY <1>4, <1>8, <3>1, <4>1
    <3>2. CASE i # 1
      <4>1. i \in 2..k
        BY <3>2
      <4>2. QED
        BY <1>3, <1>4, <2>1, <4>1
    <3>3. QED
      BY <3>1, <3>2
  <2>3. \A i \in 1..k : Target(p[i]) \notin {At(source, p, j) : j \in 0..(i - 1)}
    BY <1>5, <2>1
  <2>4. \A i \in 1..k : i < k => Target(p[i]) # target
    <3> SUFFICES ASSUME NEW i \in 1..k, i < k
                 PROVE  Target(p[i]) # target
      OBVIOUS
    <3>1. i \in 1..(k - 1)
      OBVIOUS
    <3>2. QED
      BY <1>3, <1>8, <2>1, <3>1
  <2>5. p \in Walks(source, target, k)
    BY <2>2, <2>3, <2>4 DEF Walks
  <2>6. QED
    BY <1>3, <1>4, <1>8, <2>5
<1>9. QED
  BY <1>7, <1>8

Taken(source, target, depth) ==
  {p \in BoundedSeq(Edges, depth) :
     p # <<>> /\ PathShapeOK(p) /\ Origin(p[1]) = source /\ Target(p[Len(p)]) = target}

LEMMA FoundAreTaken ==
  ASSUME ModelOK(model), NEW source, NEW target, NEW depth \in Nat
  PROVE  PathsFrom(source, target, depth) = Taken(source, target, depth)
<1>1. \A k \in Nat : \A p \in [1..k -> Edges] : Len(p) = k /\ (p = <<>> <=> k = 0)
  <2> DEFINE S == Edges
  <2> SUFFICES ASSUME NEW k \in Nat, NEW p \in [1..k -> S]
               PROVE  Len(p) = k /\ (p = <<>> <=> k = 0)
    OBVIOUS
  <2> HIDE DEF S
  <2>1. p \in Seq(S)
    BY SeqDef
  <2>2. QED
    BY <2>1, LenProperties, EmptySeq
<1>2. ASSUME NEW p, NEW k \in 1..depth, p \in Walks(source, target, k), At(source, p, k) = target
      PROVE  p \in Taken(source, target, depth)
  <2>1. k \in Nat \ {0} /\ k \in 0..depth
    OBVIOUS
  <2>2. p \in [1..k -> Edges]
    BY <1>2 DEF Walks
  <2>3. p \in BoundedSeq(Edges, depth)
    BY <2>1, <2>2 DEF BoundedSeq, SeqOf
  <2>4. PathShapeOK(p) /\ Origin(p[1]) = source /\ Target(p[k]) = target
    BY <1>2, <2>1, <2>2, WalksHaveTheShape
  <2>5. p # <<>> /\ Len(p) = k
    BY <1>1, <2>1, <2>2
  <2>6. QED
    BY <2>3, <2>4, <2>5 DEF Taken
<1>3. ASSUME NEW p \in Taken(source, target, depth)
      PROVE  \E k \in 1..depth : p \in Walks(source, target, k) /\ At(source, p, k) = target
  <2>1. /\ p \in BoundedSeq(Edges, depth) /\ p # <<>> /\ PathShapeOK(p)
        /\ Origin(p[1]) = source /\ Target(p[Len(p)]) = target
    BY DEF Taken
  <2>2. PICK k \in 0..depth : p \in [1..k -> Edges]
    BY <2>1 DEF BoundedSeq, SeqOf
  <2>3. Len(p) = k /\ k # 0
    BY <1>1, <2>1, <2>2
  <2>4. k \in Nat \ {0} /\ k \in 1..depth
    BY <2>3
  <2>5. Target(p[k]) = target
    BY <2>1, <2>3
  <2>6. p \in Walks(source, target, k) /\ At(source, p, k) = target
    BY <2>1, <2>2, <2>4, <2>5, WalksHaveTheShape
  <2>7. QED
    BY <2>4, <2>6
<1>4. QED
  BY <1>2, <1>3, PathsAreWalks

(* The same, of a model given; and what an answer with paths says.         *)
EdgesIn(m) == UNION {{[id |-> r.id, direction |-> d, card |-> r.card] :
                        d \in {"forward", "reverse"}} : r \in m.relationships}

ShapeIn(m, path) ==
  /\ \A i \in DOMAIN path :
       path[i].id \in IdsIn(m) /\ path[i].card = RelationshipIn(m, path[i].id).card
  /\ \A i \in 2..Len(path) : OriginIn(m, path[i]) = TargetIn(m, path[i - 1])
  /\ \A i \in DOMAIN path :
       TargetIn(m, path[i])
         \notin {OriginIn(m, path[1])} \cup {TargetIn(m, path[j]) : j \in 1..(i - 1)}

TakenIn(m, source, target, depth) ==
  {p \in BoundedSeq(EdgesIn(m), depth) :
     /\ p # <<>> /\ ShapeIn(m, p)
     /\ OriginIn(m, p[1]) = source
     /\ TargetIn(m, p[Len(p)]) = target}

FoundPaths(a, m) ==
  a.kind = "find" /\ a.code # "ENTITY_NOT_FOUND" =>
    LET taken == TakenIn(m, a.about.source, a.about.target, a.about.depth) IN
    IF a.code = "ok" THEN a.about.paths = taken ELSE Cardinality(taken) > PathLimit

FoundInv == answer # None => FoundPaths(answer, model)

LEMMA TakenHere ==
  /\ Edges = EdgesIn(model)
  /\ \A path : PathShapeOK(path) <=> ShapeIn(model, path)
<1>1. Edges = EdgesIn(model)
  BY DEF Edges, EdgesIn, Relationships
<1>2. ASSUME NEW path
      PROVE  PathShapeOK(path) <=> ShapeIn(model, path)
  BY HereAndNow DEF PathShapeOK, ShapeIn
<1>3. QED
  BY <1>1, <1>2

LEMMA TakenIsTakenIn ==
  ASSUME NEW source, NEW target, NEW depth
  PROVE  Taken(source, target, depth) = TakenIn(model, source, target, depth)
BY TakenHere, HereAndNow DEF Taken, TakenIn

LEMMA FindFinds ==
  ASSUME PathInv, NEW source, NEW target, NEW depth \in PathDepths,
         FindJoinPath(source, target, depth)
  PROVE  FoundInv'
<1> DEFINE paths == PathsFrom(source, target, depth)
<1>1. model' = model
  BY DEF FindJoinPath
<1>2. depth \in Nat /\ ModelOK(model)
  BY PathConstants DEF PathInv
<1>3. paths = TakenIn(model, source, target, depth)
  BY <1>2, FoundAreTaken, TakenIsTakenIn
<1> HIDE DEF paths
<1>4. CASE ~({source, target} \subseteq model.entities)
  <2>1. answer' = [kind |-> "find", code |-> "ENTITY_NOT_FOUND", about |-> {}, findings |-> {}]
    BY <1>4 DEF FindJoinPath, Answers, Says
  <2>2. QED
    BY <2>1 DEF FoundInv, FoundPaths
<1>5. CASE {source, target} \subseteq model.entities
  <2>1. answer' = [kind |-> "find",
                   code |-> IF Cardinality(paths) > PathLimit THEN "OUTPUT_LIMIT_EXCEEDED" ELSE "ok",
                   about |-> [source |-> source, target |-> target, depth |-> depth, paths |-> paths],
                   findings |-> {}]
    BY <1>5 DEF FindJoinPath, Answers, Says, paths
  <2>2. /\ answer'.about.source = source /\ answer'.about.target = target
        /\ answer'.about.depth = depth /\ answer'.about.paths = paths
        /\ answer'.code = IF Cardinality(paths) > PathLimit THEN "OUTPUT_LIMIT_EXCEEDED" ELSE "ok"
    BY <2>1
  <2>3. FoundPaths(answer', model)
    BY <1>3, <2>2 DEF FoundPaths
  <2>4. QED
    BY <1>1, <2>3 DEF FoundInv
<1>6. QED
  BY <1>4, <1>5

(* The other commands do not answer with paths.                            *)
LEMMA OthersFindNothing ==
  ASSUME Next, ~ \E source, target \in Entities, depth \in PathDepths :
                    FindJoinPath(source, target, depth)
  PROVE  answer' = None \/ answer'.kind # "find"
<1>1. CASE Scan \/ ValidateProject
  BY <1>1 DEF Scan, ValidateProject, Answers, Says
<1>2. CASE UpdateBaseline
  BY <1>2 DEF UpdateBaseline, Answers, Says
<1>3. CASE Check
  BY <1>3 DEF Check, Answers, Says
<1>4. CASE ChangeSource
  BY <1>4 DEF ChangeSource, Asked
<1>5. CASE Forget
  BY <1>5 DEF Forget
<1>6. CASE \E from, to \in Endpoints : Accept(from, to)
  BY <1>6 DEF Accept, Answers, Says
<1>7. CASE \E path \in BoundedSeq(Edges \cup OldEdges, EdgeLimit + 1) : ValidatePath(path)
  BY <1>7 DEF ValidatePath, Answers, Says
<1>8. CASE \E ids \in (SUBSET (Ids \cup {edge.id : edge \in OldEdges})) \ {{}} : ValidateEdges(ids)
  BY <1>8 DEF ValidateEdges, Answers, Says
<1>9. QED
  BY <1>1, <1>2, <1>3, <1>4, <1>5, <1>6, <1>7, <1>8 DEF Next

(* find_join_path answers with the paths validate_join takes, all of them, *)
(* whatever the model and the depth (find_join_path, _validate_path_shape).*)
THEOREM FoundPathsAreValidated == PathSpec => []PathsAreThoseValidated
<1>1. Init => FoundInv
  BY DEF Init, FoundInv
<1>2. PathInv /\ FoundInv /\ [Next]_pathVars => FoundInv'
  <2> SUFFICES ASSUME PathInv, FoundInv, [Next]_pathVars
               PROVE  FoundInv'
    OBVIOUS
  <2>1. CASE \E source, target \in Entities, depth \in PathDepths :
               FindJoinPath(source, target, depth)
    BY <2>1, FindFinds
  <2>2. CASE Next /\ ~ \E source, target \in Entities, depth \in PathDepths :
                          FindJoinPath(source, target, depth)
    <3>1. answer' = None \/ answer'.kind # "find"
      BY <2>2, OthersFindNothing
    <3>2. QED
      BY <3>1 DEF FoundInv, FoundPaths
  <2>3. CASE UNCHANGED pathVars
    BY <2>3 DEF FoundInv, pathVars
  <2>4. QED
    BY <2>1, <2>2, <2>3
<1>3. FoundInv => PathsAreThoseValidated
  BY TakenHere, HereAndNow DEF FoundInv, FoundPaths, TakenIn, PathsAreThoseValidated, Asked
<1>4. QED
  BY <1>1, <1>2, <1>3, PathInvHolds, PTL DEF PathSpec

=============================================================================
