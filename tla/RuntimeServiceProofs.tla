------------------------ MODULE RuntimeServiceProofs ------------------------
(***************************************************************************)
(* Proofs about RuntimeService, for any servers, relationships, contents   *)
(* of the source, planner, and any number of calls, changes and failures.  *)
(***************************************************************************)
EXTENDS RuntimeService, EvidenceCacheProofs, SequenceTheorems

(* Only what a server's own steps tell about its call.                     *)
LEMMA CallFacts ==
  ASSUME ServiceTypeOK, NEW p \in Servers, call[p] # NoCall
  PROVE  call[p] \in Calls
  BY DEF ServiceTypeOK

(* The evidence a call has gathered on its snapshot is of known kind.      *)
LEMMA AuthorizedFacts ==
  ASSUME NEW c \in Calls
  PROVE  /\ Authorized(c) \subseteq c.got
         /\ Authorized(c) \subseteq Records
         /\ Rels(Authorized(c)) \subseteq Relationships
<1>1. c.got \subseteq Records
  BY DEF Calls
<1>2. ASSUME NEW r \in Records PROVE r.rel \in Relationships
  <2>1. PICK q \in Requests : r = Verify(q)
    BY DEF Records
  <2>2. q.seed \in Declarations
    BY DEF Requests
  <2>3. q.seed.rel \in Relationships
    BY <2>2, CacheConstants
  <2> QED
    BY <2>1, <2>3 DEF Verify
<1> QED
  BY <1>1, <1>2 DEF Authorized, Rels

(* A plan and its alternatives are on the call's snapshot, and use nothing *)
(* but what the call has authorized there.                                 *)
LEMMA PlansFacts ==
  ASSUME NEW c \in Calls
  PROVE  /\ Plans(c) \in Seq(PlanIds)
         /\ Len(Plans(c)) <= 4
         /\ \A i \in DOMAIN Plans(c) :
              Plans(c)[i].snap = c.snap /\ Plans(c)[i].edges \subseteq Authorized(c)
<1> DEFINE trees == Search[Rels(Authorized(c))]
           n == IF c.more \/ trees = <<>> THEN Len(trees) ELSE 1
           Edges(i) == {r \in Authorized(c) : r.rel \in trees[i]}
           Id(i) == [snap |-> c.snap, edges |-> Edges(i)]
<1>1. /\ trees \in Seq((SUBSET Rels(Authorized(c))) \ {{}})
      /\ Len(trees) <= 4
  BY ServiceConstants, AuthorizedFacts
<1>2. n \in Nat /\ n <= Len(trees)
  BY <1>1, LenProperties, EmptySeq
<1>3. Plans(c) = [i \in 1..n |-> Id(i)]
  BY DEF Plans, Proofs
<1> HIDE DEF trees, n
<1>4. ASSUME NEW i \in 1..n PROVE Id(i) \in PlanIds
  <2>1. trees[i] \in (SUBSET Rels(Authorized(c))) \ {{}}
    BY <1>1, <1>2, ElementOfSeq
  <2>2. PICK x \in trees[i] : x \in Rels(Authorized(c))
    BY <2>1
  <2>3. PICK r \in Authorized(c) : r.rel = x
    BY <2>2 DEF Rels
  <2>4. Edges(i) \in {X \in SUBSET Records : X # {}}
    BY <2>2, <2>3, AuthorizedFacts
  <2>5. c.snap \in Snapshots
    BY DEF Calls
  <2> HIDE DEF Edges
  <2> QED
    BY <2>4, <2>5 DEF PlanIds
<1>5. Plans(c) \in Seq(PlanIds) /\ Len(Plans(c)) = n /\ DOMAIN Plans(c) = 1..n
  BY <1>2, <1>3, <1>4, IsASeq, LenProperties
<1>6. ASSUME NEW i \in DOMAIN Plans(c)
      PROVE  Plans(c)[i].snap = c.snap /\ Plans(c)[i].edges \subseteq Authorized(c)
  BY <1>3, <1>5
<1> QED
  BY <1>1, <1>2, <1>5, <1>6

(***************************************************************************)
(* The servers use the cache as EvidenceCache lets them.                   *)
(***************************************************************************)
LEMMA Simulates ==
  ASSUME ServiceTypeOK, [ServiceNext]_allVars
  PROVE  [Next]_vars
<1>1. ASSUME NEW p \in Servers, NEW d \in Declarations, Gather(p, d) PROVE Next
  <2>1. [seed |-> d, snap |-> call[p].snap] \in Requests
    BY <1>1, CallFacts DEF Gather, In, Requests, Calls
  <2> QED
    BY <1>1, <2>1 DEF Gather, Next
<1>2. ASSUME NEW p \in Servers, Lookup(p) PROVE Next
  BY <1>2 DEF Lookup, Next
<1>3. ASSUME NEW p \in Servers, Collect(p) \/ LookupFails(p) \/ ServerCrash(p) PROVE Next
  BY <1>3 DEF Collect, LookupFails, ServerCrash, Next
<1>4. ASSUME DamageEvidence \/ Outage PROVE Next
  BY <1>4 DEF DamageEvidence, Outage, Next
<1>5. ASSUME NEW p \in Servers, CallStep(p) PROVE Next \/ UNCHANGED vars
  BY <1>1, <1>2, <1>3, <1>5
  DEF CallStep, LoadProof, ReadModel, TakeSnapshot, PlanJoin, StoreProof, SettleProof,
      AnswerPlan, Decide
<1>6. ASSUME NEW p \in Servers, SnapshotFails(p) \/ Respond(p) PROVE UNCHANGED vars
  BY <1>6 DEF SnapshotFails, Respond
<1>7. ASSUME NEW p \in Servers, NEW tool, NEW plan, NEW sql, NEW more,
             Begin(p, tool, plan, sql, more)
      PROVE  UNCHANGED vars
  BY <1>7 DEF Begin
<1>8. ASSUME NEW x, WriteSource(x) \/ EditModel(x) \/ DamageProof(x)
      PROVE  UNCHANGED vars
  BY <1>8 DEF WriteSource, EditModel, DamageProof
<1>9. ASSUME UNCHANGED allVars PROVE UNCHANGED vars
  BY <1>9 DEF allVars
<1> QED
  BY <1>3, <1>4, <1>5, <1>6, <1>7, <1>8, <1>9 DEF ServiceNext

(***************************************************************************)
(* Type correctness.                                                       *)
(***************************************************************************)
(* A plan has at most four trees, and one is stored only while some are    *)
(* left.                                                                   *)
StoreInv ==
  \A p \in Servers : call[p] # NoCall =>
    /\ Len(call[p].plans) <= 4
    /\ call[p].phase = "settle" => call[p].stored < Len(call[p].plans)

ServiceInv == TypeInv /\ ServiceTypeOK /\ StoreInv

LEMMA SeedsFacts ==
  ASSUME NEW curated \in Models
  PROVE  /\ Seeds(curated) \subseteq Declarations
         /\ \A d, e \in Seeds(curated) : d.rel = e.rel => d = e
  BY ServiceConstants DEF Seeds

LEMMA InitService == ServiceInit => ServiceInv
<1> SUFFICES ASSUME ServiceInit PROVE ServiceInv
  OBVIOUS
<1>1. TypeInv
  BY InitType DEF ServiceInit
<1>2. ServiceTypeOK /\ StoreInv
  BY ServiceConstants, CacheConstants DEF ServiceInit, ServiceTypeOK, StoreInv
<1> QED
  BY <1>1, <1>2 DEF ServiceInv

(* A server's call becomes c.                                              *)
LEMMA CallType ==
  ASSUME ServiceTypeOK, StoreInv, NEW p \in Servers, NEW c \in Calls,
         call' = [call EXCEPT ![p] = c],
         Len(c.plans) <= 4,
         c.phase = "settle" => c.stored < Len(c.plans)
  PROVE  call' \in [Servers -> Calls \cup {NoCall}] /\ StoreInv'
  BY DEF StoreInv, ServiceTypeOK

LEMMA FinishType ==
  ASSUME ServiceTypeOK, StoreInv, NEW p \in Servers, call[p] # NoCall,
         NEW status \in Statuses, Finish(p, status)
  PROVE  call' \in [Servers -> Calls \cup {NoCall}] /\ StoreInv'
<1> DEFINE c == [call[p] EXCEPT !.phase = "answered", !.status = status]
<1>1. call' = [call EXCEPT ![p] = c]
  BY DEF Finish, ServiceTypeOK
<1>2. c \in Calls
  BY CallFacts DEF Calls, CallPhases
<1>3. c.plans = call[p].plans /\ c.phase = "answered"
  BY CallFacts DEF Calls
<1> QED
  BY <1>1, <1>2, <1>3, CallType DEF StoreInv

LEMMA ForgetType ==
  ASSUME ServiceTypeOK, StoreInv, NEW P \in SUBSET Servers, Forget(P)
  PROVE  /\ call' \in [Servers -> Calls \cup {NoCall}]
         /\ during' \in [Servers -> SUBSET Snapshots]
         /\ StoreInv'
  BY DEF Forget, ServiceTypeOK, StoreInv

LEMMA NextService == ServiceInv /\ [ServiceNext]_allVars => ServiceInv'
<1> SUFFICES ASSUME TypeInv, ServiceTypeOK, StoreInv, [ServiceNext]_allVars
             PROVE  ServiceInv'
  BY DEF ServiceInv
<1>a. TypeInv'
  BY Simulates, NextType
<1> DEFINE Goal == ServiceTypeOK' /\ StoreInv'
<1> USE DEF In
<1>1. ASSUME NEW p \in Servers, NEW tool \in {"plan", "validate"},
             NEW plan \in PlanIds \cup {NoPlan}, NEW sql \in SUBSET Relationships,
             NEW more \in BOOLEAN, Begin(p, tool, plan, sql, more)
      PROVE  Goal
  <2> DEFINE c == [tool |-> tool, plan |-> plan, sql |-> sql, more |-> more,
                   phase |-> IF plan = NoPlan THEN "model" ELSE "proof",
                   seeds |-> {}, snap |-> source, got |-> {}, plans |-> <<>>,
                   stored |-> 0, status |-> "pending"]
  <2>1. c \in Calls
    BY DEF ServiceTypeOK, Calls, CallPhases, Statuses
  <2>2. call' = [call EXCEPT ![p] = c] /\ Len(c.plans) <= 4 /\ c.phase # "settle"
    BY <1>1, EmptySeq DEF Begin
  <2> HIDE DEF c
  <2>3. call' \in [Servers -> Calls \cup {NoCall}] /\ StoreInv'
    BY <2>1, <2>2, CallType
  <2> QED
    BY <1>1, <2>3, ServiceConstants DEF Begin, ServiceTypeOK, world
<1>2. ASSUME NEW p \in Servers, LoadProof(p) PROVE Goal
  <2>1. CASE Stored(call[p].plan)
    <3> DEFINE c == [call[p] EXCEPT !.phase = "model"]
    <3>1. c \in Calls /\ c.plans = call[p].plans /\ c.phase = "model"
      BY <1>2, CallFacts DEF LoadProof, Calls, CallPhases
    <3>2. call' = [call EXCEPT ![p] = c]
      BY <1>2, <2>1 DEF LoadProof, ServiceTypeOK
    <3> HIDE DEF c
    <3>3. Len(c.plans) <= 4
      BY <1>2, <3>1 DEF StoreInv, LoadProof
    <3>4. call' \in [Servers -> Calls \cup {NoCall}] /\ StoreInv'
      BY <3>1, <3>2, <3>3, CallType
    <3> QED
      BY <1>2, <2>1, <3>4 DEF LoadProof, ServiceTypeOK, world
  <2>2. CASE ~Stored(call[p].plan)
    <3>1. call' \in [Servers -> Calls \cup {NoCall}] /\ StoreInv'
      <4>1. Finish(p, "not_available") /\ call[p] # NoCall
        BY <1>2, <2>2 DEF LoadProof
      <4> QED
        BY <4>1, FinishType DEF Statuses
    <3>2. /\ DOMAIN proofs' = DOMAIN proofs \ {call[p].plan}
          /\ \A id \in DOMAIN proofs' : proofs'[id] = proofs[id]
          /\ unsynced' = unsynced \ {call[p].plan}
      BY <1>2, <2>2 DEF LoadProof
    <3> QED
      BY <1>2, <2>2, <3>1, <3>2 DEF LoadProof, ServiceTypeOK, world
  <2> QED
    BY <2>1, <2>2
<1>3. ASSUME NEW p \in Servers, ReadModel(p) PROVE Goal
  <2> DEFINE c == [call[p] EXCEPT !.phase = "snapshot", !.seeds = Seeds(model)]
  <2>1. c \in Calls /\ c.plans = call[p].plans /\ c.phase = "snapshot"
    BY <1>3, CallFacts, SeedsFacts, ZenonT(30)
    DEF ReadModel, ServiceTypeOK, Calls, CallPhases
  <2>2. call' = [call EXCEPT ![p] = c]
    BY <1>3 DEF ReadModel, ServiceTypeOK
  <2> HIDE DEF c
  <2>3. call' \in [Servers -> Calls \cup {NoCall}] /\ StoreInv'
    BY <1>3, <2>1, <2>2, CallType DEF StoreInv, ReadModel
  <2> QED
    BY <1>3, <2>3 DEF ReadModel, ServiceTypeOK, world
<1>4. ASSUME NEW p \in Servers, TakeSnapshot(p) PROVE Goal
  <2> DEFINE c == [call[p] EXCEPT !.phase = "gather", !.snap = source]
  <2>1. c \in Calls /\ c.plans = call[p].plans /\ c.phase = "gather"
    BY <1>4, CallFacts, ZenonT(30) DEF TakeSnapshot, ServiceTypeOK, Calls, CallPhases
  <2>2. call' = [call EXCEPT ![p] = c]
    BY <1>4 DEF TakeSnapshot, ServiceTypeOK
  <2> HIDE DEF c
  <2>3. call' \in [Servers -> Calls \cup {NoCall}] /\ StoreInv'
    BY <1>4, <2>1, <2>2, CallType DEF StoreInv, TakeSnapshot
  <2> QED
    BY <1>4, <2>3 DEF TakeSnapshot, ServiceTypeOK, world
<1>5. ASSUME NEW p \in Servers, SnapshotFails(p) PROVE Goal
  <2>1. call' \in [Servers -> Calls \cup {NoCall}] /\ StoreInv'
    BY <1>5, FinishType DEF SnapshotFails, Statuses
  <2> QED
    BY <1>5, <2>1 DEF SnapshotFails, ServiceTypeOK, world
<1>6. ASSUME UNCHANGED <<world, service>> PROVE Goal
  BY <1>6 DEF ServiceTypeOK, StoreInv, world, service
<1>7. ASSUME NEW p \in Servers, Collect(p) PROVE Goal
  <2> DEFINE c == [call[p] EXCEPT !.got = @ \cup {answer[p]}]
  <2>1. answer[p] \in Records
    BY <1>7 DEF Collect, Return, TypeInv, PhaseInv
  <2>2. c \in Calls /\ c.plans = call[p].plans /\ c.phase = "gather"
    BY <1>7, <2>1, CallFacts DEF Collect, Calls
  <2>3. call' = [call EXCEPT ![p] = c]
    BY <1>7 DEF Collect, ServiceTypeOK
  <2> HIDE DEF c
  <2>4. call' \in [Servers -> Calls \cup {NoCall}] /\ StoreInv'
    BY <1>7, <2>2, <2>3, CallType DEF StoreInv, Collect
  <2> QED
    BY <1>7, <2>4 DEF Collect, ServiceTypeOK, world
<1>8. ASSUME NEW p \in Servers, LookupFails(p) PROVE Goal
  <2>1. call' \in [Servers -> Calls \cup {NoCall}] /\ StoreInv'
    BY <1>8, FinishType DEF LookupFails, Statuses
  <2> QED
    BY <1>8, <2>1 DEF LookupFails, ServiceTypeOK, world
<1>9. ASSUME NEW p \in Servers, PlanJoin(p) PROVE Goal
  <2>1. CASE Plans(call[p]) = <<>>
    <3>1. Finish(p, "no_path") /\ call[p] # NoCall
      BY <1>9, <2>1 DEF PlanJoin, Gathered
    <3>2. call' \in [Servers -> Calls \cup {NoCall}] /\ StoreInv'
      BY <3>1, FinishType DEF Statuses
    <3> QED
      BY <1>9, <3>2 DEF PlanJoin, ServiceTypeOK, world
  <2>2. CASE Plans(call[p]) # <<>>
    <3> DEFINE c == [call[p] EXCEPT !.phase = "store", !.plans = Plans(call[p])]
    <3>1. call[p] \in Calls
      BY <1>9, CallFacts DEF PlanJoin, Gathered
    <3>2. Plans(call[p]) \in Seq(PlanIds) /\ Len(Plans(call[p])) <= 4
      BY <3>1, PlansFacts
    <3>3. c \in Calls /\ Len(c.plans) <= 4 /\ c.phase = "store"
      BY <3>1, <3>2 DEF Calls, CallPhases
    <3>4. call' = [call EXCEPT ![p] = c]
      BY <1>9, <2>2 DEF PlanJoin, ServiceTypeOK
    <3> HIDE DEF c
    <3>5. call' \in [Servers -> Calls \cup {NoCall}] /\ StoreInv'
      BY <3>3, <3>4, CallType
    <3> QED
      BY <1>9, <3>5 DEF PlanJoin, ServiceTypeOK, world
  <2> QED
    BY <2>1, <2>2
<1>10. ASSUME NEW p \in Servers, StoreProof(p) PROVE Goal
  <2> DEFINE c == [call[p] EXCEPT !.phase = "settle"]
             id == call[p].plans[call[p].stored + 1]
  <2>1. call[p] \in Calls /\ call[p].stored < Len(call[p].plans)
    BY <1>10, CallFacts DEF StoreProof
  <2>2. /\ c \in Calls /\ c.plans = call[p].plans /\ c.phase = "settle"
        /\ c.stored = call[p].stored
    BY <2>1 DEF Calls, CallPhases
  <2>3. id \in PlanIds
    <3>1. call[p].plans \in Seq(PlanIds) /\ call[p].stored \in Nat
      BY <2>1 DEF Calls
    <3> QED
      BY <2>1, <3>1, ElementOfSeq, LenProperties
  <2>4. call' = [call EXCEPT ![p] = c]
    BY <1>10 DEF StoreProof, ServiceTypeOK
  <2>5. /\ DOMAIN proofs' = DOMAIN proofs \cup {id}
        /\ \A x \in DOMAIN proofs' : proofs'[x] = IF x = id THEN "good" ELSE proofs[x]
        /\ unsynced' \subseteq unsynced \cup {id}
    BY <1>10 DEF StoreProof
  <2> HIDE DEF c, id
  <2>6. call' \in [Servers -> Calls \cup {NoCall}] /\ StoreInv'
    BY <1>10, <2>1, <2>2, <2>4, CallType DEF StoreInv, StoreProof
  <2> QED
    BY <1>10, <2>3, <2>5, <2>6 DEF StoreProof, ServiceTypeOK, world
<1>11. ASSUME NEW p \in Servers, SettleProof(p) PROVE Goal
  <2> DEFINE c == [call[p] EXCEPT !.phase = "store", !.stored = @ + 1]
  <2>1. /\ call[p] \in Calls
        /\ call[p].stored < Len(call[p].plans) /\ Len(call[p].plans) <= 4
    BY <1>11, CallFacts DEF SettleProof, StoreInv
  <2>2. call[p].stored + 1 \in 0..4
    <3>1. call[p].stored \in 0..4 /\ call[p].plans \in Seq(PlanIds)
      BY <2>1 DEF Calls
    <3> QED
      BY <2>1, <3>1, LenProperties
  <2>3. c \in Calls /\ c.plans = call[p].plans /\ c.phase = "store"
    BY <2>1, <2>2 DEF Calls, CallPhases
  <2>4. call' = [call EXCEPT ![p] = c]
    BY <1>11 DEF SettleProof, ServiceTypeOK
  <2> HIDE DEF c
  <2>5. call' \in [Servers -> Calls \cup {NoCall}] /\ StoreInv'
    BY <2>1, <2>3, <2>4, CallType
  <2> QED
    BY <1>11, <2>5 DEF SettleProof, ServiceTypeOK, world
<1>12. ASSUME NEW p \in Servers, AnswerPlan(p) PROVE Goal
  <2>1. call' \in [Servers -> Calls \cup {NoCall}] /\ StoreInv'
    BY <1>12, FinishType DEF AnswerPlan, Statuses
  <2>2. \A i \in DOMAIN call[p].plans : call[p].plans[i] \in PlanIds
    <3>1. call[p].plans \in Seq(PlanIds)
      BY <1>12, CallFacts DEF AnswerPlan, Calls
    <3> QED
      BY <3>1, ElementOfSeq, LenProperties
  <2> QED
    BY <1>12, <2>1, <2>2 DEF AnswerPlan, ServiceTypeOK, world
<1>13. ASSUME NEW p \in Servers, Decide(p) PROVE Goal
  <2>1. PICK status \in Statuses : Finish(p, status)
    BY <1>13 DEF Decide, Lifecycle, Statuses
  <2>2. call' \in [Servers -> Calls \cup {NoCall}] /\ StoreInv'
    BY <1>13, <2>1, FinishType DEF Decide, Gathered
  <2> QED
    BY <1>13, <2>2 DEF Decide, ServiceTypeOK, world
<1>14. ASSUME NEW p \in Servers, Respond(p) PROVE Goal
  <2>1. /\ call' \in [Servers -> Calls \cup {NoCall}]
        /\ during' \in [Servers -> SUBSET Snapshots]
    BY <1>14 DEF Respond, ServiceTypeOK
  <2>2. StoreInv'
    BY <1>14 DEF Respond, ServiceTypeOK, StoreInv
  <2> QED
    BY <1>14, <2>1, <2>2 DEF Respond, ServiceTypeOK, world
<1>15. ASSUME NEW content \in Snapshots, WriteSource(content) PROVE Goal
  <2>1. during' \in [Servers -> SUBSET Snapshots]
    BY <1>15 DEF WriteSource, ServiceTypeOK
  <2>2. changes' \in 0..MaxChanges
    BY <1>15, ServiceConstants DEF WriteSource, ServiceTypeOK
  <2> QED
    BY <1>15, <2>1, <2>2 DEF WriteSource, ServiceTypeOK, StoreInv
<1>16. ASSUME NEW curated \in Models, EditModel(curated) PROVE Goal
  BY <1>16, ServiceConstants DEF EditModel, ServiceTypeOK, StoreInv, service
<1>17. ASSUME NEW id \in DOMAIN proofs, DamageProof(id) PROVE Goal
  BY <1>17, CacheConstants DEF DamageProof, ServiceTypeOK, StoreInv, world
<1>18. ASSUME NEW p \in Servers, ServerCrash(p) PROVE Goal
  <2>1. /\ call' \in [Servers -> Calls \cup {NoCall}]
        /\ during' \in [Servers -> SUBSET Snapshots]
        /\ StoreInv'
    BY <1>18, ForgetType DEF ServerCrash
  <2> QED
    BY <1>18, <2>1 DEF ServerCrash, ServiceTypeOK, world
<1>19. ASSUME Outage PROVE Goal
  <2>1. /\ call' \in [Servers -> Calls \cup {NoCall}]
        /\ during' \in [Servers -> SUBSET Snapshots]
        /\ StoreInv'
    BY <1>19, ForgetType DEF Outage
  <2>2. /\ DOMAIN proofs' \subseteq DOMAIN proofs
        /\ \A id \in DOMAIN proofs' : proofs'[id] = proofs[id]
        /\ unsynced' = {}
    BY <1>19 DEF Outage
  <2> QED
    BY <1>19, <2>1, <2>2 DEF Outage, ServiceTypeOK, world
<1>20. ASSUME NEW p \in Servers, CallStep(p) PROVE Goal
  BY <1>2, <1>3, <1>4, <1>6, <1>7, <1>9, <1>10, <1>11, <1>12, <1>13, <1>20
  DEF CallStep, Gather, Lookup
<1>21. Goal
  <2>1. ASSUME NEW p \in Servers, NEW more \in BOOLEAN,
               Begin(p, "plan", NoPlan, {}, more)
        PROVE  Goal
    BY <1>1, <2>1
  <2>2. ASSUME NEW p \in Servers, NEW plan \in issued \cup {NoPlan},
               NEW sql \in (SUBSET Relationships) \ {{}},
               Begin(p, "validate", plan, sql, FALSE)
        PROVE  Goal
    BY <1>1, <2>2 DEF ServiceTypeOK
  <2> QED
    BY <1>5, <1>6, <1>8, <1>14, <1>15, <1>16, <1>17, <1>18, <1>19, <1>20, <2>1, <2>2
    DEF ServiceNext, DamageEvidence, allVars
<1> QED
  BY <1>a, <1>21 DEF ServiceInv

(* The invariant the other proofs start from.                              *)
LEMMA ServiceInvariant == ServiceSpec => []ServiceInv
  BY InitService, NextService, PTL DEF ServiceSpec

(* Every call, proof and answer is of its kind; a plan is never empty, and *)
(* has no edge but an evidence record.                                     *)
THEOREM ServiceTypeCorrect == ServiceSpec => []ServiceTypeOK
<1>1. ServiceInv => ServiceTypeOK
  BY DEF ServiceInv
<1> QED
  BY <1>1, ServiceInvariant, PTL

(* The servers, their calls and the changing source use the cache only as  *)
(* EvidenceCache lets them: what is proved of it holds of the service.     *)
THEOREM ServiceUsesCache == ServiceSpec => Spec
<1>1. ServiceInit => Init
  BY DEF ServiceInit
<1>2. ServiceInv /\ [ServiceNext]_allVars => [Next]_vars
  BY Simulates DEF ServiceInv
<1> QED
  BY <1>1, <1>2, ServiceInvariant, PTL DEF ServiceSpec, Spec

(***************************************************************************)
(* What an answer rests on.                                                *)
(***************************************************************************)
(* Evidence r is what verifying one of the call's seeds on its snapshot    *)
(* finds.                                                                  *)
Verified(r, c) == \E d \in c.seeds : r = Verify([seed |-> d, snap |-> c.snap])

(* The proof a query is checked against is current.                        *)
Current(plan, c) == plan.snap = c.snap /\ plan.edges \subseteq Authorized(c)

(* Invariant of one call. What was gathered is verified evidence of its    *)
(* snapshot, as long as a relationship keeps its declared cardinality;     *)
(* nothing is gathered, or planned, before the snapshot is final; plans    *)
(* hold authorized evidence; a pass has been checked.                      *)
Sound(c) ==
  /\ \A d, e \in c.seeds : d.rel = e.rel => d = e
  /\ SelectorDecides => \A r \in c.got : Verified(r, c)
  /\ c.phase \in {"proof", "model", "snapshot"} => c.got = {} /\ c.plans = <<>>
  /\ c.phase \in {"store", "settle"} => c.tool = "plan"
  /\ \A i \in DOMAIN c.plans : Current(c.plans[i], c)
  /\ c.phase = "answered" /\ c.tool = "validate" /\ c.status = "ok" =>
       Passes(c) /\ (c.plan # NoPlan => Current(c.plan, c))

(* A lookup under way is one of its call's, on the call's snapshot.        *)
Serves(p) ==
  /\ In(p, "gather")
  /\ \E d \in call[p].seeds : request[p] = [seed |-> d, snap |-> call[p].snap]

(* The invariant: the snapshot is a content the source has had during the  *)
(* call, the present one included.                                         *)
CallInv ==
  \A p \in Servers :
    /\ call[p] # NoCall =>
         Sound(call[p]) /\ source \in during[p] /\ call[p].snap \in during[p]
    /\ pc[p] # "idle" => Serves(p)

LEMMA LifecycleFacts ==
  ASSUME NEW plan \in PlanIds, NEW c \in Calls, Lifecycle(plan, c) = "current"
  PROVE  Current(plan, c)
  BY DEF Lifecycle, Current

(* Apart from Ask, no step of the cache gives a server something to do.    *)
LEMMA LookupsContinue ==
  ASSUME TypeInv, NEW p \in Servers,
         \/ LookupStep(p) \/ ReadError(p)
         \/ Return(p) \/ Fail(p) \/ Crash(p) \/ PowerLoss
         \/ \E r \in Records : DamageRecord(r)
         \/ \E s \in Selectors, value \in Pointers \ {NoRecord} : DamagePointer(s, value)
  PROVE  \A q \in Servers : pc'[q] # "idle" => pc[q] # "idle" /\ request'[q] = request[q]
<1> USE DEF TypeInv, TypeOK, Goto
<1>1. CASE LookupStep(p)
  BY <1>1 DEF LookupStep, LoadPointer, LoadRecord, Hit, Miss, DropRecord, DropPointer,
              Acquire, VerifyRelationship, StoreRecord, SyncDirectory, StorePointer
<1>2. CASE ReadError(p)
  BY <1>2 DEF ReadError
<1>3. CASE Return(p) \/ Fail(p) \/ Crash(p) \/ PowerLoss
  BY <1>3 DEF Return, Fail, Crash, PowerLoss, Reset
<1>4. CASE \/ \E r \in Records : DamageRecord(r)
           \/ \E s \in Selectors, value \in Pointers \ {NoRecord} : DamagePointer(s, value)
  BY <1>4 DEF DamageRecord, DamagePointer
<1> QED
  BY <1>1, <1>2, <1>3, <1>4

(* A server without a lookup finishes its call.                            *)
LEMMA FinishSound ==
  ASSUME ServiceTypeOK, NEW p \in Servers, call[p] # NoCall, Sound(call[p]),
         NEW status \in Statuses, Finish(p, status),
         call[p].tool = "validate" /\ status = "ok" =>
           /\ Passes(call[p])
           /\ call[p].plan # NoPlan => Current(call[p].plan, call[p])
  PROVE  /\ call'[p] \in Calls /\ call' = [call EXCEPT ![p] = call'[p]]
         /\ Sound(call'[p]) /\ call'[p].snap = call[p].snap
<1>1. call[p] \in Calls
  BY CallFacts
<1>2. call'[p] = [call[p] EXCEPT !.phase = "answered", !.status = status]
  BY DEF Finish, ServiceTypeOK
<1> DEFINE c == call'[p]
<1>3. /\ c.seeds = call[p].seeds /\ c.got = call[p].got /\ c.snap = call[p].snap
      /\ c.plans = call[p].plans /\ c.tool = call[p].tool /\ c.plan = call[p].plan
      /\ c.sql = call[p].sql /\ c.phase = "answered" /\ c.status = status
  BY <1>1, <1>2 DEF Calls
<1> HIDE DEF c
<1>4. Authorized(c) = Authorized(call[p])
  BY <1>3 DEF Authorized
<1>5. Sound(c)
  BY <1>3, <1>4 DEF Sound, Verified, Current, Passes
<1>6. call'[p] \in Calls
  BY <1>1, <1>2 DEF Calls, CallPhases
<1>7. call' = [call EXCEPT ![p] = call'[p]]
  BY DEF Finish, ServiceTypeOK
<1> QED
  BY <1>3, <1>5, <1>6, <1>7 DEF c

(* A server whose call becomes c is idle in the cache or at work for c.    *)
LEMMA CallBecomes ==
  ASSUME ServiceTypeOK, CallInv, NEW p \in Servers, NEW c,
         c # NoCall, Sound(c), c.snap \in during[p], source \in during[p],
         call' = [call EXCEPT ![p] = c], during' = during, source' = source,
         \A q \in Servers : pc'[q] # "idle" => pc[q] # "idle" /\ request'[q] = request[q],
         pc'[p] = "idle"
  PROVE  CallInv'
<1> SUFFICES ASSUME NEW q \in Servers
             PROVE  /\ call'[q] # NoCall =>
                         /\ Sound(call'[q])
                         /\ source' \in during'[q] /\ call'[q].snap \in during'[q]
                    /\ pc'[q] # "idle" => Serves(q)'
  BY DEF CallInv
<1>1. CASE q = p
  BY <1>1 DEF ServiceTypeOK
<1>2. CASE q # p
  <2>1. call'[q] = call[q]
    BY <1>2 DEF ServiceTypeOK
  <2> QED
    BY <2>1 DEF CallInv, Serves, In
<1> QED
  BY <1>1, <1>2

(* A step of the cache, or of the environment, that leaves all calls be.   *)
LEMMA CallsStay ==
  ASSUME CallInv, UNCHANGED call,
         \/ UNCHANGED <<source, during>>
         \/ \A q \in Servers : call[q] # NoCall => during'[q] = during[q] \cup {source'},
         \A q \in Servers : pc'[q] # "idle" => pc[q] # "idle" /\ request'[q] = request[q]
  PROVE  CallInv'
  BY DEF CallInv, Serves, In

LEMMA CallsForgotten ==
  ASSUME ServiceTypeOK, CallInv, NEW P \in SUBSET Servers, Forget(P), UNCHANGED source,
         \A q \in Servers : pc'[q] # "idle" =>
           q \notin P /\ pc[q] # "idle" /\ request'[q] = request[q]
  PROVE  CallInv'
<1> SUFFICES ASSUME NEW q \in Servers
             PROVE  /\ call'[q] # NoCall =>
                         /\ Sound(call'[q])
                         /\ source' \in during'[q] /\ call'[q].snap \in during'[q]
                    /\ pc'[q] # "idle" => Serves(q)'
  BY DEF CallInv
<1>1. CASE q \in P
  BY <1>1 DEF Forget
<1>2. CASE q \notin P
  BY <1>2 DEF Forget, CallInv, Serves, In
<1> QED
  BY <1>1, <1>2

(* What a lookup answers is to be relied on under that assumption only.    *)
AnswersHold == SelectorDecides => AnswersAreVerified

LEMMA CacheAnswers == Spec => []AnswersHold
<1>1. CASE SelectorDecides
  <2>1. AnswersAreVerified => AnswersHold
    BY DEF AnswersHold
  <2>2. Spec => []AnswersAreVerified
    BY <1>1, AnswersCorrect
  <2> QED
    BY <2>1, <2>2, PTL
<1>2. CASE ~SelectorDecides
  <2>1. AnswersHold
    BY <1>2 DEF AnswersHold
  <2> QED
    BY <2>1, PTL
<1> QED
  BY <1>1, <1>2

LEMMA NextCall ==
  ServiceInv /\ CallInv /\ AnswersHold /\ [ServiceNext]_allVars => CallInv'
<1> SUFFICES ASSUME ServiceInv, CallInv, AnswersHold, [ServiceNext]_allVars
             PROVE  CallInv'
  OBVIOUS
<1>t. TypeInv /\ ServiceTypeOK
  BY DEF ServiceInv
<1> USE DEF In
<1>i. ASSUME NEW p \in Servers, call[p] # NoCall, call[p].phase # "gather"
      PROVE  pc[p] = "idle"
  BY <1>i DEF CallInv, Serves
<1>1. ASSUME NEW p \in Servers, NEW tool, NEW plan, NEW sql, NEW more,
             Begin(p, tool, plan, sql, more)
      PROVE  CallInv'
  <2> DEFINE c == [tool |-> tool, plan |-> plan, sql |-> sql, more |-> more,
                   phase |-> IF plan = NoPlan THEN "model" ELSE "proof",
                   seeds |-> {}, snap |-> source, got |-> {}, plans |-> <<>>,
                   stored |-> 0, status |-> "pending"]
  <2>1. Sound(c)
    BY EmptySeq DEF Sound
  <2>2. /\ call' = [call EXCEPT ![p] = c] /\ during' = [during EXCEPT ![p] = {source}]
        /\ UNCHANGED <<pc, request, source>> /\ call[p] = NoCall /\ c.snap = source
    BY <1>1 DEF Begin, vars, world
  <2>3. call'[p] = c /\ during'[p] = {source}
    BY <1>t, <2>2 DEF ServiceTypeOK
  <2>4. \A q \in Servers \ {p} : call'[q] = call[q] /\ during'[q] = during[q]
    BY <1>t, <2>2 DEF ServiceTypeOK
  <2> HIDE DEF c
  <2>5. pc[p] = "idle"
    BY <2>2 DEF CallInv, Serves
  <2> SUFFICES ASSUME NEW q \in Servers
               PROVE  /\ call'[q] # NoCall =>
                           /\ Sound(call'[q])
                           /\ source' \in during'[q] /\ call'[q].snap \in during'[q]
                      /\ pc'[q] # "idle" => Serves(q)'
    BY DEF CallInv
  <2>6. CASE q = p
    BY <2>1, <2>2, <2>3, <2>5, <2>6
  <2>7. CASE q # p
    BY <2>2, <2>4, <2>7 DEF CallInv, Serves
  <2> QED
    BY <2>6, <2>7
<1>2. ASSUME NEW p \in Servers, NEW status \in Statuses, call[p] # NoCall,
             Finish(p, status), UNCHANGED <<during, source>>,
             \A q \in Servers : pc'[q] # "idle" => pc[q] # "idle" /\ request'[q] = request[q],
             pc'[p] = "idle",
             call[p].tool = "validate" /\ status = "ok" =>
               /\ Passes(call[p])
               /\ call[p].plan # NoPlan => Current(call[p].plan, call[p])
      PROVE  CallInv'
  <2>1. Sound(call[p]) /\ source \in during[p] /\ call[p].snap \in during[p]
    BY <1>2 DEF CallInv
  <2>2. Sound(call'[p]) /\ call'[p].snap = call[p].snap
    BY <1>2, <1>t, <2>1, FinishSound
  <2>3. call'[p] \in Calls /\ call' = [call EXCEPT ![p] = call'[p]]
    BY <1>2, <1>t, <2>1, FinishSound
  <2> QED
    BY <1>2, <1>t, <2>1, <2>2, <2>3, CallBecomes, ServiceMarkers
<1>3. ASSUME NEW p \in Servers, LoadProof(p) PROVE CallInv'
  <2>1. CASE Stored(call[p].plan)
    <3> DEFINE c == [call[p] EXCEPT !.phase = "model"]
    <3>1. c \in Calls /\ Sound(c) /\ c.snap = call[p].snap
      <4>1. call[p] \in Calls /\ Sound(call[p]) /\ call[p].phase = "proof"
        BY <1>3, <1>t, CallFacts DEF LoadProof, CallInv
      <4> QED
        BY <4>1 DEF Calls, CallPhases, Sound, Verified, Current, Authorized
    <3>2. call' = [call EXCEPT ![p] = c] /\ UNCHANGED <<pc, request, source, during>>
      BY <1>3, <1>t, <2>1 DEF LoadProof, ServiceTypeOK, vars, world
    <3> HIDE DEF c
    <3> QED
      BY <1>3, <1>i, <1>t, <3>1, <3>2, CallBecomes, ServiceMarkers DEF LoadProof, CallInv
  <2>2. CASE ~Stored(call[p].plan)
    BY <1>2, <1>3, <1>i, <2>2 DEF LoadProof, Statuses, vars, world
  <2> QED
    BY <2>1, <2>2
<1>4. ASSUME NEW p \in Servers, ReadModel(p) PROVE CallInv'
  <2> DEFINE c == [call[p] EXCEPT !.phase = "snapshot", !.seeds = Seeds(model)]
  <2>1. call[p] \in Calls /\ Sound(call[p]) /\ call[p].phase = "model"
    BY <1>4, <1>t, CallFacts DEF ReadModel, CallInv
  <2>2. /\ c \in Calls /\ c.snap = call[p].snap /\ c.seeds = Seeds(model)
        /\ c.got = {} /\ c.plans = <<>> /\ c.phase = "snapshot"
    BY <1>t, <2>1, SeedsFacts DEF ServiceTypeOK, Calls, CallPhases, Sound
  <2>3. call' = [call EXCEPT ![p] = c] /\ UNCHANGED <<pc, request, source, during>>
    BY <1>4, <1>t DEF ReadModel, ServiceTypeOK, vars, world
  <2> HIDE DEF c
  <2>4. Sound(c)
    BY <1>t, <2>2, SeedsFacts, EmptySeq DEF Sound, ServiceTypeOK
  <2> QED
    BY <1>4, <1>i, <1>t, <2>2, <2>3, <2>4, CallBecomes, ServiceMarkers
    DEF ReadModel, CallInv
<1>5. ASSUME NEW p \in Servers, TakeSnapshot(p) PROVE CallInv'
  <2> DEFINE c == [call[p] EXCEPT !.phase = "gather", !.snap = source]
  <2>1. call[p] \in Calls /\ Sound(call[p]) /\ call[p].phase = "snapshot"
    BY <1>5, <1>t, CallFacts DEF TakeSnapshot, CallInv
  <2>2. /\ c \in Calls /\ c.snap = source /\ c.seeds = call[p].seeds
        /\ c.got = {} /\ c.plans = <<>> /\ c.phase = "gather"
    BY <1>t, <2>1 DEF ServiceTypeOK, Calls, CallPhases, Sound
  <2>3. call' = [call EXCEPT ![p] = c] /\ UNCHANGED <<pc, request, source, during>>
    BY <1>5, <1>t DEF TakeSnapshot, ServiceTypeOK, vars, world
  <2> HIDE DEF c
  <2>4. Sound(c)
    BY <2>1, <2>2, EmptySeq DEF Sound
  <2> QED
    BY <1>5, <1>i, <1>t, <2>2, <2>3, <2>4, CallBecomes, ServiceMarkers
    DEF TakeSnapshot, CallInv
<1>6. ASSUME NEW p \in Servers, SnapshotFails(p) PROVE CallInv'
  BY <1>2, <1>6, <1>i DEF SnapshotFails, Statuses, vars, world
<1>7. ASSUME NEW p \in Servers, NEW d \in Declarations, Gather(p, d) PROVE CallInv'
  <2>1. /\ request' = [request EXCEPT ![p] = [seed |-> d, snap |-> call[p].snap]]
        /\ pc' = [pc EXCEPT ![p] = "pointer"]
        /\ UNCHANGED <<call, source, during>>
        /\ call[p] # NoCall /\ call[p].phase = "gather" /\ d \in call[p].seeds
    BY <1>7 DEF Gather, Ask, Goto, world, service
  <2>2. Serves(p)'
    BY <1>t, <2>1 DEF Serves, TypeInv, TypeOK
  <2>3. \A q \in Servers \ {p} : pc'[q] = pc[q] /\ request'[q] = request[q]
    BY <1>t, <2>1 DEF TypeInv, TypeOK
  <2> QED
    BY <2>1, <2>2, <2>3, ZenonT(30) DEF CallInv, Serves
<1>8. ASSUME NEW p \in Servers, Lookup(p) PROVE CallInv'
  BY <1>8, <1>t, CallsStay, LookupsContinue DEF Lookup, world, service
<1>9. ASSUME NEW p \in Servers, Collect(p) PROVE CallInv'
  <2> DEFINE c == [call[p] EXCEPT !.got = @ \cup {answer[p]}]
  <2>1. call[p] \in Calls /\ Sound(call[p]) /\ call[p].phase = "gather" /\ pc[p] = "done"
    BY <1>9, <1>t, CallFacts DEF Collect, Return, CallInv
  <2>2. answer[p] \in Records
    BY <1>t, <2>1 DEF TypeInv, PhaseInv
  <2>3. SelectorDecides => Verified(answer[p], call[p])
    BY <2>1 DEF CallInv, Serves, Verified, AnswersHold, AnswersAreVerified
  <2>4. /\ c \in Calls /\ c.snap = call[p].snap /\ c.seeds = call[p].seeds
        /\ c.got = call[p].got \cup {answer[p]} /\ c.plans = call[p].plans
        /\ c.phase = "gather"
    BY <2>1, <2>2 DEF Calls
  <2>5. /\ call' = [call EXCEPT ![p] = c] /\ UNCHANGED <<source, during>>
        /\ pc'[p] = "idle"
    BY <1>9, <1>t DEF Collect, Return, Reset, ServiceTypeOK, world
  <2>6. \A q \in Servers : pc'[q] # "idle" => pc[q] # "idle" /\ request'[q] = request[q]
    BY <1>9, <1>t, LookupsContinue DEF Collect
  <2> HIDE DEF c
  <2>7. Authorized(call[p]) \subseteq Authorized(c)
    BY <2>4 DEF Authorized
  <2>8. Sound(c)
    BY <2>1, <2>3, <2>4, <2>7 DEF Sound, Verified, Current
  <2> QED
    BY <1>9, <1>t, <2>4, <2>5, <2>6, <2>8, CallBecomes, ServiceMarkers DEF Collect, CallInv
<1>10. ASSUME NEW p \in Servers, LookupFails(p) PROVE CallInv'
  <2>1. \A q \in Servers : pc'[q] # "idle" => pc[q] # "idle" /\ request'[q] = request[q]
    BY <1>10, <1>t, LookupsContinue DEF LookupFails
  <2>2. pc'[p] = "idle"
    BY <1>10 DEF LookupFails, Fail, Reset
  <2> QED
    BY <1>2, <1>10, <2>1, <2>2 DEF LookupFails, Statuses, world
<1>11. ASSUME NEW p \in Servers, PlanJoin(p) PROVE CallInv'
  <2>1. /\ call[p] \in Calls /\ Sound(call[p]) /\ call[p].phase = "gather"
        /\ call[p].tool = "plan" /\ pc[p] = "idle"
    BY <1>11, <1>t, CallFacts DEF PlanJoin, Gathered, CallInv
  <2>2. UNCHANGED <<pc, request, source, during>>
    BY <1>11 DEF PlanJoin, vars, world
  <2>3. CASE Plans(call[p]) = <<>>
    BY <1>2, <1>11, <2>1, <2>2, <2>3 DEF PlanJoin, Gathered, Statuses
  <2>4. CASE Plans(call[p]) # <<>>
    <3> DEFINE c == [call[p] EXCEPT !.phase = "store", !.plans = Plans(call[p])]
    <3>1. \A i \in DOMAIN Plans(call[p]) : Current(Plans(call[p])[i], call[p])
      BY <2>1, PlansFacts DEF Current
    <3>2. Plans(call[p]) \in Seq(PlanIds)
      BY <2>1, PlansFacts
    <3>3. /\ c \in Calls /\ c.snap = call[p].snap /\ c.seeds = call[p].seeds
          /\ c.got = call[p].got /\ c.plans = Plans(call[p]) /\ c.phase = "store"
          /\ c.tool = "plan"
      BY <2>1, <3>2 DEF Calls, CallPhases
    <3>4. call' = [call EXCEPT ![p] = c]
      BY <1>11, <1>t, <2>4 DEF PlanJoin, ServiceTypeOK
    <3> HIDE DEF c
    <3>5. Authorized(c) = Authorized(call[p])
      BY <3>3 DEF Authorized
    <3>6. Sound(c)
      BY <2>1, <3>1, <3>3, <3>5 DEF Sound, Verified, Current
    <3> QED
      BY <1>11, <1>t, <2>1, <2>2, <3>3, <3>4, <3>6, CallBecomes, ServiceMarkers
      DEF PlanJoin, Gathered, CallInv
  <2> QED
    BY <2>3, <2>4
<1>12. ASSUME NEW p \in Servers, NEW phase \in {"store", "settle"}, NEW stored \in 0..4,
              call[p] # NoCall, call[p].phase \in {"store", "settle"},
              call' = [call EXCEPT ![p].phase = phase, ![p].stored = stored],
              UNCHANGED <<pc, request, source, during>>
       PROVE  CallInv'
  <2> DEFINE c == [call[p] EXCEPT !.phase = phase, !.stored = stored]
  <2>1. call[p] \in Calls /\ Sound(call[p]) /\ pc[p] = "idle"
    BY <1>12, <1>i, <1>t, CallFacts DEF CallInv
  <2>2. /\ c \in Calls /\ c.snap = call[p].snap /\ c.seeds = call[p].seeds
        /\ c.got = call[p].got /\ c.plans = call[p].plans /\ c.phase = phase
        /\ c.tool = call[p].tool
    BY <1>12, <2>1 DEF Calls, CallPhases
  <2>3. call' = [call EXCEPT ![p] = c]
    BY <1>12, <1>t DEF ServiceTypeOK
  <2> HIDE DEF c
  <2>4. Authorized(c) = Authorized(call[p])
    BY <2>2 DEF Authorized
  <2>5. Sound(c)
    BY <1>12, <2>1, <2>2, <2>4 DEF Sound, Verified, Current
  <2> QED
    BY <1>12, <1>t, <2>1, <2>2, <2>3, <2>5, CallBecomes, ServiceMarkers DEF CallInv
<1>13. ASSUME NEW p \in Servers, StoreProof(p) PROVE CallInv'
  <2>1. call[p].stored \in 0..4
    BY <1>13, <1>t, CallFacts DEF StoreProof, Calls
  <2>2. call' = [call EXCEPT ![p].phase = "settle", ![p].stored = call[p].stored]
    BY <1>13, <1>t, CallFacts DEF StoreProof, ServiceTypeOK, Calls
  <2> QED
    BY <1>12, <1>13, <2>1, <2>2 DEF StoreProof, vars, world
<1>14. ASSUME NEW p \in Servers, SettleProof(p) PROVE CallInv'
  <2>1. call[p] \in Calls /\ call[p].stored < Len(call[p].plans) /\ Len(call[p].plans) <= 4
    BY <1>14, <1>t, CallFacts DEF SettleProof, ServiceInv, StoreInv
  <2>2. call[p].stored + 1 \in 0..4
    <3>1. call[p].stored \in 0..4 /\ call[p].plans \in Seq(PlanIds)
      BY <2>1 DEF Calls
    <3> QED
      BY <2>1, <3>1, LenProperties
  <2> QED
    BY <1>12, <1>14, <2>2 DEF SettleProof, vars, world
<1>15. ASSUME NEW p \in Servers, AnswerPlan(p) PROVE CallInv'
  <2>1. call[p].tool = "plan" /\ pc[p] = "idle"
    BY <1>15, <1>i DEF AnswerPlan, CallInv, Sound
  <2> QED
    BY <1>2, <1>15, <2>1 DEF AnswerPlan, Statuses, vars, world
<1>16. ASSUME NEW p \in Servers, Decide(p) PROVE CallInv'
  <2>1. /\ call[p] \in Calls /\ call[p].phase = "gather" /\ pc[p] = "idle"
        /\ UNCHANGED <<pc, request, source, during>>
    BY <1>16, <1>t, CallFacts DEF Decide, Gathered, vars, world
  <2>2. CASE /\ call[p].plan # NoPlan
             /\ Lifecycle(call[p].plan, call[p]) # "current"
             /\ Finish(p, Lifecycle(call[p].plan, call[p]))
    <3>1. Lifecycle(call[p].plan, call[p]) \in {"stale", "unverifiable"}
      BY <2>2 DEF Lifecycle
    <3> QED
      BY <1>2, <1>16, <2>1, <2>2, <3>1 DEF Decide, Gathered, Statuses
  <2>3. CASE /\ call[p].plan # NoPlan => Lifecycle(call[p].plan, call[p]) = "current"
             /\ Finish(p, IF Passes(call[p]) THEN "ok" ELSE "findings")
    <3>1. call[p].plan # NoPlan => Current(call[p].plan, call[p])
      BY <2>1, <2>3, LifecycleFacts DEF Calls
    <3> QED
      BY <1>2, <1>16, <2>1, <2>3, <3>1 DEF Decide, Gathered, Statuses
  <2> QED
    BY <1>16, <2>2, <2>3 DEF Decide
<1>17. ASSUME NEW p \in Servers, Respond(p) PROVE CallInv'
  <2>1. Forget({p}) /\ UNCHANGED <<pc, request, source>> /\ pc[p] = "idle"
    BY <1>17, <1>i, <1>t DEF Respond, Forget, vars, world, ServiceTypeOK
  <2> QED
    BY <1>t, <2>1, CallsForgotten
<1>18. ASSUME NEW content \in Snapshots, WriteSource(content) PROVE CallInv'
  BY <1>18, CallsStay DEF WriteSource, vars
<1>19. ASSUME NEW curated \in Models, EditModel(curated) PROVE CallInv'
  BY <1>19, CallsStay DEF EditModel, vars, service
<1>20. ASSUME NEW id \in DOMAIN proofs, DamageProof(id) PROVE CallInv'
  BY <1>20, CallsStay DEF DamageProof, vars, world
<1>21. ASSUME DamageEvidence PROVE CallInv'
  BY <1>21, CallsStay DEF DamageEvidence, DamageRecord, DamagePointer, world, service
<1>22. ASSUME NEW p \in Servers, ServerCrash(p) PROVE CallInv'
  BY <1>22, <1>t, CallsForgotten DEF ServerCrash, Crash, Reset, world, TypeInv, TypeOK
<1>23. ASSUME Outage PROVE CallInv'
  BY <1>23, <1>t, CallsForgotten DEF Outage, PowerLoss, Reset, world
<1>24. ASSUME UNCHANGED allVars PROVE CallInv'
  BY <1>24, CallsStay DEF allVars, vars, world, service
<1>25. ASSUME NEW p \in Servers, CallStep(p) PROVE CallInv'
  BY <1>3, <1>4, <1>5, <1>7, <1>8, <1>9, <1>11, <1>13, <1>14, <1>15, <1>16, <1>25
  DEF CallStep
<1> QED
  BY <1>1, <1>6, <1>10, <1>17, <1>18, <1>19, <1>20, <1>21, <1>22, <1>23, <1>24, <1>25
  DEF ServiceNext

LEMMA CallInvariant == ServiceSpec => []CallInv
<1>1. ServiceInit => CallInv
  BY DEF ServiceInit, Init, CallInv
<1>2. Spec => []AnswersHold
  BY CacheAnswers
<1> QED
  BY <1>1, <1>2, NextCall, ServiceInvariant, ServiceUsesCache, PTL DEF ServiceSpec

(* What a call has authorized is a seed of its own, safe on its snapshot.  *)
LEMMA AuthorizedIsSafe ==
  ASSUME SelectorDecides, NEW c \in Calls, Sound(c), NEW r \in Authorized(c)
  PROVE  r.rel \in Rels(c.seeds) /\ SafeOn(r.rel, c.snap, c.seeds)
<1>1. r \in c.got /\ r.findings \cap BlockingCodes = {}
  BY DEF Authorized, Usable
<1>2. PICK d \in c.seeds : r = Verify([seed |-> d, snap |-> c.snap])
  BY <1>1 DEF Sound, Verified
<1>3. r.rel = d.rel /\ r.findings = Findings(Measured[<<d.rel, c.snap>>], d.card)
  BY <1>2 DEF Verify
<1>4. \A e \in c.seeds : e.rel = r.rel => e = d
  BY <1>3 DEF Sound
<1>5. SafeOn(r.rel, c.snap, c.seeds)
  BY <1>1, <1>3, <1>4 DEF SafeOn
<1> QED
  BY <1>3, <1>5 DEF Rels

(* A query passes only if the source had, at some moment of the very call, *)
(* one content on which all it joins on is safe, as long as a relationship *)
(* keeps its declared cardinality.                                         *)
THEOREM PassesAreSafe ==
  ASSUME SelectorDecides
  PROVE  ServiceSpec => []PassIsSafe
<1>1. ServiceInv /\ CallInv => PassIsSafe
  <2> SUFFICES ASSUME ServiceInv, CallInv, NEW p \in Servers, Answered(p, "validate")
               PROVE  \E content \in during[p] : \A rel \in call[p].sql :
                        rel \in Rels(call[p].seeds) /\ SafeOn(rel, content, call[p].seeds)
    BY DEF PassIsSafe
  <2>1. call[p] \in Calls /\ Sound(call[p]) /\ call[p].snap \in during[p]
    BY CallFacts DEF Answered, In, CallInv, ServiceInv
  <2>2. call[p].sql \subseteq Rels(Authorized(call[p]))
    BY <2>1 DEF Answered, In, Sound, Passes
  <2>3. ASSUME NEW rel \in call[p].sql
        PROVE  rel \in Rels(call[p].seeds) /\ SafeOn(rel, call[p].snap, call[p].seeds)
    BY <2>1, <2>2, AuthorizedIsSafe DEF Rels
  <2> QED
    BY <2>1, <2>3
<1>2. ServiceSpec => []CallInv
  BY CallInvariant
<1> QED
  BY <1>1, <1>2, ServiceInvariant, PTL

(* Likewise for every edge of a plan, and of its alternatives.             *)
THEOREM PlansAreSafe ==
  ASSUME SelectorDecides
  PROVE  ServiceSpec => []PlanIsSafe
<1>1. ServiceInv /\ CallInv => PlanIsSafe
  <2> SUFFICES ASSUME ServiceInv, CallInv, NEW p \in Servers, Answered(p, "plan")
               PROVE  \E content \in during[p] : \A i \in DOMAIN call[p].plans :
                        /\ call[p].plans[i].snap = content
                        /\ \A r \in call[p].plans[i].edges :
                             SafeOn(r.rel, content, call[p].seeds)
    BY DEF PlanIsSafe
  <2>1. call[p] \in Calls /\ Sound(call[p]) /\ call[p].snap \in during[p]
    BY CallFacts DEF Answered, In, CallInv, ServiceInv
  <2>2. ASSUME NEW i \in DOMAIN call[p].plans
        PROVE  /\ call[p].plans[i].snap = call[p].snap
               /\ \A r \in call[p].plans[i].edges :
                    SafeOn(r.rel, call[p].snap, call[p].seeds)
    BY <2>1, AuthorizedIsSafe DEF Sound, Current
  <2> QED
    BY <2>1, <2>2
<1>2. ServiceSpec => []CallInv
  BY CallInvariant
<1> QED
  BY <1>1, <1>2, ServiceInvariant, PTL

(* A query given a plan passes only on the plan's snapshot, which is one   *)
(* the source had during the call, and with the evidence of its proof,     *)
(* whether or not relationships keep their declared cardinality.           *)
THEOREM StalePlansFail == ServiceSpec => []StaleNeverPasses
<1>1. ServiceInv /\ CallInv => StaleNeverPasses
  <2> SUFFICES ASSUME ServiceInv, CallInv, NEW p \in Servers, Answered(p, "validate"),
                      call[p].plan # NoPlan
               PROVE  /\ call[p].plan.snap = call[p].snap
                      /\ call[p].plan.snap \in during[p]
                      /\ call[p].plan.edges \subseteq call[p].got
    BY DEF StaleNeverPasses
  <2>1. Sound(call[p]) /\ call[p].snap \in during[p]
    BY DEF Answered, In, CallInv
  <2>2. Current(call[p].plan, call[p])
    BY <2>1 DEF Answered, In, Sound
  <2> QED
    BY <2>1, <2>2 DEF Current, Authorized
<1>2. ServiceSpec => []CallInv
  BY CallInvariant
<1> QED
  BY <1>1, <1>2, ServiceInvariant, PTL

(***************************************************************************)
(* Issued plans.                                                           *)
(***************************************************************************)
(* A proof no power loss can take away.                                    *)
Settled(id) == Stored(id) /\ id \notin unsynced

(* The proofs that a call has stored are settled, and the one whose        *)
(* directory it is about to sync is there.                                 *)
Storing(c) ==
  /\ c.phase \in {"proof", "model", "snapshot", "gather"} => c.stored = 0
  /\ c.phase \in {"store", "settle"} => \A i \in 1..c.stored : Settled(c.plans[i])
  /\ c.phase = "settle" => Stored(c.plans[c.stored + 1])

(* While no proof was damaged: proofs on disk are good, and what calls     *)
(* have stored or answered with is settled.                                *)
IssuedInv ==
  spoiled = 0 =>
    /\ \A id \in DOMAIN proofs : proofs[id] = "good"
    /\ \A id \in issued : Settled(id)
    /\ \A p \in Servers : call[p] # NoCall => Storing(call[p])

LEMMA NextIssued == ServiceInv /\ IssuedInv /\ [ServiceNext]_allVars => IssuedInv'
<1> SUFFICES ASSUME ServiceInv, IssuedInv, [ServiceNext]_allVars, spoiled' = 0
             PROVE  IssuedInv'
  BY DEF IssuedInv
<1>t. TypeInv /\ ServiceTypeOK /\ StoreInv
  BY DEF ServiceInv
<1>z. spoiled = 0
  <2>1. spoiled' = spoiled \/ spoiled' = spoiled + 1
    BY DEF ServiceNext, CallStep, Begin, LoadProof, ReadModel, TakeSnapshot, SnapshotFails,
           Gather, Lookup, Collect, LookupFails, PlanJoin, StoreProof, SettleProof,
           AnswerPlan, Decide, Respond, WriteSource, EditModel, DamageProof,
           DamageEvidence, ServerCrash, Outage, service, allVars
  <2> QED
    BY <1>t, <2>1, CacheConstants DEF ServiceTypeOK
<1> USE DEF In
<1>s. \A p \in Servers : call[p] # NoCall => call[p] \in Calls /\ Storing(call[p])
  BY <1>t, <1>z, CallFacts DEF IssuedInv
(* A step that leaves the store be and gives no call something to store.   *)
<1> DEFINE Same == /\ DOMAIN proofs' = DOMAIN proofs
                   /\ \A id \in DOMAIN proofs : proofs'[id] = proofs[id]
                   /\ UNCHANGED <<unsynced, issued>>
           Quiet(p) == call'[p] # NoCall =>
                         \/ call'[p] = call[p]
                         \/ call'[p].phase = "answered"
                         \/ call'[p].phase # "settle" /\ call'[p].stored = 0
<1>1. ASSUME Same, \A p \in Servers : Quiet(p) PROVE IssuedInv'
  BY <1>1, <1>s, <1>z DEF IssuedInv, Storing, Settled, Stored
<1>2. ASSUME NEW p \in Servers, NEW c, call' = [call EXCEPT ![p] = c], Same,
             c.phase = "answered" \/ (c.phase # "settle" /\ c.stored = 0)
      PROVE  IssuedInv'
  BY <1>1, <1>2, <1>t DEF ServiceTypeOK
<1>3. ASSUME NEW p \in Servers, call[p] # NoCall, NEW status, Finish(p, status), Same
      PROVE  IssuedInv'
  <2> DEFINE c == [call[p] EXCEPT !.phase = "answered", !.status = status]
  <2>1. c.phase = "answered"
    BY <1>3, <1>s DEF Calls
  <2>2. call' = [call EXCEPT ![p] = c]
    BY <1>3, <1>t DEF Finish, ServiceTypeOK
  <2> HIDE DEF c
  <2> QED
    BY <1>2, <1>3, <2>1, <2>2
<1>4. ASSUME NEW p \in Servers, NEW tool, NEW plan, NEW sql, NEW more,
             Begin(p, tool, plan, sql, more)
      PROVE  IssuedInv'
  <2> DEFINE c == [tool |-> tool, plan |-> plan, sql |-> sql, more |-> more,
                   phase |-> IF plan = NoPlan THEN "model" ELSE "proof",
                   seeds |-> {}, snap |-> source, got |-> {}, plans |-> <<>>,
                   stored |-> 0, status |-> "pending"]
  <2>1. c.phase # "settle" /\ c.stored = 0
    OBVIOUS
  <2>2. call' = [call EXCEPT ![p] = c] /\ UNCHANGED <<proofs, unsynced, issued>>
    BY <1>4 DEF Begin
  <2> HIDE DEF c
  <2> QED
    BY <1>2, <2>1, <2>2
<1>5. ASSUME NEW p \in Servers, LoadProof(p) PROVE IssuedInv'
  <2>1. call[p] \in Calls /\ call[p].stored = 0 /\ call[p].phase = "proof"
    BY <1>5, <1>s DEF LoadProof, Storing
  <2>2. CASE Stored(call[p].plan)
    <3> DEFINE c == [call[p] EXCEPT !.phase = "model"]
    <3>1. c.phase = "model" /\ c.stored = 0
      BY <2>1 DEF Calls
    <3>2. call' = [call EXCEPT ![p] = c] /\ UNCHANGED <<proofs, unsynced, issued>>
      BY <1>5, <1>t, <2>2 DEF LoadProof, ServiceTypeOK
    <3> HIDE DEF c
    <3> QED
      BY <1>2, <3>1, <3>2
  <2>3. CASE ~Stored(call[p].plan)
    <3>1. call[p].plan \notin DOMAIN proofs
      BY <1>z, <2>3 DEF Stored, IssuedInv
    <3>2. Same
      BY <1>5, <1>t, <2>3, <3>1 DEF LoadProof, ServiceTypeOK
    <3> QED
      BY <1>3, <1>5, <2>3, <3>2 DEF LoadProof
  <2> QED
    BY <2>2, <2>3
<1>6. ASSUME NEW p \in Servers, ReadModel(p) PROVE IssuedInv'
  <2> DEFINE c == [call[p] EXCEPT !.phase = "snapshot", !.seeds = Seeds(model)]
  <2>1. c.phase = "snapshot" /\ c.stored = 0
    BY <1>6, <1>s DEF ReadModel, Storing, Calls
  <2>2. call' = [call EXCEPT ![p] = c] /\ UNCHANGED <<proofs, unsynced, issued>>
    BY <1>6, <1>t DEF ReadModel, ServiceTypeOK
  <2> HIDE DEF c
  <2> QED
    BY <1>2, <2>1, <2>2
<1>7. ASSUME NEW p \in Servers, TakeSnapshot(p) PROVE IssuedInv'
  <2> DEFINE c == [call[p] EXCEPT !.phase = "gather", !.snap = source]
  <2>1. c.phase = "gather" /\ c.stored = 0
    BY <1>7, <1>s DEF TakeSnapshot, Storing, Calls
  <2>2. call' = [call EXCEPT ![p] = c] /\ UNCHANGED <<proofs, unsynced, issued>>
    BY <1>7, <1>t DEF TakeSnapshot, ServiceTypeOK
  <2> HIDE DEF c
  <2> QED
    BY <1>2, <2>1, <2>2
<1>8. ASSUME NEW p \in Servers, SnapshotFails(p) \/ LookupFails(p) PROVE IssuedInv'
  BY <1>3, <1>8 DEF SnapshotFails, LookupFails
<1>9. ASSUME UNCHANGED service PROVE IssuedInv'
  BY <1>1, <1>9 DEF service
<1>10. ASSUME NEW p \in Servers, Collect(p) PROVE IssuedInv'
  <2> DEFINE c == [call[p] EXCEPT !.got = @ \cup {answer[p]}]
  <2>1. c.phase = "gather" /\ c.stored = 0
    BY <1>10, <1>s DEF Collect, Storing, Calls
  <2>2. call' = [call EXCEPT ![p] = c] /\ UNCHANGED <<proofs, unsynced, issued>>
    BY <1>10, <1>t DEF Collect, ServiceTypeOK
  <2> HIDE DEF c
  <2> QED
    BY <1>2, <2>1, <2>2
<1>11. ASSUME NEW p \in Servers, PlanJoin(p) PROVE IssuedInv'
  <2>1. CASE Plans(call[p]) = <<>>
    BY <1>3, <1>11, <2>1 DEF PlanJoin, Gathered
  <2>2. CASE Plans(call[p]) # <<>>
    <3> DEFINE c == [call[p] EXCEPT !.phase = "store", !.plans = Plans(call[p])]
    <3>1. c.phase = "store" /\ c.stored = 0
      BY <1>11, <1>s DEF PlanJoin, Gathered, Storing, Calls
    <3>2. call' = [call EXCEPT ![p] = c] /\ UNCHANGED <<proofs, unsynced, issued>>
      BY <1>11, <1>t, <2>2 DEF PlanJoin, ServiceTypeOK
    <3> HIDE DEF c
    <3> QED
      BY <1>2, <3>1, <3>2
  <2> QED
    BY <2>1, <2>2
<1>12. ASSUME NEW p \in Servers, Decide(p) PROVE IssuedInv'
  BY <1>3, <1>12 DEF Decide, Gathered
<1>13. ASSUME NEW P \in SUBSET Servers, Forget(P), UNCHANGED <<proofs, unsynced, issued>>
       PROVE  IssuedInv'
  BY <1>1, <1>13 DEF Forget
<1>14. ASSUME NEW p \in Servers, Respond(p) PROVE IssuedInv'
  BY <1>2, <1>14, <1>t, <1>1 DEF Respond, ServiceTypeOK
<1>15. ASSUME NEW content, WriteSource(content) PROVE IssuedInv'
  BY <1>1, <1>15 DEF WriteSource
<1>16. ASSUME NEW id \in DOMAIN proofs, DamageProof(id) PROVE IssuedInv'
  BY <1>16, <1>z DEF DamageProof
<1>17. ASSUME NEW p \in Servers, ServerCrash(p) PROVE IssuedInv'
  BY <1>13, <1>17 DEF ServerCrash
<1>18. ASSUME Outage PROVE IssuedInv'
  <2>1. PICK lost \in SUBSET unsynced :
          proofs' = [id \in DOMAIN proofs \ lost |-> proofs[id]]
    BY <1>18 DEF Outage
  <2>2. /\ unsynced' = {} /\ issued' = issued
        /\ \A p \in Servers : call'[p] = NoCall
    BY <1>18 DEF Outage, Forget
  <2>3. \A id : Settled(id) => Settled(id)'
    BY <2>1, <2>2 DEF Settled, Stored
  <2> QED
    BY <1>z, <2>1, <2>2, <2>3 DEF IssuedInv
<1>19. ASSUME NEW p \in Servers, StoreProof(p) PROVE IssuedInv'
  <2> DEFINE c == [call[p] EXCEPT !.phase = "settle"]
             id == call[p].plans[call[p].stored + 1]
  <2>1. /\ c.phase = "settle" /\ c.stored = call[p].stored /\ c.plans = call[p].plans
        /\ call[p].phase = "store" /\ Storing(call[p])
    BY <1>19, <1>s DEF StoreProof, Calls
  <2>2. call' = [call EXCEPT ![p] = c] /\ issued' = issued
    BY <1>19, <1>t DEF StoreProof, ServiceTypeOK
  <2>3. /\ proofs' = [x \in DOMAIN proofs \cup {id} |-> IF x = id THEN "good" ELSE proofs[x]]
        /\ unsynced' = unsynced \cup ({id} \ DOMAIN proofs)
    BY <1>19 DEF StoreProof
  <2>4. \A x : (Stored(x) \/ x = id => Stored(x)') /\ (Settled(x) => Settled(x)')
    BY <2>3 DEF Settled, Stored
  <2>5. \A x \in DOMAIN proofs' : proofs'[x] = "good"
    BY <1>z, <2>3 DEF IssuedInv
  <2>6. \A i \in 1..c.stored : Settled(c.plans[i])
    BY <2>1 DEF Storing
  <2>7. c.plans[c.stored + 1] = id
    BY <2>1
  <2> HIDE DEF c, id
  <2>8. ASSUME NEW q \in Servers, call'[q] # NoCall PROVE Storing(call[q])'
    <3>1. CASE q = p
      <4>1. call'[q] = c
        BY <1>t, <2>2, <3>1 DEF ServiceTypeOK
      <4> QED
        BY <2>1, <2>4, <2>6, <2>7, <4>1 DEF Storing
    <3>2. CASE q # p
      BY <1>s, <1>t, <2>2, <2>4, <2>8, <3>2 DEF Storing, ServiceTypeOK
    <3> QED
      BY <3>1, <3>2
  <2> QED
    BY <1>z, <2>2, <2>4, <2>5, <2>8 DEF IssuedInv
<1>20. ASSUME NEW p \in Servers, SettleProof(p) PROVE IssuedInv'
  <2> DEFINE c == [call[p] EXCEPT !.phase = "store", !.stored = @ + 1]
  <2>1. /\ c.phase = "store" /\ c.stored = call[p].stored + 1 /\ c.plans = call[p].plans
        /\ call[p].phase = "settle" /\ Storing(call[p]) /\ call[p].stored \in Nat
    BY <1>20, <1>s DEF SettleProof, Calls
  <2>2. /\ call' = [call EXCEPT ![p] = c]
        /\ issued' = issued /\ proofs' = proofs /\ unsynced' = {}
    BY <1>20, <1>t DEF SettleProof, ServiceTypeOK
  <2>3. /\ \A x : Stored(x) => Stored(x)' /\ Settled(x)'
        /\ \A x : Settled(x) => Settled(x)'
    BY <2>2 DEF Settled, Stored
  <2>4. \A i \in 1..c.stored : Stored(c.plans[i])
    BY <2>1 DEF Storing, Settled
  <2> HIDE DEF c
  <2>5. ASSUME NEW q \in Servers, call'[q] # NoCall PROVE Storing(call[q])'
    <3>1. CASE q = p
      <4>1. call'[q] = c
        BY <1>t, <2>2, <3>1 DEF ServiceTypeOK
      <4> QED
        BY <2>1, <2>3, <2>4, <4>1 DEF Storing
    <3>2. CASE q # p
      BY <1>s, <1>t, <2>2, <2>3, <2>5, <3>2 DEF Storing, ServiceTypeOK
    <3> QED
      BY <3>1, <3>2
  <2> QED
    BY <1>z, <2>2, <2>3, <2>5 DEF IssuedInv
<1>21. ASSUME NEW p \in Servers, AnswerPlan(p) PROVE IssuedInv'
  <2>1. /\ call[p] \in Calls /\ Storing(call[p]) /\ call[p].phase = "store"
        /\ call[p].stored = Len(call[p].plans)
    BY <1>21, <1>s DEF AnswerPlan
  <2>2. \A i \in DOMAIN call[p].plans : Settled(call[p].plans[i])
    <3>1. call[p].plans \in Seq(PlanIds)
      BY <2>1 DEF Calls
    <3> QED
      BY <2>1, <3>1, LenProperties DEF Storing
  <2>3. /\ issued' = issued \cup {call[p].plans[i] : i \in DOMAIN call[p].plans}
        /\ UNCHANGED <<proofs, unsynced>> /\ Finish(p, "ok")
    BY <1>21 DEF AnswerPlan
  <2> DEFINE c == [call[p] EXCEPT !.phase = "answered", !.status = "ok"]
  <2>4. c.phase = "answered" /\ call' = [call EXCEPT ![p] = c]
    BY <1>t, <2>1, <2>3 DEF Finish, Calls, ServiceTypeOK
  <2> HIDE DEF c
  <2>5. \A id : (Stored(id)' <=> Stored(id)) /\ (Settled(id)' <=> Settled(id))
    BY <2>3 DEF Settled, Stored
  <2>6. ASSUME NEW q \in Servers, call'[q] # NoCall PROVE Storing(call[q])'
    <3>1. CASE q = p
      BY <1>t, <2>4, <3>1 DEF Storing, ServiceTypeOK
    <3>2. CASE q # p
      BY <1>s, <1>t, <2>4, <2>5, <2>6, <3>2 DEF Storing, ServiceTypeOK
    <3> QED
      BY <3>1, <3>2
  <2> QED
    BY <1>z, <2>2, <2>3, <2>5, <2>6 DEF IssuedInv
<1>22. ASSUME NEW p \in Servers, CallStep(p) PROVE IssuedInv'
  BY <1>5, <1>6, <1>7, <1>9, <1>10, <1>11, <1>12, <1>19, <1>20, <1>21, <1>22
  DEF CallStep, Gather, Lookup
<1> QED
  BY <1>4, <1>8, <1>9, <1>14, <1>15, <1>16, <1>17, <1>18, <1>22
  DEF ServiceNext, EditModel, DamageEvidence, allVars

(* A plan_id that get_join_plan has answered with stays usable through     *)
(* every later crash and power loss, as long as no proof is damaged.       *)
THEOREM IssuedPlansKept == ServiceSpec => []IssuedPlansAreKept
<1>1. ServiceInit => IssuedInv
  BY DEF ServiceInit, IssuedInv
<1>2. IssuedInv => IssuedPlansAreKept
  BY DEF IssuedInv, IssuedPlansAreKept, Settled
<1> QED
  BY <1>1, <1>2, NextIssued, ServiceInvariant, PTL DEF ServiceSpec

=============================================================================
