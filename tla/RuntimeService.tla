--------------------------- MODULE RuntimeService ---------------------------
(***************************************************************************)
(* The two tools of the MCP server, get_join_plan and validate_sql         *)
(* (src/joinlint/runtime/service.py), on top of the shared evidence cache, *)
(* and the proofs/ half of the cache they share.                           *)
(*                                                                         *)
(* A server handles one call at a time. A call reads the reviewed model,   *)
(* snapshots the source, gathers the evidence of every relationship it     *)
(* knows on that snapshot, and then either plans a join and stores the     *)
(* proofs of the plan and of its alternatives, or decides whether a query  *)
(* passes. Meanwhile the source is written to, the model is edited, other  *)
(* servers work in the same cache, and files are damaged or lost.          *)
(***************************************************************************)
EXTENDS EvidenceCache

CONSTANTS
  Catalog,       \* declarations made by the database's foreign keys
  Models,        \* sets of curated declarations model.yaml may hold
  Search,        \* the planner: the trees it finds, each a set of
                 \* relationships, for a set of authorized relationships
  NoCall,        \* an idle server's call
  NoPlan,        \* a validate_sql call without a plan_id
  MaxCalls,      \* bound: calls handled
  MaxChanges     \* bound: writes to the source and edits of the model

(* `relationship_definitions`: a curated relationship replaces a declared  *)
(* one that has the same endpoints.                                        *)
Seeds(curated) ==
  curated \cup {d \in Catalog : \A c \in curated : c.rel # d.rel}

ASSUME ServiceConstants ==
  /\ Catalog \subseteq Declarations
  /\ Models \subseteq SUBSET Declarations
  /\ \A usable \in SUBSET Relationships :
       /\ Search[usable] \in Seq((SUBSET usable) \ {{}})
       /\ Len(Search[usable]) <= 4
  /\ \A curated \in Models \cup {Catalog} : \A c, d \in curated : c.rel = d.rel => c = d
  /\ MaxCalls \in Nat /\ MaxChanges \in Nat

Rels(records) == {r.rel : r \in records}

(* A plan id is a digest of the snapshot and the evidence of the edges.    *)
PlanIds ==
  {[snap |-> s, edges |-> E] :
     s \in Snapshots, E \in {X \in SUBSET Records : X # {}}}

VARIABLES
  source,        \* the content of the source
  model,         \* the curated declarations in model.yaml
  changes,       \* writes and edits so far
  proofs,        \* [plan ids on disk -> "good" or "bad"]: proofs/
  unsynced,      \* plan ids whose directory entry is not synced yet
  call,          \* [Servers -> a call or NoCall]
  during,        \* [Servers -> contents the source had during the call]
  issued,        \* plan ids that get_join_plan has answered with
  calls,         \* calls so far
  spoiled        \* proof files damaged so far

world == <<source, model, changes>>
service == <<proofs, unsynced, call, during, issued, calls, spoiled>>
allVars == <<vars, world, service>>

CallPhases == {"proof", "model", "snapshot", "gather", "store", "settle", "answered"}
Statuses == {"pending", "ok", "findings", "stale", "unverifiable",
             "not_available", "no_path", "failed"}

Calls ==
  [tool   : {"plan", "validate"},
   plan   : PlanIds \cup {NoPlan},        \* the proof to validate against
   sql    : SUBSET Relationships,         \* what the query joins on
   more   : BOOLEAN,                      \* include_alternatives
   phase  : CallPhases,
   seeds  : SUBSET Declarations,          \* read from the model
   snap   : Snapshots,                    \* the snapshot taken
   got    : SUBSET Records,               \* evidence gathered
   plans  : Seq(PlanIds),                 \* the plan and its alternatives
   stored : 0..4,                         \* how many of them are stored
   status : Statuses]

ASSUME ServiceMarkers == NoCall \notin Calls /\ NoPlan \notin PlanIds

ServiceTypeOK ==
  /\ source \in Snapshots
  /\ model \in Models
  /\ changes \in 0..MaxChanges
  /\ DOMAIN proofs \subseteq PlanIds
  /\ \A id \in DOMAIN proofs : proofs[id] \in {"good", "bad"}
  /\ unsynced \subseteq DOMAIN proofs
  /\ call \in [Servers -> Calls \cup {NoCall}]
  /\ during \in [Servers -> SUBSET Snapshots]
  /\ issued \subseteq PlanIds
  /\ calls \in 0..MaxCalls
  /\ spoiled \in 0..MaxDamage

ServiceInit ==
  /\ Init
  /\ source \in Snapshots
  /\ model \in Models
  /\ changes = 0
  /\ proofs = [id \in {} |-> "good"]
  /\ unsynced = {}
  /\ call = [p \in Servers |-> NoCall]
  /\ during = [p \in Servers |-> {}]
  /\ issued = {}
  /\ calls = 0
  /\ spoiled = 0

In(p, phase) == call[p] # NoCall /\ call[p].phase = phase

Stored(id) == id \in DOMAIN proofs /\ proofs[id] = "good"

(* All of the evidence a call has gathered. (A deliberate fault.)          *)
AuthorizedAnyway(c) == c.got

(* The usable part of the evidence a call has gathered.                    *)
Authorized(c) == {r \in c.got : Usable(r, c.snap)}

(***************************************************************************)
(* Calls.                                                                  *)
(***************************************************************************)
Begin(p, tool, plan, sql, more) ==
  /\ call[p] = NoCall
  /\ calls < MaxCalls
  /\ calls' = calls + 1
  /\ call' = [call EXCEPT ![p] =
       [tool |-> tool, plan |-> plan, sql |-> sql, more |-> more,
        phase |-> IF plan = NoPlan THEN "model" ELSE "proof",
        seeds |-> {}, snap |-> source, got |-> {}, plans |-> <<>>, stored |-> 0,
        status |-> "pending"]]
  /\ during' = [during EXCEPT ![p] = {source}]
  /\ UNCHANGED <<vars, world, proofs, unsynced, issued, spoiled>>

Finish(p, status) ==
  call' = [call EXCEPT ![p].phase = "answered", ![p].status = status]

(* `_proof`: the proof is loaded before anything else is looked at. One    *)
(* that cannot be read (a read error counts as damage) is removed.         *)
LoadProof(p) ==
  /\ In(p, "proof")
  /\ LET id == call[p].plan IN
     \/ /\ Stored(id)
        /\ call' = [call EXCEPT ![p].phase = "model"]
        /\ UNCHANGED <<proofs, unsynced>>
     \/ /\ ~Stored(id)
        /\ proofs' = [x \in DOMAIN proofs \ {id} |-> proofs[x]]
        /\ unsynced' = unsynced \ {id}
        /\ Finish(p, "not_available")
  /\ UNCHANGED <<vars, world, during, issued, calls, spoiled>>

(* `_legacy_inputs`.                                                       *)
ReadModel(p) ==
  /\ In(p, "model")
  /\ call' = [call EXCEPT ![p].phase = "snapshot", ![p].seeds = Seeds(model)]
  /\ UNCHANGED <<vars, world, proofs, unsynced, during, issued, calls, spoiled>>

(* Working on what an earlier call has seen. (A deliberate fault.)         *)
KeepSnapshot(p) ==
  /\ In(p, "snapshot")
  /\ call' = [call EXCEPT ![p].phase = "gather",
                          ![p].snap = IF call[p].plan = NoPlan THEN source
                                      ELSE call[p].plan.snap]
  /\ UNCHANGED <<vars, world, proofs, unsynced, during, issued, calls, spoiled>>

(* `snapshot_sqlite`: one consistent content of the source ...             *)
TakeSnapshot(p) ==
  /\ In(p, "snapshot")
  /\ call' = [call EXCEPT ![p].phase = "gather", ![p].snap = source]
  /\ UNCHANGED <<vars, world, proofs, unsynced, during, issued, calls, spoiled>>

(* ... or SOURCE_CHANGED_DURING_SCAN.                                      *)
SnapshotFails(p) ==
  /\ In(p, "snapshot")
  /\ Cardinality(during[p]) > 1
  /\ Finish(p, "failed")
  /\ UNCHANGED <<vars, world, proofs, unsynced, during, issued, calls, spoiled>>

(* The next relationship's evidence is looked up, ...                      *)
Gather(p, d) ==
  /\ In(p, "gather")
  /\ d \in call[p].seeds
  /\ d.rel \notin Rels(call[p].got)
  /\ Ask(p, [seed |-> d, snap |-> call[p].snap])
  /\ UNCHANGED <<world, service>>

Lookup(p) ==
  /\ LookupStep(p) \/ ReadError(p)
  /\ UNCHANGED <<world, service>>

(* ... and found.                                                          *)
Collect(p) ==
  /\ In(p, "gather")
  /\ Return(p)
  /\ call' = [call EXCEPT ![p].got = @ \cup {answer[p]}]
  /\ UNCHANGED <<world, proofs, unsynced, during, issued, calls, spoiled>>

LookupFails(p) ==
  /\ In(p, "gather")
  /\ Fail(p)
  /\ Finish(p, "failed")
  /\ UNCHANGED <<world, proofs, unsynced, during, issued, calls, spoiled>>

Gathered(p) ==
  /\ In(p, "gather")
  /\ pc[p] = "idle"
  /\ Rels(call[p].seeds) \subseteq Rels(call[p].got)

(***************************************************************************)
(* get_join_plan.                                                          *)
(***************************************************************************)
(* The proofs of the trees: the recommended one and, when they are asked   *)
(* for, its alternatives.                                                  *)
Proofs(c, trees) ==
  [i \in 1..(IF c.more \/ trees = <<>> THEN Len(trees) ELSE 1) |->
     [snap |-> c.snap, edges |-> {r \in Authorized(c) : r.rel \in trees[i]}]]

(* Planning on evidence that is not authorized. (A deliberate fault.)      *)
PlansAnyway(c) == Proofs(c, Search[Rels(c.got)])

Plans(c) == Proofs(c, Search[Rels(Authorized(c))])

PlanJoin(p) ==
  /\ Gathered(p)
  /\ call[p].tool = "plan"
  /\ LET plans == Plans(call[p]) IN
     \/ plans = <<>> /\ Finish(p, "no_path")
     \/ /\ plans # <<>>
        /\ call' = [call EXCEPT ![p].phase = "store", ![p].plans = plans]
  /\ UNCHANGED <<vars, world, proofs, unsynced, during, issued, calls, spoiled>>

(* `store_proof`: the file of the next proof is replaced ...               *)
StoreProof(p) ==
  /\ In(p, "store")
  /\ call[p].stored < Len(call[p].plans)
  /\ LET id == call[p].plans[call[p].stored + 1] IN
     /\ proofs' = [x \in DOMAIN proofs \cup {id} |->
                     IF x = id THEN "good" ELSE proofs[x]]
     /\ unsynced' = unsynced \cup ({id} \ DOMAIN proofs)
  /\ call' = [call EXCEPT ![p].phase = "settle"]
  /\ UNCHANGED <<vars, world, during, issued, calls, spoiled>>

(* A proof whose directory entry is not synced. (A deliberate fault.)      *)
SettleUnsynced(p) ==
  /\ In(p, "settle")
  /\ call' = [call EXCEPT ![p].phase = "store", ![p].stored = @ + 1]
  /\ UNCHANGED <<vars, world, proofs, unsynced, during, issued, calls, spoiled>>

(* ... and its directory synced, for every proof of the plan.              *)
SettleProof(p) ==
  /\ In(p, "settle")
  /\ unsynced' = {}
  /\ call' = [call EXCEPT ![p].phase = "store", ![p].stored = @ + 1]
  /\ UNCHANGED <<vars, world, proofs, during, issued, calls, spoiled>>

AnswerPlan(p) ==
  /\ In(p, "store")
  /\ call[p].stored = Len(call[p].plans)
  /\ Finish(p, "ok")
  /\ issued' = issued \cup {call[p].plans[i] : i \in DOMAIN call[p].plans}
  /\ UNCHANGED <<vars, world, proofs, unsynced, during, calls, spoiled>>

(***************************************************************************)
(* validate_sql.                                                           *)
(***************************************************************************)
(* A lifecycle that forgets the snapshot. (A deliberate fault.)            *)
LifecycleByRelationship(plan, c) ==
  IF Rels(plan.edges) \subseteq Rels(Authorized(c)) THEN "current" ELSE "unverifiable"

(* `proof_lifecycle` (the policy version is that of the program).          *)
Lifecycle(plan, c) ==
  CASE plan.snap # c.snap                 -> "stale"
    [] plan.snap = c.snap /\ ~(plan.edges \subseteq Authorized(c))
                                          -> "unverifiable"
    [] OTHER                              -> "current"

(* The joins of the query are authorized, and those of the proof if any.   *)
Passes(c) ==
  /\ c.sql \subseteq Rels(Authorized(c))
  /\ c.plan # NoPlan => c.sql = Rels(c.plan.edges)

Decide(p) ==
  /\ Gathered(p)
  /\ call[p].tool = "validate"
  /\ LET c == call[p] IN
     \/ /\ c.plan # NoPlan
        /\ Lifecycle(c.plan, c) # "current"
        /\ Finish(p, Lifecycle(c.plan, c))
     \/ /\ c.plan # NoPlan => Lifecycle(c.plan, c) = "current"
        /\ Finish(p, IF Passes(c) THEN "ok" ELSE "findings")
  /\ UNCHANGED <<vars, world, proofs, unsynced, during, issued, calls, spoiled>>

(* The client has the response.                                            *)
Respond(p) ==
  /\ In(p, "answered")
  /\ call' = [call EXCEPT ![p] = NoCall]
  /\ during' = [during EXCEPT ![p] = {}]
  /\ UNCHANGED <<vars, world, proofs, unsynced, issued, calls, spoiled>>

(***************************************************************************)
(* The environment.                                                        *)
(***************************************************************************)
WriteSource(content) ==
  /\ content # source
  /\ changes < MaxChanges
  /\ changes' = changes + 1
  /\ source' = content
  /\ during' = [p \in Servers |->
                  IF call[p] = NoCall THEN {} ELSE during[p] \cup {content}]
  /\ UNCHANGED <<vars, model, proofs, unsynced, call, issued, calls, spoiled>>

EditModel(curated) ==
  /\ curated # model
  /\ changes < MaxChanges
  /\ changes' = changes + 1
  /\ model' = curated
  /\ UNCHANGED <<vars, source, service>>

DamageProof(id) ==
  /\ Stored(id)
  /\ spoiled < MaxDamage
  /\ spoiled' = spoiled + 1
  /\ proofs' = [proofs EXCEPT ![id] = "bad"]
  /\ UNCHANGED <<vars, world, unsynced, call, during, issued, calls>>

DamageEvidence ==
  /\ \/ \E r \in Records : DamageRecord(r)
     \/ \E s \in Selectors, value \in Pointers \ {NoRecord} : DamagePointer(s, value)
  /\ UNCHANGED <<world, service>>

Forget(P) ==
  /\ call' = [p \in Servers |-> IF p \in P THEN NoCall ELSE call[p]]
  /\ during' = [p \in Servers |-> IF p \in P THEN {} ELSE during[p]]

ServerCrash(p) ==
  /\ call[p] # NoCall
  /\ Crash(p)
  /\ Forget({p})
  /\ UNCHANGED <<world, proofs, unsynced, issued, calls, spoiled>>

Outage ==
  /\ PowerLoss
  /\ \E lost \in SUBSET unsynced :
       proofs' = [id \in DOMAIN proofs \ lost |-> proofs[id]]
  /\ unsynced' = {}
  /\ Forget(Servers)
  /\ UNCHANGED <<world, issued, calls, spoiled>>

CallStep(p) ==
  \/ LoadProof(p) \/ ReadModel(p) \/ TakeSnapshot(p)
  \/ \E d \in Declarations : Gather(p, d)
  \/ Lookup(p) \/ Collect(p)
  \/ PlanJoin(p) \/ StoreProof(p) \/ SettleProof(p) \/ AnswerPlan(p)
  \/ Decide(p)

ServiceNext ==
  \/ \E p \in Servers :
       \/ \E more \in BOOLEAN : Begin(p, "plan", NoPlan, {}, more)
       \/ \E plan \in issued \cup {NoPlan}, sql \in (SUBSET Relationships) \ {{}} :
            Begin(p, "validate", plan, sql, FALSE)
       \/ CallStep(p) \/ SnapshotFails(p) \/ LookupFails(p)
       \/ Respond(p) \/ ServerCrash(p)
  \/ \E content \in Snapshots : WriteSource(content)
  \/ \E curated \in Models : EditModel(curated)
  \/ \E id \in DOMAIN proofs : DamageProof(id)
  \/ DamageEvidence \/ Outage

ServiceSpec == ServiceInit /\ [][ServiceNext]_allVars

FairServiceSpec == ServiceSpec /\ \A p \in Servers : WF_allVars(CallStep(p))

(***************************************************************************)
(* Properties.                                                             *)
(***************************************************************************)
Answered(p, tool) ==
  In(p, "answered") /\ call[p].tool = tool /\ call[p].status = "ok"

(* On the content a relationship has no blocking finding, by what the call *)
(* knows of its declaration.                                               *)
SafeOn(rel, content, declared) ==
  \A d \in declared :
    d.rel = rel =>
      Findings(Measured[<<rel, content>>], d.card) \cap BlockingCodes = {}

(* A query passes only if the source had, at some moment of the very call, *)
(* one content on which every relationship it joins on is known and safe:  *)
(* never on evidence of an earlier content, whatever is in the cache and   *)
(* whoever else is writing there.                                          *)
PassIsSafe ==
  \A p \in Servers : Answered(p, "validate") =>
    \E content \in during[p] : \A rel \in call[p].sql :
      rel \in Rels(call[p].seeds) /\ SafeOn(rel, content, call[p].seeds)

(* Likewise for every edge of a plan and of its alternatives.              *)
PlanIsSafe ==
  \A p \in Servers : Answered(p, "plan") =>
    \E content \in during[p] : \A i \in DOMAIN call[p].plans :
      /\ call[p].plans[i].snap = content
      /\ \A r \in call[p].plans[i].edges : SafeOn(r.rel, content, call[p].seeds)

(* A stale proof is never downgraded to independent lint: a call that was  *)
(* given a plan passes only on the snapshot and with the evidence of that  *)
(* plan's proof.                                                           *)
StaleNeverPasses ==
  \A p \in Servers : Answered(p, "validate") /\ call[p].plan # NoPlan =>
    /\ call[p].plan.snap = call[p].snap
    /\ call[p].plan.snap \in during[p]
    /\ call[p].plan.edges \subseteq call[p].got

(* A plan_id that get_join_plan has answered with can be validated against *)
(* through every later crash or power loss, as long as no proof is damaged.*)
IssuedPlansAreKept ==
  spoiled = 0 => \A id \in issued : Stored(id)

(* Every call is answered, or lost with its server.                        *)
CallsEnd == \A p \in Servers : call[p] # NoCall ~> call[p] = NoCall \/ In(p, "answered")

=============================================================================
