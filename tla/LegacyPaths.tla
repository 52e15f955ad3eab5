---------------------------- MODULE LegacyPaths ----------------------------
(***************************************************************************)
(* services.py on a project with one source: scan, accept, validate,       *)
(* baseline update, check, find_join_path and validate_join, over tables   *)
(* with rows. Commands run one after the other here; how they race is      *)
(* modelled in GeneratedStore and Governance.                              *)
(***************************************************************************)
EXTENDS Validation, SequencesExt

CONSTANTS
  Columns,     \* [table -> its columns]; tables and entities have one name
  Projects,    \* [tables, model]: where a project may start
  Changes,     \* <<before, after>>: how the source may change
  IdOf,        \* [<<from, to>> -> Nat]: the ids of candidates
  PathDepths,  \* the values of max_depth asked for
  PathLimit,   \* find_join_path does not answer with more paths
  ModelLimit,  \* larger models accept no candidate
  EdgeLimit,   \* validate_join does not take longer paths
  OldEdges,    \* edges of paths answered for another model
  None

(* An endpoint is <<entity, column>>; a model is its entities, which name  *)
(* tables, and its relationships [id, from, to, card].                     *)
Entities == DOMAIN Columns
Endpoints == UNION {{e} \X Columns[e] : e \in Entities}

(* What a source may hold.                                                 *)
IsSource(t) ==
  /\ DOMAIN t = Entities
  /\ \A e \in Entities : t[e] \in Seq([Columns[e] -> DOMAIN Writings \cup {Null}])

Models ==
  [entities : SUBSET Entities,
   relationships : SUBSET [id : Nat, from : Endpoints, to : Endpoints, card : Directed]]

ASSUME PathConstants ==
  /\ \A p \in Projects :
       /\ IsSource(p.tables) /\ p.model \in Models
       /\ \A r \in p.model.relationships :
            /\ {r.from[1], r.to[1]} \subseteq p.model.entities
            /\ \A s \in p.model.relationships : r.id = s.id => r = s
  /\ IdOf \in [Endpoints \X Endpoints -> Nat]
  /\ \A one, other \in Endpoints \X Endpoints : IdOf[one] = IdOf[other] => one = other
  /\ \A c \in Changes : IsSource(c[2])
  /\ PathDepths \subseteq 1..4 /\ {PathLimit, ModelLimit, EdgeLimit} \subseteq Nat

VARIABLES
  tables,    \* [Entities -> sequence of rows]: what the source holds
  model,     \* what is confirmed
  manifest,  \* None, or the last scan: its source, model and results
  baseline,  \* None, or the evidence check compares with
  answer     \* None, or what the last command answered

pathVars == <<tables, model, manifest, baseline, answer>>

-----------------------------------------------------------------------------
ColumnOf(endpoint) ==
  [i \in DOMAIN tables[endpoint[1]] |-> tables[endpoint[1]][i][endpoint[2]]]

Relationships == model.relationships
Ids == {r.id : r \in Relationships}
Relationship(id) == CHOOSE r \in Relationships : r.id = id

Validated(r) == ValidateRelationship(ColumnOf(r.from), ColumnOf(r.to), r.card)

(* collect_current_evidence: schemas with their profiles, and a result,    *)
(* with the relationship it is of, for each relationship.                  *)
Results == [id \in Ids |-> [rel |-> Relationship(id), result |-> Validated(Relationship(id))]]

Schemas == [e \in Entities |-> [rows |-> Len(tables[e]),
                                columns |-> [c \in Columns[e] |-> Profile(ColumnOf(<<e, c>>))]]]

FindingsIn(results) == UNION {results[id].result.findings : id \in DOMAIN results}

Says(kind, code, about, findings) ==
  answer' = [kind |-> kind, code |-> code, about |-> about, findings |-> findings]

Asked == answer # None

(* A new answer replaces the last one.                                     *)
Answers(kind, code, about, findings) ==
  /\ ~Asked
  /\ Says(kind, code, about, findings)

Forget == Asked /\ answer' = None /\ UNCHANGED <<tables, model, manifest, baseline>>

-----------------------------------------------------------------------------
(* The commands.                                                           *)

Scan ==
  /\ Answers("scan", "ok", Ids, {})
  /\ manifest' = [tables |-> tables, model |-> model, results |-> Results]
  /\ UNCHANGED <<tables, model, baseline>>

(* _load_fresh_evidence.                                                   *)
Fresh == manifest # None /\ manifest.tables = tables /\ manifest.model = model

(* Mutant: it is not asked whether the id is taken.                        *)
RefusalOnceMore(from, to) ==
  IF ~Fresh THEN "EVIDENCE_STALE"
  ELSE IF from[1] = to[1] \/ ~IsCandidate(ColumnOf(from), ColumnOf(to)) THEN "CANDIDATE_NOT_FOUND"
  ELSE IF ~({from[1], to[1]} \subseteq model.entities) THEN "CANDIDATE_STALE"
  ELSE "none"

Refusal(from, to) ==
  IF ~Fresh THEN "EVIDENCE_STALE"
  ELSE IF from[1] = to[1] \/ ~IsCandidate(ColumnOf(from), ColumnOf(to)) THEN "CANDIDATE_NOT_FOUND"
  ELSE IF IdOf[<<from, to>>] \in Ids THEN "CANDIDATE_ALREADY_ACCEPTED"
  ELSE IF ~({from[1], to[1]} \subseteq model.entities) THEN "CANDIDATE_STALE"
  ELSE "none"

Accept(from, to) ==
  /\ Cardinality(Relationships) < ModelLimit
  /\ LET found == Candidate(ColumnOf(from), ColumnOf(to))
         rel   == [id |-> IdOf[<<from, to>>], from |-> from, to |-> to, card |-> found.cardinality]
     IN IF Refusal(from, to) # "none"
        THEN Answers("accept", Refusal(from, to), {}, {}) /\ UNCHANGED model
        ELSE /\ Answers("accept", found.confidence, {rel}, {})
             /\ model' = [model EXCEPT !.relationships = @ \cup {rel}]
  /\ UNCHANGED <<tables, manifest, baseline>>

ValidateProject ==
  /\ Answers("validate", "ok", Relationships, FindingsIn(Results))
  /\ UNCHANGED <<tables, model, manifest, baseline>>

UpdateBaseline ==
  /\ IF FindingsIn(Results) \cap LegacyBlocking # {}
     THEN Answers("baseline", "refused", {}, FindingsIn(Results)) /\ UNCHANGED baseline
     ELSE /\ baseline' = [schemas |-> Schemas, results |-> Results]
          /\ Answers("baseline", "ok", Relationships, FindingsIn(Results))
  /\ UNCHANGED <<tables, model, manifest>>

CompareBaseline ==
  {code \in {"SCHEMA_DRIFT", "CARDINALITY_DRIFT"} :
     IF code = "SCHEMA_DRIFT" THEN baseline.schemas # Schemas ELSE baseline.results # Results}

Check ==
  /\ IF baseline = None THEN Answers("check", "BASELINE_MISSING", {}, {})
     ELSE Answers("check", "ok", Relationships, FindingsIn(Results) \cup CompareBaseline)
  /\ UNCHANGED <<tables, model, manifest, baseline>>

ChangeSource ==
  /\ ~Asked
  /\ \E c \in Changes : c[1] = tables /\ c[2] # tables /\ tables' = c[2]
  /\ UNCHANGED <<model, manifest, baseline, answer>>

-----------------------------------------------------------------------------
(* Paths.                                                                  *)

Edges == UNION {{[id |-> r.id, direction |-> d, card |-> r.card] :
                   d \in {"forward", "reverse"}} : r \in Relationships}

Origin(edge) ==
  LET r == Relationship(edge.id) IN IF edge.direction = "forward" THEN r.from[1] ELSE r.to[1]
Target(edge) ==
  LET r == Relationship(edge.id) IN IF edge.direction = "forward" THEN r.to[1] ELSE r.from[1]

(* One round of the queue in find_join_path.                               *)
(* Mutant: entities may be met again.                                      *)
OnwardsAnywhere(walk) ==
  {[at |-> Target(edge), path |-> Append(walk.path, edge),
    met |-> walk.met \cup {Target(edge)}] :
     edge \in {e \in Edges : Origin(e) = walk.at}}

Onwards(walk) ==
  {[at |-> Target(edge), path |-> Append(walk.path, edge),
    met |-> walk.met \cup {Target(edge)}] :
     edge \in {e \in Edges : Origin(e) = walk.at /\ Target(e) \notin walk.met}}

PathsFrom(source, target, depth) ==
  LET walks[k \in 0..depth] ==
        IF k = 0 THEN {[at |-> source, path |-> <<>>, met |-> {source}]}
        ELSE UNION {Onwards(w) : w \in {v \in walks[k - 1] : v.path = <<>> \/ v.at # target}}
  IN {w.path : w \in {v \in UNION {walks[k] : k \in 1..depth} : v.at = target}}

FindJoinPath(source, target, depth) ==
  /\ LET paths == PathsFrom(source, target, depth) IN
     IF ~({source, target} \subseteq model.entities)
     THEN Answers("find", "ENTITY_NOT_FOUND", {}, {})
     ELSE
       Answers("find", IF Cardinality(paths) > PathLimit THEN "OUTPUT_LIMIT_EXCEEDED" ELSE "ok",
               [source |-> source, target |-> target, depth |-> depth, paths |-> paths], {})
  /\ UNCHANGED <<tables, model, manifest, baseline>>

(* _validate_path_shape.                                                   *)
PathShapeOK(path) ==
  /\ \A i \in DOMAIN path : path[i].id \in Ids /\ path[i].card = Relationship(path[i].id).card
  /\ \A i \in 2..Len(path) : Origin(path[i]) = Target(path[i - 1])
  /\ \A i \in DOMAIN path :
       Target(path[i]) \notin {Origin(path[1])} \cup {Target(path[j]) : j \in 1..(i - 1)}

FansOut(result) == result.fromPerTo > 1 \/ result.toPerFrom > 1

(* Mutant: one more fan-out than that.                                     *)
CompoundFromThree(results) == Cardinality({id \in DOMAIN results : FansOut(results[id].result)}) > 2

Compound(results) == Cardinality({id \in DOMAIN results : FansOut(results[id].result)}) > 1

ValidatePath(path) ==
  /\ IF path = <<>> \/ Len(path) > EdgeLimit \/ ~PathShapeOK(path)
     THEN Answers("path", "INVALID_ARGUMENT", <<>>, {})
     ELSE IF ~Fresh THEN Answers("path", "EVIDENCE_STALE", <<>>, {})
     ELSE LET results == [id \in {path[i].id : i \in DOMAIN path} |-> manifest.results[id]] IN
          Answers("path", "ok", path,
                  FindingsIn(results) \cup (IF Compound(results) THEN {"COMPOUND_FANOUT"} ELSE {}))
  /\ UNCHANGED <<tables, model, manifest, baseline>>

ValidateEdges(ids) ==
  /\ IF ~Fresh \/ ~(ids \subseteq Ids) THEN Answers("edges", "EVIDENCE_STALE", {}, {})
     ELSE Answers("edges", "ok", {Relationship(id) : id \in ids},
                  FindingsIn([id \in ids |-> manifest.results[id]]))
  /\ UNCHANGED <<tables, model, manifest, baseline>>

-----------------------------------------------------------------------------
Init ==
  /\ \E p \in Projects : tables = p.tables /\ model = p.model
  /\ manifest = None /\ baseline = None /\ answer = None

Next ==
  \/ Scan \/ ValidateProject \/ UpdateBaseline \/ Check \/ ChangeSource \/ Forget
  \/ \E from, to \in Endpoints : Accept(from, to)
  \/ \E source, target \in Entities, depth \in PathDepths : FindJoinPath(source, target, depth)
  \/ \E path \in BoundedSeq(Edges \cup OldEdges, EdgeLimit + 1) : ValidatePath(path)
  \/ \E ids \in (SUBSET (Ids \cup {edge.id : edge \in OldEdges})) \ {{}} : ValidateEdges(ids)

PathSpec == Init /\ [][Next]_pathVars

-----------------------------------------------------------------------------
(* The rows two columns of a relationship join, by the values as the       *)
(* program compares them.                                                  *)
Meet(r, i, j) ==
  LET from == ColumnOf(r.from) to == ColumnOf(r.to) IN
  /\ from[i] # Null /\ to[j] # Null
  /\ Normal(from[i], InferType(from)) = Normal(to[j], InferType(to))

(* What a relationship promises of its rows: each row that refers to       *)
(* something refers to one row, and the declared side is not repeated.     *)
Holds(r) ==
  LET from == DOMAIN tables[r.from[1]] to == DOMAIN tables[r.to[1]] IN
  /\ \A i \in from : ColumnOf(r.from)[i] # Null => Cardinality({j \in to : Meet(r, i, j)}) = 1
  /\ r.card = "one_to_one" => \A j \in to : Cardinality({i \in from : Meet(r, i, j)}) <= 1

Vouched ==
  CASE answer.kind \in {"validate", "check", "baseline", "edges"} -> answer.about
    [] answer.kind = "path" -> {Relationship(answer.about[i].id) : i \in DOMAIN answer.about}
    [] OTHER -> {}

Passed == Asked /\ answer.findings \cap LegacyBlocking = {} /\ answer.code = "ok"

TablesOK ==
  /\ \A r \in Relationships : /\ {r.from[1], r.to[1]} \subseteq model.entities /\ r.card \in Directed
                              /\ \A s \in Relationships : r.id = s.id => r = s
  /\ manifest # None => DOMAIN manifest.results = {r.id : r \in manifest.model.relationships}
  /\ Asked => answer.findings \subseteq ValidationCodes

(* A relationship that was accepted as a strong candidate validates with   *)
(* nothing but a change of grain on the source it was discovered in; no    *)
(* candidate drifts there unless it has orphans.                           *)
AcceptedHolds ==
  Asked /\ answer.kind = "accept" =>
    \A r \in answer.about :
      /\ answer.code = "strong" => Validated(r).findings \subseteq {"GRAIN_CHANGE"}
      /\ "CARDINALITY_DRIFT" \in Validated(r).findings => "ORPHAN_CHILD_ROW" \in Validated(r).findings

(* Whatever passes (validate, validate_join, check, baseline update), the  *)
(* relationships it passes hold of the rows the source has now.            *)
PassingMeansHolding == Passed => \A r \in Vouched : Holds(r)

(* The rows a path joins, as one row of each entity on it.                 *)
PathEntities(path) == {Origin(path[1])} \cup {Target(path[i]) : i \in DOMAIN path}

JoinedRows(path) ==
  {row \in [PathEntities(path) -> UNION {DOMAIN tables[e] : e \in Entities}] :
     /\ \A e \in PathEntities(path) : row[e] \in DOMAIN tables[e]
     /\ \A i \in DOMAIN path :
          LET r == Relationship(path[i].id) IN Meet(r, row[r.from[1]], row[r.to[1]])}

(* A path that passes repeats no row of at least one entity on it: at most *)
(* one of its relationships fans out.                                      *)
PassingPathsKeepAGrain ==
  Passed /\ answer.kind = "path" =>
    \E e \in PathEntities(answer.about) :
      \A one, other \in JoinedRows(answer.about) : one[e] = other[e] => one = other

(* find_join_path answers with the paths that validate_join takes, from    *)
(* one entity to the other and within the depth: all of them, or an error. *)
PathsAreThoseValidated ==
  Asked /\ answer.kind = "find" /\ answer.code # "ENTITY_NOT_FOUND" =>
    LET taken == {p \in BoundedSeq(Edges, answer.about.depth) :
                    /\ p # <<>> /\ PathShapeOK(p)
                    /\ Origin(p[1]) = answer.about.source
                    /\ Target(p[Len(p)]) = answer.about.target}
    IN IF answer.code = "ok" THEN answer.about.paths = taken
       ELSE Cardinality(taken) > PathLimit

(* Where every value has one writing, what passes here passes the runtime  *)
(* verification too: an agent is not refused what the commands accepted.   *)
Runtime == INSTANCE Evidence

Plain(column) == \A i \in Present(column) : column[i] = Writings[column[i]].canonical

RuntimeAgrees ==
  Passed => \A r \in Vouched :
    LET child == ColumnOf(r.from) parent == ColumnOf(r.to) IN
    Plain(child) /\ Plain(parent) =>
      Runtime!Findings(Runtime!Measure(child, parent), r.card) \cap Runtime!BlockingCodes = {}

=============================================================================
