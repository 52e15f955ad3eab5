----------------------------- MODULE Governance -----------------------------
(***************************************************************************)
(* The documents of a project that commands of several processes read and  *)
(* replace: config.yaml, model.yaml, state/rejections.json, baseline.json  *)
(* and the manifest of generated/ (src/joinlint/cli.py, services.py,       *)
(* config.py, candidates.py, baseline.py).                                 *)
(*                                                                         *)
(* Each document is replaced atomically, so each read and each write is a  *)
(* step. `source add`, `source set` and `source remove` hold the flock of  *)
(* .joinlint/.lock throughout; the other commands take no lock, and a user *)
(* may edit model.yaml. How generated/ is replaced file by file is the     *)
(* subject of GeneratedStore.                                              *)
(***************************************************************************)
EXTENDS Naturals, Sequences

CONSTANTS
  Users,        \* processes, each running one command after the other
  Verbs,        \* [Users -> SUBSET Commands]: what each may run
  Order,        \* the source ids in the order of their bytes
  Places,       \* project-relative paths of sources
  Kind,         \* [Places -> kinds of source]
  Contents,     \* what the tables at a path may hold (a fingerprint)
  Candidates,   \* relationships that may be discovered and confirmed
  Home,         \* [Candidates -> ids]
  Discovered,   \* [Contents -> SUBSET Candidates]
  Sound,        \* [Contents -> SUBSET Candidates]: no blocking finding
  Writes,       \* SUBSET (Contents \X Contents): which may follow which
  FirstConfig, FirstData, FirstModel,
  MaxCommands,  \* bound: commands that are started
  MaxCrashes,   \* bound: processes that die
  None

Sources == {Order[i] : i \in DOMAIN Order}

Position(s) == CHOOSE i \in DOMAIN Order : Order[i] = s

SourceCommands == {"add", "set", "remove"}
Decisions == {"accept", "reject"}
Commands == SourceCommands \cup Decisions \cup {"scan", "update"}

(* config.yaml: the path of each registered source.                        *)
Configs == [Sources -> Places \cup {None}]

(* model.yaml: the sources whose tables have entities, and the confirmed   *)
(* relationships. A relationship needs both of its entities (ModelV1).     *)
Models ==
  {m \in [entities : SUBSET Sources, accepted : SUBSET Candidates] :
     \A c \in m.accepted : Home[c] \in m.entities}

(* Fingerprints, as they are taken and as a manifest lists them: in the    *)
(* order of the ids, without the ids.                                      *)
Prints == [Sources -> Contents \cup {None}]
Listed(prints) ==
  LET ids == SelectSeq(Order, LAMBDA s : prints[s] # None)
  IN  [i \in DOMAIN ids |-> prints[ids[i]]]

(* What a rejection key is a digest of: the candidate and its evidence.    *)
Keys == Candidates \X Contents

ASSUME GovernanceConstants ==
  /\ Order \in Seq(Sources)
  /\ None \notin Users \cup Places /\ None \notin Contents /\ None \notin Commands
  /\ Verbs \in [Users -> SUBSET Commands]
  /\ Home \in [Candidates -> Sources]
  /\ Discovered \in [Contents -> SUBSET Candidates]
  /\ Sound \in [Contents -> SUBSET Candidates]
  /\ Writes \subseteq Contents \X Contents
  /\ FirstConfig \in Configs /\ FirstModel \in Models
  /\ FirstData \in [Places -> Contents]
  /\ MaxCommands \in Nat /\ MaxCrashes \in Nat

VARIABLES
  config,      \* config.yaml
  data,        \* [Places -> Contents]: the sources themselves
  model,       \* model.yaml
  rejections,  \* rejections.json: [Sources -> SUBSET Keys]
  baseline,    \* baseline.json: where it was measured, or None
  manifest,    \* manifest.json in generated/, or None
  lock,        \* who holds .joinlint/.lock, or None
  job,         \* [Users -> Jobs]
  commands, crashes,
  scanned,     \* history: the manifests that were ever published
  excused      \* history: sources whose baseline may be out of date

documents == <<config, model, rejections, baseline, manifest>>
bounds == <<commands, crashes>>
history == <<scanned, excused>>
vars == <<documents, data, lock, job, bounds, history>>

Phases ==
  {"idle", "lock", "config", "model", "snapshot", "hidden", "reload", "confirm",
   "read", "write", "register", "generated", "baseline"}

Jobs ==
  [verb   : Commands \cup {None},
   phase  : Phases,
   target : Candidates \cup Sources \cup {None},  \* to decide on, or to change
   place  : Places \cup {None},       \* the path to register
   config : Configs,                  \* config.yaml as it was read
   model  : Models,                   \* model.yaml as it was read
   todo   : SUBSET Sources,           \* the sources not yet read
   from   : Configs,                  \* where each snapshot was taken
   prints : Prints,                   \* the contents found there
   shown  : BOOLEAN,                  \* the candidate was discovered, unrejected
   noted  : [Sources -> SUBSET Keys]] \* rejections.json as it was read

NoSources == [s \in Sources |-> None]
NoKeys == [s \in Sources |-> {}]

Idle ==
  [verb |-> None, phase |-> "idle", target |-> None, place |-> None,
   config |-> NoSources, model |-> [entities |-> {}, accepted |-> {}],
   todo |-> {}, from |-> NoSources, prints |-> NoSources, shown |-> FALSE,
   noted |-> NoKeys]

At(p, phase) == job[p].phase = phase

Goto(p, phase) == job' = [job EXCEPT ![p].phase = phase]

Registered(c) == {s \in Sources : c[s] # None}

(* The command ends, with success or an error; _config_lock closes .lock.  *)
Ends(p) ==
  /\ job' = [job EXCEPT ![p] = Idle]
  /\ lock' = IF lock = p THEN None ELSE lock

Init ==
  /\ config = FirstConfig /\ data = FirstData /\ model = FirstModel
  /\ rejections = NoKeys /\ baseline = None /\ manifest = None
  /\ lock = None
  /\ job = [p \in Users |-> Idle]
  /\ commands = 0 /\ crashes = 0
  /\ scanned = {} /\ excused = {}

-----------------------------------------------------------------------------
Targets(verb) ==
  IF verb \in Decisions THEN Candidates
  ELSE IF verb \in SourceCommands THEN Sources ELSE {None}

PathsFor(verb) == IF verb \in {"add", "set"} THEN Places ELSE {None}

(* Mutant: the source commands run without the lock.                       *)
StartUnlocked(p) ==
  /\ At(p, "idle") /\ commands < MaxCommands
  /\ commands' = commands + 1
  /\ \E verb \in Verbs[p] : \E t \in Targets(verb), path \in PathsFor(verb) :
       job' = [job EXCEPT ![p] =
         [Idle EXCEPT !.verb = verb, !.target = t, !.place = path,
                      !.phase = "config"]]
  /\ UNCHANGED <<documents, data, lock, crashes, history>>

Start(p) ==
  /\ At(p, "idle") /\ commands < MaxCommands
  /\ commands' = commands + 1
  /\ \E verb \in Verbs[p] : \E t \in Targets(verb), path \in PathsFor(verb) :
       job' = [job EXCEPT ![p] =
         [Idle EXCEPT !.verb = verb, !.target = t, !.place = path,
                      !.phase = IF verb \in SourceCommands THEN "lock" ELSE "config"]]
  /\ UNCHANGED <<documents, data, lock, crashes, history>>

Lock(p) ==
  /\ At(p, "lock") /\ lock = None
  /\ lock' = p
  /\ Goto(p, "config")
  /\ UNCHANGED <<documents, data, bounds, history>>

(* What a source command asks of config.yaml.                              *)
Allowed(p, c) ==
  LET s == job[p].target IN
  CASE job[p].verb = "add"    -> c[s] = None
    [] job[p].verb = "set"    -> c[s] # None /\ Kind[job[p].place] = Kind[c[s]]
    [] job[p].verb = "remove" -> c[s] # None
    [] OTHER                  -> TRUE

LoadConfig(p) ==
  /\ At(p, "config")
  /\ IF Allowed(p, config)
       THEN /\ job' = [job EXCEPT
                 ![p].config = config,
                 ![p].todo = Registered(config),
                 ![p].phase = IF job[p].verb \in {"add", "set"} THEN "register" ELSE "model"]
            /\ UNCHANGED lock
       ELSE Ends(p)
  /\ UNCHANGED <<documents, data, bounds, history>>

(* _require_model_sources; for `source remove`, that nothing depends on it. *)
Fits(p, m) ==
  IF job[p].verb = "remove" THEN job[p].target \notin m.entities
                            ELSE m.entities \subseteq Registered(job[p].config)

LoadModel(p) ==
  /\ At(p, "model")
  /\ IF Fits(p, model)
       THEN /\ job' = [job EXCEPT
                 ![p].model = model,
                 ![p].phase = IF job[p].verb = "remove" THEN "register" ELSE "snapshot"]
            /\ UNCHANGED lock
       ELSE Ends(p)
  /\ UNCHANGED <<documents, data, bounds, history>>

(* The sources are read in the order of their ids.                         *)
Turn(p, s) ==
  /\ s \in job[p].todo
  /\ \A t \in job[p].todo : Position(s) <= Position(t)

(* snapshot_source reads config.yaml anew for each source.                 *)
Snapshot(p) ==
  /\ At(p, "snapshot")
  /\ \E s \in Sources :
       /\ Turn(p, s)
       /\ IF config[s] = None THEN Ends(p)
          ELSE /\ job' = [job EXCEPT
                    ![p].from[s] = config[s],
                    ![p].prints[s] = data[config[s]],
                    ![p].phase = IF job[p].verb \in Decisions THEN "hidden" ELSE @,
                    ![p].todo = IF job[p].verb \in Decisions THEN @ ELSE @ \ {s}]
               /\ UNCHANGED lock
  /\ UNCHANGED <<documents, data, bounds, history>>

(* visible_candidates of the source just read.                             *)
HideRejected(p) ==
  /\ At(p, "hidden")
  /\ \E s \in Sources :
       LET c == job[p].target
           found == job[p].prints[s]
       IN /\ Turn(p, s)
          /\ job' = [job EXCEPT
               ![p].shown = @ \/ /\ Home[c] = s /\ c \in Discovered[found]
                                 /\ <<c, found>> \notin rejections[s],
               ![p].todo = @ \ {s}, ![p].phase = "snapshot"]
  /\ UNCHANGED <<documents, data, lock, bounds, history>>

Collected(p) == At(p, "snapshot") /\ job[p].todo = {}

(* What a manifest says the evidence was made from.                        *)
Stamp(p) == [prints |-> Listed(job[p].prints), model |-> job[p].model]

Publish(p) ==
  /\ Collected(p) /\ job[p].verb = "scan"
  /\ manifest' = Stamp(p)
  /\ scanned' = scanned \cup {Stamp(p)}
  /\ Ends(p)
  /\ UNCHANGED <<config, model, rejections, baseline, data, bounds, excused>>

(* update_baseline: written unless a confirmed relationship is broken.     *)
UpdateBaseline(p) ==
  /\ Collected(p) /\ job[p].verb = "update"
  /\ IF \A c \in job[p].model.accepted : c \in Sound[job[p].prints[Home[c]]]
       THEN baseline' = job[p].from
       ELSE UNCHANGED baseline
  /\ Ends(p)
  /\ UNCHANGED <<config, model, rejections, manifest, data, bounds, history>>

-----------------------------------------------------------------------------
(* accept and reject: _load_fresh_evidence, then _candidate_by_id.         *)
(* Mutant: the candidates are taken for fresh.                             *)
DecideAnyway(p) ==
  /\ Collected(p) /\ job[p].verb \in Decisions
  /\ IF job[p].shown
       THEN /\ Goto(p, IF job[p].verb = "accept" THEN "reload" ELSE "read")
            /\ UNCHANGED lock
       ELSE Ends(p)
  /\ UNCHANGED <<documents, data, bounds, history>>

Decide(p) ==
  /\ Collected(p) /\ job[p].verb \in Decisions
  /\ IF manifest # None /\ manifest = Stamp(p) /\ job[p].shown
       THEN /\ Goto(p, IF job[p].verb = "accept" THEN "reload" ELSE "read")
            /\ UNCHANGED lock
       ELSE Ends(p)
  /\ UNCHANGED <<documents, data, bounds, history>>

(* Mutant: the digest of the model is not compared.                        *)
AcceptableToAny(p, m) ==
  /\ job[p].target \notin m.accepted
  /\ Home[job[p].target] \in m.entities

(* Mutant: the endpoints need not be entities.                             *)
AcceptableUnbound(p, m) ==
  /\ m = job[p].model
  /\ job[p].target \notin m.accepted

(* accept_candidate: the model is read again and compared; the candidate   *)
(* must be new to it and join two of its entities.                         *)
Acceptable(p, m) ==
  /\ m = job[p].model
  /\ job[p].target \notin m.accepted
  /\ Home[job[p].target] \in m.entities

ReloadModel(p) ==
  /\ At(p, "reload")
  /\ IF Acceptable(p, model)
       THEN /\ job' = [job EXCEPT ![p].model = model, ![p].phase = "confirm"]
            /\ UNCHANGED lock
       ELSE Ends(p)
  /\ UNCHANGED <<documents, data, bounds, history>>

Confirm(p) ==
  /\ At(p, "confirm")
  /\ model' = [job[p].model EXCEPT !.accepted = @ \cup {job[p].target}]
  /\ Ends(p)
  /\ UNCHANGED <<config, rejections, baseline, manifest, data, bounds, history>>

-----------------------------------------------------------------------------
(* reject_candidate and invalidate_rejections_for_source: rejections.json  *)
(* is read, changed and replaced.                                          *)
ReadRejections(p) ==
  /\ At(p, "read")
  /\ job' = [job EXCEPT ![p].noted = rejections, ![p].phase = "write"]
  /\ UNCHANGED <<documents, data, lock, bounds, history>>

Noted(p) ==
  LET c == job[p].target IN
  IF job[p].verb = "reject"
    THEN [job[p].noted EXCEPT ![Home[c]] = @ \cup {<<c, job[p].prints[Home[c]]>>}]
    ELSE [job[p].noted EXCEPT ![c] = {}]

WriteRejections(p) ==
  /\ At(p, "write")
  /\ rejections' = Noted(p)
  /\ Ends(p)
  /\ UNCHANGED <<config, model, baseline, manifest, data, bounds, history>>

-----------------------------------------------------------------------------
(* The source commands: config.yaml first, then, except for `source add`,  *)
(* _invalidate_source_evidence.                                            *)
Updating(s) == \E q \in Users : job[q].verb = "update" /\ job[q].from[s] # None

WriteConfig(p) ==
  /\ At(p, "register")
  /\ LET s == job[p].target IN
       /\ config' = [job[p].config EXCEPT ![s] = job[p].place]
       /\ excused' = IF Updating(s) THEN excused \cup {s} ELSE excused
  /\ IF job[p].verb = "add" THEN Ends(p)
     ELSE Goto(p, "generated") /\ UNCHANGED lock
  /\ UNCHANGED <<model, rejections, baseline, manifest, data, bounds, scanned>>

RemoveGenerated(p) ==
  /\ At(p, "generated")
  /\ manifest' = None
  /\ Goto(p, "baseline")
  /\ UNCHANGED <<config, model, rejections, baseline, data, lock, bounds, history>>

(* Mutant: the baseline is left for `baseline update` to replace.          *)
KeepBaseline(p) ==
  /\ At(p, "baseline")
  /\ Goto(p, "read")
  /\ UNCHANGED <<documents, data, lock, bounds, history>>

UnlinkBaseline(p) ==
  /\ At(p, "baseline")
  /\ baseline' = None
  /\ Goto(p, "read")
  /\ UNCHANGED <<config, model, rejections, manifest, data, lock, bounds, history>>

-----------------------------------------------------------------------------
(* A user adds the entities of a source to model.yaml, or takes them out   *)
(* with their relationships. An edit counts as a command.                  *)
EditModel ==
  /\ commands < MaxCommands
  /\ commands' = commands + 1
  /\ \E s \in Sources :
       model' = IF s \in model.entities
         THEN [entities |-> model.entities \ {s},
               accepted |-> {c \in model.accepted : Home[c] # s}]
         ELSE [model EXCEPT !.entities = @ \cup {s}]
  /\ UNCHANGED <<config, rejections, baseline, manifest, data, lock, job, crashes, history>>

(* Another program writes to a source.                                     *)
WriteSource ==
  /\ \E path \in Places, c \in Contents :
       /\ <<data[path], c>> \in Writes
       /\ data' = [data EXCEPT ![path] = c]
  /\ UNCHANGED <<documents, lock, job, bounds, history>>

(* A process dies; the kernel closes .lock.                                *)
Crash(p) ==
  /\ ~At(p, "idle") /\ crashes < MaxCrashes
  /\ crashes' = crashes + 1
  /\ excused' = IF At(p, "generated") \/ At(p, "baseline")
                  THEN excused \cup {job[p].target} ELSE excused
  /\ Ends(p)
  /\ UNCHANGED <<documents, data, commands, scanned>>

Step(p) ==
  \/ Lock(p) \/ LoadConfig(p) \/ LoadModel(p) \/ Snapshot(p) \/ HideRejected(p)
  \/ Publish(p) \/ UpdateBaseline(p) \/ Decide(p) \/ ReloadModel(p) \/ Confirm(p)
  \/ ReadRejections(p) \/ WriteRejections(p)
  \/ WriteConfig(p) \/ RemoveGenerated(p) \/ UnlinkBaseline(p)

Next ==
  \/ \E p \in Users : Start(p) \/ Step(p) \/ Crash(p)
  \/ EditModel \/ WriteSource

Spec == Init /\ [][Next]_vars

-----------------------------------------------------------------------------
(* Properties.                                                             *)

(* Every variable keeps its kind; above all, model.yaml never holds a      *)
(* relationship without its entities, although accept writes a model that  *)
(* it has read some steps before.                                          *)
GovernanceTypeOK ==
  /\ config \in Configs /\ data \in [Places -> Contents] /\ model \in Models
  /\ rejections \in [Sources -> SUBSET Keys]
  /\ baseline \in Configs \cup {None}
  /\ lock \in Users \cup {None} /\ job \in [Users -> Jobs]
  /\ commands \in 0 .. MaxCommands /\ crashes \in 0 .. MaxCrashes
  /\ excused \subseteq Sources

(* A change of config.yaml changes the one source that its command names:  *)
(* no source command undoes what another one has written since it read     *)
(* config.yaml (_config_lock).                                             *)
NoSourceChangeLost ==
  [][\A s \in Sources : config'[s] # config[s] =>
       \E p \in Users : At(p, "register") /\ job[p].target = s]_vars

(* A candidate is confirmed only on top of a model, and for contents, that *)
(* one complete scan has published together: neither a write to a source   *)
(* nor an edit of model.yaml between the snapshots, the comparison of the  *)
(* manifest and the second reading of the model slips through (accept).    *)
ConfirmedAsScanned ==
  [][\A p \in Users : At(p, "confirm") /\ model' # model /\ ~At(p, "confirm")' =>
       \E m \in scanned :
         /\ m.prints = Listed(job[p].prints)
         /\ model' = [m.model EXCEPT !.accepted = @ \cup {job[p].target}]]_vars

(* While no source command runs, baseline.json was measured where the      *)
(* sources are registered now, unless an update was under way when one of  *)
(* them changed or the command that changed it died (source set, remove).  *)
BaselineFollowsSources ==
  lock = None /\ baseline # None =>
    \A s \in Sources \ excused : baseline[s] # None => baseline[s] = config[s]

(* A relationship once confirmed stays confirmed until a user edits        *)
(* model.yaml: what another accept has confirmed meanwhile is kept, or the *)
(* accept fails.                                                           *)
DecisionsAreKept ==
  [][commands' = commands => model.accepted \subseteq model'.accepted]_vars

=============================================================================
