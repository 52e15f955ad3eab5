-------------------------- MODULE GovernanceProofs --------------------------
(***************************************************************************)
(* Proofs about Governance: no change of config.yaml is lost, model.yaml   *)
(* never holds a relationship without its entities, what is confirmed was  *)
(* published by a scan, and a baseline follows the paths of its sources.   *)
(***************************************************************************)
EXTENDS Governance, TLAPS

(* What the phase of a command says of the rest of its state.              *)
Sane(j) ==
  /\ j.verb \in Decisions => j.target \in Candidates
  /\ j.verb \in SourceCommands => j.target \in Sources
  /\ j.phase \in {"register", "generated", "baseline"} => j.verb \in SourceCommands
  /\ j.phase \in {"read", "write"} => j.verb \in SourceCommands \cup {"reject"}
  /\ j.phase = "hidden" => j.verb \in Decisions
  /\ j.phase \in {"reload", "confirm"} => j.verb = "accept"
  /\ j.phase = "hidden" =>
       \A s \in Sources :
         s \in j.todo /\ (\A t \in j.todo : Position(s) <= Position(t)) =>
           j.prints[s] \in Contents
  /\ j.shown => j.verb \in Decisions /\ j.prints[Home[j.target]] \in Contents
  /\ j.phase \in {"read", "write"} /\ j.verb = "reject" => j.shown
  /\ j.phase = "confirm" => Home[j.target] \in j.model.entities

(* A source command from its lock on, and while it relies on config.yaml.  *)
Locking(j) == j.verb \in SourceCommands /\ j.phase \notin {"idle", "lock"}
Reading(j) == j.verb \in SourceCommands /\ j.phase \in {"model", "register"}

JobInv ==
  /\ job \in [Users -> Jobs]
  /\ \A p \in Users : Sane(job[p])
  /\ \A p \in Users : Locking(job[p]) => lock = p
  /\ \A p \in Users : Reading(job[p]) => job[p].config = config

GovInv == GovernanceTypeOK /\ JobInv

-----------------------------------------------------------------------------
LEMMA IdleIsSane == Idle \in Jobs /\ Sane(Idle) /\ ~Locking(Idle) /\ ~Reading(Idle)
<1>1. NoSources \in Configs /\ NoSources \in Prints /\ NoKeys \in [Sources -> SUBSET Keys]
  BY DEF NoSources, NoKeys, Configs, Prints
<1>2. [entities |-> {}, accepted |-> {}] \in Models
  BY DEF Models
<1>3. Idle \in Jobs
  BY <1>1, <1>2 DEF Idle, Jobs, Phases
<1>4. /\ Idle.verb = None /\ Idle.phase = "idle" /\ Idle.shown = FALSE
  BY DEF Idle
<1>5. None \notin Commands
  BY GovernanceConstants
<1> QED BY <1>3, <1>4, <1>5 DEF Sane, Locking, Reading, Decisions, SourceCommands, Commands

(* A command moves on and keeps hold of the lock, if it has it.            *)
LEMMA Moves ==
  ASSUME JobInv, NEW p \in Users, NEW j \in Jobs, Sane(j),
         job' = [job EXCEPT ![p] = j], UNCHANGED <<config, lock>>,
         Locking(j) => lock = p,
         Reading(j) => j.config = config
  PROVE  JobInv'
<1>1. job' \in [Users -> Jobs] /\ job'[p] = j
  BY DEF JobInv
<1>2. \A q \in Users \ {p} : job'[q] = job[q]
  BY DEF JobInv
<1>3. \A q \in Users : Sane(job'[q])
  BY <1>1, <1>2 DEF JobInv
<1>4. \A q \in Users : Locking(job'[q]) => lock' = q
  BY <1>1, <1>2 DEF JobInv
<1>5. \A q \in Users : Reading(job'[q]) => job'[q].config = config'
  BY <1>1, <1>2 DEF JobInv
<1> QED
  BY <1>1, <1>3, <1>4, <1>5 DEF JobInv, Sane, Locking, Reading

(* A command ends: what it held of the lock goes with it.                  *)
LEMMA EndsKeeps ==
  ASSUME JobInv, lock \in Users \cup {None}, NEW p \in Users, Ends(p), UNCHANGED config
  PROVE  JobInv' /\ lock' \in Users \cup {None}
<1>1. job' \in [Users -> Jobs] /\ job'[p] = Idle
  BY IdleIsSane DEF JobInv, Ends
<1>2. \A q \in Users \ {p} : job'[q] = job[q]
  BY DEF JobInv, Ends
<1>3. \A q \in Users : Sane(job'[q])
  BY <1>1, <1>2, IdleIsSane DEF JobInv
<1>4. \A q \in Users : Locking(job'[q]) => lock' = q
  BY <1>1, <1>2, IdleIsSane DEF JobInv, Ends
<1>5. \A q \in Users : Reading(job'[q]) => job'[q].config = config'
  BY <1>1, <1>2, IdleIsSane DEF JobInv
<1>6. lock' \in Users \cup {None}
  BY DEF Ends
<1> QED
  BY <1>1, <1>3, <1>4, <1>5, <1>6 DEF JobInv, Sane, Locking, Reading

-----------------------------------------------------------------------------
LEMMA StartStep == ASSUME GovInv, NEW p \in Users, Start(p) PROVE GovInv'
<1>0. PICK verb \in Verbs[p] : \E t \in Targets(verb), path \in PathsFor(verb) :
        job' = [job EXCEPT ![p] =
          [Idle EXCEPT !.verb = verb, !.target = t, !.place = path,
             !.phase = IF verb \in SourceCommands THEN "lock" ELSE "config"]]
  BY DEF Start
<1>1. PICK t \in Targets(verb), path \in PathsFor(verb) :
        job' = [job EXCEPT ![p] =
          [Idle EXCEPT !.verb = verb, !.target = t, !.place = path,
             !.phase = IF verb \in SourceCommands THEN "lock" ELSE "config"]]
  BY <1>0
<1> DEFINE j == [Idle EXCEPT !.verb = verb, !.target = t, !.place = path,
                   !.phase = IF verb \in SourceCommands THEN "lock" ELSE "config"]
<1>2. verb \in Commands
  BY <1>1, GovernanceConstants
<1>3. /\ verb \in Decisions => t \in Candidates
      /\ verb \in SourceCommands => t \in Sources
      /\ t \in Candidates \cup Sources \cup {None}
  BY <1>1, <1>2 DEF Targets, Decisions, SourceCommands
<1>4. path \in Places \cup {None}
  BY <1>1 DEF PathsFor
<1>5. j \in Jobs
  BY <1>2, <1>3, <1>4, IdleIsSane DEF Idle, Jobs, Phases
<1>6. /\ j.verb = verb /\ j.target = t /\ j.shown = FALSE
      /\ j.phase = IF verb \in SourceCommands THEN "lock" ELSE "config"
  BY DEF Idle
<1>7. Sane(j)
  BY <1>3, <1>6 DEF Sane
<1>8. ~Locking(j) /\ ~Reading(j)
  BY <1>6 DEF Locking, Reading
<1>9. UNCHANGED <<config, model, rejections, baseline, data, lock, crashes, excused>>
  BY DEF Start, documents, history
<1> HIDE DEF j
<1>10. JobInv'
  BY <1>1, <1>5, <1>7, <1>8, <1>9, Moves DEF GovInv, j
<1>11. commands' \in 0 .. MaxCommands
  BY GovernanceConstants DEF Start, GovInv, GovernanceTypeOK
<1> QED
  BY <1>9, <1>10, <1>11 DEF GovInv, GovernanceTypeOK, JobInv

(* A step of a command that changes no document.                           *)
LEMMA ReadStep ==
  ASSUME GovInv, JobInv', UNCHANGED <<documents, data, bounds, history>>,
         lock' \in Users \cup {None}
  PROVE  GovInv'
  BY DEF GovInv, GovernanceTypeOK, JobInv, documents, bounds, history

LEMMA LockStep == ASSUME GovInv, NEW p \in Users, Lock(p) PROVE GovInv'
<1> DEFINE j == [job[p] EXCEPT !.phase = "config"]
<1>1. job[p] \in Jobs /\ Sane(job[p]) /\ job[p].phase = "lock"
  BY DEF GovInv, JobInv, Lock, At
<1>2. /\ j.phase = "config" /\ j.verb = job[p].verb /\ j.target = job[p].target
      /\ j.shown = job[p].shown /\ j.prints = job[p].prints
  BY <1>1 DEF Jobs
<1>3. j \in Jobs
  BY <1>1 DEF Jobs, Phases
<1>4. Sane(j)
  BY <1>1, <1>2 DEF Sane
<1>5. job' = [job EXCEPT ![p] = j]
  BY DEF Lock, Goto
<1> HIDE DEF j
<1>6. job' \in [Users -> Jobs] /\ job'[p] = j
  BY <1>3, <1>5 DEF GovInv, JobInv
<1>7. \A q \in Users \ {p} : job'[q] = job[q]
  BY <1>5 DEF GovInv, JobInv
<1>8. \A q \in Users \ {p} : ~Locking(job[q]) /\ ~Reading(job[q])
  BY GovernanceConstants DEF GovInv, JobInv, Lock, Locking, Reading
<1>9. \A q \in Users : Sane(job'[q])
  BY <1>4, <1>6, <1>7 DEF GovInv, JobInv
<1>10. \A q \in Users : Locking(job'[q]) => lock' = q
  BY <1>6, <1>7, <1>8 DEF Lock
<1>11. \A q \in Users : ~Reading(job'[q])
  BY <1>2, <1>6, <1>7, <1>8 DEF Reading
<1>12. JobInv'
  BY <1>6, <1>9, <1>10, <1>11 DEF JobInv, Sane, Locking, Reading
<1> QED
  BY <1>12, ReadStep DEF Lock

LEMMA LoadConfigStep == ASSUME GovInv, NEW p \in Users, LoadConfig(p) PROVE GovInv'
<1>1. JobInv /\ lock \in Users \cup {None} /\ config \in Configs
  BY DEF GovInv, GovernanceTypeOK
<1>2. UNCHANGED config
  BY DEF LoadConfig, documents
<1>3. CASE Allowed(p, config)
  <2> DEFINE j == [job[p] EXCEPT !.config = config, !.todo = Registered(config),
                     !.phase = IF job[p].verb \in {"add", "set"} THEN "register" ELSE "model"]
  <2>1. job[p] \in Jobs /\ Sane(job[p]) /\ job[p].phase = "config"
    BY <1>1 DEF JobInv, LoadConfig, At
  <2>2. /\ j.phase = IF job[p].verb \in {"add", "set"} THEN "register" ELSE "model"
        /\ j.verb = job[p].verb /\ j.target = job[p].target
        /\ j.shown = job[p].shown /\ j.prints = job[p].prints /\ j.config = config
    BY <2>1 DEF Jobs
  <2>3. Registered(config) \subseteq Sources
    BY DEF Registered
  <2>4. j \in Jobs
    BY <1>1, <2>1, <2>3 DEF Jobs, Phases
  <2>5. Sane(j)
    BY <2>1, <2>2 DEF Sane, SourceCommands
  <2>6. job' = [job EXCEPT ![p] = j] /\ lock' = lock
    BY <1>3 DEF LoadConfig
  <2>7. Locking(j) => lock = p
    BY <1>1, <2>1, <2>2 DEF JobInv, Locking
  <2> HIDE DEF j
  <2>8. JobInv'
    BY <1>1, <1>2, <2>2, <2>4, <2>5, <2>6, <2>7, Moves
  <2> QED
    BY <1>1, <2>6, <2>8, ReadStep DEF LoadConfig
<1>4. CASE ~Allowed(p, config)
  BY <1>1, <1>2, <1>4, EndsKeeps, ReadStep DEF LoadConfig
<1> QED
  BY <1>3, <1>4

LEMMA LoadModelStep == ASSUME GovInv, NEW p \in Users, LoadModel(p) PROVE GovInv'
<1>1. JobInv /\ lock \in Users \cup {None} /\ model \in Models
  BY DEF GovInv, GovernanceTypeOK
<1>2. UNCHANGED config
  BY DEF LoadModel, documents
<1>3. CASE Fits(p, model)
  <2> DEFINE j == [job[p] EXCEPT !.model = model,
                     !.phase = IF job[p].verb = "remove" THEN "register" ELSE "snapshot"]
  <2>1. job[p] \in Jobs /\ Sane(job[p]) /\ job[p].phase = "model"
    BY <1>1 DEF JobInv, LoadModel, At
  <2>2. /\ j.phase = IF job[p].verb = "remove" THEN "register" ELSE "snapshot"
        /\ j.verb = job[p].verb /\ j.target = job[p].target
        /\ j.shown = job[p].shown /\ j.prints = job[p].prints
        /\ j.config = job[p].config
    BY <2>1 DEF Jobs
  <2>3. j \in Jobs
    BY <1>1, <2>1 DEF Jobs, Phases
  <2>4. Sane(j)
    BY <2>1, <2>2 DEF Sane, SourceCommands
  <2>5. job' = [job EXCEPT ![p] = j] /\ lock' = lock
    BY <1>3 DEF LoadModel
  <2>6. (Locking(j) => lock = p) /\ (Reading(j) => j.config = config)
    BY <1>1, <2>1, <2>2 DEF JobInv, Locking, Reading
  <2> HIDE DEF j
  <2>7. JobInv'
    BY <1>1, <1>2, <2>3, <2>4, <2>5, <2>6, Moves
  <2> QED
    BY <1>1, <2>5, <2>7, ReadStep DEF LoadModel
<1>4. CASE ~Fits(p, model)
  BY <1>1, <1>2, <1>4, EndsKeeps, ReadStep DEF LoadModel
<1> QED
  BY <1>3, <1>4

(* No two sources have the same place in the order of the ids.             *)
LEMMA OneTurn ==
  ASSUME NEW s \in Sources, NEW t \in Sources, Position(s) <= Position(t),
         Position(t) <= Position(s)
  PROVE  s = t
<1>1. ASSUME NEW u \in Sources
      PROVE  Position(u) \in DOMAIN Order /\ Order[Position(u)] = u
  BY DEF Sources, Position
<1>2. DOMAIN Order \subseteq Nat
  BY GovernanceConstants
<1>3. Position(s) = Position(t)
  BY <1>1, <1>2
<1> QED
  BY <1>1, <1>3

LEMMA SnapshotStep == ASSUME GovInv, NEW p \in Users, Snapshot(p) PROVE GovInv'
<1>1. /\ JobInv /\ lock \in Users \cup {None} /\ config \in Configs
      /\ data \in [Places -> Contents]
  BY DEF GovInv, GovernanceTypeOK
<1>2. UNCHANGED config
  BY DEF Snapshot, documents
<1>3. PICK s \in Sources :
        /\ Turn(p, s)
        /\ IF config[s] = None THEN Ends(p)
           ELSE /\ job' = [job EXCEPT
                     ![p].from[s] = config[s],
                     ![p].prints[s] = data[config[s]],
                     ![p].phase = IF job[p].verb \in Decisions THEN "hidden" ELSE @,
                     ![p].todo = IF job[p].verb \in Decisions THEN @ ELSE @ \ {s}]
                /\ UNCHANGED lock
  BY DEF Snapshot
<1>4. CASE config[s] = None
  BY <1>1, <1>2, <1>3, <1>4, EndsKeeps, ReadStep DEF Snapshot
<1>5. CASE config[s] # None
  <2> DEFINE j == [job[p] EXCEPT
                     !.from[s] = config[s], !.prints[s] = data[config[s]],
                     !.phase = IF job[p].verb \in Decisions THEN "hidden" ELSE @,
                     !.todo = IF job[p].verb \in Decisions THEN @ ELSE @ \ {s}]
  <2>1. job[p] \in Jobs /\ Sane(job[p]) /\ job[p].phase = "snapshot"
    BY <1>1 DEF JobInv, Snapshot, At
  <2>2. config[s] \in Places /\ data[config[s]] \in Contents
    BY <1>1, <1>5 DEF Configs
  <2>3. /\ j.phase = IF job[p].verb \in Decisions THEN "hidden" ELSE "snapshot"
        /\ j.verb = job[p].verb /\ j.target = job[p].target
        /\ j.todo = IF job[p].verb \in Decisions THEN job[p].todo ELSE job[p].todo \ {s}
        /\ j.shown = job[p].shown /\ j.config = job[p].config
        /\ j.prints = [job[p].prints EXCEPT ![s] = data[config[s]]]
        /\ j.from = [job[p].from EXCEPT ![s] = config[s]]
    BY <2>1 DEF Jobs
  <2>4. j.prints \in Prints /\ j.prints[s] = data[config[s]] /\ j.from \in Configs
    BY <2>1, <2>2, <2>3 DEF Jobs, Prints, Configs
  <2>5. j \in Jobs
    BY <2>1, <2>3, <2>4 DEF Jobs, Phases
  <2>6. \A u \in Sources : j.prints[u] \in Contents \/ j.prints[u] = job[p].prints[u]
    BY <2>1, <2>2, <2>3, <2>4 DEF Jobs, Prints
  <2>7. ASSUME NEW t \in Sources, t \in j.todo, \A u \in j.todo : Position(t) <= Position(u),
               j.verb \in Decisions
        PROVE  j.prints[t] \in Contents
    <3>1. s \in j.todo /\ \A u \in j.todo : Position(s) <= Position(u)
      BY <1>3, <2>3, <2>7 DEF Turn
    <3>2. s = t
      BY <2>7, <3>1, OneTurn
    <3> QED
      BY <2>2, <2>4, <3>2
  <2>8. ASSUME j.shown
        PROVE  j.verb \in Decisions /\ j.prints[Home[j.target]] \in Contents
    <3>1. /\ job[p].verb \in Decisions /\ job[p].target \in Candidates
          /\ job[p].prints[Home[job[p].target]] \in Contents
      BY <2>1, <2>3, <2>8 DEF Sane
    <3>2. Home[job[p].target] \in Sources
      BY <3>1, GovernanceConstants
    <3> QED
      BY <2>3, <2>6, <3>1, <3>2
  <2>9. Sane(j)
    BY <2>1, <2>3, <2>7, <2>8 DEF Sane
  <2>10. job' = [job EXCEPT ![p] = j] /\ lock' = lock
    BY <1>3, <1>5
  <2>11. (Locking(j) => lock = p) /\ ~Reading(j)
    BY <1>1, <2>1, <2>3 DEF JobInv, Locking, Reading
  <2> HIDE DEF j
  <2>12. JobInv'
    BY <1>1, <1>2, <2>5, <2>9, <2>10, <2>11, Moves
  <2> QED
    BY <1>1, <2>10, <2>12, ReadStep DEF Snapshot
<1> QED
  BY <1>4, <1>5

LEMMA HideRejectedStep == ASSUME GovInv, NEW p \in Users, HideRejected(p) PROVE GovInv'
<1>1. JobInv /\ lock \in Users \cup {None}
  BY DEF GovInv, GovernanceTypeOK
<1>2. UNCHANGED <<config, lock>>
  BY DEF HideRejected, documents
<1>3. PICK s \in Sources :
        /\ Turn(p, s)
        /\ job' = [job EXCEPT
             ![p].shown = @ \/ /\ Home[job[p].target] = s
                               /\ job[p].target \in Discovered[job[p].prints[s]]
                               /\ <<job[p].target, job[p].prints[s]>> \notin rejections[s],
             ![p].todo = @ \ {s}, ![p].phase = "snapshot"]
  BY DEF HideRejected
<1> DEFINE found == /\ Home[job[p].target] = s
                    /\ job[p].target \in Discovered[job[p].prints[s]]
                    /\ <<job[p].target, job[p].prints[s]>> \notin rejections[s]
           j == [job[p] EXCEPT !.shown = @ \/ found,
                               !.todo = @ \ {s}, !.phase = "snapshot"]
<1>4. job[p] \in Jobs /\ Sane(job[p]) /\ job[p].phase = "hidden"
  BY <1>1 DEF JobInv, HideRejected, At
<1>5. /\ j.phase = "snapshot" /\ j.verb = job[p].verb /\ j.target = job[p].target
      /\ j.prints = job[p].prints
  BY <1>4 DEF Jobs
<1>6. j.shown = (job[p].shown \/ found) /\ j.shown \in BOOLEAN
  BY <1>4 DEF Jobs
<1>7. j \in Jobs
  <2>1. job[p].todo \ {s} \in SUBSET Sources
    BY <1>4 DEF Jobs
  <2>2. (job[p].shown \/ found) \in BOOLEAN
    OBVIOUS
  <2> HIDE DEF found
  <2> QED
    BY <1>4, <2>1, <2>2 DEF Jobs, Phases
<1>8. job[p].verb \in Decisions /\ job[p].prints[s] \in Contents
  BY <1>3, <1>4 DEF Sane, Turn
<1>9. j.shown => job[p].prints[Home[job[p].target]] \in Contents
  BY <1>4, <1>6, <1>8 DEF Sane
<1> HIDE DEF found, j
<1>10. Sane(j)
  BY <1>4, <1>5, <1>8, <1>9 DEF Sane
<1>11. job' = [job EXCEPT ![p] = j]
  BY <1>3 DEF j, found
<1>12. ~Locking(j) /\ ~Reading(j)
  BY <1>5, <1>8 DEF Locking, Reading, Decisions, SourceCommands
<1>13. JobInv'
  BY <1>1, <1>2, <1>7, <1>10, <1>11, <1>12, Moves
<1> QED
  BY <1>1, <1>2, <1>13, ReadStep DEF HideRejected

LEMMA PublishStep == ASSUME GovInv, NEW p \in Users, Publish(p) PROVE GovInv'
<1>1. JobInv /\ lock \in Users \cup {None} /\ Ends(p)
  BY DEF GovInv, GovernanceTypeOK, Publish
<1>2. UNCHANGED <<config, model, rejections, baseline, data, bounds, excused>>
  BY DEF Publish
<1>3. JobInv' /\ lock' \in Users \cup {None}
  BY <1>1, <1>2, EndsKeeps
<1> QED
  BY <1>2, <1>3 DEF GovInv, GovernanceTypeOK, JobInv, bounds

LEMMA UpdateBaselineStep == ASSUME GovInv, NEW p \in Users, UpdateBaseline(p) PROVE GovInv'
<1>1. JobInv /\ lock \in Users \cup {None} /\ Ends(p)
  BY DEF GovInv, GovernanceTypeOK, UpdateBaseline
<1>2. UNCHANGED <<config, model, rejections, data, bounds, excused>>
  BY DEF UpdateBaseline, history
<1>3. JobInv' /\ lock' \in Users \cup {None}
  BY <1>1, <1>2, EndsKeeps
<1>4. job[p].from \in Configs
  BY <1>1 DEF JobInv, Jobs
<1>5. baseline' \in Configs \cup {None}
  BY <1>4 DEF UpdateBaseline, GovInv, GovernanceTypeOK
<1> QED
  BY <1>2, <1>3, <1>5 DEF GovInv, GovernanceTypeOK, JobInv, bounds

LEMMA DecideStep == ASSUME GovInv, NEW p \in Users, Decide(p) PROVE GovInv'
<1>1. JobInv /\ lock \in Users \cup {None}
  BY DEF GovInv, GovernanceTypeOK
<1>2. UNCHANGED config
  BY DEF Decide, documents
<1>3. CASE manifest # None /\ manifest = Stamp(p) /\ job[p].shown
  <2> DEFINE phase == IF job[p].verb = "accept" THEN "reload" ELSE "read"
             j == [job[p] EXCEPT !.phase = phase]
  <2>1. job[p] \in Jobs /\ Sane(job[p]) /\ job[p].verb \in {"accept", "reject"}
    BY <1>1 DEF JobInv, Decide, Decisions
  <2>2. /\ j.phase = phase /\ j.verb = job[p].verb /\ j.target = job[p].target
        /\ j.shown = job[p].shown /\ j.prints = job[p].prints
    BY <2>1 DEF Jobs
  <2>3. j \in Jobs
    BY <2>1 DEF Jobs, Phases
  <2>4. Sane(j)
    BY <1>3, <2>1, <2>2 DEF Sane
  <2>5. job' = [job EXCEPT ![p] = j] /\ lock' = lock
    BY <1>3 DEF Decide, Goto
  <2>6. ~Locking(j) /\ ~Reading(j)
    BY <2>1, <2>2 DEF Locking, Reading, SourceCommands
  <2> HIDE DEF j
  <2>7. JobInv'
    BY <1>1, <1>2, <2>3, <2>4, <2>5, <2>6, Moves
  <2> QED
    BY <1>1, <2>5, <2>7, ReadStep DEF Decide
<1>4. CASE ~(manifest # None /\ manifest = Stamp(p) /\ job[p].shown)
  BY <1>1, <1>2, <1>4, EndsKeeps, ReadStep DEF Decide
<1> QED
  BY <1>3, <1>4

LEMMA ReloadModelStep == ASSUME GovInv, NEW p \in Users, ReloadModel(p) PROVE GovInv'
<1>1. JobInv /\ lock \in Users \cup {None} /\ model \in Models
  BY DEF GovInv, GovernanceTypeOK
<1>2. UNCHANGED config
  BY DEF ReloadModel, documents
<1>3. CASE Acceptable(p, model)
  <2> DEFINE j == [job[p] EXCEPT !.model = model, !.phase = "confirm"]
  <2>1. job[p] \in Jobs /\ Sane(job[p]) /\ job[p].phase = "reload"
    BY <1>1 DEF JobInv, ReloadModel, At
  <2>2. /\ j.phase = "confirm" /\ j.verb = job[p].verb /\ j.target = job[p].target
        /\ j.shown = job[p].shown /\ j.prints = job[p].prints /\ j.model = model
    BY <2>1 DEF Jobs
  <2>3. j \in Jobs
    BY <1>1, <2>1 DEF Jobs, Phases
  <2>4. Sane(j)
    BY <1>3, <2>1, <2>2 DEF Sane, Acceptable
  <2>5. job' = [job EXCEPT ![p] = j] /\ lock' = lock
    BY <1>3 DEF ReloadModel
  <2>6. ~Locking(j) /\ ~Reading(j)
    BY <2>1, <2>2 DEF Sane, Locking, Reading, SourceCommands
  <2> HIDE DEF j
  <2>7. JobInv'
    BY <1>1, <1>2, <2>3, <2>4, <2>5, <2>6, Moves
  <2> QED
    BY <1>1, <2>5, <2>7, ReadStep DEF ReloadModel
<1>4. CASE ~Acceptable(p, model)
  BY <1>1, <1>2, <1>4, EndsKeeps, ReadStep DEF ReloadModel
<1> QED
  BY <1>3, <1>4

LEMMA ConfirmStep == ASSUME GovInv, NEW p \in Users, Confirm(p) PROVE GovInv'
<1>1. JobInv /\ lock \in Users \cup {None} /\ Ends(p)
  BY DEF GovInv, GovernanceTypeOK, Confirm
<1>2. UNCHANGED <<config, rejections, baseline, data, bounds, history>>
  BY DEF Confirm
<1>3. JobInv' /\ lock' \in Users \cup {None}
  BY <1>1, <1>2, EndsKeeps
<1>4. /\ job[p].model \in Models /\ job[p].target \in Candidates
      /\ Home[job[p].target] \in job[p].model.entities
  BY <1>1 DEF JobInv, Jobs, Sane, Confirm, At, Decisions
<1>5. model' = [job[p].model EXCEPT !.accepted = @ \cup {job[p].target}]
  BY DEF Confirm
<1>6. model' \in Models
  BY <1>4, <1>5 DEF Models
<1> QED
  BY <1>2, <1>3, <1>6 DEF GovInv, GovernanceTypeOK, JobInv, bounds, history

LEMMA ReadRejectionsStep == ASSUME GovInv, NEW p \in Users, ReadRejections(p) PROVE GovInv'
<1> DEFINE j == [job[p] EXCEPT !.noted = rejections, !.phase = "write"]
<1>1. /\ JobInv /\ lock \in Users \cup {None}
      /\ rejections \in [Sources -> SUBSET Keys]
  BY DEF GovInv, GovernanceTypeOK
<1>2. UNCHANGED <<config, lock>>
  BY DEF ReadRejections, documents
<1>3. job[p] \in Jobs /\ Sane(job[p]) /\ job[p].phase = "read"
  BY <1>1 DEF JobInv, ReadRejections, At
<1>4. /\ j.phase = "write" /\ j.verb = job[p].verb /\ j.target = job[p].target
      /\ j.shown = job[p].shown /\ j.prints = job[p].prints
  BY <1>3 DEF Jobs
<1>5. j \in Jobs
  BY <1>1, <1>3 DEF Jobs, Phases
<1>6. Sane(j)
  BY <1>3, <1>4 DEF Sane
<1>7. (Locking(j) => lock = p) /\ ~Reading(j)
  BY <1>1, <1>3, <1>4 DEF JobInv, Locking, Reading
<1>8. job' = [job EXCEPT ![p] = j]
  BY DEF ReadRejections
<1> HIDE DEF j
<1>9. JobInv'
  BY <1>1, <1>2, <1>5, <1>6, <1>7, <1>8, Moves
<1> QED
  BY <1>1, <1>2, <1>9, ReadStep DEF ReadRejections

LEMMA WriteRejectionsStep == ASSUME GovInv, NEW p \in Users, WriteRejections(p) PROVE GovInv'
<1>1. JobInv /\ lock \in Users \cup {None} /\ Ends(p)
  BY DEF GovInv, GovernanceTypeOK, WriteRejections
<1>2. UNCHANGED <<config, model, baseline, data, bounds, history>>
  BY DEF WriteRejections
<1>3. JobInv' /\ lock' \in Users \cup {None}
  BY <1>1, <1>2, EndsKeeps
<1>4. /\ job[p].noted \in [Sources -> SUBSET Keys] /\ Sane(job[p])
      /\ job[p].phase = "write"
  BY <1>1 DEF JobInv, Jobs, WriteRejections, At
<1>5. CASE job[p].verb = "reject"
  <2>1. job[p].target \in Candidates /\ job[p].prints[Home[job[p].target]] \in Contents
    BY <1>4, <1>5 DEF Sane, Decisions
  <2>2. {<<job[p].target, job[p].prints[Home[job[p].target]]>>} \in SUBSET Keys
    BY <2>1 DEF Keys
  <2> QED
    BY <1>2, <1>3, <1>4, <1>5, <2>2
    DEF WriteRejections, Noted, GovInv, GovernanceTypeOK, JobInv, bounds, history
<1>6. CASE job[p].verb # "reject"
  <2>1. rejections' = [job[p].noted EXCEPT ![job[p].target] = {}]
    BY <1>6 DEF WriteRejections, Noted
  <2>2. rejections' \in [Sources -> SUBSET Keys]
    BY <1>4, <2>1
  <2> QED
    BY <1>2, <1>3, <2>2 DEF GovInv, GovernanceTypeOK, JobInv, bounds, history
<1> QED
  BY <1>5, <1>6

(* Where config.yaml is written, its writer holds the lock and has read it *)
(* as it still is.                                                         *)
LEMMA WriteConfigFacts ==
  ASSUME GovInv, NEW p \in Users, WriteConfig(p)
  PROVE  /\ job[p].verb \in SourceCommands /\ job[p].target \in Sources
         /\ lock = p /\ job[p].config = config
         /\ config' = [config EXCEPT ![job[p].target] = job[p].place]
         /\ job[p].place \in Places \cup {None}
<1>1. job[p] \in Jobs /\ Sane(job[p]) /\ job[p].phase = "register"
  BY DEF GovInv, JobInv, WriteConfig, At
<1>2. job[p].verb \in SourceCommands /\ job[p].target \in Sources
  BY <1>1 DEF Sane
<1>3. lock = p /\ job[p].config = config
  BY <1>1, <1>2 DEF GovInv, JobInv, Locking, Reading
<1>4. job[p].place \in Places \cup {None}
  BY <1>1 DEF Jobs
<1> QED
  BY <1>2, <1>3, <1>4 DEF WriteConfig

LEMMA WriteConfigStep == ASSUME GovInv, NEW p \in Users, WriteConfig(p) PROVE GovInv'
<1>1. /\ JobInv /\ lock \in Users \cup {None} /\ config \in Configs
      /\ excused \subseteq Sources
  BY DEF GovInv, GovernanceTypeOK
<1>2. UNCHANGED <<model, rejections, baseline, data, bounds>>
  BY DEF WriteConfig
<1>3. config' \in Configs
  BY <1>1, WriteConfigFacts DEF Configs
<1>4. excused' \subseteq Sources
  BY <1>1, WriteConfigFacts DEF WriteConfig
<1>5. \A q \in Users \ {p} : ~Locking(job[q]) /\ ~Reading(job[q])
  BY <1>1, WriteConfigFacts DEF JobInv, Locking, Reading
<1>6. /\ job' \in [Users -> Jobs] /\ lock' \in Users \cup {None}
      /\ \A q \in Users \ {p} : job'[q] = job[q]
      /\ Sane(job'[p]) /\ ~Reading(job'[p])
      /\ Locking(job'[p]) => lock' = p
  <2>1. CASE Ends(p)
    BY <1>1, <2>1, IdleIsSane DEF Ends, JobInv
  <2>2. CASE Goto(p, "generated") /\ UNCHANGED lock
    <3> DEFINE j == [job[p] EXCEPT !.phase = "generated"]
    <3>1. job[p] \in Jobs /\ Sane(job[p])
      BY <1>1 DEF JobInv
    <3>2. /\ j.phase = "generated" /\ j.verb = job[p].verb /\ j.target = job[p].target
          /\ j.shown = job[p].shown /\ j.prints = job[p].prints
      BY <3>1 DEF Jobs
    <3>3. j \in Jobs
      BY <3>1 DEF Jobs, Phases
    <3>4. Sane(j)
      BY <3>1, <3>2, WriteConfigFacts DEF Sane
    <3>5. job' = [job EXCEPT ![p] = j]
      BY <2>2 DEF Goto
    <3>6. ~Reading(j)
      BY <3>2 DEF Reading
    <3> HIDE DEF j
    <3> QED
      BY <1>1, <2>2, <3>3, <3>4, <3>5, <3>6, WriteConfigFacts DEF JobInv
  <2> QED
    BY <2>1, <2>2 DEF WriteConfig
<1>7. JobInv'
  <2>1. \A q \in Users : Sane(job'[q])
    BY <1>1, <1>6 DEF JobInv
  <2>2. \A q \in Users : Locking(job'[q]) => lock' = q
    BY <1>5, <1>6
  <2>3. \A q \in Users : ~Reading(job'[q])
    BY <1>5, <1>6
  <2> QED
    BY <1>6, <2>1, <2>2, <2>3 DEF JobInv, Sane, Locking, Reading
<1> QED
  BY <1>2, <1>3, <1>4, <1>6, <1>7 DEF GovInv, GovernanceTypeOK, JobInv, bounds

LEMMA RemoveGeneratedStep == ASSUME GovInv, NEW p \in Users, RemoveGenerated(p) PROVE GovInv'
<1> DEFINE j == [job[p] EXCEPT !.phase = "baseline"]
<1>1. JobInv /\ lock \in Users \cup {None}
  BY DEF GovInv, GovernanceTypeOK
<1>2. UNCHANGED <<config, model, rejections, data, lock, bounds, history>>
  BY DEF RemoveGenerated
<1>3. job[p] \in Jobs /\ Sane(job[p]) /\ job[p].phase = "generated"
  BY <1>1 DEF JobInv, RemoveGenerated, At
<1>4. /\ j.phase = "baseline" /\ j.verb = job[p].verb /\ j.target = job[p].target
      /\ j.shown = job[p].shown /\ j.prints = job[p].prints
  BY <1>3 DEF Jobs
<1>5. j \in Jobs
  BY <1>3 DEF Jobs, Phases
<1>6. job[p].verb \in SourceCommands /\ lock = p
  BY <1>1, <1>3 DEF JobInv, Sane, Locking
<1>7. Sane(j)
  BY <1>3, <1>4, <1>6 DEF Sane, SourceCommands
<1>8. ~Reading(j)
  BY <1>4 DEF Reading
<1>9. job' = [job EXCEPT ![p] = j]
  BY DEF RemoveGenerated, Goto
<1> HIDE DEF j
<1>10. JobInv'
  BY <1>1, <1>2, <1>5, <1>6, <1>7, <1>8, <1>9, Moves
<1> QED
  BY <1>2, <1>10 DEF RemoveGenerated, GovInv, GovernanceTypeOK, JobInv, bounds, history

LEMMA UnlinkBaselineStep == ASSUME GovInv, NEW p \in Users, UnlinkBaseline(p) PROVE GovInv'
<1> DEFINE j == [job[p] EXCEPT !.phase = "read"]
<1>1. JobInv /\ lock \in Users \cup {None}
  BY DEF GovInv, GovernanceTypeOK
<1>2. UNCHANGED <<config, model, rejections, data, lock, bounds, history>>
  BY DEF UnlinkBaseline
<1>3. job[p] \in Jobs /\ Sane(job[p]) /\ job[p].phase = "baseline"
  BY <1>1 DEF JobInv, UnlinkBaseline, At
<1>4. /\ j.phase = "read" /\ j.verb = job[p].verb /\ j.target = job[p].target
      /\ j.shown = job[p].shown /\ j.prints = job[p].prints
  BY <1>3 DEF Jobs
<1>5. j \in Jobs
  BY <1>3 DEF Jobs, Phases
<1>6. job[p].verb \in SourceCommands /\ lock = p
  BY <1>1, <1>3 DEF JobInv, Sane, Locking
<1>7. Sane(j)
  BY <1>3, <1>4, <1>6 DEF Sane, SourceCommands
<1>8. ~Reading(j)
  BY <1>4 DEF Reading
<1>9. job' = [job EXCEPT ![p] = j]
  BY DEF UnlinkBaseline, Goto
<1> HIDE DEF j
<1>10. JobInv'
  BY <1>1, <1>2, <1>5, <1>6, <1>7, <1>8, <1>9, Moves
<1> QED
  BY <1>2, <1>10 DEF UnlinkBaseline, GovInv, GovernanceTypeOK, JobInv, bounds, history

LEMMA EditModelStep == ASSUME GovInv, EditModel PROVE GovInv'
<1>1. PICK s \in Sources :
        model' = IF s \in model.entities
          THEN [entities |-> model.entities \ {s},
                accepted |-> {c \in model.accepted : Home[c] # s}]
          ELSE [model EXCEPT !.entities = @ \cup {s}]
  BY DEF EditModel
<1>2. model' \in Models
  BY <1>1 DEF Models, GovInv, GovernanceTypeOK
<1>3. commands' \in 0 .. MaxCommands
  BY GovernanceConstants DEF EditModel, GovInv, GovernanceTypeOK
<1> QED
  BY <1>2, <1>3 DEF EditModel, GovInv, GovernanceTypeOK, JobInv, history

LEMMA WriteSourceStep == ASSUME GovInv, WriteSource PROVE GovInv'
<1>1. data' \in [Places -> Contents]
  BY DEF WriteSource, GovInv, GovernanceTypeOK
<1> QED
  BY <1>1 DEF WriteSource, GovInv, GovernanceTypeOK, JobInv, documents, bounds, history

LEMMA CrashStep == ASSUME GovInv, NEW p \in Users, Crash(p) PROVE GovInv'
<1>1. JobInv /\ lock \in Users \cup {None} /\ Ends(p) /\ excused \subseteq Sources
  BY DEF GovInv, GovernanceTypeOK, Crash
<1>2. UNCHANGED <<config, model, rejections, baseline, data, commands>>
  BY DEF Crash, documents
<1>3. JobInv' /\ lock' \in Users \cup {None}
  BY <1>1, <1>2, EndsKeeps
<1>4. At(p, "generated") \/ At(p, "baseline") => job[p].target \in Sources
  BY <1>1 DEF JobInv, Sane, At
<1>5. excused' \subseteq Sources
  BY <1>1, <1>4 DEF Crash
<1>6. crashes' \in 0 .. MaxCrashes
  BY GovernanceConstants DEF Crash, GovInv, GovernanceTypeOK
<1> QED
  BY <1>2, <1>3, <1>5, <1>6 DEF GovInv, GovernanceTypeOK, JobInv

-----------------------------------------------------------------------------
LEMMA GovInit == Init => GovInv
<1> SUFFICES ASSUME Init PROVE GovInv
  OBVIOUS
<1>1. job \in [Users -> Jobs] /\ \A p \in Users : job[p] = Idle
  BY IdleIsSane DEF Init
<1>2. JobInv
  BY <1>1, IdleIsSane DEF JobInv
<1>3. NoKeys \in [Sources -> SUBSET Keys]
  BY DEF NoKeys
<1>4. config \in Configs /\ data \in [Places -> Contents] /\ model \in Models
  BY GovernanceConstants DEF Init
<1>5. 0 \in 0 .. MaxCommands /\ 0 \in 0 .. MaxCrashes
  BY GovernanceConstants
<1> QED
  BY <1>1, <1>2, <1>3, <1>4, <1>5 DEF Init, GovInv, GovernanceTypeOK

LEMMA GovNext == GovInv /\ [Next]_vars => GovInv'
<1> SUFFICES ASSUME GovInv, [Next]_vars PROVE GovInv'
  OBVIOUS
<1>1. CASE UNCHANGED vars
  BY <1>1 DEF GovInv, GovernanceTypeOK, JobInv, vars, documents, bounds, history
<1>2. ASSUME NEW p \in Users, Start(p) \/ Step(p) \/ Crash(p)
      PROVE  GovInv'
  BY <1>2, StartStep, LockStep, LoadConfigStep, LoadModelStep, SnapshotStep,
     HideRejectedStep, PublishStep, UpdateBaselineStep, DecideStep, ReloadModelStep,
     ConfirmStep, ReadRejectionsStep, WriteRejectionsStep, WriteConfigStep,
     RemoveGeneratedStep, UnlinkBaselineStep, CrashStep DEF Step
<1> QED
  BY <1>1, <1>2, EditModelStep, WriteSourceStep DEF Next

(* Every variable keeps its kind, and model.yaml never holds a             *)
(* relationship without its entities, whatever accepts, edits and deaths   *)
(* of processes interleave.                                                *)
THEOREM ModelKeepsItsKind == Spec => []GovernanceTypeOK
<1>1. GovInv => GovernanceTypeOK
  BY DEF GovInv
<1> QED
  BY <1>1, GovInit, GovNext, PTL DEF Spec

(* No source command undoes a change that another one has made to          *)
(* config.yaml: the lock is held from before config.yaml is read until     *)
(* after it is replaced.                                                   *)
THEOREM SourceChangesAreKept == Spec => NoSourceChangeLost
<1> DEFINE Kept == \A s \in Sources : config'[s] # config[s] =>
                     \E p \in Users : At(p, "register") /\ job[p].target = s
<1>1. GovInv /\ [Next]_vars => Kept \/ UNCHANGED vars
  <2> SUFFICES ASSUME GovInv, [Next]_vars PROVE Kept \/ UNCHANGED vars
    OBVIOUS
  <2>1. ASSUME NEW p \in Users, WriteConfig(p) PROVE Kept
    BY <2>1, WriteConfigFacts DEF WriteConfig, GovInv, GovernanceTypeOK, Configs
  <2>2. ASSUME UNCHANGED config PROVE Kept
    BY <2>2
  <2>3. (\E p \in Users : WriteConfig(p)) \/ UNCHANGED config
    BY DEF Next, Step, vars, documents, Start, Lock, LoadConfig, LoadModel, Snapshot,
       HideRejected, Publish, UpdateBaseline, Decide, ReloadModel, Confirm,
       ReadRejections, WriteRejections, RemoveGenerated, UnlinkBaseline, EditModel,
       WriteSource, Crash
  <2> QED
    BY <2>1, <2>2, <2>3
<1> QED
  BY <1>1, GovInit, GovNext, PTL DEF Spec, NoSourceChangeLost

-----------------------------------------------------------------------------
(* A command at work on its decision compared what it had read with the    *)
(* manifest of a scan, and nothing it has read has changed since.          *)
ScanInv ==
  /\ manifest \in scanned \cup {None}
  /\ \A p \in Users : job[p].phase \in {"reload", "confirm"} => Stamp(p) \in scanned

(* A step of one command leaves the others where they are.                 *)
LEMMA OthersStay ==
  ASSUME GovInv, NEW p \in Users, Start(p) \/ Step(p) \/ Crash(p)
  PROVE  \A q \in Users \ {p} : job'[q] = job[q]
<1> USE DEF GovInv, JobInv
<1>1. CASE Start(p)
  BY <1>1 DEF Start
<1>2. CASE Crash(p)
  BY <1>2 DEF Crash, Ends
<1>3. CASE Lock(p) \/ LoadConfig(p) \/ LoadModel(p) \/ HideRejected(p) \/ Decide(p)
  BY <1>3 DEF Lock, LoadConfig, LoadModel, HideRejected, Decide, Goto, Ends
<1>4. CASE Snapshot(p)
  BY <1>4 DEF Snapshot, Ends
<1>5. CASE Publish(p) \/ UpdateBaseline(p) \/ ReloadModel(p) \/ Confirm(p)
  BY <1>5 DEF Publish, UpdateBaseline, ReloadModel, Confirm, Ends
<1>6. CASE \/ ReadRejections(p) \/ WriteRejections(p)
           \/ WriteConfig(p) \/ RemoveGenerated(p) \/ UnlinkBaseline(p)
  BY <1>6 DEF ReadRejections, WriteRejections, WriteConfig, RemoveGenerated,
     UnlinkBaseline, Goto, Ends
<1> QED
  BY <1>1, <1>2, <1>3, <1>4, <1>5, <1>6 DEF Step

(* Where a command that decides can have come from.                        *)
LEMMA DecidingFrom ==
  ASSUME GovInv, NEW p \in Users, Start(p) \/ Step(p) \/ Crash(p),
         job'[p].phase \in {"reload", "confirm"}
  PROVE  Decide(p) \/ ReloadModel(p)
<1>1. job \in [Users -> Jobs]
  BY DEF GovInv, JobInv
<1>2. ~Ends(p)
  BY <1>1 DEF Ends, Idle
<1>3. CASE Start(p)
  BY <1>1, <1>3 DEF Start, Idle
<1>4. CASE Crash(p) \/ Publish(p) \/ UpdateBaseline(p) \/ Confirm(p) \/ WriteRejections(p)
  BY <1>2, <1>4 DEF Crash, Publish, UpdateBaseline, Confirm, WriteRejections
<1>5. CASE Lock(p) \/ LoadConfig(p) \/ LoadModel(p)
  BY <1>1, <1>2, <1>5 DEF Lock, LoadConfig, LoadModel, Goto, Jobs
<1>6. CASE Snapshot(p)
  <2>1. PICK s \in Sources :
          job' = [job EXCEPT
            ![p].from[s] = config[s],
            ![p].prints[s] = data[config[s]],
            ![p].phase = IF job[p].verb \in Decisions THEN "hidden" ELSE @,
            ![p].todo = IF job[p].verb \in Decisions THEN @ ELSE @ \ {s}]
    BY <1>2, <1>6 DEF Snapshot
  <2>2. job[p].phase = "snapshot"
    BY <1>6 DEF Snapshot, At
  <2> QED
    BY <1>1, <2>1, <2>2 DEF Jobs
<1>7. CASE HideRejected(p)
  BY <1>1, <1>7 DEF HideRejected, Jobs
<1>8. CASE \/ ReadRejections(p) \/ WriteConfig(p) \/ RemoveGenerated(p)
           \/ UnlinkBaseline(p)
  BY <1>1, <1>2, <1>8 DEF ReadRejections, WriteConfig, RemoveGenerated, UnlinkBaseline,
     Goto, Jobs
<1> QED
  BY <1>3, <1>4, <1>5, <1>6, <1>7, <1>8 DEF Step

LEMMA ScanInvStep ==
  ASSUME GovInv, ScanInv, NEW p \in Users, Start(p) \/ Step(p) \/ Crash(p)
  PROVE  ScanInv'
<1>1. job \in [Users -> Jobs] /\ \A q \in Users \ {p} : job'[q] = job[q]
  BY OthersStay DEF GovInv, JobInv
<1>2. scanned \subseteq scanned' /\ manifest' \in scanned' \cup {None}
  <2>1. CASE Publish(p)
    BY <2>1 DEF Publish
  <2>2. CASE RemoveGenerated(p)
    BY <2>2 DEF RemoveGenerated, ScanInv, history
  <2>3. CASE ~Publish(p) /\ ~RemoveGenerated(p)
    <3>1. UNCHANGED <<scanned, manifest>>
      BY <2>3 DEF Start, Step, Crash, Lock, LoadConfig, LoadModel, Snapshot, HideRejected,
         UpdateBaseline, Decide, ReloadModel, Confirm, ReadRejections, WriteRejections,
         WriteConfig, UnlinkBaseline, documents, history
    <3> QED
      BY <3>1 DEF ScanInv
  <2> QED
    BY <2>1, <2>2, <2>3
<1>3. ASSUME job'[p].phase \in {"reload", "confirm"}
      PROVE  Stamp(p)' \in scanned'
  <2>1. CASE Decide(p)
    <3>1. /\ manifest # None /\ manifest = Stamp(p)
          /\ job' = [job EXCEPT ![p].phase = IF job[p].verb = "accept" THEN "reload" ELSE "read"]
      BY <1>1, <1>3, <2>1 DEF Decide, Goto, Ends, Idle
    <3>2. job'[p].prints = job[p].prints /\ job'[p].model = job[p].model
      BY <1>1, <3>1 DEF Jobs
    <3> QED
      BY <1>2, <3>1, <3>2 DEF ScanInv, Stamp
  <2>2. CASE ReloadModel(p)
    <3>1. /\ job[p].phase = "reload" /\ model = job[p].model
          /\ job' = [job EXCEPT ![p].model = model, ![p].phase = "confirm"]
      BY <1>1, <1>3, <2>2 DEF ReloadModel, Acceptable, At, Ends, Idle
    <3>2. job'[p].prints = job[p].prints /\ job'[p].model = job[p].model
      BY <1>1, <3>1 DEF Jobs
    <3> QED
      BY <1>2, <3>1, <3>2 DEF ScanInv, Stamp
  <2> QED
    BY <1>3, <2>1, <2>2, DecidingFrom
<1>4. ASSUME NEW q \in Users \ {p}, job'[q].phase \in {"reload", "confirm"}
      PROVE  Stamp(q)' \in scanned'
  BY <1>1, <1>2, <1>4 DEF ScanInv, Stamp
<1> QED
  BY <1>2, <1>3, <1>4 DEF ScanInv

LEMMA ScanInvNext == GovInv /\ ScanInv /\ [Next]_vars => ScanInv'
<1> SUFFICES ASSUME GovInv, ScanInv, [Next]_vars PROVE ScanInv'
  OBVIOUS
<1>1. ASSUME UNCHANGED <<manifest, scanned, job>> PROVE ScanInv'
  BY <1>1 DEF ScanInv, Stamp
<1>2. CASE EditModel \/ WriteSource \/ UNCHANGED vars
  BY <1>1, <1>2 DEF EditModel, WriteSource, vars, documents, history
<1> QED
  BY <1>2, ScanInvStep DEF Next

(* No candidate is confirmed but on the model and for the contents of one  *)
(* complete scan: what a command collects in many steps, while sources and *)
(* model.yaml change, is compared as a whole with one manifest, and the    *)
(* model once more before it is written (accept_candidate).                *)
THEOREM ConfirmedOnlyAsScanned == Spec => ConfirmedAsScanned
<1> DEFINE Scanned(p) ==
      At(p, "confirm") /\ model' # model /\ ~At(p, "confirm")' =>
        \E m \in scanned :
          /\ m.prints = Listed(job[p].prints)
          /\ model' = [m.model EXCEPT !.accepted = @ \cup {job[p].target}]
<1>1. GovInv /\ ScanInv /\ [Next]_vars => \A p \in Users : Scanned(p)
  <2> SUFFICES ASSUME GovInv, ScanInv, [Next]_vars, NEW p \in Users,
                      At(p, "confirm"), model' # model, ~At(p, "confirm")'
               PROVE  \E m \in scanned :
                        /\ m.prints = Listed(job[p].prints)
                        /\ model' = [m.model EXCEPT !.accepted = @ \cup {job[p].target}]
    OBVIOUS
  <2>1. job' # job
    BY DEF At
  <2>2. \E q \in Users : Start(q) \/ Step(q) \/ Crash(q)
    BY <2>1 DEF Next, EditModel, WriteSource, vars
  <2>3. PICK q \in Users : Confirm(q)
    BY <2>2 DEF Start, Step, Crash, Lock, LoadConfig, LoadModel, Snapshot, HideRejected,
       Publish, UpdateBaseline, Decide, ReloadModel, ReadRejections, WriteRejections,
       WriteConfig, RemoveGenerated, UnlinkBaseline, documents
  <2>4. q = p
    BY <2>3, OthersStay DEF Step, At
  <2>5. Stamp(p) \in scanned
    BY DEF ScanInv, At
  <2>6. model' = [Stamp(p).model EXCEPT !.accepted = @ \cup {job[p].target}]
    BY <2>3, <2>4 DEF Confirm, Stamp
  <2> QED
    BY <2>5, <2>6 DEF Stamp
<1>2. Init => ScanInv
  BY DEF Init, ScanInv, Idle
<1> QED
  BY <1>1, <1>2, GovInit, GovNext, ScanInvNext, PTL DEF Spec, ConfirmedAsScanned

-----------------------------------------------------------------------------
(* The command that has changed a source's path and has still to remove    *)
(* the baseline.                                                           *)
Invalidating(j, s) == j.phase \in {"generated", "baseline"} /\ j.target = s

(* But for the sources that are excused, what an update has measured and   *)
(* what a baseline says is where the sources are, until the command that   *)
(* moves one of them has come to the baseline.                             *)
FollowInv ==
  /\ \A p \in Users : job[p].phase = "register" /\ job[p].verb = "add" =>
       job[p].config[job[p].target] = None
  /\ \A s \in Sources \ excused :
       /\ \A p \in Users : job[p].verb = "update" /\ job[p].from[s] # None =>
            job[p].from[s] = config[s]
       /\ baseline # None /\ baseline[s] # None =>
            baseline[s] = config[s] \/ \E p \in Users : Invalidating(job[p], s)

(* A step of a command that neither changes config.yaml nor the baseline   *)
(* nor ends an invalidation.                                               *)
LEMMA FollowStep ==
  ASSUME GovInv, FollowInv, NEW p \in Users, Start(p) \/ Step(p) \/ Crash(p),
         UNCHANGED <<config, baseline>>, excused \subseteq excused',
         job'[p].phase = "register" /\ job'[p].verb = "add" =>
           job'[p].config[job'[p].target] = None,
         \A s \in Sources \ excused' :
           /\ job'[p].verb = "update" /\ job'[p].from[s] # None =>
                job'[p].from[s] = config[s]
           /\ Invalidating(job[p], s) => Invalidating(job'[p], s) \/ baseline = None
  PROVE  FollowInv'
<1>1. \A q \in Users \ {p} : job'[q] = job[q]
  BY OthersStay
<1>2. \A q \in Users : job'[q].phase = "register" /\ job'[q].verb = "add" =>
        job'[q].config[job'[q].target] = None
  BY <1>1 DEF FollowInv
<1>3. ASSUME NEW s \in Sources \ excused'
      PROVE  /\ \A q \in Users : job'[q].verb = "update" /\ job'[q].from[s] # None =>
                  job'[q].from[s] = config[s]
             /\ baseline # None /\ baseline[s] # None =>
                  baseline[s] = config[s] \/ \E q \in Users : Invalidating(job'[q], s)
  <2>1. s \in Sources \ excused
    BY <1>3
  <2>2. \A q \in Users : job'[q].verb = "update" /\ job'[q].from[s] # None =>
          job'[q].from[s] = config[s]
    BY <1>1, <1>3, <2>1 DEF FollowInv
  <2>3. ASSUME baseline # None, NEW q \in Users, Invalidating(job[q], s)
        PROVE  Invalidating(job'[q], s)
    BY <1>1, <1>3, <2>3
  <2> QED
    BY <2>1, <2>2, <2>3 DEF FollowInv
<1> QED
  BY <1>2, <1>3 DEF FollowInv, Invalidating

(* Commands that have ended, and those that only read, do not invalidate.  *)
LEMMA FollowEnds ==
  ASSUME GovInv, FollowInv, NEW p \in Users, Step(p) \/ Crash(p), Ends(p),
         UNCHANGED <<config, baseline>>, excused \subseteq excused',
         \A s \in Sources \ excused' : ~Invalidating(job[p], s)
  PROVE  FollowInv'
<1>1. job'[p] = Idle
  BY DEF GovInv, JobInv, Ends
<1>2. Idle.phase = "idle" /\ Idle.verb = None
  BY DEF Idle
<1>3. None \notin Commands
  BY GovernanceConstants
<1> QED
  BY <1>1, <1>2, <1>3, FollowStep DEF Commands

LEMMA FollowFrom ==
  ASSUME FollowInv, NEW p \in Users
  PROVE  \A s \in Sources \ excused :
           job[p].verb = "update" /\ job[p].from[s] # None => job[p].from[s] = config[s]
  BY DEF FollowInv

LEMMA FollowReads ==
  ASSUME GovInv, FollowInv, NEW p \in Users,
         \/ Start(p) \/ Lock(p) \/ LoadModel(p) \/ HideRejected(p)
         \/ Decide(p) \/ ReloadModel(p) \/ ReadRejections(p)
  PROVE  FollowInv'
<1>1. job[p] \in Jobs /\ Sane(job[p])
  BY DEF GovInv, JobInv
<1>2. UNCHANGED <<config, baseline, excused>>
  BY DEF Start, Lock, LoadModel, HideRejected, Decide, ReloadModel, ReadRejections,
     documents, history
<1>3. job[p].phase \notin {"generated", "baseline"}
  BY <1>1 DEF Start, Lock, LoadModel, HideRejected, Decide, ReloadModel,
     ReadRejections, Collected, At
<1>4. CASE Start(p)
  <2>1. PICK verb \in Verbs[p] : \E t \in Targets(verb), path \in PathsFor(verb) :
          job' = [job EXCEPT ![p] =
            [Idle EXCEPT !.verb = verb, !.target = t, !.place = path,
               !.phase = IF verb \in SourceCommands THEN "lock" ELSE "config"]]
    BY <1>4 DEF Start
  <2>2. job'[p].phase \in {"lock", "config"} /\ job'[p].from = NoSources
    BY <2>1 DEF Idle, GovInv, JobInv
  <2> QED
    BY <1>2, <1>3, <1>4, <2>2, FollowStep DEF Invalidating, NoSources
<1>5. CASE ~Start(p) /\ Ends(p)
  BY <1>2, <1>3, <1>5, FollowEnds DEF Step, Invalidating
<1>6. CASE ~Start(p) /\ ~Ends(p)
  <2>1. CASE Lock(p) \/ Decide(p) \/ ReadRejections(p)
    <3>1. PICK phase \in {"config", "reload", "read", "write"},
               noted \in [Sources -> SUBSET Keys] :
            job' = [job EXCEPT ![p].noted = noted, ![p].phase = phase]
      <4>1. rejections \in [Sources -> SUBSET Keys] /\ job[p].noted \in [Sources -> SUBSET Keys]
        BY <1>1 DEF GovInv, GovernanceTypeOK, Jobs
      <4>2. ASSUME NEW phase
            PROVE  [job EXCEPT ![p].phase = phase]
                     = [job EXCEPT ![p].noted = job[p].noted, ![p].phase = phase]
        BY <1>1 DEF Jobs, GovInv, JobInv
      <4>3. CASE Lock(p)
        BY <4>1, <4>2, <4>3 DEF Lock, Goto
      <4>4. CASE Decide(p)
        BY <1>6, <4>1, <4>2, <4>4 DEF Decide, Goto
      <4>5. CASE ReadRejections(p)
        BY <4>1, <4>5 DEF ReadRejections
      <4> QED
        BY <2>1, <4>3, <4>4, <4>5
    <3>2. /\ job'[p].verb = job[p].verb /\ job'[p].from = job[p].from
          /\ job'[p].phase # "register"
      BY <1>1, <3>1 DEF Jobs, GovInv, JobInv
    <3> QED
      BY <1>2, <1>3, <1>6, <3>2, FollowStep, FollowFrom DEF Step, Invalidating
  <2>2. CASE LoadModel(p)
    <3>1. job' = [job EXCEPT ![p].model = model,
                    ![p].phase = IF job[p].verb = "remove" THEN "register" ELSE "snapshot"]
      BY <1>6, <2>2 DEF LoadModel
    <3>2. /\ job'[p].verb = job[p].verb /\ job'[p].from = job[p].from
          /\ job'[p].phase # "register" \/ job'[p].verb # "add"
      BY <1>1, <3>1 DEF Jobs, GovInv, JobInv
    <3> QED
      BY <1>2, <1>3, <1>6, <2>2, <3>2, FollowStep, FollowFrom DEF Step, Invalidating
  <2>3. CASE HideRejected(p) \/ ReloadModel(p)
    <3>1. ASSUME HideRejected(p)
          PROVE  /\ job'[p].verb = job[p].verb /\ job'[p].from = job[p].from
                 /\ job'[p].phase = "snapshot"
      <4>1. PICK s \in Sources :
              job' = [job EXCEPT
                ![p].shown = @ \/ /\ Home[job[p].target] = s
                                  /\ job[p].target \in Discovered[job[p].prints[s]]
                                  /\ <<job[p].target, job[p].prints[s]>> \notin rejections[s],
                ![p].todo = @ \ {s}, ![p].phase = "snapshot"]
        BY <3>1 DEF HideRejected
      <4> QED
        BY <1>1, <4>1 DEF Jobs, GovInv, JobInv
    <3>2. ASSUME ReloadModel(p)
          PROVE  /\ job'[p].verb = job[p].verb /\ job'[p].from = job[p].from
                 /\ job'[p].phase = "confirm"
      BY <1>1, <1>6, <3>2 DEF ReloadModel, Jobs, GovInv, JobInv
    <3> QED
      BY <1>2, <1>3, <1>6, <2>3, <3>1, <3>2, FollowStep, FollowFrom DEF Step, Invalidating
  <2> QED
    BY <1>6, <2>1, <2>2, <2>3
<1> QED
  BY <1>4, <1>5, <1>6

LEMMA FollowLoadConfig ==
  ASSUME GovInv, FollowInv, NEW p \in Users, LoadConfig(p) PROVE FollowInv'
<1>1. job[p] \in Jobs /\ Sane(job[p]) /\ job[p].phase = "config" /\ job \in [Users -> Jobs]
  BY DEF GovInv, JobInv, LoadConfig, At
<1>2. UNCHANGED <<config, baseline, excused>>
  BY DEF LoadConfig, documents, history
<1>3. CASE ~Allowed(p, config)
  BY <1>1, <1>2, <1>3, FollowEnds DEF LoadConfig, Step, Invalidating
<1>4. CASE Allowed(p, config)
  <2>1. job' = [job EXCEPT
          ![p].config = config, ![p].todo = Registered(config),
          ![p].phase = IF job[p].verb \in {"add", "set"} THEN "register" ELSE "model"]
    BY <1>4 DEF LoadConfig
  <2>2. /\ job'[p].verb = job[p].verb /\ job'[p].from = job[p].from
        /\ job'[p].target = job[p].target /\ job'[p].config = config
    BY <1>1, <2>1 DEF Jobs
  <2>3. job[p].verb = "add" => config[job[p].target] = None
    BY <1>4 DEF Allowed
  <2> QED
    BY <1>1, <1>2, <2>2, <2>3, FollowFrom, FollowStep DEF Step, Invalidating
<1> QED
  BY <1>3, <1>4

LEMMA FollowSnapshot ==
  ASSUME GovInv, FollowInv, NEW p \in Users, Snapshot(p) PROVE FollowInv'
<1>1. job[p] \in Jobs /\ job[p].phase = "snapshot" /\ job \in [Users -> Jobs]
  BY DEF GovInv, JobInv, Snapshot, At
<1>2. UNCHANGED <<config, baseline, excused>>
  BY DEF Snapshot, documents, history
<1>3. CASE Ends(p)
  BY <1>1, <1>2, <1>3, FollowEnds DEF Step, Invalidating
<1>4. CASE ~Ends(p)
  <2>1. PICK s \in Sources : job' = [job EXCEPT
          ![p].from[s] = config[s],
          ![p].prints[s] = data[config[s]],
          ![p].phase = IF job[p].verb \in Decisions THEN "hidden" ELSE @,
          ![p].todo = IF job[p].verb \in Decisions THEN @ ELSE @ \ {s}]
    BY <1>4 DEF Snapshot
  <2>2. /\ job'[p].verb = job[p].verb
        /\ job'[p].from = [job[p].from EXCEPT ![s] = config[s]]
        /\ job'[p].phase \in {"hidden", "snapshot"}
    BY <1>1, <2>1 DEF Jobs
  <2>3. job[p].from \in Configs
    BY <1>1 DEF Jobs
  <2>4. \A t \in Sources \ excused :
          job'[p].verb = "update" /\ job'[p].from[t] # None => job'[p].from[t] = config[t]
    BY <2>2, <2>3 DEF FollowInv, Configs
  <2> QED
    BY <1>1, <1>2, <2>2, <2>4, FollowStep DEF Step, Invalidating
<1> QED
  BY <1>3, <1>4

LEMMA FollowWrites ==
  ASSUME GovInv, FollowInv, NEW p \in Users, Publish(p) \/ Confirm(p) \/ WriteRejections(p)
  PROVE  FollowInv'
<1>1. Ends(p) /\ UNCHANGED <<config, baseline, excused>>
  BY DEF Publish, Confirm, WriteRejections, history
<1>2. job[p].phase \notin {"generated", "baseline"}
  BY DEF Publish, Confirm, WriteRejections, Collected, At
<1> QED
  BY <1>1, <1>2, FollowEnds DEF Step, Invalidating

LEMMA FollowUpdateBaseline ==
  ASSUME GovInv, FollowInv, NEW p \in Users, UpdateBaseline(p) PROVE FollowInv'
<1>1. /\ Ends(p) /\ UNCHANGED <<config, excused>>
      /\ job[p].verb = "update" /\ job[p].phase = "snapshot"
  BY DEF UpdateBaseline, history, Collected, At
<1>2. CASE UNCHANGED baseline
  BY <1>1, <1>2, FollowEnds DEF Step, Invalidating
<1>3. CASE baseline' = job[p].from
  <2>1. job'[p] = Idle /\ \A q \in Users \ {p} : job'[q] = job[q]
    BY <1>1 DEF GovInv, JobInv, Ends
  <2>2. Idle.phase = "idle" /\ Idle.verb = None /\ None # "update"
    BY GovernanceConstants DEF Idle, Commands
  <2>3. \A s \in Sources \ excused : baseline'[s] # None => baseline'[s] = config[s]
    BY <1>1, <1>3 DEF FollowInv
  <2> QED
    BY <1>1, <2>1, <2>2, <2>3 DEF FollowInv
<1> QED
  BY <1>2, <1>3 DEF UpdateBaseline

(* The step the invariant is for: an update under way excuses the source,  *)
(* and where the command does not go on to the baseline, `source add`,     *)
(* there was no path that a baseline could have been measured at.          *)
LEMMA FollowWriteConfig ==
  ASSUME GovInv, FollowInv, NEW p \in Users, WriteConfig(p) PROVE FollowInv'
<1> DEFINE t == job[p].target
<1>1. /\ job[p] \in Jobs /\ job[p].phase = "register" /\ t \in Sources
      /\ lock = p /\ job[p].config = config /\ config \in Configs
      /\ config' = [config EXCEPT ![t] = job[p].place]
      /\ job[p].verb \in SourceCommands
  BY WriteConfigFacts DEF GovInv, GovernanceTypeOK, JobInv, WriteConfig, At
<1>2. /\ UNCHANGED baseline
      /\ excused' = IF Updating(t) THEN excused \cup {t} ELSE excused
  BY DEF WriteConfig
<1>3. \A s \in Sources \ {t} : config'[s] = config[s]
  BY <1>1 DEF Configs
<1>4. \A q \in Users \ {p} : job'[q] = job[q]
  BY OthersStay DEF Step
<1>5. \A q \in Users : job[q].phase \in {"register", "generated", "baseline"} => q = p
  <2>1. ASSUME NEW q \in Users, job[q].phase \in {"register", "generated", "baseline"}
        PROVE  q = p
    <3>1. job[q].verb \in SourceCommands
      BY <2>1 DEF GovInv, JobInv, Sane
    <3>2. lock = q
      BY <2>1, <3>1 DEF GovInv, JobInv, Locking
    <3> QED
      BY <1>1, <3>2
  <2> QED
    BY <2>1
<1>6. \/ job[p].verb = "add" /\ job'[p] = Idle
      \/ job[p].verb # "add" /\ job'[p] = [job[p] EXCEPT !.phase = "generated"]
  BY DEF WriteConfig, Ends, Goto, GovInv, JobInv
<1>7. /\ job'[p].phase # "register" /\ job'[p].verb # "update"
      /\ job[p].verb # "add" => Invalidating(job'[p], t)
  BY <1>1, <1>6, GovernanceConstants
  DEF Idle, Jobs, Invalidating, SourceCommands, Commands
<1>8. \A q \in Users : job'[q].phase = "register" /\ job'[q].verb = "add" =>
        job'[q].config[job'[q].target] = None
  BY <1>4, <1>5, <1>7
<1>9. ASSUME NEW s \in Sources \ excused'
      PROVE  /\ \A q \in Users : job'[q].verb = "update" /\ job'[q].from[s] # None =>
                  job'[q].from[s] = config'[s]
             /\ baseline # None /\ baseline[s] # None =>
                  baseline[s] = config'[s] \/ \E q \in Users : Invalidating(job'[q], s)
  <2>1. s \in Sources \ excused /\ (s = t => ~Updating(t))
    BY <1>2, <1>9
  <2>2. ASSUME NEW q \in Users, job'[q].verb = "update", job'[q].from[s] # None
        PROVE  job'[q].from[s] = config'[s]
    <3>1. q # p /\ job'[q] = job[q]
      BY <1>4, <1>7, <2>2
    <3>2. s # t
      BY <2>1, <2>2, <3>1 DEF Updating
    <3> QED
      BY <1>3, <2>1, <2>2, <3>1, <3>2 DEF FollowInv
  <2>3. ASSUME baseline # None, baseline[s] # None
        PROVE  baseline[s] = config'[s] \/ \E q \in Users : Invalidating(job'[q], s)
    <3>1. baseline[s] = config[s]
      BY <1>1, <1>5, <2>1, <2>3 DEF FollowInv, Invalidating
    <3>2. CASE s # t
      BY <1>3, <3>1, <3>2
    <3>3. CASE s = t
      <4>1. job[p].verb # "add"
        BY <1>1, <2>3, <3>1, <3>3 DEF FollowInv
      <4> QED
        BY <1>7, <3>3, <4>1
    <3> QED
      BY <3>2, <3>3
  <2> QED
    BY <2>2, <2>3
<1> QED
  BY <1>2, <1>8, <1>9 DEF FollowInv, Invalidating

LEMMA FollowRemoves ==
  ASSUME GovInv, FollowInv, NEW p \in Users, RemoveGenerated(p) PROVE FollowInv'
<1>1. job[p] \in Jobs /\ job[p].phase = "generated" /\ job \in [Users -> Jobs]
  BY DEF GovInv, JobInv, RemoveGenerated, At
<1>2. UNCHANGED <<config, baseline, excused>> /\ job'[p] = [job[p] EXCEPT !.phase = "baseline"]
  BY <1>1 DEF RemoveGenerated, Goto, history
<1>3. /\ job'[p].phase = "baseline" /\ job'[p].verb = job[p].verb
      /\ job'[p].from = job[p].from /\ job'[p].target = job[p].target
  BY <1>1, <1>2 DEF Jobs
<1>4. \A s \in Sources \ excused :
        job'[p].verb = "update" /\ job'[p].from[s] # None => job'[p].from[s] = config[s]
  BY <1>3, FollowFrom
<1> QED
  BY <1>2, <1>3, <1>4, FollowStep DEF Step, Invalidating

LEMMA FollowUnlinks ==
  ASSUME GovInv, FollowInv, NEW p \in Users, UnlinkBaseline(p) PROVE FollowInv'
<1>1. job[p] \in Jobs /\ job[p].phase = "baseline" /\ job \in [Users -> Jobs]
  BY DEF GovInv, JobInv, UnlinkBaseline, At
<1>2. /\ UNCHANGED <<config, excused>> /\ baseline' = None
      /\ job'[p] = [job[p] EXCEPT !.phase = "read"]
  BY <1>1 DEF UnlinkBaseline, Goto, history
<1>3. /\ job'[p].phase = "read" /\ job'[p].verb = job[p].verb /\ job'[p].from = job[p].from
  BY <1>1, <1>2 DEF Jobs
<1>4. \A q \in Users \ {p} : job'[q] = job[q]
  BY OthersStay DEF Step
<1>5. \A q \in Users : job'[q].verb = job[q].verb /\ job'[q].from = job[q].from
  BY <1>3, <1>4
<1>6. \A q \in Users : job'[q].phase = "register" => job'[q] = job[q]
  BY <1>3, <1>4
<1> QED
  BY <1>2, <1>5, <1>6 DEF FollowInv

LEMMA FollowCrash ==
  ASSUME GovInv, FollowInv, NEW p \in Users, Crash(p) PROVE FollowInv'
<1>1. Ends(p) /\ UNCHANGED <<config, baseline>> /\ excused \subseteq excused'
  BY DEF Crash, documents
<1>2. \A s \in Sources \ excused' : ~Invalidating(job[p], s)
  BY DEF Crash, Invalidating, At
<1> QED
  BY <1>1, <1>2, FollowEnds

LEMMA FollowNext == GovInv /\ FollowInv /\ [Next]_vars => FollowInv'
<1> SUFFICES ASSUME GovInv, FollowInv, [Next]_vars PROVE FollowInv'
  OBVIOUS
<1>1. CASE EditModel \/ WriteSource \/ UNCHANGED vars
  BY <1>1 DEF EditModel, WriteSource, vars, documents, history, FollowInv, Invalidating
<1>2. ASSUME NEW p \in Users, Start(p) \/ Step(p) \/ Crash(p)
      PROVE  FollowInv'
  BY <1>2, FollowReads, FollowLoadConfig, FollowSnapshot, FollowWrites,
     FollowUpdateBaseline, FollowWriteConfig, FollowRemoves, FollowUnlinks, FollowCrash
     DEF Step
<1> QED
  BY <1>1, <1>2 DEF Next

(* While no source command runs, baseline.json was measured where the      *)
(* sources are now, but for those whose command died or raced an update:   *)
(* every change of a path reaches the baseline before its lock is released *)
(* (_invalidate_source_evidence).                                          *)
THEOREM BaselineFollows == Spec => []BaselineFollowsSources
<1>1. Init => FollowInv
  BY GovernanceConstants DEF Init, FollowInv, Idle, Commands
<1>2. GovInv /\ FollowInv => BaselineFollowsSources
  <2> SUFFICES ASSUME GovInv, FollowInv, lock = None, baseline # None,
                      NEW s \in Sources \ excused, baseline[s] # None
               PROVE  baseline[s] = config[s]
    BY DEF BaselineFollowsSources
  <2>1. ASSUME NEW p \in Users PROVE ~Invalidating(job[p], s)
    <3>1. lock # p
      BY GovernanceConstants
    <3> QED
      BY <3>1 DEF GovInv, JobInv, Sane, Locking, Invalidating
  <2> QED
    BY <2>1 DEF FollowInv
<1> QED
  BY <1>1, <1>2, GovInit, GovNext, FollowNext, PTL DEF Spec

=============================================================================
