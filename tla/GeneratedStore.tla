--------------------------- MODULE GeneratedStore ---------------------------
(***************************************************************************)
(* The generated evidence of a project: .joinlint/generated/, replaced by  *)
(* `scan` (write_generated_transaction in src/joinlint/artifacts.py), read *)
(* by the legacy MCP validate_join and by `report`, which also rewrites    *)
(* report.html in place (src/joinlint/services.py), and removed by         *)
(* `source set` and `source remove` (src/joinlint/cli.py).                 *)
(*                                                                         *)
(* None of these commands but the last takes a lock, so each call that     *)
(* touches a shared name is a step. A directory has an identity of its     *)
(* own, because remove_tree_relative goes on emptying the directory it has *)
(* opened whatever its name has become; a rename onto a directory succeeds *)
(* only if that directory is empty, as rename(2) has it.                   *)
(***************************************************************************)
EXTENDS Naturals

CONSTANTS
  Scanners,    \* processes that run `scan`
  Validators,  \* processes that validate edges against cached evidence
  Reporters,   \* processes that run `report`
  Setters,     \* processes that run `source set`, serialized by _config_lock
  Models,      \* [decl, rest]: a relationship's declaration, and the others
  Sources,     \* sources there may be
  Contents,    \* contents of a source (its fingerprints)
  Writes,      \* subset of Contents \X Contents: which may follow which
  Edits,       \* subset of Models \X Models: which edit may follow which
  FirstModel, FirstContent,
  MaxScans,    \* bound: scans that are started
  Casts        \* bounds of a behaviour: see cast

ASSUME StoreConstants ==
  /\ Scanners \cap (Validators \cup Reporters \cup Setters) = {}
  /\ Validators \cap (Reporters \cup Setters) = {} /\ Reporters \cap Setters = {}
  /\ Writes \subseteq Contents \X Contents
  /\ Edits \subseteq Models \X Models
  /\ FirstModel \in Models /\ FirstContent \in Contents
  /\ MaxScans \in Nat
  /\ \A c \in Casts :
       /\ c.commands \subseteq (Scanners \cup Validators \cup Reporters \cup Setters)
       /\ FirstContent \in c.contents /\ c.contents \subseteq Contents
       /\ c.sources \subseteq Sources
       /\ c.edits \subseteq Edits
       /\ c.faults \in Nat /\ c.crashes \in Nat

Commands == Scanners \cup Validators \cup Reporters \cup Setters

(* What a scan is made from, and what its manifest says it was made from.  *)
Versions == [model : Models, content : [Sources -> Contents]]

(* manifest.json; the other JSON documents; report.html.                   *)
Files == {"manifest", "documents", "report"}

(* Directory 0 is the empty generated/ that `init` makes, directory n the  *)
(* temporary one of the n-th scan.                                         *)
Trees == 0 .. MaxScans
NoTree == MaxScans + 1

VARIABLES
  current,     \* model.yaml and the sources as they are now
  generated,   \* the directory called generated/
  previous,    \* the directory called .generated-previous/
  files,       \* [Trees -> SUBSET Files]
  made,        \* [Trees -> Versions]: the version of the JSON documents
  job,         \* [Commands -> Jobs]
  cast,        \* the member of Casts this behaviour is of: the commands that take
               \* part, the registered sources, their contents and the edits there
               \* are, how many calls fail and processes die; it never changes
  scans, faults, crashes,
  lapsed       \* history: a change of names was made whose sync then failed

vars ==
  <<current, generated, previous, files, made, job, cast, scans, faults, crashes, lapsed>>

Phases ==
  {"idle", "snapshot", "build", "find", "open", "unlink", "rmdir", "look",
   "move", "publish", "restore", "putback", "manifest", "documents", "render",
   "write", "done", "failed"}

Jobs ==
  [phase    : Phases,
   view     : Versions,             \* the model and the contents it has read
   left     : SUBSET Sources,       \* sources it has yet to take a snapshot of
   tree     : Trees,                \* a scan's own directory, or a report's
   doomed   : Trees,                \* the directory being removed
   todo     : SUBSET Files,         \* entries listed there and not yet unlinked
   replaced : BOOLEAN,              \* the local `replaced_previous`
   out      : BOOLEAN,              \* a scan's own directory is published
   found    : Versions,             \* the documents a reader has read
   seen     : [Sources -> SUBSET Contents],   \* history: contents since it started
   before   : Trees \cup {NoTree}]  \* history: generated/ before the scan

FirstVersion == [model |-> FirstModel, content |-> [s \in Sources |-> FirstContent]]

Idle ==
  [phase |-> "idle", view |-> FirstVersion, left |-> {}, tree |-> 0, doomed |-> 0,
   todo |-> {}, replaced |-> FALSE, out |-> FALSE, found |-> FirstVersion,
   seen |-> [s \in Sources |-> {}], before |-> NoTree]

In(p, phase) == job[p].phase = phase

Goto(p, phase) == job' = [job EXCEPT ![p].phase = phase]

(* A directory a rename may take the place of.                             *)
Vacant(tree) == tree \in Trees => files[tree] = {}

Init ==
  /\ current = FirstVersion
  /\ generated = 0 /\ previous = NoTree
  /\ files = [t \in Trees |-> {}]
  /\ made = [t \in Trees |-> FirstVersion]
  /\ job = [p \in Commands |-> Idle]
  /\ cast \in Casts
  /\ scans = 0 /\ faults = 0 /\ crashes = 0 /\ lapsed = FALSE

disk == <<generated, previous, files, made>>
bounds == <<cast, scans, faults, crashes, lapsed>>

-----------------------------------------------------------------------------
(* Every command loads config.yaml and model.yaml, then takes a snapshot   *)
(* of one source after the other.                                          *)
Start(p) ==
  /\ In(p, "idle") /\ p \in cast.commands \ Setters
  /\ p \in Scanners => scans < MaxScans
  /\ scans' = IF p \in Scanners THEN scans + 1 ELSE scans
  /\ job' = [job EXCEPT ![p] =
       [Idle EXCEPT !.phase = "snapshot", !.view = current, !.left = cast.sources,
                    !.seen = [s \in Sources |-> {current.content[s]}],
                    !.tree = IF p \in Scanners THEN scans + 1 ELSE 0]]
  /\ UNCHANGED <<current, disk, cast, faults, crashes, lapsed>>

Snapshot(p) ==
  /\ In(p, "snapshot")
  /\ \/ \E s \in job[p].left :
          job' = [job EXCEPT ![p].view.content[s] = current.content[s],
                             ![p].left = @ \ {s}]
     \/ job[p].left = {} /\ Goto(p, IF p \in Scanners THEN "build" ELSE "manifest")
  /\ UNCHANGED <<current, disk, bounds>>

(***************************************************************************)
(* write_generated_transaction.                                            *)
(***************************************************************************)
(* Mutant: report.html is left for later.                                  *)
BuildWithoutReport(p) ==
  /\ In(p, "build")
  /\ LET t == job[p].tree IN
       /\ files' = [files EXCEPT ![t] = Files \ {"report"}]
       /\ made' = [made EXCEPT ![t] = job[p].view]
  /\ job' = [job EXCEPT ![p].phase = "find", ![p].before = generated]
  /\ UNCHANGED <<current, generated, previous, bounds>>

(* The scan's own temporary directory, which nobody else looks into.       *)
Build(p) ==
  /\ In(p, "build")
  /\ LET t == job[p].tree IN
       /\ files' = [files EXCEPT ![t] = Files]
       /\ made' = [made EXCEPT ![t] = job[p].view]
  /\ job' = [job EXCEPT ![p].phase = "find", ![p].before = generated]
  /\ UNCHANGED <<current, generated, previous, bounds>>

(* A backup that an earlier scan left behind is removed first.             *)
FindBackup(p) ==
  /\ In(p, "find")
  /\ Goto(p, IF previous = NoTree THEN "look" ELSE "open")
  /\ UNCHANGED <<current, disk, bounds>>

LookForGenerated(p) ==
  /\ In(p, "look")
  /\ Goto(p, IF generated = NoTree THEN "publish" ELSE "move")
  /\ UNCHANGED <<current, disk, bounds>>

(* Mutant: the backup is a second name of the directory.                   *)
LinksAside(p) ==
  /\ In(p, "move") /\ generated # NoTree /\ Vacant(previous)
  /\ previous' = generated
  /\ UNCHANGED <<generated, files, made>>

(* replace_relative renames, then syncs the directory: what a call does to *)
(* the names is apart from how it returns (see SyncFails).                 *)
RenamesAside(p) ==
  /\ In(p, "move") /\ generated # NoTree /\ Vacant(previous)
  /\ previous' = generated /\ generated' = NoTree
  /\ UNCHANGED <<files, made>>

MoveAside(p) ==
  /\ RenamesAside(p)
  /\ job' = [job EXCEPT ![p].phase = "publish", ![p].replaced = TRUE]
  /\ UNCHANGED <<current, bounds>>

RenamesOut(p) ==
  /\ In(p, "publish") /\ Vacant(generated)
  /\ generated' = job[p].tree
  /\ UNCHANGED <<previous, files, made>>

Published(p, phase) == job' = [job EXCEPT ![p].out = TRUE, ![p].phase = phase]

Publish(p) ==
  /\ RenamesOut(p)
  /\ Published(p, IF job[p].replaced THEN "open" ELSE "done")
  /\ UNCHANGED <<current, bounds>>

(* The except clause: put the previous evidence back if nothing took its   *)
(* place; a call that fails here is passed over.                           *)
Restore(p) ==
  /\ In(p, "restore")
  /\ Goto(p, IF previous # NoTree /\ generated = NoTree THEN "putback" ELSE "failed")
  /\ UNCHANGED <<current, disk, bounds>>

PutBack(p) ==
  /\ In(p, "putback")
  /\ \/ /\ previous # NoTree /\ Vacant(generated)
        /\ generated' = previous
        /\ previous' = NoTree
     \/ /\ previous = NoTree \/ ~Vacant(generated)
        /\ UNCHANGED <<generated, previous>>
  /\ Goto(p, "failed")
  /\ UNCHANGED <<current, files, made, bounds>>

-----------------------------------------------------------------------------
(* remove_tree_relative: of the backup by a scan, of generated/ by a       *)
(* `source` command.                                                       *)
Target(p) == IF p \in Scanners THEN previous ELSE generated

Removed(p) == IF p \in Scanners /\ ~job[p].out THEN "look" ELSE "done"

OpenTree(p) ==
  /\ In(p, "open")
  /\ \/ /\ Target(p) # NoTree
        /\ job' = [job EXCEPT ![p].phase = "unlink", ![p].doomed = Target(p),
                              ![p].todo = files[Target(p)]]
     \/ /\ Target(p) = NoTree /\ p \in Setters      \* missing_ok
        /\ Goto(p, "done")
  /\ UNCHANGED <<current, disk, bounds>>

Unlink(p) ==
  /\ In(p, "unlink")
  /\ \/ \E f \in job[p].todo \cap files[job[p].doomed] :
          /\ files' = [files EXCEPT ![job[p].doomed] = @ \ {f}]
          /\ job' = [job EXCEPT ![p].todo = @ \ {f}]
     \/ /\ job[p].todo = {}
        /\ Goto(p, "rmdir")
        /\ UNCHANGED files
  /\ UNCHANGED <<current, generated, previous, made, bounds>>

(* By name: the directory that has the name by now.                        *)
RemovesName(p, phase) ==
  /\ In(p, "rmdir")
  /\ Target(p) # NoTree /\ files[Target(p)] = {}
  /\ IF p \in Scanners
       THEN previous' = NoTree /\ UNCHANGED generated
       ELSE generated' = NoTree /\ UNCHANGED previous
  /\ job' = [q \in Commands |->
       IF q = p THEN [job[p] EXCEPT !.phase = phase]
       ELSE IF p \in Setters THEN [job[q] EXCEPT !.before = NoTree]
       ELSE job[q]]
  /\ UNCHANGED <<files, made>>

Rmdir(p) == RemovesName(p, Removed(p)) /\ UNCHANGED <<current, bounds>>

(* What a call of the file system finds that makes it raise.               *)
Raises(p) ==
  \/ In(p, "open") /\ Target(p) = NoTree /\ p \in Scanners
  \/ In(p, "unlink") /\ ~(job[p].todo \subseteq files[job[p].doomed])
  \/ In(p, "rmdir") /\ (Target(p) = NoTree \/ ~Vacant(Target(p)))
  \/ In(p, "move") /\ ~(generated # NoTree /\ Vacant(previous))
  \/ In(p, "publish") /\ ~Vacant(generated)
  \/ In(p, "render") /\ generated = NoTree
  \/ In(p, "write") /\ job[p].tree \notin {generated, previous}

(* Mutant: the except clause forgets the first rename.                     *)
RaisedWithoutRestore(p) == "failed"

Raised(p) ==
  IF job[p].replaced /\ ~In(p, "restore") /\ ~In(p, "putback") THEN "restore" ELSE "failed"

Raise(p) ==
  /\ Raises(p)
  /\ Goto(p, Raised(p))
  /\ UNCHANGED <<current, disk, bounds>>

(* Any other failure: an I/O error, a full disk, a limit that is exceeded. *)
Fault(p) ==
  /\ ~In(p, "idle") /\ ~In(p, "done") /\ ~In(p, "failed")
  /\ faults < cast.faults
  /\ faults' = faults + 1
  /\ Goto(p, Raised(p))
  /\ UNCHANGED <<current, disk, cast, scans, crashes, lapsed>>

-----------------------------------------------------------------------------
(* validate_cached_edges and regenerate_report: first the manifest has to  *)
(* match, then the documents are opened anew.                              *)
Holds(file) == generated # NoTree /\ file \in files[generated]

(* Mutant: any readable manifest will do.                                  *)
ReadAnyManifest(p) ==
  /\ In(p, "manifest")
  /\ Goto(p, IF Holds("manifest") THEN "documents" ELSE "failed")
  /\ UNCHANGED <<current, disk, bounds>>

ReadManifest(p) ==
  /\ In(p, "manifest")
  /\ Goto(p, IF Holds("manifest") /\ made[generated] = job[p].view
               THEN "documents" ELSE "failed")
  /\ UNCHANGED <<current, disk, bounds>>

(* The digest each result carries is that of its relationship; a report    *)
(* does not compare it.                                                    *)
DigestsMatch(p, v) == p \in Reporters \/ v.model.decl = job[p].view.model.decl

ReadDocuments(p) ==
  /\ In(p, "documents")
  /\ IF Holds("documents") /\ DigestsMatch(p, made[generated])
       THEN job' = [job EXCEPT
              ![p].found = made[generated],
              ![p].phase = IF p \in Reporters THEN "render" ELSE "done"]
       ELSE Goto(p, "failed")
  /\ UNCHANGED <<current, disk, bounds>>

(* write_relative_atomically opens the directory, then writes in it,       *)
(* whatever its name has become.                                           *)
OpenForReport(p) ==
  /\ In(p, "render")
  /\ generated # NoTree
  /\ job' = [job EXCEPT ![p].tree = generated, ![p].phase = "write"]
  /\ UNCHANGED <<current, disk, bounds>>

WritesReport(p) ==
  /\ In(p, "write")
  /\ job[p].tree \in {generated, previous}     \* else it is gone: Raises
  /\ files' = [files EXCEPT ![job[p].tree] = @ \cup {"report"}]
  /\ UNCHANGED <<generated, previous, made>>

WriteReport(p) ==
  /\ WritesReport(p)
  /\ Goto(p, "done")
  /\ UNCHANGED <<current, bounds>>

(* A call has changed the directory, and the sync after it fails: it       *)
(* raises, although what it was called for is done. After the first rename *)
(* replaced_previous has not been set yet. (After the rename that puts     *)
(* back the error is passed over: no more than PutBack.)                   *)
SyncFails(p) ==
  /\ \/ RenamesAside(p) /\ Goto(p, Raised(p))
     \/ RenamesOut(p) /\ Published(p, Raised(p))
     \/ RemovesName(p, Raised(p))
     \/ WritesReport(p) /\ Goto(p, Raised(p))
  /\ faults < cast.faults
  /\ faults' = faults + 1 /\ lapsed' = TRUE
  /\ UNCHANGED <<current, cast, scans, crashes>>

-----------------------------------------------------------------------------
(* `source set` under _config_lock: config.yaml gets the new path, then    *)
(* the generated evidence is removed.                                      *)
Changed(source, content) ==
  [q \in Commands |->
     IF job[q].phase = "idle" THEN job[q]
     ELSE [job[q] EXCEPT !.seen[source] = @ \cup {content}]]

Becomes(source, content) ==
  /\ <<current.content[source], content>> \in Writes
  /\ current' = [current EXCEPT !.content[source] = content]

SetSource(p) ==
  /\ In(p, "idle") /\ p \in cast.commands \cap Setters
  /\ \A q \in Setters : In(q, "idle")
  /\ \E s \in cast.sources, c \in cast.contents :
       Becomes(s, c) /\ job' = [Changed(s, c) EXCEPT ![p].phase = "open"]
  /\ UNCHANGED <<disk, bounds>>

(* Another program writes to a source.                                     *)
WriteSource ==
  /\ \E s \in cast.sources, c \in cast.contents :
       Becomes(s, c) /\ job' = Changed(s, c)
  /\ UNCHANGED <<disk, bounds>>

(* `accept`, or an editor, writes model.yaml.                              *)
EditModel ==
  /\ \E m \in Models :
       /\ <<current.model, m>> \in cast.edits
       /\ current' = [current EXCEPT !.model = m]
  /\ UNCHANGED <<disk, job, bounds>>

End(p) ==
  /\ In(p, "done") \/ In(p, "failed")
  /\ job' = [job EXCEPT ![p] = Idle]
  /\ UNCHANGED <<current, disk, bounds>>

Crash(p) ==
  /\ ~In(p, "idle") /\ crashes < cast.crashes
  /\ crashes' = crashes + 1
  /\ job' = [job EXCEPT ![p] = Idle]
  /\ UNCHANGED <<current, disk, cast, scans, faults, lapsed>>

Next ==
  \/ \E p \in Commands :
       \/ Start(p) \/ Snapshot(p) \/ SetSource(p) \/ End(p)
       \/ Raise(p) \/ Fault(p) \/ SyncFails(p) \/ Crash(p)
       \/ OpenTree(p) \/ Unlink(p) \/ Rmdir(p)
       \/ ReadManifest(p) \/ ReadDocuments(p)
       \/ OpenForReport(p) \/ WriteReport(p)
  \/ \E p \in Scanners :
       \/ Build(p) \/ FindBackup(p) \/ LookForGenerated(p) \/ MoveAside(p)
       \/ Publish(p) \/ Restore(p) \/ PutBack(p)
  \/ WriteSource \/ EditModel

Spec == Init /\ [][Next]_vars

-----------------------------------------------------------------------------
(* Properties.                                                             *)

(* Every variable keeps its kind, and two names never lead to one          *)
(* directory, whatever renames interleave.                                 *)
StoreTypeOK ==
  /\ current \in Versions /\ cast \in Casts
  /\ generated \in Trees \cup {NoTree} /\ previous \in Trees \cup {NoTree}
  /\ generated = previous => generated = NoTree
  /\ files \in [Trees -> SUBSET Files]
  /\ made \in [Trees -> Versions]
  /\ job \in [Commands -> Jobs] /\ lapsed \in BOOLEAN

OneScanner == \A p, q \in cast.commands \cap Scanners : p = q
NoSetters == cast.commands \cap Setters = {}
OneChange ==
  \E s \in Sources, c \in Contents :
    cast.sources \subseteq {s} /\ cast.contents \subseteq {FirstContent, c}

(* Validating against cached evidence answers with results for a content   *)
(* each source had since the command began, although the sources are read  *)
(* one after the other, and the manifest that is compared and the results  *)
(* at two more times, with scans, their failures and crashes between them  *)
(* (validate_cached_edges). Said of one scanner, and beside `source`       *)
(* commands only where contents change once and no call fails: they can    *)
(* bring an older backup back.                                             *)
AnswersAreFresh ==
  OneScanner /\ (NoSetters \/ (faults = 0 /\ OneChange)) =>
    \A p \in Validators, s \in cast.sources :
      In(p, "done") => job[p].found.content[s] \in job[p].seen[s]

(* A scan that fails beside no other scan leaves generated/ as it found    *)
(* it, or has published its own evidence: the except clause of             *)
(* write_generated_transaction undoes the first rename. Only where the     *)
(* sync after a rename failed, or a second call did, may generated/ be     *)
(* gone, and then the evidence it held is the backup.                      *)
FailedScanKeepsEvidence ==
  OneScanner =>
    \A p \in Scanners :
      In(p, "failed") /\ job[p].before # NoTree =>
        \/ generated \in {job[p].before, job[p].tree}
        \/ /\ lapsed \/ faults > 1
           /\ generated = NoTree /\ previous = job[p].before

(* Where no `source` command removes it, no reader ever finds half a scan  *)
(* under generated/: all files of one scan are there, or the directory is  *)
(* the empty one of `init`. Said of one scanner that may fail and die      *)
(* beside readers, and of two scans that race alone: of three, or of two   *)
(* and a report, one may put back a backup that another began to empty.    *)
PublishedIsWhole ==
  NoSetters /\ (OneScanner \/ (scans <= 2 /\ faults = 0 /\ cast.commands \subseteq Scanners)) =>
    (generated \in Trees \ {0} => files[generated] = Files)

Ended(p) == job[p].phase \in {"idle", "done", "failed"}

(* When commands that only scan and read have come to their ends, and none *)
(* has died, there is a generated/: racing scans of which none fails but   *)
(* over another do not lose the evidence between their renames, and one    *)
(* scanner puts back what it moved if a single call fails. Where that was  *)
(* the sync after a rename the evidence may be under the other name. It    *)
(* holds a scan if one has just succeeded.                                 *)
EvidenceSurvives ==
  NoSetters /\ crashes = 0 /\ (faults = 0 \/ (OneScanner /\ faults = 1))
    /\ (\A p \in Commands : Ended(p)) =>
    /\ generated # NoTree \/ (lapsed /\ previous # NoTree)
    /\ (\E p \in Scanners : In(p, "done")) => generated \notin {0, NoTree}

=============================================================================
