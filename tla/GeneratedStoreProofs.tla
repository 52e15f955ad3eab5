------------------------ MODULE GeneratedStoreProofs ------------------------
(***************************************************************************)
(* Proofs about GeneratedStore, for any processes, models and contents and *)
(* any number of scans, failures and crashes.                              *)
(***************************************************************************)
EXTENDS GeneratedStore, TLAPS

Readers == Validators \cup Reporters

Live(p) == ~In(p, "idle")

(* What the phase of a scan says of its locals.                            *)
ScanJob(j) ==
  /\ j.phase \in {"idle", "snapshot", "build", "find", "open", "unlink", "rmdir", "look",
                  "move", "publish", "restore", "putback", "done", "failed"}
  /\ j.replaced /\ ~j.out => j.phase \in {"publish", "restore", "putback", "failed"}
  /\ ~j.replaced => j.phase \notin {"restore", "putback"}
  /\ j.out => j.phase \in {"open", "unlink", "rmdir", "restore", "putback", "done", "failed"}
  /\ ~j.out => j.phase # "done"

ReadJob(j) ==
  /\ j.phase \in {"idle", "snapshot", "manifest", "documents", "render", "write",
                  "done", "failed"}
  /\ ~j.out /\ ~j.replaced

SetJob(j) ==
  /\ j.phase \in {"idle", "open", "unlink", "rmdir", "done", "failed"}
  /\ ~j.out /\ ~j.replaced

RoleOf(p, j) ==
  /\ j \in Jobs
  /\ j.phase = "idle" => j = Idle
  /\ p \in Scanners => ScanJob(j)
  /\ p \in Readers => ReadJob(j)
  /\ p \in Setters => SetJob(j)
  /\ j.doomed <= scans

Roles ==
  \A p \in Commands : RoleOf(p, job[p]) /\ (Live(p) => p \in cast.commands)

(* Directories are numbered in the order their scans began, and the one    *)
(* `init` made never stands beside a backup.                               *)
Counted ==
  /\ scans \in 0 .. MaxScans /\ faults \in Nat /\ crashes \in Nat
  /\ generated # NoTree => generated <= scans
  /\ previous # NoTree => previous <= scans
  /\ generated = 0 => previous = NoTree

(* A scan has built its directory and has neither published it nor failed. *)
HasBuilt(j) ==
  /\ ~j.out
  /\ j.phase \in {"find", "open", "unlink", "rmdir", "look", "move", "publish",
                  "restore", "putback"}

(* Until it is published nobody else gets hold of a scan's own directory.  *)
Apart(p) ==
  /\ job[p].tree \notin {generated, previous}
  /\ \A q \in Commands : job[q].doomed # job[p].tree
Owned(p) ==
  /\ job[p].tree \in 1 .. scans
  /\ \A q \in Scanners : Live(q) /\ q # p => job[q].tree # job[p].tree
  /\ ~job[p].out => Apart(p)
  /\ HasBuilt(job[p]) => files[job[p].tree] = Files /\ made[job[p].tree] = job[p].view

OwnTrees == \A p \in Scanners : Live(p) => Owned(p)

StoreInv == StoreTypeOK /\ Roles /\ Counted /\ OwnTrees

-----------------------------------------------------------------------------
LEMMA IdleJob == Idle \in Jobs /\ Idle.phase = "idle" /\ Idle.doomed = 0
                   /\ ScanJob(Idle) /\ ReadJob(Idle) /\ SetJob(Idle) /\ Idle.before = NoTree
  BY StoreConstants DEF Idle, Jobs, Phases, FirstVersion, Versions, Trees, NoTree, Files,
     ScanJob, ReadJob, SetJob

LEMMA InitStore == Init => StoreInv
<1> SUFFICES ASSUME Init PROVE StoreInv
  OBVIOUS
<1> USE StoreConstants
<1>1. StoreTypeOK
  <2>1. FirstVersion \in Versions
    BY DEF FirstVersion, Versions
  <2>2. job \in [Commands -> Jobs] /\ made \in [Trees -> Versions] /\ current \in Versions
    BY <2>1, IdleJob DEF Init
  <2>3. 0 \in Trees /\ 0 # NoTree
    BY DEF Trees, NoTree
  <2> QED BY <2>2, <2>3 DEF Init, StoreTypeOK
<1>2. Roles
  BY IdleJob DEF Init, Roles, RoleOf, Live, In
<1>3. Counted
  BY DEF Init, Counted, NoTree
<1>4. OwnTrees
  BY IdleJob DEF Init, OwnTrees, Live, In, Commands
<1> QED BY <1>1, <1>2, <1>3, <1>4 DEF StoreInv

(* A command is of one kind only.                                          *)
LEMMA Kinds ==
  ASSUME NEW p \in Commands
  PROVE  /\ p \in Scanners => p \notin Readers /\ p \notin Setters
         /\ p \in Readers => p \notin Scanners /\ p \notin Setters
         /\ p \in Setters => p \notin Scanners /\ p \notin Readers
         /\ p \in Scanners \cup Readers \cup Setters
  BY StoreConstants DEF Commands, Readers

(* A command gets the job j while directories, and the jobs of the others, *)
(* stay as they are.                                                       *)
LEMMA JobMoves ==
  ASSUME StoreInv, NEW p \in Commands, NEW j,
         job' = [job EXCEPT ![p] = j], RoleOf(p, j), j.phase # "idle" => p \in cast.commands,
         p \in Scanners /\ j.phase # "idle" =>
           /\ Live(p) /\ j.tree = job[p].tree /\ (~j.out => ~job[p].out)
           /\ HasBuilt(j) => HasBuilt(job[p]) /\ j.view = job[p].view,
         j.doomed \in {0, job[p].doomed, generated, previous},
         current' \in Versions, UNCHANGED <<disk, cast, scans>>,
         faults' \in Nat, crashes' \in Nat, lapsed' \in BOOLEAN
  PROVE  StoreInv'
<1>1. job' \in [Commands -> Jobs] /\ job'[p] = j /\ (\A q \in Commands : q # p => job'[q] = job[q])
  BY DEF StoreInv, StoreTypeOK, RoleOf
<1>2. StoreTypeOK'
  BY <1>1 DEF StoreInv, StoreTypeOK, disk
<1>3. Roles'
  BY <1>1 DEF StoreInv, Roles, RoleOf, Live, In
<1>4. Counted'
  BY DEF StoreInv, Counted, disk
<1>5. ASSUME NEW q \in Scanners, Live(q)' PROVE Owned(q)'
  <2>1. q \in Commands /\ Scanners \subseteq Commands
    BY DEF Commands
  <2>2. Live(q) /\ Owned(q)
    BY <1>1, <1>5, <2>1 DEF StoreInv, OwnTrees, Live, In
  <2>3. job'[q].tree = job[q].tree /\ (~job'[q].out => ~job[q].out)
    BY <1>1, <1>5, <2>1 DEF Live, In
  <2>4. \A r \in Scanners : Live(r)' => Live(r) /\ job'[r].tree = job[r].tree
    BY <1>1, <2>1 DEF Live, In
  <2>5. ASSUME ~job'[q].out PROVE Apart(q)'
    <3>1. Apart(q)
      BY <2>2, <2>3, <2>5 DEF Owned
    <3>2. job[q].tree \in 1 .. scans
      BY <2>2 DEF Owned
    <3>3. scans \in Nat
      BY DEF StoreInv, Counted
    <3>4. j.doomed # job[q].tree
      BY <3>1, <3>2, <3>3, <2>1 DEF Apart
    <3> QED BY <1>1, <2>3, <3>1, <3>4 DEF Apart, disk
  <2>6. HasBuilt(job'[q]) => HasBuilt(job[q]) /\ job'[q].view = job[q].view
    BY <1>1, <1>5, <2>1 DEF Live, In
  <2> QED BY <2>2, <2>3, <2>4, <2>5, <2>6 DEF Owned, disk
<1> QED BY <1>2, <1>3, <1>4, <1>5 DEF StoreInv, OwnTrees

(* The same where only the phase changes.                                  *)
LEMMA PhaseMoves ==
  ASSUME StoreInv, NEW p \in Commands, NEW ph \in Phases, Goto(p, ph),
         Live(p), ph # "idle",
         p \in Scanners => ScanJob([job[p] EXCEPT !.phase = ph]),
         p \in Readers => ReadJob([job[p] EXCEPT !.phase = ph]),
         p \in Setters => SetJob([job[p] EXCEPT !.phase = ph]),
         p \in Scanners /\ HasBuilt([job[p] EXCEPT !.phase = ph]) => HasBuilt(job[p]),
         current' \in Versions, UNCHANGED <<disk, cast, scans>>, faults' \in Nat, crashes' \in Nat, lapsed' \in BOOLEAN
  PROVE  StoreInv'
<1> DEFINE j == [job[p] EXCEPT !.phase = ph]
<1>1. job[p] \in Jobs /\ RoleOf(p, job[p]) /\ p \in cast.commands
  BY DEF StoreInv, StoreTypeOK, Roles
<1>2. job' = [job EXCEPT ![p] = j]
  BY DEF Goto
<1>3. j \in Jobs /\ j.phase = ph /\ j.tree = job[p].tree /\ j.out = job[p].out
      /\ j.view = job[p].view /\ j.doomed = job[p].doomed
  BY <1>1 DEF Jobs
<1>4. RoleOf(p, j)
  BY <1>1, <1>3 DEF RoleOf
<1> QED BY <1>1, <1>2, <1>3, <1>4, JobMoves

-----------------------------------------------------------------------------
(* The steps that only move a command on.                                  *)
LEMMA JobHere ==
  ASSUME StoreInv, NEW p \in Commands
  PROVE  /\ job[p] \in Jobs /\ RoleOf(p, job[p])
         /\ Live(p) => p \in cast.commands
         /\ p \in Scanners => ScanJob(job[p])
         /\ p \in Readers => ReadJob(job[p])
         /\ p \in Setters => SetJob(job[p])
  BY DEF StoreInv, StoreTypeOK, Roles, RoleOf

LEMMA PhaseFields ==
  ASSUME NEW j \in Jobs, NEW ph \in Phases
  PROVE  /\ [j EXCEPT !.phase = ph] \in Jobs
         /\ [j EXCEPT !.phase = ph].phase = ph
         /\ [j EXCEPT !.phase = ph].out = j.out
         /\ [j EXCEPT !.phase = ph].replaced = j.replaced
  BY DEF Jobs

(* What is left as it is by a step that neither fails nor starts a scan.   *)
LEMMA Untouched ==
  ASSUME StoreInv, UNCHANGED <<current, bounds>>
  PROVE  /\ current' \in Versions /\ UNCHANGED <<cast, scans>>
         /\ faults' \in Nat /\ crashes' \in Nat /\ lapsed' \in BOOLEAN
  BY DEF StoreInv, StoreTypeOK, Counted, bounds

LEMMA RaisedStep ==
  ASSUME StoreInv, NEW p \in Commands, Live(p), ~In(p, "done"), ~In(p, "failed"),
         Goto(p, Raised(p)), current' = current, UNCHANGED <<disk, cast, scans>>,
         faults' \in Nat, crashes' \in Nat, lapsed' \in BOOLEAN
  PROVE  StoreInv'
<1>1. /\ Raised(p) \in {"restore", "failed"} /\ Raised(p) \in Phases
      /\ Raised(p) = "restore" => job[p].replaced /\ job[p].phase \notin {"restore", "putback"}
  BY DEF Raised, Phases, In
<1>2. p \in Scanners => ScanJob([job[p] EXCEPT !.phase = Raised(p)])
  BY <1>1, JobHere, PhaseFields DEF ScanJob, Raised
<1>3. p \in Readers => ReadJob([job[p] EXCEPT !.phase = Raised(p)])
  BY <1>1, JobHere, PhaseFields DEF ReadJob, Raised
<1>4. p \in Setters => SetJob([job[p] EXCEPT !.phase = Raised(p)])
  BY <1>1, JobHere, PhaseFields DEF SetJob, Raised
<1>5. p \in Scanners /\ HasBuilt([job[p] EXCEPT !.phase = Raised(p)]) => HasBuilt(job[p])
  BY <1>1, JobHere, PhaseFields DEF ScanJob, HasBuilt, In
<1>6. current' \in Versions
  BY DEF StoreInv, StoreTypeOK
<1> HIDE DEF Raised
<1> QED BY <1>1, <1>2, <1>3, <1>4, <1>5, <1>6, PhaseMoves

LEMMA RaiseStep == ASSUME StoreInv, NEW p \in Commands, Raise(p) PROVE StoreInv'
<1>1. Live(p) /\ ~In(p, "done") /\ ~In(p, "failed")
  BY DEF Raise, Raises, In, Live
<1> QED BY <1>1, Untouched, RaisedStep DEF Raise

LEMMA FaultStep == ASSUME StoreInv, NEW p \in Commands, Fault(p) PROVE StoreInv'
<1>1. faults' \in Nat /\ crashes' \in Nat /\ lapsed' \in BOOLEAN
  BY DEF Fault, StoreInv, StoreTypeOK, Counted
<1> QED BY <1>1, RaisedStep DEF Fault, Live

(* A scanner that has not replaced anything and moves on.                  *)
LEMMA ScanMoves ==
  ASSUME StoreInv, NEW p \in Commands, p \in Scanners,
         NEW ph \in {"open", "look", "move", "publish", "rmdir", "putback", "failed"},
         Goto(p, ph), UNCHANGED <<current, disk, bounds>>,
         job[p].phase \in {"find", "look", "unlink", "restore", "putback"},
         ph \in {"look", "move", "publish"} => ~job[p].out /\ ~job[p].replaced,
         ph \in {"open", "rmdir"} /\ job[p].replaced => job[p].out,
         ph = "putback" => job[p].replaced
  PROVE  StoreInv'
<1>1. ph \in Phases /\ ph # "idle" /\ Live(p)
  BY DEF Phases, Live, In
<1>2. ScanJob([job[p] EXCEPT !.phase = ph])
  BY <1>1, JobHere, PhaseFields DEF ScanJob
<1>3. HasBuilt([job[p] EXCEPT !.phase = ph]) => HasBuilt(job[p])
  BY <1>1, JobHere, PhaseFields DEF ScanJob, HasBuilt
<1> QED BY <1>1, <1>2, <1>3, Kinds, Untouched, PhaseMoves

LEMMA FindBackupStep == ASSUME StoreInv, NEW p \in Scanners, FindBackup(p) PROVE StoreInv'
<1>1. p \in Commands
  BY DEF Commands
<1>2. ~job[p].out /\ ~job[p].replaced
  BY <1>1, JobHere DEF ScanJob, FindBackup, In
<1> QED BY <1>1, <1>2, ScanMoves DEF FindBackup, In

LEMMA LookForGeneratedStep ==
  ASSUME StoreInv, NEW p \in Scanners, LookForGenerated(p) PROVE StoreInv'
<1>1. p \in Commands
  BY DEF Commands
<1>2. ~job[p].out /\ ~job[p].replaced
  BY <1>1, JobHere DEF ScanJob, LookForGenerated, In
<1> QED BY <1>1, <1>2, ScanMoves DEF LookForGenerated, In

LEMMA RestoreStep == ASSUME StoreInv, NEW p \in Scanners, Restore(p) PROVE StoreInv'
<1>1. p \in Commands
  BY DEF Commands
<1>2. job[p].replaced
  BY <1>1, JobHere DEF ScanJob, Restore, In
<1> QED BY <1>1, <1>2, ScanMoves DEF Restore, In

(* A reader that moves on.                                                 *)
LEMMA ReadMoves ==
  ASSUME StoreInv, NEW p \in Commands, p \notin Scanners, NEW ph \in {"manifest", "documents", "failed"},
         job[p].phase \in {"snapshot", "manifest", "documents"}, Goto(p, ph),
         UNCHANGED <<current, disk, bounds>>
  PROVE  StoreInv'
<1>1. ph \in Phases /\ ph # "idle" /\ Live(p)
  BY DEF Phases, Live, In
<1>2. p \notin Setters /\ p \in Readers
  BY JobHere, Kinds DEF SetJob
<1>3. ReadJob([job[p] EXCEPT !.phase = ph])
  BY <1>1, <1>2, JobHere, PhaseFields DEF ReadJob
<1> QED BY <1>1, <1>2, <1>3, Untouched, PhaseMoves

(* Only readers read.                                                      *)
LEMMA WhoReads ==
  ASSUME StoreInv, NEW p \in Commands, job[p].phase \in {"manifest", "documents", "render", "write"}
  PROVE  p \in Readers /\ p \notin Scanners /\ p \notin Setters
  BY JobHere, Kinds DEF ScanJob, SetJob

LEMMA ReadManifestStep == ASSUME StoreInv, NEW p \in Commands, ReadManifest(p) PROVE StoreInv'
<1>1. p \notin Scanners /\ In(p, "manifest")
  BY WhoReads DEF ReadManifest, In
<1> QED BY <1>1, ReadMoves DEF ReadManifest, In

(* A reader that reads on, and keeps what it has read.                     *)
LEMMA ReaderJob ==
  ASSUME StoreInv, NEW p \in Commands, p \notin Scanners, NEW j \in Jobs, Live(p),
         ReadJob(j), p \in Readers, j.phase # "idle", j.doomed = job[p].doomed,
         job' = [job EXCEPT ![p] = j], UNCHANGED <<current, disk, bounds>>
  PROVE  StoreInv'
<1>1. RoleOf(p, j)
  BY JobHere, Kinds DEF RoleOf
<1> QED BY <1>1, JobHere, Untouched, JobMoves

LEMMA ReadDocumentsStep == ASSUME StoreInv, NEW p \in Commands, ReadDocuments(p) PROVE StoreInv'
<1>1. p \notin Scanners /\ p \in Readers /\ In(p, "documents") /\ Live(p)
  BY WhoReads DEF ReadDocuments, In, Live
<1>2. CASE Holds("documents") /\ DigestsMatch(p, made[generated])
  <2> DEFINE j == [job[p] EXCEPT !.found = made[generated],
                                 !.phase = IF p \in Reporters THEN "render" ELSE "done"]
  <2>1. job' = [job EXCEPT ![p] = j]
    BY <1>2 DEF ReadDocuments
  <2>2. made[generated] \in Versions
    BY <1>2 DEF Holds, StoreInv, StoreTypeOK
  <2>3. j \in Jobs /\ j.out = job[p].out /\ j.replaced = job[p].replaced
        /\ j.doomed = job[p].doomed /\ j.phase \in {"render", "done"}
    <3>1. job[p] \in Jobs
      BY JobHere
    <3> QED BY <2>2, <3>1 DEF Jobs, Phases
  <2>4. ReadJob(j)
    BY <1>1, <2>3, JobHere DEF ReadJob
  <2> QED BY <1>1, <2>1, <2>3, <2>4, ReaderJob DEF ReadDocuments
<1>3. CASE ~(Holds("documents") /\ DigestsMatch(p, made[generated]))
  BY <1>1, <1>3, ReadMoves DEF ReadDocuments, In
<1> QED BY <1>2, <1>3

LEMMA OpenForReportStep == ASSUME StoreInv, NEW p \in Commands, OpenForReport(p) PROVE StoreInv'
<1>1. p \notin Scanners /\ p \in Readers /\ In(p, "render") /\ Live(p)
  BY WhoReads DEF OpenForReport, In, Live
<1> DEFINE j == [job[p] EXCEPT !.tree = generated, !.phase = "write"]
<1>2. job' = [job EXCEPT ![p] = j]
  BY DEF OpenForReport
<1>3. generated \in Trees
  BY DEF OpenForReport, StoreInv, StoreTypeOK
<1>4. j \in Jobs /\ j.out = job[p].out /\ j.replaced = job[p].replaced
      /\ j.doomed = job[p].doomed /\ j.phase = "write"
  <2>1. job[p] \in Jobs
    BY JobHere
  <2> QED BY <1>3, <2>1 DEF Jobs, Phases
<1>5. ReadJob(j)
  BY <1>1, <1>4, JobHere DEF ReadJob
<1> QED BY <1>1, <1>2, <1>4, <1>5, ReaderJob DEF OpenForReport

(* A command that has ended, or dies, is idle again.                       *)
LEMMA IdleAgain ==
  ASSUME StoreInv, NEW p \in Commands, job' = [job EXCEPT ![p] = Idle],
         current' = current, UNCHANGED <<disk, cast, scans>>, faults' \in Nat, crashes' \in Nat, lapsed' \in BOOLEAN
  PROVE  StoreInv'
<1>1. RoleOf(p, Idle)
  BY IdleJob DEF RoleOf, StoreInv, Counted
<1>2. current' \in Versions
  BY DEF StoreInv, StoreTypeOK
<1> QED BY <1>1, <1>2, IdleJob, JobMoves

LEMMA EndStep == ASSUME StoreInv, NEW p \in Commands, End(p) PROVE StoreInv'
  BY Untouched, IdleAgain DEF End

LEMMA CrashStep == ASSUME StoreInv, NEW p \in Commands, Crash(p) PROVE StoreInv'
<1>1. faults' \in Nat /\ crashes' \in Nat /\ lapsed' \in BOOLEAN
  BY DEF Crash, StoreInv, StoreTypeOK, Counted
<1> QED BY <1>1, IdleAgain DEF Crash

(* A directory that is being opened is one the store has names for.        *)
LEMMA OpenTreeStep == ASSUME StoreInv, NEW p \in Commands, OpenTree(p) PROVE StoreInv'
<1>1. In(p, "open") /\ Live(p) /\ p \notin Readers /\ UNCHANGED <<current, disk, bounds>>
  BY JobHere DEF OpenTree, In, Live, ReadJob
<1>2. ~job[p].replaced \/ job[p].out
  BY <1>1, JobHere, Kinds DEF ScanJob, SetJob, In
<1>3. CASE Target(p) # NoTree /\ job' = [job EXCEPT ![p].phase = "unlink", ![p].doomed = Target(p),
                                                   ![p].todo = files[Target(p)]]
  <2> DEFINE j == [job[p] EXCEPT !.phase = "unlink", !.doomed = Target(p),
                                 !.todo = files[Target(p)]]
  <2>1. job' = [job EXCEPT ![p] = j]
    BY <1>3
  <2>2. Target(p) \in Trees /\ Target(p) \in {generated, previous} /\ Target(p) <= scans
    BY <1>3 DEF Target, StoreInv, StoreTypeOK, Counted
  <2>3. files[Target(p)] \in SUBSET Files
    BY <2>2 DEF StoreInv, StoreTypeOK
  <2>4. j \in Jobs /\ j.phase = "unlink" /\ j.doomed = Target(p) /\ j.tree = job[p].tree
        /\ j.out = job[p].out /\ j.replaced = job[p].replaced /\ j.view = job[p].view
    <3>1. job[p] \in Jobs
      BY JobHere
    <3> QED BY <2>2, <2>3, <3>1 DEF Jobs, Phases
  <2>5. RoleOf(p, j)
    BY <1>1, <1>2, <2>2, <2>4, JobHere, Kinds DEF RoleOf, ScanJob, SetJob
  <2>6. HasBuilt(j) => HasBuilt(job[p])
    BY <1>1, <2>4 DEF HasBuilt, In
  <2> QED BY <1>1, <2>1, <2>2, <2>4, <2>5, <2>6, JobHere, Untouched, JobMoves
<1>4. CASE p \in Setters /\ Goto(p, "done")
  <2>1. SetJob([job[p] EXCEPT !.phase = "done"]) /\ "done" \in Phases
    BY <1>4, JobHere, PhaseFields DEF SetJob, Phases
  <2> QED BY <1>1, <1>4, <2>1, Kinds, Untouched, PhaseMoves
<1> QED BY <1>3, <1>4 DEF OpenTree

(* A snapshot is taken of one more source, or they have all been taken.    *)
LEMMA SnapshotStep == ASSUME StoreInv, NEW p \in Commands, Snapshot(p) PROVE StoreInv'
<1>1. In(p, "snapshot") /\ Live(p) /\ UNCHANGED <<current, disk, bounds>> /\ job[p] \in Jobs
  BY JobHere DEF Snapshot, Live, In
<1>2. p \notin Setters /\ (p \in Scanners => ~job[p].out /\ ~job[p].replaced)
  BY <1>1, JobHere DEF SetJob, ScanJob, In
<1>3. ASSUME NEW s \in job[p].left,
             job' = [job EXCEPT ![p].view.content[s] = current.content[s], ![p].left = @ \ {s}]
      PROVE  StoreInv'
  <2> DEFINE j == [job[p] EXCEPT !.view.content[s] = current.content[s], !.left = @ \ {s}]
  <2>1. job' = [job EXCEPT ![p] = j]
    BY <1>3
  <2>2. current.content[s] \in Contents /\ job[p].view \in Versions
    BY <1>1, <1>3 DEF StoreInv, StoreTypeOK, Versions, Jobs
  <2>3. [job[p].view EXCEPT !.content[s] = current.content[s]] \in Versions
    BY <2>2 DEF Versions
  <2>4. j \in Jobs /\ j.phase = "snapshot" /\ j.tree = job[p].tree /\ j.doomed = job[p].doomed
        /\ j.out = job[p].out /\ j.replaced = job[p].replaced
    BY <1>1, <2>3 DEF Jobs, In
  <2> HIDE DEF j
  <2>5. RoleOf(p, j)
    BY <1>1, <1>2, <2>4, JobHere, Kinds DEF RoleOf, ScanJob, ReadJob
  <2>6. p \in Scanners => ~HasBuilt(j)
    BY <2>4 DEF HasBuilt
  <2> QED BY <1>1, <2>1, <2>4, <2>5, <2>6, JobHere, Untouched, JobMoves
<1>4. ASSUME NEW ph \in Phases, ph = (IF p \in Scanners THEN "build" ELSE "manifest"), Goto(p, ph)
      PROVE  StoreInv'
  <2>1. p \in Scanners => ScanJob([job[p] EXCEPT !.phase = ph]) /\ ~HasBuilt([job[p] EXCEPT !.phase = ph])
    BY <1>1, <1>2, <1>4, JobHere, PhaseFields DEF ScanJob, HasBuilt
  <2>2. p \in Readers => ReadJob([job[p] EXCEPT !.phase = ph])
    BY <1>1, <1>4, JobHere, PhaseFields, Kinds DEF ReadJob
  <2> QED BY <1>1, <1>2, <1>4, <2>1, <2>2, Untouched, PhaseMoves
<1>5. (IF p \in Scanners THEN "build" ELSE "manifest") \in Phases
  BY DEF Phases
<1> QED BY <1>3, <1>4, <1>5 DEF Snapshot

-----------------------------------------------------------------------------
(* The steps that change a directory or a name.                            *)
LEMMA StartStep == ASSUME StoreInv, NEW p \in Commands, Start(p) PROVE StoreInv'
<1> DEFINE j == [Idle EXCEPT !.phase = "snapshot", !.view = current, !.left = cast.sources,
                             !.seen = [s \in Sources |-> {current.content[s]}],
                             !.tree = IF p \in Scanners THEN scans + 1 ELSE 0]
<1>1. /\ job' = [job EXCEPT ![p] = j] /\ In(p, "idle") /\ p \in cast.commands \ Setters
      /\ p \in Scanners => scans < MaxScans
      /\ scans' = (IF p \in Scanners THEN scans + 1 ELSE scans)
      /\ UNCHANGED <<current, generated, previous, files, made, cast, faults, crashes, lapsed>>
  BY DEF Start, disk
<1>2. scans \in 0 .. MaxScans /\ MaxScans \in Nat /\ current \in Versions
  BY StoreConstants DEF StoreInv, StoreTypeOK, Counted
<1>3. scans' \in 0 .. MaxScans /\ scans <= scans'
  BY <1>1, <1>2
<1>4. j \in Jobs /\ j.phase = "snapshot" /\ j.doomed = 0 /\ j.out = FALSE /\ j.replaced = FALSE
      /\ (p \in Scanners => j.tree = scans + 1)
  <2>1. Idle.doomed = 0 /\ Idle.out = FALSE /\ Idle.replaced = FALSE
    BY DEF Idle
  <2>2. /\ [s \in Sources |-> {current.content[s]}] \in [Sources -> SUBSET Contents]
        /\ cast.sources \subseteq Sources /\ (p \in Scanners => scans + 1 \in Trees) /\ 0 \in Trees
    BY <1>1, <1>2, StoreConstants DEF Versions, Trees, StoreInv, StoreTypeOK
  <2> QED BY <1>2, <2>1, <2>2, IdleJob DEF Jobs, Phases
<1> HIDE DEF j
<1>5. job' \in [Commands -> Jobs] /\ job'[p] = j /\ (\A q \in Commands : q # p => job'[q] = job[q])
  BY <1>1, <1>4 DEF StoreInv, StoreTypeOK
<1>6. StoreTypeOK'
  BY <1>1, <1>5 DEF StoreInv, StoreTypeOK
<1>7. Counted'
  BY <1>1, <1>2, <1>3 DEF StoreInv, Counted, StoreTypeOK, Trees
<1>8. ASSUME NEW q \in Commands PROVE RoleOf(q, job[q])' /\ (Live(q)' => q \in cast'.commands)
  <2>1. CASE q = p
    BY <1>1, <1>2, <1>3, <1>4, <1>5, <2>1, Kinds DEF RoleOf, ScanJob, ReadJob
  <2>2. CASE q # p
    <3>1. job'[q] = job[q] /\ RoleOf(q, job[q]) /\ job[q].doomed \in Trees
      BY <1>5, <2>2, JobHere DEF Jobs
    <3> QED BY <1>1, <1>2, <1>3, <3>1, JobHere DEF RoleOf, Live, In, Trees
  <2> QED BY <2>1, <2>2
<1>9. ASSUME NEW q \in Scanners, Live(q)' PROVE Owned(q)'
  <2>1. q \in Commands /\ Scanners \subseteq Commands
    BY DEF Commands
  <2>2. \A r \in Commands : job[r].doomed \in Nat /\ job[r].doomed <= scans
    BY <1>2, JobHere DEF RoleOf, Jobs, Trees
  <2>3. \A r \in Scanners : Live(r) => job[r].tree \in 1 .. scans
    BY DEF StoreInv, OwnTrees, Owned
  <2>4. \A n \in {generated, previous} : n # scans + 1 \/ scans = MaxScans
    BY <1>2 DEF StoreInv, Counted, StoreTypeOK, Trees, NoTree
  <2>5. \A r \in Commands : job'[r].doomed # scans + 1
    BY <1>2, <1>4, <1>5, <2>2
  <2>6. CASE q = p
    <3>1. job'[q].tree = scans + 1 /\ scans' = scans + 1 /\ ~job'[q].out /\ job'[q].phase = "snapshot"
          /\ scans # MaxScans
      BY <1>1, <1>2, <1>4, <1>5, <2>6
    <3>2. \A r \in Scanners : Live(r)' /\ r # q => job'[r].tree # job'[q].tree
      BY <1>2, <1>5, <2>1, <2>3, <2>6, <3>1 DEF Live, In
    <3>3. Apart(q)'
      BY <1>1, <2>4, <2>5, <3>1 DEF Apart
    <3> QED BY <1>2, <3>1, <3>2, <3>3 DEF Owned, HasBuilt
  <2>7. CASE q # p
    <3>1. job'[q] = job[q] /\ Live(q) /\ Owned(q)
      BY <1>5, <1>9, <2>1, <2>7 DEF StoreInv, OwnTrees, Live, In
    <3>2. \A r \in Scanners : Live(r)' /\ r # q => job'[r].tree # job'[q].tree
      BY <1>2, <1>4, <1>5, <2>1, <2>3, <3>1 DEF Live, In, Owned
    <3>3. ~job'[q].out => Apart(q)'
      BY <1>1, <1>2, <1>4, <1>5, <3>1 DEF Owned, Apart
    <3> QED BY <1>1, <1>2, <1>3, <3>1, <3>2, <3>3 DEF Owned
  <2> QED BY <2>6, <2>7
<1> QED BY <1>6, <1>7, <1>8, <1>9 DEF StoreInv, Roles, OwnTrees

(* A live command gets the job j while names or files change, except those *)
(* of the directories that other scans have built.                         *)
LEMMA DiskMoves ==
  ASSUME StoreInv, NEW p \in Commands, NEW j, Live(p), j.phase # "idle",
         job' = [job EXCEPT ![p] = j], RoleOf(p, j), j.doomed = job[p].doomed,
         p \in Scanners => j.tree = job[p].tree /\ (~j.out => ~job[p].out),
         UNCHANGED <<current, cast, scans>>,
         faults' \in Nat, crashes' \in Nat, lapsed' \in BOOLEAN,
         files' \in [Trees -> SUBSET Files], made' \in [Trees -> Versions],
         \/ generated' \in {generated, previous, NoTree}
         \/ p \in Scanners /\ j.out /\ generated' = job[p].tree,
         previous' \in {generated, previous, NoTree},
         generated' = previous' => generated' = NoTree,
         generated' = 0 => previous' = NoTree,
         p \in Scanners /\ HasBuilt(j) =>
           files'[job[p].tree] = Files /\ made'[job[p].tree] = j.view,
         \A q \in Scanners : q # p /\ Live(q) /\ HasBuilt(job[q]) =>
           files'[job[q].tree] = Files /\ made'[job[q].tree] = made[job[q].tree]
  PROVE  StoreInv'
<1>1. job' \in [Commands -> Jobs] /\ job'[p] = j /\ (\A q \in Commands : q # p => job'[q] = job[q])
  BY DEF StoreInv, StoreTypeOK, RoleOf
<1>2. scans \in 0 .. MaxScans /\ MaxScans \in Nat /\ Scanners \subseteq Commands
      /\ NoTree \notin Trees /\ 1 .. scans \subseteq Trees
  BY StoreConstants DEF StoreInv, Counted, Commands, Trees, NoTree
<1>3. p \in Scanners => job[p].tree \in 1 .. scans
  BY DEF StoreInv, OwnTrees, Owned
<1>5. StoreTypeOK'
  BY <1>1, <1>2, <1>3 DEF StoreInv, StoreTypeOK
<1>6. Roles'
  BY <1>1 DEF StoreInv, Roles, RoleOf, Live, In
<1>7. Counted'
  BY <1>1, <1>2, <1>3 DEF StoreInv, Counted
<1>8. ASSUME NEW q \in Scanners, Live(q)' PROVE Owned(q)'
  <2>1. q \in Commands /\ Live(q) /\ Owned(q)
    BY <1>1, <1>2, <1>8 DEF StoreInv, OwnTrees, Live, In
  <2>2. job'[q].tree = job[q].tree /\ (~job'[q].out => ~job[q].out)
    BY <1>1, <1>8, <2>1
  <2>3. \A r \in Scanners : Live(r)' => Live(r) /\ job'[r].tree = job[r].tree
    BY <1>1, <1>2 DEF Live, In
  <2>4. \A r \in Commands : job'[r].doomed = job[r].doomed
    BY <1>1
  <2>5. ASSUME ~job'[q].out PROVE Apart(q)'
    <3>1. Apart(q) /\ job[q].tree \in 1 .. scans /\ job[q].tree # NoTree
      BY <1>2, <2>1, <2>2, <2>5 DEF Owned
    <3>2. p \in Scanners /\ j.out => job[p].tree # job[q].tree
      BY <1>1, <2>1, <2>5 DEF Owned
    <3> QED BY <2>2, <2>4, <3>1, <3>2 DEF Apart
  <2>6. HasBuilt(job'[q]) => files'[job'[q].tree] = Files /\ made'[job'[q].tree] = job'[q].view
    BY <1>1, <2>1, <2>2 DEF Owned
  <2> QED BY <2>1, <2>2, <2>3, <2>5, <2>6 DEF Owned
<1> QED BY <1>5, <1>6, <1>7, <1>8 DEF StoreInv, OwnTrees

LEMMA BuildStep == ASSUME StoreInv, NEW p \in Scanners, Build(p) PROVE StoreInv'
<1> DEFINE j == [job[p] EXCEPT !.phase = "find", !.before = generated]
<1> DEFINE t == job[p].tree
<1>1. /\ p \in Commands /\ In(p, "build") /\ Live(p) /\ job' = [job EXCEPT ![p] = j]
      /\ files' = [files EXCEPT ![t] = Files] /\ made' = [made EXCEPT ![t] = job[p].view]
      /\ UNCHANGED <<current, generated, previous, bounds>>
  BY DEF Build, In, Live, Commands
<1>2. j \in Jobs /\ j.phase = "find" /\ j.tree = t /\ j.doomed = job[p].doomed
      /\ j.out = job[p].out /\ j.replaced = job[p].replaced /\ j.view = job[p].view
  <2>1. job[p] \in Jobs
    BY <1>1, JobHere
  <2>2. generated \in Trees \cup {NoTree}
    BY DEF StoreInv, StoreTypeOK
  <2> QED BY <2>1, <2>2 DEF Jobs, Phases
<1> HIDE DEF j
<1>3. RoleOf(p, j)
  BY <1>1, <1>2, JobHere, Kinds DEF RoleOf, ScanJob, In
<1>4. Owned(p) /\ t \in Trees /\ job[p].view \in Versions
  BY <1>1, JobHere DEF StoreInv, OwnTrees, Jobs
<1>5. files' \in [Trees -> SUBSET Files] /\ made' \in [Trees -> Versions]
  BY <1>1, <1>4 DEF StoreInv, StoreTypeOK
<1>6. files'[t] = Files /\ made'[t] = j.view
  BY <1>1, <1>2, <1>4 DEF StoreInv, StoreTypeOK
<1>7. \A q \in Scanners : q # p /\ Live(q) /\ HasBuilt(job[q]) =>
        files'[job[q].tree] = Files /\ made'[job[q].tree] = made[job[q].tree]
  <2>1. SUFFICES ASSUME NEW q \in Scanners, q # p, Live(q), HasBuilt(job[q])
                 PROVE  files'[job[q].tree] = Files /\ made'[job[q].tree] = made[job[q].tree]
    OBVIOUS
  <2>2. q \in Commands /\ Owned(q) /\ job[q].tree \in Trees /\ job[q].tree # t
    BY <1>4, <2>1, JobHere DEF StoreInv, OwnTrees, Owned, Commands, Jobs
  <2> QED BY <1>1, <2>1, <2>2 DEF StoreInv, StoreTypeOK, Owned
<1>8. generated' = previous' => generated' = NoTree
  BY <1>1 DEF StoreInv, StoreTypeOK
<1>9. generated' = 0 => previous' = NoTree
  BY <1>1 DEF StoreInv, Counted
<1> QED BY <1>1, <1>2, <1>3, <1>5, <1>6, <1>7, <1>8, <1>9, Untouched, DiskMoves

(* The steps that change names leave every directory as it is.             *)
LEMMA NamesMove ==
  ASSUME StoreInv, NEW p \in Scanners, NEW j, Live(p), j.phase # "idle",
         job' = [job EXCEPT ![p] = j], RoleOf(p, j), j.doomed = job[p].doomed,
         j.tree = job[p].tree, ~j.out => ~job[p].out,
         HasBuilt(j) => HasBuilt(job[p]) /\ j.view = job[p].view,
         UNCHANGED <<current, files, made, cast, scans>>,
         faults' \in Nat, crashes' \in Nat, lapsed' \in BOOLEAN,
         \/ generated' \in {generated, previous, NoTree}
         \/ j.out /\ generated' = job[p].tree,
         previous' \in {generated, previous, NoTree},
         generated' = previous' => generated' = NoTree,
         generated' = 0 => previous' = NoTree
  PROVE  StoreInv'
<1>1. p \in Commands /\ files' \in [Trees -> SUBSET Files] /\ made' \in [Trees -> Versions]
  BY DEF StoreInv, StoreTypeOK, Commands
<1>2. \A q \in Scanners : Live(q) /\ HasBuilt(job[q]) =>
        files'[job[q].tree] = Files /\ made'[job[q].tree] = job[q].view
        /\ made'[job[q].tree] = made[job[q].tree]
  BY DEF StoreInv, OwnTrees, Owned
<1> QED BY <1>1, <1>2, DiskMoves

(* The first rename, as far as the job gets by it.                         *)
LEMMA AsideMoves ==
  ASSUME StoreInv, NEW p \in Scanners, RenamesAside(p), NEW j \in Jobs, job' = [job EXCEPT ![p] = j],
         \/ j.phase = "publish" /\ j.replaced
         \/ j.phase = "failed" /\ ~j.replaced,
         j.tree = job[p].tree, j.doomed = job[p].doomed, j.out = job[p].out, j.view = job[p].view,
         UNCHANGED <<current, cast, scans>>, faults' \in Nat, crashes' \in Nat, lapsed' \in BOOLEAN
  PROVE  StoreInv'
<1>1. /\ p \in Commands /\ In(p, "move") /\ Live(p)
      /\ generated # NoTree /\ previous' = generated /\ generated' = NoTree
      /\ UNCHANGED <<files, made>>
  BY DEF RenamesAside, In, Live, Commands
<1>2. RoleOf(p, j) /\ ~job[p].out
  BY <1>1, JobHere, Kinds DEF RoleOf, ScanJob, In
<1>3. HasBuilt(job[p])
  BY <1>1, <1>2 DEF HasBuilt, In
<1>4. NoTree # 0
  BY StoreConstants DEF NoTree
<1> QED BY <1>1, <1>2, <1>3, <1>4, NamesMove

LEMMA MoveAsideStep == ASSUME StoreInv, NEW p \in Scanners, MoveAside(p) PROVE StoreInv'
<1> DEFINE j == [job[p] EXCEPT !.phase = "publish", !.replaced = TRUE]
<1>1. /\ p \in Commands /\ RenamesAside(p) /\ job' = [job EXCEPT ![p] = j]
      /\ UNCHANGED <<current, bounds>>
  BY DEF MoveAside, Commands
<1>2. j \in Jobs /\ j.phase = "publish" /\ j.tree = job[p].tree /\ j.doomed = job[p].doomed
      /\ j.out = job[p].out /\ j.replaced = TRUE /\ j.view = job[p].view
  <2>1. job[p] \in Jobs
    BY <1>1, JobHere
  <2> QED BY <1>1, <2>1 DEF Jobs, Phases
<1> QED BY <1>1, <1>2, Untouched, AsideMoves

(* The second, whether or not the call returns.                            *)
LEMMA OutMoves ==
  ASSUME StoreInv, NEW p \in Scanners, RenamesOut(p),
         NEW ph \in {"open", "done", "restore", "failed"}, Published(p, ph),
         ph = "restore" => job[p].replaced,
         UNCHANGED <<current, cast, scans>>, faults' \in Nat, crashes' \in Nat, lapsed' \in BOOLEAN
  PROVE  StoreInv'
<1> DEFINE j == [job[p] EXCEPT !.out = TRUE, !.phase = ph]
<1>1. /\ p \in Commands /\ In(p, "publish") /\ Live(p) /\ job' = [job EXCEPT ![p] = j]
      /\ generated' = job[p].tree /\ UNCHANGED <<previous, files, made>>
  BY DEF RenamesOut, Published, In, Live, Commands
<1>2. j \in Jobs /\ j.phase = ph
      /\ j.tree = job[p].tree /\ j.doomed = job[p].doomed
      /\ j.out = TRUE /\ j.replaced = job[p].replaced /\ j.view = job[p].view
  <2>1. job[p] \in Jobs
    BY <1>1, JobHere
  <2> QED BY <2>1 DEF Jobs, Phases
<1> HIDE DEF j
<1>3. RoleOf(p, j) /\ ~job[p].out
  BY <1>1, <1>2, JobHere, Kinds DEF RoleOf, ScanJob, In
<1>4. job[p].tree \in 1 .. scans /\ job[p].tree # previous /\ scans \in Nat
  BY <1>1, <1>3 DEF StoreInv, OwnTrees, Owned, Apart, Counted
<1>5. ~HasBuilt(j) /\ j.phase # "idle"
  BY <1>2 DEF HasBuilt
<1>6. generated' # previous' /\ generated' # 0
  BY <1>1, <1>4
<1> QED BY <1>1, <1>2, <1>3, <1>5, <1>6, NamesMove

LEMMA PublishStep == ASSUME StoreInv, NEW p \in Scanners, Publish(p) PROVE StoreInv'
  BY Untouched, OutMoves DEF Publish

LEMMA PutBackStep == ASSUME StoreInv, NEW p \in Scanners, PutBack(p) PROVE StoreInv'
<1> DEFINE j == [job[p] EXCEPT !.phase = "failed"]
<1>1. /\ p \in Commands /\ In(p, "putback") /\ Live(p) /\ job' = [job EXCEPT ![p] = j]
      /\ UNCHANGED <<current, files, made, bounds>>
      /\ \/ generated' = previous /\ previous' = NoTree
         \/ UNCHANGED <<generated, previous>>
  BY DEF PutBack, Goto, In, Live, Commands
<1>2. j \in Jobs /\ j.phase = "failed" /\ j.tree = job[p].tree /\ j.doomed = job[p].doomed
      /\ j.out = job[p].out /\ j.replaced = job[p].replaced
  BY <1>1, JobHere DEF Jobs, Phases
<1> HIDE DEF j
<1>3. RoleOf(p, j)
  BY <1>1, <1>2, JobHere, Kinds DEF RoleOf, ScanJob, In
<1>4. ~HasBuilt(j)
  BY <1>2 DEF HasBuilt
<1>5. /\ generated = previous => generated = NoTree
      /\ generated = 0 => previous = NoTree
  BY DEF StoreInv, StoreTypeOK, Counted
<1> QED BY <1>1, <1>2, <1>3, <1>4, <1>5, Untouched, NamesMove

(* No scan that is yet to publish has built a directory that is doomed or  *)
(* has a name.                                                             *)
LEMMA BuiltApart ==
  ASSUME StoreInv, NEW q \in Scanners, Live(q), HasBuilt(job[q])
  PROVE  /\ job[q].tree \in Trees /\ job[q].tree \notin {generated, previous}
         /\ \A p \in Commands : job[p].doomed # job[q].tree
         /\ files[job[q].tree] = Files
<1>1. q \in Commands /\ Owned(q) /\ ~job[q].out
  BY DEF StoreInv, OwnTrees, HasBuilt, Commands
<1> QED BY <1>1, JobHere DEF Owned, Apart, Jobs

LEMMA UnlinkStep == ASSUME StoreInv, NEW p \in Commands, Unlink(p) PROVE StoreInv'
<1>1. /\ In(p, "unlink") /\ Live(p) /\ UNCHANGED <<current, generated, previous, made, bounds>>
      /\ job[p] \in Jobs /\ job[p].doomed \in Trees
  BY JobHere DEF Unlink, In, Live, Jobs
<1>2. /\ generated' = previous' => generated' = NoTree
      /\ generated' = 0 => previous' = NoTree
      /\ made' \in [Trees -> Versions]
  BY <1>1 DEF StoreInv, StoreTypeOK, Counted
<1>3. p \notin Readers
  BY <1>1, JobHere DEF ReadJob, In
<1>4. CASE \E f \in job[p].todo \cap files[job[p].doomed] :
             /\ files' = [files EXCEPT ![job[p].doomed] = @ \ {f}]
             /\ job' = [job EXCEPT ![p].todo = @ \ {f}]
  <2>1. PICK f \in job[p].todo \cap files[job[p].doomed] :
             /\ files' = [files EXCEPT ![job[p].doomed] = @ \ {f}]
             /\ job' = [job EXCEPT ![p].todo = @ \ {f}]
    BY <1>4
  <2> DEFINE j == [job[p] EXCEPT !.todo = @ \ {f}]
  <2>2. job' = [job EXCEPT ![p] = j]
    BY <2>1
  <2>3. j \in Jobs /\ j.phase = job[p].phase /\ j.tree = job[p].tree /\ j.view = job[p].view
        /\ j.doomed = job[p].doomed /\ j.out = job[p].out /\ j.replaced = job[p].replaced
    BY <1>1 DEF Jobs
  <2> HIDE DEF j
  <2>4. RoleOf(p, j) /\ j.phase # "idle"
    BY <1>1, <1>3, <2>3, JobHere DEF RoleOf, ScanJob, SetJob, In
  <2>5. files' \in [Trees -> SUBSET Files]
    BY <1>1, <2>1 DEF StoreInv, StoreTypeOK
  <2>6. \A q \in Scanners : Live(q) /\ HasBuilt(job[q]) => files'[job[q].tree] = Files
    BY <1>1, <2>1, BuiltApart DEF StoreInv, StoreTypeOK
  <2>7. p \in Scanners /\ HasBuilt(j) => files'[job[p].tree] = Files /\ made'[job[p].tree] = j.view
    BY <1>1, <2>3, <2>6 DEF HasBuilt, StoreInv, OwnTrees, Owned
  <2> QED BY <1>1, <1>2, <2>2, <2>3, <2>4, <2>5, <2>6, <2>7, Untouched, DiskMoves
<1>5. CASE Goto(p, "rmdir") /\ UNCHANGED files
  <2>1. ScanJob(job[p]) => ScanJob([job[p] EXCEPT !.phase = "rmdir"])
    BY <1>1 DEF ScanJob, In, Jobs
  <2>2. SetJob(job[p]) => SetJob([job[p] EXCEPT !.phase = "rmdir"])
    BY <1>1 DEF SetJob, In, Jobs
  <2>3. HasBuilt([job[p] EXCEPT !.phase = "rmdir"]) => HasBuilt(job[p])
    BY <1>1 DEF HasBuilt, In, Jobs
  <2>4. UNCHANGED <<current, disk, bounds>> /\ "rmdir" \in Phases
    BY <1>1, <1>5 DEF disk, Phases
  <2> QED BY <1>1, <1>3, <1>5, <2>1, <2>2, <2>3, <2>4, JobHere, Untouched, PhaseMoves
<1> QED BY <1>4, <1>5 DEF Unlink

LEMMA ReportMoves ==
  ASSUME StoreInv, NEW p \in Commands, WritesReport(p), NEW ph \in {"done", "failed"}, Goto(p, ph),
         UNCHANGED <<current, cast, scans>>, faults' \in Nat, crashes' \in Nat, lapsed' \in BOOLEAN
  PROVE  StoreInv'
<1> DEFINE j == [job[p] EXCEPT !.phase = ph]
<1>1. /\ In(p, "write") /\ Live(p) /\ UNCHANGED <<generated, previous, made>>
      /\ job[p].tree \in {generated, previous} /\ job' = [job EXCEPT ![p] = j]
      /\ files' = [files EXCEPT ![job[p].tree] = @ \cup {"report"}]
  BY DEF WritesReport, Goto, In, Live
<1>2. /\ generated' = previous' => generated' = NoTree
      /\ generated' = 0 => previous' = NoTree
      /\ made' \in [Trees -> Versions]
  BY <1>1 DEF StoreInv, StoreTypeOK, Counted
<1>3. j \in Jobs /\ j.phase = ph /\ j.doomed = job[p].doomed
      /\ j.out = job[p].out /\ j.replaced = job[p].replaced
  BY JobHere DEF Jobs, Phases
<1> HIDE DEF j
<1>4. p \in Readers /\ p \notin Scanners /\ p \notin Setters
  BY <1>1, WhoReads DEF In
<1>5. RoleOf(p, j)
  BY <1>3, <1>4, JobHere DEF RoleOf, ReadJob
<1>6. files' \in [Trees -> SUBSET Files]
  BY <1>1 DEF StoreInv, StoreTypeOK, Files
<1>7. \A q \in Scanners : Live(q) /\ HasBuilt(job[q]) => files'[job[q].tree] = Files
  BY <1>1, BuiltApart DEF StoreInv, StoreTypeOK
<1> QED BY <1>1, <1>2, <1>3, <1>4, <1>5, <1>6, <1>7, DiskMoves

LEMMA WriteReportStep == ASSUME StoreInv, NEW p \in Commands, WriteReport(p) PROVE StoreInv'
  BY Untouched, ReportMoves DEF WriteReport

(* A `source` command moves on, what it does reaches into the histories of *)
(* the other commands, and generated/ may be gone.                         *)
LEMMA SetterMoves ==
  ASSUME StoreInv, job' \in [Commands -> Jobs],
         \A q \in Commands :
           /\ q \notin Setters => job'[q].phase = job[q].phase
           /\ q \in Setters => SetJob(job'[q]) /\ (Live(q)' => q \in cast.commands)
           /\ job'[q].phase = "idle" => job'[q] = Idle
           /\ job'[q].tree = job[q].tree /\ job'[q].view = job[q].view
           /\ job'[q].doomed = job[q].doomed
           /\ job'[q].out = job[q].out /\ job'[q].replaced = job[q].replaced,
         current' \in Versions, generated' \in {generated, NoTree},
         UNCHANGED <<previous, files, made, cast, scans>>,
         faults' \in Nat, crashes' \in Nat, lapsed' \in BOOLEAN
  PROVE  StoreInv'
<1>1. 0 # NoTree /\ NoTree \notin Trees
  BY StoreConstants DEF NoTree, Trees
<1>2. StoreTypeOK'
  BY <1>1 DEF StoreInv, StoreTypeOK
<1>3. Counted'
  BY <1>1 DEF StoreInv, Counted
<1>4. ASSUME NEW q \in Commands PROVE RoleOf(q, job[q])' /\ (Live(q)' => q \in cast'.commands)
  <2>1. job'[q] \in Jobs /\ RoleOf(q, job[q]) /\ (Live(q) => q \in cast.commands)
    BY JobHere
  <2>2. q \in Scanners => ScanJob(job'[q])
    BY <2>1, Kinds DEF RoleOf, ScanJob
  <2>3. q \in Readers => ReadJob(job'[q])
    BY <2>1, Kinds DEF RoleOf, ReadJob
  <2> QED BY <1>1, <2>1, <2>2, <2>3 DEF RoleOf, Live, In
<1>5. ASSUME NEW q \in Scanners, Live(q)' PROVE Owned(q)'
  <2>1. \A r \in Scanners : r \in Commands /\ r \notin Setters /\ (Live(r)' <=> Live(r))
    BY Kinds DEF Commands, Live, In
  <2>2. Owned(q) /\ HasBuilt(job[q])' = HasBuilt(job[q]) /\ job[q].tree \in 1 .. scans
    BY <1>5, <2>1 DEF StoreInv, OwnTrees, Owned, HasBuilt
  <2>3. job[q].tree # NoTree
    BY <2>2, StoreConstants DEF StoreInv, Counted, NoTree
  <2> QED BY <1>1, <2>1, <2>2, <2>3 DEF Owned, Apart
<1> QED BY <1>2, <1>3, <1>4, <1>5 DEF StoreInv, Roles, OwnTrees

LEMMA RemovesMoves ==
  ASSUME StoreInv, NEW p \in Commands, NEW ph \in {"look", "done", "restore", "failed"},
         RemovesName(p, ph),
         ph = "look" => p \in Scanners /\ ~job[p].out,
         ph = "done" => p \in Setters \/ job[p].out,
         ph = "restore" => job[p].replaced,
         UNCHANGED <<current, cast, scans>>, faults' \in Nat, crashes' \in Nat, lapsed' \in BOOLEAN
  PROVE  StoreInv'
<1>1. /\ In(p, "rmdir") /\ Live(p) /\ UNCHANGED <<files, made>>
      /\ job[p] \in Jobs /\ p \notin Readers
  BY JobHere DEF RemovesName, In, Live, ReadJob
<1> DEFINE j == [job[p] EXCEPT !.phase = ph]
<1>2. j \in Jobs /\ j.phase = ph /\ j.tree = job[p].tree /\ j.view = job[p].view
      /\ j.doomed = job[p].doomed /\ j.out = job[p].out /\ j.replaced = job[p].replaced
  BY <1>1 DEF Jobs, Phases
<1> HIDE DEF j
<1>3. CASE p \in Scanners
  <2>1. p \notin Setters /\ previous' = NoTree /\ generated' = generated
    BY <1>3, Kinds DEF RemovesName
  <2>2. job' = [q \in Commands |-> IF q = p THEN j ELSE job[q]]
    BY <2>1 DEF RemovesName, j
  <2>3. job' = [job EXCEPT ![p] = j]
    BY <2>2 DEF StoreInv, StoreTypeOK
  <2>4. RoleOf(p, j) /\ j.phase # "idle"
    BY <1>1, <1>2, <1>3, <2>1, JobHere DEF RoleOf, ScanJob, In
  <2>5. HasBuilt(j) => HasBuilt(job[p])
    BY <1>1, <1>2 DEF HasBuilt, In
  <2>6. generated' = previous' => generated' = NoTree
    BY <2>1
  <2> QED BY <1>1, <1>2, <1>3, <2>1, <2>3, <2>4, <2>5, <2>6, NamesMove
<1>4. CASE p \in Setters
  <2>1. p \notin Scanners /\ generated' = NoTree /\ previous' = previous
    BY <1>4, Kinds DEF RemovesName
  <2>2. job' = [q \in Commands |-> IF q = p THEN j ELSE [job[q] EXCEPT !.before = NoTree]]
    BY <1>4 DEF RemovesName, j
  <2>3. \A q \in Commands : LET b == [job[q] EXCEPT !.before = NoTree] IN
          /\ b \in Jobs /\ b.phase = job[q].phase /\ b.tree = job[q].tree /\ b.view = job[q].view
          /\ b.doomed = job[q].doomed /\ b.out = job[q].out /\ b.replaced = job[q].replaced
    BY JobHere DEF Jobs
  <2>4. \A q \in Commands : job[q].phase = "idle" => [job[q] EXCEPT !.before = NoTree] = Idle
    <3>1. [Idle EXCEPT !.before = NoTree] = Idle
      <4>1. Idle \in Jobs /\ Idle.before = NoTree
        BY IdleJob
      <4> QED BY <4>1 DEF Jobs
    <3>2. \A q \in Commands : job[q].phase = "idle" => job[q] = Idle
      BY JobHere DEF RoleOf
    <3> QED BY <3>1, <3>2
  <2>5. job' \in [Commands -> Jobs]
    BY <1>2, <2>2, <2>3
  <2>6. ph \in {"done", "failed"} /\ p \in cast.commands
    BY <1>1, <1>4, <2>1, JobHere DEF SetJob
  <2>7. ASSUME NEW q \in Commands
        PROVE  /\ q \notin Setters => job'[q].phase = job[q].phase
               /\ q \in Setters => SetJob(job'[q]) /\ (Live(q)' => q \in cast.commands)
               /\ job'[q].phase = "idle" => job'[q] = Idle
               /\ job'[q].tree = job[q].tree /\ job'[q].view = job[q].view
               /\ job'[q].doomed = job[q].doomed
               /\ job'[q].out = job[q].out /\ job'[q].replaced = job[q].replaced
    <3>1. CASE q = p
      BY <1>2, <1>4, <2>2, <2>6, <3>1, JobHere DEF SetJob
    <3>2. CASE q # p
      <4>1. job'[q] = [job[q] EXCEPT !.before = NoTree]
        BY <2>2, <3>2
      <4> QED BY <2>3, <2>4, <4>1, JobHere DEF SetJob, Live, In
    <3> QED BY <3>1, <3>2
  <2>8. current' \in Versions
    BY <1>1 DEF StoreInv, StoreTypeOK
  <2> QED BY <1>1, <2>1, <2>5, <2>7, <2>8, SetterMoves
<1> QED BY <1>1, <1>3, <1>4, Kinds

LEMMA RmdirStep == ASSUME StoreInv, NEW p \in Commands, Rmdir(p) PROVE StoreInv'
<1>1. p \notin Scanners => p \in Setters
  BY JobHere, Kinds DEF Rmdir, RemovesName, ReadJob, In
<1>2. /\ Removed(p) = "look" => p \in Scanners /\ ~job[p].out
      /\ Removed(p) = "done" => p \in Setters \/ job[p].out
      /\ Removed(p) \in {"look", "done"}
  BY <1>1 DEF Removed
<1> QED BY <1>2, Untouched, RemovesMoves DEF Rmdir

(* What a call has done is done, whether or not its sync fails.            *)
LEMMA SyncFailsStep == ASSUME StoreInv, NEW p \in Commands, SyncFails(p) PROVE StoreInv'
<1>1. /\ UNCHANGED <<current, cast, scans>>
      /\ faults' \in Nat /\ crashes' \in Nat /\ lapsed' \in BOOLEAN
  BY DEF SyncFails, StoreInv, StoreTypeOK, Counted
<1>2. Raised(p) \in {"restore", "failed"} /\ (Raised(p) = "restore" => job[p].replaced)
  BY DEF Raised
<1>3. In(p, "move") \/ In(p, "publish") => p \in Scanners
  BY JobHere, Kinds DEF ReadJob, SetJob, In
<1>4. CASE RenamesAside(p) /\ Goto(p, Raised(p))
  <2> DEFINE j == [job[p] EXCEPT !.phase = Raised(p)]
  <2>1. p \in Scanners /\ In(p, "move")
    BY <1>3, <1>4 DEF RenamesAside
  <2>2. ~job[p].replaced /\ job[p] \in Jobs
    BY <2>1, JobHere DEF ScanJob, In
  <2>3. job' = [job EXCEPT ![p] = j] /\ Raised(p) = "failed"
    BY <1>2, <1>4, <2>2 DEF Goto
  <2>4. j \in Jobs /\ j.phase = "failed" /\ ~j.replaced /\ j.tree = job[p].tree
        /\ j.doomed = job[p].doomed /\ j.out = job[p].out /\ j.view = job[p].view
    BY <2>2, <2>3 DEF Jobs, Phases
  <2> HIDE DEF j
  <2> QED BY <1>1, <1>4, <2>1, <2>3, <2>4, AsideMoves
<1>5. CASE RenamesOut(p) /\ Published(p, Raised(p))
  <2>1. p \in Scanners
    BY <1>3, <1>5 DEF RenamesOut
  <2> QED BY <1>1, <1>2, <1>5, <2>1, OutMoves
<1>6. CASE RemovesName(p, Raised(p))
  BY <1>1, <1>2, <1>6, RemovesMoves
<1>7. CASE WritesReport(p) /\ Goto(p, Raised(p))
  <2>1. ~job[p].replaced
    BY <1>7, WhoReads, JobHere DEF WritesReport, ReadJob, In
  <2> QED BY <1>1, <1>2, <1>7, <2>1, ReportMoves
<1> QED BY <1>4, <1>5, <1>6, <1>7 DEF SyncFails

LEMMA ChangedJobs ==
  ASSUME StoreInv, NEW s \in Sources, NEW c \in Contents, NEW q \in Commands
  PROVE  /\ Changed(s, c)[q] \in Jobs /\ Changed(s, c)[q].phase = job[q].phase
         /\ Changed(s, c)[q].tree = job[q].tree /\ Changed(s, c)[q].view = job[q].view
         /\ Changed(s, c)[q].doomed = job[q].doomed /\ Changed(s, c)[q].before = job[q].before
         /\ Changed(s, c)[q].out = job[q].out /\ Changed(s, c)[q].replaced = job[q].replaced
         /\ Changed(s, c)[q].found = job[q].found /\ Changed(s, c)[q].todo = job[q].todo
         /\ job[q].phase = "idle" => Changed(s, c)[q] = job[q]
         /\ job[q].phase # "idle" =>
              Changed(s, c)[q].seen = [job[q].seen EXCEPT ![s] = @ \cup {c}]
<1>1. job[q] \in Jobs
  BY JobHere
<1>2. CASE job[q].phase = "idle"
  BY <1>1, <1>2 DEF Changed
<1>3. CASE job[q].phase # "idle"
  <2>1. Changed(s, c)[q] = [job[q] EXCEPT !.seen[s] = @ \cup {c}]
    BY <1>3 DEF Changed
  <2> QED BY <1>1, <1>3, <2>1 DEF Jobs
<1> QED BY <1>2, <1>3

OnlySeen(j, b) ==
  /\ b \in Jobs /\ b.phase = j.phase /\ b.tree = j.tree /\ b.view = j.view
  /\ b.doomed = j.doomed /\ b.out = j.out /\ b.replaced = j.replaced
  /\ j.phase = "idle" => b = j

LEMMA ChangedOnly ==
  ASSUME StoreInv, NEW s \in Sources, NEW c \in Contents, NEW q \in Commands
  PROVE  OnlySeen(job[q], Changed(s, c)[q])
<1>1. job[q] \in Jobs /\ Changed(s, c)[q] \in Jobs
  BY JobHere, ChangedJobs
<1>2. CASE job[q].phase = "idle"
  <2>1. Changed(s, c)[q] = job[q]
    BY <1>2 DEF Changed
  <2> QED BY <1>1, <2>1 DEF OnlySeen
<1>3. CASE job[q].phase # "idle"
  <2>1. Changed(s, c)[q] = [job[q] EXCEPT !.seen[s] = @ \cup {c}]
    BY <1>3 DEF Changed
  <2>2. ASSUME NEW j \in Jobs, NEW b, b = [j EXCEPT !.seen[s] = @ \cup {c}]
        PROVE  /\ b.phase = j.phase /\ b.tree = j.tree /\ b.view = j.view
               /\ b.doomed = j.doomed /\ b.out = j.out /\ b.replaced = j.replaced
    BY <2>2 DEF Jobs
  <2> QED BY <1>1, <1>3, <2>1, <2>2 DEF OnlySeen
<1> QED BY <1>2, <1>3

(* Contents of the cast are contents.                                      *)
LEMMA NewContent ==
  ASSUME StoreInv, NEW s \in cast.sources, NEW c \in cast.contents, Becomes(s, c)
  PROVE  /\ s \in Sources /\ c \in Contents /\ current' \in Versions
         /\ <<current.content[s], c>> \in Writes
         /\ current'.content = [current.content EXCEPT ![s] = c]
         /\ current.content \in [Sources -> Contents] /\ current'.content[s] = c
  BY StoreConstants DEF StoreInv, StoreTypeOK, Versions, Becomes

LEMMA SetSourceStep == ASSUME StoreInv, NEW p \in Commands, SetSource(p) PROVE StoreInv'
<1>1. PICK s \in cast.sources, c \in cast.contents :
        /\ Becomes(s, c)
        /\ job' = [Changed(s, c) EXCEPT ![p].phase = "open"]
  BY DEF SetSource
<1>2. p \in Setters /\ p \in cast.commands /\ UNCHANGED <<generated, previous, files, made, bounds>>
  BY DEF SetSource, disk
<1>3. s \in Sources /\ c \in Contents /\ current' \in Versions
  BY <1>1, NewContent
<1>4. Changed(s, c) \in [Commands -> Jobs]
  BY <1>3, ChangedJobs DEF Changed
<1>5. job' \in [Commands -> Jobs] /\ (\A q \in Commands : q # p => job'[q] = Changed(s, c)[q])
  BY <1>1, <1>4 DEF Jobs, Phases
<1>6. /\ job'[p].phase = "open" /\ job'[p].tree = Changed(s, c)[p].tree
      /\ job'[p].view = Changed(s, c)[p].view /\ job'[p].doomed = Changed(s, c)[p].doomed
      /\ job'[p].out = Changed(s, c)[p].out /\ job'[p].replaced = Changed(s, c)[p].replaced
  BY <1>1, <1>4 DEF Jobs
<1>7. ASSUME NEW q \in Commands
      PROVE  /\ q \notin Setters => job'[q].phase = job[q].phase
             /\ q \in Setters => SetJob(job'[q]) /\ (Live(q)' => q \in cast.commands)
             /\ job'[q].phase = "idle" => job'[q] = Idle
             /\ job'[q].tree = job[q].tree /\ job'[q].view = job[q].view
             /\ job'[q].doomed = job[q].doomed
             /\ job'[q].out = job[q].out /\ job'[q].replaced = job[q].replaced
  <2> DEFINE b == Changed(s, c)[q]
  <2>3. /\ b \in Jobs /\ b.phase = job[q].phase /\ b.tree = job[q].tree /\ b.view = job[q].view
        /\ b.doomed = job[q].doomed /\ b.out = job[q].out /\ b.replaced = job[q].replaced
        /\ job[q].phase = "idle" => b = job[q] /\ job[q] = Idle
    <3>1. s \in Sources /\ c \in Contents
      BY <1>3
    <3>2. job[q].phase = "idle" => job[q] = Idle
      BY JobHere DEF RoleOf
    <3>3. OnlySeen(job[q], b)
      BY <3>1, ChangedOnly
    <3> QED BY <3>2, <3>3 DEF OnlySeen
  <2> HIDE DEF b
  <2>1. CASE q = p
    BY <1>2, <1>6, <2>1, <2>3, JobHere DEF SetJob, b
  <2>2. CASE q # p
    <3>1. job'[q] = b
      BY <1>5, <2>2 DEF b
    <3> QED BY <2>3, <3>1, JobHere DEF SetJob, Live, In
  <2> QED BY <2>1, <2>2
<1>8. UNCHANGED <<cast, scans>> /\ faults' \in Nat /\ crashes' \in Nat /\ lapsed' \in BOOLEAN
  BY <1>2 DEF bounds, StoreInv, StoreTypeOK, Counted
<1> QED BY <1>2, <1>3, <1>5, <1>7, <1>8, SetterMoves

LEMMA WriteSourceStep == ASSUME StoreInv, WriteSource PROVE StoreInv'
<1>1. PICK s \in cast.sources, c \in cast.contents : Becomes(s, c) /\ job' = Changed(s, c)
  BY DEF WriteSource
<1>2. s \in Sources /\ c \in Contents /\ current' \in Versions /\ UNCHANGED <<generated, previous, files, made, bounds>>
  BY <1>1, NewContent DEF WriteSource, disk
<1>3. job' \in [Commands -> Jobs]
  BY <1>1, <1>2, ChangedJobs DEF Changed
<1>4. ASSUME NEW q \in Commands
      PROVE  /\ q \notin Setters => job'[q].phase = job[q].phase
             /\ q \in Setters => SetJob(job'[q]) /\ (Live(q)' => q \in cast.commands)
             /\ job'[q].phase = "idle" => job'[q] = Idle
             /\ job'[q].tree = job[q].tree /\ job'[q].view = job[q].view
             /\ job'[q].doomed = job[q].doomed
             /\ job'[q].out = job[q].out /\ job'[q].replaced = job[q].replaced
  <2> DEFINE b == Changed(s, c)[q]
  <2>3. /\ b \in Jobs /\ b.phase = job[q].phase /\ b.tree = job[q].tree /\ b.view = job[q].view
        /\ b.doomed = job[q].doomed /\ b.out = job[q].out /\ b.replaced = job[q].replaced
        /\ job[q].phase = "idle" => b = job[q] /\ job[q] = Idle
    <3>1. s \in Sources /\ c \in Contents
      BY <1>2
    <3>2. job[q].phase = "idle" => job[q] = Idle
      BY JobHere DEF RoleOf
    <3>3. OnlySeen(job[q], b)
      BY <3>1, ChangedOnly
    <3> QED BY <3>2, <3>3 DEF OnlySeen
  <2> HIDE DEF b
  <2>4. job'[q] = b
    BY <1>1 DEF b
  <2> QED BY <2>3, <2>4, JobHere DEF SetJob, Live, In
<1>5. UNCHANGED <<cast, scans>> /\ faults' \in Nat /\ crashes' \in Nat /\ lapsed' \in BOOLEAN
  BY <1>2 DEF bounds, StoreInv, StoreTypeOK, Counted
<1> QED BY <1>2, <1>3, <1>4, <1>5, SetterMoves

LEMMA EditModelStep == ASSUME StoreInv, EditModel PROVE StoreInv'
<1>1. PICK m \in Models : current' = [current EXCEPT !.model = m]
  BY DEF EditModel
<1>2. current' \in Versions
  BY <1>1 DEF StoreInv, StoreTypeOK, Versions
<1> QED BY <1>2 DEF EditModel, disk, bounds, StoreInv, StoreTypeOK, Roles, RoleOf, Live, In, Counted,
           OwnTrees, Owned, Apart

LEMMA StoreInvNext == ASSUME StoreInv, [Next]_vars PROVE StoreInv'
<1>1. ASSUME NEW p \in Commands,
             \/ Start(p) \/ Snapshot(p) \/ SetSource(p) \/ End(p)
             \/ Raise(p) \/ Fault(p) \/ SyncFails(p) \/ Crash(p)
             \/ OpenTree(p) \/ Unlink(p) \/ Rmdir(p)
             \/ ReadManifest(p) \/ ReadDocuments(p)
             \/ OpenForReport(p) \/ WriteReport(p)
      PROVE  StoreInv'
  BY <1>1, StartStep, SnapshotStep, SetSourceStep, EndStep, RaiseStep, FaultStep, SyncFailsStep, CrashStep,
     OpenTreeStep, UnlinkStep, RmdirStep, ReadManifestStep, ReadDocumentsStep,
     OpenForReportStep, WriteReportStep
<1>2. ASSUME NEW p \in Scanners,
             \/ Build(p) \/ FindBackup(p) \/ LookForGenerated(p) \/ MoveAside(p)
             \/ Publish(p) \/ Restore(p) \/ PutBack(p)
      PROVE  StoreInv'
  BY <1>2, BuildStep, FindBackupStep, LookForGeneratedStep, MoveAsideStep, PublishStep,
     RestoreStep, PutBackStep
<1>3. CASE UNCHANGED vars
  BY <1>3 DEF vars, StoreInv, StoreTypeOK, Roles, RoleOf, Live, In, Counted, OwnTrees, Owned, Apart
<1> QED BY <1>1, <1>2, <1>3, WriteSourceStep, EditModelStep DEF Next

LEMMA StoreInvHolds == Spec => []StoreInv
  BY InitStore, StoreInvNext, PTL DEF Spec

(* Every variable keeps its kind, and generated/ and .generated-previous/  *)
(* never lead to one directory, however many scans rename and remove each  *)
(* other's directories (write_generated_transaction).                      *)
THEOREM NamesStayApart == Spec => []StoreTypeOK
<1>1. StoreInv => StoreTypeOK
  BY DEF StoreInv
<1> QED BY <1>1, StoreInvHolds, PTL

-----------------------------------------------------------------------------
(* What a step does to a scan, field by field: the later invariants are    *)
(* proved from this and not from the actions.                              *)
Keeps(p) ==
  /\ job'[p].tree = job[p].tree /\ job'[p].doomed = job[p].doomed
  /\ job'[p].replaced = job[p].replaced /\ job'[p].out = job[p].out
  /\ job'[p].view = job[p].view

KeepsOn(p) == Keeps(p) /\ job'[p].before = job[p].before

Turns(p, from, to) == job[p].phase = from /\ job'[p].phase = to

(* It begins, has ended or dies.                                           *)
Resets(p) ==
  /\ job'[p].phase \in {"idle", "snapshot"} /\ ~job'[p].replaced /\ ~job'[p].out
  /\ job'[p].doomed = 0 /\ job'[p].before = NoTree
  /\ job[p].phase \in {"idle", "done", "failed"} \/ crashes' > 0
  /\ job'[p].phase = "snapshot" => scans < scans' /\ job'[p].view = current
  /\ UNCHANGED disk

Snaps(p) ==
  /\ Turns(p, "snapshot", "snapshot") \/ Turns(p, "snapshot", "build")
  /\ job'[p].tree = job[p].tree /\ job'[p].doomed = job[p].doomed
  /\ job'[p].replaced = job[p].replaced /\ job'[p].out = job[p].out
  /\ job'[p].before = job[p].before
  /\ \A s \in Sources : job'[p].view.content[s] \in {job[p].view.content[s], current.content[s]}
  /\ UNCHANGED disk

Builds(p) ==
  /\ Turns(p, "build", "find") /\ Keeps(p) /\ job'[p].before = generated
  /\ files' = [files EXCEPT ![job[p].tree] = Files]
  /\ made' = [made EXCEPT ![job[p].tree] = job[p].view]
  /\ UNCHANGED <<generated, previous>>

Walks(p) ==
  /\ KeepsOn(p) /\ UNCHANGED disk
  /\ \/ Turns(p, "find", IF previous = NoTree THEN "look" ELSE "open")
     \/ Turns(p, "look", IF generated = NoTree THEN "publish" ELSE "move")
     \/ Turns(p, "restore", IF previous # NoTree /\ generated = NoTree THEN "putback" ELSE "failed")
     \/ Turns(p, "unlink", "rmdir") /\ job[p].todo = {}

Fails(p) ==
  /\ KeepsOn(p) /\ UNCHANGED disk
  /\ job[p].phase \notin {"idle", "done", "failed"}
  /\ job'[p].phase = IF job[p].replaced /\ job[p].phase \notin {"restore", "putback"}
                      THEN "restore" ELSE "failed"
  /\ faults' = faults => Raises(p)

(* The call has done what it was called for, and then its sync fails.      *)
Lapses(p, from) ==
  /\ Turns(p, from, IF job[p].replaced THEN "restore" ELSE "failed")
  /\ faults < faults' /\ lapsed'

Opens(p) ==
  /\ Turns(p, "open", "unlink") /\ previous # NoTree /\ job'[p].doomed = previous
  /\ job'[p].todo = files[previous]
  /\ job'[p].tree = job[p].tree /\ job'[p].replaced = job[p].replaced
  /\ job'[p].out = job[p].out /\ job'[p].view = job[p].view
  /\ job'[p].before = job[p].before
  /\ UNCHANGED disk

Empties(p) ==
  /\ Turns(p, "unlink", "unlink") /\ KeepsOn(p) /\ UNCHANGED <<generated, previous, made>>
  /\ \A t \in Trees \ {job[p].doomed} : files'[t] = files[t]
  /\ \E f : /\ job'[p].todo = job[p].todo \ {f}
            /\ files'[job[p].doomed] = files[job[p].doomed] \ {f}

Drops(p) ==
  /\ Turns(p, "rmdir", IF job[p].out THEN "done" ELSE "look") \/ Lapses(p, "rmdir")
  /\ KeepsOn(p)
  /\ previous # NoTree /\ files[previous] = {}
  /\ previous' = NoTree /\ UNCHANGED <<generated, files, made>>

Sets(p) ==
  /\ Turns(p, "move", "publish") /\ job'[p].replaced
  /\ job'[p].tree = job[p].tree /\ job'[p].doomed = job[p].doomed
  /\ job'[p].out = job[p].out /\ job'[p].view = job[p].view
  /\ job'[p].before = job[p].before
  /\ generated # NoTree /\ Vacant(previous)
  /\ previous' = generated /\ generated' = NoTree /\ UNCHANGED <<files, made>>

Slips(p) ==
  /\ Lapses(p, "move") /\ KeepsOn(p) /\ ~job[p].replaced
  /\ generated # NoTree /\ Vacant(previous)
  /\ previous' = generated /\ generated' = NoTree /\ UNCHANGED <<files, made>>

Publishes(p) ==
  /\ \/ Turns(p, "publish", IF job[p].replaced THEN "open" ELSE "done")
     \/ Lapses(p, "publish")
  /\ job'[p].out
  /\ job'[p].tree = job[p].tree /\ job'[p].doomed = job[p].doomed
  /\ job'[p].replaced = job[p].replaced /\ job'[p].view = job[p].view
  /\ job'[p].before = job[p].before
  /\ Vacant(generated) /\ generated' = job[p].tree /\ UNCHANGED <<previous, files, made>>

PutsBack(p) ==
  /\ Turns(p, "putback", "failed") /\ KeepsOn(p) /\ UNCHANGED <<files, made>>
  /\ IF previous # NoTree /\ Vacant(generated)
       THEN generated' = previous /\ previous' = NoTree
       ELSE UNCHANGED <<generated, previous>>

ScanEffect(p) ==
  /\ \A q \in Commands : q # p => job'[q] = job[q]
  /\ current' = current /\ cast' = cast
  /\ faults \in Nat /\ crashes \in Nat /\ faults' \in Nat /\ crashes' \in Nat
  /\ faults <= faults' /\ crashes <= crashes' /\ scans <= scans' /\ (lapsed => lapsed')
  /\ \/ Resets(p) \/ Snaps(p) \/ Builds(p) \/ Walks(p) \/ Fails(p) \/ Opens(p)
     \/ Empties(p) \/ Drops(p) \/ Sets(p) \/ Slips(p) \/ Publishes(p) \/ PutsBack(p)

OtherEffect ==
  /\ UNCHANGED <<previous, made, cast, scans>>
  /\ faults <= faults' /\ crashes <= crashes' /\ (lapsed => lapsed')
  /\ faults \in Nat /\ crashes \in Nat /\ faults' \in Nat /\ crashes' \in Nat
  /\ \A q \in Scanners : job'[q].phase = job[q].phase /\ Keeps(q) /\ job'[q].todo = job[q].todo
  /\ \/ generated' = generated /\ \A q \in Scanners : job'[q].before = job[q].before
     \/ /\ ~NoSetters /\ generated' = NoTree /\ Vacant(generated)
        /\ \A q \in Scanners : job'[q].before = NoTree
  /\ \A t \in Trees :
       /\ files'[t] \subseteq files[t] \cup {"report"}
       /\ files[t] \subseteq files'[t] \/ \E s \in Setters : In(s, "unlink") /\ job[s].doomed = t
  /\ NoSetters => \A t \in Trees : files[t] \subseteq files'[t]
  /\ cast.commands \subseteq Scanners => files' = files

(* The steps any command takes, and those of a scan alone.                 *)
CommandStep(p) ==
  \/ Start(p) \/ Snapshot(p) \/ SetSource(p) \/ End(p)
  \/ Raise(p) \/ Fault(p) \/ SyncFails(p) \/ Crash(p)
  \/ OpenTree(p) \/ Unlink(p) \/ Rmdir(p)
  \/ ReadManifest(p) \/ ReadDocuments(p)
  \/ OpenForReport(p) \/ WriteReport(p)

ScanStep(p) ==
  \/ Build(p) \/ FindBackup(p) \/ LookForGenerated(p) \/ MoveAside(p)
  \/ Publish(p) \/ Restore(p) \/ PutBack(p)

(* A new phase, and nothing else of the job.                               *)
LEMMA GotoKeeps ==
  ASSUME StoreInv, NEW p \in Commands, NEW ph, Goto(p, ph)
  PROVE  /\ job'[p].phase = ph /\ KeepsOn(p) /\ job'[p].seen = job[p].seen
         /\ job'[p].found = job[p].found
         /\ \A q \in Commands : q # p => job'[q] = job[q]
<1>1. job \in [Commands -> Jobs] /\ job[p] \in Jobs
  BY DEF StoreInv, StoreTypeOK
<1>2. job'[p] = [job[p] EXCEPT !.phase = ph] /\ \A q \in Commands : q # p => job'[q] = job[q]
  BY <1>1 DEF Goto
<1> QED BY <1>1, <1>2 DEF KeepsOn, Keeps, Jobs

LEMMA BoundsKept ==
  ASSUME StoreInv, UNCHANGED bounds
  PROVE  /\ cast' = cast /\ scans' = scans
         /\ faults \in Nat /\ crashes \in Nat /\ faults' \in Nat /\ crashes' \in Nat
         /\ faults <= faults' /\ crashes <= crashes' /\ scans <= scans' /\ lapsed' = lapsed
  BY DEF StoreInv, Counted, bounds

LEMMA ScanStepEffect == ASSUME StoreInv, NEW p \in Scanners, ScanStep(p) PROVE ScanEffect(p)
<1>1. p \in Commands /\ job \in [Commands -> Jobs] /\ job[p] \in Jobs
  BY DEF StoreInv, StoreTypeOK, Commands
<1>2. UNCHANGED bounds /\ current' = current
  BY DEF ScanStep, Build, FindBackup, LookForGenerated, MoveAside, Publish, Restore, PutBack
<1>3. CASE Build(p)
  <2>1. job' = [job EXCEPT ![p] = [job[p] EXCEPT !.phase = "find", !.before = generated]]
    BY <1>3 DEF Build
  <2>2. Turns(p, "build", "find") /\ Keeps(p) /\ job'[p].before = generated
        /\ \A q \in Commands : q # p => job'[q] = job[q]
    BY <1>1, <1>3, <2>1 DEF Build, Turns, Keeps, In, Jobs
  <2>3. Builds(p)
    BY <1>3, <2>2 DEF Build, Builds
  <2> QED BY <1>2, <2>2, <2>3, BoundsKept DEF ScanEffect
<1>4. CASE FindBackup(p)
  BY <1>1, <1>2, <1>4, GotoKeeps, BoundsKept DEF FindBackup, ScanEffect, Walks, Turns, In
<1>5. CASE LookForGenerated(p)
  BY <1>1, <1>2, <1>5, GotoKeeps, BoundsKept DEF LookForGenerated, ScanEffect, Walks, Turns, In
<1>6. CASE MoveAside(p)
  <2>1. job' = [job EXCEPT ![p] = [job[p] EXCEPT !.phase = "publish", !.replaced = TRUE]]
    BY <1>6 DEF MoveAside
  <2>2. /\ Turns(p, "move", "publish") /\ job'[p].replaced
        /\ job'[p].tree = job[p].tree /\ job'[p].doomed = job[p].doomed
        /\ job'[p].out = job[p].out /\ job'[p].view = job[p].view
        /\ job'[p].before = job[p].before
        /\ \A q \in Commands : q # p => job'[q] = job[q]
    BY <1>1, <1>6, <2>1 DEF MoveAside, RenamesAside, Turns, In, Jobs
  <2>3. Sets(p)
    BY <1>6, <2>2 DEF MoveAside, RenamesAside, Sets
  <2> QED BY <1>2, <2>2, <2>3, BoundsKept DEF ScanEffect
<1>7. CASE Publish(p)
  <2>1. job' = [job EXCEPT ![p] = [job[p] EXCEPT !.out = TRUE,
                   !.phase = IF job[p].replaced THEN "open" ELSE "done"]]
    BY <1>7 DEF Publish, Published
  <2>2. /\ Turns(p, "publish", IF job[p].replaced THEN "open" ELSE "done") /\ job'[p].out
        /\ job'[p].tree = job[p].tree /\ job'[p].doomed = job[p].doomed
        /\ job'[p].replaced = job[p].replaced /\ job'[p].view = job[p].view
        /\ job'[p].before = job[p].before
        /\ \A q \in Commands : q # p => job'[q] = job[q]
    BY <1>1, <1>7, <2>1 DEF Publish, RenamesOut, Turns, In, Jobs
  <2>3. Publishes(p)
    BY <1>7, <2>2 DEF Publish, RenamesOut, Publishes
  <2> QED BY <1>2, <2>2, <2>3, BoundsKept DEF ScanEffect
<1>8. CASE Restore(p)
  BY <1>1, <1>2, <1>8, GotoKeeps, BoundsKept DEF Restore, ScanEffect, Walks, Turns, In
<1>9. CASE PutBack(p)
  <2>1. Turns(p, "putback", "failed") /\ KeepsOn(p) /\ \A q \in Commands : q # p => job'[q] = job[q]
    BY <1>1, <1>9, GotoKeeps DEF PutBack, Turns, In
  <2>2. PutsBack(p)
    BY <1>9, <2>1 DEF PutBack, PutsBack
  <2> QED BY <1>2, <2>1, <2>2, BoundsKept DEF ScanEffect
<1> QED BY <1>3, <1>4, <1>5, <1>6, <1>7, <1>8, <1>9 DEF ScanStep

LEMMA ScanCommandEffect ==
  ASSUME StoreInv, NEW p \in Scanners, CommandStep(p) PROVE ScanEffect(p)
<1>1. p \in Commands /\ job \in [Commands -> Jobs] /\ job[p] \in Jobs /\ p \notin Setters
  BY Kinds DEF StoreInv, StoreTypeOK, Commands
<1>2. /\ ~ReadManifest(p) /\ ~ReadDocuments(p) /\ ~OpenForReport(p) /\ ~WriteReport(p)
      /\ ~SetSource(p)
  BY <1>1, WhoReads DEF ReadManifest, ReadDocuments, OpenForReport, WriteReport, WritesReport, SetSource, In
<1>3. faults \in Nat /\ crashes \in Nat /\ scans \in Nat
  BY DEF StoreInv, Counted
<1>4. ScanJob(job[p])
  BY <1>1, JobHere
<1>5. CASE Start(p) \/ End(p) \/ Crash(p)
  <2>1. /\ UNCHANGED <<current, disk, cast, faults, lapsed>> /\ crashes' \in {crashes, crashes + 1}
        /\ job[p].phase \in {"idle", "done", "failed"} \/ crashes' = crashes + 1
        /\ scans' = IF Start(p) THEN scans + 1 ELSE scans
    BY <1>3, <1>5 DEF Start, End, Crash, In, bounds
  <2>2. CASE Start(p)
    <3> DEFINE j == [Idle EXCEPT !.phase = "snapshot", !.view = current, !.left = cast.sources,
                        !.seen = [s \in Sources |-> {current.content[s]}],
                        !.tree = IF p \in Scanners THEN scans + 1 ELSE 0]
    <3>1. job' = [job EXCEPT ![p] = j]
      BY <2>2 DEF Start
    <3>2. j.phase = "snapshot" /\ j.view = current /\ ~j.replaced /\ ~j.out /\ j.doomed = 0 /\ j.before = NoTree
      BY DEF Idle
    <3> HIDE DEF j
    <3>3. job'[p] = j /\ \A q \in Commands : q # p => job'[q] = job[q]
      BY <1>1, <3>1
    <3> QED BY <1>3, <2>1, <2>2, <3>2, <3>3 DEF ScanEffect, Resets
  <2>3. CASE End(p) \/ Crash(p)
    <3>1. job'[p] = Idle /\ \A q \in Commands : q # p => job'[q] = job[q]
      BY <1>1, <2>3 DEF End, Crash
    <3> QED BY <1>3, <2>1, <3>1, IdleJob DEF ScanEffect, Resets, Idle
  <2> QED BY <1>5, <2>2, <2>3
<1>6. CASE Snapshot(p)
  <2>1. In(p, "snapshot") /\ UNCHANGED <<current, disk, bounds>>
    BY <1>6 DEF Snapshot
  <2>2. ASSUME NEW s \in job[p].left,
               job' = [job EXCEPT ![p].view.content[s] = current.content[s], ![p].left = @ \ {s}]
        PROVE  Snaps(p) /\ \A q \in Commands : q # p => job'[q] = job[q]
    <3> DEFINE v == [job[p].view EXCEPT !.content[s] = current.content[s]]
    <3>1. \A r \in Sources : v.content[r] \in {job[p].view.content[r], current.content[r]}
      BY <1>1 DEF Jobs, Versions
    <3>2. job' = [job EXCEPT ![p] = [job[p] EXCEPT !.view = v, !.left = @ \ {s}]]
      BY <1>1, <2>2 DEF Jobs, Versions
    <3> HIDE DEF v
    <3> QED BY <1>1, <2>1, <3>1, <3>2 DEF Snaps, Turns, In, Jobs
  <2>3. ASSUME Goto(p, "build") PROVE Snaps(p) /\ \A q \in Commands : q # p => job'[q] = job[q]
    BY <1>1, <2>1, <2>3, GotoKeeps DEF Snaps, Turns, In, KeepsOn, Keeps
  <2>4. Snaps(p) /\ \A q \in Commands : q # p => job'[q] = job[q]
    BY <1>6, <2>2, <2>3 DEF Snapshot
  <2>5. UNCHANGED bounds /\ current' = current
    BY <2>1
  <2> QED BY <2>4, <2>5, BoundsKept DEF ScanEffect
<1>7. CASE Raise(p) \/ Fault(p)
  <2>1. /\ Goto(p, Raised(p)) /\ UNCHANGED <<current, disk, cast, lapsed>>
        /\ faults' \in Nat /\ crashes' \in Nat /\ faults <= faults' /\ crashes <= crashes'
        /\ scans' = scans /\ job[p].phase \notin {"idle", "done", "failed"}
    BY <1>3, <1>7, BoundsKept DEF Raise, Raises, Fault, In
  <2>2. faults' = faults => Raises(p)
    BY <1>3, <1>7 DEF Raise, Fault
  <2>3. Fails(p) /\ \A q \in Commands : q # p => job'[q] = job[q]
    BY <1>1, <2>1, <2>2, GotoKeeps DEF Fails, Raised, In
  <2> QED BY <1>3, <2>1, <2>3 DEF ScanEffect
<1>8. CASE OpenTree(p)
  <2>1. /\ Target(p) = previous /\ previous # NoTree /\ In(p, "open")
        /\ job' = [job EXCEPT ![p] = [job[p] EXCEPT !.phase = "unlink", !.doomed = previous,
                                                    !.todo = files[previous]]]
        /\ UNCHANGED <<current, disk, bounds>>
    BY <1>1, <1>8 DEF OpenTree, Target
  <2>2. Opens(p) /\ \A q \in Commands : q # p => job'[q] = job[q]
    BY <1>1, <2>1 DEF Opens, Turns, In, Jobs
  <2> QED BY <2>1, <2>2, BoundsKept DEF ScanEffect
<1>9. CASE Unlink(p)
  <2>1. In(p, "unlink") /\ UNCHANGED <<current, generated, previous, made, bounds>>
    BY <1>9 DEF Unlink
  <2>2. ASSUME NEW f, files' = [files EXCEPT ![job[p].doomed] = @ \ {f}],
               job' = [job EXCEPT ![p] = [job[p] EXCEPT !.todo = @ \ {f}]]
        PROVE  Empties(p) /\ \A q \in Commands : q # p => job'[q] = job[q]
    <3>1. Turns(p, "unlink", "unlink") /\ KeepsOn(p) /\ \A q \in Commands : q # p => job'[q] = job[q]
      BY <1>1, <2>1, <2>2 DEF Turns, In, KeepsOn, Keeps, Jobs
    <3>2. job[p].doomed \in Trees /\ job'[p].todo = job[p].todo \ {f}
      BY <1>1, <2>2 DEF Jobs
    <3>3. /\ \A t \in Trees \ {job[p].doomed} : files'[t] = files[t]
          /\ files'[job[p].doomed] = files[job[p].doomed] \ {f}
      BY <2>2, <3>2 DEF StoreInv, StoreTypeOK
    <3> QED BY <2>1, <3>1, <3>2, <3>3 DEF Empties
  <2>3. ASSUME Goto(p, "rmdir"), UNCHANGED files, job[p].todo = {}
        PROVE  Walks(p) /\ \A q \in Commands : q # p => job'[q] = job[q]
    BY <1>1, <2>1, <2>3, GotoKeeps DEF Walks, Turns, In, disk
  <2> QED BY <1>9, <2>1, <2>2, <2>3, BoundsKept DEF ScanEffect, Unlink
<1>10. CASE Rmdir(p)
  <2>1. /\ job' = [q \in Commands |-> IF q = p THEN [job[p] EXCEPT !.phase = Removed(p)]
                                      ELSE job[q]]
        /\ In(p, "rmdir") /\ previous # NoTree /\ previous' = NoTree
        /\ UNCHANGED <<current, generated, files, made, bounds>>
    BY <1>1, <1>10 DEF Rmdir, RemovesName, Target
  <2>4. files[previous] = {}
    BY <1>1, <1>10 DEF Rmdir, RemovesName, Target
  <2>2. Removed(p) = IF job[p].out THEN "done" ELSE "look"
    BY DEF Removed
  <2>3. Drops(p) /\ \A q \in Commands : q # p => job'[q] = job[q]
    BY <1>1, <2>1, <2>2, <2>4 DEF Drops, Turns, In, KeepsOn, Keeps, Jobs
  <2> QED BY <2>1, <2>3, BoundsKept DEF ScanEffect
<1>11. CASE SyncFails(p)
  <2>1. /\ UNCHANGED <<current, cast, scans, crashes>> /\ faults' = faults + 1 /\ lapsed'
        /\ Raised(p) = IF job[p].replaced /\ job[p].phase \notin {"restore", "putback"}
                       THEN "restore" ELSE "failed"
    BY <1>11 DEF SyncFails, Raised, In
  <2>2. CASE RenamesAside(p) /\ Goto(p, Raised(p))
    <3>1. ~job[p].replaced
      BY <1>4, <2>2 DEF RenamesAside, ScanJob, In
    <3>2. Slips(p) /\ \A q \in Commands : q # p => job'[q] = job[q]
      BY <1>1, <1>3, <2>1, <2>2, <3>1, GotoKeeps DEF RenamesAside, Slips, Lapses, Turns, In
    <3> QED BY <1>3, <2>1, <3>2 DEF ScanEffect
  <2>3. CASE RenamesOut(p) /\ Published(p, Raised(p))
    <3>1. job' = [job EXCEPT ![p] = [job[p] EXCEPT !.out = TRUE, !.phase = Raised(p)]]
      BY <2>3 DEF Published
    <3>2. /\ Turns(p, "publish", Raised(p)) /\ job'[p].out
          /\ job'[p].tree = job[p].tree /\ job'[p].doomed = job[p].doomed
          /\ job'[p].replaced = job[p].replaced /\ job'[p].view = job[p].view
          /\ job'[p].before = job[p].before
          /\ \A q \in Commands : q # p => job'[q] = job[q]
      BY <1>1, <2>3, <3>1 DEF RenamesOut, Turns, In, Jobs
    <3>3. Publishes(p)
      BY <1>3, <2>1, <2>3, <3>2 DEF RenamesOut, Publishes, Lapses, Turns
    <3> QED BY <1>3, <2>1, <3>2, <3>3 DEF ScanEffect
  <2>4. CASE RemovesName(p, Raised(p))
    <3>1. /\ job' = [q \in Commands |-> IF q = p THEN [job[p] EXCEPT !.phase = Raised(p)] ELSE job[q]]
          /\ In(p, "rmdir") /\ previous # NoTree /\ files[previous] = {} /\ previous' = NoTree
          /\ UNCHANGED <<generated, files, made>>
      BY <1>1, <2>4 DEF RemovesName, Target
    <3>2. KeepsOn(p) /\ Turns(p, "rmdir", Raised(p)) /\ \A q \in Commands : q # p => job'[q] = job[q]
      BY <1>1, <3>1 DEF Turns, In, KeepsOn, Keeps, Jobs
    <3>3. Drops(p)
      BY <1>3, <2>1, <3>1, <3>2 DEF Drops, Lapses, Turns
    <3> QED BY <1>3, <2>1, <3>2, <3>3 DEF ScanEffect
  <2>5. ~WritesReport(p)
    BY <1>1, WhoReads DEF WritesReport, In
  <2> QED BY <1>11, <2>2, <2>3, <2>4, <2>5 DEF SyncFails
<1> QED BY <1>2, <1>5, <1>6, <1>7, <1>8, <1>9, <1>10, <1>11 DEF CommandStep

(* A job that has only seen another content.                               *)
LEMMA ChangedKeeps ==
  ASSUME StoreInv, NEW s \in Sources, NEW c \in Contents, NEW q \in Commands,
         job'[q] = Changed(s, c)[q]
  PROVE  /\ job'[q].phase = job[q].phase /\ Keeps(q) /\ job'[q].todo = job[q].todo
         /\ job'[q].before = job[q].before
<1> DEFINE b == Changed(s, c)[q]
<1>1. /\ b.phase = job[q].phase /\ b.tree = job[q].tree /\ b.view = job[q].view
      /\ b.doomed = job[q].doomed /\ b.before = job[q].before /\ b.out = job[q].out
      /\ b.replaced = job[q].replaced /\ b.todo = job[q].todo
  BY ChangedJobs, ZenonT(30)
<1>2. job'[q] = b
  OBVIOUS
<1> HIDE DEF b
<1> QED BY <1>1, <1>2 DEF Keeps

(* The jobs of scans are not those that another command moves.             *)
LEMMA OtherCommandEffect ==
  ASSUME StoreInv, NEW p \in Commands, p \notin Scanners, CommandStep(p) PROVE OtherEffect
<1>1. /\ job \in [Commands -> Jobs] /\ job[p] \in Jobs /\ faults \in Nat /\ crashes \in Nat
      /\ Scanners \subseteq Commands /\ p \in Readers \cup Setters
      /\ files \in [Trees -> SUBSET Files]
      /\ Live(p) => ~(cast.commands \subseteq Scanners)
  BY Kinds, JobHere DEF StoreInv, StoreTypeOK, Counted, Commands
<1>2. CASE Start(p) \/ Snapshot(p) \/ End(p) \/ Raise(p) \/ Fault(p) \/ Crash(p) \/ OpenTree(p)
             \/ ReadManifest(p) \/ ReadDocuments(p) \/ OpenForReport(p)
  <2>1. /\ \A q \in Scanners : job'[q] = job[q]
        /\ UNCHANGED <<disk, cast, scans, lapsed>>
    BY <1>1, <1>2 DEF Start, Snapshot, End, Raise, Fault, Crash, OpenTree, ReadManifest, ReadDocuments,
         OpenForReport, Goto, bounds
  <2>2. faults' \in Nat /\ crashes' \in Nat /\ faults <= faults' /\ crashes <= crashes'
    BY <1>1, <1>2 DEF Start, Snapshot, End, Raise, Fault, Crash, OpenTree, ReadManifest, ReadDocuments,
         OpenForReport, bounds
  <2> QED BY <1>1, <2>1, <2>2 DEF OtherEffect, Keeps, disk
<1>8. WriteReport(p) \/ SyncFails(p) \/ Rmdir(p) =>
        /\ UNCHANGED <<cast, scans, crashes>> /\ faults' \in Nat /\ faults <= faults'
        /\ lapsed => lapsed'
  BY <1>1 DEF WriteReport, SyncFails, Rmdir, bounds
<1>3. ASSUME NEW ph, WritesReport(p), Goto(p, ph), WriteReport(p) \/ SyncFails(p) PROVE OtherEffect
  <2>1. /\ \A q \in Scanners : job'[q] = job[q]
        /\ UNCHANGED <<generated, previous, made>>
        /\ \A t \in Trees : files[t] \subseteq files'[t] /\ files'[t] \subseteq files[t] \cup {"report"}
        /\ Live(p)
    BY <1>1, <1>3 DEF WritesReport, Goto, Live, In
  <2> QED BY <1>1, <1>3, <1>8, <2>1 DEF OtherEffect, Keeps
<1>4. CASE Unlink(p)
  <2>1. p \in Setters /\ ~NoSetters /\ Live(p)
    BY <1>1, <1>4, JobHere DEF Unlink, In, ReadJob, NoSetters, Live
  <2>2. /\ \A q \in Scanners : job'[q] = job[q]
        /\ UNCHANGED <<generated, previous, made, bounds>> /\ In(p, "unlink")
        /\ \A t \in Trees : files'[t] \subseteq files[t] /\ (t # job[p].doomed => files'[t] = files[t])
    BY <1>1, <1>4 DEF Unlink, Goto
  <2> QED BY <1>1, <2>1, <2>2, BoundsKept DEF OtherEffect, Keeps
<1>5. ASSUME NEW ph, RemovesName(p, ph), Rmdir(p) \/ SyncFails(p) PROVE OtherEffect
  <2>1. p \in Setters /\ ~NoSetters /\ Live(p)
    BY <1>1, <1>5, JobHere DEF RemovesName, In, ReadJob, NoSetters, Live
  <2>2. generated' = NoTree /\ UNCHANGED <<files, previous, made>>
    BY <1>1, <1>5 DEF RemovesName
  <2>4. Vacant(generated)
    BY <1>1, <1>5, <2>1, Kinds DEF RemovesName, Target, Vacant
  <2>3. ASSUME NEW q \in Scanners
        PROVE  /\ job'[q].phase = job[q].phase /\ Keeps(q) /\ job'[q].todo = job[q].todo
               /\ job'[q].before = NoTree
    <3>1. q \in Commands /\ q # p /\ job[q] \in Jobs
      BY <1>1
    <3>2. job'[q] = [job[q] EXCEPT !.before = NoTree]
      BY <1>5, <2>1, <3>1 DEF RemovesName
    <3> QED BY <3>1, <3>2 DEF Keeps, Jobs
  <2> QED BY <1>1, <1>5, <1>8, <2>1, <2>2, <2>3, <2>4 DEF OtherEffect
<1>6. CASE SetSource(p)
  <2>1. PICK s \in cast.sources, c \in cast.contents :
          Becomes(s, c) /\ job' = [Changed(s, c) EXCEPT ![p].phase = "open"]
    BY <1>6 DEF SetSource
  <2>2. s \in Sources /\ c \in Contents /\ UNCHANGED <<disk, bounds>>
    BY <1>6, <2>1, NewContent DEF SetSource
  <2>3. \A q \in Scanners : job'[q] = Changed(s, c)[q]
    BY <1>1, <2>1 DEF Changed
  <2>4. \A q \in Scanners : /\ job'[q].phase = job[q].phase /\ Keeps(q) /\ job'[q].todo = job[q].todo
                            /\ job'[q].before = job[q].before
    BY <1>1, <2>2, <2>3, ChangedKeeps
  <2> QED BY <1>1, <2>2, <2>4, BoundsKept DEF OtherEffect, disk
<1>7. ~RenamesAside(p) /\ ~RenamesOut(p)
  BY <1>1, JobHere DEF RenamesAside, RenamesOut, ReadJob, SetJob, In
<1> QED BY <1>2, <1>3, <1>4, <1>5, <1>6, <1>7 DEF CommandStep, WriteReport, SyncFails, Rmdir

LEMMA WorldEffect == ASSUME StoreInv, WriteSource \/ EditModel PROVE OtherEffect
<1>1. Scanners \subseteq Commands
  BY DEF Commands
<1>2. CASE WriteSource
  <2>1. PICK s \in cast.sources, c \in cast.contents : Becomes(s, c) /\ job' = Changed(s, c)
    BY <1>2 DEF WriteSource
  <2>2. s \in Sources /\ c \in Contents /\ UNCHANGED <<disk, bounds>>
    BY <1>2, <2>1, NewContent DEF WriteSource
  <2>3. \A q \in Scanners : /\ job'[q].phase = job[q].phase /\ Keeps(q) /\ job'[q].todo = job[q].todo
                            /\ job'[q].before = job[q].before
    BY <1>1, <2>1, <2>2, ChangedKeeps
  <2> QED BY <2>2, <2>3, BoundsKept DEF OtherEffect, disk
<1>3. CASE EditModel
  BY <1>1, <1>3, BoundsKept DEF EditModel, OtherEffect, Keeps, disk
<1> QED BY <1>2, <1>3

(* Every step is a scan's or leaves what scans depend on.                  *)
LEMMA NextEffect ==
  ASSUME StoreInv, [Next]_vars
  PROVE  OtherEffect \/ \E p \in Scanners : ScanEffect(p)
<1>1. CASE UNCHANGED vars
  BY <1>1 DEF vars, OtherEffect, Keeps, StoreInv, Counted
<1>2. ASSUME NEW p \in Commands, CommandStep(p)
      PROVE  OtherEffect \/ \E q \in Scanners : ScanEffect(q)
  BY <1>2, ScanCommandEffect, OtherCommandEffect
<1> QED BY <1>1, <1>2, ScanStepEffect, WorldEffect DEF Next, CommandStep, ScanStep

-----------------------------------------------------------------------------
(* One scanner: what it has moved aside is there until it publishes or     *)
(* puts it back.                                                           *)
Aside(p) ==
  job[p].replaced /\ ~job[p].out /\ job[p].phase \in {"publish", "restore", "putback"}

Alone(p) ==
  /\ Aside(p) => generated = NoTree /\ previous # NoTree
  /\ In(p, "publish") => generated = NoTree
  /\ job[p].phase \in {"unlink", "rmdir"} => job[p].doomed = previous
  /\ Aside(p) /\ job[p].phase \in {"restore", "putback"} => faults >= 1

(* A sync or a second call has failed, and what stood there is the backup. *)
Slipped(p) == (lapsed \/ faults > 1) /\ generated = NoTree /\ previous = job[p].before

(* What became of the generated/ it found.                                 *)
Undone(p) ==
  job[p].before # NoTree =>
    /\ job[p].phase \notin {"idle", "snapshot", "build"}
    /\ ~job[p].replaced /\ ~job[p].out =>
         \/ generated = job[p].before /\ ~In(p, "publish")
         \/ In(p, "failed") /\ Slipped(p)
    /\ Aside(p) => previous = job[p].before
    /\ job[p].replaced /\ ~job[p].out /\ In(p, "failed") =>
         generated = job[p].before \/ Slipped(p)
    /\ job[p].out => generated = job[p].tree /\ ~In(p, "putback")

AloneInv == OneScanner => \A p \in Scanners : Alone(p) /\ Undone(p)

(* Of scanners that may take part at most one moves.                       *)
LEMMA OnlyOne ==
  ASSUME StoreInv, OneScanner, NEW p \in Scanners, NEW q \in Scanners, Live(p), Live(q)
  PROVE  p = q
  BY JobHere DEF OneScanner, Commands

LEMMA InitAlone == Init => AloneInv
  BY IdleJob DEF Init, AloneInv, Alone, Undone, Slipped, Aside, In, Commands, Idle

(* The scanner itself.                                                     *)
LEMMA ScanAlone ==
  ASSUME StoreInv, StoreInv', NEW p \in Scanners, Alone(p), Undone(p), ScanEffect(p)
  PROVE  Alone(p)' /\ Undone(p)'
<1>1. p \in Commands /\ ScanJob(job[p]) /\ ScanJob(job'[p]) /\ job[p] \in Jobs /\ job'[p] \in Jobs
  BY JobHere DEF Commands, StoreInv, Roles, RoleOf, StoreTypeOK
<1>2. NoTree \notin Trees /\ job'[p].tree \in Trees
  BY <1>1, StoreConstants DEF NoTree, Trees, Jobs
<1>14. faults \in Nat /\ faults' \in Nat /\ faults <= faults' /\ (lapsed => lapsed')
  BY DEF ScanEffect
<1>3. CASE Resets(p)
  BY <1>3, <1>14 DEF Resets, Alone, Undone, Slipped, Aside, In
<1>4. CASE Snaps(p)
  BY <1>1, <1>14, <1>4 DEF Snaps, Turns, disk, ScanJob, Alone, Undone, Slipped, Aside, In
<1>5. CASE Builds(p)
  BY <1>1, <1>14, <1>5 DEF Builds, Turns, Keeps, ScanJob, Alone, Undone, Slipped, Aside, In
<1>6. CASE Walks(p)
  BY <1>1, <1>2, <1>14, <1>6 DEF Walks, Turns, Keeps, KeepsOn, disk, ScanJob, Alone, Undone, Slipped, Aside, In
<1>7. CASE Fails(p)
  <2>1. Aside(p) => faults < faults'
    BY <1>2, <1>7, <1>14 DEF Fails, Raises, In, Alone, Aside, Vacant
  <2>2. Alone(p)'
    BY <1>1, <1>7, <1>14, <2>1 DEF Fails, Keeps, KeepsOn, disk, ScanJob, Alone, Aside, In
  <2>3. In(p, "failed")' /\ Aside(p) => Slipped(p)' \/ job[p].before = NoTree
    BY <1>1, <1>7, <1>14, <2>1 DEF Fails, Keeps, KeepsOn, disk, Alone, Undone, Slipped, Aside, In
  <2>4. Undone(p)'
    BY <1>1, <1>7, <1>14, <2>3 DEF Fails, Keeps, KeepsOn, disk, ScanJob, Undone, Slipped, Aside, In
  <2> QED BY <2>2, <2>4
<1>8. CASE Opens(p)
  BY <1>1, <1>14, <1>8 DEF Opens, Turns, disk, ScanJob, Alone, Undone, Slipped, Aside, In
<1>9. CASE Empties(p)
  BY <1>1, <1>14, <1>9 DEF Empties, Turns, Keeps, KeepsOn, ScanJob, Alone, Undone, Slipped, Aside, In
<1>10. CASE Drops(p)
  BY <1>1, <1>14, <1>10 DEF Drops, Turns, Lapses, Keeps, KeepsOn, ScanJob, Alone, Undone, Slipped, Aside, In
<1>11. CASE Sets(p)
  BY <1>1, <1>14, <1>11 DEF Sets, Turns, ScanJob, Alone, Undone, Slipped, Aside, In
<1>12. CASE Publishes(p)
  BY <1>1, <1>14, <1>12 DEF Publishes, Turns, Lapses, ScanJob, Alone, Undone, Slipped, Aside, In
<1>13. CASE PutsBack(p)
  BY <1>1, <1>2, <1>14, <1>13 DEF PutsBack, Turns, Keeps, KeepsOn, ScanJob, Alone, Undone, Slipped, Aside, In, Vacant
<1>15. CASE Slips(p)
  BY <1>1, <1>14, <1>15 DEF Slips, Lapses, Turns, Keeps, KeepsOn, ScanJob, Alone, Undone, Slipped, Aside, In
<1> QED BY <1>3, <1>4, <1>5, <1>6, <1>7, <1>8, <1>9, <1>10, <1>11, <1>12, <1>13, <1>15 DEF ScanEffect

(* Any other step: what it takes away the scan no longer counts on.        *)
LEMMA OtherAlone ==
  ASSUME NEW p \in Scanners, Alone(p), Undone(p), OtherEffect
  PROVE  Alone(p)' /\ Undone(p)'
  BY DEF OtherEffect, Keeps, Alone, Undone, Slipped, Aside, In

LEMMA AloneNext == ASSUME StoreInv, AloneInv, [Next]_vars PROVE AloneInv'
<1>1. StoreInv' /\ Scanners \subseteq Commands
  BY StoreInvNext DEF Commands
<1>2. SUFFICES ASSUME OneScanner', NEW p \in Scanners PROVE Alone(p)' /\ Undone(p)'
  BY DEF AloneInv
<1>3. cast' = cast /\ OneScanner
  BY <1>2, NextEffect DEF OtherEffect, ScanEffect, OneScanner
<1>4. Alone(p) /\ Undone(p)
  BY <1>3 DEF AloneInv
<1>5. CASE OtherEffect
  BY <1>4, <1>5, OtherAlone
<1>6. CASE ScanEffect(p)
  BY <1>1, <1>4, <1>6, ScanAlone
<1>7. ASSUME NEW q \in Scanners, q # p, ScanEffect(q) PROVE Alone(p)' /\ Undone(p)'
  <2>1. job'[p] = job[p] /\ p \in Commands /\ (lapsed => lapsed')
        /\ faults \in Nat /\ faults' \in Nat /\ faults <= faults'
    BY <1>1, <1>7 DEF ScanEffect
  <2>2. CASE job[p].phase = "idle"
    <3>1. job'[p] = Idle
      BY <2>1, <2>2, JobHere DEF RoleOf
    <3> QED BY <3>1, IdleJob DEF Alone, Undone, Slipped, Aside, In, Idle
  <2>3. CASE job[p].phase # "idle"
    <3>1. Live(p) /\ Live(p)' /\ ~Live(q) /\ ~Live(q)'
      BY <1>1, <1>2, <1>3, <1>7, <2>1, <2>3, OnlyOne, JobHere, SMTT(30)
      DEF Live, In, OneScanner, StoreInv, Roles
    <3>2. Resets(q)
      BY <1>7, <3>1 DEF ScanEffect, Live, In, Snaps, Builds, Walks, Fails, Opens, Empties, Drops, Sets,
         Slips, Publishes, PutsBack, Lapses, Turns
    <3> QED BY <1>4, <2>1, <3>2 DEF Resets, disk, Alone, Undone, Slipped, Aside, In
  <2> QED BY <2>2, <2>3
<1> QED BY <1>5, <1>6, <1>7, NextEffect

LEMMA AloneInvHolds == Spec => []AloneInv
<1>1. Spec => [](StoreInv)
  BY StoreInvHolds
<1>2. StoreInv /\ AloneInv /\ [Next]_vars => AloneInv'
  BY AloneNext
<1> QED BY <1>1, <1>2, InitAlone, PTL DEF Spec

(* A scan that fails beside no other scan leaves generated/ as it found it *)
(* or with its own evidence, although any of its steps may fail and        *)
(* `source` commands run beside it: the except clause of                   *)
(* write_generated_transaction tells how far it got. The exceptions are    *)
(* the sync after a rename and a second failure, which may leave what      *)
(* stood there as the backup and nothing under generated/.                 *)
THEOREM FailedScanUndoes == Spec => []FailedScanKeepsEvidence
<1>1. StoreInv /\ AloneInv => FailedScanKeepsEvidence
  <2> SUFFICES ASSUME StoreInv, AloneInv, OneScanner, NEW p \in Scanners, In(p, "failed"),
                      job[p].before # NoTree
               PROVE  generated \in {job[p].before, job[p].tree} \/ Slipped(p)
    BY DEF FailedScanKeepsEvidence, Slipped
  <2>1. Undone(p)
    BY DEF AloneInv
  <2>2. job[p].replaced \in BOOLEAN /\ job[p].out \in BOOLEAN
    BY JobHere DEF Jobs, Commands
  <2> QED BY <2>1, <2>2 DEF Undone
<1> QED BY <1>1, StoreInvHolds, AloneInvHolds, PTL

-----------------------------------------------------------------------------
(* One scanner and readers: what is published is whole, and so is what     *)
(* has been moved aside to be put back.                                    *)
WholeInv ==
  NoSetters /\ OneScanner =>
    /\ generated \in Trees \ {0} => files[generated] = Files
    /\ \A p \in Scanners :
         /\ Aside(p) => previous = 0 \/ files[previous] = Files
         /\ job[p].out => generated = job[p].tree /\ ~In(p, "putback")

LEMMA InitWhole == Init => WholeInv
  BY IdleJob, SMTT(30) DEF Init, WholeInv, Aside, Idle, Commands

(* Beside another live scan a scanner that takes part alone only resets.   *)
LEMMA OneMoves ==
  ASSUME StoreInv, OneScanner, NEW p \in Scanners, NEW q \in Scanners, q # p, Live(q), ScanEffect(p)
  PROVE  Resets(p)
<1>1. ~Live(p)
  BY OnlyOne
<1> QED BY <1>1 DEF ScanEffect, Live, In, Snaps, Builds, Walks, Fails, Opens, Empties, Drops, Sets,
     Slips, Publishes, PutsBack, Lapses, Turns

LEMMA LiveAside ==
  ASSUME StoreInv, NEW q \in Scanners, Aside(q) \/ job[q].out
  PROVE  Live(q)
<1>1. ScanJob(job[q])
  BY JobHere DEF Commands
<1> QED BY <1>1 DEF ScanJob, Aside, Live, In

LEMMA WholeNext == ASSUME StoreInv, AloneInv, WholeInv, [Next]_vars PROVE WholeInv'
<1>1. NoTree \notin Trees /\ Scanners \subseteq Commands /\ StoreInv'
  BY StoreConstants, StoreInvNext DEF NoTree, Trees, Commands
<1>2. SUFFICES ASSUME NoSetters', OneScanner' PROVE WholeInv'
  BY DEF WholeInv
<1>3. cast' = cast /\ NoSetters /\ OneScanner
  BY <1>2, NextEffect DEF OtherEffect, ScanEffect, NoSetters, OneScanner
<1>4. /\ generated \in Trees \cup {NoTree} /\ previous \in Trees \cup {NoTree}
      /\ generated = previous => generated = NoTree
      /\ files \in [Trees -> SUBSET Files] /\ files' \in [Trees -> SUBSET Files]
  BY <1>1 DEF StoreInv, StoreTypeOK
<1>5. /\ generated \in Trees \ {0} => files[generated] = Files
      /\ \A p \in Scanners : Aside(p) => previous = 0 \/ files[previous] = Files
      /\ \A p \in Scanners : job[p].out => generated = job[p].tree /\ ~In(p, "putback")
      /\ \A p \in Scanners : Alone(p)
  BY <1>3 DEF WholeInv, AloneInv
<1>6. CASE OtherEffect
  <2>1. generated' = generated /\ previous' = previous /\ \A t \in Trees : files[t] \subseteq files'[t]
    BY <1>3, <1>6 DEF OtherEffect
  <2>2. \A t \in Trees : files[t] = Files => files'[t] = Files
    BY <1>4, <2>1
  <2>3. \A p \in Scanners : (Aside(p)' <=> Aside(p)) /\ job'[p].out = job[p].out
          /\ job'[p].tree = job[p].tree /\ job'[p].phase = job[p].phase
    BY <1>6 DEF OtherEffect, Keeps, Aside
  <2>4. \A p \in Scanners : Aside(p) => previous \in Trees
    BY <1>4, <1>5 DEF Alone
  <2> QED BY <1>5, <2>1, <2>2, <2>3, <2>4 DEF WholeInv, In
<1>7. ASSUME NEW p \in Scanners, ScanEffect(p) PROVE WholeInv'
  <2>1. p \in Commands /\ ScanJob(job[p]) /\ job[p] \in Jobs /\ Alone(p)
    BY <1>1, <1>5, JobHere
  <2>2. \A q \in Scanners : q # p => job'[q] = job[q]
    BY <1>1, <1>7 DEF ScanEffect
  <2>3. CASE Resets(p)
    <3>1. UNCHANGED disk /\ ~Aside(p)' /\ ~job'[p].out
      BY <2>3 DEF Resets, Aside
    <3> QED BY <1>5, <2>2, <3>1 DEF disk, WholeInv, Aside, In
  <2>4. CASE ~Resets(p)
    <3>1. \A q \in Scanners : q # p => ~Aside(q) /\ ~job[q].out
      BY <1>3, <1>7, <2>4, OneMoves, LiveAside
    <3>2. \A q \in Scanners : q # p => ~Aside(q)' /\ ~job'[q].out
      BY <2>2, <3>1 DEF Aside
    <3>3. SUFFICES /\ generated' \in Trees \ {0} => files'[generated'] = Files
                   /\ Aside(p)' => previous' = 0 \/ files'[previous'] = Files
                   /\ job'[p].out => generated' = job'[p].tree /\ ~In(p, "putback")'
      BY <3>2 DEF WholeInv
    <3>4. CASE Snaps(p) \/ Opens(p)
      BY <1>5, <2>1, <3>4 DEF Snaps, Opens, Turns, disk, ScanJob, Aside, In
    <3>5. CASE Walks(p)
      <4>1. CASE job[p].out
        BY <1>1, <1>4, <1>5, <2>1, <3>5, <4>1 DEF Walks, Turns, KeepsOn, Keeps, disk, Aside, In, Jobs
      <4>2. CASE ~job[p].out
        BY <1>5, <2>1, <3>5, <4>2 DEF Walks, Turns, KeepsOn, Keeps, disk, ScanJob, Aside, In
      <4> QED BY <4>1, <4>2
    <3>6. CASE Fails(p)
      BY <1>5, <2>1, <3>6 DEF Fails, KeepsOn, Keeps, disk, ScanJob, Aside, In
    <3>7. CASE Builds(p)
      <4>1. ~job[p].out /\ ~Aside(p)' /\ ~job'[p].out /\ Live(p)
        BY <2>1, <3>7 DEF Builds, Turns, Keeps, ScanJob, Aside, Live, In
      <4>2. job[p].tree # generated
        BY <4>1 DEF StoreInv, OwnTrees, Owned, Apart
      <4> QED BY <1>4, <1>5, <3>7, <4>1, <4>2 DEF Builds
    <3>8. CASE Empties(p)
      <4>1. job[p].doomed = previous
        BY <2>1, <3>8 DEF Empties, Turns, Alone
      <4>2. generated \in Trees => files'[generated] = files[generated]
        BY <1>1, <1>4, <3>8, <4>1 DEF Empties
      <4> QED BY <1>5, <3>8, <4>2 DEF Empties, Turns, KeepsOn, Keeps, Aside, In
    <3>9. CASE Drops(p)
      BY <1>5, <2>1, <3>9 DEF Drops, Lapses, Turns, KeepsOn, Keeps, ScanJob, Aside, In
    <3>13. CASE Slips(p)
      BY <1>1, <1>4, <2>1, <3>13 DEF Slips, Lapses, Turns, KeepsOn, Keeps, ScanJob, Aside
    <3>10. CASE Sets(p)
      BY <1>1, <1>4, <1>5, <2>1, <3>10 DEF Sets, Turns, ScanJob, Aside, In
    <3>11. CASE Publishes(p)
      <4>1. Live(p) /\ HasBuilt(job[p])
        BY <2>1, <3>11 DEF Publishes, Lapses, Turns, Live, In, HasBuilt, ScanJob
      <4>2. files[job[p].tree] = Files
        BY <4>1, BuiltApart
      <4> QED BY <3>11, <4>2 DEF Publishes, Lapses, Turns, Aside, In
    <3>12. CASE PutsBack(p)
      <4>1. Aside(p) /\ ~job[p].out
        BY <1>5, <2>1, <3>12 DEF PutsBack, Turns, ScanJob, Aside, In
      <4> QED BY <1>5, <3>12, <4>1 DEF PutsBack, Turns, KeepsOn, Keeps, Aside, In
    <3> QED BY <1>7, <2>4, <3>4, <3>5, <3>6, <3>7, <3>8, <3>9, <3>10, <3>11, <3>12, <3>13 DEF ScanEffect
  <2> QED BY <2>3, <2>4
<1> QED BY <1>6, <1>7, NextEffect

LEMMA WholeInvHolds == Spec => []WholeInv
  BY StoreInvHolds, AloneInvHolds, InitWhole, WholeNext, PTL DEF Spec

-----------------------------------------------------------------------------
(* generated/ is only gone while a scanner is about to publish or to put   *)
(* back: while no call has failed, and beside one scanner whose single     *)
(* failure was no sync. After one that was, the backup is there until the  *)
(* next scan removes it and publishes.                                     *)
GoneInv ==
  NoSetters /\ crashes = 0 /\ generated = NoTree =>
    /\ faults = 0 => \E p \in Scanners : In(p, "publish")
    /\ OneScanner /\ faults = 0 => \E p \in Scanners : Aside(p)
    /\ OneScanner /\ faults = 1 =>
         \/ lapsed /\ previous # NoTree
         \/ \E p \in Scanners : Aside(p) \/ In(p, "look") \/ In(p, "publish")

LEMMA InitGone == Init => GoneInv
  BY StoreConstants DEF Init, GoneInv, NoTree

LEMMA GoneNext == ASSUME StoreInv, AloneInv, WholeInv, GoneInv, [Next]_vars PROVE GoneInv'
<1>1. NoTree \notin Trees /\ Scanners \subseteq Commands /\ StoreInv'
  BY StoreConstants, StoreInvNext DEF NoTree, Trees, Commands
<1>2. SUFFICES ASSUME NoSetters', crashes' = 0, generated' = NoTree PROVE GoneInv'
  BY DEF GoneInv
<1>3. cast' = cast /\ NoSetters /\ (OneScanner' => OneScanner) /\ crashes = 0
      /\ faults \in Nat /\ faults' \in Nat /\ faults <= faults' /\ (lapsed => lapsed')
  BY <1>2, NextEffect DEF OtherEffect, ScanEffect, NoSetters, OneScanner
<1>4. CASE OtherEffect
  <2>1. generated = NoTree /\ previous' = previous
    BY <1>2, <1>3, <1>4 DEF OtherEffect
  <2>2. \A p \in Scanners : (Aside(p)' <=> Aside(p)) /\ job'[p].phase = job[p].phase
    BY <1>4 DEF OtherEffect, Keeps, Aside
  <2>3. faults' = 0 => faults = 0
    BY <1>3
  <2>4. faults' = 1 => faults \in {0, 1}
    BY <1>3
  <2> QED BY <1>3, <2>1, <2>2, <2>3, <2>4 DEF GoneInv, In
<1>5. ASSUME NEW p \in Scanners, ScanEffect(p) PROVE GoneInv'
  <2>1. p \in Commands /\ ScanJob(job[p]) /\ job[p] \in Jobs /\ job[p].tree \in Trees
    BY <1>1, JobHere DEF Jobs
  <2>2. CASE Sets(p)
    <3>1. Aside(p)' /\ In(p, "publish")'
      BY <2>1, <2>2 DEF Sets, Turns, ScanJob, Aside, In
    <3> QED BY <3>1 DEF GoneInv
  <2>3. CASE Slips(p)
    <3>1. faults' # 0 /\ lapsed' /\ previous' # NoTree
      BY <1>3, <2>3 DEF Slips, Lapses
    <3> QED BY <3>1 DEF GoneInv
  <2>4. CASE ~Sets(p) /\ ~Slips(p)
    <3>1. ~Publishes(p)
      BY <1>1, <1>2, <2>1, SMTT(30) DEF Publishes
    <3>2. generated = NoTree /\ Vacant(generated)
      BY <1>1, <1>2, <1>5, <2>4, <3>1 DEF ScanEffect, Resets, Snaps, Builds, Walks, Fails, Opens,
         Empties, Drops, PutsBack, disk, Vacant
    <3>3. \A q \in Scanners : q # p => job'[q] = job[q]
      BY <1>1, <1>5 DEF ScanEffect
    <3>4. In(p, "publish") /\ faults' = faults => In(p, "publish")'
      BY <1>2, <1>3, <1>5, <2>4, <3>1, <3>2 DEF ScanEffect, Resets, Snaps, Builds, Walks, Fails, Opens,
         Empties, Drops, Lapses, PutsBack, Turns, Raises, In
    <3>5. ASSUME faults' = 0 PROVE \E q \in Scanners : In(q, "publish")'
      <4>1. PICK q \in Scanners : In(q, "publish")
        BY <1>3, <3>2, <3>5 DEF GoneInv
      <4> QED BY <1>3, <3>3, <3>4, <3>5, <4>1 DEF In
    <3>6. ASSUME OneScanner PROVE ~PutsBack(p)
      <4>1. CASE job[p].out
        BY <1>3, <2>1, <3>2, <3>6, <4>1, <1>1 DEF WholeInv
      <4>2. CASE ~job[p].out /\ In(p, "putback")
        <5>1. Aside(p)
          BY <2>1, <4>2 DEF ScanJob, Aside, In
        <5>2. previous # NoTree
          BY <3>6, <5>1 DEF AloneInv, Alone
        <5> QED BY <1>2, <3>2, <5>2 DEF PutsBack
      <4> QED BY <2>1, <4>1, <4>2 DEF PutsBack, Turns, In, Jobs
    <3>7. ASSUME OneScanner, NEW q \in Scanners, Aside(q), faults' = faults \/ faults = 0
          PROVE  Aside(q)'
      <4>1. CASE q # p
        BY <3>3, <3>7, <4>1 DEF Aside
      <4>2. CASE q = p
        <5>1. previous # NoTree /\ (job[p].phase \in {"restore", "putback"} => faults >= 1)
              /\ job[p].phase \in {"publish", "restore", "putback"}
          BY <3>7, <4>2 DEF AloneInv, Alone, Aside
        <5>2. ~Resets(p) /\ ~Snaps(p) /\ ~Builds(p) /\ ~Opens(p)
          BY <1>2, <5>1 DEF Resets, Snaps, Builds, Opens, Turns
        <5>3. ~Empties(p) /\ ~Drops(p)
          BY <5>1 DEF Empties, Drops, Lapses, Turns
        <5>4. CASE Walks(p)
          BY <3>2, <3>7, <4>2, <5>1, <5>4 DEF Walks, Keeps, KeepsOn, Turns, Aside
        <5>5. CASE Fails(p)
          <6>1. ~Raises(p)
            BY <3>2, <5>1 DEF Raises, In
          <6>2. job[p].phase = "publish"
            BY <1>3, <3>7, <5>1, <5>5, <6>1 DEF Fails
          <6> QED BY <3>7, <4>2, <5>5, <6>2 DEF Fails, Keeps, KeepsOn, Aside
        <5> QED BY <1>5, <2>4, <3>1, <3>6, <3>7, <5>2, <5>3, <5>4, <5>5 DEF ScanEffect
      <4> QED BY <4>1, <4>2
    <3>8. ASSUME OneScanner, faults' = 1, faults = 1
          PROVE  \/ lapsed' /\ previous' # NoTree
                 \/ \E q \in Scanners : (Aside(q) \/ In(q, "look") \/ In(q, "publish"))'
      <4>1. CASE \E q \in Scanners : Aside(q)
        BY <3>7, <3>8, <4>1
      <4>2. ASSUME NEW q \in Scanners, In(q, "look") \/ In(q, "publish")
            PROVE  (In(q, "look") \/ In(q, "publish"))'
        <5>1. CASE q # p
          BY <3>3, <4>2, <5>1 DEF In
        <5>2. CASE q = p
          <6>1. CASE In(p, "publish")
            BY <3>4, <3>8, <5>2, <6>1
          <6>2. CASE In(p, "look")
            <7>1. ~Raises(p) /\ ~Resets(p) /\ ~Snaps(p) /\ ~Builds(p)
              BY <1>2, <6>2 DEF Raises, Resets, Snaps, Builds, Turns, In
            <7>2. ~Fails(p) /\ ~Opens(p) /\ ~Empties(p) /\ ~Drops(p) /\ ~PutsBack(p)
              BY <3>8, <6>2, <7>1 DEF Fails, Opens, Empties, Drops, PutsBack, Lapses, Turns, In
            <7>3. Walks(p)
              BY <1>5, <2>4, <3>1, <7>1, <7>2 DEF ScanEffect
            <7> QED BY <3>2, <5>2, <6>2, <7>3 DEF Walks, Turns, In
          <6> QED BY <4>2, <5>2, <6>1, <6>2
        <5> QED BY <5>1, <5>2
      <4>3. CASE lapsed /\ previous # NoTree
        <5>1. CASE Drops(p)
          <6>1. ~job[p].out
            BY <1>1, <1>3, <2>1, <3>2, <3>8 DEF WholeInv
          <6> QED BY <3>8, <5>1, <6>1 DEF Drops, Lapses, Turns, In
        <5>2. CASE ~Drops(p)
          <6>1. previous' = previous
            BY <1>5, <2>4, <3>1, <3>6, <3>8, <5>2 DEF ScanEffect, Resets, Snaps, Builds, Walks, Fails,
               Opens, Empties, disk
          <6> QED BY <1>3, <4>3, <6>1, SMTT(30)
        <5> QED BY <5>1, <5>2
      <4> QED BY <1>3, <3>2, <3>8, <4>1, <4>2, <4>3 DEF GoneInv
    <3>9. CASE faults = 0
      <4>1. OneScanner => \E q \in Scanners : Aside(q)
        BY <1>3, <3>2, <3>9 DEF GoneInv
      <4>2. OneScanner => \E q \in Scanners : Aside(q)'
        BY <3>7, <3>9, <4>1
      <4> QED BY <1>3, <3>5, <4>2 DEF GoneInv
    <3>10. CASE faults # 0
      <4>1. faults' # 0 /\ (faults' = 1 => faults = 1)
        BY <1>3, <3>10
      <4> QED BY <1>3, <3>8, <4>1 DEF GoneInv
    <3> QED BY <3>9, <3>10
  <2> QED BY <2>2, <2>3, <2>4
<1> QED BY <1>4, <1>5, NextEffect

(* The directory of `init` does not come back once a scan has published,   *)
(* and while it has a name no directory that has taken its place is        *)
(* emptied.                                                                *)
ZeroInv ==
  NoSetters =>
    /\ 0 \in {generated, previous} =>
         /\ \A p \in Scanners : job[p].doomed = 0
         /\ generated \in Trees \ {0} => files[generated] # {}
    /\ (\E p \in Scanners : job[p].out) =>
         generated # 0 /\ ~(generated = NoTree /\ previous = 0)

LEMMA InitZero == Init => ZeroInv
  BY IdleJob DEF Init, ZeroInv, Idle, Commands

LEMMA ZeroNext == ASSUME StoreInv, ZeroInv, [Next]_vars PROVE ZeroInv'
<1>1. NoTree \notin Trees /\ 0 # NoTree /\ Scanners \subseteq Commands /\ StoreInv'
  BY StoreConstants, StoreInvNext DEF NoTree, Trees, Commands
<1>2. SUFFICES ASSUME NoSetters' PROVE ZeroInv'
  BY DEF ZeroInv
<1>3. cast' = cast /\ NoSetters
  BY <1>2, NextEffect DEF OtherEffect, ScanEffect, NoSetters
<1>4. /\ files \in [Trees -> SUBSET Files] /\ generated \in Trees \cup {NoTree}
      /\ generated = 0 => previous = NoTree
  BY DEF StoreInv, StoreTypeOK, Counted
<1>5. CASE OtherEffect
  <2>1. generated' = generated /\ previous' = previous /\ \A t \in Trees : files[t] \subseteq files'[t]
    BY <1>3, <1>5 DEF OtherEffect
  <2>2. \A q \in Scanners : job'[q].doomed = job[q].doomed /\ job'[q].out = job[q].out
    BY <1>5 DEF OtherEffect, Keeps
  <2>3. generated \in Trees \ {0} /\ files[generated] # {} => files'[generated] # {}
    BY <2>1
  <2> QED BY <1>3, <2>1, <2>2, <2>3 DEF ZeroInv
<1>6. ASSUME NEW p \in Scanners, ScanEffect(p) PROVE ZeroInv'
  <2>1. p \in Commands /\ ScanJob(job[p]) /\ job[p] \in Jobs
    BY <1>1, JobHere
  <2>2. Live(p) => job[p].tree \in Trees \ {0}
    BY <2>1 DEF StoreInv, OwnTrees, Owned, Jobs
  <2>3. \A q \in Scanners : q # p => job'[q] = job[q]
    BY <1>1, <1>6 DEF ScanEffect
  <2>4. CASE Publishes(p)
    <3>1. Live(p) /\ HasBuilt(job[p])
      BY <2>1, <2>4 DEF Publishes, Lapses, Turns, Live, In, HasBuilt, ScanJob
    <3>2. files'[generated'] = Files /\ generated' \in Trees \ {0}
      BY <2>2, <2>4, <3>1, BuiltApart DEF Publishes
    <3>3. 0 \in {generated', previous'} => 0 \in {generated, previous}
      BY <2>4, <3>2 DEF Publishes
    <3>4. \A q \in Scanners : job'[q].doomed = job[q].doomed
      BY <2>3, <2>4 DEF Publishes
    <3>5. Files # {}
      BY DEF Files
    <3> QED BY <1>1, <1>3, <3>2, <3>3, <3>4, <3>5 DEF ZeroInv
  <2>5. CASE Builds(p)
    <3>1. Live(p) /\ ~job[p].out
      BY <2>1, <2>5 DEF Builds, Turns, Live, In, ScanJob
    <3>2. generated' = generated /\ previous' = previous /\ job[p].tree # generated
      BY <2>5, <3>1 DEF Builds, StoreInv, OwnTrees, Owned, Apart
    <3>3. generated \in Trees => files'[generated] = files[generated]
      BY <1>4, <2>5, <3>2 DEF Builds
    <3>4. \A q \in Scanners : job'[q].doomed = job[q].doomed /\ job'[q].out = job[q].out
      BY <2>3, <2>5 DEF Builds, Keeps
    <3> QED BY <1>3, <3>2, <3>3, <3>4 DEF ZeroInv
  <2>6. CASE Empties(p)
    <3>1. 0 \in {generated, previous} /\ generated \in Trees \ {0} => files'[generated] = files[generated]
      BY <1>3, <2>6 DEF Empties, ZeroInv
    <3>2. \A q \in Scanners : job'[q].doomed = job[q].doomed /\ job'[q].out = job[q].out
      BY <2>3, <2>6 DEF Empties, Keeps, KeepsOn
    <3> QED BY <1>3, <2>6, <3>1, <3>2 DEF ZeroInv, Empties
  <2>7. CASE Resets(p)
    <3>1. \A q \in Scanners : job'[q].out => job[q].out
      BY <2>3, <2>7 DEF Resets
    <3> QED BY <1>3, <2>3, <2>7, <3>1 DEF Resets, disk, ZeroInv
  <2>8. CASE Opens(p)
    <3>1. \A q \in Scanners : job'[q].out = job[q].out
      BY <2>3, <2>8 DEF Opens
    <3>2. 0 \in {generated, previous} => \A q \in Scanners : job'[q].doomed = 0
      BY <1>3, <1>4, <2>3, <2>8 DEF Opens, ZeroInv
    <3> QED BY <1>3, <2>8, <3>1, <3>2 DEF Opens, disk, ZeroInv
  <2>9. CASE Snaps(p) \/ Walks(p) \/ Fails(p)
    <3>1. UNCHANGED disk /\ \A q \in Scanners : job'[q].doomed = job[q].doomed /\ job'[q].out = job[q].out
      BY <2>3, <2>9 DEF Snaps, Walks, Fails, Keeps, KeepsOn
    <3> QED BY <1>3, <3>1 DEF disk, ZeroInv
  <2>10. CASE Drops(p) \/ Sets(p) \/ Slips(p) \/ PutsBack(p)
    <3>1. files' = files /\ \A q \in Scanners : job'[q].doomed = job[q].doomed /\ job'[q].out = job[q].out
      BY <2>3, <2>10 DEF Drops, Sets, Slips, PutsBack, Keeps, KeepsOn
    <3>2. CASE Drops(p)
      BY <1>1, <1>3, <3>1, <3>2 DEF Drops, ZeroInv
    <3>3. CASE Sets(p) \/ Slips(p)
      BY <1>1, <1>3, <3>1, <3>3 DEF Sets, Slips, ZeroInv
    <3>4. CASE PutsBack(p)
      BY <1>1, <1>3, <1>4, <3>1, <3>4 DEF PutsBack, Vacant, ZeroInv
    <3> QED BY <2>10, <3>2, <3>3, <3>4
  <2> QED BY <1>6, <2>4, <2>5, <2>6, <2>7, <2>8, <2>9, <2>10 DEF ScanEffect
<1> QED BY <1>5, <1>6, NextEffect

LEMMA GoneInvHolds == Spec => []GoneInv
  BY StoreInvHolds, AloneInvHolds, WholeInvHolds, InitGone, GoneNext, PTL DEF Spec

LEMMA ZeroInvHolds == Spec => []ZeroInv
  BY StoreInvHolds, InitZero, ZeroNext, PTL DEF Spec

(* When scans and readers have come to their ends and none has died, there *)
(* is a generated/, and it is not the empty one if a scan has just         *)
(* succeeded: with any number of scanners that race, of which none fails   *)
(* but over another, and with one scanner of which a single call fails,    *)
(* though after a failed sync the evidence may only be the backup (the     *)
(* renames of write_generated_transaction).                                *)
THEOREM ScansKeepEvidence == Spec => []EvidenceSurvives
<1>1. StoreInv /\ GoneInv /\ WholeInv /\ ZeroInv => EvidenceSurvives
  <2> SUFFICES ASSUME StoreInv, GoneInv, WholeInv, ZeroInv, NoSetters, crashes = 0,
                      faults = 0 \/ (OneScanner /\ faults = 1), \A p \in Commands : Ended(p)
               PROVE  /\ generated # NoTree \/ (lapsed /\ previous # NoTree)
                      /\ (\E p \in Scanners : In(p, "done")) => generated \notin {0, NoTree}
    BY DEF EvidenceSurvives
  <2>1. \A p \in Scanners : Ended(p) /\ ScanJob(job[p]) /\ job[p] \in Jobs
    BY JobHere DEF Commands
  <2>2. \A p \in Scanners : ~In(p, "publish") /\ ~In(p, "look") /\ ~Aside(p)
    BY <2>1 DEF Ended, Aside, In
  <2>3. generated # NoTree \/ (OneScanner /\ lapsed /\ previous # NoTree)
    BY <2>2 DEF GoneInv
  <2>4. ASSUME NEW p \in Scanners, In(p, "done") PROVE generated \notin {0, NoTree}
    <3>1. job[p].out /\ job[p].tree \in Trees
      BY <2>1, <2>4 DEF ScanJob, In, Jobs
    <3>2. generated # 0
      BY <3>1 DEF ZeroInv
    <3>3. OneScanner => generated = job[p].tree
      BY <3>1 DEF WholeInv
    <3> QED BY <2>3, <3>1, <3>2, <3>3, StoreConstants DEF NoTree, Trees
  <2> QED BY <2>3, <2>4
<1> QED BY <1>1, StoreInvHolds, GoneInvHolds, WholeInvHolds, ZeroInvHolds, PTL

-----------------------------------------------------------------------------
(* Two scans that race alone and may die. There are only the directories   *)
(* they have made, so a scan that is still to publish has one of them, and *)
(* evidence that has a name is the other scan's, which has published it.   *)
Race == NoSetters /\ scans <= 2 /\ faults = 0 /\ cast.commands \subseteq Scanners

Alive == {p \in Scanners : Live(p)}
Real == Trees \ {0}
Removing(p) == job[p].phase \in {"unlink", "rmdir"}

(* It has moved the evidence aside and is about to publish its own.        *)
Waits(p) == ~job[p].out /\ job[p].replaced /\ In(p, "publish")

(* What it has listed is what there is, or it has emptied the directory.   *)
Emptying(p) ==
  /\ In(p, "unlink") => job[p].todo = files[job[p].doomed]
  /\ In(p, "rmdir") => files[job[p].doomed] = {}

(* Every scan that lives has published, and evidence stands: nothing will  *)
(* be moved aside any more, nor put back.                                  *)
AllOut == generated \in Real /\ \A q \in Alive : job[q].out

(* The directory of `init` stays empty, and any other is whole.            *)
Whole ==
  /\ files[0] = {}
  /\ generated \in Real => files[generated] = Files

(* A backup with evidence in it is one that a scan has moved aside, or     *)
(* that outlived its scan: whoever lives has published or is about to, and *)
(* while generated/ is missing only the owner of the backup has published. *)
Backup ==
  previous \in Real =>
    /\ generated # 0 /\ scans = 2
    /\ \A q \in Alive :
         /\ job[q].out \/ job[q].replaced
         /\ generated = NoTree /\ job[q].tree # previous => ~job[q].out

(* A scan fails before it publishes only because the other one's evidence  *)
(* stands, and then has nothing to put back.                               *)
Failed ==
  \A q \in Alive : ~job[q].out =>
    /\ ~In(q, "putback")
    /\ In(q, "restore") \/ (In(q, "failed") /\ job[q].replaced) => generated \in Real /\ scans = 2
    /\ Removing(q) => job[q].doomed = 0

(* Whoever removes a backup with evidence in it has published. If its own  *)
(* evidence was moved aside before it opened the backup, it removes that,  *)
(* and the other scan is about to publish in its place.                    *)
Doomed ==
  \A p \in Alive : Removing(p) /\ job[p].doomed # 0 =>
    /\ job[p].out /\ scans = 2
    /\ \/ AllOut /\ generated # job[p].doomed
       \/ /\ generated = NoTree /\ previous = job[p].doomed /\ job[p].tree = previous
          /\ Emptying(p) /\ \A q \in Alive \ {p} : Waits(q)

(* Nobody is left who would put back a backup that is no longer whole: its *)
(* owner is removing it, and will find there what it has listed.           *)
Torn ==
  previous \in Real /\ files[previous] # Files =>
    /\ scans = 2
    /\ \/ AllOut
       \/ /\ generated = NoTree
          /\ \A p \in Alive :
               Waits(p) \/ (/\ job[p].out /\ job[p].tree = previous /\ Removing(p)
                            /\ job[p].doomed = previous /\ Emptying(p))

RaceParts == Whole /\ Backup /\ Failed /\ Doomed /\ Torn

RaceInv == Race => RaceParts

(* What StoreInv says of two directories and of those who hold them.       *)
TwoTrees ==
  /\ scans \in 0 .. 2 /\ NoTree \notin Trees /\ NoTree \notin 0 .. scans
  /\ generated \in (0 .. scans) \cup {NoTree} /\ previous \in (0 .. scans) \cup {NoTree}
  /\ 0 .. scans \subseteq Trees /\ 1 .. scans \subseteq Real
  /\ generated = previous => generated = NoTree
  /\ generated = 0 => previous = NoTree
  /\ \A q \in Alive :
       /\ job[q].tree \in 1 .. scans /\ job[q].doomed \in 0 .. scans
       /\ \A r \in Alive : r # q => job[r].tree # job[q].tree
       /\ ~job[q].out => job[q].tree \notin {generated, previous}
                         /\ \A r \in Alive : job[r].doomed # job[q].tree
       /\ HasBuilt(job[q]) => files[job[q].tree] = Files
       /\ ScanJob(job[q])

LEMMA TwoTreesHold == ASSUME StoreInv, Race PROVE TwoTrees
<1>1. /\ scans \in 0 .. MaxScans /\ MaxScans \in Nat /\ scans <= 2 /\ Scanners \subseteq Commands
      /\ generated \in Trees \cup {NoTree} /\ previous \in Trees \cup {NoTree}
  BY StoreConstants DEF StoreInv, StoreTypeOK, Counted, Race, Commands
<1>2. /\ scans \in 0 .. 2 /\ NoTree \notin Trees /\ NoTree \notin 0 .. scans
      /\ generated \in (0 .. scans) \cup {NoTree} /\ previous \in (0 .. scans) \cup {NoTree}
      /\ 0 .. scans \subseteq Trees /\ 1 .. scans \subseteq Real
      /\ generated = previous => generated = NoTree
      /\ generated = 0 => previous = NoTree
  BY <1>1 DEF StoreInv, StoreTypeOK, Counted, NoTree, Trees, Real
<1>3. ASSUME NEW q \in Alive
      PROVE  /\ job[q].tree \in 1 .. scans /\ job[q].doomed \in 0 .. scans
             /\ \A r \in Alive : r # q => job[r].tree # job[q].tree
             /\ ~job[q].out => job[q].tree \notin {generated, previous}
                               /\ \A r \in Alive : job[r].doomed # job[q].tree
             /\ HasBuilt(job[q]) => files[job[q].tree] = Files
             /\ ScanJob(job[q])
  <2>1. q \in Commands /\ q \in Scanners /\ Live(q) /\ Owned(q)
    BY <1>1 DEF Alive, StoreInv, OwnTrees
  <2>2. job[q].doomed \in Trees /\ job[q].doomed <= scans
    BY <2>1, JobHere DEF RoleOf, Jobs
  <2>3. ScanJob(job[q])
    BY <2>1, JobHere
  <2> QED BY <1>1, <2>1, <2>2, <2>3 DEF Owned, Apart, Alive, Trees
<1> QED BY <1>2, <1>3 DEF TwoTrees

(* What a step of p does to the others, and to those that are alive.       *)
Frame(p) ==
  /\ \A q \in Scanners : q # p => job'[q] = job[q]
  /\ scans' \in 0 .. 2 /\ scans <= scans'
  /\ faults = 0 /\ faults' = 0

LEMMA FrameHolds ==
  ASSUME StoreInv, StoreInv', Race', NEW p \in Scanners, ScanEffect(p)
  PROVE  Frame(p) /\ Race /\ TwoTrees
<1>1. Scanners \subseteq Commands /\ scans \in Nat /\ scans' \in Nat /\ scans' <= 2
  BY DEF Commands, StoreInv, Counted, Race
<1>2. Race /\ faults' = 0
  BY <1>1 DEF Race, ScanEffect, NoSetters
<1> QED BY <1>1, <1>2, TwoTreesHold DEF Frame, ScanEffect, Race

LEMMA RaceResets ==
  ASSUME NEW p \in Scanners, TwoTrees, Frame(p), RaceParts, Resets(p)
  PROVE  RaceParts'
<1>1. /\ UNCHANGED <<generated, previous, files>> /\ job'[p].phase \in {"idle", "snapshot"}
      /\ job'[p].phase = "snapshot" => scans # 2 /\ scans' # 0
      /\ scans = 2 => scans' = 2
      /\ \A q \in Scanners : q # p => job'[q] = job[q]
  BY DEF Resets, Frame, TwoTrees, disk
<1>2. \A q \in Alive' : (q \in Alive /\ q # p /\ job'[q] = job[q]) \/ (q = p /\ scans # 2 /\ job'[p].phase = "snapshot")
  BY <1>1 DEF Alive, Live, In
<1>3. scans # 2 => previous \notin Real /\ (\A q \in Alive : Removing(q) => job[q].doomed = 0)
  BY DEF RaceParts, Backup, Doomed
<1>4. Whole'
  BY <1>1 DEF RaceParts, Whole, Real
<1>5. Backup'
  BY <1>1, <1>2, <1>3 DEF RaceParts, Backup, Real
<1>6. Failed'
  BY <1>1, <1>2, <1>3 DEF RaceParts, Failed, Real, In, Removing
<1>7. Doomed'
  BY <1>1, <1>2, <1>3 DEF RaceParts, Doomed, Real, In, Removing, AllOut, Emptying, Waits
<1>8. Torn'
  BY <1>1, <1>2, <1>3 DEF RaceParts, Torn, Real, In, Removing, AllOut, Emptying, Waits
<1> QED BY <1>4, <1>5, <1>6, <1>7, <1>8 DEF RaceParts

(* Whoever moves on is alive before and after.                             *)
LEMMA StaysAlive ==
  ASSUME NEW p \in Scanners, TwoTrees, Frame(p), job[p].phase # "idle", job'[p].phase # "idle"
  PROVE  /\ Alive' = Alive /\ p \in Alive /\ (scans = 2 => scans' = 2)
         /\ \A q \in Alive : q # p => job'[q] = job[q]
  BY DEF Frame, TwoTrees, Alive, Live, In

LEMMA RaceWalks ==
  ASSUME NEW p \in Scanners, TwoTrees, Frame(p), RaceParts, Snaps(p) \/ Walks(p)
  PROVE  RaceParts'
<1>1. /\ UNCHANGED <<generated, previous, files>>
      /\ job'[p].tree = job[p].tree /\ job'[p].doomed = job[p].doomed
      /\ job'[p].replaced = job[p].replaced /\ job'[p].out = job[p].out
      /\ \/ Turns(p, "snapshot", "snapshot") \/ Turns(p, "snapshot", "build")
         \/ Turns(p, "find", "look") \/ Turns(p, "find", "open")
         \/ Turns(p, "look", "publish") \/ Turns(p, "look", "move")
         \/ Turns(p, "restore", "failed")
         \/ Turns(p, "restore", "putback") /\ generated = NoTree
         \/ Turns(p, "unlink", "rmdir") /\ job[p].todo = {}
  BY DEF Snaps, Walks, KeepsOn, Keeps, disk
<1>2. Alive' = Alive /\ p \in Alive /\ (scans = 2 => scans' = 2)
      /\ \A q \in Alive : q # p => job'[q] = job[q]
  BY <1>1, StaysAlive DEF Turns
<1>3. /\ ScanJob(job[p])
      /\ ~job[p].out /\ ~job[p].replaced => previous \notin Real
  BY <1>2 DEF TwoTrees, RaceParts, Backup
<1>4. Whole'
  BY <1>1 DEF RaceParts, Whole, Real
<1>5. Backup'
  BY <1>1, <1>2, <1>3 DEF RaceParts, Backup, Real
<1>6. Failed'
  BY <1>1, <1>2, <1>3 DEF RaceParts, Failed, Real, In, Removing, Turns, TwoTrees, ScanJob
<1>7. Doomed'
  BY <1>1, <1>2, <1>3 DEF RaceParts, Doomed, Real, In, Removing, AllOut, Emptying, Waits, Turns
<1>8. Torn'
  BY <1>1, <1>2, <1>3 DEF RaceParts, Torn, Real, In, Removing, AllOut, Emptying, Waits, Turns, ScanJob
<1> QED BY <1>4, <1>5, <1>6, <1>7, <1>8 DEF RaceParts

(* Without other failures a call fails only over what the other scan did.  *)
LEMMA RaceFails ==
  ASSUME NEW p \in Scanners, TwoTrees, Frame(p), RaceParts, Fails(p)
  PROVE  RaceParts'
<1>1. /\ UNCHANGED <<generated, previous, files>>
      /\ job'[p].tree = job[p].tree /\ job'[p].doomed = job[p].doomed
      /\ job'[p].replaced = job[p].replaced /\ job'[p].out = job[p].out
      /\ job[p].phase \notin {"idle", "done", "failed", "restore", "putback"}
      /\ job'[p].phase = IF job[p].replaced THEN "restore" ELSE "failed"
      /\ Raises(p)
  BY DEF Fails, Frame, Raises, In, KeepsOn, Keeps, disk
<1>2. Alive' = Alive /\ p \in Alive /\ (scans = 2 => scans' = 2)
      /\ \A q \in Alive : q # p => job'[q] = job[q]
  BY <1>1, StaysAlive
<1>3. /\ ScanJob(job[p])
      /\ ~job[p].out /\ ~job[p].replaced => previous \notin Real
  BY <1>2 DEF TwoTrees, RaceParts, Backup
<1>4. job[p].replaced /\ ~job[p].out => generated \in Real /\ scans = 2
  <2>1. SUFFICES ASSUME job[p].replaced, ~job[p].out PROVE generated \in Real /\ scans = 2
    OBVIOUS
  <2>2. In(p, "publish") /\ ~Vacant(generated)
    BY <1>1, <1>3, <2>1 DEF ScanJob, Raises, In
  <2>3. generated \in Real
    BY <2>2 DEF Vacant, RaceParts, Whole, Real
  <2>4. generated \in 1 .. scans /\ job[p].tree \in 1 .. scans /\ generated # job[p].tree
    BY <1>2, <2>1, <2>3 DEF TwoTrees, Real
  <2> QED BY <2>3, <2>4 DEF TwoTrees
<1>5. ~(Removing(p) /\ job[p].doomed = previous /\ previous \in Real /\ Emptying(p))
  BY <1>1 DEF Target, Removing, Emptying, Raises, In, Vacant, TwoTrees, Real
<1>6. Whole'
  BY <1>1 DEF RaceParts, Whole, Real
<1>7. Backup'
  BY <1>1, <1>2, <1>3 DEF RaceParts, Backup, Real
<1>8. Failed'
  BY <1>1, <1>2, <1>3, <1>4 DEF RaceParts, Failed, Real, In, Removing
<1>9. Doomed'
  BY <1>1, <1>2, <1>3, <1>4, <1>5 DEF RaceParts, Doomed, Real, In, Removing, AllOut, Emptying, Waits, TwoTrees
<1>10. Torn'
  BY <1>1, <1>2, <1>3, <1>4, <1>5 DEF RaceParts, Torn, Real, In, Removing, AllOut, Emptying, Waits, TwoTrees
<1> QED BY <1>6, <1>7, <1>8, <1>9, <1>10 DEF RaceParts

(* It lists a backup with evidence in it only after it has published.      *)
LEMMA RaceOpens ==
  ASSUME NEW p \in Scanners, TwoTrees, Frame(p), RaceParts, Opens(p)
  PROVE  RaceParts'
<1>1. /\ UNCHANGED <<generated, previous, files>>
      /\ job'[p].tree = job[p].tree /\ job'[p].doomed = previous
      /\ job'[p].replaced = job[p].replaced /\ job'[p].out = job[p].out
      /\ Turns(p, "open", "unlink") /\ previous # NoTree /\ job'[p].todo = files[previous]
  BY DEF Opens, disk
<1>2. Alive' = Alive /\ p \in Alive /\ (scans = 2 => scans' = 2)
      /\ \A q \in Alive : q # p => job'[q] = job[q]
  BY <1>1, StaysAlive DEF Turns
<1>3. ScanJob(job[p]) /\ previous \in 0 .. scans
  BY <1>1, <1>2 DEF TwoTrees
<1>4. previous # 0 => /\ previous \in Real /\ job[p].out /\ scans = 2 /\ generated # 0
                      /\ generated = NoTree => job[p].tree = previous
  BY <1>1, <1>2, <1>3 DEF RaceParts, Backup, TwoTrees, Real, Turns, ScanJob
<1>5. previous # 0 /\ generated # NoTree => AllOut /\ generated # previous
  <2>1. SUFFICES ASSUME previous # 0, generated # NoTree PROVE AllOut /\ generated # previous
    OBVIOUS
  <2>2. generated \in 1 .. 2 /\ previous \in 1 .. 2 /\ generated # previous /\ scans = 2 /\ generated \in Real
    BY <1>3, <1>4, <2>1 DEF TwoTrees
  <2> QED BY <2>2 DEF AllOut, TwoTrees
<1>6. previous # 0 /\ generated = NoTree => \A q \in Alive \ {p} : Waits(q)
  <2>1. SUFFICES ASSUME previous # 0, generated = NoTree, NEW q \in Alive \ {p} PROVE Waits(q)
    OBVIOUS
  <2>2. job[q].tree # previous /\ ScanJob(job[q]) /\ generated \notin Real
    BY <1>2, <1>4, <2>1 DEF TwoTrees, Real
  <2>3. ~job[q].out /\ job[q].replaced
    BY <1>4, <2>1, <2>2 DEF RaceParts, Backup
  <2> QED BY <2>1, <2>2, <2>3 DEF RaceParts, Failed, ScanJob, Waits, In
<1>7. Whole'
  BY <1>1 DEF RaceParts, Whole, Real
<1>8. Backup'
  BY <1>1, <1>2 DEF RaceParts, Backup, Real
<1>9. Failed'
  BY <1>1, <1>2, <1>4 DEF RaceParts, Failed, Real, In, Removing, Turns
<1>10. Doomed'
  BY <1>1, <1>2, <1>3, <1>4, <1>5, <1>6 DEF RaceParts, Doomed, Real, In, Removing, AllOut, Emptying, Waits, Turns
<1>11. Torn'
  BY <1>1, <1>2, <1>3, <1>4 DEF RaceParts, Torn, Real, In, Removing, AllOut, Emptying, Waits, Turns
<1> QED BY <1>7, <1>8, <1>9, <1>10, <1>11 DEF RaceParts

LEMMA RaceBuilds ==
  ASSUME NEW p \in Scanners, TwoTrees, StoreTypeOK, Frame(p), RaceParts, Builds(p)
  PROVE  RaceParts'
<1>1. /\ UNCHANGED <<generated, previous>> /\ files' = [files EXCEPT ![job[p].tree] = Files]
      /\ job'[p].tree = job[p].tree /\ job'[p].doomed = job[p].doomed
      /\ job'[p].replaced = job[p].replaced /\ job'[p].out = job[p].out
      /\ Turns(p, "build", "find")
  BY DEF Builds, Keeps
<1>2. Alive' = Alive /\ p \in Alive /\ (scans = 2 => scans' = 2)
      /\ \A q \in Alive : q # p => job'[q] = job[q]
  BY <1>1, StaysAlive DEF Turns
<1>3. ScanJob(job[p]) /\ ~job[p].out /\ ~job[p].replaced /\ previous \notin Real
  BY <1>1, <1>2 DEF TwoTrees, RaceParts, Backup, ScanJob, Turns
<1>4. /\ job[p].tree \in 1 .. scans /\ job[p].tree \notin {generated, previous}
      /\ \A q \in Alive : job[q].doomed # job[p].tree
  BY <1>2, <1>3 DEF TwoTrees
<1>5. /\ files'[0] = files[0] /\ (generated \in Real => files'[generated] = files[generated])
      /\ \A q \in Alive : files'[job[q].doomed] = files[job[q].doomed]
  BY <1>1, <1>4 DEF StoreTypeOK, TwoTrees, Real
<1>6. Whole'
  BY <1>1, <1>5 DEF RaceParts, Whole, Real
<1>7. Backup'
  BY <1>1, <1>3 DEF RaceParts, Backup, Real
<1>8. Failed'
  BY <1>1, <1>2 DEF RaceParts, Failed, Real, In, Removing, Turns
<1>9. Doomed'
  BY <1>1, <1>2, <1>3, <1>5 DEF RaceParts, Doomed, Real, In, Removing, AllOut, Emptying, Waits, Turns
<1>10. Torn'
  BY <1>1, <1>3 DEF RaceParts, Torn, Real
<1> QED BY <1>6, <1>7, <1>8, <1>9, <1>10 DEF RaceParts

LEMMA RaceEmpties ==
  ASSUME NEW p \in Scanners, TwoTrees, Frame(p), RaceParts, Empties(p)
  PROVE  RaceParts'
<1> DEFINE d == job[p].doomed
<1>1. /\ UNCHANGED <<generated, previous>>
      /\ job'[p].tree = job[p].tree /\ job'[p].doomed = d
      /\ job'[p].replaced = job[p].replaced /\ job'[p].out = job[p].out
      /\ Turns(p, "unlink", "unlink")
      /\ \A t \in Trees \ {d} : files'[t] = files[t]
  BY DEF Empties, KeepsOn, Keeps
<1>2. Alive' = Alive /\ p \in Alive /\ (scans = 2 => scans' = 2)
      /\ \A q \in Alive : q # p => job'[q] = job[q]
  BY <1>1, StaysAlive DEF Turns
<1>3. d \in 0 .. scans /\ 0 .. scans \subseteq Trees
  BY <1>2 DEF TwoTrees
<1>4. PICK f : job'[p].todo = job[p].todo \ {f} /\ files'[d] = files[d] \ {f}
  BY DEF Empties
<1>5. Removing(p) /\ ~Waits(p) /\ In(p, "unlink") /\ Removing(p)' /\ In(p, "unlink")'
  BY <1>1 DEF Removing, Turns, Waits, In
<1> HIDE DEF d
<1>6. files'[0] = {}
  BY <1>1, <1>3, <1>4 DEF RaceParts, Whole, TwoTrees
<1>7. d # 0 => /\ job[p].out /\ scans = 2
               /\ \/ AllOut /\ generated # d
                  \/ /\ generated = NoTree /\ previous = d /\ job[p].tree = previous
                     /\ Emptying(p)' /\ \A q \in Alive \ {p} : Waits(q)
  <2>1. Emptying(p) => Emptying(p)'
    BY <1>1, <1>4, <1>5 DEF Emptying, In, Turns, d
  <2> QED BY <1>2, <1>5, <2>1 DEF RaceParts, Doomed, d
<1>8. \A q \in Alive \ {p} : Removing(q) /\ job[q].doomed # 0 =>
        job[q].out /\ scans = 2 /\ AllOut /\ generated # job[q].doomed
  BY <1>2, <1>5 DEF RaceParts, Doomed
<1>9. generated \in Real => generated # d
  BY <1>7 DEF AllOut, Real, TwoTrees
<1>10. Whole'
  BY <1>1, <1>6, <1>9 DEF RaceParts, Whole, Real
<1>11. Backup'
  BY <1>1, <1>2 DEF RaceParts, Backup, Real
<1>12. Failed'
  BY <1>1, <1>2 DEF RaceParts, Failed, d, Real, In, Removing, Turns
<1>13. AllOut => AllOut'
  BY <1>1, <1>2 DEF AllOut, Real
<1>14. \A q \in Alive \ {p} : (Waits(q) => Waits(q)') /\ (Removing(q)' => Removing(q))
  BY <1>2 DEF Waits, Removing, In
<1>15. Doomed'
  <2>1. SUFFICES ASSUME NEW q \in Alive, Removing(q)', job'[q].doomed # 0
                 PROVE  /\ job'[q].out /\ scans' = 2
                        /\ \/ AllOut' /\ generated' # job'[q].doomed
                           \/ /\ generated' = NoTree /\ previous' = job'[q].doomed /\ job'[q].tree = previous'
                              /\ Emptying(q)' /\ \A r \in Alive' \ {q} : Waits(r)'
    BY <1>2 DEF Doomed
  <2>2. CASE q = p
    BY <1>1, <1>2, <1>7, <1>13, <1>14, <2>1, <2>2
  <2>3. CASE q # p
    BY <1>1, <1>2, <1>8, <1>13, <1>14, <2>1, <2>3
  <2> QED BY <2>2, <2>3
<1>16. Torn'
  <2>1. CASE previous \in Real /\ previous = d
    <3>1. d # 0
      BY <2>1 DEF Real
    <3> QED BY <1>1, <1>2, <1>5, <1>7, <1>13, <1>14, <2>1, <3>1 DEF Torn, TwoTrees
  <2>2. CASE previous \in Real /\ previous # d
    <3>1. files'[previous] = files[previous]
      BY <1>1, <2>2 DEF Real
    <3>2. files[previous] # Files => AllOut /\ scans = 2
      BY <1>2, <1>5, <2>2 DEF RaceParts, Torn, Waits, d
    <3> QED BY <1>1, <1>2, <1>13, <3>1, <3>2 DEF Torn
  <2>3. CASE previous \notin Real
    BY <1>1, <2>3 DEF Torn, Real
  <2> QED BY <2>1, <2>2, <2>3
<1> QED BY <1>10, <1>11, <1>12, <1>15, <1>16 DEF RaceParts

LEMMA RaceDrops ==
  ASSUME NEW p \in Scanners, TwoTrees, Frame(p), RaceParts, Drops(p)
  PROVE  RaceParts'
<1>1. /\ UNCHANGED <<generated, files>> /\ previous' = NoTree
      /\ job'[p].tree = job[p].tree /\ job'[p].doomed = job[p].doomed
      /\ job'[p].replaced = job[p].replaced /\ job'[p].out = job[p].out
      /\ Turns(p, "rmdir", IF job[p].out THEN "done" ELSE "look")
  BY DEF Drops, Lapses, Frame, KeepsOn, Keeps
<1>2. Alive' = Alive /\ p \in Alive /\ (scans = 2 => scans' = 2)
      /\ \A q \in Alive : q # p => job'[q] = job[q]
  BY <1>1, StaysAlive DEF Turns
<1>3. previous' \notin Real'
  BY <1>1 DEF TwoTrees, Real
<1>4. Whole'
  BY <1>1 DEF RaceParts, Whole, Real
<1>5. Backup' /\ Torn'
  BY <1>3 DEF Backup, Torn
<1>6. Failed'
  BY <1>1, <1>2 DEF RaceParts, Failed, Real, In, Removing, Turns
<1>7. Doomed'
  BY <1>1, <1>2 DEF RaceParts, Doomed, Real, In, Removing, AllOut, Emptying, Waits, Turns
<1> QED BY <1>4, <1>5, <1>6, <1>7 DEF RaceParts

(* What it moves aside is the other scan's, which has published it.        *)
LEMMA RaceSets ==
  ASSUME NEW p \in Scanners, TwoTrees, Frame(p), RaceParts, Sets(p)
  PROVE  RaceParts'
<1>1. /\ UNCHANGED files /\ previous' = generated /\ generated' = NoTree /\ generated # NoTree
      /\ job'[p].tree = job[p].tree /\ job'[p].doomed = job[p].doomed
      /\ job'[p].replaced /\ job'[p].out = job[p].out
      /\ Turns(p, "move", "publish")
  BY DEF Sets
<1>2. Alive' = Alive /\ p \in Alive /\ (scans = 2 => scans' = 2)
      /\ \A q \in Alive : q # p => job'[q] = job[q]
  BY <1>1, StaysAlive DEF Turns
<1>3. ~job[p].out /\ generated \in 0 .. scans /\ NoTree \notin Real /\ NoTree # 0
  BY <1>1, <1>2 DEF TwoTrees, ScanJob, Turns, Real
<1>4. generated \in Real =>
        /\ scans = 2
        /\ \A q \in Alive \ {p} : job[q].tree = generated /\ job[q].out
  BY <1>2, <1>3 DEF TwoTrees, Real
<1>5. \A q \in Alive : Removing(q) => job[q].doomed = 0
  BY <1>1, <1>2, <1>3 DEF RaceParts, Doomed, AllOut
<1>6. \A q \in Alive \ {p} : ~job[q].out => ~In(q, "restore") /\ ~(In(q, "failed") /\ job[q].replaced)
  BY <1>4 DEF RaceParts, Failed
<1>7. Whole'
  BY <1>1, <1>3 DEF RaceParts, Whole, Real
<1>8. Backup'
  BY <1>1, <1>2, <1>3, <1>4 DEF Backup, Real
<1>9. Failed'
  BY <1>1, <1>2, <1>6 DEF RaceParts, Failed, In, Removing, Turns
<1>10. Doomed'
  BY <1>1, <1>2, <1>5 DEF Doomed, Removing, Turns
<1>11. Torn'
  BY <1>1 DEF RaceParts, Whole, Torn, Real
<1> QED BY <1>7, <1>8, <1>9, <1>10, <1>11 DEF RaceParts

LEMMA RacePublishes ==
  ASSUME NEW p \in Scanners, TwoTrees, Frame(p), RaceParts, Publishes(p)
  PROVE  RaceParts'
<1>1. /\ UNCHANGED <<previous, files>> /\ generated' = job[p].tree /\ Vacant(generated)
      /\ job'[p].tree = job[p].tree /\ job'[p].doomed = job[p].doomed
      /\ job'[p].replaced = job[p].replaced /\ job'[p].out
      /\ Turns(p, "publish", IF job[p].replaced THEN "open" ELSE "done")
  BY DEF Publishes, Lapses, Frame
<1>2. Alive' = Alive /\ p \in Alive /\ (scans = 2 => scans' = 2)
      /\ \A q \in Alive : q # p => job'[q] = job[q]
  BY <1>1, StaysAlive DEF Turns
<1>3. ~job[p].out /\ HasBuilt(job[p])
  BY <1>1, <1>2 DEF TwoTrees, ScanJob, Turns, HasBuilt
<1>4. /\ job[p].tree \in Real /\ files[job[p].tree] = Files /\ job[p].tree # previous
      /\ job[p].tree # NoTree /\ job[p].tree \in 1 .. 2
      /\ \A q \in Alive : job[q].doomed # job[p].tree /\ job[q].tree \in 1 .. 2
                        /\ (q # p => job[q].tree # job[p].tree)
  BY <1>2, <1>3 DEF TwoTrees, Real
<1>5. generated \notin Real
  BY <1>1 DEF RaceParts, Whole, Vacant, Real, Files
<1>6. \A q \in Alive \ {p} : Removing(q) /\ job[q].doomed # 0 => AllOut'
  <2>1. SUFFICES ASSUME NEW q \in Alive \ {p}, Removing(q), job[q].doomed # 0 PROVE AllOut'
    OBVIOUS
  <2>2. job[q].out /\ \A r \in Alive \ {q} : Waits(r)
    BY <1>5, <2>1 DEF RaceParts, Doomed, AllOut
  <2>3. \A r \in Alive : r \in {p, q}
    BY <1>2, <1>4, <2>1 DEF TwoTrees
  <2> QED BY <1>1, <1>2, <1>4, <2>1, <2>2, <2>3 DEF AllOut, Real
<1>7. previous \in Real /\ files[previous] # Files => scans = 2 /\ AllOut'
  <2>1. SUFFICES ASSUME previous \in Real, files[previous] # Files PROVE scans = 2 /\ AllOut'
    OBVIOUS
  <2>2. previous \in 1 .. 2 /\ previous # job[p].tree
    BY <1>4, <2>1 DEF TwoTrees, Real
  <2>3. \A q \in Alive \ {p} : job[q].tree = previous
    BY <1>4, <2>2
  <2>4. \A q \in Alive \ {p} : job[q].out
    BY <2>3 DEF TwoTrees
  <2> QED BY <1>1, <1>2, <1>4, <2>1, <2>4 DEF AllOut, Real, RaceParts, Torn
<1>8. Whole'
  BY <1>1, <1>4 DEF RaceParts, Whole, Real
<1>9. Backup'
  BY <1>1, <1>2, <1>4 DEF RaceParts, Backup, Real
<1>10. Failed'
  BY <1>1, <1>2, <1>5 DEF RaceParts, Failed, Real, In, Removing, Turns
<1>11. Doomed'
  <2>1. ASSUME NEW q \in Alive, Removing(q)', job'[q].doomed # 0
        PROVE  job'[q].out /\ scans' = 2 /\ AllOut' /\ generated' # job'[q].doomed
    <3>1. q # p /\ job'[q] = job[q] /\ Removing(q)
      BY <1>1, <1>2, <2>1 DEF Removing, Turns
    <3> QED BY <1>1, <1>2, <1>4, <1>6, <2>1, <3>1 DEF RaceParts, Doomed
  <2> QED BY <1>2, <2>1 DEF Doomed
<1>12. Torn'
  BY <1>1, <1>2, <1>7 DEF Torn, Real
<1> QED BY <1>8, <1>9, <1>10, <1>11, <1>12 DEF RaceParts

(* Only a scan that has published comes to put something back, and it      *)
(* finds the other's evidence under generated/ or whole in the backup.     *)
LEMMA RacePutsBack ==
  ASSUME NEW p \in Scanners, TwoTrees, Frame(p), RaceParts, PutsBack(p)
  PROVE  RaceParts'
<1>1. /\ UNCHANGED files
      /\ job'[p].tree = job[p].tree /\ job'[p].doomed = job[p].doomed
      /\ job'[p].replaced = job[p].replaced /\ job'[p].out = job[p].out
      /\ Turns(p, "putback", "failed")
      /\ \/ Vacant(generated) /\ generated' = previous /\ previous' = NoTree
         \/ UNCHANGED <<generated, previous>>
  BY DEF PutsBack, KeepsOn, Keeps
<1>2. Alive' = Alive /\ p \in Alive /\ (scans = 2 => scans' = 2)
      /\ \A q \in Alive : q # p => job'[q] = job[q]
  BY <1>1, StaysAlive DEF Turns
<1>3. job[p].out /\ ~Removing(p) /\ ~Waits(p)
  BY <1>1, <1>2 DEF RaceParts, Failed, In, Turns, Removing, Waits
<1>4. Vacant(generated) => generated \notin Real
  BY DEF RaceParts, Whole, Vacant, Real, Files
<1>5. previous \in Real /\ files[previous] # Files => AllOut /\ scans = 2
  BY <1>2, <1>3 DEF RaceParts, Torn
<1>6. \A q \in Alive : Removing(q) /\ job[q].doomed # 0 =>
        job[q].out /\ scans = 2 /\ AllOut /\ generated # job[q].doomed
  BY <1>2, <1>3 DEF RaceParts, Doomed
<1>7. CASE Vacant(generated) /\ generated' = previous /\ previous' = NoTree
  <2>1. generated \notin Real /\ ~AllOut /\ NoTree \notin Real
    BY <1>4, <1>7 DEF AllOut, TwoTrees, Real
  <2>2. Whole'
    BY <1>1, <1>5, <1>7, <2>1 DEF RaceParts, Whole, Real
  <2>3. Backup' /\ Torn'
    BY <1>7, <2>1 DEF Backup, Torn, Real
  <2>4. Failed'
    BY <1>1, <1>2, <1>3, <2>1 DEF RaceParts, Failed, Real, In, Removing, Turns
  <2>5. Doomed'
    BY <1>1, <1>2, <1>6, <2>1 DEF Doomed, Removing, Turns
  <2> QED BY <2>2, <2>3, <2>4, <2>5 DEF RaceParts
<1>8. CASE UNCHANGED <<generated, previous>>
  <2>1. AllOut => AllOut'
    BY <1>1, <1>2, <1>8 DEF AllOut, Real
  <2>2. Whole'
    BY <1>1, <1>8 DEF RaceParts, Whole, Real
  <2>3. Backup'
    BY <1>1, <1>2, <1>8 DEF RaceParts, Backup, Real
  <2>4. Failed'
    BY <1>1, <1>2, <1>3, <1>8 DEF RaceParts, Failed, Real, In, Removing, Turns
  <2>5. Doomed'
    BY <1>1, <1>2, <1>6, <1>8, <2>1 DEF Doomed, Removing, Turns
  <2>6. Torn'
    BY <1>1, <1>2, <1>5, <1>8, <2>1 DEF Torn, Real
  <2> QED BY <2>2, <2>3, <2>4, <2>5, <2>6 DEF RaceParts
<1> QED BY <1>1, <1>7, <1>8

LEMMA InitRace == Init => RaceInv
<1> SUFFICES ASSUME Init PROVE RaceParts
  BY DEF RaceInv
<1>1. Alive = {} /\ generated = 0 /\ previous = NoTree /\ NoTree \notin Real /\ files[0] = {}
  BY IdleJob, StoreConstants DEF Init, Alive, Live, In, Commands, NoTree, Trees, Real
<1> QED BY <1>1 DEF RaceParts, Whole, Backup, Failed, Doomed, Torn, Real

LEMMA RaceNext == ASSUME StoreInv, RaceInv, [Next]_vars PROVE RaceInv'
<1>1. StoreInv'
  BY StoreInvNext
<1>2. SUFFICES ASSUME Race' PROVE RaceParts'
  BY DEF RaceInv
<1>3. CASE OtherEffect
  <2>1. Race /\ scans \in Nat /\ scans' = scans /\ cast' = cast
    BY <1>1, <1>2, <1>3 DEF Race, OtherEffect, NoSetters, StoreInv, Counted
  <2>2. UNCHANGED <<generated, previous, files>>
    BY <1>3, <2>1 DEF Race, OtherEffect
  <2>3. \A q \in Scanners :
          /\ job'[q].phase = job[q].phase /\ job'[q].tree = job[q].tree
          /\ job'[q].doomed = job[q].doomed /\ job'[q].replaced = job[q].replaced
          /\ job'[q].out = job[q].out /\ job'[q].todo = job[q].todo
    BY <1>3 DEF OtherEffect, Keeps
  <2>4. Alive' = Alive /\ \A q \in Alive : q \in Scanners
    BY <2>3 DEF Alive, Live, In
  <2>5. /\ AllOut' = AllOut
        /\ \A q \in Alive : Waits(q)' = Waits(q) /\ Removing(q)' = Removing(q)
                          /\ Emptying(q)' = Emptying(q)
    BY <2>2, <2>3, <2>4 DEF AllOut, Waits, Removing, Emptying, In, Real
  <2>6. RaceParts
    BY <2>1 DEF RaceInv
  <2>7. Whole' /\ Backup' /\ Failed'
    BY <2>1, <2>2, <2>3, <2>4, <2>5, <2>6 DEF RaceParts, Whole, Backup, Failed, In, Real
  <2>8. Doomed' /\ Torn'
    BY <2>1, <2>2, <2>3, <2>4, <2>5, <2>6 DEF RaceParts, Doomed, Torn, Real
  <2> QED BY <2>7, <2>8 DEF RaceParts
<1>4. ASSUME NEW p \in Scanners, ScanEffect(p) PROVE RaceParts'
  <2>1. Frame(p) /\ Race /\ TwoTrees
    BY <1>1, <1>2, <1>4, FrameHolds
  <2>2. RaceParts /\ StoreTypeOK
    BY <2>1 DEF RaceInv, StoreInv
  <2>3. ~Slips(p)
    BY <2>1 DEF Frame, Slips, Lapses
  <2> QED
    BY <1>4, <2>1, <2>2, <2>3, RaceResets, RaceWalks, RaceBuilds, RaceFails, RaceOpens, RaceEmpties,
       RaceDrops, RaceSets, RacePublishes, RacePutsBack DEF ScanEffect
<1> QED BY <1>3, <1>4, NextEffect

LEMMA RaceInvHolds == Spec => []RaceInv
  BY StoreInvHolds, InitRace, RaceNext, PTL DEF Spec

(* Beside one scanner, whichever of its steps fail and wherever it dies,   *)
(* and where two scans race alone, of which either may die, no reader      *)
(* finds half a scan under generated/ (write_generated_transaction).       *)
THEOREM ReadersFindWholeScans == Spec => []PublishedIsWhole
<1>1. WholeInv /\ RaceInv => PublishedIsWhole
  BY DEF WholeInv, RaceInv, Race, RaceParts, Whole, Real, PublishedIsWhole
<1> QED BY <1>1, WholeInvHolds, RaceInvHolds, PTL

-----------------------------------------------------------------------------
(* Contents that never come back: Rank orders them as they follow each     *)
(* other.                                                                  *)
Ordered(Rank) ==
  /\ Rank \in [Contents -> Nat]
  /\ \A w \in Writes : Rank[w[1]] < Rank[w[2]]

(* Beside `source` commands: what a step does to them.                     *)
NewSource ==
  \E s \in cast.sources :
    /\ current'.content[s] \in cast.contents
    /\ <<current.content[s], current'.content[s]>> \in Writes

SetterEffect(s) ==
  \/ ~Live(s)'
  \/ Live(s) /\ job'[s].phase = job[s].phase /\ job'[s].doomed = job[s].doomed
  \/ Live(s) /\ job'[s].phase \in {"done", "failed"}
  \/ Turns(s, "unlink", "rmdir") /\ job'[s].doomed = job[s].doomed
  \/ Turns(s, "open", "unlink") /\ job'[s].doomed = generated /\ generated # NoTree
  \/ Turns(s, "idle", "open") /\ NewSource /\ \A r \in Setters : ~Live(r) /\ (r # s => ~Live(r)')

SettersMove ==
  /\ current'.content = current.content \/ NewSource
  /\ \A s \in Setters : SetterEffect(s)

LEMMA SetterStep ==
  ASSUME StoreInv, NEW p \in Setters, CommandStep(p)
  PROVE  SettersMove
<1>1. /\ p \in Commands /\ job \in [Commands -> Jobs] /\ job[p] \in Jobs /\ Setters \subseteq Commands
      /\ p \notin Scanners /\ p \notin Readers /\ SetJob(job[p]) /\ p \notin Reporters /\ p \notin Validators
  BY Kinds, JobHere DEF Commands, Readers, StoreInv, StoreTypeOK
<1>2. /\ ~Start(p) /\ ~Snapshot(p) /\ ~ReadManifest(p) /\ ~ReadDocuments(p)
      /\ ~OpenForReport(p) /\ ~WriteReport(p)
  BY <1>1 DEF Start, Snapshot, ReadManifest, ReadDocuments, OpenForReport, WriteReport, WritesReport,
     In, SetJob
<1>3. CASE SetSource(p)
  <2>1. PICK s \in cast.sources, c \in cast.contents :
          Becomes(s, c) /\ job' = [Changed(s, c) EXCEPT ![p].phase = "open"]
    BY <1>3 DEF SetSource
  <2>6. /\ s \in Sources /\ c \in Contents
        /\ <<current.content[s], c>> \in Writes /\ current'.content[s] = c
    BY <2>1, NewContent
  <2>2. /\ s \in Sources /\ c \in Contents /\ In(p, "idle") /\ \A r \in Setters : ~Live(r)
        /\ NewSource
    BY <1>3, <2>6 DEF SetSource, Live, NewSource
  <2>3. \A r \in Setters : r # p => ~Live(r)'
    <3>1. SUFFICES ASSUME NEW r \in Setters, r # p PROVE ~Live(r)'
      OBVIOUS
    <3>2. job'[r] = Changed(s, c)[r] /\ r \in Commands
      BY <1>1, <2>1, <3>1 DEF Changed
    <3> QED BY <2>2, <3>2, ChangedKeeps DEF Live, In
  <2>4. job'[p].phase = "open"
    <3>1. Changed(s, c) = [q \in Commands |-> Changed(s, c)[q]] /\ Changed(s, c)[p] = job[p]
      BY <1>1, <2>2 DEF Changed, In
    <3> QED BY <1>1, <2>1, <3>1 DEF Jobs
  <2>5. SetterEffect(p)
    BY <2>2, <2>3, <2>4 DEF SetterEffect, Turns, In
  <2> QED BY <2>2, <2>3, <2>5 DEF SettersMove, SetterEffect
<1>4. ASSUME current' = current, \A s \in Setters : s # p => job'[s].phase = job[s].phase
               /\ job'[s].doomed = job[s].doomed, SetterEffect(p)
      PROVE  SettersMove
  <2>1. \A s \in Setters : s # p => SetterEffect(s)
    BY <1>4 DEF SetterEffect, Live, In
  <2> QED BY <1>4, <2>1 DEF SettersMove
<1>5. CASE End(p) \/ Crash(p)
  <2>1. job'[p] = Idle /\ current' = current /\ \A s \in Commands : s # p => job'[s] = job[s]
    BY <1>1, <1>5 DEF End, Crash
  <2> QED BY <1>1, <1>4, <2>1, IdleJob DEF SetterEffect, Live, In
<1>6. CASE Raise(p) \/ Fault(p)
  <2>1. Goto(p, "failed") /\ current' = current /\ Live(p)
    BY <1>1, <1>6 DEF Raise, Raises, Fault, Raised, SetJob, Live, In
  <2> QED BY <1>1, <1>4, <2>1, GotoKeeps DEF SetterEffect
<1>7. CASE OpenTree(p)
  <2>1. current' = current /\ In(p, "open") /\ Target(p) = generated
    BY <1>1, <1>7 DEF OpenTree, Target
  <2>2. CASE Goto(p, "done")
    BY <1>1, <1>4, <2>1, <2>2, GotoKeeps DEF SetterEffect, Live, In
  <2>3. CASE /\ generated # NoTree
             /\ job' = [job EXCEPT ![p].phase = "unlink", ![p].doomed = generated,
                                   ![p].todo = files[generated]]
    <3>1. job'[p].phase = "unlink" /\ job'[p].doomed = generated /\ \A s \in Commands : s # p => job'[s] = job[s]
      BY <1>1, <2>3 DEF Jobs
    <3>2. SetterEffect(p)
      BY <2>1, <2>3, <3>1 DEF SetterEffect, Turns, In
    <3> QED BY <1>1, <1>4, <2>1, <3>1, <3>2
  <2> QED BY <1>7, <2>1, <2>2, <2>3 DEF OpenTree
<1>8. CASE Unlink(p)
  <2>1. current' = current /\ In(p, "unlink")
    BY <1>8 DEF Unlink
  <2>2. CASE Goto(p, "rmdir")
    BY <1>1, <1>4, <2>1, <2>2, GotoKeeps DEF SetterEffect, Turns, In, KeepsOn, Keeps
  <2>3. ASSUME NEW f, job' = [job EXCEPT ![p].todo = @ \ {f}]
        PROVE  SettersMove
    <3>1. job'[p].phase = job[p].phase /\ job'[p].doomed = job[p].doomed /\ \A s \in Commands : s # p => job'[s] = job[s]
      BY <1>1, <2>3 DEF Jobs
    <3> QED BY <1>1, <1>4, <2>1, <3>1 DEF SetterEffect, Live, In
  <2> QED BY <1>8, <2>2, <2>3 DEF Unlink
<1>9. ASSUME NEW ph \in {"done", "failed"}, RemovesName(p, ph), current' = current PROVE SettersMove
  <2>1. In(p, "rmdir") /\ job'[p].phase = ph
    BY <1>1, <1>9 DEF RemovesName, Jobs
  <2>2. ASSUME NEW s \in Setters, s # p PROVE job'[s].phase = job[s].phase /\ job'[s].doomed = job[s].doomed
    <3>1. job'[s] = [job[s] EXCEPT !.before = NoTree] /\ job[s] \in Jobs
      BY <1>1, <1>9, <2>2 DEF RemovesName
    <3> QED BY <3>1 DEF Jobs
  <2> QED BY <1>4, <1>9, <2>1, <2>2 DEF SetterEffect, Live, In
<1>10. CASE Rmdir(p)
  BY <1>1, <1>9, <1>10 DEF Rmdir, Removed
<1>11. CASE SyncFails(p)
  <2>1. Raised(p) = "failed" /\ ~RenamesAside(p) /\ ~RenamesOut(p) /\ ~WritesReport(p)
    BY <1>1 DEF Raised, RenamesAside, RenamesOut, WritesReport, In, SetJob
  <2> QED BY <1>9, <1>11, <2>1 DEF SyncFails
<1> QED BY <1>2, <1>3, <1>5, <1>6, <1>7, <1>8, <1>10, <1>11 DEF CommandStep

(* Every step is a scan's, or one that a `source` command may see.         *)
LEMMA NextSets ==
  ASSUME StoreInv, [Next]_vars
  PROVE  \/ OtherEffect /\ SettersMove
         \/ \E p \in Scanners : ScanEffect(p)
<1>1. job \in [Commands -> Jobs] /\ Setters \subseteq Commands
  BY DEF StoreInv, StoreTypeOK, Commands
<1>2. ASSUME current'.content = current.content \/ NewSource,
             \A s \in Setters : job'[s].phase = job[s].phase /\ job'[s].doomed = job[s].doomed
      PROVE  SettersMove
  BY <1>2 DEF SettersMove, SetterEffect, Live, In
<1>3. CASE UNCHANGED vars
  BY <1>2, <1>3 DEF vars, OtherEffect, Keeps, StoreInv, Counted
<1>4. ASSUME NEW p \in Commands, CommandStep(p)
      PROVE  \/ OtherEffect /\ SettersMove
             \/ \E q \in Scanners : ScanEffect(q)
  <2>1. CASE p \in Scanners
    BY <1>4, <2>1, ScanCommandEffect
  <2>2. CASE p \in Setters
    BY <1>4, <2>2, SetterStep, OtherCommandEffect, Kinds
  <2>3. CASE p \notin Scanners /\ p \notin Setters
    <3>1. p \in Readers /\ ReadJob(job[p])
      BY <2>3, JobHere, Kinds
    <3>2. ~SetSource(p) /\ ~Rmdir(p)
      BY <1>4, <2>3, <3>1 DEF SetSource, Rmdir, RemovesName, ReadJob, In
    <3>4. SyncFails(p) => current' = current /\ Goto(p, Raised(p))
      BY <3>1 DEF SyncFails, RenamesAside, RenamesOut, RemovesName, ReadJob, In
    <3>3. current' = current /\ \A s \in Setters : job'[s] = job[s]
      BY <1>1, <1>4, <2>3, <3>2, <3>4 DEF CommandStep, Start, Snapshot, End, Raise, Fault, Crash, OpenTree,
         Unlink, ReadManifest, ReadDocuments, OpenForReport, WriteReport, Goto
    <3> QED BY <1>2, <1>4, <2>3, <3>3, OtherCommandEffect
  <2> QED BY <2>1, <2>2, <2>3
<1>5. CASE WriteSource
  <2>1. PICK s \in cast.sources, c \in cast.contents : Becomes(s, c) /\ job' = Changed(s, c)
    BY <1>5 DEF WriteSource
  <2>2. s \in Sources /\ c \in Contents /\ NewSource
    BY <2>1, NewContent, ZenonT(30) DEF NewSource
  <2>3. \A r \in Setters : job'[r].phase = job[r].phase /\ job'[r].doomed = job[r].doomed
    BY <1>1, <2>1, <2>2, ChangedKeeps DEF Keeps
  <2> QED BY <1>2, <1>5, <2>2, <2>3, WorldEffect
<1>6. CASE EditModel
  <2>1. current'.content = current.content /\ job' = job
    BY <1>6 DEF EditModel, StoreInv, StoreTypeOK, Versions
  <2> QED BY <1>2, <1>6, <2>1, WorldEffect
<1> QED BY <1>3, <1>4, <1>5, <1>6, ScanStepEffect DEF Next, CommandStep, ScanStep

(* No content is left to come, so no `source` command will begin any more. *)
Settled == \A s \in cast.sources, c \in cast.contents : <<current.content[s], c>> \notin Writes

Cast == \A s \in cast.sources : current.content[s] \in cast.contents

(* What a scan has published stands, for the one `source` command there is *)
(* removes another directory.                                              *)
Sheltered(p) ==
  /\ generated = job[p].tree /\ files[generated] # {} /\ Settled
  /\ \A s \in Setters : ~In(s, "open") /\ (Removing(s) => job[s].doomed # generated)

(* Nobody else removes the backup: its removal goes on to the end unless a *)
(* report is written into it, and then there are no results in it.         *)
Private(p) ==
  /\ \A s \in Setters : Removing(s) => job[s].doomed # previous
  /\ In(p, "unlink") =>
       /\ job[p].todo \subseteq files[previous]
       /\ "documents" \in files[previous] => "documents" \in job[p].todo
  /\ job[p].phase \in {"rmdir", "restore", "putback"} =>
       previous = NoTree \/ "documents" \notin files[previous]

Spent(p) ==
  /\ ~job[p].out /\ job[p].replaced => In(p, "publish")
  /\ job[p].out /\ ~Ended(p) => Sheltered(p) \/ Private(p)

OneSetter == \A s \in Setters : Live(s) => Settled /\ \A r \in Setters : Live(r) => r = s

Unfailing == OneScanner /\ faults = 0 /\ OneChange

SpentInv ==
  Unfailing =>
    /\ Cast
    /\ OneSetter
    /\ \A p \in Scanners : Spent(p)

LEMMA InitSpent == Init => SpentInv
<1> SUFFICES ASSUME Init PROVE SpentInv
  OBVIOUS
<1>1. \A p \in Commands : job[p] = Idle
  BY DEF Init
<1>2. Idle.phase = "idle" /\ ~Idle.out /\ ~Idle.replaced
  BY DEF Idle
<1>3. \A p \in Scanners : Spent(p)
  BY <1>1, <1>2 DEF Spent, Commands
<1>4. OneSetter
  BY <1>1, <1>2 DEF OneSetter, Live, In, Commands
<1>5. Cast
  BY StoreConstants DEF Init, FirstVersion, Cast
<1> QED BY <1>3, <1>4, <1>5 DEF SpentInv

(* After a change the contents of the cast have all been there.            *)
LEMMA NothingLeft ==
  ASSUME StoreInv, NEW Rank, Ordered(Rank), OneChange, Cast, NewSource, cast' = cast
  PROVE  Settled' /\ Cast'
<1>1. PICK s \in cast.sources : /\ current'.content[s] \in cast.contents
                               /\ <<current.content[s], current'.content[s]>> \in Writes
  BY DEF NewSource
<1>2. cast.contents \subseteq Contents
  BY StoreConstants DEF StoreInv, StoreTypeOK
<1>3. PICK c : cast.contents \subseteq {FirstContent, c}
  BY DEF OneChange
<1>4. \A r \in cast.sources : r = s
  BY <1>1 DEF OneChange
<1> DEFINE old == current.content[s]
           new == current'.content[s]
<1>5. old \in cast.contents /\ new \in cast.contents /\ <<old, new>> \in Writes
  BY <1>1 DEF Cast
<1>6. Settled' = (\A d \in cast.contents : <<new, d>> \notin Writes) /\ (new \in cast.contents => Cast')
  BY <1>1, <1>4 DEF Settled, Cast
<1> HIDE DEF old, new
<1>7. Rank[old] < Rank[new] /\ \A d \in cast.contents : Rank[d] \in Nat
  BY <1>2, <1>5 DEF Ordered
<1>8. ASSUME NEW d \in cast.contents, <<new, d>> \in Writes PROVE FALSE
  <2>1. Rank[new] < Rank[d]
    BY <1>8 DEF Ordered
  <2>2. d \in {old, new}
    BY <1>3, <1>5, <1>7
  <2> QED BY <1>5, <1>7, <2>1, <2>2
<1> QED BY <1>5, <1>6, <1>8

(* A step of the others.                                                   *)
LEMMA SpentBeside ==
  ASSUME StoreInv, StoreInv', AloneInv, NEW Rank, Ordered(Rank), Unfailing, SpentInv,
         OtherEffect, SettersMove
  PROVE  SpentInv'
<1>1. /\ cast' = cast /\ previous' = previous /\ (generated' = generated \/ (generated' = NoTree /\ Vacant(generated)))
      /\ Cast /\ OneSetter
      /\ \A q \in Scanners : Spent(q)
  BY DEF OtherEffect, SpentInv
<1>2. \A q \in Scanners :
        /\ job'[q].phase = job[q].phase /\ job'[q].tree = job[q].tree /\ job'[q].doomed = job[q].doomed
        /\ job'[q].replaced = job[q].replaced /\ job'[q].out = job[q].out /\ job'[q].todo = job[q].todo
  BY DEF OtherEffect, Keeps
<1>3. \/ current'.content = current.content /\ (Settled => Settled')
      \/ NewSource /\ ~Settled /\ Settled' /\ Cast' /\ \A s \in Setters : ~Live(s)
  <2>1. CASE current'.content = current.content
    BY <1>1, <2>1 DEF Settled
  <2>2. CASE NewSource
    <3>1. Settled' /\ Cast' /\ ~Settled
      BY <1>1, <2>2, NothingLeft DEF Unfailing, NewSource, Settled
    <3> QED BY <1>1, <2>2, <3>1 DEF OneSetter
  <2> QED BY <2>1, <2>2 DEF SettersMove
<1>4. Cast'
  BY <1>1, <1>3 DEF Cast
<1>5. \A s \in Setters : SetterEffect(s)
  BY DEF SettersMove
<1>6. OneSetter'
  <2>1. SUFFICES ASSUME NEW s \in Setters, Live(s)' PROVE Settled' /\ \A r \in Setters : Live(r)' => r = s
    BY DEF OneSetter
  <2>2. CASE Live(s)
    <3>1. Settled /\ \A r \in Setters : Live(r) => r = s
      BY <1>1, <2>2 DEF OneSetter
    <3>2. \A r \in Setters : Live(r)' => Live(r)
      BY <1>3, <1>5, <2>2, <3>1 DEF SetterEffect, Turns, Live, In
    <3> QED BY <1>3, <3>1, <3>2
  <2>3. CASE ~Live(s)
    <3>1. NewSource /\ \A r \in Setters : r # s => ~Live(r)'
      BY <1>5, <2>1, <2>3 DEF SetterEffect, Turns, Live, In
    <3>2. Settled'
      BY <1>1, <3>1, NothingLeft DEF Unfailing
    <3> QED BY <3>1, <3>2
  <2> QED BY <2>2, <2>3
<1>7. ASSUME NEW p \in Scanners PROVE Spent(p)'
  <2>1. Spent(p) /\ (Ended(p)' <=> Ended(p)) /\ \A ph : In(p, ph)' <=> In(p, ph)
    BY <1>1, <1>2 DEF Ended, In
  <2>2. CASE ~(job[p].out /\ ~Ended(p))
    BY <1>2, <2>1, <2>2 DEF Spent
  <2>3. CASE job[p].out /\ ~Ended(p) /\ Sheltered(p)
    <3>1. generated' = generated /\ generated \in Trees
      <4>1. job[p].tree \in Trees
        BY JobHere DEF Commands, Jobs
      <4> QED BY <1>1, <2>3, <4>1 DEF Sheltered, Vacant
    <3>2. \A s \in Setters : ~In(s, "unlink") \/ job[s].doomed # generated
      BY <2>3 DEF Sheltered, Removing, In
    <3>3. files'[generated] # {}
      BY <2>3, <3>1, <3>2 DEF OtherEffect, Sheltered
    <3>4. Settled'
      BY <1>3, <2>3 DEF Sheltered
    <3>5. \A s \in Setters : ~In(s, "open")' /\ (Removing(s)' => job'[s].doomed # generated)
      BY <1>5, <2>3 DEF SetterEffect, Sheltered, Removing, Turns, In, Live, NewSource, Settled
    <3> QED BY <1>2, <2>1, <2>3, <3>1, <3>3, <3>4, <3>5 DEF Spent, Sheltered
  <2>4. CASE job[p].out /\ ~Ended(p) /\ Private(p)
    <3>1. \A s \in Setters : Removing(s)' => job'[s].doomed # previous
      <4>1. generated # NoTree => generated # previous
        BY DEF StoreInv, StoreTypeOK
      <4> QED BY <1>5, <2>4, <4>1 DEF SetterEffect, Private, Removing, Turns, In, Live
    <3>2. previous \in Trees => /\ files[previous] \subseteq files'[previous]
                                /\ ("documents" \in files'[previous] => "documents" \in files[previous])
      BY <2>4 DEF OtherEffect, Private, Removing, In
    <3>3. previous \in Trees \cup {NoTree}
      BY DEF StoreInv, StoreTypeOK
    <3>4. In(p, "unlink") => previous \in Trees
      <4>1. job[p].doomed \in Trees
        BY JobHere DEF Commands, Jobs
      <4> QED BY <1>1, <2>4, <4>1 DEF AloneInv, Alone, Unfailing, In
    <3>5. Private(p)'
      BY <1>1, <1>2, <2>1, <2>4, <3>1, <3>2, <3>3, <3>4 DEF Private
    <3> QED BY <1>2, <2>1, <2>4, <3>5 DEF Spent
  <2> QED BY <2>1, <2>2, <2>3, <2>4 DEF Spent
<1> QED BY <1>4, <1>6, <1>7 DEF SpentInv

(* A step of the scanner itself: what it has published, or what it is left *)
(* with, field by field.                                                   *)
LEMMA SpentMoves ==
  ASSUME StoreInv, AloneInv, Unfailing, faults' = 0, OneSetter, NEW p \in Scanners, Spent(p), Live(p),
         ScanEffect(p), ~Resets(p)
  PROVE  Spent(p)'
<1>1. /\ p \in Commands /\ ScanJob(job[p]) /\ job[p] \in Jobs /\ NoTree \notin Trees
      /\ \A s \in Setters : job'[s] = job[s]
  BY StoreConstants, JobHere, Kinds DEF Commands, NoTree, Trees, ScanEffect
<1>2. /\ current' = current /\ cast' = cast /\ (Settled => Settled')
      /\ \A s \in Setters : /\ \A ph : In(s, ph)' <=> In(s, ph)
                            /\ (Removing(s)' <=> Removing(s)) /\ job'[s].doomed = job[s].doomed
  BY <1>1 DEF ScanEffect, In, Removing, Settled
<1>3. Alone(p) /\ Owned(p)
  BY DEF AloneInv, Unfailing, StoreInv, OwnTrees
<1>4. ASSUME ~job'[p].out, ~job'[p].replaced PROVE Spent(p)'
  BY <1>4 DEF Spent
<1>5. ASSUME Ended(p)', job'[p].out PROVE Spent(p)'
  BY <1>5 DEF Spent
<1>6. ASSUME UNCHANGED disk, job'[p].tree = job[p].tree, job'[p].out, job[p].out, Sheltered(p)
      PROVE  Spent(p)'
  BY <1>2, <1>6 DEF Spent, Sheltered, disk
<1>7. ASSUME previous' = previous, Private(p)
      PROVE  \A s \in Setters : Removing(s)' => job'[s].doomed # previous'
  BY <1>2, <1>7 DEF Private
<1>8. CASE Snaps(p) \/ Builds(p)
  BY <1>1, <1>4, <1>8 DEF Snaps, Builds, Keeps, Turns, ScanJob
<1>9. CASE Walks(p)
  <2>1. /\ UNCHANGED disk /\ job'[p].tree = job[p].tree /\ job'[p].out = job[p].out
        /\ job'[p].replaced = job[p].replaced
    BY <1>9 DEF Walks, KeepsOn, Keeps
  <2>2. CASE ~job[p].out
    BY <1>1, <1>4, <1>9, <2>1, <2>2 DEF Walks, Turns, ScanJob, Spent, In
  <2>3. CASE job[p].out /\ Turns(p, "unlink", "rmdir") /\ job[p].todo = {}
    <3>1. CASE Sheltered(p)
      BY <1>6, <2>1, <2>3, <3>1
    <3>2. CASE Private(p)
      BY <1>7, <2>1, <2>3, <3>2 DEF Private, Spent, Turns, In, disk
    <3> QED BY <2>3, <3>1, <3>2 DEF Spent, Turns, Ended
  <2>4. CASE /\ job[p].out
             /\ Turns(p, "restore", IF previous # NoTree /\ generated = NoTree THEN "putback" ELSE "failed")
    <3>1. CASE Sheltered(p)
      BY <1>6, <2>1, <2>4, <3>1
    <3>2. CASE Private(p)
      BY <1>7, <2>1, <2>4, <3>2 DEF Private, Spent, Turns, In, disk
    <3> QED BY <2>4, <3>1, <3>2 DEF Spent, Turns, Ended
  <2> QED BY <1>1, <1>9, <2>2, <2>3, <2>4 DEF Walks, Turns, ScanJob
<1>17. ~Slips(p) /\ \A ph : ~Lapses(p, ph)
  BY DEF Unfailing, Slips, Lapses
<1>10. CASE Fails(p)
  <2>1. /\ UNCHANGED disk /\ job'[p].tree = job[p].tree /\ job'[p].out = job[p].out
        /\ job'[p].replaced = job[p].replaced /\ Raises(p) /\ ~Ended(p)
        /\ job'[p].phase = IF job[p].replaced THEN "restore" ELSE "failed"
    BY <1>10 DEF Unfailing, Fails, Raises, In, KeepsOn, Keeps, Ended
  <2>2. CASE ~job[p].out
    <3>1. ~job[p].replaced
      <4>1. SUFFICES ASSUME job[p].replaced PROVE FALSE
        OBVIOUS
      <4>2. In(p, "publish")
        BY <2>2, <4>1 DEF Spent
      <4>3. ~Vacant(generated)
        BY <2>1, <4>2 DEF Raises, In
      <4> QED BY <1>1, <1>3, <4>2, <4>3 DEF Alone, Vacant
    <3> QED BY <1>4, <2>1, <2>2, <3>1
  <2>3. CASE job[p].out /\ Sheltered(p)
    BY <1>6, <2>1, <2>3
  <2>4. CASE job[p].out /\ ~job[p].replaced
    BY <1>5, <2>1, <2>4 DEF Ended
  <2>5. CASE job[p].out /\ job[p].replaced /\ Private(p)
    <3>1. In(p, "open") \/ In(p, "unlink") \/ In(p, "rmdir")
      BY <1>1, <1>10, <2>1, <2>5 DEF Fails, Raises, ScanJob, In
    <3>2. previous = NoTree \/ "documents" \notin files[previous]
      <4>1. CASE In(p, "open")
        BY <2>1, <4>1 DEF Raises, Target, In
      <4>2. CASE In(p, "unlink")
        BY <1>3, <2>1, <2>5, <4>2 DEF Raises, Private, Alone, In
      <4>3. CASE In(p, "rmdir")
        BY <2>5, <4>3 DEF Private, In
      <4> QED BY <3>1, <4>1, <4>2, <4>3
    <3>3. Private(p)'
      BY <1>7, <2>1, <2>5, <3>2 DEF Private, In, disk
    <3> QED BY <2>1, <2>5, <3>3 DEF Spent
  <2> QED BY <2>1, <2>2, <2>3, <2>4, <2>5 DEF Spent
<1>11. CASE Opens(p)
  <2>1. /\ UNCHANGED disk /\ job'[p].tree = job[p].tree /\ job'[p].out = job[p].out
        /\ job'[p].replaced = job[p].replaced /\ ~Ended(p) /\ job'[p].todo = files[previous]
        /\ job'[p].phase = "unlink"
    BY <1>11 DEF Opens, Turns, Ended
  <2>2. CASE ~job[p].out
    BY <1>1, <1>4, <1>11, <2>1, <2>2 DEF Opens, Turns, ScanJob
  <2>3. CASE job[p].out /\ Sheltered(p)
    BY <1>6, <2>1, <2>3
  <2>4. CASE job[p].out /\ Private(p)
    <3>1. Private(p)'
      BY <1>7, <2>1, <2>4 DEF Private, In, disk
    <3> QED BY <2>1, <2>4, <3>1 DEF Spent
  <2> QED BY <2>1, <2>2, <2>3, <2>4 DEF Spent
<1>12. CASE Empties(p)
  <2>1. /\ UNCHANGED <<generated, previous>> /\ job'[p].tree = job[p].tree /\ job'[p].out = job[p].out
        /\ job'[p].replaced = job[p].replaced /\ ~Ended(p) /\ In(p, "unlink") /\ job'[p].phase = "unlink"
        /\ \A t \in Trees \ {job[p].doomed} : files'[t] = files[t]
    BY <1>12 DEF Empties, Turns, Keeps, KeepsOn, Ended, In
  <2>2. PICK f : /\ job'[p].todo = job[p].todo \ {f}
                 /\ files'[job[p].doomed] = files[job[p].doomed] \ {f}
    BY <1>12 DEF Empties
  <2>3. job[p].doomed = previous
    BY <1>3, <2>1 DEF Alone, In
  <2>4. CASE ~job[p].out
    BY <1>1, <1>4, <2>1, <2>4 DEF In, ScanJob
  <2>5. CASE job[p].out /\ Sheltered(p)
    <3>1. generated \in Trees /\ generated # previous
      BY <1>1, <2>5 DEF Sheltered, Jobs, StoreInv, StoreTypeOK
    <3>2. files'[generated] = files[generated]
      BY <2>1, <2>3, <3>1
    <3>3. Sheltered(p)'
      BY <1>2, <2>1, <2>5, <3>2 DEF Sheltered
    <3> QED BY <2>1, <2>5, <3>3 DEF Spent
  <2>6. CASE job[p].out /\ Private(p)
    <3>1. Private(p)'
      BY <1>7, <2>1, <2>2, <2>3, <2>6 DEF Private, In
    <3> QED BY <2>1, <2>6, <3>1 DEF Spent
  <2> QED BY <2>1, <2>4, <2>5, <2>6 DEF Spent
<1>13. CASE Drops(p)
  BY <1>1, <1>4, <1>5, <1>13, <1>17 DEF Drops, Turns, KeepsOn, Keeps, ScanJob, Ended
<1>14. CASE Sets(p)
  BY <1>1, <1>14 DEF Sets, Turns, ScanJob, Spent, In
<1>15. CASE Publishes(p)
  <2>1. /\ previous' = previous /\ files' = files /\ generated' = job[p].tree
        /\ job'[p].tree = job[p].tree /\ job'[p].out /\ ~job[p].out
        /\ job'[p].replaced = job[p].replaced
        /\ job'[p].phase = IF job[p].replaced THEN "open" ELSE "done"
    BY <1>1, <1>15, <1>17 DEF Publishes, Turns, ScanJob
  <2>2. CASE ~job[p].replaced
    BY <1>5, <2>1, <2>2 DEF Ended
  <2>3. CASE job[p].replaced /\ \A s \in Setters : Removing(s) => job[s].doomed # previous
    <3>1. Private(p)'
      BY <1>2, <2>1, <2>3 DEF Private, In
    <3> QED BY <2>1, <3>1 DEF Spent
  <2>4. ASSUME job[p].replaced, NEW s \in Setters, Removing(s), job[s].doomed = previous
        PROVE  Spent(p)'
    <3>1. Settled /\ \A r \in Setters : Live(r) => r = s
      BY <2>4 DEF OneSetter, Removing, Live, In
    <3>2. ASSUME NEW r \in Setters, In(r, "open") \/ Removing(r) PROVE r = s /\ ~In(r, "open")
      <4>1. r = s
        BY <3>1, <3>2 DEF Removing, Live, In
      <4> QED BY <2>4, <4>1 DEF Removing, In
    <3>3. job[p].tree # previous
      BY <1>3, <2>1 DEF Owned, Apart
    <3>4. files[job[p].tree] # {}
      <4>1. HasBuilt(job[p])
        BY <1>1, <1>15, <1>17 DEF HasBuilt, Publishes, Turns, ScanJob
      <4> QED BY <1>3, <4>1 DEF Owned, Files
    <3>5. Sheltered(p)'
      BY <1>2, <2>1, <2>4, <3>1, <3>2, <3>3, <3>4 DEF Sheltered
    <3> QED BY <2>1, <3>5 DEF Spent
  <2> QED BY <2>2, <2>3, <2>4
<1>16. CASE PutsBack(p)
  <2>1. /\ job'[p].phase = "failed" /\ job[p].phase = "putback"
        /\ job'[p].out = job[p].out /\ job'[p].replaced = job[p].replaced
    BY <1>16 DEF PutsBack, Turns, KeepsOn, Keeps
  <2> QED BY <2>1 DEF Spent, Ended, In
<1> QED BY <1>8, <1>9, <1>10, <1>11, <1>12, <1>13, <1>14, <1>15, <1>16, <1>17 DEF ScanEffect

LEMMA SpentScanned ==
  ASSUME StoreInv, AloneInv, Unfailing, faults' = 0, SpentInv, NEW p \in Scanners, ScanEffect(p)
  PROVE  SpentInv'
<1>1. /\ current' = current /\ cast' = cast /\ \A q \in Commands : q # p => job'[q] = job[q]
      /\ Scanners \subseteq Commands /\ Setters \subseteq Commands /\ p \notin Setters
      /\ Cast /\ OneSetter /\ \A q \in Scanners : Spent(q)
  BY Kinds DEF ScanEffect, Commands, SpentInv
<1>2. OneSetter' /\ Cast'
  BY <1>1 DEF OneSetter, Settled, Cast, Live, In
<1>3. CASE Resets(p)
  <2>1. UNCHANGED disk /\ ~job'[p].out /\ ~job'[p].replaced
    BY <1>3 DEF Resets
  <2>2. \A s \in Setters : /\ \A ph : In(s, ph)' <=> In(s, ph)
                           /\ (Removing(s)' <=> Removing(s)) /\ job'[s].doomed = job[s].doomed
    BY <1>1 DEF In, Removing
  <2>3. ASSUME NEW q \in Scanners, q # p PROVE Spent(q)'
    <3>1. job'[q] = job[q] /\ Spent(q)
      BY <1>1, <2>3
    <3>2. Sheltered(q) => Sheltered(q)'
      BY <1>1, <2>1, <2>2, <3>1 DEF Sheltered, Settled, disk
    <3>3. Private(q) => Private(q)'
      BY <2>1, <2>2, <3>1 DEF Private, In, disk
    <3> QED BY <3>1, <3>2, <3>3 DEF Spent, Ended, In
  <2> QED BY <1>1, <1>2, <2>1, <2>3 DEF SpentInv, Spent
<1>4. CASE ~Resets(p)
  <2>1. Live(p)
    BY <1>4 DEF ScanEffect, Snaps, Builds, Walks, Fails, Opens, Empties, Drops, Sets, Slips, Publishes,
       PutsBack, Lapses, Turns, Live, In
  <2>2. ASSUME NEW q \in Scanners, q # p PROVE Spent(q)'
    <3>1. ~Live(q)
      BY <1>4, <2>2, OneMoves DEF Unfailing
    <3>2. job'[q] = Idle
      BY <1>1, <2>2, <3>1, JobHere DEF RoleOf, Live, In
    <3> QED BY <3>2 DEF Spent, Idle
  <2> QED BY <1>1, <1>2, <1>4, <2>1, <2>2, SpentMoves, SMTT(30) DEF SpentInv
<1> QED BY <1>3, <1>4

LEMMA SpentNext ==
  ASSUME StoreInv, AloneInv, NEW Rank, Ordered(Rank), SpentInv, [Next]_vars
  PROVE  SpentInv'
<1>1. SUFFICES ASSUME Unfailing' PROVE SpentInv'
  BY DEF SpentInv
<1>2. Unfailing /\ faults' = 0
  BY <1>1, NextEffect DEF OtherEffect, ScanEffect, Unfailing, OneScanner, OneChange
<1>3. StoreInv'
  BY StoreInvNext
<1> QED BY <1>2, <1>3, NextSets, SpentBeside, SpentScanned

LEMMA SpentInvHolds == ASSUME NEW Rank, Ordered(Rank) PROVE Spec => []SpentInv
<1>1. StoreInv /\ AloneInv /\ SpentInv /\ [Next]_vars => SpentInv'
  BY SpentNext
<1> QED BY <1>1, StoreInvHolds, AloneInvHolds, InitSpent, PTL DEF Spec

-----------------------------------------------------------------------------
(* One scanner and validators: what is made of the contents of a source s, *)
(* and what a validation has seen of them.                                 *)
Viewing(p) == job[p].phase \notin {"idle", "failed"}

(* Nothing is made of a content that came after what the scan has seen.    *)
ScanFresh(Rank, p, s) ==
  Viewing(p) =>
    /\ \/ job[p].view.content[s] = current.content[s]
       \/ Rank[job[p].view.content[s]] < Rank[current.content[s]]
    /\ \A t \in Trees : Rank[made[t].content[s]] <= Rank[job[p].view.content[s]]

Results(tree) == tree \in Trees /\ "documents" \in files[tree]

(* Past the manifest, whatever results may yet come to be under generated/ *)
(* are of a content the validation has seen.                               *)
ReadFresh(Rank, v, s) ==
  Live(v) =>
    /\ current.content[s] \in job[v].seen[s] /\ job[v].view.content[s] \in job[v].seen[s]
    /\ \A p \in Scanners : Viewing(p) =>
         \/ job[p].view.content[s] \in job[v].seen[s]
         \/ \A c \in job[v].seen[s] : Rank[job[p].view.content[s]] < Rank[c]
    /\ In(v, "documents") =>
         /\ Results(generated) => made[generated].content[s] \in job[v].seen[s]
         /\ \A p \in Scanners : Viewing(p) => job[p].view.content[s] \in job[v].seen[s]
         /\ Results(previous) /\ (\E p \in Scanners : Aside(p)) =>
              made[previous].content[s] \in job[v].seen[s]
    /\ In(v, "done") => job[v].found.content[s] \in job[v].seen[s]

(* A validation writes no report.                                          *)
ReadersApart == \A v \in Validators : job[v].phase \notin {"render", "write"}

Answerable == OneScanner /\ (NoSetters \/ (faults = 0 /\ OneChange))

FreshInv(Rank, s) ==
  Answerable =>
    /\ ReadersApart
    /\ \A t \in Trees : Rank[made[t].content[s]] <= Rank[current.content[s]]
    /\ \A p \in Scanners : ScanFresh(Rank, p, s)
    /\ \A v \in Validators : ReadFresh(Rank, v, s)

LEMMA InitFresh ==
  ASSUME NEW Rank, Ordered(Rank), NEW s \in Sources PROVE Init => FreshInv(Rank, s)
<1> SUFFICES ASSUME Init PROVE FreshInv(Rank, s)
  OBVIOUS
<1>1. \A p \in Scanners \cup Validators : job[p].phase = "idle"
  BY IdleJob DEF Init, Commands
<1>2. \A t \in Trees : Rank[made[t].content[s]] <= Rank[current.content[s]]
  BY StoreConstants DEF Init, FirstVersion, Ordered
<1> QED BY <1>1, <1>2 DEF FreshInv, ReadersApart, ScanFresh, ReadFresh, Viewing, Live, In

(* What a step does to the validations.                                    *)
Rests(v) ==
  /\ job'[v].phase = job[v].phase /\ job'[v].view = job[v].view /\ job'[v].found = job[v].found

ReadsOn(v, s) == job'[v].seen[s] = job[v].seen[s] /\ job'[v].view = job[v].view

SourceMoves(s) ==
  \E c \in Contents :
    /\ <<current.content[s], c>> \in Writes /\ current'.content[s] = c
    /\ \A v \in Validators : Rests(v) /\ (Live(v) => job'[v].seen[s] = job[v].seen[s] \cup {c})

ReadEffect(v, s) ==
  \/ ~Live(v)'
  \/ /\ job'[v].phase = "snapshot" /\ job'[v].view.content[s] = current.content[s]
     /\ job'[v].seen[s] = {current.content[s]}
  \/ /\ job'[v].phase \in {"snapshot", "manifest"} /\ Live(v)
     /\ job'[v].view.content[s] \in {job[v].view.content[s], current.content[s]}
     /\ job'[v].seen[s] = job[v].seen[s]
  \/ Live(v) /\ ReadsOn(v, s) /\ job'[v].phase = "failed"
  \/ /\ Turns(v, "manifest", "documents") /\ ReadsOn(v, s)
     /\ generated \in Trees /\ made[generated] = job[v].view
  \/ /\ Turns(v, "documents", "done") /\ ReadsOn(v, s)
     /\ Results(generated) /\ job'[v].found = made[generated]
  \/ Rests(v) /\ job'[v].seen[s] = job[v].seen[s]

ReadersMove(s) ==
  /\ current'.content[s] = current.content[s]
  /\ \A v \in Validators : ReadEffect(v, s)

(* The step of a validation.                                               *)
LEMMA ValidatorEffect ==
  ASSUME StoreInv, ReadersApart, NEW s \in Sources, NEW v \in Validators, CommandStep(v)
  PROVE  ReadEffect(v, s) /\ current' = current /\ \A q \in Commands : q # v => job'[q] = job[q]
<1>1. /\ v \in Commands /\ job \in [Commands -> Jobs] /\ job[v] \in Jobs
      /\ v \in Readers /\ v \notin Scanners /\ v \notin Setters /\ v \notin Reporters
      /\ ReadJob(job[v]) /\ job[v].phase \notin {"render", "write"}
  BY Kinds, JobHere, StoreConstants DEF Commands, Readers, StoreInv, StoreTypeOK, ReadersApart
<1>2. /\ ~SetSource(v) /\ ~OpenTree(v) /\ ~Unlink(v) /\ ~Rmdir(v) /\ ~OpenForReport(v) /\ ~WriteReport(v)
      /\ ~SyncFails(v)
  BY <1>1 DEF SetSource, OpenTree, Unlink, Rmdir, RemovesName, OpenForReport, WriteReport, WritesReport,
     SyncFails, RenamesAside, RenamesOut, In, ReadJob
<1>3. CASE Start(v)
  <2> DEFINE j == [Idle EXCEPT !.phase = "snapshot", !.view = current, !.left = cast.sources,
                      !.seen = [r \in Sources |-> {current.content[r]}],
                      !.tree = IF v \in Scanners THEN scans + 1 ELSE 0]
  <2>1. job' = [job EXCEPT ![v] = j] /\ current' = current
    BY <1>3 DEF Start
  <2>2. j.phase = "snapshot" /\ j.view = current /\ j.seen[s] = {current.content[s]}
    BY DEF Idle
  <2> HIDE DEF j
  <2> QED BY <1>1, <2>1, <2>2 DEF ReadEffect
<1>4. CASE Snapshot(v)
  <2>1. In(v, "snapshot") /\ Live(v) /\ current' = current
    BY <1>4 DEF Snapshot, Live, In
  <2>2. ASSUME NEW r \in job[v].left,
               job' = [job EXCEPT ![v].view.content[r] = current.content[r], ![v].left = @ \ {r}]
        PROVE  ReadEffect(v, s) /\ \A q \in Commands : q # v => job'[q] = job[q]
    <3> DEFINE w == [job[v].view EXCEPT !.content[r] = current.content[r]]
    <3>1. w.content[s] \in {job[v].view.content[s], current.content[s]}
      BY <1>1 DEF Jobs, Versions
    <3>2. job' = [job EXCEPT ![v] = [job[v] EXCEPT !.view = w, !.left = @ \ {r}]]
      BY <1>1, <2>2 DEF Jobs, Versions
    <3> HIDE DEF w
    <3>3. /\ job'[v].phase = "snapshot" /\ job'[v].view = w /\ job'[v].seen = job[v].seen
          /\ \A q \in Commands : q # v => job'[q] = job[q]
      BY <1>1, <2>1, <3>2 DEF In, Jobs
    <3> QED BY <2>1, <3>1, <3>3 DEF ReadEffect
  <2>3. ASSUME Goto(v, "manifest")
        PROVE  ReadEffect(v, s) /\ \A q \in Commands : q # v => job'[q] = job[q]
    BY <1>1, <2>1, <2>3, GotoKeeps DEF ReadEffect, KeepsOn, Keeps
  <2> QED BY <1>1, <1>4, <2>1, <2>2, <2>3 DEF Snapshot
<1>5. CASE End(v) \/ Crash(v)
  <2>1. job'[v] = Idle /\ current' = current /\ \A q \in Commands : q # v => job'[q] = job[q]
    BY <1>1, <1>5 DEF End, Crash
  <2> QED BY <2>1, IdleJob DEF ReadEffect, Live, In
<1>6. CASE Raise(v) \/ Fault(v)
  <2>1. Goto(v, "failed") /\ current' = current /\ Live(v)
    BY <1>1, <1>6 DEF Raise, Raises, Fault, Raised, ReadJob, Live, In
  <2> QED BY <1>1, <2>1, GotoKeeps DEF ReadEffect, ReadsOn, KeepsOn, Keeps
<1>7. CASE ReadManifest(v)
  <2>1. /\ In(v, "manifest") /\ current' = current
        /\ \/ Goto(v, "documents") /\ Holds("manifest") /\ made[generated] = job[v].view
           \/ Goto(v, "failed")
    BY <1>7 DEF ReadManifest
  <2>2. Holds("manifest") => generated \in Trees
    BY DEF Holds, StoreInv, StoreTypeOK
  <2> QED BY <1>1, <2>1, <2>2, GotoKeeps DEF ReadEffect, ReadsOn, KeepsOn, Keeps, Turns, Live, In
<1>8. CASE ReadDocuments(v)
  <2>1. In(v, "documents") /\ current' = current
    BY <1>8 DEF ReadDocuments
  <2>2. CASE Holds("documents") /\ DigestsMatch(v, made[generated])
    <3>1. Results(generated)
      BY <2>2 DEF Holds, Results, StoreInv, StoreTypeOK
    <3>2. job' = [job EXCEPT ![v] = [job[v] EXCEPT !.found = made[generated], !.phase = "done"]]
      BY <1>1, <1>8, <2>2 DEF ReadDocuments
    <3>3. /\ Turns(v, "documents", "done") /\ ReadsOn(v, s) /\ job'[v].found = made[generated]
          /\ \A q \in Commands : q # v => job'[q] = job[q]
      BY <1>1, <2>1, <3>2 DEF Turns, ReadsOn, In, Jobs
    <3> QED BY <2>1, <3>1, <3>3 DEF ReadEffect
  <2>3. CASE ~(Holds("documents") /\ DigestsMatch(v, made[generated]))
    <3>1. Goto(v, "failed") /\ Live(v)
      BY <1>8, <2>1, <2>3 DEF ReadDocuments, Live, In
    <3> QED BY <1>1, <2>1, <3>1, GotoKeeps DEF ReadEffect, ReadsOn, KeepsOn, Keeps
  <2> QED BY <2>2, <2>3
<1> QED BY <1>2, <1>3, <1>4, <1>5, <1>6, <1>7, <1>8 DEF CommandStep

(* Another content of any source.                                          *)
LEMMA ContentMoves ==
  ASSUME StoreInv, NEW s \in Sources, NEW r \in cast.sources, NEW c \in cast.contents, Becomes(r, c),
         \A v \in Validators : job'[v] = Changed(r, c)[v]
  PROVE  SourceMoves(s) \/ ReadersMove(s)
<1>1. /\ r \in Sources /\ c \in Contents /\ <<current.content[r], c>> \in Writes
      /\ current'.content = [current.content EXCEPT ![r] = c]
      /\ current.content \in [Sources -> Contents] /\ current'.content[r] = c
  BY NewContent
<1>2. ASSUME NEW v \in Validators
      PROVE  /\ Rests(v)
             /\ Live(v) => job'[v].seen = [job[v].seen EXCEPT ![r] = @ \cup {c}]
             /\ ~Live(v) => job'[v].seen = job[v].seen
  <2> DEFINE b == Changed(r, c)[v]
  <2>1. v \in Commands /\ job'[v] = b
    BY DEF Commands
  <2>2. /\ b.phase = job[v].phase /\ b.view = job[v].view /\ b.found = job[v].found
        /\ job[v].phase = "idle" => b = job[v]
        /\ job[v].phase # "idle" => b.seen = [job[v].seen EXCEPT ![r] = @ \cup {c}]
    BY <1>1, <2>1, ChangedJobs
  <2> HIDE DEF b
  <2> QED BY <2>1, <2>2 DEF Rests, Live, In
<1>3. \A v \in Validators : job[v].seen \in [Sources -> SUBSET Contents]
  BY JobHere DEF Commands, Jobs
<1>4. CASE r = s
  <2>1. \A v \in Validators : Rests(v) /\ (Live(v) => job'[v].seen[s] = job[v].seen[s] \cup {c})
    BY <1>2, <1>3, <1>4
  <2> QED BY <1>1, <1>4, <2>1 DEF SourceMoves
<1>5. CASE r # s
  <2>1. \A v \in Validators : Rests(v) /\ job'[v].seen[s] = job[v].seen[s]
    BY <1>2, <1>3, <1>5
  <2> QED BY <1>1, <1>5, <2>1 DEF ReadersMove, ReadEffect
<1> QED BY <1>4, <1>5

LEMMA NextReads ==
  ASSUME StoreInv, ReadersApart, NEW s \in Sources, [Next]_vars
  PROVE  \/ OtherEffect /\ (SourceMoves(s) \/ ReadersMove(s))
         \/ \E p \in Scanners : ScanEffect(p)
<1>1. job \in [Commands -> Jobs] /\ Validators \subseteq Commands
  BY DEF StoreInv, StoreTypeOK, Commands
<1>2. CASE UNCHANGED vars
  BY <1>2 DEF vars, OtherEffect, Keeps, StoreInv, Counted, ReadersMove, ReadEffect, Rests
<1>3. ASSUME NEW p \in Commands, CommandStep(p)
      PROVE  \/ OtherEffect /\ (SourceMoves(s) \/ ReadersMove(s))
             \/ \E q \in Scanners : ScanEffect(q)
  <2>1. CASE p \in Scanners
    BY <1>3, <2>1, ScanCommandEffect
  <2>2. CASE p \in Validators
    <3>1. ReadersMove(s)
      BY <1>1, <1>3, <2>2, ValidatorEffect DEF ReadersMove, ReadEffect, Rests
    <3>2. p \notin Scanners
      BY <2>2, Kinds DEF Readers
    <3> QED BY <1>3, <3>1, <3>2, OtherCommandEffect
  <2>3. CASE p \notin Scanners /\ p \notin Validators
    <3>1. CASE SetSource(p)
      <4>1. PICK r \in cast.sources, c \in cast.contents :
              Becomes(r, c) /\ job' = [Changed(r, c) EXCEPT ![p].phase = "open"]
        BY <3>1 DEF SetSource
      <4>2. \A v \in Validators : job'[v] = Changed(r, c)[v]
        BY <1>1, <2>3, <4>1 DEF Changed
      <4>3. SourceMoves(s) \/ ReadersMove(s)
        BY <4>1, <4>2, ContentMoves
      <4> QED BY <1>3, <2>3, <4>3, OtherCommandEffect
    <3>2. ASSUME NEW ph, RemovesName(p, ph), current' = current, p \in Setters
          PROVE  OtherEffect /\ ReadersMove(s)
      <4>1. \A v \in Validators : job'[v] = [job[v] EXCEPT !.before = NoTree]
        BY <1>1, <2>3, <3>2 DEF RemovesName
      <4>2. \A v \in Validators : Rests(v) /\ job'[v].seen = job[v].seen
        <5>1. ASSUME NEW v \in Validators PROVE Rests(v) /\ job'[v].seen = job[v].seen
          <6>1. job[v] \in Jobs
            BY <1>1
          <6> QED BY <4>1, <6>1 DEF Rests, Jobs
        <5> QED BY <5>1
      <4> QED BY <1>3, <2>3, <3>2, <4>2, OtherCommandEffect DEF ReadersMove, ReadEffect
    <3>4. ~RenamesAside(p) /\ ~RenamesOut(p) /\ (p \notin Setters => ~In(p, "rmdir"))
      BY <2>3, JobHere, Kinds DEF RenamesAside, RenamesOut, Readers, ReadJob, SetJob, In
    <3>3. CASE ~SetSource(p) /\ \A ph : ~RemovesName(p, ph)
      <4>1. ~Rmdir(p) /\ (SyncFails(p) => current' = current /\ Goto(p, Raised(p)))
        BY <3>3, <3>4 DEF Rmdir, SyncFails
      <4>2. current' = current /\ \A v \in Validators : job'[v] = job[v]
        BY <1>1, <1>3, <2>3, <3>3, <4>1 DEF CommandStep, Start, Snapshot, End, Raise, Fault, Crash,
           OpenTree, Unlink, ReadManifest, ReadDocuments, OpenForReport, WriteReport, Goto
      <4> QED BY <1>3, <2>3, <4>2, OtherCommandEffect DEF ReadersMove, ReadEffect, Rests
    <3>5. (\E ph : RemovesName(p, ph)) /\ ~SetSource(p) => p \in Setters /\ current' = current
      <4>1. SUFFICES ASSUME NEW ph, RemovesName(p, ph), ~SetSource(p) PROVE p \in Setters /\ current' = current
        OBVIOUS
      <4>2. In(p, "rmdir") /\ p \in Setters
        BY <3>4, <4>1 DEF RemovesName
      <4> QED BY <1>3, <4>1, <4>2 DEF CommandStep, Start, Snapshot, End, Raise, Fault, SyncFails, Crash,
         OpenTree, Unlink, Rmdir, ReadManifest, ReadDocuments, OpenForReport, WriteReport
    <3> QED BY <3>1, <3>2, <3>3, <3>5
  <2> QED BY <2>1, <2>2, <2>3
<1>4. CASE WriteSource
  <2>1. PICK r \in cast.sources, c \in cast.contents : Becomes(r, c) /\ job' = Changed(r, c)
    BY <1>4 DEF WriteSource
  <2> QED BY <1>4, <2>1, ContentMoves, WorldEffect
<1>5. CASE EditModel
  <2>1. current'.content[s] = current.content[s] /\ job' = job
    BY <1>5 DEF EditModel, StoreInv, StoreTypeOK, Versions
  <2> QED BY <1>5, <2>1, WorldEffect DEF ReadersMove, ReadEffect, Rests
<1> QED BY <1>2, <1>3, <1>4, <1>5, ScanStepEffect DEF Next, CommandStep, ScanStep

(* Contents that are ranked.                                               *)
LEMMA RankTypes ==
  ASSUME StoreInv, NEW Rank, Ordered(Rank), NEW s \in Sources
  PROVE  /\ current.content[s] \in Contents /\ Rank[current.content[s]] \in Nat
         /\ \A t \in Trees : made[t].content[s] \in Contents /\ Rank[made[t].content[s]] \in Nat
         /\ \A p \in Commands :
              /\ job[p].view.content[s] \in Contents /\ Rank[job[p].view.content[s]] \in Nat
              /\ job[p].seen[s] \subseteq Contents
<1>1. current \in Versions /\ made \in [Trees -> Versions] /\ job \in [Commands -> Jobs]
  BY DEF StoreInv, StoreTypeOK
<1>2. \A v \in Versions : v.content[s] \in Contents
  BY DEF Versions
<1>3. \A p \in Commands : job[p].view \in Versions /\ job[p].seen[s] \subseteq Contents
  BY <1>1 DEF Jobs
<1> QED BY <1>1, <1>2, <1>3 DEF Ordered

(* What a step of the others leaves of directories and names.              *)
LEMMA ResultsBeside ==
  ASSUME StoreInv, OtherEffect
  PROVE  /\ made' = made /\ previous' = previous
         /\ \A p \in Scanners : job'[p].phase = job[p].phase /\ job'[p].view = job[p].view
         /\ \A p \in Scanners : Aside(p)' <=> Aside(p)
         /\ Results(generated)' => Results(generated) /\ generated' = generated
         /\ Results(previous)' => Results(previous)
<1>1. NoTree \notin Trees
  BY StoreConstants DEF NoTree, Trees
<1>2. \A t \in Trees : files'[t] \subseteq files[t] \cup {"report"}
  BY DEF OtherEffect
<1>3. generated' = generated \/ generated' = NoTree
  BY DEF OtherEffect
<1> QED BY <1>1, <1>2, <1>3 DEF OtherEffect, Keeps, Aside, Results

(* Another program, or a `source` command, brings a content that came      *)
(* after all there are.                                                    *)
LEMMA FreshWhenWritten ==
  ASSUME StoreInv, NEW Rank, Ordered(Rank), NEW s \in Sources, FreshInv(Rank, s), Answerable,
         OtherEffect, SourceMoves(s)
  PROVE  FreshInv(Rank, s)'
<1> USE DEF FreshInv
<1>1. PICK c \in Contents :
        /\ <<current.content[s], c>> \in Writes /\ current'.content[s] = c
        /\ \A v \in Validators : Rests(v) /\ (Live(v) => job'[v].seen[s] = job[v].seen[s] \cup {c})
  BY DEF SourceMoves
<1>2. Rank[current.content[s]] < Rank[c] /\ Rank[c] \in Nat
  BY <1>1 DEF Ordered
<1>3. /\ made' = made /\ previous' = previous
      /\ \A p \in Scanners : job'[p].phase = job[p].phase /\ job'[p].view = job[p].view
      /\ \A p \in Scanners : Aside(p)' <=> Aside(p)
      /\ Results(generated)' => Results(generated) /\ generated' = generated
      /\ Results(previous)' => Results(previous)
  BY ResultsBeside
<1>4. Scanners \subseteq Commands /\ Validators \subseteq Commands
  BY DEF Commands
<1>5. ReadersApart'
  BY <1>1 DEF ReadersApart, Rests
<1>6. \A t \in Trees : Rank[made'[t].content[s]] <= Rank[current'.content[s]]
  BY <1>1, <1>2, <1>3, RankTypes
<1>7. ASSUME NEW p \in Scanners, Viewing(p)
      PROVE  Rank[job[p].view.content[s]] < Rank[c]
  <2>1. \/ job[p].view.content[s] = current.content[s]
        \/ Rank[job[p].view.content[s]] < Rank[current.content[s]]
    BY <1>7 DEF ScanFresh
  <2> QED BY <1>2, <1>4, <2>1, RankTypes
<1>8. \A p \in Scanners : ScanFresh(Rank, p, s)'
  BY <1>1, <1>3, <1>7, SMTT(30) DEF ScanFresh, Viewing
<1>9. ASSUME NEW v \in Validators, Live(v)' PROVE ReadFresh(Rank, v, s)'
  <2>1. /\ Live(v) /\ job'[v].phase = job[v].phase /\ job'[v].view = job[v].view
        /\ job'[v].found = job[v].found /\ job'[v].seen[s] = job[v].seen[s] \cup {c}
    BY <1>1, <1>9 DEF Rests, Live, In
  <2>2. ReadFresh(Rank, v, s)
    OBVIOUS
  <2>3. ASSUME NEW p \in Scanners, Viewing(p)'
        PROVE  \/ job'[p].view.content[s] \in job'[v].seen[s]
               \/ \A d \in job'[v].seen[s] : Rank[job'[p].view.content[s]] < Rank[d]
    <3>1. Viewing(p) /\ job'[p].view = job[p].view
      BY <1>3, <2>3 DEF Viewing
    <3>2. Rank[job[p].view.content[s]] < Rank[c]
      BY <1>7, <3>1
    <3> QED BY <2>1, <2>2, <3>1, <3>2 DEF ReadFresh
  <2>4. In(v, "documents")' =>
          /\ Results(generated)' => made'[generated'].content[s] \in job'[v].seen[s]
          /\ \A p \in Scanners : Viewing(p)' => job'[p].view.content[s] \in job'[v].seen[s]
          /\ Results(previous)' /\ (\E p \in Scanners : Aside(p)') =>
               made'[previous'].content[s] \in job'[v].seen[s]
    BY <1>3, <2>1, <2>2 DEF ReadFresh, In, Viewing
  <2> QED BY <1>1, <2>1, <2>2, <2>3, <2>4 DEF ReadFresh, In
<1>10. \A v \in Validators : ReadFresh(Rank, v, s)'
  BY <1>9 DEF ReadFresh
<1> QED BY <1>5, <1>6, <1>8, <1>10

(* A validation takes its step.                                            *)
LEMMA FreshWhenRead ==
  ASSUME StoreInv, AloneInv, NEW Rank, Ordered(Rank), NEW s \in Sources, FreshInv(Rank, s), Answerable,
         OtherEffect, ReadersMove(s)
  PROVE  FreshInv(Rank, s)'
<1> USE DEF FreshInv
<1>1. current'.content[s] = current.content[s] /\ \A v \in Validators : ReadEffect(v, s)
  BY DEF ReadersMove
<1>2. /\ made' = made /\ previous' = previous
      /\ \A p \in Scanners : job'[p].phase = job[p].phase /\ job'[p].view = job[p].view
      /\ \A p \in Scanners : Aside(p)' <=> Aside(p)
      /\ Results(generated)' => Results(generated) /\ generated' = generated
      /\ Results(previous)' => Results(previous)
  BY ResultsBeside
<1>3. Scanners \subseteq Commands /\ Validators \subseteq Commands /\ NoTree \notin Trees
  BY StoreConstants DEF Commands, NoTree, Trees
<1>4. ReadersApart'
  BY <1>1 DEF ReadersApart, ReadEffect, Rests, Turns, Live, In
<1>5. \A t \in Trees : Rank[made'[t].content[s]] <= Rank[current'.content[s]]
  BY <1>1, <1>2
<1>6. \A p \in Scanners : ScanFresh(Rank, p, s)'
  BY <1>1, <1>2 DEF ScanFresh, Viewing
<1>7. ASSUME NEW v \in Validators PROVE ReadFresh(Rank, v, s)'
  <2>1. ReadFresh(Rank, v, s) /\ ReadEffect(v, s)
    BY <1>1
  <2>2. CASE ~Live(v)'
    BY <2>2 DEF ReadFresh
  <2>3. CASE /\ job'[v].phase = "snapshot" /\ job'[v].view.content[s] = current.content[s]
             /\ job'[v].seen[s] = {current.content[s]}
    <3>1. \A p \in Scanners : Viewing(p)' =>
            \/ job'[p].view.content[s] \in job'[v].seen[s]
            \/ \A d \in job'[v].seen[s] : Rank[job'[p].view.content[s]] < Rank[d]
      BY <1>2, <2>3 DEF ScanFresh, Viewing
    <3> QED BY <1>1, <2>3, <3>1 DEF ReadFresh, In
  <2>4. CASE /\ job'[v].phase \in {"snapshot", "manifest"} /\ Live(v)
             /\ job'[v].view.content[s] \in {job[v].view.content[s], current.content[s]}
             /\ job'[v].seen[s] = job[v].seen[s]
    <3>1. \A p \in Scanners : Viewing(p)' => Viewing(p)
      BY <1>2 DEF Viewing
    <3> QED BY <1>1, <1>2, <2>1, <2>4, <3>1 DEF ReadFresh, In
  <2>5. CASE Live(v) /\ ReadsOn(v, s) /\ job'[v].phase = "failed"
    <3>1. \A p \in Scanners : Viewing(p)' => Viewing(p)
      BY <1>2 DEF Viewing
    <3> QED BY <1>1, <1>2, <2>1, <2>5, <3>1 DEF ReadFresh, ReadsOn, In
  <2>6. CASE /\ Turns(v, "manifest", "documents") /\ ReadsOn(v, s)
             /\ generated \in Trees /\ made[generated] = job[v].view
    <3>1. Live(v) /\ made[generated].content[s] \in job[v].seen[s]
      BY <2>1, <2>6 DEF Turns, ReadFresh, Live, In
    <3>2. ASSUME NEW p \in Scanners, Viewing(p) PROVE job[p].view.content[s] \in job[v].seen[s]
      <4>1. Rank[made[generated].content[s]] <= Rank[job[p].view.content[s]]
        BY <2>6, <3>2 DEF ScanFresh
      <4>2. ~(Rank[job[p].view.content[s]] < Rank[made[generated].content[s]])
        BY <1>3, <2>6, <4>1, RankTypes
      <4> QED BY <2>1, <3>1, <3>2, <4>2 DEF ReadFresh
    <3>3. \A p \in Scanners : ~Aside(p)
      BY <1>3, <2>6 DEF AloneInv, Alone, Answerable
    <3>4. \A p \in Scanners : Viewing(p)' => Viewing(p)
      BY <1>2 DEF Viewing
    <3> QED BY <1>1, <1>2, <2>1, <2>6, <3>1, <3>2, <3>3, <3>4 DEF ReadFresh, ReadsOn, Turns, In
  <2>7. CASE /\ Turns(v, "documents", "done") /\ ReadsOn(v, s)
             /\ Results(generated) /\ job'[v].found = made[generated]
    <3>1. Live(v) /\ made[generated].content[s] \in job[v].seen[s]
      BY <1>3, <2>1, <2>7 DEF Turns, ReadFresh, Live, In
    <3>2. \A p \in Scanners : Viewing(p)' => Viewing(p)
      BY <1>2 DEF Viewing
    <3> QED BY <1>1, <1>2, <2>1, <2>7, <3>1, <3>2 DEF ReadFresh, ReadsOn, Turns, In
  <2>8. CASE Rests(v) /\ job'[v].seen[s] = job[v].seen[s]
    <3>1. \A p \in Scanners : Viewing(p)' => Viewing(p)
      BY <1>2 DEF Viewing
    <3> QED BY <1>1, <1>2, <2>1, <2>8, <3>1 DEF ReadFresh, Rests, Live, In
  <2> QED BY <2>1, <2>2, <2>3, <2>4, <2>5, <2>6, <2>7, <2>8 DEF ReadEffect
<1> QED BY <1>4, <1>5, <1>6, <1>7

(* A scan that fails after it has published puts no results back.          *)
LEMMA PutsBackNothing ==
  ASSUME StoreInv, WholeInv, SpentInv, Answerable, NEW p \in Scanners, PutsBack(p), Results(generated)'
  PROVE  \/ generated' = generated /\ Results(generated)
         \/ Aside(p) /\ generated' = previous /\ Results(previous)
<1>1. /\ ScanJob(job[p]) /\ job[p] \in Jobs /\ In(p, "putback") /\ files' = files
  BY JobHere DEF Commands, PutsBack, Turns, In
<1>2. Results(generated') /\ (generated' = generated \/ (generated' = previous /\ Vacant(generated)))
  BY <1>1 DEF PutsBack, Results
<1>3. SUFFICES ASSUME ~Aside(p), generated' = previous, Vacant(generated) PROVE FALSE
  BY <1>2
<1>4. job[p].out
  BY <1>1, <1>3 DEF ScanJob, Aside, In
<1>5. Unfailing
  BY <1>1, <1>4 DEF Answerable, Unfailing, WholeInv
<1>6. Sheltered(p) \/ Private(p)
  BY <1>1, <1>4, <1>5 DEF SpentInv, Spent, Ended, In
<1>7. CASE Sheltered(p)
  BY <1>1, <1>3, <1>7 DEF Sheltered, Vacant, Jobs
<1>8. CASE Private(p)
  <2>1. NoTree \notin Trees
    BY StoreConstants DEF NoTree, Trees
  <2> QED BY <1>1, <1>2, <1>3, <1>8, <2>1 DEF Private, Results, In
<1> QED BY <1>6, <1>7, <1>8

(* The scanner takes its step.                                             *)
LEMMA FreshWhenScanned ==
  ASSUME StoreInv, AloneInv, WholeInv, SpentInv, NEW Rank, Ordered(Rank), NEW s \in Sources,
         FreshInv(Rank, s), Answerable, NEW p \in Scanners, ScanEffect(p)
  PROVE  FreshInv(Rank, s)'
<1> USE DEF FreshInv
<1>1. /\ Scanners \subseteq Commands /\ Validators \subseteq Commands /\ NoTree \notin Trees
      /\ p \in Commands /\ ScanJob(job[p]) /\ job[p] \in Jobs
  BY StoreConstants, JobHere DEF Commands, NoTree, Trees
<1>2. current' = current /\ \A q \in Commands : q # p => job'[q] = job[q]
  BY DEF ScanEffect
<1>3. \A v \in Validators : job'[v] = job[v]
  BY <1>1, <1>2, Kinds DEF Readers
<1>4. ReadersApart'
  BY <1>3 DEF ReadersApart
<1>7. UNCHANGED disk => /\ Results(generated)' => Results(generated)
                        /\ Results(previous)' => Results(previous)
  BY DEF disk, Results
<1>5. CASE Resets(p)
  <2>1. UNCHANGED disk /\ ~Aside(p)' /\ (Viewing(p)' => job'[p].view = current)
    BY <1>5 DEF Resets, Viewing, Aside
  <2>2. \A q \in Scanners \ {p} : job'[q] = job[q] /\ (Viewing(q)' <=> Viewing(q))
    BY <1>1, <1>2 DEF Viewing
  <2>3. \A q \in Scanners : Aside(q)' => Aside(q)
    BY <1>1, <1>2, <2>1 DEF Aside
  <2>4. \A q \in Scanners : ScanFresh(Rank, q, s)'
    BY <1>2, <2>1, <2>2 DEF ScanFresh, disk
  <2>5. \A v \in Validators : ReadFresh(Rank, v, s)'
    BY <1>2, <1>3, <1>7, <2>1, <2>2, <2>3 DEF ReadFresh, disk, Live, In
  <2> QED BY <1>2, <1>4, <2>1, <2>4, <2>5 DEF disk
<1>6. CASE ~Resets(p)
  <2>1. \A q \in Scanners : q # p => ~Viewing(q) /\ ~Viewing(q)' /\ ~Aside(q)'
    <3>1. \A q \in Scanners : q # p => ~Live(q) /\ job'[q] = job[q]
      BY <1>1, <1>2, <1>6, OneMoves DEF Answerable
    <3> QED BY <3>1 DEF Live, In, Viewing, Aside
  <2>2. CASE Snaps(p)
    <3>1. /\ job'[p].view.content[s] \in {job[p].view.content[s], current.content[s]}
          /\ UNCHANGED disk /\ ~Aside(p)' /\ Viewing(p)
      BY <1>1, <2>2 DEF Snaps, Turns, ScanJob, Aside, Viewing
    <3>2. \A q \in Scanners : ScanFresh(Rank, q, s)'
      BY <1>2, <2>1, <3>1 DEF ScanFresh, disk
    <3>3. \A v \in Validators : ReadFresh(Rank, v, s)'
      BY <1>2, <1>3, <1>7, <2>1, <3>1 DEF ReadFresh, disk, Live, In
    <3> QED BY <1>2, <1>4, <3>1, <3>2, <3>3 DEF disk
  <2>3. CASE ~Snaps(p)
    <3>1. Live(p) /\ job'[p].view = job[p].view
      BY <1>6, <2>3 DEF ScanEffect, Builds, Walks, Fails, Opens, Empties, Drops, Sets, Slips, Publishes,
         PutsBack, Lapses, Turns, Keeps, KeepsOn, Live, In
    <3>2. Viewing(p)' => Viewing(p)
      <4>1. CASE Fails(p)
        BY <4>1 DEF Fails, Viewing
      <4>2. CASE ~Fails(p)
        BY <1>6, <2>3, <4>2 DEF ScanEffect, Builds, Walks, Opens, Empties, Drops, Sets, Slips, Publishes,
           PutsBack, Lapses, Turns, Viewing
      <4> QED BY <4>1, <4>2
    <3>3. CASE Builds(p)
      <4>1. /\ ~job[p].out /\ Viewing(p) /\ ~Aside(p)'
            /\ UNCHANGED <<generated, previous>>
            /\ made' = [made EXCEPT ![job[p].tree] = job[p].view]
            /\ files' = [files EXCEPT ![job[p].tree] = Files]
        BY <1>1, <3>3 DEF Builds, Turns, ScanJob, Viewing, Aside
      <4>2. job[p].tree # generated
        BY <3>1, <4>1 DEF StoreInv, OwnTrees, Owned, Apart
      <4>3. made \in [Trees -> Versions] /\ generated \in Trees \cup {NoTree}
        BY DEF StoreInv, StoreTypeOK
      <4>4. \A t \in Trees : made'[t] = made[t] \/ made'[t] = job[p].view
        BY <4>1, <4>3
      <4>5. ScanFresh(Rank, p, s) /\ Rank[job[p].view.content[s]] <= Rank[current.content[s]]
              /\ Rank[job[p].view.content[s]] <= Rank[job[p].view.content[s]]
        BY <1>1, <4>1, RankTypes DEF ScanFresh
      <4>6. \A t \in Trees : Rank[made'[t].content[s]] <= Rank[current'.content[s]]
        BY <1>2, <4>4, <4>5
      <4>7. \A q \in Scanners : ScanFresh(Rank, q, s)'
        BY <1>2, <2>1, <3>1, <4>1, <4>4, <4>5 DEF ScanFresh
      <4>8. Results(generated)' => Results(generated) /\ made'[generated] = made[generated]
        <5>1. files \in [Trees -> SUBSET Files]
          BY DEF StoreInv, StoreTypeOK
        <5> QED BY <1>1, <4>1, <4>2, <4>3, <5>1 DEF Results
      <4>9. \A v \in Validators : ReadFresh(Rank, v, s)'
        BY <1>2, <1>3, <2>1, <3>1, <4>1, <4>8 DEF ReadFresh, Live, In
      <4> QED BY <1>4, <4>6, <4>7, <4>9
    <3>4. CASE ~Builds(p)
      <4>1. made' = made
        BY <1>6, <2>3, <3>4 DEF ScanEffect, Walks, Fails, Opens, Empties, Drops, Sets, Slips,
           Publishes, PutsBack, disk
      <4>3. \A q \in Scanners : ScanFresh(Rank, q, s)'
        BY <1>2, <2>1, <3>1, <3>2, <4>1 DEF ScanFresh
      <4>2. \A t \in Trees : files'[t] \subseteq files[t]
        <5>1. CASE Empties(p)
          BY <5>1 DEF Empties
        <5>2. CASE ~Empties(p)
          BY <1>6, <2>3, <3>4, <5>2 DEF ScanEffect, Walks, Fails, Opens, Drops, Sets, Slips,
             Publishes, PutsBack, disk
        <5> QED BY <5>1, <5>2
      <4>4. Results(generated)' =>
              \/ generated' = generated /\ Results(generated)
              \/ Viewing(p) /\ made[generated'] = job[p].view
              \/ Aside(p) /\ generated' = previous /\ Results(previous)
        <5>1. CASE Publishes(p)
          <6>1. HasBuilt(job[p])
            BY <1>1, <5>1 DEF Publishes, Lapses, Turns, ScanJob, HasBuilt
          <6> QED BY <3>1, <5>1, <6>1 DEF Publishes, Lapses, Turns, Viewing, StoreInv, OwnTrees, Owned
        <5>2. CASE PutsBack(p)
          BY <5>2, PutsBackNothing
        <5>3. CASE ~Publishes(p) /\ ~PutsBack(p)
          <6>1. generated' = generated \/ generated' = NoTree
            BY <1>6, <2>3, <3>4, <5>3 DEF ScanEffect, Walks, Fails, Opens, Empties, Drops, Sets, Slips,
               disk
          <6> QED BY <1>1, <4>2, <6>1 DEF Results
        <5> QED BY <5>1, <5>2, <5>3
      <4>5. ASSUME Aside(p)', Results(previous)'
            PROVE  \/ Aside(p) /\ previous' = previous /\ Results(previous)
                   \/ Results(generated) /\ previous' = generated
        <5>1. CASE Sets(p)
          BY <4>5, <5>1 DEF Sets, Results
        <5>2. CASE Walks(p) \/ Fails(p)
          BY <1>1, <1>7, <4>5, <5>2 DEF Walks, Fails, Turns, Keeps, KeepsOn, disk, ScanJob, Aside
        <5>3. CASE Opens(p) \/ Empties(p) \/ Drops(p) \/ Slips(p) \/ Publishes(p) \/ PutsBack(p)
          BY <1>1, <4>5, <5>3 DEF Opens, Empties, Drops, Slips, Publishes, PutsBack, Lapses, Turns, Keeps,
             KeepsOn, ScanJob, Aside
        <5> QED BY <1>6, <2>3, <3>4, <5>1, <5>2, <5>3 DEF ScanEffect
      <4>6. \A v \in Validators : ReadFresh(Rank, v, s)'
        <5>1. SUFFICES ASSUME NEW v \in Validators, Live(v) PROVE ReadFresh(Rank, v, s)'
          BY <1>3 DEF ReadFresh, Live, In
        <5>2. ReadFresh(Rank, v, s) /\ job'[v] = job[v]
          BY <1>3
        <5>3. In(v, "documents") /\ Results(generated)' => made'[generated'].content[s] \in job[v].seen[s]
          BY <4>1, <4>4, <5>1, <5>2 DEF ReadFresh
        <5>4. In(v, "documents") /\ Aside(p)' /\ Results(previous)' =>
                made'[previous'].content[s] \in job[v].seen[s]
          BY <4>1, <4>5, <5>1, <5>2 DEF ReadFresh
        <5> QED BY <1>2, <2>1, <3>1, <3>2, <5>1, <5>2, <5>3, <5>4 DEF ReadFresh, In
      <4> QED BY <1>2, <1>4, <4>1, <4>3, <4>6
    <3> QED BY <3>3, <3>4
  <2> QED BY <2>2, <2>3
<1> QED BY <1>5, <1>6

LEMMA FreshNext ==
  ASSUME StoreInv, AloneInv, WholeInv, SpentInv, NEW Rank, Ordered(Rank), NEW s \in Sources,
         FreshInv(Rank, s), [Next]_vars
  PROVE  FreshInv(Rank, s)'
<1>1. SUFFICES ASSUME Answerable' PROVE FreshInv(Rank, s)'
  BY DEF FreshInv
<1>2. Answerable
  BY <1>1, NextEffect DEF OtherEffect, ScanEffect, Answerable, NoSetters, OneScanner, OneChange
<1>3. ReadersApart
  BY <1>2 DEF FreshInv
<1> QED BY <1>2, <1>3, NextReads, FreshWhenWritten, FreshWhenRead, FreshWhenScanned

(* Where contents never come back, a validation beside one scanner answers *)
(* with results for a content each source had since it began, although it  *)
(* takes its snapshots one after the other and compares the manifest and   *)
(* reads the results at two more times (_load_fresh_evidence,              *)
(* _load_cached_validation_results), whatever fails or dies, and, if no    *)
(* call fails and contents change but once, beside `source` commands too.  *)
THEOREM ValidatedIsFresh ==
  ASSUME NEW Rank, Ordered(Rank)
  PROVE  Spec => []AnswersAreFresh
<1>1. Init => \A s \in Sources : FreshInv(Rank, s)
  BY InitFresh
<1>2. StoreInv /\ AloneInv /\ WholeInv /\ SpentInv /\ (\A s \in Sources : FreshInv(Rank, s))
        /\ [Next]_vars => (\A s \in Sources : FreshInv(Rank, s))'
  <2>1. Sources' = Sources /\ Rank' = Rank
    OBVIOUS
  <2> QED BY <2>1, FreshNext
<1>3. StoreInv /\ (\A s \in Sources : FreshInv(Rank, s)) => AnswersAreFresh
  <2>1. StoreInv => cast.sources \subseteq Sources
    BY StoreConstants DEF StoreInv, StoreTypeOK
  <2> QED BY <2>1 DEF FreshInv, Answerable, ReadFresh, AnswersAreFresh, Live, In
<1>4. Spec => []SpentInv
  BY SpentInvHolds
<1> QED BY <1>1, <1>2, <1>3, <1>4, StoreInvHolds, AloneInvHolds, WholeInvHolds, PTL DEF Spec

=============================================================================
