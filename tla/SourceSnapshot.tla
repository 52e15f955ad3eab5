--------------------------- MODULE SourceSnapshot ---------------------------
(***************************************************************************)
(* snapshots.py: a CSV directory or a SQLite database is read into a       *)
(* private copy, under a deadline and a limit on bytes, while other        *)
(* programs write to it.                                                   *)
(*                                                                         *)
(* A file's content is a sequence of blocks (a chunk of a CSV file, a      *)
(* batch of database pages), and a block is the number of the write that   *)
(* made it, so that a mixture of two contents differs from both.           *)
(***************************************************************************)
EXTENDS Naturals, Sequences, FiniteSets, FiniteSetsExt

CONSTANTS
  Names,          \* the entries a source may have, numbered in byte order
  Touched,        \* those that other programs change
  Inodes,         \* the numbers 1..n
  Jobs,           \* the snapshots that may be asked for: [kind, name, limit],
                  \* the limit being max_source_bytes, in blocks
  Layouts,        \* what the sources may be at first: [dir, length]
  Under,          \* of a name, the entries below it where it is a directory
  MaxBlocks,      \* bound on the blocks of a file
  MaxWrites,      \* bound on the changes by other programs
  MaxTicks,       \* bound on the ticks of the clock that stamps files
  Absent, Link, Unsupported, Directory,   \* entries that are not regular files
  NoFile, NoCopy

ASSUME SnapshotConstants ==
  /\ Names \subseteq Nat /\ IsFiniteSet(Names) /\ Names # {} /\ Touched \subseteq Names
  /\ IsFiniteSet(Inodes) /\ Inodes = 1..Cardinality(Inodes)
  /\ Jobs \subseteq [kind : {"csv", "sqlite"}, name : Names, limit : Nat]
  /\ Under \in [Names -> SUBSET Names] /\ \A d \in Names : \A n \in Under[d] : d < n
  /\ Layouts \subseteq [dir : [Names -> Inodes \cup {Absent, Link, Unsupported, Directory}],
                        length : [Inodes -> 0..MaxBlocks]]
  /\ {MaxBlocks, MaxWrites, MaxTicks} \subseteq Nat

ASSUME SnapshotMarkers ==
  /\ {Absent, Link, Unsupported, Directory, NoFile} \cap Inodes = {}
  /\ Absent \notin {Link, Unsupported, Directory} /\ Link # Directory
  /\ \A some \in SUBSET Names : NoCopy \notin [some -> Seq(Nat)]

VARIABLES
  dir,       \* the entry under each name
  file,      \* content, recorded size and time of each inode
  now,       \* the clock that stamps files, in its ticks
  written,   \* how many changes there were
  expired,   \* whether the deadline has passed
  job,       \* the snapshot under way
  copy,      \* its private copy: what was read under each name
  seen,      \* history: what the sources have been since the call began
  checked,   \* history: what they were when the second look began
  masked     \* history: changes that identities do not show

world == <<dir, file, now, written>>
history == <<seen, checked, masked>>
vars == <<world, expired, job, copy, history>>

-----------------------------------------------------------------------------
(* The sources.                                                            *)

IsFile(n) == dir[n] \in Inodes

(* The identity tuple: device, inode, size and time of modification.       *)
Identity(n) == IF IsFile(n) THEN <<dir[n], file[dir[n]].size, file[dir[n]].mtime>> ELSE <<dir[n]>>

View == [n \in Names |-> [id |-> Identity(n),
                          blocks |-> IF IsFile(n) THEN file[dir[n]].blocks ELSE <<>>]]

(* The entries of subdirectories, which stay; what is in them may change.  *)
Nested == UNION {Under[d] : d \in {m \in Names : dir[m] = Directory}}

Fresh == Cardinality(Inodes) + written + 1

InUse == {dir[n] : n \in Names} \cup {job.open}

Busy == Inodes \cap ({dir[n] : n \in Touched} \cup {job.open})

(* What one write can make of a content: another block, one more, or all   *)
(* of it.                                                                  *)
Edited(blocks) ==
  {[blocks EXCEPT ![b] = Fresh] : b \in DOMAIN blocks}
    \cup {[b \in 1..k |-> IF b \in DOMAIN blocks THEN blocks[b] ELSE Fresh] :
            k \in {Len(blocks) + 1} \cap 1..MaxBlocks}
    \cup {[b \in 1..k |-> Fresh] : k \in 0..MaxBlocks}

(* A name has an identity again that it had before.                        *)
HasAgain(n) == View[n].id # View'[n].id /\ \E v \in seen : v[n].id = View'[n].id

Remember ==
  /\ seen' = seen \cup {View'}
  /\ masked' = masked \cup
       {kind \in {"rewritten", "returned", "fleeting"} : \E n \in Names :
          CASE kind = "rewritten" -> IsFile(n)' /\ View[n].id = View'[n].id
                                     /\ View[n].blocks # View'[n].blocks
            [] kind = "returned"  -> IsFile(n)' /\ HasAgain(n)
            [] kind = "fleeting"  -> ~IsFile(n)' /\ HasAgain(n) /\ n \in Nested}
  /\ UNCHANGED checked

Change ==
  /\ written < MaxWrites
  /\ written' = written + 1
  /\ Remember
  /\ UNCHANGED <<now, expired, job, copy>>

(* In place: an editor's write to a CSV file, a commit with a rollback     *)
(* journal.                                                                *)
Write(i) ==
  /\ i \in Busy
  /\ \E blocks \in Edited(file[i].blocks) :
        file' = [file EXCEPT ![i] = [blocks |-> blocks, size |-> Len(blocks), mtime |-> now]]
  /\ UNCHANGED dir
  /\ Change

(* A commit into the write-ahead log leaves the database file alone until  *)
(* a checkpoint.                                                           *)
WalCommit(i) ==
  /\ job.kind = "sqlite" /\ i \in Busy
  /\ \E blocks \in Edited(file[i].blocks) : file' = [file EXCEPT ![i].blocks = blocks]
  /\ UNCHANGED dir
  /\ Change

Checkpoint(i) ==
  /\ job.kind = "sqlite" /\ i \in Busy
  /\ file' = [file EXCEPT ![i].size = Len(file[i].blocks), ![i].mtime = now]
  /\ UNCHANGED dir
  /\ Change

(* A new file under a name, renamed over an old one or created; the number *)
(* of an inode nobody uses may come back.                                  *)
Replace(n) ==
  /\ dir[n] # Directory
  /\ \E i \in Inodes \ InUse, k \in 0..MaxBlocks :
        /\ dir' = [dir EXCEPT ![n] = i]
        /\ file' = [file EXCEPT ![i] = [blocks |-> [b \in 1..k |-> Fresh],
                                        size |-> k, mtime |-> now]]
  /\ Change

Remove(n) ==
  /\ IsFile(n)
  /\ dir' = [dir EXCEPT ![n] = Absent]
  /\ UNCHANGED file
  /\ Change

Rename(n, m) ==
  /\ IsFile(n) /\ n # m /\ dir[m] # Directory
  /\ dir' = [dir EXCEPT ![m] = dir[n], ![n] = Absent]
  /\ UNCHANGED file
  /\ Change

Tick ==
  /\ now < MaxTicks
  /\ now' = now + 1
  /\ UNCHANGED <<dir, file, written, expired, job, copy, history>>

World ==
  /\ job.phase \notin {"done", "refused"}
  /\ \/ \E i \in Inodes : Write(i) \/ WalCommit(i) \/ Checkpoint(i)
     \/ \E n \in Touched : Replace(n) \/ Remove(n) \/ \E m \in Touched : Rename(n, m)
     \/ Tick

Expire ==
  /\ job.phase \notin {"idle", "done", "refused"} /\ ~expired
  /\ expired' = TRUE
  /\ UNCHANGED <<world, job, copy, history>>

-----------------------------------------------------------------------------
(* The snapshot of a CSV directory: a walk, the copies, a second walk.     *)

Began(wanted) ==
  [kind |-> wanted.kind, name |-> wanted.name, limit |-> wanted.limit,
   phase |-> IF wanted.kind = "csv" THEN "list" ELSE "parent",
   left |-> {}, listed |-> {}, walk |-> <<>>, first |-> <<>>, open |-> NoFile, basis |-> <<>>]

(* Mutant: no finally clause closes the descriptor.                        *)
RefuseLeaking ==
  /\ job' = [job EXCEPT !.phase = "refused"]
  /\ copy' = NoCopy
  /\ UNCHANGED history

(* An exception removes the temporary directory.                           *)
Refuse ==
  /\ job' = [job EXCEPT !.phase = "refused", !.open = NoFile]
  /\ copy' = NoCopy
  /\ UNCHANGED history

(* A function with one more entry, or with another there; and of only one. *)
With(f, n, x) == [m \in DOMAIN f \cup {n} |-> IF m = n THEN x ELSE f[m]]
Only(n, x) == [m \in {n} |-> x]

Continue(j) == job' = j /\ UNCHANGED <<copy, history>>

Here == Min(job.left)

BytesCopied == Cardinality(UNION {{n} \X DOMAIN copy[n] : n \in DOMAIN copy})

ListDirectory ==
  /\ job.phase \in {"list", "relist"}
  /\ IF expired THEN Refuse
     ELSE /\ job' = [job EXCEPT !.phase = IF @ = "list" THEN "walk" ELSE "rewalk",
                                !.left = {n \in Names \ Nested : dir[n] # Absent},
                                !.listed = {}, !.walk = <<>>]
          /\ checked' = View
          /\ UNCHANGED <<copy, seen, masked>>

(* Each subdirectory is listed where the walk meets it, at a time of its   *)
(* own.                                                                    *)
ListSubdirectory ==
  /\ job.phase \in {"walk", "rewalk"} /\ job.left # {} /\ dir[Here] = Directory
  /\ IF expired THEN Refuse
     ELSE Continue([job EXCEPT !.left = (@ \ {Here}) \cup {n \in Under[Here] : dir[n] # Absent},
                               !.listed = @ \cup {Here}])

StatEntry ==
  /\ job.phase \in {"walk", "rewalk"} /\ job.left # {} /\ dir[Here] # Directory
  /\ IF expired \/ ~IsFile(Here) THEN Refuse
     ELSE Continue([job EXCEPT !.left = @ \ {Here}, !.walk = With(@, Here, Identity(Here))])

BeginCopies ==
  /\ job.phase = "walk" /\ job.left = {}
  /\ Continue([job EXCEPT !.phase = "copy", !.first = job.walk, !.left = DOMAIN job.walk])

OpenFile ==
  /\ job.phase = "copy" /\ job.left # {} /\ job.open = NoFile
  /\ IF expired \/ Identity(Here) # job.first[Here] THEN Refuse
     ELSE /\ job' = [job EXCEPT !.open = dir[Here]]
          /\ copy' = With(copy, Here, <<>>)
          /\ UNCHANGED history

ReadChunk ==
  /\ job.kind = "csv" /\ job.open # NoFile
  /\ Len(copy[Here]) < Len(file[job.open].blocks)
  /\ IF expired \/ BytesCopied + 1 > job.limit THEN Refuse
     ELSE /\ copy' = [copy EXCEPT ![Here] =
                         Append(@, file[job.open].blocks[Len(@) + 1])]
          /\ UNCHANGED <<job, history>>

EndOfFile ==
  /\ job.kind = "csv" /\ job.open # NoFile
  /\ Len(copy[Here]) >= Len(file[job.open].blocks)
  /\ IF expired \/ Len(copy[Here]) # job.first[Here][2] THEN Refuse
     ELSE Continue([job EXCEPT !.left = @ \ {Here}, !.open = NoFile])

EndCopies ==
  /\ job.phase = "copy" /\ job.left = {}
  /\ Continue([job EXCEPT !.phase = "relist"])

(* Mutant: only the names are compared.                                    *)
CompareNames ==
  /\ job.phase = "rewalk" /\ job.left = {}
  /\ IF DOMAIN job.walk # DOMAIN job.first THEN Refuse
     ELSE Continue([job EXCEPT !.phase = "done"])

CompareWalks ==
  /\ job.phase = "rewalk" /\ job.left = {}
  /\ IF job.walk # job.first THEN Refuse ELSE Continue([job EXCEPT !.phase = "done"])

-----------------------------------------------------------------------------
(* The snapshot of a SQLite database: its identity, a backup, its identity *)
(* again.                                                                  *)

OpenParent ==
  /\ job.phase = "parent"
  /\ IF expired \/ ~IsFile(job.name) THEN Refuse
     ELSE IF file[dir[job.name]].size > job.limit THEN Refuse
     ELSE Continue([job EXCEPT !.phase = "connect",
                               !.first = Only(job.name, Identity(job.name))])

(* By its name, once more.                                                 *)
Connect ==
  /\ job.phase = "connect"
  /\ IF expired \/ ~IsFile(job.name) THEN Refuse
     ELSE /\ job' = [job EXCEPT !.phase = "backup", !.open = dir[job.name]]
          /\ copy' = Only(job.name, <<>>)
          /\ UNCHANGED history

(* BEGIN is deferred and takes no lock: every batch has a read transaction *)
(* of its own, and the backup begins anew when the content has changed     *)
(* since the last one.                                                     *)
BackupBatch ==
  /\ job.phase = "backup"
  /\ LET blocks == file[job.open].blocks
         kept   == IF blocks = job.basis THEN Len(copy[job.name]) ELSE 0
     IN /\ copy' = Only(job.name, SubSeq(blocks, 1, Min({kept + 1, Len(blocks)})))
        /\ job' = [job EXCEPT !.basis = blocks,
                               !.phase = IF kept + 1 < Len(blocks) THEN "batch" ELSE "last"]
        /\ UNCHANGED history

GoOn ==
  Continue(IF job.phase = "batch" THEN [job EXCEPT !.phase = "backup"]
           ELSE [job EXCEPT !.phase = "compare", !.open = NoFile])

(* Mutant: no progress handler.                                            *)
BackupProgressSilently == job.phase \in {"batch", "last"} /\ GoOn

(* The progress of a backup is where the deadline is looked at: after      *)
(* every batch, the last one too.                                          *)
BackupProgress == job.phase \in {"batch", "last"} /\ IF expired THEN Refuse ELSE GoOn

(* A file that is no database, or that the backup cannot read.             *)
BackupFails ==
  /\ job.phase \in {"connect", "backup"}
  /\ Refuse

(* Mutant: the identity is not compared again.                             *)
StatOnly ==
  /\ job.phase = "compare"
  /\ IF expired \/ ~IsFile(job.name) THEN Refuse
     ELSE /\ job' = [job EXCEPT !.phase = "hash"]
          /\ checked' = View
          /\ UNCHANGED <<copy, seen, masked>>

StatAgain ==
  /\ job.phase = "compare"
  /\ IF expired \/ Identity(job.name) # job.first[job.name] THEN Refuse
     ELSE /\ job' = [job EXCEPT !.phase = "hash"]
          /\ checked' = View
          /\ UNCHANGED <<copy, seen, masked>>

HashCopy ==
  /\ job.phase = "hash"
  /\ IF expired \/ BytesCopied > job.limit THEN Refuse
     ELSE Continue([job EXCEPT !.phase = "done"])

-----------------------------------------------------------------------------
Snapshot ==
  /\ \/ ListDirectory \/ ListSubdirectory \/ StatEntry \/ BeginCopies \/ OpenFile \/ ReadChunk
     \/ EndOfFile \/ EndCopies \/ CompareWalks
     \/ OpenParent \/ Connect \/ BackupBatch \/ BackupProgress \/ BackupFails
     \/ StatAgain \/ HashCopy
  /\ UNCHANGED <<world, expired>>

WorldInit ==
  /\ \E layout \in Layouts :
        /\ dir = layout.dir
        /\ file = [i \in Inodes |-> [blocks |-> [b \in 1..layout.length[i] |-> i],
                                     size |-> layout.length[i], mtime |-> 0]]
  /\ now = 0 /\ written = 0 /\ expired = FALSE
  /\ seen = {View} /\ checked = View /\ masked = {}

SnapshotInit ==
  /\ WorldInit
  /\ copy = <<>>
  /\ \E wanted \in Jobs : job = Began(wanted)

SnapshotNext == Snapshot \/ World \/ Expire

SnapshotSpec == SnapshotInit /\ [][SnapshotNext]_vars

-----------------------------------------------------------------------------
(* Types, and what belongs together: a file is open while it is read, and  *)
(* a private copy is there until the snapshot is refused.                  *)
SnapshotTypeOK ==
  /\ dir \in [Names -> Inodes \cup {Absent, Link, Unsupported, Directory}]
  /\ now \in 0..MaxTicks /\ written \in 0..MaxWrites /\ expired \in BOOLEAN
  /\ \A i \in Inodes : /\ file[i].blocks \in Seq(1..(Cardinality(Inodes) + written))
                       /\ file[i].size \in 0..MaxBlocks /\ file[i].mtime \in 0..now
  /\ job.left \subseteq Names /\ job.listed \subseteq Names /\ DOMAIN job.first \subseteq Names
  /\ job.open \in Inodes \cup {NoFile}
  /\ job.open # NoFile => job.phase \in {"copy", "backup", "batch", "last"}
  /\ (copy = NoCopy) <=> (job.phase \in {"refused", "idle"})
  /\ View \in seen

Contents(view) == [n \in {m \in Names : Len(view[m].id) = 3} |-> view[n].blocks]

(* Of a view, what a snapshot of this kind copies.                         *)
Part(view) ==
  IF job.kind = "csv" THEN Contents(view) ELSE Only(job.name, view[job.name].blocks)

(* An accepted copy is what the source was at one moment of the snapshot:  *)
(* no file is half old and half new, and no two files are of different     *)
(* times. Three changes escape the identities the code compares: a file    *)
(* moved away and back; for CSV files, a rewriting to the same size within *)
(* one tick of the clock; and, as the subdirectories of a CSV directory    *)
(* are listed one after the other, a file below one that came and went.    *)
(* Subdirectories themselves stay what they are.                           *)
CopyIsOfOneMoment ==
  job.phase = "done" =>
    \/ \E view \in seen : copy = Part(view)
    \/ "returned" \in masked
    \/ job.kind = "csv" /\ masked \cap {"rewritten", "fleeting"} # {}

(* An accepted copy is what the source was when its identities were looked *)
(* at for the second time: a change since the first look is found, in a    *)
(* subdirectory as well, but for the changes CopyIsOfOneMoment names. And  *)
(* it is no larger than the limit, whatever the size was when it was       *)
(* looked at.                                                              *)
CopyIsChecked ==
  job.phase = "done" =>
    /\ copy = Part(checked) \/ masked # {}
    /\ BytesCopied <= job.limit

(* Once the deadline has passed nothing more is read but a single batch of *)
(* a backup, whose progress then refuses the snapshot: it ends as it is,   *)
(* or is refused.                                                          *)
NothingReadLate ==
  [][expired /\ expired' /\ job.phase # "refused" =>
       \/ job'.phase = "refused"
       \/ job.phase = "backup" /\ job'.phase \in {"batch", "last"}
       \/ /\ job'.walk = job.walk /\ job'.listed = job.listed
          /\ copy' = copy /\ job'.open = job.open
          /\ job'.phase = "backup" => job.phase = "backup"]_<<job, copy>>

=============================================================================
