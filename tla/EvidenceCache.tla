--------------------------- MODULE EvidenceCache ---------------------------
(***************************************************************************)
(* The evidence half of the per-user cache (src/joinlint/runtime/cache.py) *)
(* and the lookup that fills it (RuntimeService._evidence in               *)
(* src/joinlint/runtime/service.py).                                       *)
(*                                                                         *)
(* Several server processes share one cache directory. A lookup reads the  *)
(* index pointer of its selector, then the record the pointer names; on a  *)
(* miss it takes the selector's file lock, looks again, and if it still    *)
(* misses verifies the relationship and publishes the record before the    *)
(* pointer. Each file operation is one step, so that lookups, publications,*)
(* removals of damaged files, failures, crashes of a process and power     *)
(* losses interleave.                                                      *)
(***************************************************************************)
EXTENDS Evidence

CONSTANTS
  Servers,          \* server processes that share the cache directory
  Relationships,    \* relationship ids
  Snapshots,        \* snapshot ids: contents of the source
  Declarations,     \* [rel, prov, card]: the seeds that may be looked up
  Measured,         \* [Relationships \X Snapshots -> Measurements]
  NoServer,         \* nobody holds the lock
  NoRecord,         \* no pointer, or no answer
  NoRequest,        \* an idle server's request
  BadPointer,       \* an unreadable pointer file
  MaxDamage,        \* bound: files damaged, read errors and failed steps
  MaxCrashes        \* bound: crashes of a process and power losses

ASSUME CacheConstants ==
  /\ Declarations \subseteq [rel : Relationships, prov : Provenances,
                             card : Cardinalities]
  /\ Measured \in [Relationships \X Snapshots -> Measurements]
  /\ NoServer \notin Servers
  /\ MaxDamage \in Nat /\ MaxCrashes \in Nat

(* One `_evidence(snapshot, catalog, seed)` call.                          *)
Requests == [seed : Declarations, snap : Snapshots]

(* `verify_relationship`: what a verification of the request finds.        *)
Verify(q) ==
  [rel      |-> q.seed.rel,
   snap     |-> q.snap,
   prov     |-> q.seed.prov,
   findings |-> Findings(Measured[<<q.seed.rel, q.snap>>], q.seed.card)]

(* An evidence id is a digest of the record's content: the record itself.  *)
Records == {Verify(q) : q \in Requests}

(* `evidence_selector`: it has no part in the declared cardinality.        *)
Selector(q) == <<q.seed.rel, q.snap, q.seed.prov>>
SelectorOf(r) == <<r.rel, r.snap, r.prov>>

Selectors == {Selector(q) : q \in Requests}

ASSUME CacheMarkers ==
  /\ NoRecord \notin Records /\ BadPointer \notin Records
  /\ NoRecord # BadPointer
  /\ NoRequest \notin Requests

VARIABLES
  evidence,      \* [Records -> FileStates]: the evidence/ directory
  evidenceMay,   \* [Records -> SUBSET FileStates]: what a power loss may leave
  index,         \* [Selectors -> Pointers]: the evidence-index/ directory
  indexMay,      \* [Selectors -> SUBSET Pointers]: what a power loss may leave
  lock,          \* [Selectors -> Servers or NoServer]: flock on locks/
  pc,            \* [Servers -> Phases]
  request,       \* [Servers -> Requests or NoRequest]
  pointed,       \* [Servers -> Records or NoRecord]: the record being read
  answer,        \* [Servers -> Records or NoRecord]
  damage,        \* files damaged, read errors and failures so far
  crashes        \* crashes so far

disk == <<evidence, evidenceMay, index, indexMay>>
vars == <<disk, lock, pc, request, pointed, answer, damage, crashes>>

(* "bad": a symlink, malformed, or holding another record than its name's. *)
FileStates == {"absent", "good", "bad"}
Pointers == Records \cup {NoRecord, BadPointer}
Phases == {"idle", "pointer", "record", "drop_record", "drop_pointer",
           "lock", "verify", "store", "sync", "publish", "done"}

TypeOK ==
  /\ evidence \in [Records -> FileStates]
  /\ evidenceMay \in [Records -> SUBSET FileStates]
  /\ index \in [Selectors -> Pointers]
  /\ indexMay \in [Selectors -> SUBSET Pointers]
  /\ lock \in [Selectors -> Servers \cup {NoServer}]
  /\ pc \in [Servers -> Phases]
  /\ request \in [Servers -> Requests \cup {NoRequest}]
  /\ pointed \in [Servers -> Records \cup {NoRecord}]
  /\ answer \in [Servers -> Records \cup {NoRecord}]
  /\ damage \in 0..MaxDamage
  /\ crashes \in 0..MaxCrashes

Init ==
  /\ evidence = [r \in Records |-> "absent"]
  /\ evidenceMay = [r \in Records |-> {"absent"}]
  /\ index = [s \in Selectors |-> NoRecord]
  /\ indexMay = [s \in Selectors |-> {NoRecord}]
  /\ lock = [s \in Selectors |-> NoServer]
  /\ pc = [p \in Servers |-> "idle"]
  /\ request = [p \in Servers |-> NoRequest]
  /\ pointed = [p \in Servers |-> NoRecord]
  /\ answer = [p \in Servers |-> NoRecord]
  /\ damage = 0
  /\ crashes = 0

(***************************************************************************)
(* Files. A replaced or removed directory entry survives a power loss for  *)
(* sure only once its directory is synced: until then either may be found. *)
(***************************************************************************)
SetEvidence(r, state) ==
  /\ evidence' = [evidence EXCEPT ![r] = state]
  /\ evidenceMay' = [evidenceMay EXCEPT ![r] = @ \cup {state}]

SetIndex(s, value) ==
  /\ index' = [index EXCEPT ![s] = value]
  /\ indexMay' = [indexMay EXCEPT ![s] = @ \cup {value}]

Sel(p) == Selector(request[p])

Holds(p) == lock[Sel(p)] = p

(* A descriptor that leaks keeps its lock. (A deliberate fault.)           *)
LockLeaks(P) == lock

(* Closing the lock files' descriptors that the processes P have.          *)
Released(P) == [s \in Selectors |-> IF lock[s] \in P THEN NoServer ELSE lock[s]]

Goto(p, phase) == pc' = [pc EXCEPT ![p] = phase]

(***************************************************************************)
(* A lookup.                                                               *)
(***************************************************************************)
Ask(p, q) ==
  /\ pc[p] = "idle"
  /\ request' = [request EXCEPT ![p] = q]
  /\ Goto(p, "pointer")
  /\ UNCHANGED <<disk, lock, pointed, answer, damage, crashes>>

(* A hit under the lock that does not close it. (A deliberate fault.)      *)
HitKeepsLock(p, r) ==
  /\ answer' = [answer EXCEPT ![p] = r]
  /\ pointed' = [pointed EXCEPT ![p] = NoRecord]
  /\ Goto(p, "done")
  /\ UNCHANGED lock

(* A hit: `with locked` closes on the way out of a hit found under it.     *)
Hit(p, r) ==
  /\ answer' = [answer EXCEPT ![p] = r]
  /\ pointed' = [pointed EXCEPT ![p] = NoRecord]
  /\ lock' = Released({p})
  /\ Goto(p, "done")

(* A miss: the first goes for the lock, the second verifies.               *)
Miss(p) ==
  /\ pointed' = [pointed EXCEPT ![p] = NoRecord]
  /\ Goto(p, IF Holds(p) THEN "verify" ELSE "lock")
  /\ UNCHANGED <<lock, answer>>

(* Following a pointer without checking it. (A deliberate fault.)          *)
FollowAnyPointer(p) ==
  /\ pc[p] = "pointer"
  /\ \/ index[Sel(p)] = NoRecord /\ Miss(p)
     \/ /\ index[Sel(p)] # NoRecord
        /\ pointed' = [pointed EXCEPT ![p] = index[Sel(p)]]
        /\ Goto(p, "record")
        /\ UNCHANGED <<lock, answer>>
  /\ UNCHANGED <<disk, request, damage, crashes>>

(* `_load_pointer`: a pointer that cannot be read is removed.              *)
LoadPointer(p) ==
  /\ pc[p] = "pointer"
  /\ \/ index[Sel(p)] = NoRecord /\ Miss(p)
     \/ /\ index[Sel(p)] = BadPointer
        /\ Goto(p, "drop_pointer")
        /\ UNCHANGED <<lock, pointed, answer>>
     \/ /\ index[Sel(p)] \in Records
        /\ pointed' = [pointed EXCEPT ![p] = index[Sel(p)]]
        /\ Goto(p, "record")
        /\ UNCHANGED <<lock, answer>>
  /\ UNCHANGED <<disk, request, damage, crashes>>

(* A comparison that forgets the snapshot. (A deliberate fault.)           *)
SameRelationship(r, p) == r.rel = request[p].seed.rel

(* The comparison of a loaded record with what was asked for.              *)
Matches(r, p) == SelectorOf(r) = Sel(p)

(* `load_evidence_for` after the pointer.                                  *)
LoadRecord(p) ==
  /\ pc[p] = "record"
  /\ LET r == pointed[p] IN
     \/ /\ evidence[r] = "good"
        /\ Matches(r, p)
        /\ Hit(p, r)
     \/ /\ \/ evidence[r] = "absent"
           \/ evidence[r] = "good" /\ ~Matches(r, p)
        /\ Goto(p, "drop_pointer")
        /\ UNCHANGED <<lock, pointed, answer>>
     \/ /\ evidence[r] = "bad"
        /\ Goto(p, "drop_record")
        /\ UNCHANGED <<lock, pointed, answer>>
  /\ UNCHANGED <<disk, request, damage, crashes>>

(* `_load` treats any OSError while reading as a bad file.                 *)
ReadError(p) ==
  /\ pc[p] \in {"pointer", "record"}
  /\ \/ pc[p] = "pointer" /\ index[Sel(p)] # NoRecord /\ Goto(p, "drop_pointer")
     \/ /\ pc[p] = "record" /\ evidence[pointed[p]] # "absent"
        /\ Goto(p, "drop_record")
  /\ damage < MaxDamage
  /\ damage' = damage + 1
  /\ UNCHANGED <<disk, lock, request, pointed, answer, crashes>>

(* The removal comes after the read: it may hit a file that another        *)
(* process has replaced in the meantime.                                   *)
DropRecord(p) ==
  /\ pc[p] = "drop_record"
  /\ SetEvidence(pointed[p], "absent")
  /\ Goto(p, "drop_pointer")
  /\ UNCHANGED <<index, indexMay, lock, request, pointed, answer, damage, crashes>>

DropPointer(p) ==
  /\ pc[p] = "drop_pointer"
  /\ SetIndex(Sel(p), NoRecord)
  /\ Miss(p)
  /\ UNCHANGED <<evidence, evidenceMay, request, damage, crashes>>

(* Verifying at once under the lock. (A deliberate fault.)                 *)
AcquireWithoutRecheck(p) ==
  /\ pc[p] = "lock"
  /\ lock[Sel(p)] = NoServer
  /\ lock' = [lock EXCEPT ![Sel(p)] = p]
  /\ Goto(p, "verify")
  /\ UNCHANGED <<disk, request, pointed, answer, damage, crashes>>

(* flock(LOCK_EX), then the second lookup.                                 *)
Acquire(p) ==
  /\ pc[p] = "lock"
  /\ lock[Sel(p)] = NoServer
  /\ lock' = [lock EXCEPT ![Sel(p)] = p]
  /\ Goto(p, "pointer")
  /\ UNCHANGED <<disk, request, pointed, answer, damage, crashes>>

VerifyRelationship(p) ==
  /\ pc[p] = "verify"
  /\ answer' = [answer EXCEPT ![p] = Verify(request[p])]
  /\ Goto(p, "store")
  /\ UNCHANGED <<disk, lock, request, pointed, damage, crashes>>

(* `_store`: replace the record's file, ...                                *)
StoreRecord(p) ==
  /\ pc[p] = "store"
  /\ SetEvidence(answer[p], "good")
  /\ Goto(p, "sync")
  /\ UNCHANGED <<index, indexMay, lock, request, pointed, answer, damage, crashes>>

(* A record whose directory entry is not synced. (A deliberate fault.)     *)
SkipSync(p) ==
  /\ pc[p] = "sync"
  /\ Goto(p, "publish")
  /\ UNCHANGED <<disk, lock, request, pointed, answer, damage, crashes>>

(* ... then sync the directory, which settles all of its entries.          *)
SyncDirectory(p) ==
  /\ pc[p] = "sync"
  /\ evidenceMay' = [r \in Records |-> {evidence[r]}]
  /\ Goto(p, "publish")
  /\ UNCHANGED <<evidence, index, indexMay, lock, request, pointed, answer,
                 damage, crashes>>

(* `_store_pointer`, the end of the locked block.                          *)
StorePointer(p) ==
  /\ pc[p] = "publish"
  /\ SetIndex(Sel(p), answer[p])
  /\ lock' = Released({p})
  /\ Goto(p, "done")
  /\ UNCHANGED <<evidence, evidenceMay, request, pointed, answer, damage, crashes>>

(* The processes P are back at idle, their calls and their locks gone.     *)
Reset(P) ==
  /\ lock' = Released(P)
  /\ pc' = [p \in Servers |-> IF p \in P THEN "idle" ELSE pc[p]]
  /\ request' = [p \in Servers |-> IF p \in P THEN NoRequest ELSE request[p]]
  /\ pointed' = [p \in Servers |-> IF p \in P THEN NoRecord ELSE pointed[p]]
  /\ answer' = [p \in Servers |-> IF p \in P THEN NoRecord ELSE answer[p]]

(* The caller has the record.                                              *)
Return(p) ==
  /\ pc[p] = "done"
  /\ Reset({p})
  /\ UNCHANGED <<disk, damage, crashes>>

(* A step under the lock raises: the exception passes the locked block.    *)
Fail(p) ==
  /\ pc[p] \in {"verify", "store", "sync", "publish"}
  /\ damage < MaxDamage
  /\ damage' = damage + 1
  /\ Reset({p})
  /\ UNCHANGED <<disk, crashes>>

(***************************************************************************)
(* The environment.                                                        *)
(***************************************************************************)
(* A process dies: the kernel closes its descriptors.                      *)
Crash(p) ==
  /\ crashes < MaxCrashes
  /\ crashes' = crashes + 1
  /\ Reset({p})
  /\ UNCHANGED <<disk, damage>>

(* The machine loses power: each entry is one of those it may be.          *)
PowerLoss ==
  /\ crashes < MaxCrashes
  /\ crashes' = crashes + 1
  /\ \E kept \in [Records -> FileStates] :
       /\ \A r \in Records : kept[r] \in evidenceMay[r]
       /\ evidence' = kept
       /\ evidenceMay' = [r \in Records |-> {kept[r]}]
  /\ \E kept \in [Selectors -> Pointers] :
       /\ \A s \in Selectors : kept[s] \in indexMay[s]
       /\ index' = kept
       /\ indexMay' = [s \in Selectors |-> {kept[s]}]
  /\ Reset(Servers)
  /\ UNCHANGED damage

(* A file of the cache is damaged: unreadable, or naming another record.   *)
DamageRecord(r) ==
  /\ evidence[r] = "good"
  /\ damage < MaxDamage
  /\ damage' = damage + 1
  /\ SetEvidence(r, "bad")
  /\ UNCHANGED <<index, indexMay, lock, pc, request, pointed, answer, crashes>>

DamagePointer(s, value) ==
  /\ index[s] \in Records
  /\ value \in Records => SelectorOf(value) # s
  /\ damage < MaxDamage
  /\ damage' = damage + 1
  /\ SetIndex(s, value)
  /\ UNCHANGED <<evidence, evidenceMay, lock, pc, request, pointed, answer, crashes>>

LookupStep(p) ==
  \/ LoadPointer(p)  \/ LoadRecord(p)  \/ DropRecord(p) \/ DropPointer(p)
  \/ Acquire(p)      \/ VerifyRelationship(p)
  \/ StoreRecord(p)  \/ SyncDirectory(p) \/ StorePointer(p)

Next ==
  \/ \E p \in Servers : \/ \E q \in Requests : Ask(p, q)
                        \/ LookupStep(p)
                        \/ Return(p) \/ ReadError(p) \/ Fail(p) \/ Crash(p)
  \/ PowerLoss
  \/ \E r \in Records : DamageRecord(r)
  \/ \E s \in Selectors : \E value \in Pointers \ {NoRecord} :
       DamagePointer(s, value)

Spec == Init /\ [][Next]_vars

(***************************************************************************)
(* Properties.                                                             *)
(***************************************************************************)
(* A pointer that a lookup of its selector would follow to a hit.          *)
Published(s) ==
  /\ index[s] \in Records
  /\ SelectorOf(index[s]) = s
  /\ evidence[index[s]] = "good"

(* A lookup answers what verifying the requested relationship, as it is    *)
(* declared now, on the requested snapshot would find, whatever was in the *)
(* cache, was damaged or was lost: _evidence never serves a wrong record.  *)
AnswersAreVerified ==
  \A p \in Servers : pc[p] = "done" => answer[p] = Verify(request[p])

(* Nobody verifies or stores what is already published: the second lookup  *)
(* under the lock in _evidence sees what the lock's last holder published, *)
(* and no other process can publish in the meantime.                       *)
VerifiesOnlyUnpublished ==
  \A p \in Servers : pc[p] \in {"verify", "store"} => ~Published(Sel(p))

(* As long as nothing was damaged a pointer leads to a readable record,    *)
(* through crashes and power losses: store_evidence makes the record       *)
(* durable before it publishes the pointer.                                *)
NoDanglingPointer ==
  damage = 0 =>
    \A s \in Selectors : index[s] \in Records => evidence[index[s]] = "good"

(* The locked block of _evidence runs under the lock of its selector, and  *)
(* a lock is held only by a process inside that block: neither an early    *)
(* return, nor an exception, nor a crash leaves one behind.                *)
LocksMatchWork ==
  /\ \A p \in Servers :
       pc[p] \in {"verify", "store", "sync", "publish"} => Holds(p)
  /\ \A s \in Selectors : lock[s] # NoServer =>
       /\ pc[lock[s]] \notin {"idle", "lock", "done"}
       /\ Sel(lock[s]) = s

(* The cache is invisible: see EvidenceOracle.                             *)
Oracle == INSTANCE EvidenceOracle WITH
  Verified <- [q \in Requests |-> Verify(q)],
  asked  <- request,
  answer <- [p \in Servers |-> IF pc[p] = "done" THEN answer[p] ELSE NoRecord]

(* Every behaviour of the cache is one of the oracle that just verifies.   *)
CacheIsTransparent == Oracle!Spec

=============================================================================
