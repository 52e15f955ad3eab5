------------------------ MODULE EvidenceCacheProofs ------------------------
(***************************************************************************)
(* Proofs about EvidenceCache, for any servers, relationships, snapshots,  *)
(* declarations and measurements, and any number of failures and crashes.  *)
(***************************************************************************)
EXTENDS EvidenceCache, TLAPS

(***************************************************************************)
(* Records and selectors.                                                  *)
(***************************************************************************)
(* A verified record carries the selector of its request.                  *)
LEMMA VerifyFacts ==
  ASSUME NEW q \in Requests
  PROVE  /\ Verify(q) \in Records
         /\ Selector(q) \in Selectors
         /\ SelectorOf(Verify(q)) = Selector(q)
  BY DEF Records, Selectors, Verify, Selector, SelectorOf

(* Every record has a selector of the index.                               *)
LEMMA RecordFacts ==
  ASSUME NEW r \in Records
  PROVE  SelectorOf(r) \in Selectors
  BY VerifyFacts DEF Records

(* The markers are told apart from what they stand beside.                 *)
LEMMA Markers ==
  /\ NoRecord \notin Records
  /\ NoRequest \notin Requests
  /\ NoServer \notin Servers
  BY CacheConstants, CacheMarkers

(***************************************************************************)
(* Type correctness.                                                       *)
(***************************************************************************)
(* What a process knows in each of its phases.                             *)
PhaseInv ==
  \A p \in Servers :
    /\ pc[p] = "idle" <=> request[p] = NoRequest
    /\ pc[p] \in {"record", "drop_record"} => pointed[p] \in Records
    /\ pc[p] \in {"store", "sync", "publish"} => answer[p] = Verify(request[p])
    /\ pc[p] = "done" => answer[p] \in Records

TypeInv == TypeOK /\ PhaseInv

LEMMA InitType == Init => TypeInv
  BY CacheConstants, CacheMarkers DEF Init, TypeInv, TypeOK, PhaseInv, FileStates, Pointers, Phases

LEMMA ActiveFacts ==
  ASSUME TypeInv, NEW p \in Servers, pc[p] # "idle"
  PROVE  request[p] \in Requests /\ Sel(p) \in Selectors
  BY VerifyFacts DEF TypeInv, TypeOK, PhaseInv, Sel

LEMMA ResetType ==
  ASSUME TypeInv, NEW P \in SUBSET Servers, Reset(P)
  PROVE  /\ lock' \in [Selectors -> Servers \cup {NoServer}]
         /\ pc' \in [Servers -> Phases]
         /\ request' \in [Servers -> Requests \cup {NoRequest}]
         /\ pointed' \in [Servers -> Records \cup {NoRecord}]
         /\ answer' \in [Servers -> Records \cup {NoRecord}]
         /\ PhaseInv'
  BY Markers DEF TypeInv, TypeOK, PhaseInv, Reset, Released, Phases

LEMMA NextType == TypeInv /\ [Next]_vars => TypeInv'
<1> SUFFICES ASSUME TypeInv, [Next]_vars PROVE TypeInv'
  OBVIOUS
<1> USE Markers
<1>1. ASSUME NEW p \in Servers, NEW q \in Requests, Ask(p, q)
      PROVE  TypeInv'
  BY <1>1 DEF Ask, Goto, disk, TypeInv, TypeOK, PhaseInv, Phases
<1>2. ASSUME NEW p \in Servers, LoadPointer(p) PROVE TypeInv'
  BY <1>2, ActiveFacts DEF LoadPointer, Miss, Goto, disk, TypeInv, TypeOK, PhaseInv, Phases
<1>3. ASSUME NEW p \in Servers, LoadRecord(p) PROVE TypeInv'
  BY <1>3, ActiveFacts
  DEF LoadRecord, Hit, Released, Goto, disk, TypeInv, TypeOK, PhaseInv, Phases
<1>4. ASSUME NEW p \in Servers, DropRecord(p) PROVE TypeInv'
  BY <1>4, ActiveFacts
  DEF DropRecord, SetEvidence, FileStates, Goto, TypeInv, TypeOK, PhaseInv, Phases
<1>5. ASSUME NEW p \in Servers, DropPointer(p) PROVE TypeInv'
  BY <1>5, ActiveFacts
  DEF DropPointer, SetIndex, Miss, Pointers, Goto, TypeInv, TypeOK, PhaseInv, Phases
<1>6. ASSUME NEW p \in Servers, Acquire(p) PROVE TypeInv'
  BY <1>6, ActiveFacts DEF Acquire, Goto, disk, TypeInv, TypeOK, PhaseInv, Phases
<1>7. ASSUME NEW p \in Servers, VerifyRelationship(p) PROVE TypeInv'
  BY <1>7, ActiveFacts, VerifyFacts
  DEF VerifyRelationship, Goto, disk, TypeInv, TypeOK, PhaseInv, Phases
<1>8. ASSUME NEW p \in Servers, StoreRecord(p) PROVE TypeInv'
  BY <1>8, ActiveFacts, VerifyFacts
  DEF StoreRecord, SetEvidence, FileStates, Goto, TypeInv, TypeOK, PhaseInv, Phases
<1>9. ASSUME NEW p \in Servers, SyncDirectory(p) PROVE TypeInv'
  BY <1>9, ActiveFacts
  DEF SyncDirectory, Goto, TypeInv, TypeOK, PhaseInv, Phases
<1>10. ASSUME NEW p \in Servers, StorePointer(p) PROVE TypeInv'
  BY <1>10, ActiveFacts, VerifyFacts
  DEF StorePointer, SetIndex, Released, Pointers, Goto, TypeInv, TypeOK, PhaseInv, Phases
<1>11. ASSUME NEW p \in Servers, Return(p) PROVE TypeInv'
  BY <1>11, ResetType DEF Return, disk, TypeInv, TypeOK
<1>12. ASSUME NEW p \in Servers, ReadError(p) PROVE TypeInv'
  BY <1>12, CacheConstants
  DEF ReadError, Goto, disk, TypeInv, TypeOK, PhaseInv, Phases
<1>13. ASSUME NEW p \in Servers, Fail(p) PROVE TypeInv'
  BY <1>13, ResetType, CacheConstants DEF Fail, disk, TypeInv, TypeOK
<1>14. ASSUME NEW p \in Servers, Crash(p) PROVE TypeInv'
  BY <1>14, ResetType, CacheConstants DEF Crash, disk, TypeInv, TypeOK
<1>15. ASSUME PowerLoss PROVE TypeInv'
  BY <1>15, ResetType, CacheConstants DEF PowerLoss, TypeInv, TypeOK
<1>16. ASSUME NEW r \in Records, DamageRecord(r) PROVE TypeInv'
  BY <1>16, CacheConstants
  DEF DamageRecord, SetEvidence, FileStates, TypeInv, TypeOK, PhaseInv
<1>17. ASSUME NEW s \in Selectors, NEW value \in Pointers \ {NoRecord},
              DamagePointer(s, value)
       PROVE  TypeInv'
  BY <1>17, CacheConstants DEF DamagePointer, SetIndex, TypeInv, TypeOK, PhaseInv
<1>18. ASSUME UNCHANGED vars PROVE TypeInv'
  BY <1>18 DEF vars, disk, TypeInv, TypeOK, PhaseInv
<1> QED
  BY <1>1, <1>2, <1>3, <1>4, <1>5, <1>6, <1>7, <1>8, <1>9, <1>10, <1>11, <1>12,
     <1>13, <1>14, <1>15, <1>16, <1>17, <1>18
  DEF Next, LookupStep

(* The invariant that the other proofs start from.                         *)
LEMMA TypeInvariant == Spec => []TypeInv
  BY InitType, NextType, PTL DEF Spec

(* Every variable keeps its type: the cache holds only records that some   *)
(* verification produced, and every lookup is in a phase of _evidence.     *)
THEOREM TypeCorrect == Spec => []TypeOK
<1>1. TypeInv => TypeOK
  BY DEF TypeInv
<1> QED
  BY <1>1, TypeInvariant, PTL

(***************************************************************************)
(* Locks.                                                                  *)
(***************************************************************************)
LEMMA ResetLocks ==
  ASSUME TypeInv, LocksMatchWork, NEW P \in SUBSET Servers, Reset(P)
  PROVE  LocksMatchWork'
<1> USE Markers
<1>1. ASSUME NEW p \in Servers, pc'[p] \in {"verify", "store", "sync", "publish"}
      PROVE  Holds(p)'
  <2>1. p \notin P /\ pc'[p] = pc[p] /\ request'[p] = request[p]
    BY <1>1 DEF Reset, TypeInv, TypeOK
  <2> QED
    BY <1>1, <2>1, ActiveFacts DEF Reset, Released, Holds, Sel, LocksMatchWork
<1>2. ASSUME NEW s \in Selectors, lock'[s] # NoServer
      PROVE  /\ pc'[lock'[s]] \notin {"idle", "lock", "done"}
             /\ Sel(lock[s])' = s
  <2>1. lock'[s] = lock[s] /\ lock[s] \notin P /\ lock[s] \in Servers
    BY <1>2 DEF Reset, Released, TypeInv, TypeOK
  <2>2. pc'[lock[s]] = pc[lock[s]] /\ request'[lock[s]] = request[lock[s]]
    BY <2>1 DEF Reset
  <2> QED
    BY <1>2, <2>1, <2>2 DEF Sel, LocksMatchWork
<1> QED
  BY <1>1, <1>2 DEF LocksMatchWork

LEMMA NextLocks == TypeInv /\ LocksMatchWork /\ [Next]_vars => LocksMatchWork'
<1> SUFFICES ASSUME TypeInv, LocksMatchWork, [Next]_vars PROVE LocksMatchWork'
  OBVIOUS
<1> USE Markers DEF TypeInv, TypeOK, LocksMatchWork, Holds, Sel, Goto
<1>1. ASSUME NEW p \in Servers, NEW q \in Requests, Ask(p, q)
      PROVE  LocksMatchWork'
  BY <1>1 DEF Ask
<1>2. ASSUME NEW p \in Servers, LoadPointer(p) PROVE LocksMatchWork'
  BY <1>2, ActiveFacts DEF LoadPointer, Miss
<1>3. ASSUME NEW p \in Servers, LoadRecord(p) PROVE LocksMatchWork'
  BY <1>3, ActiveFacts DEF LoadRecord, Hit, Released
<1>4. ASSUME NEW p \in Servers, DropRecord(p) PROVE LocksMatchWork'
  BY <1>4, ActiveFacts DEF DropRecord
<1>5. ASSUME NEW p \in Servers, DropPointer(p) PROVE LocksMatchWork'
  BY <1>5, ActiveFacts DEF DropPointer, Miss
<1>6. ASSUME NEW p \in Servers, Acquire(p) PROVE LocksMatchWork'
  BY <1>6, ActiveFacts DEF Acquire
<1>7. ASSUME NEW p \in Servers, VerifyRelationship(p) PROVE LocksMatchWork'
  BY <1>7, ActiveFacts DEF VerifyRelationship
<1>8. ASSUME NEW p \in Servers, StoreRecord(p) PROVE LocksMatchWork'
  BY <1>8, ActiveFacts DEF StoreRecord
<1>9. ASSUME NEW p \in Servers, SyncDirectory(p) PROVE LocksMatchWork'
  BY <1>9, ActiveFacts DEF SyncDirectory
<1>10. ASSUME NEW p \in Servers, StorePointer(p) PROVE LocksMatchWork'
  BY <1>10, ActiveFacts DEF StorePointer, Released
<1>11. ASSUME NEW p \in Servers, Return(p) \/ Fail(p) \/ Crash(p)
       PROVE  LocksMatchWork'
  BY <1>11, ResetLocks DEF Return, Fail, Crash
<1>12. ASSUME NEW p \in Servers, ReadError(p) PROVE LocksMatchWork'
  BY <1>12, ActiveFacts DEF ReadError
<1>13. ASSUME PowerLoss PROVE LocksMatchWork'
  BY <1>13, ResetLocks DEF PowerLoss
<1>14. ASSUME UNCHANGED <<lock, pc, request>> PROVE LocksMatchWork'
  BY <1>14
<1> QED
  BY <1>1, <1>2, <1>3, <1>4, <1>5, <1>6, <1>7, <1>8, <1>9, <1>10, <1>11, <1>12,
     <1>13, <1>14
  DEF Next, LookupStep, DamageRecord, DamagePointer, vars

(* The locked block of _evidence runs under its lock, and no return,       *)
(* exception or crash leaves a lock behind.                                *)
THEOREM LocksCorrect == Spec => []LocksMatchWork
<1>1. Init => LocksMatchWork
  BY Markers DEF Init, LocksMatchWork, Selectors
<1> QED
  BY <1>1, NextLocks, TypeInvariant, PTL DEF Spec

(***************************************************************************)
(* Single verification.                                                    *)
(***************************************************************************)
(* Two processes inside locked blocks work for different selectors.        *)
LEMMA DifferentSelectors ==
  ASSUME TypeInv, LocksMatchWork, NEW p \in Servers, NEW q \in Servers, p # q,
         pc[p] \in {"verify", "store", "sync", "publish"},
         pc[q] \in {"verify", "store", "sync", "publish"}
  PROVE  Sel(p) # Sel(q)
  BY DEF LocksMatchWork, Holds

LEMMA NextUnpublished ==
  TypeInv /\ LocksMatchWork /\ VerifiesOnlyUnpublished /\ [Next]_vars
    => VerifiesOnlyUnpublished'
<1> SUFFICES ASSUME TypeInv, LocksMatchWork, VerifiesOnlyUnpublished, [Next]_vars,
                    NEW p \in Servers, pc'[p] \in {"verify", "store"}
             PROVE  ~(Published(Sel(p)))'
  BY DEF VerifiesOnlyUnpublished
<1> USE Markers DEF Goto
<1> DEFINE Same == index' = index /\ evidence' = evidence
<1>1. ASSUME Same, pc[p] \in {"verify", "store"}, request'[p] = request[p]
      PROVE  ~(Published(Sel(p)))'
  BY <1>1 DEF VerifiesOnlyUnpublished, Published, Sel
<1>2. ASSUME NEW q \in Servers, NEW r \in Requests, Ask(q, r)
      PROVE  ~(Published(Sel(p)))'
  BY <1>1, <1>2 DEF Ask, disk, TypeInv, TypeOK
<1>3. ASSUME NEW q \in Servers, LoadPointer(q) PROVE ~(Published(Sel(p)))'
  <2>1. CASE p = q
    BY <1>3, <2>1 DEF LoadPointer, Miss, disk, Published, Sel, TypeInv, TypeOK
  <2>2. CASE p # q
    BY <1>1, <1>3, <2>2 DEF LoadPointer, Miss, disk, TypeInv, TypeOK
  <2> QED
    BY <2>1, <2>2
<1>4. ASSUME NEW q \in Servers, LoadRecord(q) PROVE ~(Published(Sel(p)))'
  BY <1>1, <1>4 DEF LoadRecord, Hit, disk, TypeInv, TypeOK
<1>5. ASSUME NEW q \in Servers, DropRecord(q) PROVE ~(Published(Sel(p)))'
  <2>1. pc[p] \in {"verify", "store"} /\ request'[p] = request[p] /\ index' = index
    BY <1>5 DEF DropRecord, TypeInv, TypeOK
  <2>2. \A r \in Records : evidence'[r] = "good" => evidence[r] = "good"
    BY <1>5 DEF DropRecord, SetEvidence, TypeInv, TypeOK
  <2> QED
    BY <2>1, <2>2 DEF VerifiesOnlyUnpublished, Published, Sel
<1>6. ASSUME NEW q \in Servers, DropPointer(q) PROVE ~(Published(Sel(p)))'
  <2>1. index'[Sel(q)] = NoRecord /\ evidence' = evidence /\ request' = request
    BY <1>6, ActiveFacts DEF DropPointer, SetIndex, TypeInv, TypeOK
  <2>2. CASE Sel(p) = Sel(q)
    BY <2>1, <2>2 DEF Published, Sel
  <2>3. CASE Sel(p) # Sel(q)
    <3>1. pc[p] \in {"verify", "store"}
      BY <1>6, <2>3 DEF DropPointer, Miss, TypeInv, TypeOK
    <3>2. index'[Sel(p)] = index[Sel(p)]
      BY <1>6, <2>3, <3>1, ActiveFacts DEF DropPointer, SetIndex, TypeInv, TypeOK
    <3> QED
      BY <2>1, <3>1, <3>2 DEF VerifiesOnlyUnpublished, Published, Sel
  <2> QED
    BY <2>2, <2>3
<1>7. ASSUME NEW q \in Servers, Acquire(q) PROVE ~(Published(Sel(p)))'
  BY <1>1, <1>7 DEF Acquire, disk, TypeInv, TypeOK
<1>8. ASSUME NEW q \in Servers, VerifyRelationship(q) PROVE ~(Published(Sel(p)))'
  BY <1>1, <1>8 DEF VerifyRelationship, disk, TypeInv, TypeOK
<1>9. ASSUME NEW q \in Servers, StoreRecord(q) PROVE ~(Published(Sel(p)))'
  <2>1. p # q /\ pc[p] \in {"verify", "store"} /\ request' = request /\ index' = index
    BY <1>9 DEF StoreRecord, TypeInv, TypeOK
  <2>2. Sel(p) # Sel(q)
    BY <1>9, <2>1, DifferentSelectors DEF StoreRecord
  <2>3. SelectorOf(answer[q]) = Sel(q)
    BY <1>9, ActiveFacts, VerifyFacts DEF StoreRecord, TypeInv, PhaseInv, Sel
  <2>4. \A r \in Records : r # answer[q] => evidence'[r] = evidence[r]
    BY <1>9 DEF StoreRecord, SetEvidence, TypeInv, TypeOK
  <2> QED
    BY <2>1, <2>2, <2>3, <2>4 DEF VerifiesOnlyUnpublished, Published, Sel
<1>10. ASSUME NEW q \in Servers, SyncDirectory(q) PROVE ~(Published(Sel(p)))'
  BY <1>1, <1>10 DEF SyncDirectory, TypeInv, TypeOK
<1>11. ASSUME NEW q \in Servers, StorePointer(q) PROVE ~(Published(Sel(p)))'
  <2>1. p # q /\ pc[p] \in {"verify", "store"} /\ request' = request
        /\ evidence' = evidence
    BY <1>11 DEF StorePointer, TypeInv, TypeOK
  <2>2. Sel(p) # Sel(q)
    BY <1>11, <2>1, DifferentSelectors DEF StorePointer
  <2>3. index'[Sel(p)] = index[Sel(p)]
    BY <1>11, <2>1, <2>2, ActiveFacts DEF StorePointer, SetIndex, TypeInv, TypeOK
  <2> QED
    BY <2>1, <2>3 DEF VerifiesOnlyUnpublished, Published, Sel
<1>12. ASSUME NEW q \in Servers, Return(q) \/ Fail(q) \/ Crash(q)
       PROVE  ~(Published(Sel(p)))'
  BY <1>1, <1>12 DEF Return, Fail, Crash, Reset, disk, TypeInv, TypeOK
<1>13. ASSUME NEW q \in Servers, ReadError(q) PROVE ~(Published(Sel(p)))'
  BY <1>1, <1>13 DEF ReadError, disk, TypeInv, TypeOK
<1>14. ASSUME PowerLoss PROVE ~(Published(Sel(p)))'
  BY <1>14 DEF PowerLoss, Reset
<1>15. ASSUME NEW r \in Records, DamageRecord(r) PROVE ~(Published(Sel(p)))'
  <2>1. \A x \in Records : evidence'[x] = "good" => evidence[x] = "good"
    BY <1>15 DEF DamageRecord, SetEvidence, TypeInv, TypeOK
  <2> QED
    BY <1>15, <2>1 DEF DamageRecord, VerifiesOnlyUnpublished, Published, Sel
<1>16. ASSUME NEW s \in Selectors, NEW value \in Pointers \ {NoRecord},
              DamagePointer(s, value)
       PROVE  ~(Published(Sel(p)))'
  <2>1. index' = [index EXCEPT ![s] = value] /\ (value \in Records => SelectorOf(value) # s)
    BY <1>16 DEF DamagePointer, SetIndex
  <2>2. evidence' = evidence /\ request' = request /\ pc' = pc
    BY <1>16 DEF DamagePointer
  <2> QED
    BY <2>1, <2>2, ActiveFacts DEF VerifiesOnlyUnpublished, Published, Sel, TypeInv, TypeOK
<1>17. ASSUME UNCHANGED vars PROVE ~(Published(Sel(p)))'
  BY <1>1, <1>17 DEF vars, disk
<1> QED
  BY <1>2, <1>3, <1>4, <1>5, <1>6, <1>7, <1>8, <1>9, <1>10, <1>11, <1>12, <1>13,
     <1>14, <1>15, <1>16, <1>17
  DEF Next, LookupStep

(* Under the lock, and after the second lookup, nobody verifies or stores  *)
(* what another process has published already.                             *)
THEOREM SingleVerification == Spec => []VerifiesOnlyUnpublished
<1>1. Init => VerifiesOnlyUnpublished
  BY DEF Init, VerifiesOnlyUnpublished
<1> QED
  BY <1>1, NextUnpublished, TypeInvariant, LocksCorrect, PTL DEF Spec

(***************************************************************************)
(* Durability.                                                             *)
(***************************************************************************)
(* The files that a power loss may bring back include the present ones.    *)
MayInv ==
  /\ \A r \in Records : evidence[r] \in evidenceMay[r]
  /\ \A s \in Selectors : index[s] \in indexMay[s]

(* A record no power loss can take away.                                   *)
Durable(r) == evidenceMay[r] = {"good"}

(* While nothing was damaged: whatever pointer a power loss may bring back *)
(* leads to a durable record of its selector, a reader follows only such   *)
(* pointers, and a record is durable when its pointer is about to be set.  *)
DurableInv ==
  damage = 0 =>
    /\ \A r \in Records : evidenceMay[r] \subseteq {"absent", "good"}
    /\ \A s \in Selectors : \A v \in indexMay[s] :
         v = NoRecord \/ (v \in Records /\ SelectorOf(v) = s /\ Durable(v))
    /\ \A p \in Servers :
         /\ pc[p] \notin {"drop_record", "drop_pointer"}
         /\ pc[p] = "record" =>
              Durable(pointed[p]) /\ SelectorOf(pointed[p]) = Sel(p)
         /\ pc[p] = "sync" => evidence[answer[p]] = "good"
         /\ pc[p] = "publish" => Durable(answer[p])

DiskInv == MayInv /\ DurableInv

LEMMA NextMay == TypeInv /\ MayInv /\ [Next]_vars => MayInv'
<1> SUFFICES ASSUME TypeInv, MayInv, [Next]_vars PROVE MayInv'
  OBVIOUS
<1> USE DEF TypeInv, TypeOK, MayInv
<1>1. ASSUME NEW r \in Records, NEW state \in FileStates, SetEvidence(r, state),
             UNCHANGED <<index, indexMay>>
      PROVE  MayInv'
  BY <1>1 DEF SetEvidence
<1>2. ASSUME NEW s \in Selectors, NEW value \in Pointers, SetIndex(s, value),
             UNCHANGED <<evidence, evidenceMay>>
      PROVE  MayInv'
  BY <1>2 DEF SetIndex
<1>3. ASSUME UNCHANGED disk PROVE MayInv'
  BY <1>3 DEF disk
<1>4. ASSUME NEW p \in Servers, DropRecord(p) PROVE MayInv'
  BY <1>1, <1>4 DEF DropRecord, PhaseInv, FileStates
<1>5. ASSUME NEW p \in Servers, DropPointer(p) PROVE MayInv'
  BY <1>2, <1>5, ActiveFacts DEF DropPointer, Pointers
<1>6. ASSUME NEW p \in Servers, StoreRecord(p) PROVE MayInv'
  BY <1>1, <1>6, ActiveFacts, VerifyFacts DEF StoreRecord, PhaseInv, FileStates
<1>7. ASSUME NEW p \in Servers, SyncDirectory(p) PROVE MayInv'
  BY <1>7 DEF SyncDirectory
<1>8. ASSUME NEW p \in Servers, StorePointer(p) PROVE MayInv'
  BY <1>2, <1>8, ActiveFacts, VerifyFacts DEF StorePointer, PhaseInv, Pointers
<1>9. ASSUME PowerLoss PROVE MayInv'
  BY <1>9 DEF PowerLoss
<1>10. ASSUME NEW r \in Records, DamageRecord(r) PROVE MayInv'
  BY <1>1, <1>10 DEF DamageRecord, FileStates
<1>11. ASSUME NEW s \in Selectors, NEW value \in Pointers \ {NoRecord},
              DamagePointer(s, value)
       PROVE  MayInv'
  BY <1>2, <1>11 DEF DamagePointer
<1> QED
  BY <1>3, <1>4, <1>5, <1>6, <1>7, <1>8, <1>9, <1>10, <1>11
  DEF Next, LookupStep, Ask, LoadPointer, LoadRecord, Acquire, VerifyRelationship,
      Return, ReadError, Fail, Crash, vars, disk

LEMMA NextDurable ==
  TypeInv /\ MayInv /\ DurableInv /\ [Next]_vars => DurableInv'
<1> SUFFICES ASSUME TypeInv, MayInv, DurableInv, [Next]_vars, damage' = 0
             PROVE  DurableInv'
  BY DEF DurableInv
<1> USE Markers DEF Goto
<1>1. damage = 0 \/ damage' = damage + 1
  BY DEF Next, LookupStep, Ask, LoadPointer, LoadRecord, DropRecord, DropPointer,
         Acquire, VerifyRelationship, StoreRecord, SyncDirectory, StorePointer,
         Return, ReadError, Fail, Crash, PowerLoss, DamageRecord, DamagePointer, vars
<1>2. damage = 0
  BY <1>1, CacheConstants DEF TypeInv, TypeOK
<1>3. ASSUME NEW p \in Servers, NEW q \in Requests, Ask(p, q) PROVE DurableInv'
  BY <1>2, <1>3 DEF Ask, disk, DurableInv, Durable, Sel, TypeInv, TypeOK
<1>4. ASSUME NEW p \in Servers, LoadPointer(p) PROVE DurableInv'
  <2>1. Sel(p) \in Selectors
    BY <1>4, ActiveFacts DEF LoadPointer
  <2>2. index[Sel(p)] # BadPointer
    BY <1>2, <2>1, CacheMarkers DEF DurableInv, MayInv
  <2> QED
    BY <1>2, <1>4, <2>1, <2>2
    DEF LoadPointer, Miss, disk, DurableInv, MayInv, Durable, Sel, TypeInv, TypeOK
<1>5. ASSUME NEW p \in Servers, LoadRecord(p) PROVE DurableInv'
  <2>1. pointed[p] \in Records
    BY <1>5 DEF LoadRecord, TypeInv, PhaseInv
  <2>2. evidence[pointed[p]] = "good" /\ Matches(pointed[p], p)
    BY <1>2, <1>5, <2>1 DEF LoadRecord, DurableInv, MayInv, Durable, Matches
  <2> QED
    BY <1>2, <1>5, <2>2
    DEF LoadRecord, Hit, disk, DurableInv, Durable, Sel, TypeInv, TypeOK
<1>6. ASSUME NEW p \in Servers, Acquire(p) \/ VerifyRelationship(p) PROVE DurableInv'
  BY <1>2, <1>6
  DEF Acquire, VerifyRelationship, disk, DurableInv, Durable, Sel, TypeInv, TypeOK
<1>7. ASSUME NEW p \in Servers, StoreRecord(p) PROVE DurableInv'
  <2>1. answer[p] \in Records
    BY <1>7, ActiveFacts, VerifyFacts DEF StoreRecord, TypeInv, PhaseInv
  <2>2. /\ evidence'[answer[p]] = "good"
        /\ \A r \in Records : evidence[r] = "good" => evidence'[r] = "good"
        /\ \A r \in Records : Durable(r) => Durable(r)'
        /\ \A r \in Records : evidenceMay'[r] \subseteq {"absent", "good"}
    BY <1>2, <1>7, <2>1 DEF StoreRecord, SetEvidence, DurableInv, Durable, TypeInv, TypeOK
  <2>3. \A q \in Servers : /\ pc[q] = "publish" => answer[q] \in Records
                           /\ pc[q] = "sync" => answer[q] \in Records
    BY ActiveFacts, VerifyFacts DEF TypeInv, PhaseInv
  <2> QED
    BY <1>2, <1>7, <2>2, <2>3
    DEF StoreRecord, DurableInv, Sel, TypeInv, TypeOK, PhaseInv
<1>8. ASSUME NEW p \in Servers, SyncDirectory(p) PROVE DurableInv'
  <2>1. answer[p] \in Records
    BY <1>8, ActiveFacts, VerifyFacts DEF SyncDirectory, TypeInv, PhaseInv
  <2>2. /\ \A r \in Records : Durable(r) => Durable(r)'
        /\ \A r \in Records : evidenceMay'[r] \subseteq {"absent", "good"}
        /\ (Durable(answer[p]))'
    BY <1>2, <1>8, <2>1 DEF SyncDirectory, DurableInv, MayInv, Durable, TypeInv, TypeOK
  <2>3. \A q \in Servers : pc[q] = "publish" => answer[q] \in Records
    BY ActiveFacts, VerifyFacts DEF TypeInv, PhaseInv
  <2> QED
    BY <1>2, <1>8, <2>2, <2>3
    DEF SyncDirectory, DurableInv, Sel, TypeInv, TypeOK, PhaseInv
<1>9. ASSUME NEW p \in Servers, StorePointer(p) PROVE DurableInv'
  <2>1. answer[p] \in Records /\ SelectorOf(answer[p]) = Sel(p) /\ Sel(p) \in Selectors
    BY <1>9, ActiveFacts, VerifyFacts DEF StorePointer, TypeInv, PhaseInv, Sel
  <2>2. \A s \in Selectors : indexMay'[s] \subseteq
          indexMay[s] \cup (IF s = Sel(p) THEN {answer[p]} ELSE {})
    BY <1>9, <2>1 DEF StorePointer, SetIndex, TypeInv, TypeOK
  <2> QED
    BY <1>2, <1>9, <2>1, <2>2 DEF StorePointer, DurableInv, Durable, Sel, TypeInv, TypeOK
<1>10. ASSUME NEW p \in Servers, Return(p) \/ Crash(p) PROVE DurableInv'
  BY <1>2, <1>10 DEF Return, Crash, Reset, disk, DurableInv, Durable, Sel, TypeInv, TypeOK
<1>11. ASSUME PowerLoss PROVE DurableInv'
  <2>1. /\ \A r \in Records : Durable(r) => Durable(r)'
        /\ \A r \in Records : evidenceMay'[r] \subseteq evidenceMay[r]
        /\ \A s \in Selectors : indexMay'[s] \subseteq indexMay[s]
    BY <1>11 DEF PowerLoss, Durable, TypeInv, TypeOK
  <2> QED
    BY <1>2, <1>11, <2>1 DEF PowerLoss, Reset, DurableInv
<1>12. ASSUME UNCHANGED vars PROVE DurableInv'
  BY <1>12 DEF vars, disk, DurableInv, Durable, Sel
<1>13. ASSUME NEW p \in Servers, DropRecord(p) \/ DropPointer(p) PROVE DurableInv'
  BY <1>2, <1>13 DEF DropRecord, DropPointer, DurableInv
<1> QED
  BY <1>2, <1>3, <1>4, <1>5, <1>6, <1>7, <1>8, <1>9, <1>10, <1>11, <1>12, <1>13
  DEF Next, LookupStep, ReadError, Fail, DamageRecord, DamagePointer

(* Without damage, no crash or power loss leaves a pointer whose record is *)
(* missing or unreadable: records are durable before they are pointed to.  *)
THEOREM PointersLead == Spec => []NoDanglingPointer
<1>1. Init => MayInv /\ DurableInv
  BY Markers DEF Init, MayInv, DurableInv, Durable
<1>2. TypeInv /\ MayInv /\ DurableInv => NoDanglingPointer
  BY Markers DEF MayInv, DurableInv, Durable, NoDanglingPointer, TypeInv, TypeOK
<1> QED
  BY <1>1, <1>2, NextMay, NextDurable, TypeInvariant, PTL DEF Spec

(***************************************************************************)
(* Answers. A selector leaves out the declared cardinality, so the answer  *)
(* is the requested one only where that is decided by the rest of it.      *)
(***************************************************************************)
SelectorDecides ==
  \A d, e \in Declarations : d.rel = e.rel /\ d.prov = e.prov => d = e

LEMMA SelectorDecidesVerify ==
  ASSUME SelectorDecides, NEW q \in Requests, NEW r \in Records,
         SelectorOf(r) = Selector(q)
  PROVE  r = Verify(q)
<1>1. PICK x \in Requests : r = Verify(x)
  BY DEF Records
<1>2. Selector(x) = Selector(q)
  BY <1>1, VerifyFacts
<1>3. x.seed = q.seed /\ x.snap = q.snap
  BY <1>2 DEF Selector, SelectorDecides, Requests
<1>4. x = q
  BY <1>3 DEF Requests
<1> QED
  BY <1>1, <1>4

LEMMA NextAnswers ==
  ASSUME SelectorDecides
  PROVE  TypeInv /\ AnswersAreVerified /\ [Next]_vars => AnswersAreVerified'
<1> SUFFICES ASSUME TypeInv, AnswersAreVerified, [Next]_vars
             PROVE  AnswersAreVerified'
  OBVIOUS
<1> USE DEF TypeInv, TypeOK, AnswersAreVerified, Goto
<1>1. ASSUME NEW p \in Servers, LoadRecord(p) PROVE AnswersAreVerified'
  <2>1. request[p] \in Requests /\ pointed[p] \in Records
    BY <1>1, ActiveFacts DEF LoadRecord, PhaseInv
  <2>2. SelectorOf(pointed[p]) = Sel(p) => pointed[p] = Verify(request[p])
    BY <2>1, SelectorDecidesVerify DEF Sel
  <2> QED
    BY <1>1, <2>2 DEF LoadRecord, Hit, Matches
<1>2. ASSUME NEW p \in Servers, StorePointer(p) PROVE AnswersAreVerified'
  BY <1>2 DEF StorePointer, PhaseInv
<1>3. ASSUME NEW p \in Servers, NEW q \in Requests, Ask(p, q)
      PROVE  AnswersAreVerified'
  BY <1>3 DEF Ask
<1>4. ASSUME NEW p \in Servers, LoadPointer(p) \/ DropPointer(p)
      PROVE  AnswersAreVerified'
  BY <1>4 DEF LoadPointer, DropPointer, Miss
<1>5. ASSUME NEW p \in Servers, DropRecord(p) \/ Acquire(p) \/ ReadError(p)
      PROVE  AnswersAreVerified'
  BY <1>5 DEF DropRecord, Acquire, ReadError
<1>6. ASSUME NEW p \in Servers,
             VerifyRelationship(p) \/ StoreRecord(p) \/ SyncDirectory(p)
      PROVE  AnswersAreVerified'
  BY <1>6 DEF VerifyRelationship, StoreRecord, SyncDirectory
<1>7. ASSUME NEW P \in SUBSET Servers, Reset(P) PROVE AnswersAreVerified'
  BY <1>7 DEF Reset
<1>8. ASSUME UNCHANGED <<pc, request, answer>> PROVE AnswersAreVerified'
  BY <1>8
<1> QED
  BY <1>1, <1>2, <1>3, <1>4, <1>5, <1>6, <1>7, <1>8
  DEF Next, LookupStep, Return, Fail, Crash, PowerLoss, DamageRecord, DamagePointer, vars

(* The cache never serves a wrong record: whatever was damaged, lost or    *)
(* left behind, an answer is what verifying the request would find, as     *)
(* long as a relationship keeps its declared cardinality.                  *)
THEOREM AnswersCorrect ==
  ASSUME SelectorDecides
  PROVE  Spec => []AnswersAreVerified
<1>1. Init => AnswersAreVerified
  BY DEF Init, AnswersAreVerified
<1>2. TypeInv /\ AnswersAreVerified /\ [Next]_vars => AnswersAreVerified'
  BY NextAnswers
<1> QED
  BY <1>1, <1>2, TypeInvariant, PTL DEF Spec

(***************************************************************************)
(* Refinement of the oracle.                                               *)
(***************************************************************************)
LEMMA NextRefines ==
  ASSUME TypeInv, AnswersAreVerified, AnswersAreVerified', [Next]_vars
  PROVE  [Oracle!Next]_Oracle!vars
<1> USE Markers DEF TypeInv, TypeOK, Goto, Oracle!vars
<1> DEFINE Shown == [p \in Servers |-> IF pc[p] = "done" THEN answer[p] ELSE NoRecord]
<1>1. ASSUME NEW p \in Servers, NEW q \in Requests, Ask(p, q)
      PROVE  Oracle!Ask(p, q)
  BY <1>1 DEF Ask, Oracle!Ask, PhaseInv
<1>2. ASSUME NEW p \in Servers, LoadRecord(p) \/ StorePointer(p), pc'[p] = "done"
      PROVE  Oracle!Answer(p)
  <2>1. request[p] \in Requests /\ request' = request
    BY <1>2, ActiveFacts DEF LoadRecord, StorePointer
  <2>2. answer'[p] = Verify(request[p])
    BY <1>2, <2>1 DEF AnswersAreVerified
  <2>3. Shown' = [Shown EXCEPT ![p] = Verify(request[p])]
    BY <1>2, <2>2 DEF LoadRecord, StorePointer, Hit
  <2>4. Shown[p] = NoRecord
    BY <1>2 DEF LoadRecord, StorePointer
  <2> QED
    BY <2>1, <2>3, <2>4 DEF Oracle!Answer
<1>3. ASSUME NEW P \in SUBSET Servers, Reset(P)
      PROVE  Oracle!Finish(P)
  BY <1>3 DEF Reset, Oracle!Finish
<1>4. ASSUME request' = request,
             \A p \in Servers :
               \/ pc[p] # "done" /\ pc'[p] # "done"
               \/ pc[p] = "done" /\ pc'[p] = "done" /\ answer'[p] = answer[p]
      PROVE  UNCHANGED Oracle!vars
  <2>1. \A p \in Servers : (IF pc'[p] = "done" THEN answer'[p] ELSE NoRecord)
                          = (IF pc[p] = "done" THEN answer[p] ELSE NoRecord)
    BY <1>4
  <2>2. Shown' = Shown
    BY <2>1, Zenon
  <2> QED
    BY <1>4, <2>2
<1>5. ASSUME NEW p \in Servers, LookupStep(p), pc'[p] # "done"
      PROVE  UNCHANGED Oracle!vars
  <2>1. /\ pc[p] # "done"
        /\ request' = request
        /\ \A q \in Servers \ {p} : pc'[q] = pc[q] /\ answer'[q] = answer[q]
    BY <1>5
    DEF LookupStep, LoadPointer, LoadRecord, Hit, Miss, DropRecord, DropPointer,
        Acquire, VerifyRelationship, StoreRecord, SyncDirectory, StorePointer
  <2> QED
    BY <1>4, <1>5, <2>1
<1>6. ASSUME NEW p \in Servers, LookupStep(p), pc'[p] = "done"
      PROVE  LoadRecord(p) \/ StorePointer(p)
  BY <1>6
  DEF LookupStep, LoadPointer, Miss, DropRecord, DropPointer, Acquire,
      VerifyRelationship, StoreRecord, SyncDirectory
<1>7. ASSUME NEW p \in Servers, ReadError(p) PROVE UNCHANGED Oracle!vars
  BY <1>4, <1>7 DEF ReadError
<1>8. ASSUME UNCHANGED <<pc, request, answer>> PROVE UNCHANGED Oracle!vars
  BY <1>8
<1>9. ASSUME NEW p \in Servers, LookupStep(p) PROVE [Oracle!Next]_Oracle!vars
  BY <1>2, <1>5, <1>6, <1>9 DEF Oracle!Next
<1>10. ASSUME NEW p \in Servers, Return(p) \/ Fail(p) \/ Crash(p)
       PROVE  Oracle!Next
  BY <1>3, <1>10 DEF Return, Fail, Crash, Oracle!Next
<1>11. ASSUME PowerLoss PROVE Oracle!Next
  BY <1>3, <1>11 DEF PowerLoss, Oracle!Next
<1>12. ASSUME NEW p \in Servers, NEW q \in Requests, Ask(p, q)
       PROVE  Oracle!Next
  BY <1>1, <1>12 DEF Oracle!Next
<1> QED
  BY <1>7, <1>8, <1>9, <1>10, <1>11, <1>12
  DEF Next, DamageRecord, DamagePointer, vars

(* The cache is invisible: seen through its answers, every behaviour of    *)
(* the servers and their shared directory is one of an oracle that         *)
(* verifies every request afresh.                                          *)
THEOREM Transparent ==
  ASSUME SelectorDecides
  PROVE  Spec => CacheIsTransparent
<1>1. Init => Oracle!Init
  BY DEF Init, Oracle!Init
<1>2. TypeInv /\ AnswersAreVerified /\ AnswersAreVerified' /\ [Next]_vars
        => [Oracle!Next]_Oracle!vars
  BY NextRefines
<1>3. Spec => []AnswersAreVerified
  BY AnswersCorrect
<1> QED
  BY <1>1, <1>2, <1>3, TypeInvariant, PTL DEF Spec, CacheIsTransparent, Oracle!Spec

=============================================================================
