------------------------ MODULE RuntimeSourcesProofs ------------------------
(***************************************************************************)
(* Proofs about SourceSnapshot and RuntimeSources, for any number of names *)
(* and inodes, any sources, limits and calls, and any changes other        *)
(* programs make.                                                          *)
(***************************************************************************)
EXTENDS RuntimeSources, FiniteSetTheorems, SequenceTheorems, WellFoundedInduction, TLAPS

-----------------------------------------------------------------------------
(* Types.                                                                  *)

Entries == Inodes \cup {Absent, Link, Unsupported, Directory}

FileIds == Inodes \X (0 .. MaxBlocks) \X (0 .. MaxTicks)
Ids == FileIds \cup {<<Absent>>, <<Link>>, <<Unsupported>>, <<Directory>>}
Views == [Names -> [id : Ids, blocks : Seq(Nat)]]

(* Functions of some of the names.                                         *)
Partial(V) == UNION {[some -> V] : some \in SUBSET Names}

CsvPhases == {"list", "walk", "copy", "relist", "rewalk"}
SqlitePhases == {"parent", "connect", "backup", "batch", "last", "compare", "hash"}
Phases == CsvPhases \cup SqlitePhases \cup {"idle", "done", "refused"}

JobType ==
  [kind : {"csv", "sqlite"}, name : Names, limit : Nat, phase : Phases,
   left : SUBSET Names, listed : SUBSET Names, walk : Partial(FileIds), first : Partial(FileIds),
   open : Inodes \cup {NoFile}, basis : Seq(Nat)]

BlocksUpTo(w) == Seq(1 .. (Cardinality(Inodes) + w))

FilesOf(w, t) ==
  [Inodes -> [blocks : BlocksUpTo(w), size : 0 .. MaxBlocks, mtime : 0 .. t]]

WorldInv ==
  /\ dir \in [Names -> Entries]
  /\ now \in 0 .. MaxTicks /\ written \in 0 .. MaxWrites /\ expired \in BOOLEAN
  /\ file \in FilesOf(written, now)
  /\ \A i \in Inodes : Len(file[i].blocks) <= MaxBlocks

(* What was seen, that subdirectories stay, and that without a masked      *)
(* change an identity stands for one content.                              *)
HistoryInv ==
  /\ seen \subseteq Views /\ View \in seen /\ checked \in seen
  /\ masked \subseteq {"rewritten", "returned", "fleeting"}
  /\ \A v \in seen, n \in Names : v[n].id = <<Directory>> <=> dir[n] = Directory
  /\ masked = {} =>
       \A v, w \in seen, n \in Names :
         v[n].id = w[n].id /\ v[n].id \in FileIds => v[n].blocks = w[n].blocks

WasSeen(ids) == \A n \in DOMAIN ids : \E v \in seen : v[n].id = ids[n]

(* What the phase says of the rest of the snapshot.                        *)
PhaseInv ==
  /\ job \in JobType
  /\ copy \in Partial(Seq(Nat)) \cup {NoCopy}
  /\ copy = NoCopy <=> job.phase \in {"refused", "idle"}
  /\ job.phase \in CsvPhases => job.kind = "csv"
  /\ job.phase \in SqlitePhases \cup {"idle"} => job.kind = "sqlite"
  /\ job.open # NoFile => job.phase \in {"copy", "backup", "batch", "last"}
  /\ job.phase \in {"backup", "batch", "last"} => job.open # NoFile
  /\ job.phase = "idle" => ~expired /\ job.walk = <<>>
  /\ WasSeen(job.walk) /\ WasSeen(job.first)

Looked(n) == Identity(n) = job.first[n]

Begins(s, t) == Len(s) <= Len(t) /\ \A k \in 1 .. Len(s) : s[k] = t[k]

(* How far the copies of a CSV directory are.                              *)
CopyInv ==
  /\ job.phase \in {"list", "walk"} => copy = <<>>
  /\ job.phase = "copy" =>
       /\ job.left \subseteq DOMAIN job.first
       /\ job.open = NoFile => DOMAIN copy = DOMAIN job.first \ job.left
       /\ job.open # NoFile =>
            /\ job.left # {} /\ job.open = job.first[Here][1]
            /\ DOMAIN copy = (DOMAIN job.first \ job.left) \cup {Here}
  /\ job.phase \in {"relist", "rewalk"} => DOMAIN copy = DOMAIN job.first

WasGone(n) == \E v \in seen : v[n].id = <<Absent>>

(* The walk has met a name, is about to, or passed it over for a reason:   *)
(* it was not there. The second walk, of one that was not there when the   *)
(* walk began, or will miss one of the first.                              *)
Covered(n) ==
  \/ n \in job.left \/ n \in job.listed \/ n \in DOMAIN job.walk
  \/ job.phase = "walk" /\ WasGone(n)
  \/ job.phase = "rewalk" /\ \/ n \in DOMAIN job.first \/ checked[n].id = <<Absent>>
                             \/ "fleeting" \in masked

(* How far a walk through the subdirectories is, and what the first one    *)
(* says of the names it did not find: if they are not there now, they were *)
(* not when the second walk began, or they came and went.                  *)
WalkInv ==
  /\ job.phase \in {"walk", "rewalk"} =>
       /\ \A d \in job.listed : dir[d] = Directory /\ \A n \in Under[d] : Covered(n)
       /\ \A n \in Names \ Nested : Covered(n)
  /\ job.phase \in {"copy", "relist", "rewalk"} =>
       \A n \in Names \ DOMAIN job.first : dir[n] = Directory \/ WasGone(n)
  /\ job.phase = "rewalk" /\ "fleeting" \notin masked =>
       \A n \in Nested \ DOMAIN job.first :
         Identity(n) = <<Absent>> => checked[n].id = <<Absent>>

(* What they hold, as long as no change is masked: what is there still,    *)
(* wherever the identity is the one of the first look.                     *)
ContentInv ==
  masked = {} =>
    /\ job.phase = "copy" =>
         /\ \A n \in DOMAIN job.first \ job.left : Looked(n) => copy[n] = View[n].blocks
         /\ job.open # NoFile /\ Looked(Here) => Begins(copy[Here], View[Here].blocks)
    /\ job.phase \in {"relist", "rewalk"} =>
         \A n \in DOMAIN job.first : Looked(n) => copy[n] = View[n].blocks
    /\ job.phase = "rewalk" =>
         \A n \in DOMAIN job.first :
           /\ Looked(n) => checked[n] = View[n]
           /\ n \in DOMAIN job.walk /\ job.walk[n] = job.first[n] =>
                checked[n].id = job.first[n] /\ copy[n] = checked[n].blocks
    /\ job.phase = "done" /\ job.kind = "csv" => copy = Contents(checked)

Pairs == UNION {{n} \X DOMAIN copy[n] : n \in DOMAIN copy}

SizeInv ==
  /\ job.phase \in CsvPhases => IsFiniteSet(Pairs)
  /\ job.phase \in CsvPhases \cup {"done"} => BytesCopied <= job.limit

(* A backup is of one moment at which the file had the identity of the     *)
(* first look.                                                             *)
OfOneLook ==
  \E v \in seen : v[job.name].id = job.first[job.name]
                  /\ copy = Only(job.name, v[job.name].blocks)

BackupInv ==
  /\ job.phase \in SqlitePhases \ {"parent"} => DOMAIN job.first = {job.name}
  /\ job.phase = "done" /\ job.kind = "sqlite" => DOMAIN job.first = {job.name}
  /\ job.phase \in {"backup", "batch", "last", "compare", "hash"} => DOMAIN copy = {job.name}
  /\ "returned" \notin masked =>
       /\ job.phase \in {"backup", "batch"} /\ Looked(job.name) =>
            job.open = job.first[job.name][1]
       /\ job.phase \in {"last", "compare"} /\ Looked(job.name) => OfOneLook
       /\ job.phase = "hash" \/ (job.phase = "done" /\ job.kind = "sqlite") => OfOneLook
  /\ job.phase = "hash" \/ (job.phase = "done" /\ job.kind = "sqlite") =>
       checked[job.name].id = job.first[job.name]

SnapshotInv ==
  /\ WorldInv /\ HistoryInv /\ PhaseInv
  /\ CopyInv /\ WalkInv /\ ContentInv /\ SizeInv /\ BackupInv

-----------------------------------------------------------------------------
(* Calls.                                                                  *)

Todos == {<<".", "data", "datasets">>, <<"data", "datasets">>, <<"datasets">>, <<>>}

Outcomes ==
  {"none", "failed", "SOURCE_NOT_FOUND", "ENTITY_NOT_FOUND", "SOURCE_AMBIGUOUS", "answered"}

CallType ==
  [explicit : Seq(Names), asked : {c.asked : c \in Calls}, limit : Nat,
   wanted : SUBSET Names, auto : BOOLEAN, todo : Todos,
   left : SUBSET Names, found : SUBSET Names, opened : SUBSET Names,
   outcome : Outcomes, source : SUBSET Names]

Configured == call.wanted # {} \/ ~call.auto

(* Where discovery finds a database, and whether it has yet to look there. *)
Below(n, place) == IF place = "." THEN Len(Path[n]) = 1 ELSE Walked(n, place)
Pending(n) == \E k \in DOMAIN call.todo : Below(n, call.todo[k])

(* What is found may be answered from; what is not is still looked for, or *)
(* was no file at one time.                                                *)
FoundInv ==
  /\ call \in CallType
  /\ Configured =>
       /\ call.todo = <<>> /\ call.left = {} /\ call.opened = call.wanted
       /\ call.wanted = call.found \cup Range(call.explicit)
  /\ ~Configured =>
       /\ call.explicit = <<>>
       /\ call.opened \subseteq call.found /\ call.found \subseteq Eligible
       /\ call.left \cap Databases \subseteq Eligible
       /\ \A n \in Eligible \ call.found :
            Pending(n) \/ n \in call.left \/ \E v \in seen : v[n].id \notin FileIds

HeldInv ==
  /\ DOMAIN held \subseteq call.found
  /\ "returned" \notin masked =>
       \A n \in DOMAIN held :
         \E v \in seen : v[n].id \in FileIds /\ held[n] = v[n].blocks

CallInv ==
  call # NoCall =>
    /\ FoundInv /\ HeldInv
    /\ job.kind = "sqlite"
    /\ job.phase \notin {"idle", "refused"} => job.name \in call.found
    /\ call.outcome = "none" => call.source = {}
    /\ call.outcome # "none" => job.phase = "refused" /\ held = <<>> /\ copy = NoCopy

(* What a link stands in place of stays without files.                     *)
LinkInv ==
  \A n, m \in Names :
    dir[n] = Link /\ Beyond(n, m) => {n, m} \cap Touched = {} /\ ~IsFile(m)

SourcesInv == SnapshotInv /\ LinkInv /\ CallInv

-----------------------------------------------------------------------------
(* Numbers, and functions of names.                                        *)

LEMMA Numbers ==
  /\ Cardinality(Inodes) \in Nat /\ Inodes = 1 .. Cardinality(Inodes)
  /\ MaxBlocks \in Nat /\ MaxWrites \in Nat /\ MaxTicks \in Nat
BY SnapshotConstants, FS_CardinalityType

LEMMA Markers ==
  /\ Absent \notin Inodes /\ Link \notin Inodes /\ Unsupported \notin Inodes
  /\ NoFile \notin Inodes /\ Directory \notin Inodes
  /\ Absent # Link /\ Absent # Unsupported /\ Absent # Directory /\ Link # Directory
BY SnapshotMarkers

(* A set of numbers that is not empty has a least one.                     *)
LEMMA LeastIsThere ==
  ASSUME NEW S \in SUBSET Nat, S # {}
  PROVE  Min(S) \in S /\ \A y \in S : Min(S) =< y
<1> DEFINE R == OpToRel(<, Nat)
<1>1. IsWellFoundedOn(R, Nat)
  BY NatLessThanWellFounded
<1>2. PICK x \in S : \A y \in S : ~ (<<y, x>> \in R)
  BY <1>1, WFMin
<1>3. \A y \in S : ~ (y < x)
  BY <1>2 DEF OpToRel
<1> HIDE DEF R
<1>4. \A y \in S : x =< y
  BY <1>3
<1>5. QED
  BY <1>4 DEF Min

LEMMA LeastName ==
  ASSUME NEW some \in SUBSET Names, some # {}
  PROVE  Min(some) \in some
BY LeastIsThere, SnapshotConstants

LEMMA LessOfTwo ==
  ASSUME NEW a \in Nat, NEW b \in Nat
  PROVE  Min({a, b}) = IF a <= b THEN a ELSE b
BY LeastIsThere, {a, b} \in SUBSET Nat, {a, b} # {}

LEMMA PartialIs ==
  ASSUME NEW V, NEW f
  PROVE  f \in Partial(V) <=> DOMAIN f \subseteq Names /\ f \in [DOMAIN f -> V]
BY DEF Partial

LEMMA WithIs ==
  ASSUME NEW V, NEW f \in Partial(V), NEW n \in Names, NEW x \in V
  PROVE  /\ With(f, n, x) \in Partial(V)
         /\ DOMAIN With(f, n, x) = DOMAIN f \cup {n}
         /\ With(f, n, x)[n] = x
         /\ \A m \in DOMAIN f \ {n} : With(f, n, x)[m] = f[m]
BY PartialIs DEF With

LEMMA OnlyIs ==
  ASSUME NEW V, NEW n \in Names, NEW x \in V
  PROVE  /\ Only(n, x) \in Partial(V)
         /\ DOMAIN Only(n, x) = {n}
         /\ Only(n, x)[n] = x
BY PartialIs DEF Only

LEMMA NothingIs ==
  ASSUME NEW V
  PROVE  <<>> \in Partial(V) /\ DOMAIN <<>> = {}
<1>1. <<>> \in Seq(V) /\ Len(<<>>) = 0
  BY EmptySeq
<1>2. <<>> \in [1 .. 0 -> V] /\ DOMAIN <<>> = 1 .. 0
  BY <1>1, LenProperties
<1>3. 1 .. 0 = {}
  OBVIOUS
<1>4. DOMAIN <<>> = {} /\ <<>> \in [{} -> V]
  BY <1>2, <1>3
<1>5. QED
  BY <1>4, PartialIs

LEMMA NoCopyIsNone == NoCopy \notin Partial(Seq(Nat))
BY SnapshotMarkers DEF Partial

LEMMA MoreBlocks ==
  ASSUME NEW w \in Nat, NEW s \in BlocksUpTo(w)
  PROVE  /\ s \in BlocksUpTo(w + 1)
         /\ s \in Seq(Nat)
<1>1. s \in Seq(1 .. (Cardinality(Inodes) + w))
  BY DEF BlocksUpTo
<1>2. /\ 1 .. (Cardinality(Inodes) + w) \subseteq 1 .. (Cardinality(Inodes) + (w + 1))
      /\ 1 .. (Cardinality(Inodes) + w) \subseteq Nat
  BY Numbers
<1>3. s \in Seq(1 .. (Cardinality(Inodes) + (w + 1))) /\ s \in Seq(Nat)
  BY <1>1, <1>2, SeqMonotonic
<1>4. QED
  BY <1>3 DEF BlocksUpTo

(* A beginning grows by the next element, and is all of it once it is as   *)
(* long.                                                                   *)
LEMMA NextOfIt ==
  ASSUME NEW s \in Seq(Nat), NEW t \in Seq(Nat), Len(s) < Len(t)
  PROVE  LET u == Append(s, t[Len(s) + 1]) IN
         /\ u \in Seq(Nat) /\ DOMAIN u = (DOMAIN s) \cup {Len(s) + 1}
         /\ Len(s) + 1 \notin DOMAIN s
         /\ Begins(s, t) => Begins(u, t)
<1> DEFINE x == t[Len(s) + 1]
           u == Append(s, x)
<1>1. Len(s) \in Nat /\ Len(t) \in Nat /\ DOMAIN s = 1 .. Len(s)
  BY LenProperties
<1>2. x \in Nat
  <2>1. Len(s) + 1 \in 1 .. Len(t)
    BY <1>1
  <2>2. QED
    BY <2>1, ElementOfSeq
<1> HIDE DEF x
<1>3. /\ u \in Seq(Nat) /\ Len(u) = Len(s) + 1
      /\ \A k \in 1 .. Len(s) : u[k] = s[k]
      /\ u[Len(s) + 1] = x
  BY <1>2, AppendProperties
<1>4. DOMAIN u = 1 .. Len(u)
  BY <1>3, LenProperties
<1> HIDE DEF u
<1>5. DOMAIN u = (DOMAIN s) \cup {Len(s) + 1} /\ Len(s) + 1 \notin DOMAIN s
  BY <1>1, <1>3, <1>4
<1>6. ASSUME Begins(s, t)
      PROVE  Begins(u, t)
  <2>1. \A k \in 1 .. Len(s) : u[k] = t[k]
    BY <1>3, <1>6 DEF Begins
  <2>2. \A k \in 1 .. Len(u) : k \in 1 .. Len(s) \/ k = Len(s) + 1
    BY <1>1, <1>3
  <2>3. u[Len(s) + 1] = t[Len(s) + 1] /\ Len(u) <= Len(t)
    BY <1>1, <1>3 DEF x
  <2>4. QED
    BY <2>1, <2>2, <2>3 DEF Begins
<1>7. QED
  BY <1>3, <1>5, <1>6 DEF u, x

LEMMA AllOfIt ==
  ASSUME NEW s \in Seq(Nat), NEW t \in Seq(Nat), Begins(s, t), Len(s) >= Len(t)
  PROVE  s = t
<1>1. Len(s) \in Nat /\ Len(t) \in Nat
  BY LenProperties
<1>2. Len(s) = Len(t) /\ \A k \in 1 .. Len(s) : s[k] = t[k]
  BY <1>1 DEF Begins
<1>3. QED
  BY <1>2, SeqEqual

-----------------------------------------------------------------------------
(* Identities and views.                                                   *)

LEMMA IdentityIs ==
  ASSUME WorldInv, NEW n \in Names
  PROVE  /\ Identity(n) \in Ids
         /\ IsFile(n) <=> Identity(n) \in FileIds
         /\ IsFile(n) => Identity(n)[1] = dir[n] /\ dir[n] \in Inodes
         /\ dir[n] = Absent <=> Identity(n) = <<Absent>>
         /\ dir[n] = Directory <=> Identity(n) = <<Directory>>
<1>1. dir[n] \in Entries
  BY DEF WorldInv
<1>2. CASE IsFile(n)
  <2>1. file[dir[n]].size \in 0 .. MaxBlocks /\ file[dir[n]].mtime \in 0 .. now
    BY <1>2 DEF IsFile, WorldInv, FilesOf
  <2>2. file[dir[n]].mtime \in 0 .. MaxTicks
    BY <2>1, Numbers DEF WorldInv
  <2>3. Identity(n) = <<dir[n], file[dir[n]].size, file[dir[n]].mtime>>
    BY <1>2 DEF Identity
  <2>4. /\ Identity(n) \in FileIds /\ Identity(n)[1] = dir[n]
        /\ Identity(n) # <<Absent>> /\ Identity(n) # <<Directory>>
    BY <1>2, <2>1, <2>2, <2>3 DEF FileIds, IsFile
  <2>5. QED
    BY <1>2, <2>4, Markers DEF Ids, IsFile
<1>3. CASE ~IsFile(n)
  <2>1. Identity(n) = <<dir[n]>> /\ dir[n] \in {Absent, Link, Unsupported, Directory}
    BY <1>1, <1>3 DEF Identity, IsFile, Entries
  <2>2. \A e, i, s, m : <<e>> # <<i, s, m>>
    OBVIOUS
  <2>3. Identity(n) \notin FileIds
    BY <2>1, <2>2 DEF FileIds
  <2>4. /\ <<dir[n]>> = <<Absent>> <=> dir[n] = Absent
        /\ <<dir[n]>> = <<Directory>> <=> dir[n] = Directory
    OBVIOUS
  <2>5. QED
    BY <1>3, <2>1, <2>3, <2>4 DEF Ids
<1>4. QED
  BY <1>2, <1>3

LEMMA IdLengths ==
  ASSUME NEW id \in Ids
  PROVE  Len(id) = 3 <=> id \in FileIds
<1>1. CASE id \in FileIds
  BY <1>1 DEF FileIds
<1>2. CASE id \in {<<Absent>>, <<Link>>, <<Unsupported>>, <<Directory>>}
  <2>1. Len(id) = 1
    BY <1>2
  <2>2. id \notin FileIds
    BY <2>1 DEF FileIds
  <2>3. QED
    BY <2>1, <2>2
<1>3. QED
  BY <1>1, <1>2 DEF Ids

LEMMA AbsentIsNoFile == <<Absent>> \notin FileIds /\ <<Directory>> \notin FileIds
<1>1. \A e, i, s, m : <<e>> # <<i, s, m>>
  OBVIOUS
<1>2. QED
  BY <1>1 DEF FileIds

LEMMA FileBlocks ==
  ASSUME WorldInv, NEW i \in Inodes
  PROVE  file[i].blocks \in Seq(Nat) /\ file[i].blocks \in BlocksUpTo(written)
<1>1. file[i].blocks \in BlocksUpTo(written) /\ written \in Nat
  BY DEF WorldInv, FilesOf
<1>2. QED
  BY <1>1, MoreBlocks

LEMMA ViewIs ==
  ASSUME WorldInv
  PROVE  /\ View \in Views
         /\ \A n \in Names :
              /\ View[n].id = Identity(n)
              /\ View[n] = [id |-> View[n].id, blocks |-> View[n].blocks]
              /\ IsFile(n) => View[n].blocks = file[dir[n]].blocks
              /\ ~IsFile(n) => View[n].blocks = <<>>
<1> DEFINE b(n) == IF IsFile(n) THEN file[dir[n]].blocks ELSE <<>>
<1>1. ASSUME NEW n \in Names
      PROVE  b(n) \in Seq(Nat) /\ Identity(n) \in Ids
  <2>1. IsFile(n) => file[dir[n]].blocks \in Seq(Nat)
    BY FileBlocks DEF IsFile
  <2>2. <<>> \in Seq(Nat)
    BY EmptySeq
  <2>3. QED
    BY <2>1, <2>2, IdentityIs
<1>2. View = [n \in Names |-> [id |-> Identity(n), blocks |-> b(n)]]
  BY DEF View
<1>3. \A n \in Names : /\ IsFile(n) => b(n) = file[dir[n]].blocks
                       /\ ~IsFile(n) => b(n) = <<>>
  OBVIOUS
<1> HIDE DEF b
<1>4. View \in Views
  BY <1>1, <1>2 DEF Views
<1>5. QED
  BY <1>2, <1>3, <1>4

(* A view is a function of the directory and the files.                    *)
LEMMA SameView ==
  ASSUME dir' = dir, file' = file
  PROVE  /\ View' = View
         /\ \A n \in Names : Identity(n)' = Identity(n) /\ (IsFile(n)' <=> IsFile(n))
BY DEF View, Identity, IsFile

-----------------------------------------------------------------------------
(* What other programs do.                                                 *)

LEMMA RunOf ==
  ASSUME NEW w \in Nat, NEW k \in Nat
  PROVE  LET s == [b \in 1 .. k |-> Cardinality(Inodes) + w + 1] IN
         s \in BlocksUpTo(w + 1) /\ Len(s) = k
<1> DEFINE s == [b \in 1 .. k |-> Cardinality(Inodes) + w + 1]
           S == 1 .. (Cardinality(Inodes) + (w + 1))
<1>1. Cardinality(Inodes) + w + 1 \in S
  BY Numbers
<1>2. s \in [1 .. k -> S]
  BY <1>1
<1>3. s \in Seq(S) /\ Len(s) = k
  BY <1>2
<1>4. QED
  BY <1>3 DEF BlocksUpTo

LEMMA EditedIs ==
  ASSUME WorldInv, NEW i \in Inodes, NEW blocks \in Edited(file[i].blocks)
  PROVE  blocks \in BlocksUpTo(written + 1) /\ Len(blocks) \in 0 .. MaxBlocks
<1> DEFINE old == file[i].blocks
           S == 1 .. (Cardinality(Inodes) + (written + 1))
<1>1. /\ old \in BlocksUpTo(written) /\ old \in BlocksUpTo(written + 1)
      /\ Len(old) \in 0 .. MaxBlocks /\ written \in Nat
  BY FileBlocks, MoreBlocks DEF WorldInv, BlocksUpTo
<1>2. old \in Seq(S) /\ Len(old) \in Nat /\ DOMAIN old = 1 .. Len(old) /\ MaxBlocks \in Nat
  BY <1>1, Numbers DEF BlocksUpTo
<1>3. Fresh \in S /\ Fresh = Cardinality(Inodes) + written + 1
  BY <1>1, Numbers DEF Fresh
<1>4. old \in [1 .. Len(old) -> S]
  <2> HIDE DEF old, S
  <2>1. QED
    BY <1>2, LenProperties
<1> HIDE DEF old, S
<1>5. \/ \E b \in 1 .. Len(old) : blocks = [old EXCEPT ![b] = Fresh]
      \/ \E k \in 0 .. MaxBlocks :
           k = Len(old) + 1
           /\ blocks = [b \in 1 .. k |-> IF b \in DOMAIN old THEN old[b] ELSE Fresh]
      \/ \E k \in 0 .. MaxBlocks : blocks = [b \in 1 .. k |-> Fresh]
  BY <1>2 DEF Edited, old
<1>6. \E k \in 0 .. MaxBlocks : blocks \in [1 .. k -> S]
  <2>1. CASE \E b \in 1 .. Len(old) : blocks = [old EXCEPT ![b] = Fresh]
    <3>1. blocks \in [1 .. Len(old) -> S]
      BY <1>3, <1>4, <2>1
    <3>2. Len(old) \in 0 .. MaxBlocks
      BY <1>1 DEF old
    <3>3. QED
      BY <3>1, <3>2
  <2>2. CASE \E k \in 0 .. MaxBlocks :
               k = Len(old) + 1
               /\ blocks = [b \in 1 .. k |-> IF b \in DOMAIN old THEN old[b] ELSE Fresh]
    <3>1. PICK k \in 0 .. MaxBlocks :
             blocks = [b \in 1 .. k |-> IF b \in DOMAIN old THEN old[b] ELSE Fresh]
      BY <2>2
    <3>2. \A b \in DOMAIN old : old[b] \in S
      BY <1>2, <1>4
    <3>3. blocks \in [1 .. k -> S]
      BY <1>3, <3>1, <3>2
    <3>4. QED
      BY <3>3
  <2>3. CASE \E k \in 0 .. MaxBlocks : blocks = [b \in 1 .. k |-> Fresh]
    BY <1>3, <2>3
  <2>4. QED
    BY <1>5, <2>1, <2>2, <2>3
<1>7. PICK k \in 0 .. MaxBlocks : blocks \in [1 .. k -> S]
  BY <1>6
<1>8. blocks \in Seq(S) /\ Len(blocks) = k
  BY <1>7, <1>2
<1>9. QED
  BY <1>7, <1>8 DEF BlocksUpTo, S

LEMMA FileSet ==
  ASSUME WorldInv, written < MaxWrites, written' = written + 1,
         now' = now, expired' = expired, dir' \in [Names -> Entries],
         NEW i \in Inodes,
         NEW blocks \in BlocksUpTo(written + 1), Len(blocks) \in 0 .. MaxBlocks,
         NEW size \in 0 .. MaxBlocks, NEW mtime \in 0 .. now,
         file' = [file EXCEPT ![i] = [blocks |-> blocks, size |-> size, mtime |-> mtime]]
  PROVE  WorldInv'
<1> DEFINE S == BlocksUpTo(written + 1)
<1>1. written \in Nat /\ written' \in 0 .. MaxWrites
  BY Numbers DEF WorldInv
<1>2. file \in [Inodes -> [blocks : BlocksUpTo(written), size : 0 .. MaxBlocks,
                           mtime : 0 .. now]]
  BY DEF WorldInv, FilesOf
<1>3. \A s \in BlocksUpTo(written) : s \in S
  BY <1>1, MoreBlocks
<1>4. blocks \in S
  OBVIOUS
<1> HIDE DEF S
<1>5. file \in [Inodes -> [blocks : S, size : 0 .. MaxBlocks, mtime : 0 .. now]]
  BY <1>2, <1>3
<1>6. file' \in [Inodes -> [blocks : S, size : 0 .. MaxBlocks, mtime : 0 .. now]]
  BY <1>4, <1>5
<1>7. \A j \in Inodes : Len(file'[j].blocks) <= MaxBlocks
  BY <1>2 DEF WorldInv
<1>8. file' \in FilesOf(written', now')
  BY <1>6 DEF FilesOf, S
<1>9. QED
  BY <1>1, <1>7, <1>8 DEF WorldInv

LEMMA ChangedTypes ==
  ASSUME WorldInv, World, ~Tick
  PROVE  WorldInv'
<1>1. /\ Change /\ \/ \E i \in Inodes : Write(i) \/ WalCommit(i) \/ Checkpoint(i)
                   \/ \E n \in Touched : Replace(n) \/ Remove(n)
                                         \/ \E m \in Touched : Rename(n, m)
  BY DEF World, Write, WalCommit, Checkpoint, Replace, Remove, Rename
<1>2. /\ written < MaxWrites /\ written' = written + 1 /\ now' = now /\ expired' = expired
      /\ written \in Nat /\ now \in Nat /\ 0 \in 0 .. now /\ now \in 0 .. now
      /\ dir \in [Names -> Entries]
  BY <1>1 DEF Change, WorldInv
<1>3. ASSUME NEW i \in Inodes
      PROVE  /\ file[i].blocks \in BlocksUpTo(written + 1)
             /\ Len(file[i].blocks) \in 0 .. MaxBlocks
             /\ file[i].size \in 0 .. MaxBlocks /\ file[i].mtime \in 0 .. now
             /\ \A s : [file[i] EXCEPT !.blocks = s] =
                        [blocks |-> s, size |-> file[i].size, mtime |-> file[i].mtime]
             /\ \A s, m : [file[i] EXCEPT !.size = s, !.mtime = m] =
                           [blocks |-> file[i].blocks, size |-> s, mtime |-> m]
  <2>1. file[i] \in [blocks : BlocksUpTo(written), size : 0 .. MaxBlocks, mtime : 0 .. now]
    BY DEF WorldInv, FilesOf
  <2>2. file[i].blocks \in BlocksUpTo(written + 1) /\ file[i].blocks \in Seq(Nat)
    BY <1>2, <2>1, MoreBlocks
  <2>3. Len(file[i].blocks) \in 0 .. MaxBlocks
    BY <2>2, Numbers DEF WorldInv
  <2>4. \A s : [file[i] EXCEPT !.blocks = s] =
                 [blocks |-> s, size |-> file[i].size, mtime |-> file[i].mtime]
    BY <2>1
  <2>5. ASSUME NEW s, NEW m
        PROVE  [file[i] EXCEPT !.size = s, !.mtime = m] =
                 [blocks |-> file[i].blocks, size |-> s, mtime |-> m]
    <3> DEFINE r == file[i]
               q == [r EXCEPT !.size = s, !.mtime = m]
    <3>1. DOMAIN r = {"blocks", "size", "mtime"}
      BY <2>1
    <3> HIDE DEF r
    <3>2. q = [f \in {"blocks", "size", "mtime"} |->
                 IF f = "mtime" THEN m ELSE IF f = "size" THEN s ELSE r[f]]
      BY <3>1
    <3>3. q = [blocks |-> r.blocks, size |-> s, mtime |-> m]
      BY <3>2
    <3>4. QED
      BY <3>3 DEF r
  <2>6. QED
    BY <2>1, <2>2, <2>3, <2>4, <2>5
<1>4. ASSUME NEW i \in Inodes, Write(i)
      PROVE  WorldInv'
  <2>1. PICK blocks \in Edited(file[i].blocks) :
           file' = [file EXCEPT ![i] = [blocks |-> blocks, size |-> Len(blocks), mtime |-> now]]
    BY <1>4 DEF Write
  <2>2. dir' \in [Names -> Entries]
    BY <1>2, <1>4 DEF Write
  <2>3. QED
    BY <1>2, <2>1, <2>2, EditedIs, FileSet
<1>5. ASSUME NEW i \in Inodes, WalCommit(i)
      PROVE  WorldInv'
  <2>1. PICK blocks \in Edited(file[i].blocks) : file' = [file EXCEPT ![i].blocks = blocks]
    BY <1>5 DEF WalCommit
  <2>2. dir' \in [Names -> Entries]
    BY <1>2, <1>5 DEF WalCommit
  <2>3. file' = [file EXCEPT ![i] = [blocks |-> blocks, size |-> file[i].size,
                                     mtime |-> file[i].mtime]]
    <3>1. file' = [file EXCEPT ![i] = [file[i] EXCEPT !.blocks = blocks]]
      BY <2>1
    <3>2. QED
      BY <1>3, <3>1
  <2>4. QED
    BY <1>2, <1>3, <2>2, <2>3, EditedIs, FileSet
<1>6. ASSUME NEW i \in Inodes, Checkpoint(i)
      PROVE  WorldInv'
  <2>1. dir' \in [Names -> Entries]
    BY <1>2, <1>6 DEF Checkpoint
  <2>2. file' = [file EXCEPT ![i] = [blocks |-> file[i].blocks, size |-> Len(file[i].blocks),
                                     mtime |-> now]]
    <3>1. file' = [file EXCEPT ![i] = [file[i] EXCEPT !.size = Len(file[i].blocks),
                                                      !.mtime = now]]
      BY <1>6 DEF Checkpoint
    <3>2. QED
      BY <1>3, <3>1
  <2>3. QED
    BY <1>2, <1>3, <2>1, <2>2, FileSet
<1>7. ASSUME NEW n \in Touched, Replace(n)
      PROVE  WorldInv'
  <2>1. PICK i \in Inodes, k \in 0 .. MaxBlocks :
          /\ dir' = [dir EXCEPT ![n] = i]
          /\ file' = [file EXCEPT ![i] = [blocks |-> [b \in 1 .. k |-> Fresh],
                                          size |-> k, mtime |-> now]]
    BY <1>7 DEF Replace
  <2>2. dir' \in [Names -> Entries]
    BY <1>2, <2>1 DEF Entries
  <2> DEFINE s == [b \in 1 .. k |-> Fresh]
  <2>3. s \in BlocksUpTo(written + 1) /\ Len(s) = k
    BY <1>2, RunOf, Numbers DEF Fresh
  <2> HIDE DEF s
  <2>4. file' = [file EXCEPT ![i] = [blocks |-> s, size |-> k, mtime |-> now]]
    BY <2>1 DEF s
  <2>5. QED
    BY <1>2, <2>2, <2>3, <2>4, FileSet
<1>8. ASSUME NEW n \in Names, IsFile(n), dir' \in [Names -> Entries], file' = file
      PROVE  WorldInv'
  <2>1. PICK i \in Inodes : i = dir[n]
    BY <1>8 DEF IsFile
  <2>2. file[i] = [blocks |-> file[i].blocks, size |-> file[i].size, mtime |-> file[i].mtime]
    BY DEF WorldInv, FilesOf
  <2>3. file' = [file EXCEPT ![i] = file[i]]
    BY <1>8, <2>1 DEF WorldInv, FilesOf
  <2>4. file' = [file EXCEPT ![i] = [blocks |-> file[i].blocks, size |-> file[i].size,
                                     mtime |-> file[i].mtime]]
    BY <2>2, <2>3
  <2>5. dir' \in [Names -> Entries]
    BY <1>8
  <2>6. QED
    BY <1>2, <1>3, <2>4, <2>5, FileSet
<1>9. ASSUME NEW n \in Touched, Remove(n)
      PROVE  WorldInv'
  <2>1. n \in Names /\ IsFile(n) /\ file' = file /\ dir' = [dir EXCEPT ![n] = Absent]
    BY <1>9, SnapshotConstants DEF Remove
  <2>2. dir' \in [Names -> Entries]
    BY <1>2, <2>1 DEF Entries
  <2>3. QED
    BY <1>8, <2>1, <2>2
<1>10. ASSUME NEW n \in Touched, NEW m \in Touched, Rename(n, m)
       PROVE  WorldInv'
  <2>1. /\ n \in Names /\ m \in Names /\ IsFile(n) /\ file' = file
        /\ dir' = [dir EXCEPT ![m] = dir[n], ![n] = Absent]
    BY <1>10, SnapshotConstants DEF Rename
  <2>2. dir' \in [Names -> Entries]
    BY <1>2, <2>1 DEF Entries
  <2>3. QED
    BY <1>8, <2>1, <2>2
<1>11. QED
  BY <1>1, <1>4, <1>5, <1>6, <1>7, <1>9, <1>10

-----------------------------------------------------------------------------
(* What is remembered of it.                                               *)

ViewOK ==
  /\ View \in Views
  /\ \A n \in Names :
       /\ View[n].id = Identity(n)
       /\ Identity(n) \in Ids
       /\ IsFile(n) <=> Identity(n) \in FileIds

LEMMA ViewFacts == WorldInv => ViewOK
BY ViewIs, IdentityIs DEF ViewOK

LEMMA ViewFactsNext == WorldInv' => ViewOK'
BY ViewFacts, PTL

DirectoryIds == \A n \in Names : dir[n] = Directory <=> Identity(n) = <<Directory>>

LEMMA DirectoryIdentity == WorldInv => DirectoryIds
BY IdentityIs DEF DirectoryIds

LEMMA IdentityIsNext ==
  ASSUME WorldInv'
  PROVE  \A n \in Names : dir'[n] = Directory <=> Identity(n)' = <<Directory>>
<1>1. DirectoryIds'
  BY DirectoryIdentity, PTL
<1>2. QED
  BY <1>1 DEF DirectoryIds

(* A step that leaves the sources alone.                                   *)
Still == seen' = seen /\ masked' = masked /\ dir' = dir /\ file' = file /\ checked' = checked

(* A name that has an identity again that it once had has kept it, and the *)
(* content with it, as far as the step is not masked.                      *)
Settled(n) ==
  \A id \in FileIds :
    (\E v \in seen : v[n].id = id) /\ Identity(n)' = id /\ "returned" \notin masked' =>
      Identity(n) = id /\ ("rewritten" \notin masked' => View'[n] = View[n])

(* A name that is not there, and once was not, has not been there in       *)
(* between, as far as the step is not masked.                              *)
StillGone(n) ==
  WasGone(n) /\ Identity(n)' = <<Absent>> /\ "fleeting" \notin masked' =>
    Identity(n) = <<Absent>>

DirectoriesStay == \A n \in Names : dir'[n] = Directory <=> dir[n] = Directory

Outside ==
  /\ job' = job /\ copy' = copy /\ checked' = checked
  /\ expired => expired'
  /\ job.phase \notin {"done", "refused"}
  /\ job.phase = "idle" => expired' = expired
  /\ seen \subseteq seen' /\ masked \subseteq masked'
  /\ \A n \in Names : Settled(n)
  /\ DirectoriesStay /\ \A n \in Nested : StillGone(n)

LEMMA NestedIs == Nested \subseteq Names
BY SnapshotConstants DEF Nested

(* Where others change what is under a name.                               *)
LEMMA DirChanges ==
  ASSUME WorldInv, World \/ Expire
  PROVE  /\ \A n \in Names :
              \/ dir'[n] = dir[n]
              \/ n \in Touched /\ dir[n] # Directory /\ dir'[n] \in Inodes \cup {Absent}
         /\ DirectoriesStay
<1> DEFINE Moved(n) == n \in Touched /\ dir[n] # Directory /\ dir'[n] \in Inodes \cup {Absent}
<1>1. dir \in [Names -> Entries] /\ Touched \subseteq Names /\ Directory \notin Inodes
  BY SnapshotConstants, Markers DEF WorldInv
<1>2. ASSUME NEW i \in Inodes, Write(i) \/ WalCommit(i) \/ Checkpoint(i)
      PROVE  \A n \in Names : dir'[n] = dir[n]
  BY <1>2 DEF Write, WalCommit, Checkpoint
<1>3. ASSUME NEW m \in Touched, Replace(m)
      PROVE  \A n \in Names : dir'[n] = dir[n] \/ Moved(n)
  <2>1. PICK i \in Inodes : dir' = [dir EXCEPT ![m] = i]
    BY <1>3 DEF Replace
  <2>2. QED
    BY <1>1, <1>3, <2>1 DEF Replace
<1>4. ASSUME NEW m \in Touched, Remove(m)
      PROVE  \A n \in Names : dir'[n] = dir[n] \/ Moved(n)
  BY <1>1, <1>4 DEF Remove, IsFile
<1>5. ASSUME NEW m \in Touched, NEW k \in Touched, Rename(m, k)
      PROVE  \A n \in Names : dir'[n] = dir[n] \/ Moved(n)
  BY <1>1, <1>5 DEF Rename, IsFile
<1>6. ASSUME Tick \/ Expire
      PROVE  \A n \in Names : dir'[n] = dir[n]
  BY <1>6 DEF Tick, Expire, world
<1>7. \A n \in Names : dir'[n] = dir[n] \/ Moved(n)
  <2> HIDE DEF Moved
  <2>1. QED
    BY <1>2, <1>3, <1>4, <1>5, <1>6 DEF World
<1>8. DirectoriesStay
  BY <1>1, <1>7, Markers DEF DirectoriesStay
<1>9. QED
  BY <1>7, <1>8

(* What a change leaves behind of what it masks.                           *)
LEMMA MaskedIs ==
  ASSUME Remember
  PROVE  /\ masked \subseteq masked'
         /\ masked' \subseteq masked \cup {"rewritten", "returned", "fleeting"}
         /\ \A n \in Names :
              /\ /\ IsFile(n)' /\ View[n].id = View'[n].id
                 /\ View[n].blocks # View'[n].blocks
                 => "rewritten" \in masked'
              /\ IsFile(n)' /\ HasAgain(n) => "returned" \in masked'
              /\ ~IsFile(n)' /\ HasAgain(n) /\ n \in Nested => "fleeting" \in masked'
<1> DEFINE Kinds == {"rewritten", "returned", "fleeting"}
           Masks(kind, n) ==
             CASE kind = "rewritten" -> IsFile(n)' /\ View[n].id = View'[n].id
                                        /\ View[n].blocks # View'[n].blocks
               [] kind = "returned"  -> IsFile(n)' /\ HasAgain(n)
               [] kind = "fleeting"  -> ~IsFile(n)' /\ HasAgain(n) /\ n \in Nested
<1>1. masked' = masked \cup {kind \in Kinds : \E n \in Names : Masks(kind, n)}
  BY DEF Remember
<1>2. \A n : /\ Masks("rewritten", n) <=> /\ IsFile(n)' /\ View[n].id = View'[n].id
                                         /\ View[n].blocks # View'[n].blocks
             /\ Masks("returned", n) <=> IsFile(n)' /\ HasAgain(n)
             /\ Masks("fleeting", n) <=> ~IsFile(n)' /\ HasAgain(n) /\ n \in Nested
  OBVIOUS
<1> HIDE DEF Masks
<1>3. \A kind \in Kinds, n \in Names : Masks(kind, n) => kind \in masked'
  BY <1>1
<1>4. masked \subseteq masked' /\ masked' \subseteq masked \cup Kinds
  BY <1>1
<1>5. QED
  BY <1>2, <1>3, <1>4

LEMMA RememberedViews ==
  ASSUME WorldInv, WorldInv', HistoryInv, Remember, DirectoriesStay
  PROVE  HistoryInv'
<1>1. /\ seen' = seen \cup {View'} /\ checked' = checked /\ View \in seen /\ seen \subseteq Views
      /\ masked \subseteq masked'
  BY MaskedIs DEF HistoryInv, Remember
<1>2. View' \in Views /\ View \in Views
  BY ViewFacts, ViewFactsNext DEF ViewOK
<1>3. ASSUME masked' = {}, NEW v \in seen, NEW n \in Names,
             v[n].id = View'[n].id, v[n].id \in FileIds
      PROVE  v[n].blocks = View'[n].blocks
  <2>1. masked = {}
    BY <1>1, <1>3
  <2>2. IsFile(n)' /\ View'[n].id = Identity(n)'
    BY <1>3, ViewFactsNext DEF ViewOK
  <2>3. View[n].id = View'[n].id
    <3>1. "returned" \notin masked'
      BY <1>3
    <3>2. QED
      BY <1>3, <2>2, <3>1, MaskedIs DEF HasAgain
  <2>4. View[n].blocks = View'[n].blocks
    <3>1. "rewritten" \notin masked'
      BY <1>3
    <3>2. QED
      BY <2>2, <2>3, <3>1, MaskedIs
  <2>5. v[n].blocks = View[n].blocks
    BY <1>1, <1>3, <2>1, <2>3 DEF HistoryInv
  <2>6. QED
    BY <2>4, <2>5
<1>4. ASSUME masked' = {}, NEW v \in seen', NEW w \in seen', NEW n \in Names,
             v[n].id = w[n].id, v[n].id \in FileIds
      PROVE  v[n].blocks = w[n].blocks
  <2>1. CASE v \in seen /\ w \in seen
    BY <1>1, <1>4, <2>1 DEF HistoryInv
  <2>2. CASE v \in seen /\ w = View'
    BY <1>3, <1>4, <2>2
  <2>3. CASE v = View' /\ w \in seen
    BY <1>3, <1>4, <2>3
  <2>4. CASE v = View' /\ w = View'
    BY <2>4
  <2>5. QED
    BY <1>1, <1>4, <2>1, <2>2, <2>3, <2>4
<1>5. /\ seen' \subseteq Views /\ View' \in seen' /\ checked' \in seen'
      /\ masked' \subseteq {"rewritten", "returned", "fleeting"}
  BY <1>1, <1>2, MaskedIs DEF HistoryInv
<1>6. \A v \in seen', n \in Names : v[n].id = <<Directory>> <=> dir'[n] = Directory
  <2>1. \A n \in Names : View'[n].id = <<Directory>> <=> dir'[n] = Directory
    BY IdentityIsNext, ViewFactsNext DEF ViewOK
  <2>2. QED
    BY <1>1, <2>1 DEF HistoryInv, DirectoriesStay
<1>7. QED
  BY <1>4, <1>5, <1>6 DEF HistoryInv

LEMMA SettledView ==
  ASSUME WorldInv, WorldInv', HistoryInv, Remember, NEW n \in Names
  PROVE  Settled(n)
<1> SUFFICES ASSUME NEW id \in FileIds, NEW v \in seen, v[n].id = id, Identity(n)' = id,
                    "returned" \notin masked'
             PROVE  Identity(n) = id /\ ("rewritten" \notin masked' => View'[n] = View[n])
  BY DEF Settled
<1>1. IsFile(n)' /\ View'[n].id = id /\ View' \in Views /\ View \in Views
      /\ View[n].id = Identity(n)
  BY ViewFacts, ViewFactsNext DEF ViewOK
<1>2. View[n].id = View'[n].id
  BY <1>1, MaskedIs DEF HasAgain
<1>3. ASSUME "rewritten" \notin masked'
      PROVE  View'[n] = View[n]
  <2>1. View[n].blocks = View'[n].blocks
    BY <1>1, <1>2, <1>3, MaskedIs
  <2>2. PICK a \in [id : Ids, blocks : Seq(Nat)] : a = View[n]
    BY <1>1 DEF Views
  <2>3. PICK b \in [id : Ids, blocks : Seq(Nat)] : b = View'[n]
    BY <1>1 DEF Views
  <2>4. a.id = b.id /\ a.blocks = b.blocks
    BY <1>2, <2>1, <2>2, <2>3
  <2>5. a = b
    BY <2>4
  <2>6. QED
    BY <2>2, <2>3, <2>5
<1>4. QED
  BY <1>1, <1>2, <1>3

LEMMA GoneView ==
  ASSUME WorldInv, WorldInv', HistoryInv, Remember, NEW n \in Nested
  PROVE  StillGone(n)
<1> SUFFICES ASSUME NEW v \in seen, v[n].id = <<Absent>>, Identity(n)' = <<Absent>>,
                    "fleeting" \notin masked'
             PROVE  Identity(n) = <<Absent>>
  BY DEF StillGone, WasGone
<1>1. n \in Names
  BY NestedIs
<1>2. View'[n].id = <<Absent>> /\ ~IsFile(n)' /\ View[n].id = Identity(n)
  BY <1>1, ViewFacts, ViewFactsNext, AbsentIsNoFile DEF ViewOK
<1>3. View[n].id = View'[n].id
  BY <1>1, <1>2, MaskedIs DEF HasAgain
<1>4. QED
  BY <1>2, <1>3

LEMMA StillSettled ==
  ASSUME HistoryInv, Still
  PROVE  /\ HistoryInv' /\ \A n \in Names : Settled(n)
         /\ DirectoriesStay /\ \A n \in Nested : StillGone(n)
<1>1. View' = View /\ \A n \in Names : Identity(n)' = Identity(n)
  BY SameView DEF Still
<1>2. HistoryInv' /\ DirectoriesStay /\ \A n \in Names : Settled(n)
  BY <1>1 DEF Still, HistoryInv, Settled, DirectoriesStay
<1>3. \A n \in Nested : StillGone(n)
  BY <1>1, NestedIs DEF StillGone
<1>4. QED
  BY <1>2, <1>3

LEMMA OutsideStep ==
  ASSUME WorldInv, HistoryInv, World \/ Expire
  PROVE  WorldInv' /\ HistoryInv' /\ Outside
<1>1. CASE World /\ ~Tick
  <2>1. /\ Change /\ job.phase \notin {"done", "refused"}
    BY <1>1 DEF World, Write, WalCommit, Checkpoint, Replace, Remove, Rename
  <2>2. WorldInv'
    BY <1>1, ChangedTypes
  <2>3. Remember /\ job' = job /\ copy' = copy /\ expired' = expired
    BY <2>1 DEF Change
  <2>4. /\ HistoryInv' /\ \A n \in Names : Settled(n)
        /\ DirectoriesStay /\ \A n \in Nested : StillGone(n)
    BY <1>1, <2>2, <2>3, RememberedViews, SettledView, DirChanges, GoneView
  <2>5. seen \subseteq seen' /\ masked \subseteq masked' /\ checked' = checked
    BY <2>3, MaskedIs DEF Remember
  <2>6. QED
    BY <2>1, <2>2, <2>3, <2>4, <2>5 DEF Outside
<1>2. CASE World /\ Tick
  <2>1. /\ now < MaxTicks /\ now' = now + 1 /\ Still /\ written' = written
        /\ expired' = expired /\ job' = job /\ copy' = copy
        /\ job.phase \notin {"done", "refused"}
    BY <1>2 DEF World, Tick, history, Still
  <2>2. WorldInv'
    <3>1. now \in Nat /\ now' \in 0 .. MaxTicks /\ 0 .. now \subseteq 0 .. now'
      BY <2>1, Numbers DEF WorldInv
    <3>2. file \in FilesOf(written, now')
      <4>1. file \in [Inodes -> [blocks : BlocksUpTo(written), size : 0 .. MaxBlocks,
                                 mtime : 0 .. now]]
        BY DEF WorldInv, FilesOf
      <4>2. file \in [Inodes -> [blocks : BlocksUpTo(written), size : 0 .. MaxBlocks,
                                 mtime : 0 .. now']]
        BY <3>1, <4>1
      <4>3. QED
        BY <4>2 DEF FilesOf
    <3>3. QED
      BY <2>1, <3>1, <3>2 DEF WorldInv, Still
  <2>3. /\ HistoryInv' /\ \A n \in Names : Settled(n)
        /\ DirectoriesStay /\ \A n \in Nested : StillGone(n)
    BY <2>1, StillSettled
  <2>4. QED
    BY <2>1, <2>2, <2>3 DEF Outside, Still
<1>3. CASE Expire
  <2>1. /\ Still /\ now' = now /\ written' = written /\ expired' = TRUE
        /\ job' = job /\ copy' = copy /\ job.phase \notin {"idle", "done", "refused"}
    BY <1>3 DEF Expire, world, history, Still
  <2>2. WorldInv'
    BY <2>1 DEF WorldInv, Still
  <2>3. /\ HistoryInv' /\ \A n \in Names : Settled(n)
        /\ DirectoriesStay /\ \A n \in Nested : StillGone(n)
    BY <2>1, StillSettled
  <2>4. QED
    BY <2>1, <2>2, <2>3 DEF Outside, Still
<1>4. QED
  BY <1>1, <1>2, <1>3

LEMMA FirstIs ==
  ASSUME PhaseInv
  PROVE  /\ DOMAIN job.first \subseteq Names /\ DOMAIN job.walk \subseteq Names
         /\ \A n \in DOMAIN job.first :
              job.first[n] \in FileIds /\ \E v \in seen : v[n].id = job.first[n]
         /\ \A n \in DOMAIN job.walk :
              job.walk[n] \in FileIds /\ \E v \in seen : v[n].id = job.walk[n]
<1>1. job.first \in Partial(FileIds) /\ job.walk \in Partial(FileIds)
  BY DEF PhaseInv, JobType
<1>2. /\ DOMAIN job.first \subseteq Names /\ job.first \in [DOMAIN job.first -> FileIds]
      /\ DOMAIN job.walk \subseteq Names /\ job.walk \in [DOMAIN job.walk -> FileIds]
  BY <1>1, PartialIs
<1>3. QED
  BY <1>2 DEF PhaseInv, WasSeen

(* Without a masked change a name that looks as at first looked so before  *)
(* the step.                                                               *)
LEMMA LookedBefore ==
  ASSUME PhaseInv, Outside, NEW n \in DOMAIN job.first, Looked(n)', "returned" \notin masked'
  PROVE  Looked(n) /\ ("rewritten" \notin masked' => View'[n] = View[n])
<1>1. n \in Names /\ job.first[n] \in FileIds /\ \E v \in seen : v[n].id = job.first[n]
  BY FirstIs
<1>2. Settled(n) /\ Identity(n)' = job.first[n]
  BY <1>1 DEF Outside, Looked
<1>3. QED
  BY <1>1, <1>2 DEF Settled, Looked

LEMMA OutsideContent ==
  ASSUME SnapshotInv, Outside
  PROVE  ContentInv'
<1> SUFFICES ASSUME masked' = {}
             PROVE  /\ job.phase = "copy" =>
                         /\ \A n \in DOMAIN job.first \ job.left :
                              Looked(n)' => copy[n] = View'[n].blocks
                         /\ job.open # NoFile /\ Looked(Here)' =>
                              Begins(copy[Here], View'[Here].blocks)
                    /\ job.phase \in {"relist", "rewalk"} =>
                         \A n \in DOMAIN job.first : Looked(n)' => copy[n] = View'[n].blocks
                    /\ job.phase = "rewalk" =>
                         \A n \in DOMAIN job.first :
                           /\ Looked(n)' => checked[n] = View'[n]
                           /\ n \in DOMAIN job.walk /\ job.walk[n] = job.first[n] =>
                                checked[n].id = job.first[n] /\ copy[n] = checked[n].blocks
                    /\ job.phase = "done" /\ job.kind = "csv" => copy = Contents(checked)
  BY DEF ContentInv, Outside, Looked, Here
<1>1. masked = {} /\ PhaseInv /\ CopyInv /\ ContentInv
  BY DEF Outside, SnapshotInv
<1>2. \A n \in DOMAIN job.first : Looked(n)' => Looked(n) /\ View'[n] = View[n]
  BY <1>1, LookedBefore
<1>3. job.phase = "copy" /\ job.open # NoFile => Here \in DOMAIN job.first
  <2>1. job.left \subseteq Names
    BY <1>1 DEF PhaseInv, JobType
  <2>2. QED
    BY <1>1, <2>1, LeastName DEF CopyInv, Here
<1>4. Here' = Here
  BY DEF Outside, Here
<1>5. CASE job.phase = "copy"
  <2>1. \A n \in DOMAIN job.first \ job.left : Looked(n)' => copy[n] = View'[n].blocks
    BY <1>1, <1>2, <1>5 DEF ContentInv
  <2>2. job.open # NoFile /\ Looked(Here)' => Begins(copy[Here], View'[Here].blocks)
    BY <1>1, <1>2, <1>3, <1>4, <1>5 DEF ContentInv
  <2>3. QED
    BY <1>5, <2>1, <2>2
<1>6. CASE job.phase # "copy"
  BY <1>1, <1>2, <1>6 DEF ContentInv
<1>7. QED
  BY <1>5, <1>6

LEMMA OutsideBackup ==
  ASSUME SnapshotInv, Outside
  PROVE  BackupInv'
<1>1. PhaseInv /\ BackupInv
  BY DEF SnapshotInv
<1>2. job' = job /\ copy' = copy /\ checked' = checked /\ seen \subseteq seen'
      /\ ("returned" \notin masked' => "returned" \notin masked)
  BY DEF Outside
<1>3. OfOneLook => OfOneLook'
  BY <1>2 DEF OfOneLook
<1>4. "returned" \notin masked' /\ job.name \in DOMAIN job.first /\ Looked(job.name)' =>
         Looked(job.name)
  <2>1. \A n \in DOMAIN job.first :
          "returned" \notin masked' /\ Looked(n)' => Looked(n)
    BY <1>1, LookedBefore
  <2>2. QED
    BY <1>2, <2>1
<1>5. /\ job'.phase \in SqlitePhases \ {"parent"} => DOMAIN job'.first = {job'.name}
      /\ job'.phase = "done" /\ job'.kind = "sqlite" => DOMAIN job'.first = {job'.name}
      /\ job'.phase \in {"backup", "batch", "last", "compare", "hash"} =>
           DOMAIN copy' = {job'.name}
  BY <1>1, <1>2 DEF BackupInv
<1>6. ASSUME "returned" \notin masked'
      PROVE  /\ job'.phase \in {"backup", "batch"} /\ Looked(job.name)' =>
                  job'.open = job'.first[job'.name][1]
             /\ job'.phase \in {"last", "compare"} /\ Looked(job.name)' => OfOneLook'
             /\ job'.phase = "hash" \/ (job'.phase = "done" /\ job'.kind = "sqlite") => OfOneLook'
  <2>1. job.phase \in {"backup", "batch", "last", "compare"} => job.name \in DOMAIN job.first
    BY <1>1 DEF BackupInv, SqlitePhases
  <2>2. QED
    BY <1>1, <1>2, <1>3, <1>4, <1>6, <2>1 DEF BackupInv
<1>7. job'.phase = "hash" \/ (job'.phase = "done" /\ job'.kind = "sqlite") =>
         checked'[job'.name].id = job'.first[job'.name]
  BY <1>1, <1>2 DEF BackupInv
<1>8. QED
  BY <1>2, <1>5, <1>6, <1>7 DEF BackupInv

LEMMA OutsideWalk ==
  ASSUME SnapshotInv, Outside
  PROVE  WalkInv'
<1>1. WalkInv /\ PhaseInv
  BY DEF SnapshotInv
<1>2. /\ job' = job /\ checked' = checked /\ seen \subseteq seen' /\ masked \subseteq masked'
      /\ \A n \in Names : dir'[n] = Directory <=> dir[n] = Directory
      /\ \A n \in Nested : StillGone(n)
  BY DEF Outside, DirectoriesStay
<1>3. {m \in Names : dir'[m] = Directory} = {m \in Names : dir[m] = Directory}
  BY <1>2
<1>4. Nested' = Nested /\ Nested \subseteq Names
  BY <1>3, NestedIs DEF Nested
<1>5. /\ \A n \in Names : WasGone(n) => WasGone(n)'
      /\ \A n \in Names : Covered(n) => Covered(n)'
  BY <1>2 DEF WasGone, Covered
<1>6. job.listed \subseteq Names /\ \A d \in Names : Under[d] \subseteq Names
  BY <1>1, SnapshotConstants DEF PhaseInv, JobType
<1>7. ASSUME job.phase \in {"walk", "rewalk"}
      PROVE  /\ \A d \in job.listed : dir'[d] = Directory /\ \A n \in Under[d] : Covered(n)'
             /\ \A n \in Names \ Nested : Covered(n)'
  BY <1>1, <1>2, <1>5, <1>6, <1>7 DEF WalkInv
<1>8. ASSUME job.phase \in {"copy", "relist", "rewalk"}, NEW n \in Names \ DOMAIN job.first
      PROVE  dir'[n] = Directory \/ WasGone(n)'
  BY <1>1, <1>2, <1>5, <1>8 DEF WalkInv
<1>9. ASSUME job.phase = "rewalk", "fleeting" \notin masked',
             NEW n \in Nested \ DOMAIN job.first, Identity(n)' = <<Absent>>
      PROVE  checked[n].id = <<Absent>>
  <2>1. "fleeting" \notin masked /\ n \in Names
    BY <1>2, <1>4, <1>9
  <2>2. CASE dir[n] = Directory
    <3>1. Identity(n)' = <<Directory>>
      <4>1. Directory \notin Inodes
        BY Markers
      <4>2. dir'[n] = Directory
        BY <1>2, <2>1, <2>2
      <4>3. QED
        BY <4>1, <4>2 DEF Identity, IsFile
    <3>2. <<Directory>> # <<Absent>>
      <4>1. \A a, b : <<a>> = <<b>> => a = b
        OBVIOUS
      <4>2. QED
        BY <4>1, Markers
    <3>3. QED
      BY <1>9, <3>1, <3>2
  <2>3. CASE dir[n] # Directory
    <3>1. WasGone(n)
      BY <1>1, <1>9, <2>1, <2>3 DEF WalkInv
    <3>2. Identity(n) = <<Absent>>
      BY <1>2, <1>9, <3>1 DEF StillGone
    <3>3. QED
      BY <1>1, <1>9, <2>1, <3>2 DEF WalkInv
  <2>4. QED
    BY <2>2, <2>3
<1>10. QED
  BY <1>2, <1>4, <1>7, <1>8, <1>9 DEF WalkInv

LEMMA OutsideKeeps ==
  ASSUME SnapshotInv, World \/ Expire
  PROVE  SnapshotInv' /\ Outside
<1>1. WorldInv' /\ HistoryInv' /\ Outside
  BY OutsideStep DEF SnapshotInv
<1>2. PhaseInv /\ CopyInv /\ SizeInv
  BY DEF SnapshotInv
<1>3. PhaseInv'
  BY <1>1, <1>2 DEF PhaseInv, Outside, WasSeen
<1>4. CopyInv'
  BY <1>1, <1>2 DEF CopyInv, Outside, Here
<1>5. SizeInv'
  BY <1>1, <1>2 DEF SizeInv, Outside, Pairs, BytesCopied
<1>6. QED
  BY <1>1, <1>3, <1>4, <1>5, OutsideContent, OutsideBackup, OutsideWalk DEF SnapshotInv

-----------------------------------------------------------------------------
(* What the snapshot does, while the sources stand still.                  *)

Inside ==
  /\ dir' = dir /\ file' = file /\ now' = now /\ written' = written
  /\ seen' = seen /\ masked' = masked
  /\ checked' \in {checked, View}

LEMMA InsideViews ==
  ASSUME SnapshotInv, Inside, expired' \in BOOLEAN
  PROVE  /\ WorldInv' /\ HistoryInv'
         /\ View' = View
         /\ \A n \in Names : Identity(n)' = Identity(n)
<1>1. View' = View /\ \A n \in Names : Identity(n)' = Identity(n)
  BY SameView DEF Inside
<1>2. WorldInv'
  BY DEF SnapshotInv, Inside, WorldInv
<1>3. HistoryInv'
  BY <1>1 DEF SnapshotInv, Inside, HistoryInv
<1>4. QED
  BY <1>1, <1>2, <1>3

LEMMA InsideNames ==
  ASSUME Inside
  PROVE  Nested' = Nested /\ \A n \in Names : WasGone(n)' <=> WasGone(n)
BY DEF Inside, Nested, WasGone

(* The parts of the invariant that say nothing of a phase.                 *)
LEMMA NoCsv ==
  ASSUME job'.phase \in SqlitePhases \cup {"idle", "refused"}
         \/ (job'.phase = "done" /\ job'.kind = "sqlite")
  PROVE  CopyInv' /\ WalkInv' /\ ContentInv'
<1>1. /\ job'.phase \notin {"list", "walk", "copy", "relist", "rewalk"}
      /\ ~(job'.phase = "done" /\ job'.kind = "csv")
  BY DEF SqlitePhases
<1>2. QED
  BY <1>1 DEF CopyInv, WalkInv, ContentInv

LEMMA NoBackup ==
  ASSUME job'.phase \in CsvPhases \cup {"idle", "refused", "parent"}
         \/ (job'.phase = "done" /\ job'.kind = "csv")
  PROVE  BackupInv'
<1>1. /\ job'.phase \notin {"connect", "backup", "batch", "last", "compare", "hash"}
      /\ ~(job'.phase = "done" /\ job'.kind = "sqlite")
  BY DEF CsvPhases
<1>2. QED
  BY <1>1 DEF BackupInv, SqlitePhases

(* What the first walk did not find stays so while its files are copied.   *)
LEMMA NoWalk ==
  ASSUME SnapshotInv, Inside, job.phase \in {"copy", "relist"},
         job'.phase \in {"copy", "relist"}, job'.first = job.first
  PROVE  WalkInv'
<1>1. \A n \in Names \ DOMAIN job.first : dir[n] = Directory \/ WasGone(n)
  BY DEF SnapshotInv, WalkInv
<1>2. \A n \in Names : WasGone(n)' <=> WasGone(n)
  BY DEF WasGone, Inside
<1>3. QED
  BY <1>1, <1>2 DEF WalkInv, Inside

LEMMA NoSize ==
  ASSUME job'.phase \in SqlitePhases \cup {"idle", "refused"}
  PROVE  SizeInv'
BY DEF SizeInv, CsvPhases, SqlitePhases

LEMMA RefuseKeeps ==
  ASSUME SnapshotInv, Inside, expired' = expired, Refuse
  PROVE  SnapshotInv'
<1> DEFINE j == [job EXCEPT !.phase = "refused", !.open = NoFile]
<1>1. PhaseInv /\ job \in JobType
  BY DEF SnapshotInv, PhaseInv
<1>2. /\ j \in JobType /\ j.phase = "refused" /\ j.open = NoFile
      /\ j.walk = job.walk /\ j.first = job.first /\ j.kind = job.kind
  BY <1>1 DEF JobType, Phases
<1>3. job' = j /\ copy' = NoCopy
  BY DEF Refuse
<1> HIDE DEF j
<1>4. PhaseInv'
  BY <1>1, <1>2, <1>3 DEF PhaseInv, WasSeen, Inside, CsvPhases, SqlitePhases
<1>5. WorldInv' /\ HistoryInv'
  BY InsideViews DEF SnapshotInv, WorldInv
<1>6. QED
  BY <1>2, <1>3, <1>4, <1>5, NoCsv, NoBackup, NoSize DEF SnapshotInv

LEMMA ListKeeps ==
  ASSUME SnapshotInv, Inside, expired' = expired, ListDirectory, ~expired
  PROVE  SnapshotInv'
<1> DEFINE to == IF job.phase = "list" THEN "walk" ELSE "rewalk"
           there == {n \in Names \ Nested : dir[n] # Absent}
           j == [job EXCEPT !.phase = to, !.left = there, !.listed = {}, !.walk = <<>>]
<1>1. /\ PhaseInv /\ CopyInv /\ WalkInv /\ ContentInv /\ SizeInv /\ WorldInv
      /\ job \in JobType /\ job.phase \in {"list", "relist"} /\ job.kind = "csv"
  BY DEF SnapshotInv, PhaseInv, ListDirectory, CsvPhases
<1>2. job' = j /\ checked' = View /\ copy' = copy
  BY DEF ListDirectory
<1>3. <<>> \in Partial(FileIds) /\ DOMAIN <<>> = {}
  BY NothingIs
<1>4. /\ j \in JobType /\ j.phase = to /\ j.left = there /\ j.listed = {} /\ j.walk = <<>>
      /\ j.first = job.first /\ j.kind = "csv" /\ j.open = job.open /\ j.limit = job.limit
      /\ to \in {"walk", "rewalk"} /\ (to = "walk" <=> job.phase = "list")
  BY <1>1, <1>3 DEF JobType, Phases, CsvPhases
<1>5. /\ WorldInv' /\ HistoryInv' /\ View' = View
      /\ \A n \in Names : Identity(n)' = Identity(n)
  BY InsideViews DEF SnapshotInv, WorldInv
<1>6. /\ View \in seen'
      /\ \A n \in Names : View[n].id = Identity(n)
      /\ \A n \in Names \ Nested : n \in there \/ View[n].id = <<Absent>>
  BY <1>1, <1>5, ViewFacts, IdentityIs DEF ViewOK, HistoryInv
<1> HIDE DEF j, to, there
<1>7. PhaseInv'
  BY <1>1, <1>2, <1>3, <1>4 DEF PhaseInv, WasSeen, Inside, CsvPhases, SqlitePhases
<1>8. CopyInv'
  BY <1>1, <1>2, <1>3, <1>4 DEF CopyInv
<1>9. ContentInv'
  <2>1. SUFFICES ASSUME masked = {}, to = "rewalk"
                 PROVE  \A n \in DOMAIN job.first :
                          Looked(n)' => copy[n] = View[n].blocks /\ checked'[n] = View[n]
    BY <1>2, <1>3, <1>4, <1>5 DEF ContentInv, Inside
  <2>2. \A n \in DOMAIN job.first : Looked(n)' => Looked(n)
    BY <1>1, <1>2, <1>4, <1>5, FirstIs DEF Looked
  <2>3. QED
    BY <1>1, <1>2, <1>4, <2>1, <2>2 DEF ContentInv
<1>10. SizeInv'
  BY <1>1, <1>2, <1>4 DEF SizeInv, Pairs, BytesCopied, CsvPhases
<1>11. WalkInv'
  <2>1. Nested' = Nested /\ Nested \subseteq Names /\ \A n \in Names : WasGone(n)' <=> WasGone(n)
    BY InsideNames, NestedIs
  <2>2. \A n \in Names \ Nested : Covered(n)'
    BY <1>2, <1>4, <1>6 DEF Covered, WasGone
  <2>3. to = "rewalk" => \A n \in Names \ DOMAIN job.first : dir[n] = Directory \/ WasGone(n)
    BY <1>1, <1>4 DEF WalkInv
  <2>4. \A n \in Names : Identity(n)' = <<Absent>> => View[n].id = <<Absent>>
    BY <1>5, <1>6
  <2>5. QED
    BY <1>2, <1>4, <2>1, <2>2, <2>3, <2>4 DEF WalkInv, Inside
<1>12. QED
  BY <1>2, <1>4, <1>5, <1>7, <1>8, <1>9, <1>10, <1>11, NoBackup DEF SnapshotInv, CsvPhases

LEMMA ListSubKeeps ==
  ASSUME SnapshotInv, Inside, expired' = expired, ListSubdirectory, ~expired
  PROVE  SnapshotInv'
<1> DEFINE h == Here
           below == {n \in Under[h] : dir[n] # Absent}
           j == [job EXCEPT !.left = (@ \ {h}) \cup below, !.listed = @ \cup {h}]
<1>1. /\ PhaseInv /\ CopyInv /\ WalkInv /\ ContentInv /\ SizeInv /\ WorldInv /\ HistoryInv
      /\ job \in JobType /\ job.phase \in {"walk", "rewalk"} /\ job.kind = "csv"
      /\ job.left # {} /\ job.left \subseteq Names /\ job.listed \subseteq Names
      /\ dir[h] = Directory
  BY DEF SnapshotInv, PhaseInv, ListSubdirectory, CsvPhases, JobType
<1>2. job' = j /\ copy' = copy /\ checked' = checked
  BY DEF ListSubdirectory, Continue, history
<1>3. h \in job.left /\ h \in Names
  BY <1>1, LeastName DEF Here
<1> HIDE DEF h
<1>4. Under[h] \subseteq Names /\ Under[h] \subseteq Nested /\ below \subseteq Names
  BY <1>1, <1>3, SnapshotConstants DEF Nested
<1>5. \A n \in Under[h] : n \in below \/ (Identity(n) = <<Absent>> /\ View[n].id = <<Absent>>)
  BY <1>1, <1>4, ViewFacts, IdentityIs DEF ViewOK
<1> HIDE DEF below
<1>6. /\ j \in JobType /\ j.phase = job.phase /\ j.left = (job.left \ {h}) \cup below
      /\ j.listed = job.listed \cup {h} /\ j.walk = job.walk
      /\ j.first = job.first /\ j.kind = "csv" /\ j.open = job.open /\ j.limit = job.limit
  BY <1>1, <1>3, <1>4 DEF JobType
<1> HIDE DEF j
<1>7. /\ WorldInv' /\ HistoryInv' /\ View' = View /\ View \in seen
      /\ \A n \in Names : Identity(n)' = Identity(n)
  BY <1>1, InsideViews DEF SnapshotInv, WorldInv, HistoryInv
<1>8. PhaseInv'
  BY <1>1, <1>2, <1>6 DEF PhaseInv, WasSeen, Inside, CsvPhases, SqlitePhases
<1>9. CopyInv'
  BY <1>1, <1>2, <1>6 DEF CopyInv
<1>10. WalkInv'
  <2>1. Nested' = Nested /\ Nested \subseteq Names /\ \A n \in Names : WasGone(n)' <=> WasGone(n)
    BY InsideNames, NestedIs
  <2>2. \A n \in Names : Covered(n) => Covered(n)'
    BY <1>2, <1>6, <2>1 DEF Covered, Inside
  <2>3. ASSUME NEW n \in Under[h]
        PROVE  Covered(n)'
    <3>1. n \in Names /\ n \in Nested
      BY <1>4
    <3>2. CASE n \in below
      BY <1>2, <1>6, <3>2 DEF Covered
    <3>3. CASE Identity(n) = <<Absent>> /\ job.phase = "walk"
      <4>1. WasGone(n)
        BY <1>5, <1>7, <3>1, <3>3, ViewFacts, <1>1 DEF WasGone, ViewOK
      <4>2. QED
        BY <1>2, <1>6, <2>1, <3>1, <3>3, <4>1 DEF Covered
    <3>4. CASE Identity(n) = <<Absent>> /\ job.phase = "rewalk"
      <4>1. n \in DOMAIN job.first \/ "fleeting" \in masked \/ checked[n].id = <<Absent>>
        BY <1>1, <3>1, <3>4 DEF WalkInv
      <4>2. QED
        BY <1>2, <1>6, <3>4, <4>1 DEF Covered, Inside
    <3>5. QED
      BY <1>1, <1>5, <3>2, <3>3, <3>4
  <2>4. ASSUME NEW d \in job'.listed
        PROVE  dir'[d] = Directory /\ \A n \in Under[d] : Covered(n)'
    <3>1. CASE d = h
      BY <1>1, <2>3, <3>1 DEF Inside, h
    <3>2. CASE d \in job.listed
      <4>1. dir[d] = Directory /\ (\A n \in Under[d] : Covered(n)) /\ Under[d] \subseteq Names
        BY <1>1, <3>2, SnapshotConstants DEF WalkInv
      <4>2. QED
        BY <2>2, <4>1 DEF Inside
    <3>3. QED
      BY <1>2, <1>6, <3>1, <3>2
  <2>5. \A n \in Names \ Nested : Covered(n)'
    BY <1>1, <2>2 DEF WalkInv
  <2>6. job.phase = "rewalk" =>
          \A n \in Names \ DOMAIN job.first : dir'[n] = Directory \/ WasGone(n)'
    BY <1>1, <2>1 DEF WalkInv, Inside
  <2>7. job.phase = "rewalk" /\ "fleeting" \notin masked =>
          \A n \in Nested \ DOMAIN job.first :
            Identity(n)' = <<Absent>> => checked[n].id = <<Absent>>
    BY <1>1, <1>7, <2>1 DEF WalkInv
  <2>8. QED
    BY <1>1, <1>2, <1>6, <2>1, <2>4, <2>5, <2>6, <2>7 DEF WalkInv, Inside
<1>11. ContentInv'
  <2>1. \A n \in DOMAIN job.first : Looked(n)' <=> Looked(n)
    BY <1>1, <1>2, <1>6, <1>7, FirstIs DEF Looked
  <2>2. QED
    BY <1>1, <1>2, <1>6, <1>7, <2>1 DEF ContentInv, Inside
<1>12. SizeInv'
  BY <1>1, <1>2, <1>6 DEF SizeInv, Pairs, BytesCopied, CsvPhases
<1>13. QED
  BY <1>1, <1>2, <1>6, <1>7, <1>8, <1>9, <1>10, <1>11, <1>12, NoBackup DEF SnapshotInv, CsvPhases

LEMMA StatKeeps ==
  ASSUME SnapshotInv, Inside, expired' = expired, StatEntry, ~expired, IsFile(Here)
  PROVE  SnapshotInv'
<1> DEFINE h == Here
           walk == With(job.walk, h, Identity(h))
           j == [job EXCEPT !.left = @ \ {h}, !.walk = walk]
<1>1. /\ PhaseInv /\ CopyInv /\ WalkInv /\ ContentInv /\ SizeInv /\ WorldInv /\ HistoryInv
      /\ job \in JobType /\ job.phase \in {"walk", "rewalk"} /\ job.kind = "csv"
      /\ job.left # {} /\ job.left \subseteq Names
  BY DEF SnapshotInv, PhaseInv, StatEntry, CsvPhases, JobType
<1>2. job' = j /\ copy' = copy /\ checked' = checked
  BY DEF StatEntry, Continue, history
<1>3. h \in job.left /\ h \in Names
  BY <1>1, LeastName DEF Here
<1>4. Identity(h) \in FileIds /\ View[h].id = Identity(h) /\ View \in seen
  BY <1>1, <1>3, ViewFacts DEF ViewOK, HistoryInv
<1>5. job.walk \in Partial(FileIds)
  BY <1>1 DEF JobType
<1> HIDE DEF h
<1>6. /\ walk \in Partial(FileIds) /\ DOMAIN walk = DOMAIN job.walk \cup {h}
      /\ walk[h] = Identity(h) /\ \A m \in DOMAIN job.walk \ {h} : walk[m] = job.walk[m]
  <2>1. PICK w \in Partial(FileIds) : w = job.walk
    BY <1>5
  <2>2. PICK id \in FileIds : id = Identity(h)
    BY <1>4
  <2>3. walk = With(w, h, id)
    BY <2>1, <2>2
  <2> HIDE DEF walk
  <2>4. /\ With(w, h, id) \in Partial(FileIds) /\ DOMAIN With(w, h, id) = DOMAIN w \cup {h}
        /\ With(w, h, id)[h] = id /\ \A m \in DOMAIN w \ {h} : With(w, h, id)[m] = w[m]
    BY <1>3, WithIs
  <2>5. QED
    BY <2>1, <2>2, <2>3, <2>4
<1> HIDE DEF walk
<1>7. /\ j \in JobType /\ j.phase = job.phase /\ j.left = job.left \ {h} /\ j.walk = walk
      /\ j.listed = job.listed
      /\ j.first = job.first /\ j.kind = "csv" /\ j.open = job.open /\ j.limit = job.limit
  BY <1>1, <1>6 DEF JobType
<1>8. /\ WorldInv' /\ HistoryInv' /\ View' = View
      /\ \A n \in Names : Identity(n)' = Identity(n)
  BY InsideViews DEF SnapshotInv, WorldInv
<1> HIDE DEF j
<1>9. PhaseInv'
  <2>1. WasSeen(walk)
    BY <1>1, <1>4, <1>6 DEF WasSeen, PhaseInv
  <2>2. QED
    BY <1>1, <1>2, <1>7, <2>1 DEF PhaseInv, WasSeen, Inside, CsvPhases, SqlitePhases
<1>10. CopyInv'
  BY <1>1, <1>2, <1>7 DEF CopyInv
<1>11. ContentInv'
  <2>1. SUFFICES ASSUME masked = {}, job.phase = "rewalk", NEW n \in DOMAIN job.first
                 PROVE  /\ Looked(n)' => copy[n] = View[n].blocks /\ checked[n] = View[n]
                        /\ n \in DOMAIN walk /\ walk[n] = job.first[n] =>
                             checked[n].id = job.first[n] /\ copy[n] = checked[n].blocks
    BY <1>1, <1>2, <1>7, <1>8 DEF ContentInv, Inside
  <2>2. n \in Names /\ (Looked(n)' <=> Looked(n))
    BY <1>1, <1>2, <1>7, <1>8, FirstIs DEF Looked
  <2>3. Looked(n) => copy[n] = View[n].blocks /\ checked[n] = View[n]
    BY <1>1, <2>1 DEF ContentInv
  <2>4. CASE n = h
    BY <1>4, <1>6, <2>2, <2>3, <2>4 DEF Looked
  <2>5. CASE n # h
    BY <1>1, <1>6, <2>1, <2>2, <2>3, <2>5 DEF ContentInv
  <2>6. QED
    BY <2>4, <2>5
<1>12. SizeInv'
  BY <1>1, <1>2, <1>7 DEF SizeInv, Pairs, BytesCopied, CsvPhases
<1>13. WalkInv'
  <2>1. Nested' = Nested /\ Nested \subseteq Names /\ \A n \in Names : WasGone(n)' <=> WasGone(n)
    BY InsideNames, NestedIs
  <2>2. \A n \in Names : Covered(n) => Covered(n)'
    BY <1>2, <1>6, <1>7, <2>1 DEF Covered, Inside
  <2>3. \A d \in job.listed : d \in Names /\ Under[d] \subseteq Names
    BY <1>1, SnapshotConstants DEF JobType
  <2>4. /\ \A d \in job.listed : dir'[d] = Directory /\ \A n \in Under[d] : Covered(n)'
        /\ \A n \in Names \ Nested : Covered(n)'
    BY <1>1, <2>2, <2>3 DEF WalkInv, Inside
  <2>5. job.phase = "rewalk" =>
          \A n \in Names \ DOMAIN job.first : dir'[n] = Directory \/ WasGone(n)'
    BY <1>1, <2>1 DEF WalkInv, Inside
  <2>6. job.phase = "rewalk" /\ "fleeting" \notin masked =>
          \A n \in Nested \ DOMAIN job.first :
            Identity(n)' = <<Absent>> => checked[n].id = <<Absent>>
    BY <1>1, <1>8, <2>1 DEF WalkInv
  <2>7. QED
    BY <1>1, <1>2, <1>7, <2>1, <2>4, <2>5, <2>6 DEF WalkInv, Inside
<1>14. QED
  BY <1>1, <1>2, <1>7, <1>8, <1>9, <1>10, <1>11, <1>12, <1>13, NoBackup DEF SnapshotInv, CsvPhases

(* A walk that is through has listed every subdirectory, the least that it *)
(* had not listed being below one that it had.                             *)
LEMMA AllListed ==
  ASSUME SnapshotInv, job.phase \in {"walk", "rewalk"}, job.left = {},
         job.phase = "rewalk" => "fleeting" \notin masked
  PROVE  \A d \in Names : dir[d] = Directory => d \in job.listed
<1> DEFINE S == {d \in Names : dir[d] = Directory /\ d \notin job.listed}
<1>1. WorldInv /\ HistoryInv /\ PhaseInv /\ WalkInv
  BY DEF SnapshotInv
<1> SUFFICES ASSUME S # {}
             PROVE  FALSE
  OBVIOUS
<1>2. S \in SUBSET Nat
  BY SnapshotConstants
<1>3. Min(S) \in S /\ \A d \in S : Min(S) =< d
  <2> HIDE DEF S
  <2>1. QED
    BY <1>2, LeastIsThere
<1>4. PICK m \in S : \A d \in S : m =< d
  BY <1>3
<1>5. m \in Names /\ dir[m] = Directory /\ m \notin job.listed
  OBVIOUS
<1>6. Covered(m)
  <2>1. CASE m \in Nested
    <3>1. PICK d \in Names : dir[d] = Directory /\ m \in Under[d]
      BY <2>1 DEF Nested
    <3>2. d < m /\ d \in Nat /\ m \in Nat
      BY <1>5, <3>1, SnapshotConstants
    <3>3. d \in job.listed
      BY <1>4, <3>1, <3>2
    <3>4. QED
      BY <1>1, <3>1, <3>3 DEF WalkInv
  <2>2. CASE m \notin Nested
    BY <1>1, <1>5, <2>2 DEF WalkInv
  <2>3. QED
    BY <2>1, <2>2
<1>7. \A v \in seen : v[m].id = <<Directory>>
  BY <1>1, <1>5 DEF HistoryInv
<1>8. m \notin DOMAIN job.walk /\ m \notin DOMAIN job.first
  BY <1>1, <1>7, FirstIs, AbsentIsNoFile
<1>9. ~WasGone(m) /\ checked[m].id # <<Absent>>
  <2>1. <<Directory>> # <<Absent>>
    <3>1. \A a, b : <<a>> = <<b>> => a = b
      OBVIOUS
    <3>2. QED
      BY <3>1, Markers
  <2>2. QED
    BY <1>1, <1>7, <2>1 DEF WasGone, HistoryInv
<1>10. QED
  BY <1>5, <1>6, <1>8, <1>9 DEF Covered

LEMMA AllCovered ==
  ASSUME SnapshotInv, job.phase \in {"walk", "rewalk"}, job.left = {},
         job.phase = "rewalk" => "fleeting" \notin masked, NEW n \in Names
  PROVE  Covered(n) /\ (n \in job.listed => dir[n] = Directory)
<1>1. WalkInv
  BY DEF SnapshotInv
<1>2. CASE n \in Nested
  <2>1. PICK d \in Names : dir[d] = Directory /\ n \in Under[d]
    BY <1>2 DEF Nested
  <2>2. d \in job.listed
    BY <2>1, AllListed
  <2>3. QED
    BY <1>1, <2>1, <2>2 DEF WalkInv
<1>3. CASE n \notin Nested
  BY <1>1, <1>3 DEF WalkInv
<1>4. QED
  BY <1>2, <1>3

LEMMA BeginCopiesKeeps ==
  ASSUME SnapshotInv, Inside, expired' = expired, BeginCopies
  PROVE  SnapshotInv'
<1> DEFINE j == [job EXCEPT !.phase = "copy", !.first = job.walk, !.left = DOMAIN job.walk]
<1>1. /\ PhaseInv /\ CopyInv /\ SizeInv
      /\ job \in JobType /\ job.phase = "walk" /\ job.kind = "csv" /\ job.open = NoFile
      /\ copy = <<>> /\ job.left = {}
  BY DEF SnapshotInv, PhaseInv, CopyInv, BeginCopies, CsvPhases
<1>2. job' = j /\ copy' = copy /\ checked' = checked
  BY DEF BeginCopies, Continue, history
<1>3. DOMAIN job.walk \subseteq Names /\ job.walk \in Partial(FileIds)
  BY <1>1, FirstIs DEF JobType
<1>4. /\ j \in JobType /\ j.phase = "copy" /\ j.left = DOMAIN job.walk /\ j.walk = job.walk
      /\ j.first = job.walk /\ j.kind = "csv" /\ j.open = NoFile /\ j.limit = job.limit
  BY <1>1, <1>3 DEF JobType, Phases, CsvPhases
<1> HIDE DEF j
<1>5. WorldInv' /\ HistoryInv'
  BY InsideViews DEF SnapshotInv, WorldInv
<1>6. PhaseInv'
  BY <1>1, <1>2, <1>4 DEF PhaseInv, WasSeen, Inside, CsvPhases, SqlitePhases
<1>7. CopyInv'
  BY <1>1, <1>2, <1>4, NothingIs DEF CopyInv
<1>8. ContentInv'
  BY <1>2, <1>4 DEF ContentInv
<1>9. SizeInv'
  BY <1>1, <1>2, <1>4 DEF SizeInv, Pairs, BytesCopied, CsvPhases
<1>10. WalkInv'
  <2>1. \A n \in Names \ DOMAIN job.walk : dir[n] = Directory \/ WasGone(n)
    BY <1>1, AllCovered DEF Covered
  <2>2. QED
    BY <1>2, <1>4, <2>1, InsideNames DEF WalkInv, Inside
<1>11. QED
  BY <1>2, <1>4, <1>5, <1>6, <1>7, <1>8, <1>9, <1>10, NoBackup DEF SnapshotInv, CsvPhases

LEMMA OpenKeeps ==
  ASSUME SnapshotInv, Inside, expired' = expired, OpenFile, ~expired,
         Identity(Here) = job.first[Here]
  PROVE  SnapshotInv'
<1> DEFINE h == Here
           i == dir[h]
           j == [job EXCEPT !.open = i]
<1>1. /\ PhaseInv /\ CopyInv /\ ContentInv /\ SizeInv /\ WorldInv /\ HistoryInv
      /\ job \in JobType /\ job.phase = "copy" /\ job.kind = "csv" /\ job.open = NoFile
      /\ job.left # {} /\ job.left \subseteq Names /\ job.left \subseteq DOMAIN job.first
      /\ DOMAIN copy = DOMAIN job.first \ job.left
      /\ copy \in Partial(Seq(Nat))
  BY DEF SnapshotInv, PhaseInv, CopyInv, OpenFile, CsvPhases, JobType
<1>2. job' = j /\ copy' = With(copy, h, <<>>) /\ checked' = checked
  BY DEF OpenFile, history
<1>3. h \in job.left /\ h \in Names /\ h \in DOMAIN job.first /\ h \notin DOMAIN copy
  BY <1>1, LeastName DEF Here
<1>4. job.first[h] \in FileIds
  BY <1>1, <1>3, FirstIs
<1>5. i \in Inodes /\ i = job.first[h][1] /\ i # NoFile
  BY <1>1, <1>3, <1>4, IdentityIs, Markers
<1> HIDE DEF h, i
<1>6. /\ copy' \in Partial(Seq(Nat)) /\ DOMAIN copy' = DOMAIN copy \cup {h}
      /\ copy'[h] = <<>> /\ \A m \in DOMAIN copy : copy'[m] = copy[m]
  <2> DEFINE S == Seq(Nat)
  <2>1. PICK e \in S : e = <<>>
    BY EmptySeq
  <2> HIDE DEF S
  <2>2. PICK c \in Partial(S) : c = copy
    BY <1>1 DEF S
  <2>3. h \in Names
    BY <1>3
  <2>4. /\ With(c, h, e) \in Partial(S) /\ DOMAIN With(c, h, e) = DOMAIN c \cup {h}
        /\ With(c, h, e)[h] = e /\ \A m \in DOMAIN c \ {h} : With(c, h, e)[m] = c[m]
    BY ONLY <2>3, WithIs
  <2>5. copy' = With(c, h, e)
    BY <1>2, <2>1, <2>2
  <2>6. copy' \in Partial(S) /\ DOMAIN copy' = (DOMAIN copy) \cup {h} /\ copy'[h] = <<>>
    BY <2>1, <2>2, <2>4, <2>5
  <2>7. \A m \in DOMAIN copy : copy'[m] = copy[m]
    BY <1>3, <2>2, <2>4, <2>5
  <2>8. QED
    BY <2>6, <2>7 DEF S
<1>7. /\ j \in JobType /\ j.phase = "copy" /\ j.left = job.left /\ j.walk = job.walk
      /\ j.first = job.first /\ j.kind = "csv" /\ j.open = i /\ j.limit = job.limit
  BY <1>1, <1>5 DEF JobType
<1>8. /\ WorldInv' /\ HistoryInv' /\ View' = View
      /\ \A n \in Names : Identity(n)' = Identity(n)
  BY InsideViews DEF SnapshotInv, WorldInv
<1> HIDE DEF j
<1>9. Here' = h
  BY <1>2, <1>7 DEF Here, h
<1>10. PhaseInv'
  <2>1. copy' # NoCopy
    BY <1>6, NoCopyIsNone
  <2>2. QED
    BY <1>1, <1>2, <1>5, <1>6, <1>7, <2>1 DEF PhaseInv, WasSeen, Inside, CsvPhases, SqlitePhases
<1>11. CopyInv'
  BY <1>1, <1>2, <1>5, <1>6, <1>7, <1>9 DEF CopyInv
<1>12. ContentInv'
  <2>1. SUFFICES ASSUME masked = {}
                 PROVE  /\ \A n \in DOMAIN job.first \ job.left :
                             Looked(n)' => copy'[n] = View[n].blocks
                        /\ Begins(copy'[h], View[h].blocks)
    BY <1>2, <1>7, <1>8, <1>9 DEF ContentInv, Inside
  <2>2. ASSUME NEW n \in DOMAIN job.first \ job.left, Looked(n)'
        PROVE  copy'[n] = View[n].blocks
    <3>1. n \in Names /\ Looked(n) /\ n \in DOMAIN copy
      BY <1>1, <1>2, <1>7, <1>8, <2>2, FirstIs DEF Looked
    <3>2. QED
      BY <1>1, <1>6, <2>1, <2>2, <3>1 DEF ContentInv
  <2>3. View[h].blocks \in Seq(Nat)
    BY <1>1, <1>3, ViewFacts DEF ViewOK, Views
  <2>4. Len(View[h].blocks) \in Nat /\ Len(<<>>) = 0
    BY <2>3, LenProperties, EmptySeq
  <2>5. Begins(copy'[h], View[h].blocks)
    BY <1>6, <2>4 DEF Begins
  <2>6. QED
    BY <2>2, <2>5
<1>13. SizeInv'
  <2>1. DOMAIN <<>> = {}
    BY NothingIs
  <2>2. UNION {{n} \X DOMAIN copy'[n] : n \in DOMAIN copy'}
          = UNION {{n} \X DOMAIN copy[n] : n \in DOMAIN copy}
    BY <1>6, <2>1
  <2>3. Pairs' = Pairs /\ BytesCopied' = BytesCopied
    BY <2>2 DEF Pairs, BytesCopied
  <2>4. QED
    BY <1>1, <1>2, <1>7, <2>3 DEF SizeInv, CsvPhases
<1>14. WalkInv'
  BY <1>1, <1>2, <1>7, NoWalk
<1>15. QED
  BY <1>2, <1>7, <1>8, <1>10, <1>11, <1>12, <1>13, <1>14, NoBackup DEF SnapshotInv, CsvPhases

(* The file that is open while it is copied.                               *)
LEMMA OpenIs ==
  ASSUME SnapshotInv, job.kind = "csv", job.open # NoFile
  PROVE  /\ job.phase = "copy" /\ job.left # {} /\ job.left \subseteq Names
         /\ Here \in job.left /\ Here \in Names /\ Here \in DOMAIN job.first
         /\ copy \in Partial(Seq(Nat)) /\ copy \in [DOMAIN copy -> Seq(Nat)]
         /\ DOMAIN copy = (DOMAIN job.first \ job.left) \cup {Here}
         /\ copy[Here] \in Seq(Nat)
         /\ job.open \in Inodes /\ file[job.open].blocks \in Seq(Nat)
         /\ Looked(Here) => View[Here].blocks = file[job.open].blocks
<1>1. WorldInv /\ PhaseInv /\ CopyInv
  BY DEF SnapshotInv
<1>2. /\ job.phase = "copy" /\ job.left # {} /\ job.left \subseteq Names
      /\ job.open \in Inodes /\ copy \in Partial(Seq(Nat))
  BY <1>1 DEF PhaseInv, CopyInv, JobType, SqlitePhases
<1>3. Here \in job.left /\ Here \in Names
  BY <1>2, LeastName DEF Here
<1>4. /\ Here \in DOMAIN job.first /\ job.open = job.first[Here][1]
      /\ DOMAIN copy = (DOMAIN job.first \ job.left) \cup {Here}
  BY <1>1, <1>2, <1>3 DEF CopyInv
<1>5. copy \in [DOMAIN copy -> Seq(Nat)] /\ copy[Here] \in Seq(Nat)
  <2>1. copy \in [DOMAIN copy -> Seq(Nat)]
    BY <1>2, PartialIs
  <2>2. QED
    BY <1>4, <2>1
<1>6. file[job.open].blocks \in Seq(Nat)
  BY <1>1, <1>2, FileBlocks
<1>7. ASSUME Looked(Here)
      PROVE  View[Here].blocks = file[job.open].blocks
  <2>1. Identity(Here) = job.first[Here] /\ job.first[Here] \in FileIds
    BY <1>1, <1>4, <1>7, FirstIs DEF Looked
  <2>2. IsFile(Here) /\ dir[Here] = job.open
    BY <1>1, <1>3, <1>4, <2>1, IdentityIs
  <2>3. QED
    BY <1>1, <1>3, <2>2, ViewIs
<1>8. QED
  BY <1>2, <1>3, <1>4, <1>5, <1>6, <1>7

LEMMA ReadKeeps ==
  ASSUME SnapshotInv, Inside, expired' = expired, ReadChunk, ~expired,
         ~(BytesCopied + 1 > job.limit)
  PROVE  SnapshotInv'
<1> DEFINE h == Here
           c == copy[h]
           f == file[job.open].blocks
           u == Append(c, f[Len(c) + 1])
<1>1. /\ PhaseInv /\ CopyInv /\ ContentInv /\ SizeInv
      /\ job \in JobType /\ job.kind = "csv" /\ job.open # NoFile
      /\ Len(copy[Here]) < Len(file[job.open].blocks)
  BY DEF SnapshotInv, PhaseInv, ReadChunk
<1>2. job' = job /\ copy' = [copy EXCEPT ![h] = u] /\ checked' = checked
  BY DEF ReadChunk, history
<1>3. /\ job.phase = "copy" /\ h \in job.left /\ h \in DOMAIN job.first
      /\ copy \in [DOMAIN copy -> Seq(Nat)]
      /\ DOMAIN copy = (DOMAIN job.first \ job.left) \cup {h}
      /\ c \in Seq(Nat) /\ f \in Seq(Nat) /\ Len(c) < Len(f)
      /\ Looked(h) => View[h].blocks = f
      /\ DOMAIN copy \subseteq Names
  BY <1>1, OpenIs, PartialIs
<1>4. /\ u \in Seq(Nat) /\ DOMAIN u = (DOMAIN c) \cup {Len(c) + 1}
      /\ Len(c) + 1 \notin DOMAIN c
      /\ Begins(c, f) => Begins(u, f)
  <2> HIDE DEF c, f
  <2>1. QED
    BY <1>3, NextOfIt
<1>5. /\ WorldInv' /\ HistoryInv' /\ View' = View
      /\ \A n \in Names : Identity(n)' = Identity(n)
  BY InsideViews DEF SnapshotInv, WorldInv
<1>6. Here' = h
  BY <1>2 DEF Here
<1> HIDE DEF u, c, f, h
<1>7. /\ copy' \in [DOMAIN copy -> Seq(Nat)] /\ DOMAIN copy' = DOMAIN copy
      /\ copy'[h] = u /\ \A n \in DOMAIN copy \ {h} : copy'[n] = copy[n]
  BY <1>2, <1>3, <1>4
<1>8. PhaseInv'
  <2>1. copy' \in Partial(Seq(Nat))
    BY <1>3, <1>7, PartialIs
  <2>2. copy' # NoCopy
    BY <2>1, NoCopyIsNone
  <2>3. QED
    BY <1>1, <1>2, <1>3, <2>1, <2>2 DEF PhaseInv, WasSeen, Inside
<1>9. CopyInv'
  BY <1>1, <1>2, <1>3, <1>6, <1>7 DEF CopyInv, h
<1>10. ContentInv'
  <2>1. SUFFICES ASSUME masked = {}
                 PROVE  /\ \A n \in DOMAIN job.first \ job.left :
                             Looked(n)' => copy'[n] = View[n].blocks
                        /\ Looked(Here)' => Begins(copy'[h], View[h].blocks)
    BY <1>2, <1>3, <1>5, <1>6 DEF ContentInv, Inside
  <2>2. \A n \in DOMAIN job.first : Looked(n)' => Looked(n)
    BY <1>1, <1>2, <1>5, FirstIs DEF Looked
  <2>3. Looked(Here)' => Looked(h)
    BY <1>1, <1>2, <1>3, <1>5, <1>6, FirstIs DEF Looked
  <2>4. \A n \in DOMAIN job.first \ job.left : Looked(n)' => copy'[n] = View[n].blocks
    BY <1>1, <1>3, <1>7, <2>1, <2>2 DEF ContentInv
  <2>5. Looked(h) => Begins(c, f)
    BY <1>1, <1>3, <2>1 DEF ContentInv, h, c
  <2>6. QED
    BY <1>3, <1>4, <1>7, <2>3, <2>4, <2>5
<1>11. SizeInv'
  <2>1. Pairs' = Pairs \cup {<<h, Len(c) + 1>>} /\ <<h, Len(c) + 1>> \notin Pairs
    BY <1>3, <1>4, <1>7 DEF Pairs, c
  <2>2. IsFiniteSet(Pairs)
    BY <1>1, <1>3 DEF SizeInv, CsvPhases
  <2>3. IsFiniteSet(Pairs') /\ Cardinality(Pairs') = Cardinality(Pairs) + 1
    BY <2>1, <2>2, FS_AddElement
  <2>4. BytesCopied' = BytesCopied + 1
    BY <2>3 DEF BytesCopied, Pairs
  <2>5. BytesCopied \in Nat /\ job.limit \in Nat
    BY <1>1, <2>2, FS_CardinalityType DEF BytesCopied, Pairs, JobType
  <2>6. BytesCopied' <= job.limit
    BY <2>4, <2>5
  <2>7. QED
    BY <1>2, <2>3, <2>6 DEF SizeInv
<1>12. WalkInv'
  BY <1>1, <1>2, <1>3, NoWalk
<1>13. QED
  BY <1>2, <1>3, <1>5, <1>8, <1>9, <1>10, <1>11, <1>12, NoBackup DEF SnapshotInv, CsvPhases

LEMMA EndOfFileKeeps ==
  ASSUME SnapshotInv, Inside, expired' = expired, EndOfFile, ~expired,
         Len(copy[Here]) = job.first[Here][2]
  PROVE  SnapshotInv'
<1> DEFINE h == Here
           j == [job EXCEPT !.left = @ \ {h}, !.open = NoFile]
<1>1. /\ PhaseInv /\ CopyInv /\ ContentInv /\ SizeInv /\ WorldInv
      /\ job \in JobType /\ job.kind = "csv" /\ job.open # NoFile
      /\ Len(copy[h]) >= Len(file[job.open].blocks)
  BY DEF SnapshotInv, PhaseInv, EndOfFile
<1>2. job' = j /\ copy' = copy /\ checked' = checked
  BY DEF EndOfFile, Continue, history
<1>3. /\ job.phase = "copy" /\ h \in job.left /\ h \in DOMAIN job.first
      /\ DOMAIN copy = (DOMAIN job.first \ job.left) \cup {h}
      /\ job.left \subseteq DOMAIN job.first
      /\ copy[h] \in Seq(Nat) /\ file[job.open].blocks \in Seq(Nat)
      /\ Looked(h) => View[h].blocks = file[job.open].blocks
  BY <1>1, OpenIs DEF CopyInv
<1> HIDE DEF h
<1>4. /\ j \in JobType /\ j.phase = "copy" /\ j.left = job.left \ {h} /\ j.walk = job.walk
      /\ j.first = job.first /\ j.kind = "csv" /\ j.open = NoFile /\ j.limit = job.limit
  BY <1>1, <1>3 DEF JobType
<1> HIDE DEF j
<1>5. /\ WorldInv' /\ HistoryInv' /\ View' = View
      /\ \A n \in Names : Identity(n)' = Identity(n)
  BY InsideViews DEF SnapshotInv, WorldInv
<1>6. PhaseInv'
  BY <1>1, <1>2, <1>3, <1>4 DEF PhaseInv, WasSeen, Inside, CsvPhases, SqlitePhases
<1>7. CopyInv'
  BY <1>2, <1>3, <1>4 DEF CopyInv
<1>8. ContentInv'
  <2>1. SUFFICES ASSUME masked = {}, NEW n \in DOMAIN job.first \ (job.left \ {h}), Looked(n)'
                 PROVE  copy[n] = View[n].blocks
    BY <1>2, <1>4, <1>5 DEF ContentInv, Inside
  <2>2. Looked(n)
    BY <1>1, <1>2, <1>4, <1>5, <2>1, FirstIs DEF Looked
  <2>3. CASE n = h
    <3>1. Begins(copy[h], View[h].blocks)
      BY <1>1, <1>3, <2>1, <2>2, <2>3 DEF ContentInv, h
    <3>2. QED
      BY <1>1, <1>3, <2>2, <2>3, <3>1, AllOfIt
  <2>4. CASE n # h
    BY <1>1, <1>3, <2>1, <2>2, <2>4 DEF ContentInv
  <2>5. QED
    BY <2>3, <2>4
<1>9. SizeInv'
  BY <1>1, <1>2, <1>3, <1>4 DEF SizeInv, Pairs, BytesCopied, CsvPhases
<1>10. WalkInv'
  BY <1>1, <1>2, <1>3, <1>4, NoWalk
<1>11. QED
  BY <1>2, <1>4, <1>5, <1>6, <1>7, <1>8, <1>9, <1>10, NoBackup DEF SnapshotInv, CsvPhases

LEMMA EndCopiesKeeps ==
  ASSUME SnapshotInv, Inside, expired' = expired, EndCopies
  PROVE  SnapshotInv'
<1> DEFINE j == [job EXCEPT !.phase = "relist"]
<1>1. /\ PhaseInv /\ CopyInv /\ ContentInv /\ SizeInv /\ WorldInv
      /\ job \in JobType /\ job.phase = "copy" /\ job.kind = "csv" /\ job.left = {}
      /\ job.open = NoFile /\ DOMAIN copy = DOMAIN job.first
  BY DEF SnapshotInv, PhaseInv, CopyInv, EndCopies, CsvPhases
<1>2. job' = j /\ copy' = copy /\ checked' = checked
  BY DEF EndCopies, Continue, history
<1>3. /\ j \in JobType /\ j.phase = "relist" /\ j.left = {} /\ j.walk = job.walk
      /\ j.first = job.first /\ j.kind = "csv" /\ j.open = NoFile /\ j.limit = job.limit
  BY <1>1 DEF JobType, Phases, CsvPhases
<1> HIDE DEF j
<1>4. /\ WorldInv' /\ HistoryInv' /\ View' = View
      /\ \A n \in Names : Identity(n)' = Identity(n)
  BY InsideViews DEF SnapshotInv, WorldInv
<1>5. PhaseInv'
  BY <1>1, <1>2, <1>3 DEF PhaseInv, WasSeen, Inside, CsvPhases, SqlitePhases
<1>6. CopyInv'
  BY <1>1, <1>2, <1>3 DEF CopyInv
<1>7. ContentInv'
  <2>1. \A n \in DOMAIN job.first : Looked(n)' => Looked(n)
    BY <1>1, <1>2, <1>3, <1>4, FirstIs DEF Looked
  <2>2. QED
    BY <1>1, <1>2, <1>3, <1>4, <2>1 DEF ContentInv, Inside
<1>8. SizeInv'
  BY <1>1, <1>2, <1>3 DEF SizeInv, Pairs, BytesCopied, CsvPhases
<1>9. WalkInv'
  BY <1>1, <1>2, <1>3, NoWalk
<1>10. QED
  BY <1>2, <1>3, <1>4, <1>5, <1>6, <1>7, <1>8, <1>9, NoBackup DEF SnapshotInv, CsvPhases

LEMMA CompareKeeps ==
  ASSUME SnapshotInv, Inside, expired' = expired, CompareWalks, job.walk = job.first
  PROVE  SnapshotInv'
<1> DEFINE j == [job EXCEPT !.phase = "done"]
<1>1. /\ PhaseInv /\ CopyInv /\ ContentInv /\ SizeInv /\ WorldInv /\ HistoryInv
      /\ job \in JobType /\ job.phase = "rewalk" /\ job.kind = "csv" /\ job.left = {}
      /\ job.open = NoFile /\ DOMAIN copy = DOMAIN job.first
      /\ copy \in Partial(Seq(Nat))
  BY DEF SnapshotInv, PhaseInv, CopyInv, CompareWalks, CsvPhases
<1>2. job' = j /\ copy' = copy /\ checked' = checked
  BY DEF CompareWalks, Continue, history
<1>3. /\ j \in JobType /\ j.phase = "done" /\ j.walk = job.walk
      /\ j.first = job.first /\ j.kind = "csv" /\ j.open = NoFile /\ j.limit = job.limit
  BY <1>1 DEF JobType, Phases, CsvPhases
<1> HIDE DEF j
<1>4. WorldInv' /\ HistoryInv'
  BY InsideViews DEF SnapshotInv, WorldInv
<1>5. PhaseInv'
  BY <1>1, <1>2, <1>3 DEF PhaseInv, WasSeen, Inside, CsvPhases, SqlitePhases
<1>6. CopyInv'
  BY <1>3, <1>2 DEF CopyInv
<1>7. ASSUME masked = {}
      PROVE  copy = Contents(checked)
  <2>1. \A n \in DOMAIN job.first :
           n \in Names /\ checked[n].id \in FileIds /\ copy[n] = checked[n].blocks
    BY <1>1, <1>7, FirstIs DEF ContentInv
  <2>2. \A n \in Names : checked[n].id \in FileIds => n \in DOMAIN job.first
    <3>1. SUFFICES ASSUME NEW n \in Names, n \notin DOMAIN job.first
                   PROVE  checked[n].id \notin FileIds
      OBVIOUS
    <3>2. Covered(n) /\ (n \in job.listed => dir[n] = Directory) /\ "fleeting" \notin masked
      BY <1>1, <1>7, AllCovered
    <3>3. dir[n] = Directory => checked[n].id = <<Directory>>
      BY <1>1 DEF HistoryInv
    <3>4. checked[n].id = <<Directory>> \/ checked[n].id = <<Absent>>
      BY <1>1, <3>1, <3>2, <3>3 DEF Covered
    <3>5. QED
      BY <3>4, AbsentIsNoFile
  <2>3. \A n \in Names : checked[n].id \in Ids
    BY <1>1 DEF HistoryInv, Views
  <2>4. {m \in Names : Len(checked[m].id) = 3} = DOMAIN job.first
    BY <2>1, <2>2, <2>3, IdLengths
  <2>5. copy \in [DOMAIN job.first -> Seq(Nat)]
    BY <1>1, PartialIs
  <2>6. QED
    BY <2>1, <2>4, <2>5 DEF Contents
<1>8. ContentInv'
  BY <1>2, <1>3, <1>7 DEF ContentInv, Inside, Contents
<1>9. SizeInv'
  BY <1>1, <1>2, <1>3 DEF SizeInv, Pairs, BytesCopied, CsvPhases
<1>10. WalkInv'
  BY <1>2, <1>3 DEF WalkInv
<1>11. QED
  BY <1>2, <1>3, <1>4, <1>5, <1>6, <1>8, <1>9, <1>10, NoBackup DEF SnapshotInv

LEMMA ParentKeeps ==
  ASSUME SnapshotInv, Inside, expired' = expired, OpenParent, ~expired, IsFile(job.name),
         ~(file[dir[job.name]].size > job.limit)
  PROVE  SnapshotInv'
<1> DEFINE n == job.name
           first == Only(n, Identity(n))
           j == [job EXCEPT !.phase = "connect", !.first = first]
<1>1. /\ PhaseInv /\ WorldInv /\ HistoryInv
      /\ job \in JobType /\ job.phase = "parent" /\ job.kind = "sqlite" /\ n \in Names
  BY DEF SnapshotInv, PhaseInv, OpenParent, SqlitePhases, JobType
<1>2. job' = j /\ copy' = copy /\ checked' = checked
  BY DEF OpenParent, Continue, history
<1>3. Identity(n) \in FileIds /\ View[n].id = Identity(n) /\ View \in seen
  BY <1>1, ViewFacts DEF ViewOK, HistoryInv
<1> HIDE DEF n
<1>4. first \in Partial(FileIds) /\ DOMAIN first = {n} /\ first[n] = Identity(n)
  <2>1. PICK id \in FileIds : id = Identity(n)
    BY <1>3
  <2>2. Only(n, id) \in Partial(FileIds) /\ DOMAIN Only(n, id) = {n} /\ Only(n, id)[n] = id
    BY <1>1, OnlyIs, ZenonT(30)
  <2>3. QED
    BY <2>1, <2>2
<1> HIDE DEF first
<1>5. /\ j \in JobType /\ j.phase = "connect" /\ j.walk = job.walk /\ j.name = n
      /\ j.first = first /\ j.kind = "sqlite" /\ j.open = job.open
  BY <1>1, <1>4 DEF JobType, Phases, SqlitePhases, n
<1> HIDE DEF j
<1>6. WorldInv' /\ HistoryInv'
  BY InsideViews DEF SnapshotInv, WorldInv
<1>7. PhaseInv'
  <2>1. WasSeen(first)
    BY <1>3, <1>4 DEF WasSeen
  <2>2. QED
    BY <1>1, <1>2, <1>5, <2>1 DEF PhaseInv, WasSeen, Inside, CsvPhases, SqlitePhases
<1>8. BackupInv'
  BY <1>2, <1>4, <1>5 DEF BackupInv, SqlitePhases
<1>9. QED
  BY <1>2, <1>5, <1>6, <1>7, <1>8, NoCsv, NoSize DEF SnapshotInv, SqlitePhases

(* A name that looks as at first is a file, and where it leads is the file *)
(* that the first look named.                                              *)
LEMMA LookedIs ==
  ASSUME SnapshotInv, NEW n \in DOMAIN job.first, Looked(n)
  PROVE  /\ n \in Names /\ IsFile(n) /\ dir[n] = job.first[n][1] /\ dir[n] \in Inodes
         /\ View[n].id = job.first[n] /\ View \in seen
         /\ View[n].blocks = file[dir[n]].blocks
<1>1. WorldInv /\ PhaseInv /\ HistoryInv
  BY DEF SnapshotInv
<1>2. n \in Names /\ Identity(n) = job.first[n] /\ job.first[n] \in FileIds
  BY <1>1, FirstIs DEF Looked
<1>3. IsFile(n) /\ dir[n] = job.first[n][1] /\ dir[n] \in Inodes
  BY <1>1, <1>2, IdentityIs
<1>4. View[n].id = job.first[n] /\ View[n].blocks = file[dir[n]].blocks
  BY <1>1, <1>2, <1>3, ViewIs
<1>5. QED
  BY <1>1, <1>2, <1>3, <1>4 DEF HistoryInv

LEMMA ConnectKeeps ==
  ASSUME SnapshotInv, Inside, expired' = expired, Connect, ~expired, IsFile(job.name)
  PROVE  SnapshotInv'
<1> DEFINE n == job.name
           i == dir[n]
           j == [job EXCEPT !.phase = "backup", !.open = i]
<1>1. /\ PhaseInv /\ WorldInv /\ HistoryInv /\ BackupInv
      /\ job \in JobType /\ job.phase = "connect" /\ job.kind = "sqlite" /\ n \in Names
      /\ DOMAIN job.first = {n}
  BY DEF SnapshotInv, PhaseInv, BackupInv, Connect, SqlitePhases, JobType
<1>2. job' = j /\ copy' = Only(n, <<>>) /\ checked' = checked
  BY DEF Connect, history
<1>3. i \in Inodes /\ i # NoFile
  BY Markers DEF IsFile
<1>4. Looked(n) => i = job.first[n][1]
  BY <1>1, LookedIs
<1> HIDE DEF n, i
<1>5. copy' \in Partial(Seq(Nat)) /\ DOMAIN copy' = {n} /\ copy' # NoCopy
  <2> DEFINE S == Seq(Nat)
  <2>1. PICK e \in S : e = <<>>
    BY EmptySeq
  <2> HIDE DEF S
  <2>2. Only(n, e) \in Partial(S) /\ DOMAIN Only(n, e) = {n}
    BY <1>1, OnlyIs
  <2>3. copy' = Only(n, e)
    BY <1>2, <2>1
  <2>4. QED
    BY <2>2, <2>3, NoCopyIsNone DEF S
<1>6. /\ j \in JobType /\ j.phase = "backup" /\ j.walk = job.walk /\ j.name = n
      /\ j.first = job.first /\ j.kind = "sqlite" /\ j.open = i
  BY <1>1, <1>3 DEF JobType, Phases, SqlitePhases, n
<1> HIDE DEF j
<1>7. /\ WorldInv' /\ HistoryInv'
      /\ \A m \in Names : Identity(m)' = Identity(m)
  BY InsideViews DEF SnapshotInv, WorldInv
<1>8. PhaseInv'
  BY <1>1, <1>2, <1>3, <1>5, <1>6 DEF PhaseInv, WasSeen, Inside, CsvPhases, SqlitePhases
<1>9. BackupInv'
  <2>1. Looked(job.name)' => Looked(n)
    BY <1>1, <1>2, <1>6, <1>7 DEF Looked
  <2>2. QED
    BY <1>1, <1>2, <1>4, <1>5, <1>6, <2>1 DEF BackupInv, SqlitePhases
<1>10. QED
  BY <1>2, <1>6, <1>7, <1>8, <1>9, NoCsv, NoSize DEF SnapshotInv, SqlitePhases

LEMMA BatchKeeps ==
  ASSUME SnapshotInv, Inside, expired' = expired, BackupBatch
  PROVE  SnapshotInv'
<1> DEFINE n == job.name
           blocks == file[job.open].blocks
           kept == IF blocks = job.basis THEN Len(copy[n]) ELSE 0
           read == SubSeq(blocks, 1, Min({kept + 1, Len(blocks)}))
           to == IF kept + 1 < Len(blocks) THEN "batch" ELSE "last"
           j == [job EXCEPT !.basis = blocks, !.phase = to]
<1>1. /\ PhaseInv /\ WorldInv /\ HistoryInv /\ BackupInv
      /\ job \in JobType /\ job.phase = "backup" /\ job.kind = "sqlite" /\ n \in Names
      /\ DOMAIN job.first = {n} /\ DOMAIN copy = {n} /\ copy \in Partial(Seq(Nat))
      /\ job.open \in Inodes
      /\ "returned" \notin masked /\ Looked(n) => job.open = job.first[n][1]
  BY DEF SnapshotInv, PhaseInv, BackupInv, BackupBatch, SqlitePhases, JobType
<1>2. copy' = Only(n, read) /\ checked' = checked /\ job' = j
  BY DEF BackupBatch, history
<1>3. blocks \in Seq(Nat) /\ Len(blocks) \in Nat /\ kept \in Nat
  <2>1. copy \in [DOMAIN copy -> Seq(Nat)] /\ n \in DOMAIN copy
    BY <1>1, PartialIs
  <2>2. copy[n] \in Seq(Nat)
    BY <2>1
  <2>3. Len(copy[n]) \in Nat
    BY <2>2, LenProperties
  <2>4. blocks \in Seq(Nat)
    BY <1>1, FileBlocks
  <2>5. QED
    BY <2>3, <2>4, LenProperties
<1>4. /\ "returned" \notin masked /\ Looked(n) =>
           View \in seen /\ View[n].id = job.first[n] /\ View[n].blocks = blocks
  BY <1>1, LookedIs
<1> HIDE DEF n, blocks, kept
<1>5. read \in Seq(Nat) /\ (kept + 1 >= Len(blocks) => read = blocks)
  <2> DEFINE k == Min({kept + 1, Len(blocks)})
  <2>1. k = IF kept + 1 <= Len(blocks) THEN kept + 1 ELSE Len(blocks)
    BY <1>3, LessOfTwo
  <2>2. k \in Int /\ k <= Len(blocks) /\ (kept + 1 >= Len(blocks) => k = Len(blocks))
    BY <1>3, <2>1
  <2> HIDE DEF k
  <2>3. \A b \in 1 .. k : blocks[b] \in Nat
    BY <1>3, <2>2, ElementOfSeq
  <2>4. SubSeq(blocks, 1, k) \in Seq(Nat)
    BY <2>2, <2>3, SubSeqProperties
  <2>5. SubSeq(blocks, 1, Len(blocks)) = blocks
    BY <1>3, SubSeqFull
  <2>6. QED
    BY <2>2, <2>4, <2>5 DEF k
<1> HIDE DEF read
<1>6. copy' \in Partial(Seq(Nat)) /\ DOMAIN copy' = {n} /\ copy' # NoCopy
  <2> DEFINE S == Seq(Nat)
  <2>1. PICK e \in S : e = read
    BY <1>5
  <2> HIDE DEF S
  <2>2. Only(n, e) \in Partial(S) /\ DOMAIN Only(n, e) = {n}
    BY <1>1, OnlyIs, ZenonT(30)
  <2>3. copy' = Only(n, e)
    BY <1>2, <2>1
  <2>4. QED
    BY <2>2, <2>3, NoCopyIsNone DEF S
<1>7. to \in {"batch", "last"} /\ (to = "last" => kept + 1 >= Len(blocks))
  BY <1>3
<1> HIDE DEF to
<1>8. /\ j \in JobType /\ j.phase = to /\ j.walk = job.walk /\ j.name = n
      /\ j.first = job.first /\ j.kind = "sqlite" /\ j.open = job.open
  BY <1>1, <1>3, <1>7 DEF JobType, Phases, SqlitePhases, n
<1> HIDE DEF j
<1>9. /\ WorldInv' /\ HistoryInv'
      /\ \A m \in Names : Identity(m)' = Identity(m)
  BY InsideViews DEF SnapshotInv, WorldInv
<1>10. PhaseInv'
  BY <1>1, <1>2, <1>6, <1>7, <1>8, Markers
     DEF PhaseInv, WasSeen, Inside, CsvPhases, SqlitePhases
<1>11. BackupInv'
  <2>1. Looked(job.name)' => Looked(n)
    BY <1>1, <1>2, <1>8, <1>9 DEF Looked
  <2>2. CASE to = "batch"
    BY <1>1, <1>2, <1>6, <1>8, <2>1, <2>2 DEF BackupInv, SqlitePhases, Inside
  <2>3. CASE to = "last"
    <3>1. "returned" \notin masked' /\ Looked(job.name)' => OfOneLook'
      BY <1>2, <1>4, <1>5, <1>7, <1>8, <2>1, <2>3 DEF OfOneLook, Inside
    <3>2. QED
      BY <1>1, <1>2, <1>6, <1>8, <2>3, <3>1 DEF BackupInv, SqlitePhases
  <2>4. QED
    BY <1>7, <2>2, <2>3
<1>12. QED
  BY <1>2, <1>7, <1>8, <1>9, <1>10, <1>11, NoCsv, NoSize DEF SnapshotInv, SqlitePhases

LEMMA ProgressKeeps ==
  ASSUME SnapshotInv, Inside, expired' = expired, BackupProgress, ~expired
  PROVE  SnapshotInv'
<1> DEFINE n == job.name
           more == [job EXCEPT !.phase = "backup"]
           last == [job EXCEPT !.phase = "compare", !.open = NoFile]
<1>1. /\ PhaseInv /\ WorldInv /\ HistoryInv /\ BackupInv
      /\ job \in JobType /\ job.phase \in {"batch", "last"} /\ job.kind = "sqlite" /\ n \in Names
      /\ DOMAIN job.first = {n} /\ DOMAIN copy = {n}
      /\ job.open # NoFile
  BY DEF SnapshotInv, PhaseInv, BackupInv, BackupProgress, SqlitePhases, JobType
<1>2. /\ copy' = copy /\ checked' = checked
      /\ job' = IF job.phase = "batch" THEN more ELSE last
  BY DEF BackupProgress, GoOn, Continue, history
<1> HIDE DEF n
<1>3. /\ more \in JobType /\ more.phase = "backup" /\ more.walk = job.walk /\ more.name = n
      /\ more.first = job.first /\ more.kind = "sqlite" /\ more.open = job.open
  BY <1>1 DEF JobType, Phases, SqlitePhases, n
<1>4. /\ last \in JobType /\ last.phase = "compare" /\ last.walk = job.walk /\ last.name = n
      /\ last.first = job.first /\ last.kind = "sqlite" /\ last.open = NoFile
  BY <1>1 DEF JobType, Phases, SqlitePhases, n
<1> HIDE DEF more, last
<1>5. /\ WorldInv' /\ HistoryInv'
      /\ \A m \in Names : Identity(m)' = Identity(m)
  BY InsideViews DEF SnapshotInv, WorldInv
<1>6. (job.phase = "batch" /\ job' = more) \/ (job.phase = "last" /\ job' = last)
  BY <1>1, <1>2
<1>7. PhaseInv'
  BY <1>1, <1>2, <1>3, <1>4, <1>6 DEF PhaseInv, WasSeen, Inside, CsvPhases, SqlitePhases
<1>8. BackupInv'
  <2>1. Looked(job.name)' => Looked(n)
    BY <1>1, <1>3, <1>4, <1>5, <1>6 DEF Looked
  <2>2. CASE job.phase = "batch" /\ job' = more
    BY <1>1, <1>2, <1>3, <2>1, <2>2 DEF BackupInv, SqlitePhases, Inside, n
  <2>3. CASE job.phase = "last" /\ job' = last
    <3>1. "returned" \notin masked /\ Looked(n) => OfOneLook
      BY <1>1, <2>3 DEF BackupInv, n
    <3>2. OfOneLook => OfOneLook'
      BY <1>2, <1>4, <2>3 DEF OfOneLook, Inside, n
    <3>3. QED
      BY <1>1, <1>2, <1>4, <2>1, <2>3, <3>1, <3>2 DEF BackupInv, SqlitePhases, Inside
  <2>4. QED
    BY <1>6, <2>2, <2>3
<1>9. QED
  BY <1>3, <1>4, <1>5, <1>6, <1>7, <1>8, NoCsv, NoSize DEF SnapshotInv, SqlitePhases

LEMMA StatAgainKeeps ==
  ASSUME SnapshotInv, Inside, expired' = expired, StatAgain, ~expired,
         Identity(job.name) = job.first[job.name]
  PROVE  SnapshotInv'
<1> DEFINE n == job.name
           j == [job EXCEPT !.phase = "hash"]
<1>1. /\ PhaseInv /\ WorldInv /\ HistoryInv /\ BackupInv
      /\ job \in JobType /\ job.phase = "compare" /\ job.kind = "sqlite" /\ n \in Names
      /\ DOMAIN job.first = {n} /\ Looked(n)
  BY DEF SnapshotInv, PhaseInv, BackupInv, StatAgain, SqlitePhases, JobType, Looked
<1>2. job' = j /\ copy' = copy /\ checked' = View
  BY DEF StatAgain
<1>3. View[n].id = job.first[n]
  BY <1>1, LookedIs
<1>4. /\ j \in JobType /\ j.phase = "hash" /\ j.walk = job.walk /\ j.name = n
      /\ j.first = job.first /\ j.kind = "sqlite" /\ j.open = job.open
  BY <1>1 DEF JobType, Phases, SqlitePhases
<1> HIDE DEF j
<1>5. WorldInv' /\ HistoryInv'
  BY InsideViews DEF SnapshotInv, WorldInv
<1>6. PhaseInv'
  BY <1>1, <1>2, <1>4 DEF PhaseInv, WasSeen, Inside, CsvPhases, SqlitePhases
<1>7. BackupInv'
  <2>1. "returned" \notin masked => OfOneLook
    BY <1>1 DEF BackupInv
  <2>2. OfOneLook => OfOneLook'
    BY <1>2, <1>4 DEF OfOneLook, Inside
  <2>3. QED
    BY <1>1, <1>2, <1>3, <1>4, <2>1, <2>2 DEF BackupInv, SqlitePhases, Inside
<1>8. QED
  BY <1>2, <1>4, <1>5, <1>6, <1>7, NoCsv, NoSize DEF SnapshotInv, SqlitePhases

LEMMA HashKeeps ==
  ASSUME SnapshotInv, Inside, expired' = expired, HashCopy, ~expired,
         ~(BytesCopied > job.limit)
  PROVE  SnapshotInv'
<1> DEFINE n == job.name
           j == [job EXCEPT !.phase = "done"]
<1>1. /\ PhaseInv /\ BackupInv
      /\ job \in JobType /\ job.phase = "hash" /\ job.kind = "sqlite" /\ n \in Names
      /\ DOMAIN job.first = {n} /\ checked[n].id = job.first[n]
      /\ DOMAIN copy = {n} /\ copy \in Partial(Seq(Nat))
  BY DEF SnapshotInv, PhaseInv, BackupInv, HashCopy, SqlitePhases, JobType
<1>2. job' = j /\ copy' = copy /\ checked' = checked
  BY DEF HashCopy, Continue, history
<1>3. /\ j \in JobType /\ j.phase = "done" /\ j.walk = job.walk /\ j.name = n
      /\ j.first = job.first /\ j.kind = "sqlite" /\ j.open = job.open /\ j.limit = job.limit
  BY <1>1 DEF JobType, Phases, SqlitePhases
<1> HIDE DEF j
<1>4. WorldInv' /\ HistoryInv'
  BY InsideViews DEF SnapshotInv, WorldInv
<1>5. PhaseInv'
  BY <1>1, <1>2, <1>3 DEF PhaseInv, WasSeen, Inside, CsvPhases, SqlitePhases
<1>6. BackupInv'
  <2>1. "returned" \notin masked => OfOneLook
    BY <1>1 DEF BackupInv
  <2>2. OfOneLook => OfOneLook'
    BY <1>2, <1>3 DEF OfOneLook, Inside
  <2>3. QED
    BY <1>1, <1>2, <1>3, <2>1, <2>2 DEF BackupInv, SqlitePhases, Inside
<1>7. BytesCopied \in Nat
  <2>1. copy \in [{n} -> Seq(Nat)]
    BY <1>1, PartialIs
  <2>2. copy[n] \in Seq(Nat)
    BY <2>1
  <2>3. DOMAIN copy[n] = 1 .. Len(copy[n]) /\ Len(copy[n]) \in Nat
    BY <2>2, LenProperties
  <2>4. IsFiniteSet(DOMAIN copy[n]) /\ IsFiniteSet({n})
    <3>1. \A k \in Nat : IsFiniteSet(1 .. k)
      BY FS_Interval
    <3>2. QED
      BY <2>3, <3>1, FS_Singleton
  <2>5. IsFiniteSet({n} \X DOMAIN copy[n])
    BY <2>4, FS_Product
  <2>6. UNION {{m} \X DOMAIN copy[m] : m \in DOMAIN copy} = {n} \X DOMAIN copy[n]
    BY <1>1
  <2>7. QED
    BY <2>5, <2>6, FS_CardinalityType DEF BytesCopied
<1>8. SizeInv'
  <2>1. job.limit \in Nat
    BY <1>1 DEF JobType
  <2>2. BytesCopied <= job.limit
    BY <1>7, <2>1
  <2>3. QED
    BY <1>2, <1>3, <2>2 DEF SizeInv, BytesCopied, CsvPhases
<1>9. QED
  BY <1>2, <1>3, <1>4, <1>5, <1>6, <1>8, NoCsv DEF SnapshotInv

LEMMA SnapshotKeeps ==
  ASSUME SnapshotInv, Snapshot
  PROVE  SnapshotInv'
<1>1. expired' = expired /\ dir' = dir /\ file' = file /\ now' = now /\ written' = written
  BY DEF Snapshot, world
<1>2. Inside
  BY <1>1 DEF Snapshot, Inside, history, ListDirectory, ListSubdirectory, StatEntry,
              BeginCopies, OpenFile, ReadChunk, EndOfFile, EndCopies, CompareWalks, OpenParent,
              Connect, BackupBatch, BackupProgress, GoOn, BackupFails, StatAgain, HashCopy, Refuse,
              Continue
<1>3. CASE Refuse
  BY <1>1, <1>2, <1>3, RefuseKeeps
<1>4. ASSUME ListDirectory, ~Refuse
      PROVE  SnapshotInv'
  BY <1>1, <1>2, <1>4, ListKeeps DEF ListDirectory
<1>5. ASSUME StatEntry, ~Refuse
      PROVE  SnapshotInv'
  BY <1>1, <1>2, <1>5, StatKeeps DEF StatEntry
<1>6. ASSUME BeginCopies
      PROVE  SnapshotInv'
  BY <1>1, <1>2, <1>6, BeginCopiesKeeps
<1>7. ASSUME OpenFile, ~Refuse
      PROVE  SnapshotInv'
  BY <1>1, <1>2, <1>7, OpenKeeps DEF OpenFile
<1>8. ASSUME ReadChunk, ~Refuse
      PROVE  SnapshotInv'
  BY <1>1, <1>2, <1>8, ReadKeeps DEF ReadChunk
<1>9. ASSUME EndOfFile, ~Refuse
      PROVE  SnapshotInv'
  BY <1>1, <1>2, <1>9, EndOfFileKeeps DEF EndOfFile
<1>10. ASSUME EndCopies
       PROVE  SnapshotInv'
  BY <1>1, <1>2, <1>10, EndCopiesKeeps
<1>11. ASSUME CompareWalks, ~Refuse
       PROVE  SnapshotInv'
  BY <1>1, <1>2, <1>11, CompareKeeps DEF CompareWalks
<1>12. ASSUME OpenParent, ~Refuse
       PROVE  SnapshotInv'
  BY <1>1, <1>2, <1>12, ParentKeeps DEF OpenParent
<1>13. ASSUME Connect, ~Refuse
       PROVE  SnapshotInv'
  BY <1>1, <1>2, <1>13, ConnectKeeps DEF Connect
<1>14. ASSUME BackupBatch
       PROVE  SnapshotInv'
  BY <1>1, <1>2, <1>14, BatchKeeps
<1>15. ASSUME StatAgain, ~Refuse
       PROVE  SnapshotInv'
  BY <1>1, <1>2, <1>15, StatAgainKeeps DEF StatAgain
<1>16. ASSUME HashCopy, ~Refuse
       PROVE  SnapshotInv'
  BY <1>1, <1>2, <1>16, HashKeeps DEF HashCopy
<1>17. ASSUME ListSubdirectory, ~Refuse
       PROVE  SnapshotInv'
  BY <1>1, <1>2, <1>17, ListSubKeeps DEF ListSubdirectory
<1>18. ASSUME BackupProgress, ~Refuse
       PROVE  SnapshotInv'
  BY <1>1, <1>2, <1>18, ProgressKeeps DEF BackupProgress
<1>19. QED
  BY <1>3, <1>4, <1>5, <1>6, <1>7, <1>8, <1>9, <1>10, <1>11, <1>12, <1>13, <1>14, <1>15, <1>16,
     <1>17, <1>18 DEF Snapshot, BackupFails

LEMMA StutterKeeps ==
  ASSUME SnapshotInv, UNCHANGED vars
  PROVE  SnapshotInv'
<1>1. /\ dir' = dir /\ file' = file /\ now' = now /\ written' = written /\ expired' = expired
      /\ job' = job /\ copy' = copy /\ seen' = seen /\ checked' = checked /\ masked' = masked
  BY DEF vars, world, history
<1>2. /\ WorldInv' /\ HistoryInv' /\ View' = View
      /\ \A n \in Names : Identity(n)' = Identity(n)
  BY <1>1, InsideViews DEF SnapshotInv, WorldInv, Inside
<1>3. PhaseInv' /\ CopyInv' /\ SizeInv'
  BY <1>1 DEF SnapshotInv, PhaseInv, CopyInv, SizeInv, WasSeen, Here, Pairs, BytesCopied
<1>4. Looked(job.name)' <=> Looked(job.name)
  BY <1>1, SameView DEF Looked, Identity, IsFile
<1>5. BackupInv'
  BY <1>1, <1>4 DEF SnapshotInv, BackupInv, OfOneLook
<1>6. Here' = Here /\ \A n \in DOMAIN job.first : Looked(n)' <=> Looked(n)
  BY <1>1 DEF Here, Looked, Identity, IsFile
<1>7. Looked(Here)' <=> Looked(Here)
  BY <1>1 DEF Here, Looked, Identity, IsFile
<1>8. ContentInv'
  BY <1>1, <1>2, <1>6, <1>7 DEF SnapshotInv, ContentInv, Contents
<1>9. WalkInv'
  <2>1. Nested' = Nested /\ Nested \subseteq Names
    BY <1>1, NestedIs DEF Nested
  <2>2. \A n : Covered(n)' <=> Covered(n)
    BY <1>1 DEF Covered, WasGone
  <2>3. \A n : WasGone(n)' <=> WasGone(n)
    BY <1>1 DEF WasGone
  <2>4. QED
    BY <1>1, <1>2, <2>1, <2>2, <2>3 DEF SnapshotInv, WalkInv
<1>10. QED
  BY <1>2, <1>3, <1>5, <1>8, <1>9 DEF SnapshotInv

LEMMA EndKeeps ==
  ASSUME SnapshotInv, NEW outcome, NEW source, EndWith(outcome, source)
  PROVE  SnapshotInv'
<1>1. Refuse /\ expired' = expired
  BY DEF EndWith, Refuse
<1>2. Inside
  BY DEF EndWith, Inside, world, history
<1>3. QED
  BY <1>1, <1>2, RefuseKeeps

(* A snapshot that begins, and the state in which none is under way.       *)
LEMMA BeganIs ==
  ASSUME NEW wanted \in [kind : {"csv", "sqlite"}, name : Names, limit : Nat]
  PROVE  LET j == Began(wanted) IN
         /\ j \in JobType /\ j.kind = wanted.kind /\ j.name = wanted.name
         /\ j.limit = wanted.limit
         /\ j.phase = IF wanted.kind = "csv" THEN "list" ELSE "parent"
         /\ j.left = {} /\ j.walk = <<>> /\ j.first = <<>> /\ j.open = NoFile
<1>1. <<>> \in Partial(FileIds)
  BY NothingIs
<1>2. <<>> \in Seq(Nat)
  BY EmptySeq
<1>3. wanted.kind \in {"csv", "sqlite"} /\ wanted.name \in Names /\ wanted.limit \in Nat
  OBVIOUS
<1>4. (IF wanted.kind = "csv" THEN "list" ELSE "parent") \in Phases
  BY DEF Phases, CsvPhases, SqlitePhases
<1>5. {} \in SUBSET Names /\ NoFile \in Inodes \cup {NoFile}
  OBVIOUS
<1>6. Began(wanted) \in JobType
  BY <1>1, <1>2, <1>3, <1>4, <1>5 DEF Began, JobType
<1>7. QED
  BY <1>6 DEF Began

Beginning ==
  /\ copy = <<>>
  /\ \E wanted \in [kind : {"csv", "sqlite"}, name : Names, limit : Nat] : job = Began(wanted)

LEMMA BeganInv == WorldInv /\ HistoryInv /\ Beginning => SnapshotInv
<1> SUFFICES ASSUME WorldInv, HistoryInv, Beginning
             PROVE  SnapshotInv
  OBVIOUS
<1> PICK wanted \in [kind : {"csv", "sqlite"}, name : Names, limit : Nat] : job = Began(wanted)
  BY DEF Beginning
<1>1. /\ job \in JobType /\ job.limit \in Nat /\ job.kind \in {"csv", "sqlite"}
      /\ job.phase = IF job.kind = "csv" THEN "list" ELSE "parent"
      /\ job.left = {} /\ job.walk = <<>> /\ job.first = <<>> /\ job.open = NoFile
  BY BeganIs DEF JobType
<1>2. copy = <<>>
  BY DEF Beginning
<1>3. DOMAIN <<>> = {} /\ <<>> \in Partial(Seq(Nat)) /\ <<>> # NoCopy
  BY NothingIs, NoCopyIsNone
<1>4. PhaseInv
  <2>1. job.phase \in {"list", "parent"} /\ (job.phase = "list" <=> job.kind = "csv")
    BY <1>1
  <2>2. WasSeen(job.walk) /\ WasSeen(job.first)
    BY <1>1, <1>3 DEF WasSeen
  <2>3. QED
    BY <1>1, <1>2, <1>3, <2>1, <2>2 DEF PhaseInv, CsvPhases, SqlitePhases
<1>5. CopyInv /\ WalkInv /\ ContentInv
  BY <1>1, <1>2 DEF CopyInv, WalkInv, ContentInv
<1>6. SizeInv
  <2>1. UNION {{n} \X DOMAIN copy[n] : n \in DOMAIN copy} = {}
    BY <1>2, <1>3
  <2>2. Pairs = {} /\ BytesCopied = 0
    BY <2>1, FS_EmptySet DEF Pairs, BytesCopied
  <2>3. QED
    BY <1>1, <2>2, FS_EmptySet DEF SizeInv
<1>7. BackupInv
  BY <1>1 DEF BackupInv, SqlitePhases
<1>8. QED
  BY <1>4, <1>5, <1>6, <1>7 DEF SnapshotInv

LEMMA BeganKeeps == WorldInv' /\ HistoryInv' /\ Beginning' => SnapshotInv'
BY BeganInv, PTL

LEMMA IdleIs ==
  /\ Idle \in JobType /\ Idle.kind = "sqlite" /\ Idle.phase = "idle"
  /\ Idle.walk = <<>> /\ Idle.first = <<>> /\ Idle.open = NoFile
<1>1. <<>> \in Partial(FileIds)
  BY NothingIs
<1>2. <<>> \in Seq(Nat)
  BY EmptySeq
<1>3. Min(Names) \in Names
  BY LeastName, SnapshotConstants
<1>4. {} \in SUBSET Names /\ NoFile \in Inodes \cup {NoFile} /\ "idle" \in Phases
  BY DEF Phases
<1> DEFINE least == Min(Names)
<1> HIDE DEF least
<1>5. Idle = [kind |-> "sqlite", name |-> least, limit |-> 0, phase |-> "idle", left |-> {},
              listed |-> {}, walk |-> <<>>, first |-> <<>>, open |-> NoFile, basis |-> <<>>]
  BY DEF Idle, least
<1>6. least \in Names
  BY <1>3 DEF least
<1>7. Idle \in JobType
  BY <1>1, <1>2, <1>4, <1>5, <1>6 DEF JobType
<1>8. QED
  BY <1>5, <1>7

Idling == copy = NoCopy /\ job = Idle /\ ~expired

LEMMA IdleInv == WorldInv /\ HistoryInv /\ Idling => SnapshotInv
<1> SUFFICES ASSUME WorldInv, HistoryInv, Idling
             PROVE  SnapshotInv
  OBVIOUS
<1>1. /\ job \in JobType /\ job.kind = "sqlite" /\ job.phase = "idle"
      /\ job.walk = <<>> /\ job.first = <<>> /\ job.open = NoFile
      /\ copy = NoCopy /\ ~expired
  BY IdleIs DEF Idling
<1>2. PhaseInv
  <2>1. DOMAIN <<>> = {}
    BY NothingIs
  <2>2. WasSeen(job.walk) /\ WasSeen(job.first)
    BY <1>1, <2>1 DEF WasSeen
  <2>3. QED
    BY <1>1, <2>2 DEF PhaseInv, CsvPhases, SqlitePhases
<1>3. CopyInv /\ WalkInv /\ ContentInv /\ SizeInv /\ BackupInv
  BY <1>1 DEF CopyInv, WalkInv, ContentInv, SizeInv, BackupInv, CsvPhases, SqlitePhases
<1>4. QED
  BY <1>2, <1>3 DEF SnapshotInv

LEMMA IdleKeeps == WorldInv' /\ HistoryInv' /\ Idling' => SnapshotInv'
BY IdleInv, PTL

(* What no step of a snapshot changes, and when it takes none.             *)
LEMMA SnapshotJob ==
  ASSUME PhaseInv, Snapshot
  PROVE  /\ job'.kind = job.kind /\ job'.name = job.name
         /\ job.phase \notin {"idle", "done", "refused"}
<1>1. job \in JobType
  BY DEF PhaseInv
<1>2. /\ DOMAIN job = {"kind", "name", "limit", "phase", "left", "listed", "walk",
                    "first", "open", "basis"}
  BY <1>1 DEF JobType
<1>3. job.kind = "csv" /\ job.open # NoFile => job.phase = "copy"
  BY DEF PhaseInv, SqlitePhases
<1>4. job.phase \notin {"idle", "done", "refused"}
  BY <1>3 DEF Snapshot, ListDirectory, ListSubdirectory, StatEntry, BeginCopies, OpenFile,
              ReadChunk, EndOfFile, EndCopies, CompareWalks, OpenParent, Connect, BackupBatch,
              BackupProgress, BackupFails, StatAgain, HashCopy
<1>5. CASE Refuse
  BY <1>2, <1>4, <1>5 DEF Refuse
<1>6. CASE ~Refuse
  <2>1. CASE ListDirectory
    BY <1>2, <1>6, <2>1 DEF ListDirectory
  <2>2. CASE StatEntry
    BY <1>2, <1>6, <2>2 DEF StatEntry, Continue
  <2>3. CASE BeginCopies
    BY <1>2, <1>6, <2>3 DEF BeginCopies, Continue
  <2>4. CASE OpenFile
    BY <1>2, <1>6, <2>4 DEF OpenFile
  <2>5. CASE EndOfFile
    <3>1. job' = [job EXCEPT !.left = job.left \ {Here}, !.open = NoFile]
      BY <1>6, <2>5 DEF EndOfFile, Continue
    <3>2. QED
      BY <1>2, <1>4, <3>1
  <2>6. CASE EndCopies
    BY <1>2, <1>6, <2>6 DEF EndCopies, Continue
  <2>7. CASE CompareWalks
    BY <1>2, <1>6, <2>7 DEF CompareWalks, Continue
  <2>8. CASE OpenParent
    BY <1>2, <1>6, <2>8 DEF OpenParent, Continue
  <2>9. CASE Connect
    BY <1>2, <1>6, <2>9 DEF Connect
  <2>10. CASE BackupBatch
    <3>1. \E b, to : job' = [job EXCEPT !.basis = b, !.phase = to]
      BY <2>10 DEF BackupBatch
    <3>2. QED
      BY <1>2, <1>4, <3>1
  <2>11. CASE StatAgain
    BY <1>2, <1>6, <2>11 DEF StatAgain
  <2>12. CASE HashCopy
    BY <1>2, <1>6, <2>12 DEF HashCopy, Continue
  <2>13. CASE ReadChunk \/ BackupFails
    <3>1. job' = job
      BY <1>6, <2>13 DEF ReadChunk, BackupFails
    <3>2. QED
      BY <1>4, <3>1
  <2>14. CASE ListSubdirectory
    <3>1. \E s, l : job' = [job EXCEPT !.left = s, !.listed = l]
      BY <1>6, <2>14 DEF ListSubdirectory, Continue
    <3>2. QED
      BY <1>2, <1>4, <3>1
  <2>15. CASE BackupProgress
    <3>1. \/ job' = [job EXCEPT !.phase = "backup"]
          \/ job' = [job EXCEPT !.phase = "compare", !.open = NoFile]
      BY <1>6, <2>15 DEF BackupProgress, GoOn, Continue
    <3>2. QED
      BY <1>2, <1>4, <3>1
  <2>16. QED
    BY <2>1, <2>2, <2>3, <2>4, <2>5, <2>6, <2>7, <2>8, <2>9, <2>10, <2>11, <2>12, <2>13,
       <2>14, <2>15 DEF Snapshot
<1>7. QED
  BY <1>4, <1>5, <1>6

-----------------------------------------------------------------------------
(* How it begins.                                                          *)

LEMMA WorldBegins ==
  ASSUME WorldInit
  PROVE  WorldInv /\ HistoryInv
<1>1. PICK layout \in Layouts :
        /\ dir = layout.dir
        /\ file = [i \in Inodes |-> [blocks |-> [b \in 1 .. layout.length[i] |-> i],
                                     size |-> layout.length[i], mtime |-> 0]]
  BY DEF WorldInit
<1>2. layout \in [dir : [Names -> Entries], length : [Inodes -> 0 .. MaxBlocks]]
  BY SnapshotConstants DEF Entries
<1>3. now = 0 /\ written = 0 /\ expired = FALSE /\ seen = {View} /\ checked = View /\ masked = {}
  BY DEF WorldInit
<1>4. ASSUME NEW i \in Inodes
      PROVE  LET s == [b \in 1 .. layout.length[i] |-> i] IN
             /\ s \in BlocksUpTo(0) /\ Len(s) = layout.length[i]
             /\ layout.length[i] \in 0 .. MaxBlocks
  <2> DEFINE k == layout.length[i]
             s == [b \in 1 .. k |-> i]
             S == 1 .. (Cardinality(Inodes) + 0)
  <2>1. k \in Nat /\ k \in 0 .. MaxBlocks
    BY <1>2, Numbers
  <2>2. i \in S
    BY Numbers
  <2> HIDE DEF k
  <2>3. s \in Seq(S) /\ Len(s) = k
    BY <2>1, <2>2
  <2>4. QED
    BY <2>1, <2>3 DEF BlocksUpTo, k
<1>5. \A i \in Inodes : /\ file[i].blocks \in BlocksUpTo(0) /\ Len(file[i].blocks) <= MaxBlocks
                         /\ file[i] \in [blocks : BlocksUpTo(0), size : 0 .. MaxBlocks,
                                         mtime : 0 .. 0]
  BY <1>1, <1>4, Numbers
<1>6. file \in FilesOf(0, 0)
  BY <1>1, <1>5 DEF FilesOf
<1>7. WorldInv
  <2>1. dir \in [Names -> Entries]
    BY <1>1, <1>2
  <2>2. 0 \in 0 .. MaxTicks /\ 0 \in 0 .. MaxWrites
    BY Numbers
  <2>3. \A i \in Inodes : Len(file[i].blocks) <= MaxBlocks
    BY <1>5
  <2>4. QED
    BY <1>3, <1>6, <2>1, <2>2, <2>3 DEF WorldInv
<1>8. HistoryInv
  <2>1. \A n \in Names : View[n].id = <<Directory>> <=> dir[n] = Directory
    BY <1>7, ViewFacts, IdentityIs DEF ViewOK
  <2>2. QED
    BY <1>3, <1>7, <2>1, ViewFacts DEF HistoryInv, ViewOK
<1>9. QED
  BY <1>7, <1>8

LEMMA SourcesBegin ==
  ASSUME SourcesInit
  PROVE  SourcesInv /\ OutcomeIsJustified
<1>1. WorldInit
  BY DEF SourcesInit, SnapshotInit
<1>2. WorldInv /\ HistoryInv
  BY <1>1, WorldBegins
<1>3. LinkInv
  <2>1. PICK layout \in Layouts : dir = layout.dir
    BY <1>1 DEF WorldInit
  <2>2. QED
    BY <2>1, LinksLeadNowhere DEF LinkInv, IsFile
<1>4. CASE SnapshotInit /\ call = NoCall
  <2>1. Beginning
    BY <1>4, SnapshotConstants DEF SnapshotInit, Beginning
  <2>2. QED
    BY <1>2, <1>3, <1>4, <2>1, BeganInv DEF SourcesInv, CallInv, OutcomeIsJustified
<1>5. ASSUME job = Idle, copy = NoCopy, NEW c \in Calls, held = <<>>,
             call = [explicit |-> c.explicit, asked |-> c.asked, limit |-> c.limit,
                     wanted |-> Range(c.explicit), auto |-> c.auto,
                     todo |-> IF c.explicit = <<>> /\ c.auto
                              THEN <<".">> \o Conventional ELSE <<>>,
                     left |-> {}, found |-> {}, opened |-> Range(c.explicit),
                     outcome |-> "none", source |-> {}]
      PROVE  SourcesInv /\ OutcomeIsJustified
  <2>1. SnapshotInv
    BY <1>1, <1>2, <1>5, IdleInv DEF Idling, WorldInit
  <2>2. c.explicit \in Seq(Names) /\ c.auto \in BOOLEAN /\ c.limit \in Nat
    BY SourceConstants
  <2>3. <<".">> \o Conventional = <<".", "data", "datasets">>
    <3> DEFINE s == <<".">>
               t == <<"data", "datasets">>
               u == <<".", "data", "datasets">>
               S == {".", "data", "datasets"}
    <3>1. s \in Seq(S) /\ t \in Seq(S) /\ u \in Seq(S)
      OBVIOUS
    <3>2. /\ Len(s) = 1 /\ Len(t) = 2 /\ Len(u) = 3
          /\ s[1] = u[1] /\ t[1] = u[2] /\ t[2] = u[3]
      OBVIOUS
    <3> HIDE DEF s, t, u, S
    <3>3. /\ s \o t \in Seq(S) /\ Len(s \o t) = 3
          /\ \A i \in 1 .. 3 : (s \o t)[i] = IF i <= 1 THEN s[i] ELSE t[i - 1]
      <4>1. /\ s \o t \in Seq(S) /\ Len(s \o t) = Len(s) + Len(t)
            /\ \A i \in 1 .. (Len(s) + Len(t)) :
                 (s \o t)[i] = IF i <= Len(s) THEN s[i] ELSE t[i - Len(s)]
        BY <3>1, ConcatProperties
      <4>2. Len(s) + Len(t) = 3
        BY <3>2
      <4>3. QED
        BY <3>2, <4>1, <4>2
    <3>4. \A i \in 1 .. 3 : (s \o t)[i] = u[i]
      <4>1. \A i \in 1 .. 3 : i = 1 \/ i = 2 \/ i = 3
        OBVIOUS
      <4>2. (s \o t)[1] = u[1] /\ (s \o t)[2] = u[2] /\ (s \o t)[3] = u[3]
        BY <3>2, <3>3
      <4>3. QED
        BY <4>1, <4>2
    <3>5. s \o t = u
      BY <3>1, <3>2, <3>3, <3>4, SeqEqual
    <3>6. QED
      BY <3>5 DEF s, t, u, Conventional
  <2>4. Range(c.explicit) \subseteq Names /\ (Range(c.explicit) = {} => c.explicit = <<>>)
        /\ Range(<<>>) = {}
    <3>1. Len(c.explicit) \in Nat /\ DOMAIN c.explicit = 1 .. Len(c.explicit)
          /\ c.explicit \in [1 .. Len(c.explicit) -> Names]
      BY <2>2, LenProperties
    <3>2. c.explicit # <<>> => 1 \in DOMAIN c.explicit
      BY <2>2, <3>1, EmptySeq
    <3>3. DOMAIN <<>> = {}
      BY NothingIs
    <3>4. QED
      BY <3>1, <3>2, <3>3 DEF Range
  <2> DEFINE todo == IF c.explicit = <<>> /\ c.auto
                     THEN <<".", "data", "datasets">> ELSE <<>>
             wanted == Range(c.explicit)
  <2>5. todo \in Todos
    BY DEF Todos
  <2>6. call = [explicit |-> c.explicit, asked |-> c.asked, limit |-> c.limit,
                wanted |-> wanted, auto |-> c.auto, todo |-> todo,
                left |-> {}, found |-> {}, opened |-> wanted,
                outcome |-> "none", source |-> {}]
    BY <1>5, <2>3
  <2>7. wanted \subseteq Names
    BY <2>4
  <2> HIDE DEF todo, wanted
  <2>8. call \in CallType
    BY <2>2, <2>5, <2>6, <2>7 DEF CallType, Outcomes
  <2>9. Configured => todo = <<>>
    BY <2>2, <2>4, <2>6 DEF Configured, todo, wanted
  <2>10. ~Configured => c.explicit = <<>> /\ c.auto /\ wanted = {}
    BY <2>2, <2>4, <2>6 DEF Configured, wanted
  <2>11. ASSUME ~Configured, NEW n \in Eligible
         PROVE  Pending(n)
    <3>1. call.todo = <<".", "data", "datasets">>
      BY <2>6, <2>10, <2>11 DEF todo
    <3>2. n \in Databases /\ (Len(Path[n]) = 1 \/ Walked(n, "data") \/ Walked(n, "datasets"))
      BY <2>11 DEF Eligible, Configured, Conventional
    <3>3. DOMAIN call.todo = 1 .. 3 /\ call.todo[1] = "." /\ call.todo[2] = "data"
          /\ call.todo[3] = "datasets"
      BY <3>1
    <3>4. QED
      BY <3>2, <3>3 DEF Pending, Below
  <2>12. FoundInv
    BY <2>6, <2>8, <2>9, <2>10, <2>11 DEF FoundInv, wanted
  <2>13. DOMAIN held = {}
    BY <1>5, NothingIs
  <2>14. job.kind = "sqlite" /\ job.phase = "idle"
    BY <1>5, IdleIs
  <2>15. CallInv
    BY <2>6, <2>12, <2>13, <2>14 DEF CallInv, HeldInv
  <2>16. OutcomeIsJustified
    BY <2>6 DEF OutcomeIsJustified
  <2>17. QED
    BY <1>3, <2>1, <2>15, <2>16 DEF SourcesInv
<1>6. QED
  BY <1>4, <1>5 DEF SourcesInit

-----------------------------------------------------------------------------
(* What a call does.                                                       *)

Places == {".", "data", "datasets"}

LEMMA TodosAre ==
  ASSUME NEW todo \in Todos
  PROVE  todo \in Seq(Places)
<1> DEFINE S == Places
<1>1. <<".", "data", "datasets">> \in Seq(S)
  BY DEF Places
<1>2. <<"data", "datasets">> \in Seq(S)
  BY DEF Places
<1>3. <<"datasets">> \in Seq(S)
  BY DEF Places
<1>4. <<>> \in Seq(S)
  BY EmptySeq
<1> HIDE DEF S
<1>5. todo \in Seq(S)
  BY <1>1, <1>2, <1>3, <1>4 DEF Todos
<1>6. QED
  BY <1>5 DEF S

LEMMA TodoIs ==
  ASSUME NEW todo \in Todos, todo # <<>>
  PROVE  /\ Tail(todo) \in Todos /\ Head(todo) \in {".", "data", "datasets"}
         /\ Tail(todo) # <<>> => Head(Tail(todo)) # "."
         /\ \A k \in DOMAIN todo : todo[k] = Head(todo)
                                  \/ \E i \in DOMAIN Tail(todo) : Tail(todo)[i] = todo[k]
         /\ Head(todo) = "." => todo = <<".", "data", "datasets">>
<1> DEFINE S == Places
<1>1. todo \in {<<".", "data", "datasets">>, <<"data", "datasets">>, <<"datasets">>}
  BY DEF Todos
<1>2. todo \in Seq(S) /\ Head(todo) = todo[1]
  BY TodosAre
<1> HIDE DEF S
<1>3. /\ Tail(todo) \in Seq(S) /\ Len(Tail(todo)) = Len(todo) - 1
      /\ \A i \in 1 .. Len(Tail(todo)) : Tail(todo)[i] = todo[i + 1]
  BY <1>2, HeadTailProperties
<1>4. ASSUME NEW rest \in Todos, Len(rest) = Len(todo) - 1,
             \A i \in 1 .. Len(rest) : rest[i] = todo[i + 1]
      PROVE  Tail(todo) = rest
  <2>1. rest \in Seq(S)
    BY TodosAre DEF S
  <2>2. QED
    BY <1>3, <1>4, <2>1, SeqEqual
<1>5. Tail(todo) \in Todos
  <2>1. CASE todo = <<".", "data", "datasets">>
    <3> DEFINE rest == <<"data", "datasets">>
    <3>1. /\ rest \in Todos /\ Len(rest) = 2 /\ Len(todo) = 3
          /\ rest[1] = todo[2] /\ rest[2] = todo[3]
      BY <2>1 DEF Todos
    <3> HIDE DEF rest
    <3>2. \A i \in 1 .. 2 : rest[i] = todo[i + 1]
      <4>1. \A i \in 1 .. 2 : (i = 1 /\ i + 1 = 2) \/ (i = 2 /\ i + 1 = 3)
        OBVIOUS
      <4>2. QED
        BY <3>1, <4>1
    <3>3. /\ rest \in Todos /\ Len(rest) = Len(todo) - 1
          /\ \A i \in 1 .. Len(rest) : rest[i] = todo[i + 1]
      BY <3>1, <3>2
    <3>4. QED
      BY <1>4, <3>3
  <2>2. CASE todo = <<"data", "datasets">>
    <3> DEFINE rest == <<"datasets">>
    <3>1. rest \in Todos /\ Len(rest) = Len(todo) - 1
          /\ \A i \in 1 .. Len(rest) : rest[i] = todo[i + 1]
      BY <2>2 DEF Todos
    <3> HIDE DEF rest
    <3>2. QED
      BY <1>4, <3>1
  <2>3. CASE todo = <<"datasets">>
    <3>1. Len(Tail(todo)) = 0
      BY <1>3, <2>3
    <3>2. Tail(todo) = <<>>
      BY <1>3, <3>1, EmptySeq
    <3>3. QED
      BY <3>2 DEF Todos
  <2>4. QED
    BY <1>1, <2>1, <2>2, <2>3
<1>6. Tail(todo) # <<>> => Head(Tail(todo)) # "."
  <2>1. todo[2] # "." \/ Len(todo) = 1
    BY <1>1
  <2>2. ASSUME Tail(todo) # <<>>
        PROVE  Head(Tail(todo)) # "."
    <3>1. Head(Tail(todo)) = Tail(todo)[1] /\ Len(Tail(todo)) \in Nat \ {0}
      BY <1>3, <2>2, EmptySeq
    <3>2. Len(todo) \in Nat
      BY <1>2, LenProperties
    <3>3. Tail(todo)[1] = todo[2] /\ Len(todo) # 1
      BY <1>3, <3>1, <3>2
    <3>4. QED
      BY <2>1, <3>1, <3>3
  <2>3. QED
    BY <2>2
<1>7. ASSUME NEW k \in DOMAIN todo
      PROVE  todo[k] = Head(todo) \/ \E i \in DOMAIN Tail(todo) : Tail(todo)[i] = todo[k]
  <2>1. Len(todo) \in Nat /\ k \in 1 .. Len(todo)
    BY <1>2, <1>7, LenProperties
  <2>2. k = 1 \/ (k - 1) \in 1 .. Len(Tail(todo))
    BY <1>3, <2>1
  <2>3. ASSUME (k - 1) \in 1 .. Len(Tail(todo))
        PROVE  (k - 1) \in DOMAIN Tail(todo) /\ Tail(todo)[k - 1] = todo[k]
    <3>1. DOMAIN Tail(todo) = 1 .. Len(Tail(todo))
      BY <1>3, LenProperties
    <3>2. Tail(todo)[k - 1] = todo[(k - 1) + 1] /\ (k - 1) + 1 = k
      BY <1>3, <2>1, <2>3
    <3>3. QED
      BY <2>3, <3>1, <3>2
  <2>4. QED
    BY <1>2, <2>2, <2>3
<1>8. QED
  BY <1>1, <1>5, <1>6, <1>7

LEMMA RangeOf ==
  ASSUME NEW s \in Seq(Names)
  PROVE  /\ Range(<<>>) = {} /\ Range(s) \subseteq Names
         /\ s # <<>> => /\ Head(s) \in Names /\ Tail(s) \in Seq(Names)
                        /\ Range(s) = {Head(s)} \cup Range(Tail(s))
<1>1. Len(s) \in Nat /\ DOMAIN s = 1 .. Len(s) /\ s \in [1 .. Len(s) -> Names]
  BY LenProperties
<1>2. DOMAIN <<>> = {}
  BY NothingIs
<1>3. Range(<<>>) = {} /\ Range(s) \subseteq Names
  BY <1>1, <1>2 DEF Range
<1>4. ASSUME s # <<>>
      PROVE  /\ Head(s) \in Names /\ Tail(s) \in Seq(Names)
             /\ Range(s) = {Head(s)} \cup Range(Tail(s))
  <2>1. /\ Head(s) \in Names /\ Tail(s) \in Seq(Names) /\ Len(Tail(s)) = Len(s) - 1
        /\ \A i \in 1 .. Len(Tail(s)) : Tail(s)[i] = s[i + 1]
    BY <1>4, HeadTailProperties
  <2>2. Head(s) = s[1] /\ Len(s) \in Nat \ {0}
    BY <1>4, EmptySeq
  <2>3. DOMAIN Tail(s) = 1 .. (Len(s) - 1)
    BY <2>1, LenProperties
  <2> DEFINE r == Tail(s)
  <2> HIDE DEF r
  <2>4. \A i \in 1 .. (Len(s) - 1) : r[i] = s[i + 1]
    BY <2>1 DEF r
  <2>5. \A k \in DOMAIN s : s[k] \in {s[1]} \cup Range(r)
    <3>1. SUFFICES ASSUME NEW k \in 1 .. Len(s), k # 1
                   PROVE  s[k] \in Range(r)
      BY <1>1
    <3>2. (k - 1) \in 1 .. (Len(s) - 1) /\ (k - 1) + 1 = k
      BY <1>1, <3>1
    <3>3. r[k - 1] = s[k] /\ (k - 1) \in DOMAIN r
      BY <2>3, <2>4, <3>2 DEF r
    <3>4. QED
      BY <3>3 DEF Range
  <2>6. \A i \in DOMAIN r : r[i] \in Range(s)
    <3>1. SUFFICES ASSUME NEW i \in 1 .. (Len(s) - 1)
                   PROVE  r[i] \in Range(s)
      BY <2>3 DEF r
    <3>2. i + 1 \in DOMAIN s /\ r[i] = s[i + 1]
      BY <1>1, <2>4
    <3>3. QED
      BY <3>2 DEF Range
  <2>7. 1 \in DOMAIN s
    BY <1>1, <2>2
  <2>8. Range(s) = {s[1]} \cup Range(r)
    BY <2>5, <2>6, <2>7 DEF Range
  <2>9. QED
    BY <2>1, <2>2, <2>8 DEF r
<1>5. QED
  BY <1>3, <1>4

LEMMA FoundKeeps ==
  ASSUME FoundInv, call' = call, seen \subseteq seen'
  PROVE  FoundInv'
<1>1. /\ Configured' <=> Configured
      /\ Eligible' = Eligible
      /\ \A n \in Eligible : Pending(n)' <=> Pending(n)
  BY DEF Configured, Eligible, Pending
<1>2. QED
  BY <1>1 DEF FoundInv

LEMMA LinksKeep ==
  ASSUME LinkInv, dir' = dir
  PROVE  LinkInv'
BY DEF LinkInv, IsFile

LEMMA LinksStay ==
  ASSUME WorldInv, LinkInv, World \/ Expire
  PROVE  LinkInv'
<1> SUFFICES ASSUME NEW n \in Names, NEW m \in Names, dir'[n] = Link, Beyond(n, m)
             PROVE  {n, m} \cap Touched = {} /\ ~(dir'[m] \in Inodes)
  BY DEF LinkInv, IsFile
<1>1. dir'[n] = dir[n]
  BY DirChanges, Markers
<1>2. {n, m} \cap Touched = {} /\ ~(dir[m] \in Inodes)
  BY <1>1 DEF LinkInv, IsFile
<1>3. dir'[m] = dir[m]
  BY <1>2, DirChanges
<1>4. QED
  BY <1>2, <1>3

(* A step that only goes on with the search.                               *)
LEMMA GoesKeeps ==
  ASSUME SourcesInv, InCall, NEW c, Goes(c), FoundInv', call.found \subseteq c.found,
         c.outcome = "none", c.source = {}
  PROVE  SourcesInv' /\ OutcomeIsJustified'
<1>1. call' = c /\ held' = held /\ UNCHANGED vars
  BY DEF Goes
<1>2. SnapshotInv'
  BY <1>1, StutterKeeps DEF SourcesInv
<1>3. CallInv /\ call # NoCall
  BY DEF SourcesInv, InCall
<1>4. job' = job /\ seen' = seen /\ masked' = masked
  BY <1>1 DEF vars, history
<1>5. HeldInv'
  BY <1>1, <1>3, <1>4 DEF CallInv, HeldInv
<1>6. CallInv'
  BY <1>1, <1>3, <1>4, <1>5 DEF CallInv
<1>7. OutcomeIsJustified'
  BY <1>1 DEF OutcomeIsJustified
<1>8. LinkInv'
  BY <1>1, LinksKeep DEF SourcesInv, vars, world
<1>9. QED
  BY <1>2, <1>6, <1>7, <1>8 DEF SourcesInv

LEMMA CallIs ==
  ASSUME SourcesInv, InCall
  PROVE  /\ FoundInv /\ HeldInv /\ call \in CallType /\ call # NoCall
         /\ call.outcome = "none" /\ call.source = {}
         /\ call.explicit \in Seq(Names) /\ call.todo \in Todos
         /\ call.left \subseteq Names
         /\ call.found \subseteq Names /\ call.opened \subseteq Names
         /\ call.limit \in Nat /\ call.auto \in BOOLEAN
         /\ WorldInv /\ HistoryInv /\ PhaseInv
         /\ \A n \in Names : ~IsFile(n) => \E v \in seen : v[n].id \notin FileIds
<1>1. call # NoCall /\ call.outcome = "none" /\ CallInv /\ SnapshotInv
  BY DEF SourcesInv, InCall
<1>2. FoundInv /\ HeldInv /\ call \in CallType /\ call.source = {}
  BY <1>1 DEF CallInv, FoundInv
<1>3. WorldInv /\ HistoryInv /\ PhaseInv
  BY <1>1 DEF SnapshotInv
<1>4. \A n \in Names : ~IsFile(n) => \E v \in seen : v[n].id \notin FileIds
  BY <1>3, ViewFacts DEF ViewOK, HistoryInv
<1>5. QED
  BY <1>1, <1>2, <1>3, <1>4 DEF CallType

LEMMA ValidateKeeps ==
  ASSUME SourcesInv, ValidateExplicit, NEW n, n = Head(call.explicit),
         Goes([call EXCEPT !.explicit = Tail(@), !.found = @ \cup {n}])
  PROVE  SourcesInv' /\ OutcomeIsJustified'
<1> DEFINE rest == Tail(call.explicit)
           c == [call EXCEPT !.explicit = rest, !.found = @ \cup {n}]
<1>1. InCall /\ call.explicit # <<>>
  BY DEF ValidateExplicit
<1>2. /\ FoundInv /\ call \in CallType /\ call.outcome = "none" /\ call.source = {}
      /\ call.explicit \in Seq(Names) /\ call.found \subseteq Names
  BY <1>1, CallIs
<1>3. Configured
  BY <1>1, <1>2 DEF FoundInv
<1>4. /\ n \in Names /\ rest \in Seq(Names)
      /\ Range(call.explicit) = {n} \cup Range(rest)
  BY <1>1, <1>2, RangeOf
<1>5. Goes(c)
  OBVIOUS
<1> HIDE DEF rest
<1>6. /\ c \in CallType /\ c.explicit = rest /\ c.found = call.found \cup {n}
      /\ c.wanted = call.wanted /\ c.auto = call.auto /\ c.todo = call.todo
      /\ c.left = call.left
      /\ c.opened = call.opened /\ c.outcome = "none" /\ c.source = {}
  BY <1>2, <1>4 DEF CallType
<1> HIDE DEF c
<1>7. call' = c
  BY <1>5 DEF Goes
<1>8. FoundInv'
  <2>1. Configured'
    BY <1>3, <1>6, <1>7 DEF Configured
  <2>2. QED
    BY <1>2, <1>3, <1>4, <1>6, <1>7, <2>1 DEF FoundInv
<1>9. QED
  BY <1>1, <1>5, <1>6, <1>8, GoesKeeps

(* Discovery of one more place: what is below it is yet to be looked at,   *)
(* or is no file.                                                          *)
LEMMA PlaceKeeps ==
  ASSUME SourcesInv, InCall, call.todo # <<>>, call.left = {}, NEW more \in SUBSET Names,
         \A n \in more \cap Databases : Below(n, Head(call.todo)),
         \A n \in Databases \ more : Below(n, Head(call.todo)) => ~IsFile(n),
         NEW c \in CallType, Goes(c), c.todo = Tail(call.todo), c.left = more,
         c.explicit = call.explicit, c.found = call.found, c.wanted = call.wanted,
         c.auto = call.auto, c.opened = call.opened, c.outcome = "none", c.source = {}
  PROVE  SourcesInv' /\ OutcomeIsJustified'
<1> DEFINE rest == Tail(call.todo)
<1>1. /\ FoundInv /\ call \in CallType /\ call.todo \in Todos /\ call.found \subseteq Names
      /\ \A n \in Names : ~IsFile(n) => \E v \in seen : v[n].id \notin FileIds
  BY CallIs
<1>2. ~Configured
  BY <1>1 DEF FoundInv
<1>3. /\ Head(call.todo) \in Places
      /\ \A k \in DOMAIN call.todo :
           call.todo[k] = Head(call.todo) \/ \E i \in DOMAIN rest : rest[i] = call.todo[k]
  BY <1>1, TodoIs DEF Places
<1> HIDE DEF rest
<1>4. call' = c /\ seen' = seen
  BY DEF Goes, vars, history
<1>5. ~Configured' /\ Eligible' = Eligible
  BY <1>2, <1>4 DEF Configured, Eligible
<1>6. Eligible =
        {n \in Databases : Len(Path[n]) = 1 \/ \E k \in 1 .. 2 : Walked(n, Conventional[k])}
  BY <1>2 DEF Eligible, Configured
<1>7. more \cap Databases \subseteq Eligible
  <2>1. SUFFICES ASSUME NEW n \in more \cap Databases
                 PROVE  Len(Path[n]) = 1 \/ \E k \in 1 .. 2 : Walked(n, Conventional[k])
    BY <1>6
  <2>2. Conventional[1] = "data" /\ Conventional[2] = "datasets"
    BY DEF Conventional
  <2>3. Len(Path[n]) = 1 \/ Walked(n, "data") \/ Walked(n, "datasets")
    BY <1>3 DEF Below, Places
  <2>4. QED
    BY <2>2, <2>3
<1>8. ASSUME NEW n \in Eligible \ call.found
      PROVE  Pending(n)' \/ n \in more \/ \E v \in seen : v[n].id \notin FileIds
  <2>1. n \in Databases /\ n \in Names
    BY <1>6, SourceConstants
  <2>2. CASE \E v \in seen : v[n].id \notin FileIds
    BY <2>2
  <2>3. CASE Pending(n)
    <3>1. PICK k \in DOMAIN call.todo : Below(n, call.todo[k])
      BY <2>3 DEF Pending
    <3>2. CASE call.todo[k] = Head(call.todo)
      BY <1>1, <1>8, <2>1, <3>1, <3>2
    <3>3. CASE \E i \in DOMAIN rest : rest[i] = call.todo[k]
      BY <1>4, <3>1, <3>3 DEF Pending, Below, Walked, rest
    <3>4. QED
      BY <1>3, <3>2, <3>3
  <2>4. QED
    BY <1>1, <1>2, <1>8, <2>2, <2>3 DEF FoundInv
<1>9. FoundInv'
  BY <1>1, <1>2, <1>4, <1>5, <1>7, <1>8 DEF FoundInv
<1>10. QED
  BY <1>4, <1>9, GoesKeeps

(* One entry that was listed is looked at.                                 *)
LEMMA EntryKeeps ==
  ASSUME SourcesInv, InCall, NEW n \in call.left,
         Goes([call EXCEPT !.left = @ \ {n},
                           !.found = @ \cup ({n} \cap {m \in Databases : IsFile(m)})])
  PROVE  SourcesInv' /\ OutcomeIsJustified'
<1> DEFINE more == {n} \cap {m \in Databases : IsFile(m)}
           c == [call EXCEPT !.left = @ \ {n}, !.found = @ \cup more]
<1>1. /\ FoundInv /\ call \in CallType /\ call.outcome = "none" /\ call.source = {}
      /\ call.left \subseteq Names /\ call.found \subseteq Names
      /\ \A m \in Names : ~IsFile(m) => \E v \in seen : v[m].id \notin FileIds
  BY CallIs
<1>2. ~Configured /\ n \in Names
  BY <1>1 DEF FoundInv
<1>3. more \subseteq call.left \cap Databases /\ (n \in Databases /\ IsFile(n) => n \in more)
  OBVIOUS
<1>4. Goes(c)
  OBVIOUS
<1> HIDE DEF more
<1>5. /\ c \in CallType /\ c.explicit = call.explicit /\ c.found = call.found \cup more
      /\ c.wanted = call.wanted /\ c.auto = call.auto /\ c.todo = call.todo
      /\ c.left = call.left \ {n} /\ c.opened = call.opened
      /\ c.outcome = "none" /\ c.source = {}
  BY <1>1, <1>3 DEF CallType
<1> HIDE DEF c
<1>6. call' = c /\ seen' = seen
  BY <1>4 DEF Goes, vars, history
<1>7. ~Configured' /\ Eligible' = Eligible /\ \A m \in Eligible : Pending(m)' <=> Pending(m)
  BY <1>2, <1>5, <1>6 DEF Configured, Eligible, Pending
<1>8. Eligible \subseteq Databases
  BY <1>2 DEF Eligible, Configured
<1>9. \A m \in Eligible \ (call.found \cup more) :
        Pending(m) \/ m \in call.left \ {n} \/ \E v \in seen : v[m].id \notin FileIds
  BY <1>1, <1>2, <1>3, <1>8 DEF FoundInv
<1>10. FoundInv'
  BY <1>1, <1>2, <1>3, <1>5, <1>6, <1>7, <1>9 DEF FoundInv
<1>11. QED
  BY <1>4, <1>5, <1>10, GoesKeeps

LEMMA OpenFoundKeeps ==
  ASSUME SourcesInv, OpenFound, NEW n, n = Min(call.found \ call.opened),
         Goes([call EXCEPT !.opened = @ \cup {n}])
  PROVE  SourcesInv' /\ OutcomeIsJustified'
<1> DEFINE c == [call EXCEPT !.opened = @ \cup {n}]
<1>1. InCall /\ call.explicit = <<>> /\ call.opened # call.found
  BY DEF OpenFound
<1>2. /\ FoundInv /\ call \in CallType /\ call.outcome = "none" /\ call.source = {}
      /\ call.found \subseteq Names
  BY <1>1, CallIs
<1>3. Range(<<>>) = {}
  BY NothingIs DEF Range
<1>4. ~Configured /\ call.opened \subseteq call.found
  BY <1>1, <1>2, <1>3 DEF FoundInv
<1>5. n \in call.found
  <2>1. call.found \ call.opened # {} /\ call.found \ call.opened \in SUBSET Names
    BY <1>1, <1>2, <1>4
  <2>2. Min(call.found \ call.opened) \in call.found \ call.opened
    BY <2>1, LeastName
  <2>3. QED
    BY <2>2
<1>6. Goes(c)
  OBVIOUS
<1>7. /\ c \in CallType /\ c.explicit = call.explicit /\ c.found = call.found
      /\ c.wanted = call.wanted /\ c.auto = call.auto /\ c.todo = call.todo
      /\ c.left = call.left
      /\ c.opened = call.opened \cup {n} /\ c.outcome = "none" /\ c.source = {}
  BY <1>2, <1>5 DEF CallType
<1> HIDE DEF c
<1>8. call' = c /\ seen' = seen
  BY <1>6 DEF Goes, vars, history
<1>9. ~Configured' /\ Eligible' = Eligible /\ \A m \in Eligible : Pending(m)' <=> Pending(m)
  BY <1>4, <1>7, <1>8 DEF Configured, Eligible, Pending
<1>10. FoundInv'
  BY <1>2, <1>4, <1>5, <1>7, <1>8, <1>9 DEF FoundInv
<1>11. QED
  BY <1>1, <1>6, <1>7, <1>10, GoesKeeps

(* A step that ends the call, with an outcome that is justified.           *)
Justified(outcome, source) ==
  "returned" \notin masked =>
    /\ \A n \in source :
          /\ n \in Eligible /\ HadOnce(n)
          /\ ~ \E m \in Eligible \ {n} : HadThroughout(m)
    /\ outcome \in {"SOURCE_NOT_FOUND", "ENTITY_NOT_FOUND"} =>
          ~ \E n \in Eligible : HadThroughout(n)
    /\ outcome = "SOURCE_AMBIGUOUS" =>
          \E n, m \in Eligible : n # m /\ HadOnce(n) /\ HadOnce(m)

LEMMA EndWithKeeps ==
  ASSUME SourcesInv, InCall, NEW outcome \in Outcomes, outcome # "none",
         NEW source \in SUBSET Names, Justified(outcome, source), EndWith(outcome, source)
  PROVE  SourcesInv' /\ OutcomeIsJustified'
<1> DEFINE c == [call EXCEPT !.outcome = outcome, !.source = source]
<1>1. FoundInv /\ call \in CallType /\ job.kind = "sqlite" /\ job \in JobType
  BY CallIs DEF SourcesInv, CallInv, InCall, PhaseInv
<1>2. /\ call' = c /\ held' = <<>> /\ copy' = NoCopy /\ seen' = seen /\ masked' = masked
      /\ job' = [job EXCEPT !.phase = "refused", !.open = NoFile]
  BY DEF EndWith, history
<1>3. job'.phase = "refused" /\ job'.kind = "sqlite"
  BY <1>1, <1>2 DEF JobType
<1>4. /\ c \in CallType /\ c.explicit = call.explicit /\ c.found = call.found
      /\ c.wanted = call.wanted /\ c.auto = call.auto /\ c.todo = call.todo
      /\ c.left = call.left
      /\ c.opened = call.opened /\ c.outcome = outcome /\ c.source = source
      /\ c.asked = call.asked
  BY <1>1 DEF CallType
<1> HIDE DEF c
<1>5. SnapshotInv'
  BY EndKeeps DEF SourcesInv
<1>6. /\ Configured' <=> Configured
      /\ Eligible' = Eligible
      /\ \A n \in Eligible : Pending(n)' <=> Pending(n)
      /\ \A n \in Names : HadOnce(n)' <=> HadOnce(n)
      /\ \A n \in Names : HadThroughout(n)' <=> HadThroughout(n)
  BY <1>2, <1>4 DEF Configured, Eligible, Pending, HadOnce, HadThroughout, Had
<1>7. FoundInv'
  BY <1>1, <1>2, <1>4, <1>6 DEF FoundInv
<1>8. DOMAIN held' = {}
  BY <1>2, NothingIs
<1>9. CallInv'
  BY <1>2, <1>3, <1>4, <1>7, <1>8 DEF CallInv, HeldInv
<1>10. Eligible \subseteq Names
  BY <1>1, SourceConstants DEF Eligible, CallType
<1>11. OutcomeIsJustified'
  BY <1>2, <1>4, <1>6, <1>10 DEF OutcomeIsJustified, Justified
<1>12. LinkInv'
  BY LinksKeep DEF EndWith, world, SourcesInv
<1>13. QED
  BY <1>5, <1>9, <1>11, <1>12 DEF SourcesInv

LEMMA FailKeeps ==
  ASSUME SourcesInv, InCall, End("failed")
  PROVE  SourcesInv' /\ OutcomeIsJustified'
<1>1. Justified("failed", {})
  BY DEF Justified
<1>2. EndWith("failed", {})
  BY DEF End
<1>3. "failed" \in Outcomes /\ {} \in SUBSET Names
  BY DEF Outcomes
<1>4. QED
  BY <1>1, <1>2, <1>3, EndWithKeeps

(* Once all is searched, what was not found had nothing all the while.     *)
LEMMA LocatedIs ==
  ASSUME SourcesInv, Located
  PROVE  /\ call.found \subseteq Eligible
         /\ \A n \in Eligible \ call.found : ~HadThroughout(n)
<1>1. /\ FoundInv /\ HistoryInv /\ call.explicit = <<>> /\ call.todo = <<>>
      /\ call.left = {}
  BY CallIs DEF Located
<1>2. Range(<<>>) = {} /\ DOMAIN <<>> = {}
  BY NothingIs DEF Range
<1>3. CASE Configured
  BY <1>1, <1>2, <1>3 DEF FoundInv, Eligible, Configured
<1>4. CASE ~Configured
  <2>1. \A n \in Eligible : ~Pending(n)
    BY <1>1, <1>2 DEF Pending
  <2>2. ASSUME NEW n \in Eligible \ call.found
        PROVE  ~HadThroughout(n)
    <3>1. PICK v \in seen : v[n].id \notin FileIds
      BY <1>1, <1>4, <2>1, <2>2 DEF FoundInv
    <3>2. n \in Names
      BY <1>4, SourceConstants DEF Eligible, Configured
    <3>3. v[n].id \in Ids
      BY <1>1, <3>2 DEF HistoryInv, Views
    <3>4. Len(v[n].id) # 3
      BY <3>1, <3>3, IdLengths
    <3>5. QED
      BY <3>4 DEF HadThroughout, Had
  <2>3. QED
    BY <1>1, <1>4, <2>2 DEF FoundInv
<1>5. QED
  BY <1>3, <1>4

LEMMA NothingFoundKeeps ==
  ASSUME SourcesInv, NothingFound
  PROVE  SourcesInv' /\ OutcomeIsJustified'
<1>1. InCall /\ Located /\ call.found = {} /\ EndWith("SOURCE_NOT_FOUND", {})
  BY DEF NothingFound, Located, End
<1>2. Justified("SOURCE_NOT_FOUND", {})
  BY <1>1, LocatedIs DEF Justified
<1>3. "SOURCE_NOT_FOUND" \in Outcomes /\ {} \in SUBSET Names
  BY DEF Outcomes
<1>4. QED
  BY <1>1, <1>2, <1>3, EndWithKeeps

LEMMA ResolveKeeps ==
  ASSUME SourcesInv, Resolve
  PROVE  SourcesInv' /\ OutcomeIsJustified'
<1> DEFINE matches == {n \in DOMAIN held : call.asked \subseteq TablesOf(held[n])}
<1>1. InCall /\ Located /\ DOMAIN held = call.found
  BY DEF Resolve, Located
<1>2. HeldInv /\ HistoryInv /\ call.found \subseteq Names
  BY <1>1, CallIs
<1>3. /\ call.found \subseteq Eligible
      /\ \A n \in Eligible \ call.found : ~HadThroughout(n)
  BY <1>1, LocatedIs
<1>4. ASSUME "returned" \notin masked, NEW n \in DOMAIN held
      PROVE  /\ n \in matches => HadOnce(n)
             /\ n \notin matches => ~HadThroughout(n)
  <2>1. PICK v \in seen : v[n].id \in FileIds /\ held[n] = v[n].blocks
    BY <1>2, <1>4 DEF HeldInv
  <2>2. Len(v[n].id) = 3
    BY <2>1 DEF FileIds
  <2>3. n \in matches <=> Had(n, v)
    BY <2>1, <2>2 DEF Had
  <2>4. QED
    BY <2>1, <2>3 DEF HadOnce, HadThroughout
<1>5. /\ matches \subseteq Names /\ matches \subseteq Eligible
      /\ "returned" \notin masked => \A n \in Eligible \ matches : ~HadThroughout(n)
      /\ "returned" \notin masked => \A n \in matches : HadOnce(n)
  BY <1>1, <1>2, <1>3, <1>4
<1>6. IsFiniteSet(matches)
  <2> HIDE DEF matches
  <2>1. QED
    BY <1>5, SnapshotConstants, FS_Subset
<1>7. \/ matches = {} /\ EndWith("ENTITY_NOT_FOUND", {})
      \/ Cardinality(matches) > 1 /\ EndWith("SOURCE_AMBIGUOUS", {})
      \/ Cardinality(matches) = 1 /\ EndWith("answered", matches)
  <2>1. Cardinality(matches) \in Nat /\ (Cardinality(matches) = 0 => matches = {})
    <3> HIDE DEF matches
    <3>1. QED
      BY <1>6, FS_CardinalityType, FS_EmptySet
  <2>2. matches = {} \/ Cardinality(matches) > 1 \/ Cardinality(matches) = 1
    <3> HIDE DEF matches
    <3>1. QED
      BY <2>1
  <2>3. QED
    BY <2>2 DEF Resolve, End
<1> HIDE DEF matches
<1>8. CASE matches = {} /\ EndWith("ENTITY_NOT_FOUND", {})
  <2>1. Justified("ENTITY_NOT_FOUND", {})
    BY <1>5, <1>8 DEF Justified
  <2>2. "ENTITY_NOT_FOUND" \in Outcomes /\ {} \in SUBSET Names
    BY DEF Outcomes
  <2>3. QED
    BY <1>1, <1>8, <2>1, <2>2, EndWithKeeps
<1>9. CASE Cardinality(matches) > 1 /\ EndWith("SOURCE_AMBIGUOUS", {})
  <2>1. \E n, m \in matches : n # m
    <3>1. matches # {}
      <4>1. Cardinality({}) = 0
        BY FS_EmptySet
      <4>2. QED
        BY <1>9, <4>1
    <3>2. PICK n \in matches : TRUE
      BY <3>1
    <3>3. matches # {n}
      <4>1. Cardinality({n}) = 1
        BY FS_Singleton
      <4>2. QED
        BY <1>9, <4>1
    <3>4. QED
      BY <3>2, <3>3
  <2>2. Justified("SOURCE_AMBIGUOUS", {})
    BY <1>5, <2>1 DEF Justified
  <2>3. "SOURCE_AMBIGUOUS" \in Outcomes /\ {} \in SUBSET Names
    BY DEF Outcomes
  <2>4. QED
    BY <1>1, <1>9, <2>2, <2>3, EndWithKeeps
<1>10. CASE Cardinality(matches) = 1 /\ EndWith("answered", matches)
  <2>1. PICK n : matches = {n}
    BY <1>6, <1>10, FS_Singleton
  <2>2. Justified("answered", matches)
    BY <1>5, <2>1 DEF Justified
  <2>3. "answered" \in Outcomes /\ matches \in SUBSET Names
    BY <1>5 DEF Outcomes
  <2>4. QED
    BY <1>1, <1>10, <2>2, <2>3, EndWithKeeps
<1>11. QED
  BY <1>7, <1>8, <1>9, <1>10

LEMMA BeginKeeps ==
  ASSUME SourcesInv, BeginSnapshot
  PROVE  SourcesInv' /\ OutcomeIsJustified'
<1> DEFINE n == Min(call.found \ DOMAIN held)
           wanted == [kind |-> "sqlite", name |-> n, limit |-> call.limit]
<1>1. InCall /\ DOMAIN held # call.found /\ SnapshotInv
  BY DEF BeginSnapshot, Located, SourcesInv
<1>2. /\ FoundInv /\ HeldInv /\ call.found \subseteq Names /\ call.limit \in Nat
      /\ call # NoCall /\ call.outcome = "none" /\ call.source = {} /\ WorldInv
  BY <1>1, CallIs
<1>3. n \in call.found /\ n \in Names
  <2>1. call.found \ DOMAIN held # {} /\ call.found \ DOMAIN held \in SUBSET Names
    BY <1>1, <1>2 DEF HeldInv
  <2>2. n \in call.found \ DOMAIN held
    BY <2>1, LeastName
  <2>3. QED
    BY <1>2, <2>2
<1>4. job' = Began(wanted) /\ copy' = <<>> /\ call' = call /\ held' = held
  BY DEF BeginSnapshot
<1> HIDE DEF n
<1>5. wanted \in [kind : {"csv", "sqlite"}, name : Names, limit : Nat]
  BY <1>2, <1>3
<1>6. job'.kind = "sqlite" /\ job'.name = n
  <2> DEFINE w == wanted
  <2>1. w.kind = "sqlite" /\ w.name = n
    OBVIOUS
  <2> HIDE DEF wanted
  <2>2. QED
    BY <1>4, <1>5, <2>1, BeganIs
<1>7. Beginning'
  BY <1>4, <1>5 DEF Beginning
<1>8. Inside /\ expired' = expired
  BY DEF BeginSnapshot, Inside, world, history
<1>9. WorldInv' /\ HistoryInv'
  BY <1>1, <1>2, <1>8, InsideViews DEF WorldInv
<1>10. SnapshotInv'
  BY <1>7, <1>9, BeganKeeps
<1>11. FoundInv' /\ HeldInv'
  BY <1>2, <1>4, <1>8, FoundKeeps DEF HeldInv, Inside
<1>12. CallInv'
  BY <1>2, <1>3, <1>4, <1>6, <1>11 DEF CallInv
<1>13. OutcomeIsJustified'
  BY <1>2, <1>4 DEF OutcomeIsJustified
<1>14. LinkInv'
  BY <1>8, LinksKeep DEF Inside, SourcesInv
<1>15. QED
  BY <1>10, <1>12, <1>13, <1>14 DEF SourcesInv

LEMMA KeepKeeps ==
  ASSUME SourcesInv, KeepSnapshot
  PROVE  SourcesInv' /\ OutcomeIsJustified'
<1>1. InCall /\ job.phase = "done" /\ SnapshotInv /\ CallInv
  BY DEF KeepSnapshot, SourcesInv
<1>2. /\ FoundInv /\ HeldInv
      /\ call # NoCall /\ call.outcome = "none" /\ call.source = {} /\ WorldInv
  BY <1>1, CallIs
<1>3. job.kind = "sqlite" /\ job.name \in call.found /\ PhaseInv /\ BackupInv /\ HistoryInv
  BY <1>1, <1>2 DEF CallInv, SnapshotInv
<1>4. /\ held' = With(held, job.name, copy[job.name]) /\ call' = call
      /\ job' = Idle /\ copy' = NoCopy /\ expired' = FALSE
  BY DEF KeepSnapshot
<1>5. Inside
  BY DEF KeepSnapshot, Inside, world, history
<1>6. WorldInv' /\ HistoryInv'
  BY <1>1, <1>4, <1>5, InsideViews
<1>7. Idling'
  BY <1>4, IdleIs DEF Idling, Idle
<1>8. SnapshotInv'
  BY <1>6, <1>7, IdleKeeps
<1>9. FoundInv'
  BY <1>2, <1>4, <1>5, FoundKeeps DEF Inside
<1>10. /\ DOMAIN held' = DOMAIN held \cup {job.name} /\ held'[job.name] = copy[job.name]
       /\ \A n \in DOMAIN held \ {job.name} : held'[n] = held[n]
  BY <1>4 DEF With
<1>11. HeldInv'
  <2>1. DOMAIN held' \subseteq call'.found
    BY <1>2, <1>3, <1>4, <1>10 DEF HeldInv
  <2>2. ASSUME "returned" \notin masked
        PROVE  \E v \in seen : v[job.name].id \in FileIds
                               /\ copy[job.name] = v[job.name].blocks
    <3>1. PICK v \in seen : v[job.name].id = job.first[job.name]
                            /\ copy = Only(job.name, v[job.name].blocks)
      BY <1>1, <1>3, <2>2 DEF BackupInv, OfOneLook
    <3>2. job.first[job.name] \in FileIds
      BY <1>1, <1>3, FirstIs DEF BackupInv
    <3>3. QED
      BY <3>1, <3>2 DEF Only
  <2>3. QED
    BY <1>2, <1>5, <1>10, <2>1, <2>2 DEF HeldInv, Inside
<1>12. CallInv'
  BY <1>2, <1>4, <1>9, <1>11, IdleIs DEF CallInv
<1>13. OutcomeIsJustified'
  BY <1>2, <1>4 DEF OutcomeIsJustified
<1>14. LinkInv'
  BY <1>5, LinksKeep DEF Inside, SourcesInv
<1>15. QED
  BY <1>8, <1>12, <1>13, <1>14 DEF SourcesInv

LEMMA CallStepKeeps ==
  ASSUME SourcesInv, CallStep
  PROVE  SourcesInv' /\ OutcomeIsJustified'
<1>1. InCall
  BY DEF CallStep, ValidateExplicit, DiscoverRoot, DiscoverDirectory, DiscoverEntry, OpenFound,
         NothingFound, BeginSnapshot, KeepSnapshot, SnapshotFails, Resolve, Located
<1>2. /\ FoundInv /\ call.todo \in Todos /\ call \in CallType
      /\ call.outcome = "none" /\ call.source = {}
  BY <1>1, CallIs
<1>3. CASE End("failed")
  BY <1>1, <1>3, FailKeeps
<1>4. ASSUME ValidateExplicit, ~End("failed")
      PROVE  SourcesInv' /\ OutcomeIsJustified'
  BY <1>4, ValidateKeeps DEF ValidateExplicit
<1>5. ASSUME DiscoverRoot
      PROVE  SourcesInv' /\ OutcomeIsJustified'
  <2> DEFINE more == {n \in Databases : Len(Path[n]) = 1}
             c == [call EXCEPT !.todo = Tail(@), !.left = more]
  <2>1. call.todo # <<>> /\ Head(call.todo) = "." /\ call.left = {} /\ Goes(c)
    BY <1>5 DEF DiscoverRoot
  <2>2. more \in SUBSET Names /\ \A n \in Databases : Below(n, ".") <=> n \in more
    BY SourceConstants DEF Below
  <2> HIDE DEF more
  <2>3. c \in CallType /\ c.todo = Tail(call.todo) /\ c.left = more
        /\ c.explicit = call.explicit /\ c.found = call.found /\ c.wanted = call.wanted
        /\ c.auto = call.auto /\ c.opened = call.opened /\ c.outcome = "none" /\ c.source = {}
    BY <1>2, <2>1, <2>2, TodoIs DEF CallType
  <2> HIDE DEF c
  <2>4. QED
    BY <1>1, <2>1, <2>2, <2>3, PlaceKeeps
<1>6. ASSUME DiscoverDirectory, ~End("failed")
      PROVE  SourcesInv' /\ OutcomeIsJustified'
  <2> DEFINE top  == Head(call.todo)
             more == {n \in Names : Walked(n, top)}
             all  == [call EXCEPT !.todo = Tail(@), !.left = more]
             none == [call EXCEPT !.todo = Tail(@)]
  <2>1. /\ call.todo # <<>> /\ top # "." /\ call.left = {}
        /\ \/ Goes(all)
           \/ Goes(none) /\ \E n \in Names : Path[n] = <<top>> /\ dir[n] = Link
    BY <1>6 DEF DiscoverDirectory
  <2>2. \A n \in Databases : n \in Names /\ (Below(n, top) <=> n \in more)
    BY <2>1, SourceConstants DEF Below
  <2>3. Tail(call.todo) \in Todos /\ more \in SUBSET Names /\ {} \in SUBSET Names
    BY <1>2, <2>1, TodoIs
  <2>4. CASE Goes(all)
    <3> HIDE DEF more
    <3>1. all \in CallType /\ all.todo = Tail(call.todo) /\ all.left = more
          /\ all.explicit = call.explicit /\ all.found = call.found /\ all.wanted = call.wanted
          /\ all.auto = call.auto /\ all.opened = call.opened
          /\ all.outcome = "none" /\ all.source = {}
      BY <1>2, <2>3 DEF CallType
    <3> HIDE DEF all
    <3>2. QED
      BY <1>1, <2>1, <2>2, <2>3, <2>4, <3>1, PlaceKeeps
  <2>5. CASE Goes(none) /\ \E n \in Names : Path[n] = <<top>> /\ dir[n] = Link
    <3>1. PICK n \in Names : Path[n] = <<top>> /\ dir[n] = Link
      BY <2>5
    <3>2. ASSUME NEW m \in Databases, Below(m, top)
          PROVE  ~IsFile(m)
      <4>1. m \in Names /\ Path[m][1] = top /\ Len(Path[m]) > 1
        <5>1. m \in Names /\ Walked(m, top)
          BY <2>2, <3>2
        <5>2. \A k \in 2 .. 4 : k > 1
          OBVIOUS
        <5>3. QED
          BY <5>1, <5>2 DEF Walked
      <4>2. Len(Path[n]) = 1 /\ Path[n][1] = top
        BY <3>1
      <4>3. QED
        BY <3>1, <4>1, <4>2 DEF SourcesInv, LinkInv, Beyond
    <3> HIDE DEF more
    <3>3. none \in CallType /\ none.todo = Tail(call.todo) /\ none.left = {}
          /\ none.explicit = call.explicit /\ none.found = call.found
          /\ none.wanted = call.wanted /\ none.auto = call.auto /\ none.opened = call.opened
          /\ none.outcome = "none" /\ none.source = {}
      BY <1>2, <2>1, <2>3 DEF CallType
    <3> HIDE DEF none
    <3>4. QED
      BY <1>1, <2>1, <2>3, <2>5, <3>2, <3>3, PlaceKeeps
  <2>6. QED
    BY <2>1, <2>4, <2>5
<1>7. ASSUME OpenFound, ~End("failed")
      PROVE  SourcesInv' /\ OutcomeIsJustified'
  BY <1>7, OpenFoundKeeps DEF OpenFound
<1>8. ASSUME DiscoverEntry, ~End("failed")
      PROVE  SourcesInv' /\ OutcomeIsJustified'
  BY <1>1, <1>8, EntryKeeps DEF DiscoverEntry
<1>9. QED
  BY <1>3, <1>4, <1>5, <1>6, <1>7, <1>8, NothingFoundKeeps, BeginKeeps, KeepKeeps, ResolveKeeps
     DEF CallStep, SnapshotFails

(* A step of the snapshot, or of others, leaves the call as it is.         *)
LEMMA BesideKeeps ==
  ASSUME SourcesInv, SnapshotNext, UNCHANGED <<call, held>>
  PROVE  SourcesInv' /\ (OutcomeIsJustified => OutcomeIsJustified')
<1>1. SnapshotInv /\ CallInv
  BY DEF SourcesInv
<1>2. SnapshotInv'
  BY <1>1, SnapshotKeeps, OutsideKeeps DEF SnapshotNext
<1>3. /\ job'.kind = job.kind /\ job'.name = job.name /\ job.phase # "refused"
      /\ job'.phase \notin {"idle", "refused"} => job.phase \notin {"idle", "refused"}
      /\ seen \subseteq seen' /\ masked \subseteq masked'
  <2>1. CASE Snapshot
    <3>1. seen' = seen /\ masked' = masked
      BY <2>1 DEF Snapshot, history, ListDirectory, ListSubdirectory, StatEntry,
              BeginCopies, OpenFile, ReadChunk, EndOfFile, EndCopies, CompareWalks, OpenParent,
              Connect, BackupBatch, BackupProgress, GoOn, BackupFails, StatAgain, HashCopy, Refuse,
              Continue
    <3>2. QED
      BY <1>1, <2>1, <3>1, SnapshotJob DEF SnapshotInv
  <2>2. CASE World \/ Expire
    BY <1>1, <2>2, OutsideKeeps DEF Outside
  <2>3. QED
    BY <2>1, <2>2 DEF SnapshotNext
<1>4. LinkInv'
  <2>1. CASE Snapshot
    BY <2>1, LinksKeep DEF Snapshot, world, SourcesInv
  <2>2. CASE World \/ Expire
    BY <1>1, <2>2, LinksStay DEF SourcesInv, SnapshotInv
  <2>3. QED
    BY <2>1, <2>2 DEF SnapshotNext
<1>5. CASE call = NoCall
  BY <1>2, <1>4, <1>5 DEF SourcesInv, CallInv, OutcomeIsJustified
<1>6. CASE call # NoCall
  <2>1. FoundInv /\ HeldInv /\ job.kind = "sqlite"
    BY <1>1, <1>6 DEF CallInv
  <2>2. FoundInv'
    BY <1>3, <2>1, FoundKeeps
  <2>3. HeldInv'
    BY <1>3, <2>1 DEF HeldInv
  <2>4. call.outcome = "none" /\ call.source = {}
    BY <1>1, <1>3, <1>6 DEF CallInv
  <2>5. CallInv'
    BY <1>1, <1>3, <1>6, <2>1, <2>2, <2>3, <2>4 DEF CallInv
  <2>6. OutcomeIsJustified'
    BY <2>4 DEF OutcomeIsJustified
  <2>7. QED
    BY <1>2, <1>4, <2>5, <2>6 DEF SourcesInv
<1>7. QED
  BY <1>5, <1>6

LEMMA InvHolds == SourcesSpec => [](SourcesInv /\ OutcomeIsJustified)
<1>1. SourcesInit => SourcesInv /\ OutcomeIsJustified
  BY SourcesBegin
<1>2. SourcesInv /\ OutcomeIsJustified /\ [SourcesNext]_callVars =>
        SourcesInv' /\ OutcomeIsJustified'
  <2> SUFFICES ASSUME SourcesInv, OutcomeIsJustified, [SourcesNext]_callVars
               PROVE  SourcesInv' /\ OutcomeIsJustified'
    OBVIOUS
  <2>1. CASE CallStep
    BY <2>1, CallStepKeeps
  <2>2. CASE SnapshotNext /\ UNCHANGED <<call, held>>
    BY <2>2, BesideKeeps
  <2>3. CASE UNCHANGED callVars
    <3>1. UNCHANGED vars /\ call' = call /\ held' = held
      BY <2>3 DEF callVars
    <3>2. SnapshotInv'
      BY <3>1, StutterKeeps DEF SourcesInv
    <3>3. job' = job /\ seen' = seen /\ masked' = masked /\ copy' = copy
      BY <3>1 DEF vars, history
    <3>4. CallInv'
      BY <3>1, <3>3, FoundKeeps DEF SourcesInv, CallInv, HeldInv
    <3>5. OutcomeIsJustified'
      BY <3>1, <3>3 DEF OutcomeIsJustified, Eligible, HadOnce, HadThroughout, Had
    <3>6. LinkInv'
      BY <3>1, LinksKeep DEF vars, world, SourcesInv
    <3>7. QED
      BY <3>2, <3>4, <3>5, <3>6 DEF SourcesInv
  <2>4. QED
    BY <2>1, <2>2, <2>3 DEF SourcesNext
<1>3. QED
  BY <1>1, <1>2, PTL DEF SourcesSpec

-----------------------------------------------------------------------------
(* What follows.                                                           *)

(* The sources, the snapshot and its private copy stay of their types; a   *)
(* file is open only while it is read, and there is a private copy until   *)
(* the snapshot is refused.                                                *)
THEOREM SnapshotTypes == SourcesSpec => []SnapshotTypeOK
<1>1. SourcesInv => SnapshotTypeOK
  <2> SUFFICES ASSUME SourcesInv
               PROVE  SnapshotTypeOK
    OBVIOUS
  <2>1. WorldInv /\ HistoryInv /\ PhaseInv
    BY DEF SourcesInv, SnapshotInv
  <2>2. ASSUME NEW i \in Inodes
        PROVE  /\ file[i].blocks \in Seq(1 .. (Cardinality(Inodes) + written))
               /\ file[i].size \in 0 .. MaxBlocks /\ file[i].mtime \in 0 .. now
    BY <2>1 DEF WorldInv, FilesOf, BlocksUpTo
  <2>3. job.left \subseteq Names /\ job.listed \subseteq Names /\ DOMAIN job.first \subseteq Names
        /\ job.open \in Inodes \cup {NoFile}
    BY <2>1, FirstIs DEF PhaseInv, JobType
  <2>4. QED
    BY <2>1, <2>2, <2>3 DEF SnapshotTypeOK, WorldInv, HistoryInv, PhaseInv, Entries
<1>2. QED
  BY <1>1, InvHolds, PTL

LEMMA CheckedCopy == SourcesInv => CopyIsChecked
<1> SUFFICES ASSUME SourcesInv, job.phase = "done"
             PROVE  (copy = Part(checked) \/ masked # {}) /\ BytesCopied <= job.limit
  BY DEF CopyIsChecked
<1>1. SnapshotInv /\ PhaseInv /\ HistoryInv /\ ContentInv /\ SizeInv /\ BackupInv
  BY DEF SourcesInv, SnapshotInv
<1>2. BytesCopied <= job.limit
  BY <1>1 DEF SizeInv
<1>3. ASSUME masked = {}, job.kind = "csv"
      PROVE  copy = Part(checked)
  BY <1>1, <1>3 DEF ContentInv, Part
<1>4. ASSUME masked = {}, job.kind # "csv"
      PROVE  copy = Part(checked)
  <2>1. job.kind = "sqlite" /\ job.name \in Names
    BY <1>1, <1>4 DEF PhaseInv, JobType
  <2>2. PICK v \in seen : v[job.name].id = job.first[job.name]
                          /\ copy = Only(job.name, v[job.name].blocks)
    BY <1>1, <1>4, <2>1 DEF BackupInv, OfOneLook
  <2>3. checked[job.name].id = job.first[job.name] /\ job.first[job.name] \in FileIds
    BY <1>1, <2>1, FirstIs DEF BackupInv
  <2>4. v[job.name].blocks = checked[job.name].blocks
    BY <1>1, <1>4, <2>1, <2>2, <2>3 DEF HistoryInv
  <2>5. QED
    BY <1>4, <2>2, <2>4 DEF Part
<1>5. QED
  BY <1>2, <1>3, <1>4

(* An accepted copy is what the source was when its identities were looked *)
(* at for the second time, but for changes that identities do not show,    *)
(* and is no larger than the limit: _snapshot_csv_directory and            *)
(* _snapshot_sqlite.                                                       *)
THEOREM AcceptedCopiesAreChecked == SourcesSpec => []CopyIsChecked
BY CheckedCopy, InvHolds, PTL

(* An accepted copy is what the source was at one moment of the snapshot:  *)
(* no file is half old and half new, and no two are of different times. It *)
(* takes a file that went and came back to make it otherwise, or, for CSV  *)
(* directories only, one rewritten to the same size within a tick of the   *)
(* clock, or one below a subdirectory that came and went.                  *)
THEOREM AcceptedCopiesAreOfOneMoment == SourcesSpec => []CopyIsOfOneMoment
<1>1. SourcesInv => CopyIsOfOneMoment
  <2> SUFFICES ASSUME SourcesInv, job.phase = "done", "returned" \notin masked,
                      ~(job.kind = "csv" /\ masked \cap {"rewritten", "fleeting"} # {})
               PROVE  \E view \in seen : copy = Part(view)
    BY DEF CopyIsOfOneMoment
  <2>1. PhaseInv /\ HistoryInv /\ BackupInv
    BY DEF SourcesInv, SnapshotInv
  <2>2. CASE job.kind = "csv"
    <3>1. masked = {}
      BY <2>1, <2>2 DEF HistoryInv
    <3>2. QED
      BY <2>1, <3>1, CheckedCopy DEF CopyIsChecked, HistoryInv
  <2>3. CASE job.kind # "csv"
    <3>1. job.kind = "sqlite"
      BY <2>1, <2>3 DEF PhaseInv, JobType
    <3>2. OfOneLook
      BY <2>1, <3>1 DEF BackupInv
    <3>3. QED
      BY <2>3, <3>2 DEF OfOneLook, Part
  <2>4. QED
    BY <2>2, <2>3
<1>2. QED
  BY <1>1, InvHolds, PTL

(* Private copies do not outlive the snapshot or the call they were made   *)
(* for, whichever step failed.                                             *)
THEOREM CopiesAreRemoved == SourcesSpec => []NothingLeftBehind
<1>1. SourcesInv => NothingLeftBehind
  BY DEF SourcesInv, SnapshotInv, PhaseInv, CallInv, NothingLeftBehind
<1>2. QED
  BY <1>1, InvHolds, PTL

(* Whatever is written, renamed or removed during a call, its outcome is   *)
(* one the sources justify: RuntimeService._contexts and                   *)
(* _resolve_plan_context.                                                  *)
THEOREM OutcomesAreJustified == SourcesSpec => []OutcomeIsJustified
BY InvHolds, PTL

(* Once the deadline has passed a snapshot reads nothing more but a single *)
(* batch of a backup, which its progress then refuses: Deadline.check      *)
(* comes before every listing, look and chunk, and after every batch.      *)
THEOREM NothingIsReadLate == SourcesSpec => NothingReadLate
<1> DEFINE Late == expired /\ expired' /\ job.phase # "refused" =>
                     \/ job'.phase = "refused"
                     \/ job.phase = "backup" /\ job'.phase \in {"batch", "last"}
                     \/ /\ job'.walk = job.walk /\ job'.listed = job.listed
                        /\ copy' = copy /\ job'.open = job.open
                        /\ job'.phase = "backup" => job.phase = "backup"
<1>1. SourcesInv /\ [SourcesNext]_callVars => [Late]_<<job, copy>>
  <2> SUFFICES ASSUME SourcesInv, [SourcesNext]_callVars, expired, expired'
               PROVE  Late
    OBVIOUS
  <2>1. PhaseInv /\ job \in JobType
    BY DEF SourcesInv, SnapshotInv, PhaseInv
  <2>2. DOMAIN job = {"kind", "name", "limit", "phase", "left", "listed", "walk",
                    "first", "open", "basis"}
    BY <2>1 DEF JobType
  <2>3. CASE UNCHANGED <<job, copy>>
    BY <2>3
  <2>4. CASE job' = [job EXCEPT !.phase = "refused", !.open = NoFile]
    BY <2>2, <2>4
  <2>5. CASE CallStep
    <3>1. ~BeginSnapshot /\ ~KeepSnapshot /\ ~Resolve
      BY <2>1 DEF BeginSnapshot, KeepSnapshot, Resolve, PhaseInv
    <3>2. \A o, s : EndWith(o, s) =>
             job' = [job EXCEPT !.phase = "refused", !.open = NoFile]
      BY DEF EndWith
    <3>3. \A c : Goes(c) => UNCHANGED <<job, copy>>
      BY DEF Goes, vars
    <3>4. QED
      BY <2>3, <2>4, <2>5, <3>1, <3>2, <3>3
         DEF CallStep, ValidateExplicit, DiscoverRoot, DiscoverDirectory, DiscoverEntry,
             OpenFound, NothingFound, SnapshotFails, End
  <2>6. CASE World \/ Expire
    BY <2>3, <2>6, OutsideKeeps DEF SourcesInv, Outside
  <2>7. CASE Snapshot
    <3>1. CASE Refuse
      BY <2>4, <3>1 DEF Refuse
    <3>2. CASE BeginCopies
      BY <2>2, <3>2 DEF BeginCopies, Continue
    <3>3. CASE EndCopies
      BY <2>2, <3>3 DEF EndCopies, Continue
    <3>4. CASE CompareWalks /\ ~Refuse
      BY <2>2, <3>4 DEF CompareWalks, Continue
    <3>5. CASE BackupBatch
      <4>1. \E b : \E to \in {"batch", "last"} : job' = [job EXCEPT !.basis = b, !.phase = to]
        BY <3>5 DEF BackupBatch
      <4>2. QED
        BY <2>2, <3>5, <4>1 DEF BackupBatch
    <3>6. Refuse \/ BeginCopies \/ EndCopies \/ CompareWalks \/ BackupBatch
      BY <2>7 DEF Snapshot, ListDirectory, ListSubdirectory, StatEntry, OpenFile, ReadChunk,
                  EndOfFile, OpenParent, Connect, BackupProgress, BackupFails, StatAgain, HashCopy
    <3>7. QED
      BY <3>1, <3>2, <3>3, <3>4, <3>5, <3>6
  <2>8. QED
    BY <2>3, <2>5, <2>6, <2>7 DEF SourcesNext, SnapshotNext, callVars, vars
<1>2. QED
  BY <1>1, InvHolds, PTL DEF SourcesSpec, NothingReadLate

=============================================================================
