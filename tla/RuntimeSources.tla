--------------------------- MODULE RuntimeSources ---------------------------
(***************************************************************************)
(* runtime/sources.py and RuntimeService._contexts: a call finds the       *)
(* databases below the project, takes a snapshot of one after the other,   *)
(* and answers from the only one that has what it asks for.                *)
(***************************************************************************)
EXTENDS SourceSnapshot, Functions

CONSTANTS
  Path,       \* of each name, its components below the project
  Databases,  \* the names that end in .sqlite, .db or .sqlite3
  Ignored,    \* the components discovery does not go into, dotted ones too
  Schema,     \* the tables of a database whose first block is of that write
  Calls,      \* [explicit, auto, asked, limit]: configured names, in order;
              \* whether to discover without any; the tables asked for
  NoCall

ASSUME SourceConstants ==
  /\ Databases \subseteq Names
  /\ \A c \in Calls : /\ c.explicit \in Seq(Names) /\ c.auto \in BOOLEAN
                      /\ IsFiniteSet(c.asked) /\ c.asked # {} /\ c.limit \in Nat

(* Nothing is at a path that leads through a link, at the place of a       *)
(* directory, and it stays so.                                             *)
Beyond(n, m) == Len(Path[n]) = 1 /\ Len(Path[m]) > 1 /\ Path[m][1] = Path[n][1]

ASSUME LinksLeadNowhere ==
  \A layout \in Layouts, n, m \in Names :
    layout.dir[n] = Link /\ Beyond(n, m) =>
      {n, m} \cap Touched = {} /\ layout.dir[m] \notin Inodes

VARIABLES
  call,   \* the call under way, or NoCall where a snapshot alone is taken
  held    \* the private copies it has, by the names of their sources

callVars == <<vars, call, held>>

Conventional == <<"data", "datasets">>

Idle == [kind |-> "sqlite", name |-> Min(Names), limit |-> 0, phase |-> "idle",
         left |-> {}, listed |-> {}, walk |-> <<>>, first |-> <<>>, open |-> NoFile, basis |-> <<>>]

InCall == call # NoCall /\ call.outcome = "none"

(* However a call ends, its snapshots are closed.                          *)
EndWith(outcome, source) ==
  /\ call' = [call EXCEPT !.outcome = outcome, !.source = source]
  /\ held' = <<>> /\ copy' = NoCopy
  /\ job' = [job EXCEPT !.phase = "refused", !.open = NoFile]
  /\ UNCHANGED <<world, expired, history>>

End(code) == EndWith(code, {})

Goes(c) == call' = c /\ UNCHANGED <<vars, held>>

(* _validate_explicit, for the next of the configured sources.             *)
ValidateExplicit ==
  /\ InCall /\ call.explicit # <<>>
  /\ LET n == Head(call.explicit) IN
       IF n \notin Databases \/ ~IsFile(n) THEN End("failed")
       ELSE Goes([call EXCEPT !.explicit = Tail(@), !.found = @ \cup {n}])

(* What the walk of a conventional directory meets: three levels of        *)
(* directories, and not those that are ignored.                            *)
Walked(n, top) ==
  /\ Len(Path[n]) \in 2..4 /\ Path[n][1] = top
  /\ \A k \in 2..(Len(Path[n]) - 1) : Path[n][k] \notin Ignored

(* _discover: the entries of the project itself, then those of its         *)
(* conventional directories.                                               *)
DiscoverRoot ==
  /\ InCall /\ call.todo # <<>> /\ Head(call.todo) = "." /\ call.left = {}
  /\ Goes([call EXCEPT !.todo = Tail(@), !.left = {n \in Databases : Len(Path[n]) = 1}])

(* A link in a directory's place that leads to nothing does not exist; any *)
(* other, or a file, ends the call.                                        *)
DiscoverDirectory ==
  /\ InCall /\ call.todo # <<>> /\ Head(call.todo) # "." /\ call.left = {}
  /\ LET top  == Head(call.todo)
         here == {n \in Names : Path[n] = <<top>> /\ dir[n] \notin {Absent, Directory}}
     IN \/ here = {} /\ Goes([call EXCEPT !.todo = Tail(@),
                                          !.left = {n \in Names : Walked(n, top)}])
        \/ here # {} /\ End("failed")
        \/ /\ \E n \in here : dir[n] = Link
           /\ Goes([call EXCEPT !.todo = Tail(@)])

(* _walk_discovery and _is_sqlite look at one entry after the other. Below *)
(* a directory a link ends the call, and so does an entry that was listed  *)
(* and is gone.                                                            *)
DiscoverEntry ==
  /\ InCall
  /\ \E n \in call.left :
        \/ dir[n] \in {Absent, Link} /\ Len(Path[n]) > 1 /\ End("failed")
        \/ /\ dir[n] # Link \/ Len(Path[n]) = 1
           /\ Goes([call EXCEPT !.left = @ \ {n},
                                !.found = @ \cup ({n} \cap {m \in Databases : IsFile(m)})])

(* Once discovered, each source is opened, which it may not survive.       *)
OpenFound ==
  /\ InCall /\ call.explicit = <<>> /\ call.todo = <<>> /\ call.left = {}
  /\ call.opened # call.found
  /\ LET n == Min(call.found \ call.opened) IN
       IF ~IsFile(n) THEN End("failed") ELSE Goes([call EXCEPT !.opened = @ \cup {n}])

Located ==
  /\ InCall /\ call.explicit = <<>> /\ call.todo = <<>> /\ call.left = {}
  /\ call.opened = call.found

NothingFound == Located /\ call.found = {} /\ End("SOURCE_NOT_FOUND")

(* Sources are taken in byte order, each with a deadline of its own.       *)
BeginSnapshot ==
  /\ Located /\ job.phase = "idle" /\ DOMAIN held # call.found
  /\ job' = Began([kind |-> "sqlite", name |-> Min(call.found \ DOMAIN held),
                   limit |-> call.limit])
  /\ copy' = <<>>
  /\ UNCHANGED <<world, expired, history, call, held>>

KeepSnapshot ==
  /\ InCall /\ job.phase = "done"
  /\ held' = With(held, job.name, copy[job.name])
  /\ job' = Idle /\ copy' = NoCopy /\ expired' = FALSE
  /\ UNCHANGED <<world, history, call>>

(* Mutant: the snapshots taken before it are forgotten.                    *)
SnapshotFailsAlone ==
  /\ InCall /\ job.phase \in {"refused", "done"}
  /\ call' = [call EXCEPT !.outcome = "failed"]
  /\ UNCHANGED <<vars, held>>

(* The snapshot was refused, or its schema cannot be read.                 *)
SnapshotFails == InCall /\ job.phase \in {"refused", "done"} /\ End("failed")

TablesOf(blocks) == IF blocks = <<>> THEN {} ELSE Schema[blocks[1]]

(* Mutant: the first source that has the tables.                           *)
ResolveFirst ==
  /\ Located /\ job.phase = "idle" /\ call.found # {} /\ DOMAIN held = call.found
  /\ LET matches == {n \in DOMAIN held : call.asked \subseteq TablesOf(held[n])} IN
       IF matches = {} THEN End("ENTITY_NOT_FOUND") ELSE EndWith("answered", {Min(matches)})

(* _resolve_plan_context. A name that is not an entity id of the catalog   *)
(* is looked up by what follows its last dot, so that the source it may    *)
(* name decides nothing.                                                   *)
Resolve ==
  /\ Located /\ job.phase = "idle" /\ call.found # {} /\ DOMAIN held = call.found
  /\ LET matches == {n \in DOMAIN held : call.asked \subseteq TablesOf(held[n])} IN
       CASE matches = {} -> End("ENTITY_NOT_FOUND")
         [] Cardinality(matches) > 1 -> End("SOURCE_AMBIGUOUS")
         [] Cardinality(matches) = 1 -> EndWith("answered", matches)

CallStep ==
  \/ ValidateExplicit \/ DiscoverRoot \/ DiscoverDirectory \/ DiscoverEntry
  \/ OpenFound \/ NothingFound \/ BeginSnapshot \/ KeepSnapshot \/ SnapshotFails \/ Resolve

(* A snapshot alone, as the commands take it, or a call of the runtime.    *)
SourcesInit ==
  /\ held = <<>>
  /\ \/ SnapshotInit /\ call = NoCall
     \/ /\ WorldInit
        /\ job = Idle /\ copy = NoCopy
        /\ \E c \in Calls :
             call = [explicit |-> c.explicit, asked |-> c.asked, limit |-> c.limit,
                     wanted |-> Range(c.explicit), auto |-> c.auto,
                     todo |-> IF c.explicit = <<>> /\ c.auto
                              THEN <<".">> \o Conventional ELSE <<>>,
                     left |-> {}, found |-> {}, opened |-> Range(c.explicit),
                     outcome |-> "none", source |-> {}]

SourcesNext == CallStep \/ (SnapshotNext /\ UNCHANGED <<call, held>>)

SourcesSpec == SourcesInit /\ [][SourcesNext]_callVars

-----------------------------------------------------------------------------
(* The sources a call may answer from.                                     *)
Eligible ==
  IF call.wanted # {} \/ ~call.auto THEN call.wanted
  ELSE {n \in Databases : Len(Path[n]) = 1 \/ \E k \in 1..2 : Walked(n, Conventional[k])}

Had(n, view) == Len(view[n].id) = 3 /\ call.asked \subseteq TablesOf(view[n].blocks)
HadOnce(n) == \E view \in seen : Had(n, view)
HadThroughout(n) == \A view \in seen : Had(n, view)

(* Whatever is written, renamed or removed during a call: the source it    *)
(* answers from had the tables asked for, and no other source of the       *)
(* project had them all the while; it finds none only if none had them all *)
(* the while, and several only if several had them at some time.           *)
OutcomeIsJustified ==
  call # NoCall /\ "returned" \notin masked =>
    /\ \A n \in call.source :
          /\ n \in Eligible /\ HadOnce(n)
          /\ ~ \E m \in Eligible \ {n} : HadThroughout(m)
    /\ call.outcome \in {"SOURCE_NOT_FOUND", "ENTITY_NOT_FOUND"} =>
          ~ \E n \in Eligible : HadThroughout(n)
    /\ call.outcome = "SOURCE_AMBIGUOUS" =>
          \E n, m \in Eligible : n # m /\ HadOnce(n) /\ HadOnce(m)

(* Private copies of sources do not outlive the call or the snapshot they  *)
(* were made for, whichever step failed.                                   *)
NothingLeftBehind ==
  /\ job.phase = "refused" => copy = NoCopy
  /\ call # NoCall /\ call.outcome # "none" => held = <<>> /\ copy = NoCopy

=============================================================================
