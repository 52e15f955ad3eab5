-------------------------- MODULE MCRuntimeSources --------------------------
(* Small instances of RuntimeSources for TLC.                              *)
EXTENDS RuntimeSources, TLC

(* Two names that other programs write under, and others that stay: a      *)
(* database discovery does not go to, something in a directory's place,    *)
(* and, in one of the layouts, a subdirectory with one of the two in it.   *)
FiveNames == 0..4
TwoTouched == {1, 2}
ThreeInodes == 1..3
SomeUnder == [n \in FiveNames |-> IF n = 0 THEN {1} ELSE {}]
SomePaths == 0 :> <<"notes">> @@ 1 :> <<"data", "a", "s.db">> @@ 2 :> <<"x.db">>
               @@ 3 :> <<"data", ".old", "s.db">> @@ 4 :> <<"datasets">>

Layout(zero, one, two, three, four, lengths) ==
  [dir |-> 0 :> zero @@ 1 :> one @@ 2 :> two @@ 3 :> three @@ 4 :> four, length |-> lengths]

SomeLayouts ==
  {Layout(Absent, 1, 2, Absent, Absent, <<2, 1, 1>>),
   Layout(Absent, 1, Unsupported, 2, Link, <<1, 1, 1>>),
   Layout(Absent, Link, 2, Absent, Absent, <<1, 1, 1>>),
   Layout(Directory, Absent, Absent, 1, Absent, <<1, 1, 1>>)}

CsvDirectory == [kind |-> "csv", name |-> 1, limit |-> 3]
SqliteFile(limit) == [kind |-> "sqlite", name |-> 1, limit |-> limit]
SomeJobs == {CsvDirectory, SqliteFile(1), SqliteFile(2)}

(* Every first block brings another choice of two tables.                  *)
SomeSchemas ==
  [w \in 1..6 |-> CASE w \in {1, 4} -> {"orders", "customers"}
                    [] w \in {2, 5} -> {"orders"}
                    [] w \in {3, 6} -> {}]

Call(explicit, auto, asked) ==
  [explicit |-> explicit, auto |-> auto, asked |-> asked, limit |-> 2]

SomeCalls ==
  {Call(<<>>, TRUE, {"orders", "customers"}),
   Call(<<2, 1, 2>>, FALSE, {"orders"}), Call(<<>>, FALSE, {"orders"})}

=============================================================================
