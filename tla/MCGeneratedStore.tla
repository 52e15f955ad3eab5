-------------------------- MODULE MCGeneratedStore --------------------------
(* Small instances of GeneratedStore for TLC.                              *)
EXTENDS GeneratedStore, TLC

CONSTANTS scan1, scan2, reader, reporter, setter, s1, s2

(* A relationship; another one is added, or the first one is edited.       *)
First  == [decl |-> "kept", rest |-> "one"]
Second == [decl |-> "kept", rest |-> "two"]
Third  == [decl |-> "edited", rest |-> "two"]
ThreeModels == {First, Second, Third}
OneEdit == {<<First, Second>>, <<First, Third>>}

(* Contents that never come back.                                          *)
Onwards == {pair \in Contents \X Contents : pair[2] = pair[1] + 1}

(* A reader beside a scanner of which a step fails; the same with two      *)
(* failures, and contents that change once; every kind of command at once, *)
(* where nothing fails; two sources that change while they are read, and a *)
(* model that is edited; two scanners, of which one may die.               *)
FailingScan ==
  [commands |-> {scan1, reader}, sources |-> {s1}, contents |-> Contents, edits |-> {},
   faults |-> 1, crashes |-> 1]

FailingTwice == [FailingScan EXCEPT !.contents = {0, 1}, !.faults = 2]

AllCommands ==
  [commands |-> {scan1, reader, reporter, setter}, sources |-> {s1}, contents |-> {0, 1},
   edits |-> {}, faults |-> 0, crashes |-> 0]

TwoSources ==
  [commands |-> {scan1, reader}, sources |-> {s1, s2}, contents |-> {0, 1}, edits |-> OneEdit,
   faults |-> 0, crashes |-> 0]

RacingScans ==
  [commands |-> {scan1, scan2}, sources |-> {s1}, contents |-> {0, 1}, edits |-> {},
   faults |-> 0, crashes |-> 1]

FiveCasts == {FailingScan, FailingTwice, AllCommands, TwoSources, RacingScans}

=============================================================================
