------------------------------ MODULE MCWarmTree -----------------------------
(***************************************************************************)
(* Two item files and treesmith.toml, two ids: enough for two files to     *)
(* declare one id, for a file to lose its item and for a forged file.      *)
(***************************************************************************)
EXTENDS WarmTree

CONSTANTS a, b, default, strict

MCFiles == 1..3
MCToml == 3
MCIds == {a, b}
MCVals == {0, 1}
MCConfigs == {default, strict}

ItemOf(id, v) == [id |-> id, val |-> v]

MCEditContents == {ItemOf(a, 1), Alien, Absent}

(* A tree with a free name, and one two files of which declare one id,     *)
(* without a treesmith.toml.                                               *)
MCInitialTrees ==
  { <<ItemOf(a, 0), Absent, strict>>,
    <<ItemOf(a, 0), ItemOf(a, 1), Absent>> }

(* The server is killed in the runs with one edit; two edits meet in one   *)
(* life of the server.                                                     *)
OneKillForAnEdit == edits + kills <= MaxEdits

(* One item file and treesmith.toml.                                       *)
SmallFiles == {1, 3}
SmallTrees == {[f \in SmallFiles |-> IF f = MCToml THEN strict ELSE ItemOf(a, 0)]}
=============================================================================
