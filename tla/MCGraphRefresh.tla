--------------------------- MODULE MCGraphRefresh ---------------------------
(***************************************************************************)
(* One name for items, one for directories, one that is excluded; an item  *)
(* inside a directory, an item beside it.                                  *)
(***************************************************************************)
EXTENDS GraphRefresh

CONSTANTS good, broken

MCNames == {"a.yml", "d", "bin"}
MCTree == [p \in Paths |->
             IF p = <<"d">> THEN Dir
             ELSE IF p = <<"d", "a.yml">> THEN good
             ELSE IF p = <<"a.yml">> THEN broken
             ELSE Absent]
MCInitialTrees == {MCTree}
=============================================================================
