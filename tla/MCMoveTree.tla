------------------------------ MODULE MCMoveTree -----------------------------
(***************************************************************************)
(* A home with two children, one of which has a child that the other       *)
(* refers to; one id and one name to spare.                                *)
(***************************************************************************)
EXTENDS MoveTree

CONSTANTS home, about, team, data, spare

Item(id, parent, path, ref) == [id |-> id, parent |-> parent, path |-> path, ref |-> ref]

MCIds == {home, about, team, data, spare}
MCNames == {"home", "about", "team", "data"}

HomePath == <<"home">>
AboutPath == <<"home", "about">>
TeamPath == <<"home", "about", "team">>
DataPath == <<"home", "data">>

TreeOf(docs, FileFor(_)) ==
  [f \in {FileFor(d) : d \in docs} |-> CHOOSE d \in docs : FileFor(d) = f]

MCDocs == { Item(home, Outside, HomePath, NoRef),
            Item(about, home, AboutPath, NoRef),
            Item(team, about, TeamPath, DataPath),
            Item(data, home, DataPath, TeamPath) }

(* The files where the convention puts them.                               *)
MCTree == TreeOf(MCDocs, LAMBDA d : d.path)
MCInitialTrees == {MCTree}

(* What the theorems ask of the trees, these have: no fault, the layout of *)
(* the code, and no reference that names nothing.                          *)
ASSUME TreesAreLaidOut ==
  \A tree \in MCInitialTrees :
    /\ ~Faulted(Parsed(tree)) /\ Placed(Parsed(tree))
    /\ \A d \in Documents(Parsed(tree)) :
         d.ref = NoRef \/ \E e \in Documents(Parsed(tree)) : e.path = d.ref

(* Two siblings of one name, the second in a file of another name.         *)
TwinDocs == { Item(home, Outside, HomePath, NoRef),
              Item(about, home, AboutPath, NoRef),
              Item(team, about, TeamPath, NoRef),
              Item(spare, about, TeamPath, NoRef),
              Item(data, home, DataPath, NoRef) }
TwinFile(d) == IF d.id = spare THEN <<"home", "about", "team_1">> ELSE d.path
TwinTrees == {TreeOf(TwinDocs, TwinFile)}

(* The name of that file, and one that is also the name of a directory no  *)
(* scan enters.                                                            *)
LossyNames == MCNames \cup {"team_1", "bin"}
=============================================================================
