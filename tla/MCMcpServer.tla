----------------------------- MODULE MCMcpServer ----------------------------
(***************************************************************************)
(* A session with two requests on their way at most, over the small trees  *)
(* of MCWarmTree.                                                          *)
(***************************************************************************)
EXTENDS McpServer

CONSTANTS a, b, default, strict

LineOf(is, id) == [is |-> is, id |-> id]

MCInputs ==
  { LineOf("call query", 1), LineOf("call write", 2), LineOf("ping", 2),
    LineOf("unknown", NoRequest), LineOf("not JSON", NoRequest),
    LineOf("not UTF-8", NoRequest) }

MCIds == {a}
MCVals == {0, 1}
MCConfigs == {default, strict}

ItemOf(id, v) == [id |-> id, val |-> v]

MCFiles == {1, 3}
MCToml  == 3
MCEditContents == {ItemOf(a, 1)}
MCTrees ==
  {[f \in MCFiles |-> IF f = MCToml THEN strict ELSE Absent]}
=============================================================================
