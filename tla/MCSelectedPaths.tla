-------------------------- MODULE MCSelectedPaths --------------------------
(***************************************************************************)
(* Selections of one or two vertices in small flows: between source and     *)
(* sink, an endpoint itself, on one of two ways, on both.                  *)
(***************************************************************************)
EXTENDS SelectedPaths, MCTaintTables

MCNode == 1 .. 24

MCDatabases ==
  {Database(E, {<<1, "A">>, <<3, "A">>}, {<<4, "A">>}, Both) : E \in FewFlows}
    \cup {Database(E, {<<1, "A">>}, {<<4, "A">>, <<3, "B">>}, Both) : E \in OtherFlows}

MCSelections ==
  {{MCVertex(2)}, {MCVertex(2), MCVertex(3)}, {MCVertex(1), MCVertex(4)}, {MCVertex(2), MCVertex(5)}}

=============================================================================
