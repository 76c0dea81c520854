--------------------------- MODULE MCSarifExport ---------------------------
(***************************************************************************)
(* Exports of small flows: every strategy with the paths of one slice or of *)
(* both, and every set of result types a format of the tool asks for.      *)
(***************************************************************************)
EXTENDS SarifExport, MCTaintTables

MCNode == 1 .. 24

Types == [sarif |-> {"path_result"},
          instructions |-> {"path_result", "instruction_result"},
          graphs |-> {"path_result", "graphs"},
          all |-> ResultType]

Export(db0, format, strat) == [db |-> db0, types |-> Types[format], strategy |-> strat, match |-> FALSE]

\* Every part of a flow with a cycle, two ways to each sink and a sink behind a
\* sink.  Sources and sinks: one of each; two sinks, one on the way to the other; a
\* source's field; a sink's variable that is a source's as well.
PathExports ==
  {Export(Database(E, {<<1, "A">>}, {<<4, "B">>}, {"f"}), "sarif", s) :
     E \in FewFlows \cup OtherFlows \cup {Way}, s \in Strategy}
    \cup {Export(Database({<<1, 2>>} \cup E, {<<1, "A">>}, {<<3, "B">>, <<4, "B">>}, {"f"}), "sarif", s) :
            E \in SUBSET ((Way \cup {<<5, 2>>, <<2, 4>>}) \ {<<1, 2>>}), s \in Strategy}
    \cup {Export(Database(E, {<<1, "A">>, <<2, "A">>}, {<<4, "B">>, <<3, "B">>}, {"f"}), "sarif", s) :
            E \in FewFlows \cup {Way}, s \in Strategy}
    \cup {Export(Database(E, {<<1, "A">>, <<2, "A">>}, {<<2, "B">>, <<4, "B">>}, {"f"}), "sarif", s) :
            E \in OtherFlows, s \in {"front", "none"}}
    \cup {Export(Database(E, {<<1, "A">>}, {<<4, "B">>}, Both), "instructions", s) :
            E \in OtherFlows, s \in {"front", "back"}}

OtherExports ==
  {Export(Database(E, {<<1, "A">>, <<6, "B">>}, {<<4, "B">>}, Both), f, "front") :
     E \in {Fields} \cup FewFlows, f \in {"sarif", "graphs", "all"}}
    \cup {Export(Database(E, {<<1, "A">>}, {<<4, "B">>}, {"b"}), "all", "back") : E \in OtherFlows}
    \cup {[db |-> Database(Fields, {<<1, "A">>}, {<<4, "B">>}, Both), types |-> t,
           strategy |-> "front", match |-> m] :
            t \in {{"vertex_result"}, {"instruction_result"}, {"source_result"}}, m \in BOOLEAN}

MCExports == PathExports \cup OtherExports

BackwardExports ==
  {Export(Database(E, {<<1, "A">>}, {<<4, "B">>}, slices), f, s) :
     E \in OtherFlows, slices \in {{"f"}, {"b"}, Both}, f \in {"sarif", "graphs"}, s \in Strategy}

=============================================================================
