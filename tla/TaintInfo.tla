----------------------------- MODULE TaintInfo -----------------------------
(***************************************************************************)
(* How vis/sarif.py turns the tables of a query and the paths found in them *)
(* into results: temporary tables are filled with what the results may      *)
(* mention, the metadata of that is loaded, and the results are formatted.  *)
(* A result type selects a kind of result.  Messages and names are left out:*)
(* a result is its rule, the objects it points at, its labels and, for a    *)
(* path, its ends and the steps of its code flow.                          *)
(***************************************************************************)
EXTENDS TaintDatabase, SequencesExt

VARIABLES
  db,           \* the database, which is only read
  resultTypes,
  leaks,        \* info.paths, with their directions
  tainted,      \* the temporary tables
  info,         \* the other fields of TaintInfo
  pending,      \* paths that are still to be formatted
  output,       \* what format_run_info or format_match_info returns
  phase

infoVars == <<db, resultTypes, leaks, tainted, info, pending, output, phase>>

ResultType == {"path_result", "instruction_result", "source_result", "sink_result",
               "vertex_result", "source_sink_function_result", "graphs"}

NoTables == [id |-> {}, edge |-> {}, var |-> {}, insn |-> {}, func |-> {}]
NoInfo   == [vertex |-> {}, labels |-> {}, edges |-> {}, insnLabels |-> {},
             physical |-> {}, logical |-> <<>>]
NoOutput == [results |-> {}, graphs |-> {}, logical |-> <<>>]

VertexOf(x) == [v |-> x.v, p |-> x.p]

\* The rows of a query, in some order.
Listed(S) == FoldSet(LAMBDA x, list : Append(list, x), <<>>, S)

\* Exactly the paths are wanted: only their metadata is loaded.
UsePaths == resultTypes = {"path_result"}

----------------------------------------------------------------------------
(* The temporary tables.                                                   *)

FunctionsOf(vars, insns) ==
  {r[2] : r \in {r \in db.varIn : r[1] \in vars}} \cup {r[2] : r \in {r \in db.insnIn : r[1] \in insns}}

\* taintpath_edge, in execution order.
PathEdges ==
  UNION {{[direction |-> l.dir, from |-> l.nodes[i], to |-> l.nodes[i + 1]] :
            i \in 1 .. Len(l.nodes) - 1} : l \in leaks}

TablesOfPaths ==
  LET ids   == UNION {ToSet(l.nodes) : l \in leaks}
      vars  == {x.v : x \in {x \in db.vertex : x.id \in ids}}
      \* The rows of the backward slice are in the order of the slice.
      insns == {e.insn : e \in {e \in db.edge :
                                  \E q \in PathEdges : q.from = e.from /\ q.to = e.to}}
  IN  [id |-> ids, edge |-> PathEdges, var |-> vars, insn |-> insns,
       func |-> FunctionsOf(vars, insns)]

TablesOfSlicesMutant ==  \* without the instructions of the backward slice
  LET vars  == {x.v : x \in db.vertex \cup db.source \cup db.sink}
      insns == {e.insn : e \in ForwardEdge(db)}
  IN  [id |-> {}, edge |-> {}, var |-> vars, insn |-> insns, func |-> FunctionsOf(vars, insns)]

TablesOfSlices ==
  LET vars  == {x.v : x \in db.vertex \cup db.source \cup db.sink}
      insns == {e.insn : e \in db.edge}
  IN  [id |-> {}, edge |-> {}, var |-> vars, insn |-> insns, func |-> FunctionsOf(vars, insns)]

PopulateTaintset ==
  /\ phase = "populate"
  /\ tainted' = IF UsePaths THEN TablesOfPaths ELSE TablesOfSlices
  /\ phase' = "metadata"
  /\ UNCHANGED <<db, resultTypes, leaks, info, pending, output>>

\* format_match_info fills them from the tables of the match query.
PopulateMatches ==
  /\ phase = "match"
  /\ LET of(kind) == {m.obj : m \in {m \in db.match : m.kind = kind}}
     IN  tainted' = [NoTables EXCEPT !.insn = of("insn"), !.var = of("var"),
                                     !.func = of("func") \cup FunctionsOf(of("var"), of("insn"))]
  /\ phase' = "match-locations"
  /\ UNCHANGED <<db, resultTypes, leaks, info, pending, output>>

----------------------------------------------------------------------------
(* Metadata.                                                               *)

VertexRows == {x \in db.vertex : UsePaths => x.id \in tainted.id}

\* labels_by_vertex, over both slices.
LabelsByVertex ==
  {<<VertexOf(x), x.label>> : x \in VertexRows}
    \cup (IF "source_result" \in resultTypes THEN {<<VertexOf(s), s.tag>> : s \in db.source} ELSE {})
    \cup (IF "sink_result" \in resultTypes THEN {<<VertexOf(s), s.tag>> : s \in db.sink} ELSE {})

\* insns_by_edge: from source to target in execution order.  If only the paths
\* are wanted, the rows are joined with the edges of paths, whose order is not
\* that of a row of the backward slice.
EdgeInfo ==
  LET wanted(e) == UsePaths => [direction |-> e.direction, from |-> e.from, to |-> e.to] \in tainted.edge
      row(src, dst, e) == [direction |-> e.direction, src |-> src, dst |-> dst, insn |-> e.insn]
  IN  {row(e.from, e.to, e) : e \in {e \in ForwardEdge(db) : wanted(e)}}
        \cup {row(e.to, e.from, e) : e \in {e \in BackwardEdge(db) : wanted(e)}}

LabelsByInsnMutant(rows, labels) ==  \* the labels of either end
  UNION {{<<r.insn, l>> : l \in {l \in DLabel :
            \E x \in VertexRows : x.id \in {r.src, r.dst} /\ <<VertexOf(x), l>> \in labels}} :
          r \in rows}

\* labels_by_insn: labels of both ends of an edge.
LabelsByInsn(rows, labels) ==
  LET both(r) == {l \in DLabel : \A i \in {r.src, r.dst} :
                                   \E x \in VertexRows : x.id = i /\ <<VertexOf(x), l>> \in labels}
  IN  UNION {{<<r.insn, l>> : l \in both(r)} : r \in rows}

\* Where an element is in the source.  The base of an absolute URI is dropped.
PhysicalLocations ==
  UNION {{[obj |-> l.element, kind |-> r.kind, region |-> r.id, file |-> f.id,
           based |-> f.base /\ ~f.absolute] :
            r \in {r \in db.region : r.id = l.region}, f \in {f \in db.file : f.id = l.file}} :
          l \in {l \in db.location : l.element \in tainted.insn \cup tainted.var}}

LocatedInsns == {r[1] : r \in {r \in db.insnIn : r[1] \in tainted.insn}}

\* logical_locations_array: the functions, then variables, then instructions,
\* each with the index of the function around it (0 if there is none).
LogicalLocations ==
  LET objs   == Listed(tainted.func) \o Listed(tainted.var) \o Listed(LocatedInsns)
      around(obj) == {r[2] : r \in {r \in db.varIn \cup db.insnIn : r[1] = obj}}
      index(obj)  == CHOOSE i \in DOMAIN objs : objs[i] = obj
  IN  [i \in DOMAIN objs |->
         [obj |-> objs[i],
          parent |-> IF around(objs[i]) = {} THEN 0 ELSE index(CHOOSE f \in around(objs[i]) : TRUE)]]

LoadMetadata ==
  /\ phase = "metadata"
  /\ info' = [vertex |-> VertexRows, labels |-> LabelsByVertex, edges |-> EdgeInfo,
              insnLabels |-> LabelsByInsn(EdgeInfo, LabelsByVertex),
              physical |-> PhysicalLocations, logical |-> LogicalLocations]
  /\ pending' = IF "path_result" \in resultTypes THEN Listed(leaks) ELSE <<>>
  /\ phase' = "format"
  /\ UNCHANGED <<db, resultTypes, leaks, tainted, output>>

LoadMatchLocations ==
  /\ phase = "match-locations"
  /\ info' = [NoInfo EXCEPT !.physical = PhysicalLocations, !.logical = LogicalLocations]
  /\ phase' = "match-format"
  /\ UNCHANGED <<db, resultTypes, leaks, tainted, pending, output>>

----------------------------------------------------------------------------
(* Results.                                                                *)

\* The physical location with the first kind of region there is, and the index
\* of the logical one.
LocationOf(obj) ==
  LET rows  == {l \in info.physical : l.obj = obj}
      first == {l \in rows : \A m \in rows :
                  SelectInSeq(RegionKinds, LAMBDA k : k = l.kind)
                    <= SelectInSeq(RegionKinds, LAMBDA k : k = m.kind)}
  IN  [obj |-> obj,
       physical |-> IF rows = {} THEN {} ELSE {CHOOSE l \in first : TRUE},
       logical |-> {i \in DOMAIN info.logical : info.logical[i].obj = obj}]

Result(rule, at, labels) ==
  [rule |-> rule, at |-> {LocationOf(o) : o \in at}, labels |-> labels, ends |-> <<>>, flow |-> <<>>]

VertexAt(i) == VertexOf(CHOOSE x \in info.vertex : x.id = i)
LabelAt(i)  == (CHOOSE x \in info.vertex : x.id = i).label

\* info.insns_by_edge[edge]
InsnsAtMutant(l, i) ==  \* the instructions that read the source, whatever they write
  {r.insn : r \in {r \in info.edges : r.direction = l.dir /\ r.src = l.nodes[i]}}
InsnsAt(l, i) ==
  {r.insn : r \in {r \in info.edges : r.direction = l.dir /\ r.src = l.nodes[i]
                                                         /\ r.dst = l.nodes[i + 1]}}

\* The steps of the path's code flow, each by the first instruction of its edge;
\* none, if an edge has no instruction.
CodeFlows(l) ==
  LET n == Len(l.nodes) - 1
      func(v) == {r[2] : r \in {r \in db.varIn : r[1] = v}}
      step(i, insn) ==
        LET from == VertexAt(l.nodes[i])
            to   == VertexAt(l.nodes[i + 1])
        IN  [at |-> LocationOf(insn), from |-> from, to |-> to,
             kind |-> IF func(from.v) = func(to.v) THEN "intraprocedural" ELSE "interprocedural"]
      flows[k \in 0 .. n] ==
        IF k = 0 THEN {<<>>}
        ELSE {Append(f, step(k, insn)) : f \in flows[k - 1], insn \in InsnsAt(l, k)}
  IN  flows[n]

FormatPath ==
  /\ phase = "format" /\ pending # <<>>
  /\ LET l     == Head(pending)
         first == l.nodes[1]
     IN  \/ \E flow \in CodeFlows(l) :
              /\ output' = [output EXCEPT !.results = @ \cup
                   {[Result("C0001", {}, {LabelAt(first)}) EXCEPT
                       !.ends = <<VertexAt(first), VertexAt(Last(l.nodes))>>,
                       !.flow = flow]}]
              /\ pending' = Tail(pending)
              /\ UNCHANGED phase
         \/ /\ CodeFlows(l) = {}  \* IndexError: nothing is printed
            /\ phase' = "failed"
            /\ output' = NoOutput
            /\ UNCHANGED pending
  /\ UNCHANGED <<db, resultTypes, leaks, tainted, info>>

LabelsOf(x, relation) == {q[2] : q \in {q \in relation : q[1] = x}}

\* One result for each function with instructions of both slices.
FunctionPairs ==
  LET within(f, E) == {e \in E : <<e.insn, f>> \in db.insnIn}
      pairs(f) == {<<e.insn, b.insn>> : e \in within(f, ForwardEdge(db)), b \in within(f, BackwardEdge(db))}
  IN  {CHOOSE q \in pairs(f) : TRUE : f \in {f \in DFunction : pairs(f) # {}}}

OtherResults ==
  LET wanted(type, results) == IF type \in resultTypes THEN results ELSE {}
  IN  wanted("source_result", {Result("C0003", {s.v}, {s.tag}) : s \in db.source})
        \cup wanted("sink_result", {Result("C0004", {s.v}, {s.tag}) : s \in db.sink})
        \cup wanted("vertex_result",
               {Result("C0005", {x.v}, LabelsOf(VertexOf(x), info.labels)) : x \in db.vertex})
        \cup wanted("instruction_result",
               {Result("C0002", {e.insn}, LabelsOf(e.insn, info.insnLabels)) : e \in NaturalEdge(db)})
        \cup wanted("source_sink_function_result",
               {Result("C0006", {q[1], q[2]},
                       LabelsOf(q[1], info.insnLabels) \cup LabelsOf(q[2], info.insnLabels)) :
                  q \in FunctionPairs})

\* The assertions before the results of vertices, instructions and functions.
LabelsLoaded ==
  /\ "vertex_result" \in resultTypes =>
       \A x \in db.vertex : VertexOf(x) \in {q[1] : q \in info.labels}
  /\ {"instruction_result", "source_sink_function_result"} \cap resultTypes # {} =>
       \A e \in db.edge : e.insn \in {r.insn : r \in info.edges}

\* The graphs of both slices: a node for each end of an edge, an edge for each
\* instruction.
FormatGraphs ==
  IF "graphs" \notin resultTypes THEN {}
  ELSE {LET rows == {r \in info.edges : r.direction = d}
        IN  [direction |-> d,
             nodes |-> {[id |-> i, label |-> LabelAt(i), at |-> LocationOf(VertexAt(i).v)] :
                          i \in {r.src : r \in rows} \cup {r.dst : r \in rows}},
             edges |-> {<<r.src, r.dst, r.insn>> : r \in rows}] : d \in {"f", "b"}}

FormatRest ==
  /\ phase = "format" /\ pending = <<>>
  /\ output' = IF LabelsLoaded
               THEN [results |-> output.results \cup OtherResults, graphs |-> FormatGraphs,
                     logical |-> info.logical]
               ELSE NoOutput  \* AssertionError
  /\ phase' = IF LabelsLoaded THEN "done" ELSE "failed"
  /\ UNCHANGED <<db, resultTypes, leaks, tainted, info, pending>>

\* One result for each row of the match query.
FormatMatches ==
  LET rule == [insn |-> "M0001", var |-> "M0002", func |-> "M0003"]
  IN  /\ phase = "match-format"
      /\ output' = [NoOutput EXCEPT !.results =
                      {Result(rule[m.kind], {m.obj}, {m.label}) : m \in db.match}]
      /\ phase' = "done"
      /\ UNCHANGED <<db, resultTypes, leaks, tainted, info, pending>>

InfoStep ==
  \/ PopulateTaintset \/ LoadMetadata \/ FormatPath \/ FormatRest
  \/ PopulateMatches \/ LoadMatchLocations \/ FormatMatches

=============================================================================
