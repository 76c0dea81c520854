---------------------------- MODULE SarifExport ----------------------------
(***************************************************************************)
(* format_run_info and format_match_info (vis/sarif.py) with the search for *)
(* paths they run: the graph of the forward slice is loaded and searched,   *)
(* then that of the backward slice, and what was found is formatted.       *)
(***************************************************************************)
EXTENDS IterPaths, TaintInfo

CONSTANTS
  Exports  \* the exports a check ranges over

ASSUME ExportAssumption ==
  /\ Node = VertexId
  /\ \A e \in Exports : /\ e.db \in DatabaseType /\ DatabaseOK(e.db)
                        /\ e.types \subseteq ResultType /\ e.strategy \in Strategy
                        /\ e.match \in BOOLEAN  \* the tables of a match query are shown

\* A frontend keeps the schema; locations are kept by the name of what they are
\* of, and no two kinds of things share a name.
ASSUME LocatedAssumption ==
  /\ IsFiniteSet(DVar) /\ IsFiniteSet(DInsn) /\ IsFiniteSet(DFunction)
  /\ DVar \cap DInsn = {} /\ (DVar \cup DInsn) \cap DFunction = {}
  /\ \A e \in Exports : Located(e.db)

VARIABLES
  dir,      \* the slice that is loaded, or searched
  roots     \* the graph's root vertices, as they were before the search

exportVars == <<iterVars, infoVars, dir, roots>>

\* "v1" = "v" is all that the sources and sinks of a graph are joined on.
TaggedIds(tags, d) == {x.id : x \in {x \in db.vertex : x.direction = d /\ \E t \in tags : t.v = x.v}}

SliceGraph(d) == {<<e.from, e.to>> : e \in {e \in NaturalEdge(db) : e.direction = d}}

ExportInit ==
  /\ \E e \in Exports : /\ db = e.db
                        /\ resultTypes = e.types
                        /\ strategy = e.strategy
                        /\ phase = IF e.match THEN "match"
                                   ELSE IF {"graphs", "path_result"} \cap e.types # {} THEN "load"
                                   ELSE "populate"
  /\ graph = {}
  /\ InitSearch(CHOOSE i \in Node : TRUE)
  /\ sources = {} /\ sinks = {} /\ yielded = {} /\ roots = {}
  /\ dir = "f"
  /\ leaks = {}
  /\ tainted = NoTables /\ info = NoInfo /\ pending = <<>> /\ output = NoOutput

LoadTaintGraphMutant ==  \* a source that is a sink stays a root
  /\ phase = "load"
  /\ graph' = SliceGraph(dir)
  /\ sinks' = TaggedIds(db.sink, dir)
  /\ roots' = TaggedIds(db.source, dir)
  /\ sources' = IF "path_result" \in resultTypes THEN roots' ELSE {}
  /\ yielded' = {}
  /\ phase' = "search"
  /\ UNCHANGED <<strategy, callVars, bfsVars, searches, stack, paths, pc,
                 db, resultTypes, leaks, tainted, info, pending, output, dir>>

\* _load_taint_graph: the edges in execution order; a source that is a sink as
\* well is no root, so that no path has length 1.
LoadTaintGraph ==
  /\ phase = "load"
  /\ graph' = SliceGraph(dir)
  /\ sinks' = TaggedIds(db.sink, dir)
  /\ roots' = TaggedIds(db.source, dir) \ sinks'
  /\ sources' = IF "path_result" \in resultTypes THEN roots' ELSE {}
  /\ yielded' = {}
  /\ phase' = "search"
  /\ UNCHANGED <<strategy, callVars, bfsVars, searches, stack, paths, pc,
                 db, resultTypes, leaks, tainted, info, pending, output, dir>>

FindPaths ==
  /\ phase = "search"
  /\ IterStep
  /\ UNCHANGED <<infoVars, dir, roots>>

\* A path of the backward slice is dropped if one of the forward slice has the
\* same ends; their vertices never have the same ids.
EndSlice ==
  LET ends == {<<l.nodes[1], Last(l.nodes)>> : l \in leaks}
  IN  /\ phase = "search" /\ IterDone
      /\ leaks' = leaks \cup {[dir |-> dir, nodes |-> p] :
                                p \in {p \in yielded : dir = "f" \/ <<p[1], Last(p)>> \notin ends}}
      /\ \/ dir = "f" /\ dir' = "b" /\ phase' = "load"
         \/ dir = "b" /\ phase' = "populate" /\ UNCHANGED dir
      /\ UNCHANGED <<iterVars, db, resultTypes, tainted, info, pending, output, roots>>

FormatStep == InfoStep /\ UNCHANGED <<iterVars, dir, roots>>

ExportNext == LoadTaintGraph \/ FindPaths \/ EndSlice \/ FormatStep

\* The export runs in one thread, until it returns or raises.
ExportSpec == ExportInit /\ [][ExportNext]_exportVars /\ WF_exportVars(ExportNext)

----------------------------------------------------------------------------

ExportTypeOK ==
  /\ IterTypeOK
  /\ roots \subseteq Node
  /\ dir \in {"f", "b"}
  /\ leaks \subseteq [dir : {"f", "b"}, nodes : Seq(Node)]
  /\ \A l \in leaks : Len(l.nodes) > 1
  /\ tainted.var \subseteq DVar /\ tainted.insn \subseteq DInsn /\ tainted.func \subseteq DFunction
  /\ info.edges \subseteq [direction : {"f", "b"}, src : Node, dst : Node, insn : DInsn]
  /\ pending \in Seq(leaks)
  /\ phase \in {"load", "search", "populate", "metadata", "format",
                "match", "match-locations", "match-format", "done", "failed"}

\* When paths were asked for, the iteration has found each sink that a root
\* reaches, as PathsComplete says.
EverySinkHasPath ==
  phase = "search" /\ "path_result" \in resultTypes /\ IterDone => PathsComplete(roots)

\* When paths were asked for and the export returns, every leak in a slice (a
\* source, the very vertex, that reaches a vertex of a sink's variable, and is
\* not one itself) is a path result with its ends: neither the avoidance of
\* vertices nor the filter between the slices nor the restriction to the
\* paths' metadata loses one.
LeaksReported ==
  phase = "done" /\ "path_result" \in resultTypes /\ dir = "b" =>
    \A x, y \in db.vertex :
      /\ x.direction = y.direction
      /\ \E s \in db.source : VertexOf(s) = VertexOf(x)
      /\ x.v \notin {t.v : t \in db.sink} /\ y.v \in {t.v : t \in db.sink}
      /\ y.id \in ReachableFrom({x.id}, SliceGraph(x.direction))
      => \E r \in output.results : r.rule = "C0001" /\ r.ends = <<VertexOf(x), VertexOf(y)>>

\* "natural_flow.ReachableEdge: ... all edges are in natural (execution) order"
\* (vis/model.py:267): the steps of a code flow follow on each other from the
\* path's start to its end, and the instruction a step points at moves taint
\* from its source to its target, whichever slice the path is of.
FlowsFollowExecution ==
  \A r \in {r \in output.results : r.rule = "C0001"} :
    LET f == r.flow
        moves(s) == \E e \in NaturalEdge(db), x, y \in db.vertex :
                      /\ e.insn = s.at.obj /\ e.from = x.id /\ e.to = y.id
                      /\ s.from = VertexOf(x) /\ s.to = VertexOf(y)
    IN  /\ f # <<>>
        /\ f[1].from = r.ends[1] /\ Last(f).to = r.ends[2]
        /\ \A i \in 1 .. Len(f) - 1 : f[i].to = f[i + 1].from
        /\ \A i \in DOMAIN f : moves(f[i])

\* The temporary tables, filled in one place for one set of result types and
\* another for the rest, cover what the results mention: everything a result or
\* a step of a flow points at has one logical location, in its function's, and
\* the physical location of the database if that has one.
LocationsKnown ==
  LET shown == UNION {r.at \cup {r.flow[i].at : i \in DOMAIN r.flow} : r \in output.results}
      placed(o) == \E l \in db.location : l.element = o
      inside(o) == {q[2] : q \in {q \in db.varIn \cup db.insnIn : q[1] = o}}
  IN  phase = "done" =>
        \A a \in shown :
          /\ Cardinality(a.logical) = 1
          /\ \A i \in a.logical :
               LET parent == info.logical[i].parent
               IN  IF parent = 0 THEN inside(a.obj) = {} ELSE info.logical[parent].obj \in inside(a.obj)
          /\ a.obj \notin DFunction => (a.physical # {} <=> placed(a.obj))

\* "Aggregation of labels that cross the instruction" (vis/sarif.py:275), when
\* no label is that of a source and of a sink: each label of an instruction's
\* result is that of a row of a slice with that instruction.
LabelsCross ==
  {s.tag : s \in db.source} \cap {s.tag : s \in db.sink} = {} =>
    \A r \in {r \in output.results : r.rule = "C0002"} : \A a \in r.at :
      r.labels = {x.label : x \in {x \in db.vertex :
                    \E e \in db.edge : e.insn = a.obj /\ x.id \in {e.from, e.to}}}

\* Every export returns or raises: each search is repeated with more to avoid,
\* and each call of startpaths with fewer goals.
ExportEnds == <>(phase \in {"done", "failed"})

\* "Includes codeFlows members for every tainted path" (vis/sarif.py:186): every
\* path that was found can be shown.
EveryPathHasFlow == phase # "failed"

=============================================================================
