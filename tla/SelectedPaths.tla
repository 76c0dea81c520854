--------------------------- MODULE SelectedPaths ---------------------------
(***************************************************************************)
(* find_paths (vis/sarifpaths.py): the paths that lead from sources to      *)
(* vertices a user selected, and on from there to sinks.  For either slice  *)
(* the table of shortest paths to (from) the selected vertices is computed, *)
(* and startpaths searches the small graph it leaves.                       *)
(***************************************************************************)
EXTENDS PathSearch, PathTable

CONSTANTS
  Databases,  \* the databases a check ranges over
  Selections  \* the sets of vertices a user may select

ASSUME FindAssumption ==
  /\ Node = VertexId
  /\ Databases \subseteq DatabaseType /\ \A d \in Databases : DatabaseOK(d)
  /\ Selections \subseteq SUBSET DVertex

VARIABLES
  selected, phase,
  todo,    \* starts that are still to be searched from
  results  \* the paths handed out, as vertices

findVars == <<searchVars, tableVars, db, selected, phase, todo, results>>

VertexOf(x) == [v |-> x.v, p |-> x.p]

\* "flow.ReachableVertex": the rows of both slices.
sourceIds == {x.id : x \in {x \in db.vertex : \E s \in db.source : s.v = x.v /\ s.p = x.p}}
sinkIds   == {x.id : x \in {x \in db.vertex : \E s \in db.sink : s.v = x.v /\ s.p = x.p}}

verticesIds(d) ==
  {x.id : x \in {x \in db.vertex : x.direction = d /\ VertexOf(x) \in selected}}

StartsOf(d) == IF d = "f" THEN sourceIds ELSE verticesIds(d)
GoalsOf(d)  == IF d = "f" THEN verticesIds(d) ELSE sinkIds

FindInit ==
  /\ db \in Databases
  /\ selected \in Selections
  /\ strategy \in Strategy
  /\ graph = {}
  /\ InitSearch(CHOOSE i \in Node : TRUE)
  /\ dir = "f" /\ fp = {} /\ n = 0 /\ tableStarts = {}
  /\ phase = "begin"
  /\ todo = {}
  /\ results = {}

Begin ==
  /\ phase = "begin"
  /\ InitTable(verticesIds(dir))
  /\ phase' = "table"
  /\ UNCHANGED <<searchVars, db, dir, selected, todo, results>>

Fill ==
  /\ phase = "table"
  /\ AugmentTable
  /\ UNCHANGED <<searchVars, selected, phase, todo, results>>

Load ==
  /\ phase = "table" /\ TableDone
  /\ graph' \in ResultGraphs
  /\ todo' = StartsOf(dir)
  /\ phase' = "search"
  /\ UNCHANGED <<tableVars, db, strategy, callVars, bfsVars, searches, stack, paths, pc,
                 selected, results>>

NextStart ==
  /\ phase = "search" /\ pc = "idle"
  /\ \E i \in todo : todo' = todo \ {i} /\ Call(i, GoalsOf(dir))
  /\ UNCHANGED <<tableVars, db, selected, phase, results>>

Searching ==
  /\ phase = "search"
  /\ SearchStep
  /\ UNCHANGED <<tableVars, db, selected, phase, todo, results>>

\* The vertices a path's ids stand for in the slice searched, in its order.
Projected(p) ==
  LET row(i) == CHOOSE x \in db.vertex : x.id = i
  IN  [direction |-> dir,
       path |-> [k \in DOMAIN p |-> VertexOf(row(p[k]))]]

Yield ==
  /\ phase = "search" /\ pc = "return"
  /\ results' = results \cup {Projected(p) : p \in paths}
  /\ pc' = "idle"
  /\ paths' = {}
  /\ UNCHANGED <<inputVars, callVars, bfsVars, searches, stack, tableVars, db,
                 selected, phase, todo>>

EndDirection ==
  /\ phase = "search" /\ pc = "idle" /\ todo = {}
  /\ \/ dir = "f" /\ dir' = "b" /\ phase' = "begin"
     \/ dir = "b" /\ phase' = "done" /\ UNCHANGED dir
  /\ UNCHANGED <<searchVars, fp, n, tableStarts, db, selected, todo, results>>

FindNext == Begin \/ Fill \/ Load \/ NextStart \/ Searching \/ Yield \/ EndDirection

\* The generator runs as long as its caller asks for paths.
FindSpec == FindInit /\ [][FindNext]_findVars /\ WF_findVars(FindNext)

----------------------------------------------------------------------------

FindTypeOK ==
  /\ SearchTypeOK
  /\ db \in Databases
  /\ dir \in {"f", "b"}
  /\ n \in Nat
  /\ \A r \in fp : /\ r.node \in VertexId /\ r.next_node \in VertexId
                   /\ r.path_length = r.iteration_count + 1 /\ r.iteration_count \in 0 .. n
  /\ tableStarts \subseteq VertexId
  /\ phase \in {"begin", "table", "search", "done"}
  /\ todo \subseteq Node

\* The slice in execution order.
SliceGraph(d) == {<<e.from, e.to>> : e \in {e \in NaturalEdge(db) : e.direction = d}}
Converse(E)   == {<<e[2], e[1]>> : e \in E}

\* When the table is complete, it has one row for every edge that leads to a
\* start vertex (from one, in the backward slice) and the least path_length
\* among the rows of a vertex is the number of edges to the nearest start,
\* though no row is ever corrected and rows of one step do not see each other.
TableShortest ==
  phase = "table" /\ TableDone =>
    LET E    == IF dir = "f" THEN Converse(SliceGraph(dir)) ELSE SliceGraph(dir)
        near == Ball(tableStarts, E)
        reach == near[Cardinality(Node)]
    IN  /\ {<<r.node, r.next_node>> : r \in fp} = {e \in E : e[1] \in reach}
        /\ \A q, r \in fp : q.node = r.node /\ q.next_node = r.next_node => q = r
        /\ \A v \in reach \ tableStarts : \A r \in Nearest(v) :
             v \in near[r.path_length] /\ v \notin near[r.path_length - 1]

\* Whatever ties the table breaks, what is handed out for a source (a sink) that
\* is connected to a selected vertex includes a path of least length between them,
\* although the graph searched keeps one edge for a vertex.  (Strategy "none"
\* goes no further than the first goal on a path, so this is about the others.)
ConnectedHavePath ==
  phase = "done" /\ strategy # "none" =>
    \A x \in db.vertex :
      LET sel  == verticesIds(x.direction)
          E    == IF x.direction = "f" THEN Converse(SliceGraph("f")) ELSE SliceGraph("b")
          near == Ball(sel, E)
          ends == IF x.direction = "f" THEN sourceIds ELSE sinkIds
      IN  x.id \in ends /\ x.id \in near[Cardinality(Node)] =>
            \E r \in results :
              /\ r.direction = x.direction
              /\ VertexOf(x) = IF x.direction = "f" THEN r.path[1] ELSE Last(r.path)
              /\ x.id \in near[Len(r.path) - 1]
              /\ Len(r.path) > 1 => x.id \notin near[Len(r.path) - 2]

\* Every path handed out is data flow in execution order, from a source to a
\* selected vertex or from a selected vertex to a sink.
ResultsAreReal ==
  \A r \in results :
    LET p == r.path
        tags(T) == {[v |-> s.v, p |-> s.p] : s \in T}
        after(x) == {y \in db.vertex : <<x.id, y.id>> \in SliceGraph(r.direction)}
        moves == UNION {{<<VertexOf(x), VertexOf(y)>> : y \in after(x)} : x \in db.vertex}
    IN  /\ IsPath(p, moves)
        /\ r.direction = "f" => p[1] \in tags(db.source) /\ Last(p) \in selected
        /\ r.direction = "b" => p[1] \in selected /\ Last(p) \in tags(db.sink)

\* The search comes to an end, whatever the strategy: each clone avoids a
\* vertex that its original did not, and every iteration of the table adds edges.
FindEnds == <>(phase = "done")

=============================================================================
