------------------------ MODULE SelectedPaths_proofs ------------------------
(***************************************************************************)
(* What find_paths hands out is data flow, and leaves out nothing that is   *)
(* connected, for every database and every selection: the table holds the   *)
(* edges of the slice, turned around, by their distance; the graph that is  *)
(* searched turns them back and keeps one shortest way for each vertex; and *)
(* the loop over the starts serves all of them.                            *)
(***************************************************************************)
EXTENDS SelectedPaths, SearchComplete_proofs

RowOf(i) == CHOOSE x \in db.vertex : x.id = i

\* What ResultsAreReal says of one result.
Real(r) ==
  LET p == r.path
      tags(T) == {[v |-> s.v, p |-> s.p] : s \in T}
      after(x) == {y \in db.vertex : <<x.id, y.id>> \in SliceGraph(r.direction)}
      moves == UNION {{<<VertexOf(x), VertexOf(y)>> : y \in after(x)} : x \in db.vertex}
  IN  /\ IsPath(p, moves)
      /\ r.direction = "f" => p[1] \in tags(db.source) /\ Last(p) \in selected
      /\ r.direction = "b" => p[1] \in selected /\ Last(p) \in tags(db.sink)

\* The graph and the table follow the slice, a search its endpoints.
FindInv ==
  /\ SearchInv
  /\ db \in Databases /\ dir \in {"f", "b"}
  /\ phase # "search" => pc = "idle"
  /\ phase = "table" =>
       \A r \in fp : \E e \in SliceRows : e.from = r.node /\ e.to = r.next_node
  /\ phase = "search" => graph \subseteq SliceGraph(dir) /\ todo \subseteq StartsOf(dir)
  /\ pc # "idle" => start \in StartsOf(dir) /\ goals = GoalsOf(dir)
  /\ \A r \in results : Real(r)

----------------------------------------------------------------------------
(* Databases.                                                              *)

\* Rows have their types, ids name one vertex, edges join vertices.
LEMMA DatabaseFacts ==
  ASSUME db \in Databases
  PROVE  /\ db.vertex \subseteq VertexRow /\ db.edge \subseteq EdgeRow
         /\ \A x \in db.vertex : x.id \in Node /\ RowOf(x.id) = x
         /\ \A e \in db.edge : e.from \in Node /\ e.to \in Node
         /\ \A e \in db.edge : \A i \in {e.to, e.from} : \E x \in db.vertex : x.id = i
<1>1. Node = VertexId /\ db \in DatabaseType /\ DatabaseOK(db)
  BY FindAssumption
<1>2. db.vertex \subseteq VertexRow /\ db.edge \subseteq EdgeRow
  BY <1>1 DEF DatabaseType
<1>3. \A x, y \in db.vertex : x.id = y.id => x = y
  BY <1>1 DEF DatabaseOK
<1>4. ASSUME NEW x \in db.vertex PROVE x.id \in Node /\ RowOf(x.id) = x
  BY <1>1, <1>2, <1>3 DEF VertexRow, RowOf
<1>5. \A e \in db.edge : e.from \in Node /\ e.to \in Node
  BY <1>1, <1>2 DEF EdgeRow
<1>6. \A e \in db.edge : \A i \in {e.to, e.from} : \E x \in db.vertex : x.id = i
  BY <1>1 DEF DatabaseOK
<1> QED
  BY <1>2, <1>4, <1>5, <1>6

\* The edges of a slice join vertices of the database.
LEMMA SliceEdges ==
  ASSUME db \in Databases, NEW d, NEW i, NEW j, <<i, j>> \in SliceGraph(d)
  PROVE  /\ i \in Node /\ j \in Node
         /\ \E x \in db.vertex : x.id = i
         /\ \E y \in db.vertex : y.id = j
<1>1. PICK e \in NaturalEdge(db) : i = e.from /\ j = e.to
  BY DEF SliceGraph
<1>2. PICK f \in db.edge : e = f \/ e = FlipRow(f)
  BY <1>1 DEF NaturalEdge, ForwardEdge, BackwardEdge
<1>3. f \in EdgeRow
  BY DatabaseFacts
<1>4. (i = f.from /\ j = f.to) \/ (i = f.to /\ j = f.from)
  BY <1>1, <1>2, <1>3 DEF FlipRow, EdgeRow
<1> QED
  BY <1>4, DatabaseFacts

\* Starts and goals are ids of vertices, which name one row each.
LEMMA EndpointIds ==
  ASSUME db \in Databases, NEW d
  PROVE  /\ StartsOf(d) \subseteq Node /\ GoalsOf(d) \subseteq Node
         /\ \A i \in StartsOf(d) \cup GoalsOf(d) : \E x \in db.vertex : x.id = i
<1>1. \A x \in db.vertex : x.id \in Node
  BY DatabaseFacts
<1> QED
  BY <1>1 DEF StartsOf, GoalsOf, sourceIds, sinkIds, verticesIds

----------------------------------------------------------------------------
(* The table and its graph.                                                *)

\* A row of the table is an edge of the slice, against the execution for the
\* forward slice; the graph made of some of them is part of the slice.
LEMMA TableGraph ==
  ASSUME FindInv, phase = "table", NEW E \in ResultGraphs
  PROVE  E \subseteq SliceGraph(dir)
<1>1. PICK pick \in [{r.next_node : r \in fp} -> fp] :
        /\ \A v \in {r.next_node : r \in fp} : pick[v] \in Nearest(v)
        /\ E = {IF dir = "f" THEN <<v, pick[v].node>> ELSE <<pick[v].node, v>> :
                  v \in {r.next_node : r \in fp}}
  BY DEF ResultGraphs
<1>2. SUFFICES ASSUME NEW v \in {r.next_node : r \in fp}
               PROVE  (IF dir = "f" THEN <<v, pick[v].node>> ELSE <<pick[v].node, v>>)
                        \in SliceGraph(dir)
  BY <1>1
<1>3. pick[v] \in fp /\ pick[v].next_node = v
  BY <1>1 DEF Nearest
<1>4. PICK e \in SliceRows : e.from = pick[v].node /\ e.to = v
  BY <1>3 DEF FindInv
<1>5. PICK x \in db.edge : e = FlipRow(x)
  BY <1>4 DEF SliceRows, ReverseEdge
<1>6. x \in EdgeRow /\ dir \in {"f", "b"}
  BY DatabaseFacts DEF FindInv
<1>7. e.from = x.to /\ e.to = x.from /\ e.direction = x.direction /\ x.direction = dir
  BY <1>4, <1>5, <1>6 DEF FlipRow, EdgeRow, SliceRows
<1>8. CASE dir = "f"
  <2>1. x \in NaturalEdge(db)
    BY <1>7, <1>8 DEF NaturalEdge, ForwardEdge
  <2> QED
    BY <1>4, <1>7, <1>8, <2>1 DEF SliceGraph
<1>9. CASE dir = "b"
  <2>1. e \in NaturalEdge(db)
    BY <1>5, <1>7, <1>9 DEF NaturalEdge, BackwardEdge
  <2> QED
    BY <1>4, <1>7, <1>9, <2>1 DEF SliceGraph
<1> QED
  BY <1>6, <1>8, <1>9

\* A route of the slice between its endpoints, as vertices, is a real result.
LEMMA ProjectedIsReal ==
  ASSUME db \in Databases, dir \in {"f", "b"}, NEW p,
         Route(p, SliceGraph(dir), start), start \in StartsOf(dir), Last(p) \in GoalsOf(dir)
  PROVE  Real(Projected(p))
<1> DEFINE q == [k \in DOMAIN p |-> VertexOf(RowOf(p[k]))]
           after(x) == {y \in db.vertex : <<x.id, y.id>> \in SliceGraph(dir)}
           moves == UNION {{<<VertexOf(x), VertexOf(y)>> : y \in after(x)} : x \in db.vertex}
<1>1. /\ p \in Seq(Node) /\ Len(p) \in Nat /\ Len(p) > 0 /\ DOMAIN p = 1 .. Len(p)
      /\ \A i \in 1 .. Len(p) - 1 : <<p[i], p[i + 1]>> \in SliceGraph(dir)
      /\ p[1] = start
  BY DEF Route, IsPath
<1>2. Projected(p) = [direction |-> dir, path |-> q]
  BY DEF Projected, RowOf
<1>3. Len(q) = Len(p) /\ \A k \in 1 .. Len(p) : q[k] = VertexOf(RowOf(p[k]))
  <2>1. DOMAIN q = 1 .. Len(p)
    BY <1>1
  <2>2. Len(q) = Len(p)
    BY <1>1, <2>1
  <2> QED
    BY <1>1, <2>2
<1>4. ASSUME NEW i \in 1 .. Len(p) - 1 PROVE <<q[i], q[i + 1]>> \in moves
  <2>1. <<p[i], p[i + 1]>> \in SliceGraph(dir) /\ i \in 1 .. Len(p) /\ i + 1 \in 1 .. Len(p)
    BY <1>1
  <2>2. PICK x \in db.vertex, y \in db.vertex : x.id = p[i] /\ y.id = p[i + 1]
    BY <2>1, SliceEdges
  <2>3. RowOf(p[i]) = x /\ RowOf(p[i + 1]) = y
    BY <2>2, DatabaseFacts
  <2>4. q[i] = VertexOf(x) /\ q[i + 1] = VertexOf(y)
    BY <1>3, <2>1, <2>3
  <2>5. y \in after(x)
    BY <2>1, <2>2
  <2>6. <<VertexOf(x), VertexOf(y)>> \in moves
    <3> HIDE DEF after
    <3> QED
      BY <2>2, <2>5
  <2> HIDE DEF q, moves
  <2> QED
    BY <2>4, <2>6
<1>5. IsPath(q, moves)
  <2> HIDE DEF q, moves
  <2> QED
    BY <1>1, <1>3, <1>4 DEF IsPath
<1>6. ASSUME NEW x \in db.vertex PROVE VertexOf(RowOf(x.id)) = VertexOf(x)
  BY DatabaseFacts
<1>7. q[1] = VertexOf(RowOf(start)) /\ Last(q) = VertexOf(RowOf(Last(p)))
  BY <1>1, <1>3 DEF Last
<1>8. \A i \in sourceIds : VertexOf(RowOf(i)) \in {[v |-> s.v, p |-> s.p] : s \in db.source}
  BY <1>6 DEF sourceIds, VertexOf
<1>9. \A i \in sinkIds : VertexOf(RowOf(i)) \in {[v |-> s.v, p |-> s.p] : s \in db.sink}
  BY <1>6 DEF sinkIds, VertexOf
<1>10. \A i \in verticesIds(dir) : VertexOf(RowOf(i)) \in selected
  BY <1>6 DEF verticesIds
<1>11. /\ dir = "f" => /\ q[1] \in {[v |-> s.v, p |-> s.p] : s \in db.source}
                       /\ Last(q) \in selected
       /\ dir = "b" => /\ q[1] \in selected
                       /\ Last(q) \in {[v |-> s.v, p |-> s.p] : s \in db.sink}
  BY <1>7, <1>8, <1>9, <1>10 DEF StartsOf, GoalsOf
<1>12. Projected(p).direction = dir /\ Projected(p).path = q
  <2> HIDE DEF q
  <2> QED
    BY <1>2
<1>13. IsPath(Projected(p).path,
              UNION {{<<VertexOf(x), VertexOf(y)>> :
                        y \in {y \in db.vertex : <<x.id, y.id>> \in SliceGraph(Projected(p).direction)}} :
                     x \in db.vertex})
  <2> HIDE DEF q
  <2> QED
    BY <1>5, <1>12
<1> HIDE DEF q, moves
<1> QED
  BY <1>11, <1>12, <1>13 DEF Real

----------------------------------------------------------------------------
(* A step keeps the invariant.                                             *)

\* Nothing that a result is judged by changes.
LEMMA RealStays ==
  ASSUME UNCHANGED <<db, selected>>, NEW r, Real(r)
  PROVE  Real(r)'
<1>1. NaturalEdge(db)' = NaturalEdge(db)
  BY DEF NaturalEdge, ForwardEdge, BackwardEdge, FlipRow
<1>2. /\ db.vertex' = db.vertex /\ db.source' = db.source /\ db.sink' = db.sink
      /\ selected' = selected
  OBVIOUS
<1> QED
  BY <1>1, <1>2 DEF Real, VertexOf, SliceGraph

\* find_paths starts with an idle search and no results.
LEMMA FindInvInit == FindInit => FindInv
<1> SUFFICES ASSUME FindInit PROVE FindInv
  OBVIOUS
<1>1. SearchInv
  <2>1. InitSearch(CHOOSE i \in Node : TRUE) /\ graph = {} /\ strategy \in Strategy
    BY DEF FindInit
  <2> QED
    BY <2>1, SearchInvInit
<1> QED
  BY <1>1 DEF FindInv, FindInit, InitSearch

\* A row of the table is an edge of the slice, one that Augment adds too.
LEMMA FindInvTable == FindInv /\ (Begin \/ Fill) => FindInv'
<1> SUFFICES ASSUME FindInv, Begin \/ Fill PROVE FindInv'
  OBVIOUS
<1>1. /\ UNCHANGED searchVars /\ UNCHANGED <<db, dir, selected, todo, results>>
      /\ pc = "idle" /\ pc' = "idle" /\ phase' = "table"
  BY DEF FindInv, Begin, Fill, AugmentTable, searchVars
<1>2. SliceRows' = SliceRows
  BY <1>1 DEF SliceRows, ReverseEdge, FlipRow
<1>3. \A r \in fp' : \E e \in SliceRows : e.from = r.node /\ e.to = r.next_node
  <2>1. CASE Begin
    BY <2>1 DEF Begin, InitTable, Row
  <2>2. CASE Fill
    <3>1. \A r \in fp : \E e \in SliceRows : e.from = r.node /\ e.to = r.next_node
      BY <2>2 DEF Fill, FindInv
    <3>2. \A r \in Augment : \E e \in SliceRows : e.from = r.node /\ e.to = r.next_node
      BY DEF Augment, Row
    <3> QED
      BY <2>2, <3>1, <3>2 DEF Fill, AugmentTable
  <2> QED
    BY <2>1, <2>2
<1>4. SearchInv'
  BY <1>1, SearchInvStutter DEF FindInv
<1>5. \A r \in results' : Real(r)'
  BY <1>1, RealStays DEF FindInv
<1> QED
  BY <1>1, <1>2, <1>3, <1>4, <1>5 DEF FindInv

\* The graph that is searched is part of the slice.
LEMMA FindInvLoad == FindInv /\ Load => FindInv'
<1> SUFFICES ASSUME FindInv, Load PROVE FindInv'
  OBVIOUS
<1>1. /\ phase = "table" /\ phase' = "search" /\ pc = "idle" /\ pc' = "idle"
      /\ graph' \in ResultGraphs /\ todo' = StartsOf(dir)
      /\ UNCHANGED <<dir, db, selected, results>>
      /\ UNCHANGED <<strategy, callVars, bfsVars, searches, stack, paths, pc>>
  BY DEF Load, FindInv, tableVars
<1>2. graph' \subseteq SliceGraph(dir)
  BY <1>1, TableGraph
<1>3. SliceGraph(dir) \subseteq Node \X Node
  <2>1. \A e \in SliceGraph(dir) : \E i, j : e = <<i, j>>
    BY DEF SliceGraph
  <2> QED
    BY <2>1, SliceEdges DEF FindInv
<1>4. SearchInv'
  <2>1. paths = {} /\ stack = <<>> /\ found = {}
    BY <1>1 DEF FindInv, SearchInv
  <2>2. SearchTypes'
    BY <1>1, <1>2, <1>3 DEF FindInv, SearchInv, SearchTypes, callVars, bfsVars
  <2> QED
    BY <1>1, <2>1, <2>2 DEF SearchInv, callVars, bfsVars
<1>5. SliceGraph(dir)' = SliceGraph(dir) /\ StartsOf(dir)' = StartsOf(dir)
  BY <1>1 DEF SliceGraph, NaturalEdge, ForwardEdge, BackwardEdge, FlipRow,
              StartsOf, sourceIds, verticesIds, VertexOf
<1>6. \A r \in results' : Real(r)'
  BY <1>1, RealStays DEF FindInv
<1> QED
  BY <1>1, <1>2, <1>4, <1>5, <1>6 DEF FindInv

\* The slice's edges and endpoints are those of an unchanged database.
LEMMA SliceStays ==
  ASSUME UNCHANGED <<db, dir, selected>>
  PROVE  /\ SliceGraph(dir)' = SliceGraph(dir)
         /\ StartsOf(dir)' = StartsOf(dir) /\ GoalsOf(dir)' = GoalsOf(dir)
BY DEF SliceGraph, NaturalEdge, ForwardEdge, BackwardEdge, FlipRow,
       StartsOf, GoalsOf, sourceIds, sinkIds, verticesIds, VertexOf

\* A search keeps its graph and its endpoints.
LEMMA FindInvSearch == FindInv /\ (NextStart \/ Searching) => FindInv'
<1> SUFFICES ASSUME FindInv, NextStart \/ Searching PROVE FindInv'
  OBVIOUS
<1>1. /\ phase = "search" /\ phase' = "search"
      /\ UNCHANGED <<dir, db, selected, results>>
      /\ todo' \subseteq todo
      /\ graph \subseteq SliceGraph(dir) /\ todo \subseteq StartsOf(dir)
  BY DEF NextStart, Searching, FindInv, tableVars
<1>2. /\ SliceGraph(dir)' = SliceGraph(dir)
      /\ StartsOf(dir)' = StartsOf(dir) /\ GoalsOf(dir)' = GoalsOf(dir)
  BY <1>1, SliceStays
<1>3. SearchInv' /\ graph' = graph
        /\ (pc' # "idle" => start' \in StartsOf(dir) /\ goals' = GoalsOf(dir))
  <2>1. CASE NextStart
    <3>1. PICK i \in todo : Call(i, GoalsOf(dir))
      BY <2>1 DEF NextStart
    <3>2. pc = "idle" /\ i \in Node /\ GoalsOf(dir) \in SUBSET Node
      BY <1>1, <2>1, EndpointIds DEF NextStart, FindInv
    <3>3. SearchInv'
      BY <3>1, <3>2, SearchInvCall DEF FindInv
    <3> QED
      BY <1>1, <3>1, <3>3 DEF Call, inputVars
  <2>2. CASE Searching
    <3>1. SearchStep
      BY <2>2 DEF Searching
    <3>2. pc # "idle" /\ UNCHANGED <<graph, start, goals>>
      BY <3>1 DEF SearchStep, Perform, Visit, EndSearch, Walk, Return, inputVars, callVars
    <3>3. SearchInv'
      BY <3>1, SearchInvStep DEF FindInv
    <3> QED
      BY <3>2, <3>3 DEF FindInv
  <2> QED
    BY <2>1, <2>2
<1>4. \A r \in results' : Real(r)'
  BY <1>1, RealStays DEF FindInv
<1> QED
  BY <1>1, <1>2, <1>3, <1>4 DEF FindInv

\* What is handed out is real.
LEMMA FindInvYield == FindInv /\ Yield => FindInv'
<1> SUFFICES ASSUME FindInv, Yield PROVE FindInv'
  OBVIOUS
<1>1. /\ phase = "search" /\ pc = "return" /\ pc' = "idle" /\ paths' = {}
      /\ results' = results \cup {Projected(p) : p \in paths}
      /\ UNCHANGED <<graph, strategy, callVars, bfsVars, searches, stack, dir, db, selected, phase, todo>>
  BY DEF Yield, inputVars, tableVars
<1>2. SearchInv'
  <2>1. SearchTypes'
    BY <1>1 DEF FindInv, SearchInv, SearchTypes, callVars, bfsVars
  <2> QED
    BY <1>1, <2>1 DEF FindInv, SearchInv, callVars, bfsVars
<1>3. ASSUME NEW p \in paths PROVE Real(Projected(p))
  <2>1. /\ Route(p, graph, start) /\ Last(p) \in goals /\ graph \subseteq SliceGraph(dir)
        /\ start \in StartsOf(dir) /\ goals = GoalsOf(dir) /\ db \in Databases /\ dir \in {"f", "b"}
    BY <1>1 DEF FindInv, SearchInv
  <2>2. Route(p, SliceGraph(dir), start)
    BY <2>1 DEF Route, IsPath
  <2> QED
    BY <2>1, <2>2, ProjectedIsReal
<1>4. \A r \in results' : Real(r)
  BY <1>1, <1>3 DEF FindInv
<1>5. \A r \in results' : Real(r)'
  BY <1>1, <1>4, RealStays
<1>6. SliceGraph(dir)' = SliceGraph(dir) /\ StartsOf(dir)' = StartsOf(dir)
  BY <1>1, SliceStays
<1> QED
  BY <1>1, <1>2, <1>5, <1>6 DEF FindInv

\* The other slice takes its turn, and results stay.
LEMMA FindInvEnd == FindInv /\ EndDirection => FindInv'
<1> SUFFICES ASSUME FindInv, EndDirection PROVE FindInv'
  OBVIOUS
<1>1. /\ pc = "idle" /\ pc' = "idle" /\ phase' \in {"begin", "done"} /\ dir' \in {"f", "b"}
      /\ UNCHANGED searchVars /\ UNCHANGED <<db, selected, results>>
  BY DEF EndDirection, FindInv, searchVars
<1>2. SearchInv'
  BY <1>1, SearchInvStutter DEF FindInv
<1>3. \A r \in results' : Real(r)'
  BY <1>1, RealStays DEF FindInv
<1> QED
  BY <1>1, <1>2, <1>3 DEF FindInv

\* The invariant is about these variables only.
LEMMA FindInvStutter == FindInv /\ UNCHANGED findVars => FindInv'
<1> SUFFICES ASSUME FindInv, UNCHANGED findVars PROVE FindInv'
  OBVIOUS
<1>1. UNCHANGED searchVars /\ UNCHANGED <<graph, start, goals, pc, db, dir, fp, selected, phase, todo, results>>
  BY DEF findVars, searchVars, inputVars, callVars, tableVars
<1>2. SearchInv' /\ \A r \in results' : Real(r)'
  BY <1>1, SearchInvStutter, RealStays DEF FindInv
<1>3. SliceRows' = SliceRows
  BY <1>1 DEF SliceRows, ReverseEdge, FlipRow
<1> QED
  BY <1>1, <1>2, <1>3, SliceStays DEF FindInv

\* The invariant of find_paths.
LEMMA FindInvariant == FindSpec => []FindInv
<1>1. FindInv /\ [FindNext]_findVars => FindInv'
  BY FindInvTable, FindInvLoad, FindInvSearch, FindInvYield, FindInvEnd, FindInvStutter DEF FindNext
<1> QED
  BY <1>1, FindInvInit, PTL DEF FindSpec

\* Every path that find_paths hands out is data flow in execution order: from a
\* source to a selected vertex in the forward slice, from one to a sink in the
\* backward slice, whatever ties the table broke and whatever the strategy.
THEOREM SelectedPathsAreReal == FindSpec => []ResultsAreReal
<1>1. FindInv => ResultsAreReal
  BY DEF FindInv, ResultsAreReal, Real
<1> QED
  BY <1>1, FindInvariant, PTL

----------------------------------------------------------------------------
(* Levels: how many edges a vertex is away.                                *)

\* The vertices within k edges of S, for any k, and those k edges away.
Near(S, E, k)     == Ball(S, E)[IF k <= N THEN k ELSE N]
Level(S, E, v, k) == v \in Near(S, E, k) /\ (k > 0 => v \notin Near(S, E, k - 1))

\* Near goes one edge further with each step.
LEMMA NearStep ==
  ASSUME NEW S \in SUBSET Node, NEW E \in SUBSET (Node \X Node)
  PROVE  Near(S, E, 0) = S /\ \A k \in Nat : Near(S, E, k + 1) = Spread(Near(S, E, k), E)
<1> DEFINE b == Ball(S, E)
           near(k) == b[IF k <= N THEN k ELSE N]
<1>1. /\ b \in [0 .. N -> SUBSET Node] /\ b[0] = S
      /\ \A k \in 1 .. N : b[k] = Spread(b[k - 1], E)
  BY BallSteps
<1>2. Spread(b[N], E) = b[N]
  <2>1. \A e \in E : e[1] \in ReachableFrom(S, E) => e[2] \in ReachableFrom(S, E)
    BY ReachableClosed
  <2>2. b[N] = ReachableFrom(S, E)
    BY DEF ReachableFrom, N
  <2> HIDE DEF b
  <2> QED
    BY <2>1, <2>2 DEF Spread
<1> HIDE DEF b
<1>3. near(0) = S
  BY <1>1, NodeCount
<1>4. ASSUME NEW k \in Nat PROVE near(k + 1) = Spread(near(k), E)
  <2>1. CASE k + 1 <= N
    <3>1. k + 1 \in 1 .. N /\ (k + 1) - 1 = k /\ k \in 0 .. N
      BY <2>1, NodeCount
    <3> QED
      BY <1>1, <2>1, <3>1, NodeCount
  <2>2. CASE k + 1 > N
    <3>1. near(k) = b[N] /\ near(k + 1) = b[N]
      BY <2>2, NodeCount
    <3> QED
      BY <1>2, <3>1, NodeCount
  <2> QED
    BY <2>1, <2>2, NodeCount
<1> QED
  BY <1>3, <1>4 DEF Near, b

\* Near is Ball, and stays what it is after as many steps as there are vertices.
LEMMA NearBall ==
  ASSUME NEW S \in SUBSET Node, NEW E \in SUBSET (Node \X Node), NEW k \in Nat
  PROVE  /\ k <= N => Near(S, E, k) = Ball(S, E)[k]
         /\ k > N => Near(S, E, k) = Near(S, E, k - 1)
         /\ Near(S, E, N) = ReachableFrom(S, E)
         /\ Near(S, E, k) \subseteq Node
<1>1. Ball(S, E) \in [0 .. N -> SUBSET Node]
  BY BallSteps
<1>2. (IF k <= N THEN k ELSE N) \in 0 .. N /\ (k > N => ~(k <= N) /\ (k - 1 <= N => k - 1 = N)) /\ N <= N
  BY NodeCount
<1>3. Near(S, E, k) \subseteq Node
  BY <1>1, <1>2 DEF Near
<1>4. Near(S, E, N) = ReachableFrom(S, E)
  BY <1>2 DEF Near, ReachableFrom, N
<1> QED
  BY <1>2, <1>3, <1>4 DEF Near

\* More steps reach further, as far as can be reached.
LEMMA NearGrows ==
  ASSUME NEW S \in SUBSET Node, NEW E \in SUBSET (Node \X Node), NEW j \in Nat
  PROVE  /\ \A i \in 0 .. j : Near(S, E, i) \subseteq Near(S, E, j)
         /\ Near(S, E, j) \subseteq ReachableFrom(S, E)
<1> DEFINE c(k) == IF k <= N THEN k ELSE N
<1>1. \A i \in 0 .. j : c(i) \in 0 .. c(j) /\ c(j) \in 0 .. N
  BY NodeCount
<1>2. \A i \in 0 .. j : Ball(S, E)[c(i)] \subseteq Ball(S, E)[c(j)]
  <2> HIDE DEF c
  <2> QED
    BY <1>1, BallGrows
<1>3. N \in 0 .. N /\ c(j) \in 0 .. N
  BY NodeCount
<1>4. Ball(S, E)[c(j)] \subseteq Ball(S, E)[N]
  <2> HIDE DEF c
  <2> QED
    BY <1>3, BallGrows
<1> QED
  BY <1>2, <1>4 DEF Near, ReachableFrom, N

\* A vertex within k edges is at one level up to k.
LEMMA LevelFacts ==
  ASSUME NEW S \in SUBSET Node, NEW E \in SUBSET (Node \X Node)
  PROVE  /\ \A k \in Nat : \A v \in Near(S, E, k) : \E j \in 0 .. k : Level(S, E, v, j)
         /\ \A j, k \in Nat : \A v : Level(S, E, v, j) /\ v \in Near(S, E, k) => j <= k
         /\ \A k \in Nat : \A v : Level(S, E, v, k) => k <= N
<1> DEFINE near(k) == Near(S, E, k)
           level(v, k) == Level(S, E, v, k)
<1>1. \A v, k : level(v, k) <=> v \in near(k) /\ (k > 0 => v \notin near(k - 1))
  BY DEF Level
<1>2. /\ \A k \in Nat : near(k + 1) = Spread(near(k), E)
      /\ \A j \in Nat : \A i \in 0 .. j : near(i) \subseteq near(j)
      /\ \A k \in Nat : k > N => near(k) = near(k - 1)
  <2>1. \A k \in Nat : near(k + 1) = Spread(near(k), E)
    BY NearStep
  <2>2. \A j \in Nat : \A i \in 0 .. j : near(i) \subseteq near(j)
    BY NearGrows
  <2>3. \A k \in Nat : k > N => near(k) = near(k - 1)
    BY NearBall
  <2> QED
    BY <2>1, <2>2, <2>3
<1> HIDE DEF near, level
<1>3. ASSUME NEW k \in Nat, NEW v \in near(k) PROVE \E j \in 0 .. k : level(v, j)
  <2> DEFINE T == {i \in 0 .. k : v \in near(i)}
  <2>1. T # {} /\ T \in SUBSET Nat
    <3>1. k \in T
      BY <1>3
    <3> QED
      BY <3>1
  <2> HIDE DEF T
  <2>2. PICK j \in T : \A i \in T : j <= i
    BY <2>1, NatMin
  <2>3. j \in 0 .. k /\ v \in near(j)
    BY <2>2 DEF T
  <2>4. j > 0 => v \notin near(j - 1)
    <3> SUFFICES ASSUME j > 0, v \in near(j - 1) PROVE FALSE
      OBVIOUS
    <3>1. j - 1 \in 0 .. k /\ ~(j <= j - 1)
      BY <2>3
    <3> QED
      BY <2>2, <3>1 DEF T
  <2> QED
    BY <1>1, <2>3, <2>4
<1>4. ASSUME NEW j \in Nat, NEW k \in Nat, NEW v, level(v, j), v \in near(k) PROVE j <= k
  <2> SUFFICES ASSUME k < j PROVE FALSE
    OBVIOUS
  <2>1. j > 0 /\ j - 1 \in Nat /\ k \in 0 .. j - 1
    OBVIOUS
  <2> QED
    BY <1>1, <1>2, <1>4, <2>1
<1>5. \A k \in Nat : \A v : level(v, k) => k <= N
  BY <1>1, <1>2, NodeCount
<1> QED
  BY <1>3, <1>4, <1>5 DEF near, level

\* An edge from the level before leads to a vertex of the next one.
LEMMA LevelBelow ==
  ASSUME NEW S \in SUBSET Node, NEW E \in SUBSET (Node \X Node), NEW k \in Nat, NEW v, Level(S, E, v, k + 1)
  PROVE  \E e \in E : e[2] = v /\ Level(S, E, e[1], k)
<1>1. k + 1 > 0 /\ (k + 1) - 1 = k
  OBVIOUS
<1>2. v \in Near(S, E, k + 1) /\ v \notin Near(S, E, k)
  BY <1>1 DEF Level
<1>3. Near(S, E, k + 1) = Spread(Near(S, E, k), E)
  BY NearStep
<1>4. PICK e \in E : e[2] = v /\ e[1] \in Near(S, E, k)
  BY <1>2, <1>3 DEF Spread
<1>5. k > 0 => e[1] \notin Near(S, E, k - 1)
  <2> SUFFICES ASSUME k > 0, e[1] \in Near(S, E, k - 1) PROVE FALSE
    OBVIOUS
  <2> DEFINE i == k - 1
  <2>1. i \in Nat /\ i + 1 = k
    OBVIOUS
  <2> HIDE DEF i
  <2>2. Near(S, E, i + 1) = Spread(Near(S, E, i), E)
    BY <2>1, NearStep
  <2>3. e[1] \in Near(S, E, i)
    BY DEF i
  <2>4. v \in Near(S, E, k)
    BY <1>4, <2>1, <2>2, <2>3 DEF Spread
  <2> QED
    BY <1>2, <2>4
<1> QED
  BY <1>4, <1>5 DEF Level

\* More starts and more edges reach further in as many steps.
LEMMA NearMonotone ==
  ASSUME NEW S \in SUBSET Node, NEW E \in SUBSET (Node \X Node),
         NEW R \in SUBSET S, NEW D \in SUBSET E, NEW k \in Nat
  PROVE  Near(R, D, k) \subseteq Near(S, E, k)
<1> DEFINE T == {i \in 0 .. k : Near(R, D, i) \subseteq Near(S, E, i)}
<1>1. R \in SUBSET Node /\ D \in SUBSET (Node \X Node)
  OBVIOUS
<1>2. 0 \in T
  BY <1>1, NearStep
<1>3. ASSUME NEW i \in 0 .. k - 1, i \in T PROVE i + 1 \in T
  <2>1. i \in Nat /\ i + 1 \in 0 .. k
    OBVIOUS
  <2>2. Near(R, D, i + 1) = Spread(Near(R, D, i), D)
    BY <1>1, <2>1, NearStep
  <2>3. Near(S, E, i + 1) = Spread(Near(S, E, i), E)
    BY <2>1, NearStep
  <2> QED
    BY <1>3, <2>1, <2>2, <2>3 DEF Spread
<1> HIDE DEF T
<1>4. \A i \in 0 .. k : i \in T
  BY <1>2, <1>3, BoundedInduction
<1> QED
  BY <1>4 DEF T

\* An edge in front makes a way longer by one.
LEMMA NearPrepend ==
  ASSUME NEW E \in SUBSET (Node \X Node), NEW u \in Node, NEW v \in Node, <<v, u>> \in E, NEW k \in Nat
  PROVE  Near({u}, E, k) \subseteq Near({v}, E, k + 1)
<1> DEFINE T == {i \in 0 .. k : Near({u}, E, i) \subseteq Near({v}, E, i + 1)}
<1>1. {u} \in SUBSET Node /\ {v} \in SUBSET Node
  OBVIOUS
<1>2. 0 \in T
  <2>1. Near({u}, E, 0) = {u}
    BY <1>1, NearStep
  <2>2. Near({v}, E, 0) = {v}
    BY <1>1, NearStep
  <2>3. Near({v}, E, 0 + 1) = Spread({v}, E)
    BY <1>1, <2>2, NearStep
  <2>4. u \in Spread({v}, E) /\ 0 + 1 = 1 /\ 0 \in 0 .. k
    BY DEF Spread
  <2> QED
    BY <2>1, <2>3, <2>4
<1>3. ASSUME NEW i \in 0 .. k - 1, i \in T PROVE i + 1 \in T
  <2>1. i \in Nat /\ i + 1 \in 0 .. k /\ i + 1 \in Nat
    OBVIOUS
  <2>2. Near({u}, E, i + 1) = Spread(Near({u}, E, i), E)
    BY <1>1, <2>1, NearStep
  <2>3. Near({v}, E, (i + 1) + 1) = Spread(Near({v}, E, i + 1), E)
    BY <1>1, <2>1, NearStep
  <2> QED
    BY <1>3, <2>1, <2>2, <2>3 DEF Spread
<1> HIDE DEF T
<1>4. \A i \in 0 .. k : i \in T
  BY <1>2, <1>3, BoundedInduction
<1> QED
  BY <1>4 DEF T

----------------------------------------------------------------------------
(* The table of shortest paths.                                            *)

\* The edges of the slice as the table follows them, away from its starts.
Turned == {<<e.from, e.to>> : e \in SliceRows}

\* After m iterations the table F has the edges out of each level up to m, once.
InTable(S, E, m, r) ==
  \E k \in 0 .. m : \E e \in E : r = Row(e[1], e[2], k + 1, k) /\ Level(S, E, e[1], k)

TableIs(S, E, m, F) == \A r : r \in F <=> InTable(S, E, m, r)

\* The rows that an iteration adds.
LEMMA AugmentRows ==
  ASSUME NEW r
  PROVE  r \in Augment <=>
           \E q \in fp : \E e \in SliceRows :
             /\ q.iteration_count = n /\ e.from = q.next_node
             /\ ~\E s \in fp : /\ s.node = e.from /\ s.next_node = e.to
                               /\ s.path_length <= q.path_length + 1
             /\ r = Row(q.next_node, e.to, q.path_length + 1, q.iteration_count + 1)
BY DEF Augment

\* An iteration adds the next level: the edges it drops are those that have a row.
LEMMA AugmentLevel ==
  ASSUME n \in Nat, tableStarts \in SUBSET Node, Turned \in SUBSET (Node \X Node),
         TableIs(tableStarts, Turned, n, fp)
  PROVE  TableIs(tableStarts, Turned, n + 1, fp \cup Augment)
<1> DEFINE S == tableStarts
           E == Turned
<1>1. \A r : r \in fp <=> InTable(S, E, n, r)
  BY DEF TableIs
<1>2. \A x, y : <<x, y>> \in E <=> \E e \in SliceRows : e.from = x /\ e.to = y
  BY DEF Turned
<1>3. \A e \in E : e = <<e[1], e[2]>>
  OBVIOUS
<1> HIDE DEF S, E
<1>4. ASSUME NEW r \in Augment PROVE InTable(S, E, n + 1, r)
  <2>1. PICK q \in fp, e \in SliceRows :
             /\ q.iteration_count = n /\ e.from = q.next_node
             /\ ~\E s \in fp : /\ s.node = e.from /\ s.next_node = e.to
                               /\ s.path_length <= q.path_length + 1
             /\ r = Row(q.next_node, e.to, q.path_length + 1, q.iteration_count + 1)
    BY <1>4, AugmentRows
  <2>2. PICK k \in 0 .. n, d \in E : q = Row(d[1], d[2], k + 1, k) /\ Level(S, E, d[1], k)
    BY <1>1, <2>1 DEF InTable
  <2>3. k = n /\ q.path_length = n + 1 /\ q.next_node = d[2] /\ e.from = d[2]
    BY <2>1, <2>2 DEF Row
  <2> DEFINE v == d[2]
  <2>4. v \in Near(S, E, n + 1)
    <3>1. d[1] \in Near(S, E, n)
      BY <2>2, <2>3 DEF Level
    <3>2. v \in Spread(Near(S, E, n), E)
      BY <3>1 DEF Spread
    <3> QED
      BY <3>2, NearStep DEF S, E
  <2>5. <<v, e.to>> \in E
    BY <1>2, <2>3
  <2>6. v \notin Near(S, E, n)
    <3> SUFFICES ASSUME v \in Near(S, E, n) PROVE FALSE
      OBVIOUS
    <3>1. PICK j \in 0 .. n : Level(S, E, v, j)
      BY LevelFacts DEF S, E
    <3> DEFINE s == Row(v, e.to, j + 1, j)
    <3>2. InTable(S, E, n, s)
      BY <2>5, <3>1 DEF InTable
    <3>3. s.node = e.from /\ s.next_node = e.to /\ s.path_length = j + 1
      BY <2>3 DEF Row
    <3> HIDE DEF s, v
    <3>4. s \in fp /\ j + 1 <= (n + 1) + 1
      BY <1>1, <3>2
    <3> QED
      BY <2>1, <2>3, <3>3, <3>4
  <2>7. Level(S, E, v, n + 1)
    <3>1. (n + 1) - 1 = n
      OBVIOUS
    <3> QED
      BY <2>4, <2>6, <3>1 DEF Level
  <2>8. r = Row(v, e.to, (n + 1) + 1, n + 1) /\ n + 1 \in 0 .. n + 1
    BY <2>1, <2>3
  <2> HIDE DEF v
  <2> QED
    BY <2>5, <2>7, <2>8 DEF InTable
<1>5. ASSUME NEW r, InTable(S, E, n + 1, r) PROVE r \in fp \cup Augment
  <2>1. PICK k \in 0 .. n + 1, d \in E : r = Row(d[1], d[2], k + 1, k) /\ Level(S, E, d[1], k)
    BY <1>5 DEF InTable
  <2>2. CASE k \in 0 .. n
    BY <1>1, <2>1, <2>2 DEF InTable
  <2>3. CASE k = n + 1
    <3> DEFINE v == d[1]
    <3>1. Level(S, E, v, n + 1)
      BY <2>1, <2>3
    <3>2. PICK c \in E : c[2] = v /\ Level(S, E, c[1], n)
      BY <3>1, LevelBelow DEF S, E
    <3> DEFINE q == Row(c[1], v, n + 1, n)
    <3>3. q.iteration_count = n /\ q.next_node = v /\ q.path_length = n + 1
      BY DEF Row
    <3>4. q \in fp
      <4>1. n \in 0 .. n
        OBVIOUS
      <4>2. InTable(S, E, n, q)
        BY <3>2, <4>1 DEF InTable
      <4> HIDE DEF q
      <4> QED
        BY <1>1, <4>2
    <3>5. PICK e \in SliceRows : e.from = v /\ e.to = d[2]
      BY <1>2, <1>3
    <3>6. ~\E s \in fp : s.node = e.from
      <4> SUFFICES ASSUME NEW s \in fp, s.node = v PROVE FALSE
        BY <3>5
      <4>1. PICK j \in 0 .. n, f \in E : s = Row(f[1], f[2], j + 1, j) /\ Level(S, E, f[1], j)
        BY <1>1 DEF InTable
      <4>2. f[1] = v
        BY <4>1 DEF Row
      <4>3. v \in Near(S, E, j)
        BY <4>1, <4>2 DEF Level
      <4>4. n + 1 <= j
        BY <3>1, <4>3, LevelFacts DEF S, E
      <4> QED
        BY <4>1, <4>4
    <3>7. r = Row(q.next_node, e.to, q.path_length + 1, q.iteration_count + 1)
      BY <2>1, <2>3, <3>3, <3>5
    <3> HIDE DEF q, v
    <3>8. e.from = q.next_node
      BY <3>3, <3>5
    <3> QED
      BY <3>3, <3>4, <3>6, <3>7, <3>8, AugmentRows
  <2> QED
    BY <2>2, <2>3
<1>6. ASSUME NEW r \in fp PROVE InTable(S, E, n + 1, r)
  <2>1. \A k \in 0 .. n : k \in 0 .. n + 1
    OBVIOUS
  <2> QED
    BY <1>1, <2>1 DEF InTable
<1> QED
  BY <1>4, <1>5, <1>6 DEF TableIs, S, E

\* When an iteration has added nothing, all that can be reached has been.
LEMMA TableComplete ==
  ASSUME NEW S \in SUBSET Node, NEW E \in SUBSET (Node \X Node), NEW m \in Nat,
         NEW F, TableIs(S, E, m, F), ~\E r \in F : r.iteration_count = m
  PROVE  ReachableFrom(S, E) \subseteq Near(S, E, m)
<1>1. S \subseteq Near(S, E, m)
  <2>1. 0 \in 0 .. m
    OBVIOUS
  <2> QED
    BY <2>1, NearStep, NearGrows
<1>2. ASSUME NEW e \in E, e[1] \in Near(S, E, m) PROVE e[2] \in Near(S, E, m)
  <2>1. PICK k \in 0 .. m : Level(S, E, e[1], k)
    BY <1>2, LevelFacts
  <2>2. k # m
    <3> SUFFICES ASSUME k = m PROVE FALSE
      OBVIOUS
    <3>1. InTable(S, E, m, Row(e[1], e[2], m + 1, m))
      BY <2>1 DEF InTable
    <3>2. Row(e[1], e[2], m + 1, m).iteration_count = m
      BY DEF Row
    <3> QED
      BY <3>1, <3>2 DEF TableIs
  <2>3. k + 1 \in 0 .. m /\ k \in Nat
    BY <2>2
  <2>4. e[2] \in Spread(Near(S, E, k), E)
    BY <2>1 DEF Level, Spread
  <2>5. e[2] \in Near(S, E, k + 1)
    BY <2>3, <2>4, NearStep
  <2> QED
    BY <2>3, <2>5, NearGrows
<1> QED
  BY <1>1, <1>2, ReachableLeast

\* The least row of a vertex that is not a start comes from the level before.
LEMMA NearestLevel ==
  ASSUME NEW S \in SUBSET Node, NEW E \in SUBSET (Node \X Node), NEW m \in Nat,
         TableIs(S, E, m, fp), NEW v, v \notin S, NEW r \in Nearest(v)
  PROVE  /\ r.path_length \in 1 .. N /\ r.next_node = v /\ <<r.node, v>> \in E
         /\ Level(S, E, v, r.path_length) /\ Level(S, E, r.node, r.path_length - 1)
<1>1. /\ r \in fp /\ r.next_node = v
      /\ \A s \in fp : s.next_node = v => r.path_length <= s.path_length
  BY DEF Nearest
<1>2. PICK k \in 0 .. m, e \in E : r = Row(e[1], e[2], k + 1, k) /\ Level(S, E, e[1], k)
  BY <1>1 DEF TableIs, InTable
<1>3. e = <<e[1], e[2]>> /\ e[2] = v /\ r.node = e[1] /\ r.path_length = k + 1
  BY <1>1, <1>2 DEF Row
<1>4. v \in Near(S, E, k + 1)
  <2>1. v \in Spread(Near(S, E, k), E)
    BY <1>2, <1>3 DEF Level, Spread
  <2> QED
    BY <2>1, NearStep
<1>5. v \notin Near(S, E, k)
  <2> SUFFICES ASSUME v \in Near(S, E, k) PROVE FALSE
    OBVIOUS
  <2>1. PICK j \in 0 .. k : Level(S, E, v, j)
    BY LevelFacts
  <2>2. j # 0
    BY <2>1, NearStep DEF Level
  <2>3. j - 1 \in 0 .. m /\ j - 1 \in Nat /\ (j - 1) + 1 = j /\ j - 1 < k
    BY <2>2
  <2>4. PICK d \in E : d[2] = v /\ Level(S, E, d[1], j - 1)
    <3> DEFINE i == j - 1
    <3> HIDE DEF i
    <3>1. i \in Nat /\ i + 1 = j
      BY <2>3 DEF i
    <3>2. Level(S, E, v, i + 1)
      BY <2>1, <3>1
    <3> QED
      BY <3>1, <3>2, LevelBelow DEF i
  <2> DEFINE s == Row(d[1], d[2], (j - 1) + 1, j - 1)
  <2>5. InTable(S, E, m, s)
    BY <2>3, <2>4 DEF InTable
  <2>6. s.next_node = v /\ s.path_length = j
    BY <2>3, <2>4 DEF Row
  <2> HIDE DEF s
  <2>7. s \in fp
    BY <2>5 DEF TableIs
  <2>8. k + 1 <= j
    BY <1>1, <1>3, <2>6, <2>7
  <2> QED
    BY <2>1, <2>8
<1>6. (k + 1) - 1 = k /\ k + 1 \in Nat /\ k + 1 > 0
  OBVIOUS
<1>7. Level(S, E, v, k + 1)
  BY <1>4, <1>5, <1>6 DEF Level
<1>8. k + 1 <= N
  BY <1>6, <1>7, LevelFacts
<1> QED
  BY <1>1, <1>2, <1>3, <1>6, <1>7, <1>8, NodeCount

\* The slice as the table follows it: away from the selected vertices.
Away(d) == IF d = "f" THEN Converse(SliceGraph(d)) ELSE SliceGraph(d)

\* The view that turns both slices around has the edges of the slice, turned
\* around once more when the slice went along the execution.
LEMMA TurnedAway ==
  ASSUME db \in Databases, dir \in {"f", "b"}
  PROVE  Turned = Away(dir) /\ Turned \in SUBSET (Node \X Node)
<1>1. /\ db.edge \subseteq EdgeRow
      /\ \A e \in db.edge : e.from \in Node /\ e.to \in Node
  BY DatabaseFacts
<1>2. \A e \in db.edge : /\ FlipRow(e).from = e.to /\ FlipRow(e).to = e.from
                         /\ FlipRow(e).direction = e.direction
  BY <1>1 DEF FlipRow, EdgeRow
<1>3. Turned = {<<e.to, e.from>> : e \in {e \in db.edge : e.direction = dir}}
  BY <1>2 DEF Turned, SliceRows, ReverseEdge
<1>4. CASE dir = "f"
  <2>1. SliceGraph(dir) = {<<e.from, e.to>> : e \in {e \in db.edge : e.direction = dir}}
    BY <1>2, <1>4 DEF SliceGraph, NaturalEdge, ForwardEdge, BackwardEdge
  <2>2. Converse(SliceGraph(dir)) = {<<e.to, e.from>> : e \in {e \in db.edge : e.direction = dir}}
    <3> DEFINE F == {e \in db.edge : e.direction = dir}
               G == SliceGraph(dir)
    <3>1. G = {<<e.from, e.to>> : e \in F}
      BY <2>1
    <3> HIDE DEF F, G
    <3>2. ASSUME NEW g \in G PROVE \E e \in F : <<g[2], g[1]>> = <<e.to, e.from>>
      BY <3>1
    <3>3. ASSUME NEW e \in F PROVE \E g \in G : <<g[2], g[1]>> = <<e.to, e.from>>
      <4>1. <<e.from, e.to>> \in G
        BY <3>1
      <4> QED
        BY <4>1
    <3>4. Converse(G) = {<<e.to, e.from>> : e \in F}
      BY <3>2, <3>3 DEF Converse
    <3> QED
      BY <3>4 DEF F, G
  <2> QED
    BY <1>1, <1>3, <1>4, <2>2 DEF Away
<1>5. CASE dir = "b"
  <2>1. SliceGraph(dir) = {<<e.to, e.from>> : e \in {e \in db.edge : e.direction = dir}}
    BY <1>2, <1>5 DEF SliceGraph, NaturalEdge, ForwardEdge, BackwardEdge
  <2> QED
    BY <1>1, <1>3, <1>5, <2>1 DEF Away
<1> QED
  BY <1>4, <1>5

RowType(r, m) == /\ r.node \in Node /\ r.next_node \in Node
                 /\ r.path_length = r.iteration_count + 1 /\ r.iteration_count \in 0 .. m

\* While it is filled, the table has the levels up to the iteration's.
TableInv ==
  /\ n \in Nat /\ tableStarts \in SUBSET Node
  /\ \A r \in fp : RowType(r, n)
  /\ phase = "table" => tableStarts = verticesIds(dir) /\ TableIs(tableStarts, Turned, n, fp)

\* Rows of a table of levels are rows.
LEMMA TableTypes ==
  ASSUME NEW S, NEW E \in SUBSET (Node \X Node), NEW m \in Nat, NEW F, TableIs(S, E, m, F)
  PROVE  \A r \in F : RowType(r, m)
<1> SUFFICES ASSUME NEW r \in F PROVE RowType(r, m)
  OBVIOUS
<1>1. PICK k \in 0 .. m, e \in E : r = Row(e[1], e[2], k + 1, k)
  BY DEF TableIs, InTable
<1>2. e[1] \in Node /\ e[2] \in Node
  OBVIOUS
<1> QED
  BY <1>1, <1>2 DEF RowType, Row

\* The first rows are those of level 0.
LEMMA TableBegins ==
  ASSUME NEW S \in SUBSET Node, Turned \in SUBSET (Node \X Node)
  PROVE  TableIs(S, Turned, 0, {Row(e.from, e.to, 1, 0) : e \in {e \in SliceRows : e.from \in S}})
<1>1. \A v : Level(S, Turned, v, 0) <=> v \in S
  BY NearStep DEF Level
<1>2. \A r : InTable(S, Turned, 0, r) <=>
               \E e \in Turned : r = Row(e[1], e[2], 1, 0) /\ e[1] \in S
  <2>1. \A k : k \in 0 .. 0 <=> k = 0
    OBVIOUS
  <2> QED
    BY <1>1, <2>1 DEF InTable
<1>3. \A r : (\E e \in Turned : r = Row(e[1], e[2], 1, 0) /\ e[1] \in S)
               <=> \E e \in SliceRows : r = Row(e.from, e.to, 1, 0) /\ e.from \in S
  <2>1. ASSUME NEW e \in Turned
        PROVE  \E d \in SliceRows : d.from = e[1] /\ d.to = e[2]
    BY DEF Turned
  <2>2. ASSUME NEW d \in SliceRows
        PROVE  \E e \in Turned : d.from = e[1] /\ d.to = e[2]
    <3>1. <<d.from, d.to>> \in Turned
      BY DEF Turned
    <3> QED
      BY <3>1
  <2> QED
    BY <2>1, <2>2
<1> QED
  BY <1>2, <1>3 DEF TableIs

\* The table is started from the selected vertices and filled level by level.
LEMMA TableInvFill == FindInv /\ TableInv /\ (Begin \/ Fill) => TableInv'
<1> SUFFICES ASSUME FindInv, TableInv, Begin \/ Fill PROVE TableInv'
  OBVIOUS
<1>1. /\ UNCHANGED <<db, dir, selected>> /\ phase' = "table"
      /\ db \in Databases /\ dir \in {"f", "b"}
  BY DEF FindInv, Begin, Fill, AugmentTable
<1>2. Turned' = Turned /\ verticesIds(dir)' = verticesIds(dir)
  BY <1>1 DEF Turned, SliceRows, ReverseEdge, FlipRow, verticesIds, VertexOf
<1>3. Turned \in SUBSET (Node \X Node)
  BY <1>1, TurnedAway
<1>4. /\ n' \in Nat /\ tableStarts' \in SUBSET Node /\ tableStarts' = verticesIds(dir)
      /\ TableIs(tableStarts', Turned, n', fp')
  <2>1. CASE Begin
    <3>1. \A x \in db.vertex : x.id \in Node
      BY <1>1, DatabaseFacts
    <3>2. verticesIds(dir) \in SUBSET Node
      BY <3>1 DEF verticesIds
    <3> QED
      BY <1>3, <2>1, <3>2, TableBegins DEF Begin, InitTable
  <2>2. CASE Fill
    <3>1. tableStarts' = tableStarts /\ n' = n + 1 /\ fp' = fp \cup Augment /\ phase = "table"
      BY <2>2 DEF Fill, AugmentTable
    <3>2. TableIs(tableStarts, Turned, n + 1, fp \cup Augment)
      BY <1>3, <3>1, AugmentLevel DEF TableInv
    <3> QED
      BY <3>1, <3>2 DEF TableInv
  <2> QED
    BY <2>1, <2>2
<1>5. \A r \in fp' : RowType(r, n')
  BY <1>3, <1>4, TableTypes
<1> QED
  BY <1>1, <1>2, <1>4, <1>5 DEF TableInv

\* Outside of that the table stays.
LEMMA TableInvRest ==
  FindInv /\ TableInv /\ (Load \/ NextStart \/ Searching \/ Yield \/ EndDirection \/ UNCHANGED findVars)
    => TableInv'
<1> SUFFICES ASSUME TableInv, Load \/ NextStart \/ Searching \/ Yield \/ EndDirection \/ UNCHANGED findVars
             PROVE  TableInv'
  OBVIOUS
<1>1. UNCHANGED <<fp, n, tableStarts>>
  BY DEF Load, NextStart, Searching, Yield, EndDirection, findVars, tableVars
<1>2. phase' # "table" \/ UNCHANGED <<phase, dir, db, selected>>
  BY DEF Load, NextStart, Searching, Yield, EndDirection, findVars, tableVars
<1>3. CASE phase' # "table"
  BY <1>1, <1>3 DEF TableInv
<1>4. CASE UNCHANGED <<phase, dir, db, selected>>
  <2>1. Turned' = Turned /\ verticesIds(dir)' = verticesIds(dir)
    BY <1>4 DEF Turned, SliceRows, ReverseEdge, FlipRow, verticesIds, VertexOf
  <2> QED
    BY <1>1, <1>4, <2>1 DEF TableInv
<1> QED
  BY <1>2, <1>3, <1>4

\* The invariant of the table.
LEMMA TableInvariant == FindSpec => [](FindInv /\ TableInv)
<1>1. FindInit => TableInv
  BY DEF FindInit, TableInv
<1>2. FindInv /\ TableInv /\ [FindNext]_findVars => TableInv'
  BY TableInvFill, TableInvRest DEF FindNext
<1> QED
  BY <1>1, <1>2, FindInvariant, PTL DEF FindSpec

\* The table is finished when it holds each edge out of what can be reached from the
\* selected vertices once, and the least path_length among the rows of a vertex is the
\* number of edges to the nearest of them, for every database: rows that an iteration
\* must not add are those known with a path no longer, and no row is ever corrected
\* (SemiNaiveMinPathLength).
THEOREM TableIsShortest == FindSpec => []TableShortest
<1>1. FindInv /\ TableInv => TableShortest
  <2> SUFFICES ASSUME FindInv, TableInv, phase = "table", TableDone PROVE TableShortest
    BY DEF TableShortest
  <2> DEFINE S == tableStarts
             E == Away(dir)
             near == Ball(S, E)
             reach == near[Cardinality(Node)]
  <2>1. /\ S \in SUBSET Node /\ E \in SUBSET (Node \X Node) /\ n \in Nat
        /\ TableIs(S, E, n, fp) /\ ~\E r \in fp : r.iteration_count = n
    BY TurnedAway DEF FindInv, TableInv, TableDone
  <2>2. reach = ReachableFrom(S, E)
    BY DEF ReachableFrom
  <2>3. reach \subseteq Near(S, E, n) /\ Near(S, E, n) \subseteq reach
    <3> HIDE DEF E, reach
    <3> QED
      BY <2>1, <2>2, TableComplete, NearGrows
  <2>4. \A v \in reach : \E k \in 0 .. n : Level(S, E, v, k)
    <3> HIDE DEF E, reach
    <3> QED
      BY <2>1, <2>3, LevelFacts
  <2>5. \A k \in 0 .. n : \A v : Level(S, E, v, k) => v \in reach
    <3> HIDE DEF E, reach
    <3>1. \A k \in 0 .. n : Near(S, E, k) \subseteq Near(S, E, n)
      BY <2>1, NearGrows
    <3> QED
      BY <2>3, <3>1 DEF Level
  <2> HIDE DEF E
  <2>6. {<<r.node, r.next_node>> : r \in fp} = {e \in E : e[1] \in reach}
    <3> HIDE DEF reach
    <3>1. ASSUME NEW r \in fp PROVE <<r.node, r.next_node>> \in {e \in E : e[1] \in reach}
      <4>1. PICK k \in 0 .. n, e \in E : r = Row(e[1], e[2], k + 1, k) /\ Level(S, E, e[1], k)
        BY <2>1 DEF TableIs, InTable
      <4>2. <<r.node, r.next_node>> = e /\ e[1] = r.node
        BY <2>1, <4>1 DEF Row
      <4> QED
        BY <2>5, <4>1, <4>2
    <3>2. ASSUME NEW e \in E, e[1] \in reach PROVE \E r \in fp : e = <<r.node, r.next_node>>
      <4>1. PICK k \in 0 .. n : Level(S, E, e[1], k)
        BY <2>4, <3>2
      <4>2. Row(e[1], e[2], k + 1, k) \in fp
        BY <2>1, <4>1 DEF TableIs, InTable
      <4>3. e = <<e[1], e[2]>>
        BY <2>1
      <4> QED
        BY <4>2, <4>3 DEF Row
    <3> QED
      BY <3>1, <3>2
  <2>7. \A q, r \in fp : q.node = r.node /\ q.next_node = r.next_node => q = r
    <3> SUFFICES ASSUME NEW q \in fp, NEW r \in fp, q.node = r.node, q.next_node = r.next_node
                 PROVE  q = r
      OBVIOUS
    <3>1. PICK j \in 0 .. n, d \in E : q = Row(d[1], d[2], j + 1, j) /\ Level(S, E, d[1], j)
      BY <2>1 DEF TableIs, InTable
    <3>2. PICK k \in 0 .. n, e \in E : r = Row(e[1], e[2], k + 1, k) /\ Level(S, E, e[1], k)
      BY <2>1 DEF TableIs, InTable
    <3>3. d[1] = e[1] /\ d[2] = e[2]
      BY <3>1, <3>2 DEF Row
    <3>4. d[1] \in Near(S, E, k) /\ e[1] \in Near(S, E, j)
      BY <3>1, <3>2, <3>3 DEF Level
    <3>5. j <= k /\ k <= j
      BY <2>1, <3>1, <3>2, <3>3, <3>4, LevelFacts
    <3> QED
      BY <3>1, <3>2, <3>3, <3>5
  <2>8. ASSUME NEW v \in reach \ tableStarts, NEW r \in Nearest(v)
        PROVE  v \in near[r.path_length] /\ v \notin near[r.path_length - 1]
    <3>1. r.path_length \in 1 .. N /\ Level(S, E, v, r.path_length)
      BY <2>1, <2>8, NearestLevel
    <3> DEFINE k == r.path_length
    <3>2. k \in Nat /\ k - 1 \in Nat /\ k > 0 /\ k <= N /\ k - 1 <= N
      BY <3>1, NodeCount
    <3> HIDE DEF k, near
    <3>3. Near(S, E, k) = near[k] /\ Near(S, E, k - 1) = near[k - 1]
      BY <2>1, <3>2, NearBall DEF near
    <3> QED
      BY <3>1, <3>2, <3>3 DEF Level, k
  <2>9. TableShortest <=>
          /\ {<<r.node, r.next_node>> : r \in fp} = {e \in E : e[1] \in reach}
          /\ \A q, r \in fp : q.node = r.node /\ q.next_node = r.next_node => q = r
          /\ \A v \in reach \ tableStarts : \A r \in Nearest(v) :
               v \in near[r.path_length] /\ v \notin near[r.path_length - 1]
    BY DEF TableShortest, E, Away
  <2> HIDE DEF reach, near
  <2> QED
    BY <2>6, <2>7, <2>8, <2>9
<1> QED
  BY <1>1, TableInvariant, PTL

\* Starts are only left while their slice is searched.
StartsInv ==
  /\ phase \in {"begin", "table", "search", "done"}
  /\ todo \subseteq Node
  /\ phase # "search" => todo = {}

\* A step keeps this invariant.
LEMMA StartsInvStep == FindInv /\ StartsInv /\ [FindNext]_findVars => StartsInv'
<1> SUFFICES ASSUME FindInv, StartsInv, [FindNext]_findVars PROVE StartsInv'
  OBVIOUS
<1>1. StartsOf(dir) \subseteq Node
  BY EndpointIds DEF FindInv
<1>2. CASE Load
  BY <1>1, <1>2 DEF Load, StartsInv
<1>3. CASE Begin \/ Fill \/ NextStart \/ Searching \/ Yield \/ EndDirection \/ UNCHANGED findVars
  BY <1>3 DEF Begin, Fill, NextStart, Searching, Yield, EndDirection, findVars, StartsInv
<1> QED
  BY <1>2, <1>3 DEF FindNext

\* The types of find_paths are kept, in particular those of the table's rows, whose
\* path_length is one more than the iteration that added them.
THEOREM FindTypesOK == FindSpec => []FindTypeOK
<1>1. FindInit => StartsInv
  BY DEF FindInit, StartsInv
<1>2. FindInv /\ TableInv /\ StartsInv => FindTypeOK
  <2> SUFFICES ASSUME FindInv, TableInv, StartsInv PROVE FindTypeOK
    OBVIOUS
  <2>1. SearchTypes
    BY DEF FindInv, SearchInv
  <2>2. found \subseteq Seq(Node) /\ paths \subseteq Seq(Node)
    BY DEF FindInv, SearchInv, BfsInv, Route
  <2>3. SearchTypeOK
    BY <2>1, <2>2 DEF SearchTypes, SearchTypeOK
  <2> QED
    BY <2>3, FindAssumption DEF FindInv, TableInv, StartsInv, RowType, FindTypeOK
<1> QED
  BY <1>1, <1>2, StartsInvStep, FindInvariant, TableInvariant, PTL DEF FindSpec

----------------------------------------------------------------------------
(* The graph that is searched keeps what the table connects.               *)

\* A way back is as long.
LEMMA NearConverse ==
  ASSUME NEW E \in SUBSET (Node \X Node), NEW u \in Node, NEW k \in Nat, NEW v \in Near({u}, E, k)
  PROVE  u \in Near({v}, Converse(E), k)
<1> DEFINE C == Converse(E)
           T == {j \in 0 .. k : \A w \in Near({u}, E, j) : u \in Near({w}, C, j)}
<1>1. C \in SUBSET (Node \X Node) /\ \A w, x : <<w, x>> \in E => <<x, w>> \in C
  <2>1. ASSUME NEW e \in E PROVE <<e[2], e[1]>> \in Node \X Node
    OBVIOUS
  <2>2. ASSUME NEW w, NEW x, <<w, x>> \in E PROVE <<x, w>> \in C
    <3> DEFINE e == <<w, x>>
    <3>1. <<e[2], e[1]>> \in C
      BY <2>2 DEF Converse
    <3> QED
      BY <3>1
  <2> QED
    BY <2>1, <2>2 DEF Converse
<1>2. {u} \in SUBSET Node /\ \A j \in Nat : Near({u}, E, j) \subseteq Node
  BY NearBall
<1> HIDE DEF C
<1>3. 0 \in T
  <2>1. \A w \in Near({u}, E, 0) : w = u
    BY NearStep
  <2>2. u \in Near({u}, C, 0)
    BY <1>1, NearStep
  <2> QED
    BY <2>1, <2>2
<1>4. ASSUME NEW j \in 0 .. k - 1, j \in T PROVE j + 1 \in T
  <2>1. j + 1 \in 0 .. k /\ j \in Nat /\ j + 1 \in Nat /\ j \in 0 .. j + 1
    OBVIOUS
  <2> SUFFICES ASSUME NEW w \in Near({u}, E, j + 1) PROVE u \in Near({w}, C, j + 1)
    BY <2>1
  <2>2. w \in Node /\ w \in Spread(Near({u}, E, j), E)
    BY <1>2, <2>1, NearStep
  <2>3. CASE w \in Near({u}, E, j)
    <3>1. u \in Near({w}, C, j)
      BY <1>4, <2>3
    <3>2. {w} \in SUBSET Node
      BY <2>2
    <3> QED
      BY <1>1, <2>1, <3>1, <3>2, NearGrows
  <2>4. CASE w \notin Near({u}, E, j)
    <3>1. PICK e \in E : e[2] = w /\ e[1] \in Near({u}, E, j)
      BY <2>2, <2>4 DEF Spread
    <3>2. e[1] \in Node /\ <<w, e[1]>> \in C
      <4>1. e = <<e[1], w>> /\ e[1] \in Node
        BY <3>1
      <4> QED
        BY <1>1, <4>1
    <3>3. u \in Near({e[1]}, C, j)
      BY <1>4, <3>1
    <3>4. Near({e[1]}, C, j) \subseteq Near({w}, C, j + 1)
      BY <1>1, <2>1, <2>2, <3>2, NearPrepend
    <3> QED
      BY <3>3, <3>4
  <2> QED
    BY <2>3, <2>4
<1> HIDE DEF T
<1>5. \A j \in 0 .. k : j \in T
  BY <1>3, <1>4, BoundedInduction
<1>6. k \in T
  BY <1>5
<1> QED
  BY <1>6 DEF T, C

\* Between a vertex and a selected one, whichever comes first in the execution.
Leads(H, d, v, s, k) == IF d = "f" THEN s \in Near({v}, H, k) ELSE v \in Near({s}, H, k)

\* Each vertex that is connected to a selected one still is to one of the nearest.
HasWay(H, S, E, d) ==
  \A v \in ReachableFrom(S, E) :
    \E k \in 0 .. N, s \in S : Level(S, E, v, k) /\ Leads(H, d, v, s, k)

\* One edge for a vertex is enough: it comes from the level before.
LEMMA GraphConnects ==
  ASSUME NEW S \in SUBSET Node, NEW E \in SUBSET (Node \X Node), n \in Nat,
         TableIs(S, E, n, fp), ~\E r \in fp : r.iteration_count = n,
         dir \in {"f", "b"}, NEW H \in ResultGraphs
  PROVE  HasWay(H, S, E, dir)
<1> DEFINE ends == {r.next_node : r \in fp}
           edge(v, r) == IF dir = "f" THEN <<v, r.node>> ELSE <<r.node, v>>
           T == {k \in 0 .. N : \A v : Level(S, E, v, k) => \E s \in S : Leads(H, dir, v, s, k)}
<1>1. PICK pick \in [ends -> fp] :
        /\ \A v \in ends : pick[v] \in Nearest(v)
        /\ H = {edge(v, pick[v]) : v \in ends}
  BY DEF ResultGraphs
<1>2. \A r \in fp : RowType(r, n)
  BY TableTypes
<1>3. H \in SUBSET (Node \X Node)
  <2>1. ASSUME NEW v \in ends PROVE edge(v, pick[v]) \in Node \X Node
    BY <1>1, <1>2 DEF RowType
  <2> QED
    BY <1>1, <2>1
<1>4. ReachableFrom(S, E) \subseteq Near(S, E, n)
  BY TableComplete
<1>5. ReachableFrom(S, E) \subseteq Node
  BY ReachableClosed
<1>6. \A v \in ends : edge(v, pick[v]) \in H
  BY <1>1
<1>7. \A r \in fp : r.next_node \in ends
  OBVIOUS
<1> HIDE DEF ends, edge
<1>8. 0 \in T
  <2>1. ASSUME NEW v, Level(S, E, v, 0) PROVE v \in S /\ Leads(H, dir, v, v, 0)
    <3>1. v \in S
      BY <2>1, NearStep DEF Level
    <3>2. {v} \in SUBSET Node
      BY <3>1
    <3>3. v \in Near({v}, H, 0)
      BY <1>3, <3>2, NearStep
    <3> QED
      BY <3>1, <3>3 DEF Leads
  <2> QED
    BY <2>1, NodeCount
<1>9. ASSUME NEW k \in 0 .. N - 1, k \in T PROVE k + 1 \in T
  <2>1. k + 1 \in 0 .. N /\ k \in Nat /\ k + 1 \in Nat /\ (k + 1) - 1 = k /\ k + 1 > 0
    BY NodeCount
  <2> SUFFICES ASSUME NEW v, Level(S, E, v, k + 1) PROVE \E s \in S : Leads(H, dir, v, s, k + 1)
    BY <2>1
  <2>2. v \in Node /\ v \notin S
    <3>1. v \in Near(S, E, k + 1) /\ v \notin Near(S, E, k)
      BY <2>1 DEF Level
    <3>2. 0 \in 0 .. k
      BY <2>1
    <3>3. S \subseteq Near(S, E, k)
      <4>1. Near(S, E, 0) = S
        BY NearStep
      <4>2. \A i \in 0 .. k : Near(S, E, i) \subseteq Near(S, E, k)
        BY <2>1, NearGrows
      <4> QED
        BY <3>2, <4>1, <4>2
    <3> QED
      BY <2>1, <3>1, <3>3, NearBall
  <2>3. PICK e \in E : e[2] = v /\ Level(S, E, e[1], k)
    BY <2>1, LevelBelow
  <2>4. k \in 0 .. n
    <3>1. e[1] \in ReachableFrom(S, E)
      BY <2>1, <2>3, NearGrows DEF Level
    <3>2. k <= n
      BY <1>4, <2>1, <2>3, <3>1, LevelFacts
    <3> QED
      BY <2>1, <3>2
  <2>5. v \in ends
    <3>1. Row(e[1], e[2], k + 1, k) \in fp
      BY <2>3, <2>4 DEF TableIs, InTable
    <3>2. Row(e[1], e[2], k + 1, k).next_node = v
      BY <2>3 DEF Row
    <3> QED
      BY <1>7, <3>1, <3>2
  <2> DEFINE r == pick[v]
  <2>6. r \in Nearest(v) /\ edge(v, r) \in H /\ r \in fp
    BY <1>1, <1>6, <2>5
  <2> HIDE DEF r
  <2>7. /\ r.path_length \in 1 .. N
        /\ Level(S, E, v, r.path_length) /\ Level(S, E, r.node, r.path_length - 1)
    BY <2>2, <2>6, NearestLevel
  <2>8. r.path_length = k + 1
    <3>1. r.path_length \in Nat
      BY <2>7
    <3>2. v \in Near(S, E, k + 1) /\ v \in Near(S, E, r.path_length)
      BY <2>7 DEF Level
    <3>3. k + 1 <= r.path_length
      <4> DEFINE i == k + 1
      <4> HIDE DEF i
      <4> SUFFICES i <= r.path_length
        BY DEF i
      <4> QED
        BY <2>1, <3>1, <3>2, LevelFacts DEF i
    <3>4. r.path_length <= k + 1
      BY <2>1, <2>7, <3>1, <3>2, LevelFacts
    <3> QED
      BY <2>1, <3>1, <3>3, <3>4
  <2>9. PICK s \in S : Leads(H, dir, r.node, s, k)
    BY <1>9, <2>1, <2>7, <2>8
  <2>10. r.node \in Node /\ s \in Node
    BY <1>2, <2>6 DEF RowType
  <2>11. CASE dir = "f"
    <3>1. <<v, r.node>> \in H /\ s \in Near({r.node}, H, k)
      BY <2>6, <2>9, <2>11 DEF edge, Leads
    <3>2. Near({r.node}, H, k) \subseteq Near({v}, H, k + 1)
      BY <1>3, <2>1, <2>2, <2>10, <3>1, NearPrepend
    <3> QED
      BY <2>11, <3>1, <3>2 DEF Leads
  <2>12. CASE dir = "b"
    <3>1. <<r.node, v>> \in H /\ r.node \in Near({s}, H, k) /\ dir # "f"
      BY <2>6, <2>9, <2>12 DEF edge, Leads
    <3>2. {s} \in SUBSET Node
      BY <2>10
    <3>3. Near({s}, H, k + 1) = Spread(Near({s}, H, k), H)
      BY <1>3, <2>1, <3>2, NearStep
    <3>4. \E d \in H : d[1] \in Near({s}, H, k) /\ d[2] = v
      BY <3>1
    <3>5. v \in Near({s}, H, k + 1)
      BY <3>3, <3>4 DEF Spread
    <3> QED
      BY <3>1, <3>5 DEF Leads
  <2> QED
    BY <2>11, <2>12
<1> HIDE DEF T
<1>10. \A k \in 0 .. N : k \in T
  BY <1>8, <1>9, NodeCount, BoundedInduction
<1>11. ASSUME NEW v \in ReachableFrom(S, E) PROVE \E k \in 0 .. N : Level(S, E, v, k)
  <2>1. v \in Near(S, E, N)
    BY NodeCount, NearBall
  <2> QED
    BY <2>1, NodeCount, LevelFacts
<1> QED
  BY <1>10, <1>11 DEF T, HasWay

\* What is connected in the graph is so over the distance that the slice has.
LEMMA WayIsShortest ==
  ASSUME NEW S \in SUBSET Node, NEW G \in SUBSET (Node \X Node), NEW H \in SUBSET G,
         NEW d \in {"f", "b"}, NEW E \in SUBSET (Node \X Node),
         E = IF d = "f" THEN Converse(G) ELSE G,
         HasWay(H, S, E, d), NEW v \in ReachableFrom(S, E)
  PROVE  \E s \in S :
           LET a == IF d = "f" THEN v ELSE s
               b == IF d = "f" THEN s ELSE v
           IN  /\ b \in ReachableFrom({a}, H)
               /\ Distance(a, b, H) \in 0 .. N /\ Level(S, E, v, Distance(a, b, H))
<1>1. PICK k \in 0 .. N, s \in S : Level(S, E, v, k) /\ Leads(H, d, v, s, k)
  BY DEF HasWay
<1> DEFINE a == IF d = "f" THEN v ELSE s
           b == IF d = "f" THEN s ELSE v
           L == Distance(a, b, H)
<1>2. v \in Node /\ s \in Node /\ H \in SUBSET (Node \X Node) /\ k \in Nat /\ k <= N
  <2>1. ReachableFrom(S, E) \subseteq Node
    BY ReachableClosed
  <2> QED
    BY <2>1, NodeCount
<1>3. a \in Node /\ {a} \in SUBSET Node /\ b \in Near({a}, H, k)
  BY <1>1, <1>2 DEF Leads
<1> HIDE DEF a, b
<1>4. b \in Ball({a}, H)[k] /\ b \in ReachableFrom({a}, H)
  BY <1>2, <1>3, NearBall, NearGrows
<1>5. L \in 0 .. N /\ b \in Ball({a}, H)[L] /\ L <= k
  BY <1>2, <1>3, <1>4, DistanceFacts
<1> HIDE DEF L
<1>6. L \in Nat /\ b \in Near({a}, H, L)
  BY <1>2, <1>3, <1>5, NodeCount, NearBall
<1>7. b \in Near({a}, G, L)
  <2>1. {a} \in SUBSET {a}
    OBVIOUS
  <2> QED
    BY <1>3, <1>6, <2>1, NearMonotone
<1>8. v \in Near({s}, E, L)
  <2>1. CASE d = "f"
    <3>1. a = v /\ b = s
      BY <2>1 DEF a, b
    <3>2. v \in Near({s}, Converse(G), L)
      BY <1>2, <1>6, <1>7, <3>1, NearConverse
    <3> QED
      BY <2>1, <3>2
  <2>2. CASE d = "b"
    BY <1>7, <2>2 DEF a, b
  <2> QED
    BY <2>1, <2>2
<1>9. v \in Near(S, E, L)
  <2>1. {s} \in SUBSET S /\ E \in SUBSET E
    OBVIOUS
  <2> QED
    BY <1>6, <1>8, <2>1, NearMonotone
<1>10. k <= L
  BY <1>1, <1>2, <1>6, <1>9, LevelFacts
<1>11. L = k
  BY <1>2, <1>5, <1>6, <1>10
<1> QED
  BY <1>1, <1>4, <1>5, <1>11 DEF a, b, L

----------------------------------------------------------------------------
(* What the loop over the starts has not missed.                           *)

\* All goals that a start reaches have their path among the results.
ServedStart(i) ==
  \A t \in GoalsOf(dir) : t \in ReachableFrom({i}, graph) =>
    \E p : /\ Route(p, graph, i) /\ Last(p) = t
           /\ Len(p) = Distance(i, t, graph) + 1 /\ Projected(p) \in results

\* What ConnectedHavePath says of one vertex, and of one slice.
HasResult(x) ==
  LET near == Ball(verticesIds(x.direction), Away(x.direction))
  IN  \E r \in results :
        /\ r.direction = x.direction
        /\ VertexOf(x) = IF x.direction = "f" THEN r.path[1] ELSE Last(r.path)
        /\ x.id \in near[Len(r.path) - 1]
        /\ Len(r.path) > 1 => x.id \notin near[Len(r.path) - 2]

DirDone(d) ==
  \A x \in db.vertex :
    /\ x.direction = d
    /\ x.id \in IF d = "f" THEN sourceIds ELSE sinkIds
    /\ x.id \in ReachableFrom(verticesIds(d), Away(d))
    => HasResult(x)

\* A start is still to be taken, under way, or served, and the graph of its slice
\* keeps what is connected; what was connected in a slice that is finished has paths.
ServeInv ==
  /\ phase = "search" => HasWay(graph, verticesIds(dir), Away(dir), dir)
  /\ strategy # "none" =>
       /\ phase = "search" =>
            \A i \in StartsOf(dir) : i \in todo \/ (pc # "idle" /\ start = i) \/ ServedStart(i)
       /\ dir = "b" => DirDone("f")
       /\ phase = "done" => DirDone("f") /\ DirDone("b")

\* The slice, its ends and what is near to them only change with the database.
LEMMA AwayStays ==
  ASSUME UNCHANGED <<db, selected>>
  PROVE  /\ \A d : Away(d)' = Away(d) /\ verticesIds(d)' = verticesIds(d)
         /\ sourceIds' = sourceIds /\ sinkIds' = sinkIds
<1>1. \A d : SliceGraph(d)' = SliceGraph(d)
  BY DEF SliceGraph, NaturalEdge, ForwardEdge, BackwardEdge, FlipRow
<1>2. \A d : verticesIds(d)' = verticesIds(d)
  BY DEF verticesIds, VertexOf
<1>3. sourceIds' = sourceIds /\ sinkIds' = sinkIds
  BY DEF sourceIds, sinkIds
<1>4. \A d : Away(d)' = Away(d)
  BY <1>1 DEF Away, Converse
<1> QED
  BY <1>2, <1>3, <1>4

\* More results take nothing away.
LEMMA DoneStays ==
  ASSUME UNCHANGED <<db, selected>>, results \subseteq results', NEW d, DirDone(d)
  PROVE  DirDone(d)'
<1>1. /\ \A c : Away(c)' = Away(c) /\ verticesIds(c)' = verticesIds(c)
      /\ sourceIds' = sourceIds /\ sinkIds' = sinkIds
  BY AwayStays
<1>2. ASSUME NEW x, HasResult(x) PROVE HasResult(x)'
  BY <1>1, <1>2 DEF HasResult, VertexOf
<1> QED
  BY <1>1, <1>2 DEF DirDone

\* A start that has been served stays so.
LEMMA ServedStartStays ==
  ASSUME UNCHANGED <<db, dir, selected, graph>>, results \subseteq results', NEW i, ServedStart(i)
  PROVE  ServedStart(i)'
<1>1. GoalsOf(dir)' = GoalsOf(dir)
  BY SliceStays
<1>2. \A p : Projected(p)' = Projected(p)
  BY DEF Projected, VertexOf
<1> QED
  BY <1>1, <1>2 DEF ServedStart

\* A result has the length, the ends and the slice of its path.
LEMMA ProjectedFacts ==
  ASSUME NEW p \in Seq(Node), Len(p) > 0
  PROVE  /\ Projected(p).direction = dir /\ Len(Projected(p).path) = Len(p)
         /\ Projected(p).path[1] = VertexOf(RowOf(p[1]))
         /\ Last(Projected(p).path) = VertexOf(RowOf(Last(p)))
<1> DEFINE q == [k \in DOMAIN p |-> VertexOf(RowOf(p[k]))]
<1>1. Projected(p) = [direction |-> dir, path |-> q]
  BY DEF Projected, RowOf
<1>2. DOMAIN q = 1 .. Len(p) /\ Len(p) \in Nat /\ 1 \in 1 .. Len(p) /\ Len(p) \in 1 .. Len(p)
  OBVIOUS
<1>3. Len(q) = Len(p)
  BY <1>2
<1>4. q[1] = VertexOf(RowOf(p[1])) /\ q[Len(p)] = VertexOf(RowOf(p[Len(p)]))
  BY <1>2
<1> HIDE DEF q
<1> QED
  BY <1>1, <1>3, <1>4 DEF Last

\* When all starts of a slice are served, all that is connected has its path.
LEMMA AllServed ==
  ASSUME FindInv, phase = "search", HasWay(graph, verticesIds(dir), Away(dir), dir),
         \A i \in StartsOf(dir) : ServedStart(i)
  PROVE  DirDone(dir)
<1> SUFFICES ASSUME NEW x \in db.vertex, x.direction = dir,
                    x.id \in IF dir = "f" THEN sourceIds ELSE sinkIds,
                    x.id \in ReachableFrom(verticesIds(dir), Away(dir))
             PROVE  HasResult(x)
  BY DEF DirDone
<1> DEFINE v == x.id
           S == verticesIds(dir)
           G == SliceGraph(dir)
           E == Away(dir)
           near == Ball(S, E)
<1>1. db \in Databases /\ dir \in {"f", "b"} /\ graph \subseteq G /\ RowOf(v) = x
  BY DatabaseFacts DEF FindInv
<1>2. S \in SUBSET Node /\ G \in SUBSET (Node \X Node) /\ E \in SUBSET (Node \X Node)
  <2>1. \A y \in db.vertex : y.id \in Node
    BY <1>1, DatabaseFacts
  <2>2. E \in SUBSET (Node \X Node)
    BY <1>1, TurnedAway
  <2>3. \A e \in G : \E i, j : e = <<i, j>>
    BY DEF SliceGraph
  <2>4. G \in SUBSET (Node \X Node)
    BY <1>1, <2>3, SliceEdges
  <2> QED
    BY <2>1, <2>2, <2>4 DEF verticesIds
<1>3. E = IF dir = "f" THEN Converse(G) ELSE G
  BY DEF Away
<1> HIDE DEF v, S, G, E
<1>4. HasWay(graph, S, E, dir) /\ v \in ReachableFrom(S, E)
  BY DEF v, S, E
<1>5. PICK s \in S :
        LET a == IF dir = "f" THEN v ELSE s
            b == IF dir = "f" THEN s ELSE v
        IN  /\ b \in ReachableFrom({a}, graph)
            /\ Distance(a, b, graph) \in 0 .. N /\ Level(S, E, v, Distance(a, b, graph))
  <2> HIDE DEF near
  <2> DEFINE H == graph
             d == dir
  <2>1. /\ H \in SUBSET G /\ d \in {"f", "b"} /\ E = IF d = "f" THEN Converse(G) ELSE G
        /\ HasWay(H, S, E, d)
    BY <1>1, <1>3, <1>4
  <2> HIDE DEF H, d
  <2>2. \E s \in S :
          LET a == IF d = "f" THEN v ELSE s
              b == IF d = "f" THEN s ELSE v
          IN  /\ b \in ReachableFrom({a}, H)
              /\ Distance(a, b, H) \in 0 .. N /\ Level(S, E, v, Distance(a, b, H))
    BY <1>2, <1>4, <2>1, WayIsShortest
  <2> QED
    BY <2>2 DEF H, d
<1> DEFINE a == IF dir = "f" THEN v ELSE s
           b == IF dir = "f" THEN s ELSE v
           L == Distance(a, b, graph)
<1>6. b \in ReachableFrom({a}, graph) /\ L \in 0 .. N /\ Level(S, E, v, L)
  BY <1>5
<1>7. a \in StartsOf(dir) /\ b \in GoalsOf(dir)
  BY <1>1 DEF StartsOf, GoalsOf, S, v
<1>8. v = IF dir = "f" THEN a ELSE b
  BY <1>1
<1> HIDE DEF a, b
<1>9. PICK p : /\ Route(p, graph, a) /\ Last(p) = b /\ Len(p) = L + 1 /\ Projected(p) \in results
  BY <1>6, <1>7 DEF ServedStart
<1> HIDE DEF L
<1> DEFINE r == Projected(p)
<1>10. /\ r.direction = dir /\ Len(r.path) = L + 1
       /\ r.path[1] = VertexOf(RowOf(a)) /\ Last(r.path) = VertexOf(RowOf(b))
  <2>1. p \in Seq(Node) /\ Len(p) > 0 /\ p[1] = a
    BY <1>9 DEF Route, IsPath
  <2> QED
    BY <1>9, <2>1, ProjectedFacts
<1> HIDE DEF r
<1>11. VertexOf(x) = IF x.direction = "f" THEN r.path[1] ELSE Last(r.path)
  BY <1>1, <1>8, <1>10
<1>12. v \in near[L] /\ (L > 0 => v \notin near[L - 1])
  <2> HIDE DEF near
  <2>1. L \in Nat /\ L <= N /\ (L > 0 => L - 1 \in Nat /\ L - 1 <= N)
    BY <1>6, NodeCount
  <2>2. Near(S, E, L) = near[L]
    BY <1>2, <2>1, NearBall DEF near
  <2>3. L > 0 => Near(S, E, L - 1) = near[L - 1]
    <3> SUFFICES ASSUME L > 0 PROVE Near(S, E, L - 1) = near[L - 1]
      OBVIOUS
    <3> DEFINE i == L - 1
    <3>1. i \in Nat /\ i <= N
      BY <2>1
    <3> HIDE DEF i
    <3>2. Near(S, E, i) = near[i]
      BY <1>2, <3>1, NearBall DEF near
    <3> QED
      BY <3>2 DEF i
  <2> QED
    BY <1>6, <2>2, <2>3 DEF Level
<1>13. L \in Nat /\ (L + 1) - 1 = L /\ (L + 1) - 2 = L - 1 /\ (L + 1 > 1 => L > 0)
  BY <1>6, NodeCount
<1>14. /\ r \in results /\ r.direction = x.direction
       /\ v \in near[Len(r.path) - 1]
       /\ Len(r.path) > 1 => v \notin near[Len(r.path) - 2]
  <2> HIDE DEF near
  <2> QED
    BY <1>9, <1>10, <1>12, <1>13 DEF r
<1>15. near = Ball(verticesIds(x.direction), Away(x.direction))
  BY DEF S, E
<1> HIDE DEF near
<1> QED
  BY <1>11, <1>14, <1>15 DEF HasResult, v

\* The table is filled, and gives a graph that connects what it must.
LEMMA ServeInvLoad == FindInv /\ TableInv /\ ServeInv /\ Load => ServeInv'
<1> SUFFICES ASSUME FindInv, TableInv, ServeInv, Load PROVE ServeInv'
  OBVIOUS
<1>1. /\ phase = "table" /\ phase' = "search" /\ todo' = StartsOf(dir) /\ graph' \in ResultGraphs
      /\ n \in Nat /\ ~\E r \in fp : r.iteration_count = n
      /\ UNCHANGED <<dir, db, selected, results, strategy>>
      /\ db \in Databases /\ dir \in {"f", "b"}
      /\ tableStarts \in SUBSET Node /\ tableStarts = verticesIds(dir)
      /\ TableIs(tableStarts, Turned, n, fp)
  BY DEF Load, FindInv, TableInv, TableDone, tableVars
<1>2. /\ Away(dir)' = Away(dir) /\ verticesIds(dir)' = verticesIds(dir)
      /\ StartsOf(dir)' = StartsOf(dir)
  BY <1>1, AwayStays, SliceStays
<1>3. Turned = Away(dir) /\ Turned \in SUBSET (Node \X Node)
  BY <1>1, TurnedAway
<1>4. HasWay(graph', tableStarts, Turned, dir)
  BY <1>1, <1>3, GraphConnects
<1>5. HasWay(graph', verticesIds(dir)', Away(dir)', dir')
  BY <1>1, <1>2, <1>3, <1>4
<1>6. \A d : DirDone(d) => DirDone(d)'
  BY <1>1, DoneStays
<1> QED
  BY <1>1, <1>2, <1>5, <1>6 DEF ServeInv, HasWay, Leads

\* A start is served when its call has returned, and only then is the next one taken.
LEMMA ServeInvSearch ==
  FindInv /\ ExactInv /\ ServeInv /\ (NextStart \/ Searching \/ Yield) => ServeInv'
<1> SUFFICES ASSUME FindInv, ExactInv, ServeInv, NextStart \/ Searching \/ Yield PROVE ServeInv'
  OBVIOUS
<1>1. /\ phase = "search" /\ phase' = "search"
      /\ UNCHANGED <<dir, db, selected, graph, strategy>> /\ results \subseteq results'
  BY DEF NextStart, Searching, Yield, Call, SearchStep, Perform, Visit, EndSearch, Walk, Return,
         inputVars, tableVars
<1>2. /\ Away(dir)' = Away(dir) /\ verticesIds(dir)' = verticesIds(dir)
      /\ StartsOf(dir)' = StartsOf(dir)
  BY <1>1, AwayStays, SliceStays
<1>3. \A d : DirDone(d) => DirDone(d)'
  BY <1>1, DoneStays
<1>4. \A i : ServedStart(i) => ServedStart(i)'
  BY <1>1, ServedStartStays
<1>5. ASSUME strategy # "none", NEW i \in StartsOf(dir)
      PROVE  i \in todo' \/ (pc' # "idle" /\ start' = i) \/ ServedStart(i)'
  <2>1. i \in todo \/ (pc # "idle" /\ start = i) \/ ServedStart(i)'
    BY <1>1, <1>4, <1>5 DEF ServeInv
  <2>2. CASE NextStart
    BY <2>1, <2>2 DEF NextStart, Call
  <2>3. CASE Searching
    <3>1. pc' # "idle" /\ start' = start /\ todo' = todo
      BY <2>3 DEF Searching, SearchStep, Perform, Visit, EndSearch, Walk, Return, callVars
    <3> QED
      BY <2>1, <3>1
  <2>4. CASE Yield
    <3>1. pc = "return" /\ todo' = todo /\ results' = results \cup {Projected(p) : p \in paths}
      BY <2>4 DEF Yield
    <3>2. CASE start = i
      <4>1. goals = GoalsOf(dir) /\ SearchInv
        BY <3>1 DEF FindInv
      <4>2. ASSUME NEW t \in GoalsOf(dir), t \in ReachableFrom({i}, graph)
            PROVE  \E p : /\ Route(p, graph, i) /\ Last(p) = t
                          /\ Len(p) = Distance(i, t, graph) + 1 /\ Projected(p) \in results'
        <5>1. HasShortest(t)
          BY <1>5, <3>1, <3>2, <4>1, <4>2, NothingToFind
        <5>2. PICK p \in paths : Last(p) = t /\ Len(p) = Distance(i, t, graph) + 1
          BY <3>2, <5>1 DEF HasShortest
        <5>3. Route(p, graph, i)
          BY <3>2, <4>1 DEF SearchInv
        <5> QED
          BY <3>1, <5>2, <5>3
      <4>3. GoalsOf(dir)' = GoalsOf(dir)
        BY <1>1, SliceStays
      <4>4. \A p : Projected(p)' = Projected(p)
        BY <1>1 DEF Projected, VertexOf
      <4> QED
        BY <1>1, <4>2, <4>3, <4>4 DEF ServedStart
    <3>3. CASE start # i
      BY <2>1, <3>1, <3>3
    <3> QED
      BY <3>2, <3>3
  <2> QED
    BY <2>2, <2>3, <2>4
<1>6. HasWay(graph, verticesIds(dir), Away(dir), dir)'
  BY <1>1, <1>2 DEF ServeInv, HasWay, Leads
<1> QED
  BY <1>1, <1>2, <1>3, <1>5, <1>6 DEF ServeInv

\* A slice ends when all its starts have been served.
LEMMA ServeInvEnd == FindInv /\ ServeInv /\ EndDirection => ServeInv'
<1> SUFFICES ASSUME FindInv, ServeInv, EndDirection PROVE ServeInv'
  OBVIOUS
<1>1. /\ phase = "search" /\ pc = "idle" /\ todo = {} /\ phase' # "search"
      /\ UNCHANGED <<db, selected, results, strategy>>
      /\ dir \in {"f", "b"}
      /\ (dir' = "b" /\ phase' # "done" /\ dir = "f") \/ (dir' = "b" /\ phase' = "done" /\ dir = "b")
  BY DEF EndDirection, FindInv, searchVars, inputVars
<1>2. strategy # "none" => DirDone(dir)
  BY <1>1, AllServed DEF ServeInv
<1>3. \A d : DirDone(d) => DirDone(d)'
  BY <1>1, DoneStays
<1> QED
  BY <1>1, <1>2, <1>3 DEF ServeInv

\* The table takes nothing away.
LEMMA ServeInvRest == FindInv /\ ServeInv /\ (Begin \/ Fill \/ UNCHANGED findVars) => ServeInv'
<1> SUFFICES ASSUME ServeInv, Begin \/ Fill \/ UNCHANGED findVars PROVE ServeInv'
  OBVIOUS
<1>1. /\ UNCHANGED <<dir, db, selected, results, strategy, graph, start, pc, todo>>
      /\ phase' = "table" \/ UNCHANGED phase
  BY DEF Begin, Fill, AugmentTable, findVars, tableVars, searchVars, inputVars, callVars
<1>2. /\ Away(dir)' = Away(dir) /\ verticesIds(dir)' = verticesIds(dir)
      /\ StartsOf(dir)' = StartsOf(dir)
  BY <1>1, AwayStays, SliceStays
<1>3. \A d : DirDone(d) => DirDone(d)'
  BY <1>1, DoneStays
<1>4. \A i : ServedStart(i) => ServedStart(i)'
  BY <1>1, ServedStartStays
<1> QED
  BY <1>1, <1>2, <1>3, <1>4 DEF ServeInv, HasWay, Leads

\* The searches keep what they have not missed.
LEMMA FindExactStep ==
  FindInv /\ AvoidInv /\ ExactInv /\ [FindNext]_findVars => AvoidInv' /\ ExactInv'
<1> SUFFICES ASSUME FindInv, AvoidInv, ExactInv, [FindNext]_findVars PROVE AvoidInv' /\ ExactInv'
  OBVIOUS
<1>1. CASE Begin \/ Fill \/ EndDirection \/ UNCHANGED findVars
  <2>1. UNCHANGED searchVars
    BY <1>1 DEF Begin, Fill, EndDirection, findVars
  <2> QED
    BY <2>1, AvoidInvStutter, ExactStutter
<1>2. CASE Load
  <2>1. pc = "idle" /\ pc' = "idle" /\ UNCHANGED <<strategy, callVars, bfsVars, searches, stack, paths, pc>>
    BY <1>2 DEF Load, FindInv
  <2>2. FindInv'
    BY <1>2, FindInvLoad
  <2>3. graph' \subseteq Node \X Node
    BY <2>2 DEF FindInv, SearchInv, SearchTypes
  <2>4. AvoidInv'
    BY <2>1, <2>3, NewGraph DEF FindInv
  <2> QED
    BY <2>1, <2>4 DEF ExactInv, ShortestInv, LeftInv, WalkInv
<1>3. CASE NextStart
  <2>1. PICK i \in todo : Call(i, GoalsOf(dir))
    BY <1>3 DEF NextStart
  <2>2. i \in Node /\ GoalsOf(dir) \in SUBSET Node /\ SearchInv
    BY <1>3, EndpointIds DEF NextStart, FindInv
  <2> QED
    BY <2>1, <2>2, AvoidInvCall, ExactCall
<1>4. CASE Searching
  BY <1>4, AvoidInvStep, ExactStep DEF Searching, FindInv
<1>5. CASE Yield
  <2>1. pc' = "idle" /\ paths' = {} /\ UNCHANGED <<inputVars, bfsVars, searches>>
    BY <1>5 DEF Yield
  <2>2. AvoidInv'
    BY <2>1 DEF AvoidInv, AllAvoidedIn, inputVars, bfsVars
  <2> QED
    BY <2>1, <2>2 DEF ExactInv, ShortestInv, LeftInv, WalkInv
<1> QED
  BY <1>1, <1>2, <1>3, <1>4, <1>5 DEF FindNext

\* The invariant of what find_paths has not missed.
LEMMA ServeInvariant == FindSpec => [](FindInv /\ ServeInv)
<1>1. FindInit => AvoidInv /\ ExactInv /\ ServeInv
  <2> SUFFICES ASSUME FindInit PROVE AvoidInv /\ ExactInv /\ ServeInv
    OBVIOUS
  <2>1. pc = "idle" /\ searches = <<>> /\ phase = "begin" /\ dir = "f"
    BY DEF FindInit, InitSearch
  <2> QED
    BY <2>1 DEF AvoidInv, ServeInv, ExactInv, ShortestInv, LeftInv, WalkInv
<1>2. FindInv /\ TableInv /\ ExactInv /\ ServeInv /\ [FindNext]_findVars => ServeInv'
  BY ServeInvLoad, ServeInvSearch, ServeInvEnd, ServeInvRest DEF FindNext
<1> QED
  BY <1>1, <1>2, FindExactStep, TableInvariant, PTL DEF FindSpec

\* Whatever ties the table broke, a source or a sink that is connected to a selected
\* vertex is at the end of a result of least length, for every database and every
\* selection: of the edges into a vertex the graph searched keeps the one that a
\* shortest way takes, and the search loses no goal to what it avoids (find_paths).
THEOREM ConnectedArePaths == FindSpec => []ConnectedHavePath
<1>1. FindInv /\ ServeInv => ConnectedHavePath
  <2> SUFFICES ASSUME FindInv, ServeInv, phase = "done", strategy # "none" PROVE ConnectedHavePath
    BY DEF ConnectedHavePath
  <2>1. DirDone("f") /\ DirDone("b")
    BY DEF ServeInv
  <2>2. \A x \in db.vertex : x.direction \in {"f", "b"}
    BY DatabaseFacts DEF FindInv, VertexRow
  <2>3. ASSUME NEW x \in db.vertex,
               x.id \in IF x.direction = "f" THEN sourceIds ELSE sinkIds,
               x.id \in Ball(verticesIds(x.direction), Away(x.direction))[Cardinality(Node)]
        PROVE  HasResult(x)
    <3>1. DirDone(x.direction)
      BY <2>1, <2>2
    <3> QED
      BY <2>3, <3>1 DEF DirDone, ReachableFrom
  <2>4. \A x \in db.vertex :
          Away(x.direction) = IF x.direction = "f" THEN Converse(SliceGraph("f")) ELSE SliceGraph("b")
    BY <2>2 DEF Away
  <2> QED
    BY <2>3, <2>4 DEF ConnectedHavePath, HasResult
<1> QED
  BY <1>1, ServeInvariant, PTL

=============================================================================
