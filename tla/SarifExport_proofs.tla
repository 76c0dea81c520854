------------------------- MODULE SarifExport_proofs -------------------------
(***************************************************************************)
(* What an export finds is real and complete, and is reported, for every    *)
(* database: the searches keep their invariants under the loop over sources *)
(* and goals and while the graph of one slice after the other is loaded;    *)
(* what they yield covers the leaks of both slices, each of which is shown, *)
(* with a code flow along the execution and the locations of the database. *)
(***************************************************************************)
EXTENDS SarifExport, SearchComplete_proofs

\* A graph is only loaded while no search runs.
ExportInv ==
  /\ SearchInv
  /\ AvoidInv
  /\ sources \subseteq Node /\ sinks \subseteq Node
  /\ db \in DatabaseType
  /\ phase # "search" => pc = "idle"

\* Edges and tagged rows are between ids of the database.
LEMMA SliceTypes ==
  ASSUME db \in DatabaseType, NEW d
  PROVE  /\ SliceGraph(d) \subseteq Node \X Node
         /\ \A tags : TaggedIds(tags, d) \subseteq Node
<1>1. Node = VertexId
  BY ExportAssumption
<1>2. db.vertex \subseteq VertexRow /\ db.edge \subseteq EdgeRow
  BY DEF DatabaseType
<1>3. \A x \in db.vertex : x.id \in Node
  BY <1>1, <1>2 DEF VertexRow
<1>4. \A e \in db.edge : e.from \in Node /\ e.to \in Node
  BY <1>1, <1>2 DEF EdgeRow
<1>5. \A e \in db.edge : FlipRow(e).from \in Node /\ FlipRow(e).to \in Node
  BY <1>2, <1>4 DEF EdgeRow, FlipRow
<1>6. \A e \in NaturalEdge(db) : e.from \in Node /\ e.to \in Node
  BY <1>4, <1>5 DEF NaturalEdge, ForwardEdge, BackwardEdge
<1> QED
  BY <1>3, <1>6 DEF SliceGraph, TaggedIds

\* The export starts with an idle search of an empty graph.
LEMMA ExportInvInit == ExportInit => ExportInv
<1> SUFFICES ASSUME ExportInit PROVE ExportInv
  OBVIOUS
<1>1. PICK e \in Exports :
        /\ db = e.db /\ strategy = e.strategy
        /\ phase = IF e.match THEN "match"
                   ELSE IF {"graphs", "path_result"} \cap e.types # {} THEN "load"
                   ELSE "populate"
  BY DEF ExportInit
<1>2. db \in DatabaseType /\ strategy \in Strategy /\ phase # "search"
  BY <1>1, ExportAssumption
<1>3. pc = "idle" /\ graph = {} /\ sources = {} /\ sinks = {} /\ searches = <<>>
  BY DEF ExportInit, InitSearch
<1>4. SearchInv
  <2>1. InitSearch(CHOOSE i \in Node : TRUE)
    BY DEF ExportInit
  <2> QED
    BY <1>2, <1>3, <2>1, SearchInvInit
<1> QED
  BY <1>2, <1>3, <1>4 DEF ExportInv, AvoidInv

\* The taint graph of a slice is loaded while no search runs.
LEMMA ExportInvLoad == ExportInv /\ LoadTaintGraph => ExportInv'
<1> SUFFICES ASSUME ExportInv, LoadTaintGraph PROVE ExportInv'
  OBVIOUS
<1>1. /\ db \in DatabaseType /\ db' = db /\ SliceGraph(dir) \subseteq Node \X Node
      /\ \A tags : TaggedIds(tags, dir) \subseteq Node
  BY SliceTypes DEF ExportInv, LoadTaintGraph
<1>2. pc = "idle" /\ pc' = "idle"
  BY DEF ExportInv, LoadTaintGraph
<1>3. SearchInv' /\ AvoidInv'
  BY <1>1, <1>2, NewGraph DEF ExportInv, LoadTaintGraph
<1>4. sources' \subseteq Node /\ sinks' \subseteq Node
  BY <1>1 DEF LoadTaintGraph
<1> QED
  BY <1>1, <1>2, <1>3, <1>4 DEF ExportInv

\* A round of iter_paths searches, collects and asks again.
LEMMA ExportInvFind == ExportInv /\ FindPaths => ExportInv'
<1> SUFFICES ASSUME ExportInv, FindPaths PROVE ExportInv'
  OBVIOUS
<1>1. phase = "search" /\ phase' = phase /\ db' = db /\ IterStep
  BY DEF FindPaths, infoVars
<1>2. CASE NextSource
  <2>1. PICK s \in sources :
          /\ sources' = sources \ {s} /\ sinks' = sinks
          /\ Call(s, sinks) \/ UNCHANGED searchVars
    BY <1>2 DEF NextSource
  <2>2. pc = "idle" /\ s \in Node /\ sinks \in SUBSET Node /\ SearchInv /\ AvoidInv
    BY <1>2 DEF NextSource, ExportInv
  <2>3. SearchInv' /\ AvoidInv'
    <3>1. CASE Call(s, sinks)
      BY <2>2, <3>1, SearchInvCall, AvoidInvCall
    <3>2. CASE UNCHANGED searchVars
      BY <2>2, <3>2, SearchInvStutter, AvoidInvStutter
    <3> QED
      BY <2>1, <3>1, <3>2
  <2> QED
    BY <1>1, <2>1, <2>3 DEF ExportInv
<1>3. CASE Collect
  <2> DEFINE rest == goals \ {Last(p) : p \in paths}
  <2>1. /\ pc = "return" /\ SearchInv /\ AvoidInv /\ UNCHANGED <<sources, sinks>>
        /\ start \in Node /\ rest \in SUBSET Node
    BY <1>3 DEF Collect, ExportInv, SearchInv, SearchTypes
  <2>2. \/ Call(start, rest)
        \/ pc' = "idle" /\ paths' = {} /\ UNCHANGED <<inputVars, callVars, bfsVars, searches, stack>>
    BY <1>3 DEF Collect
  <2> HIDE DEF rest
  <2>3. CASE Call(start, rest)
    <3>1. SearchInv' /\ AvoidInv'
      BY <2>1, <2>3, SearchInvCall, AvoidInvCall
    <3> QED
      BY <1>1, <2>1, <3>1 DEF ExportInv
  <2>4. CASE pc' = "idle" /\ paths' = {} /\ UNCHANGED <<inputVars, callVars, bfsVars, searches, stack>>
    <3>1. SearchTypes'
      BY <2>1, <2>4 DEF SearchInv, SearchTypes, inputVars, callVars, bfsVars
    <3>2. SearchInv'
      BY <2>1, <2>4, <3>1 DEF SearchInv, inputVars, callVars, bfsVars
    <3>3. AvoidInv'
      BY <2>1, <2>4 DEF AvoidInv, AllAvoidedIn, inputVars, bfsVars
    <3> QED
      BY <1>1, <2>1, <3>2, <3>3 DEF ExportInv
  <2> QED
    BY <2>2, <2>3, <2>4
<1>4. CASE SearchStep /\ UNCHANGED <<sources, sinks, yielded>>
  BY <1>1, <1>4, SearchInvStep, AvoidInvStep DEF ExportInv
<1> QED
  BY <1>1, <1>2, <1>3, <1>4 DEF IterStep

\* The slices take turns, and the results are formatted after the search.
LEMMA ExportInvRest == ExportInv /\ (EndSlice \/ FormatStep) => ExportInv'
<1> SUFFICES ASSUME ExportInv, EndSlice \/ FormatStep PROVE ExportInv'
  OBVIOUS
<1>1. UNCHANGED iterVars /\ db' = db
  BY DEF EndSlice, FormatStep, InfoStep, PopulateTaintset, LoadMetadata, FormatPath, FormatRest,
         PopulateMatches, LoadMatchLocations, FormatMatches
<1>2. phase' # "search" => pc = "idle"
  <2>1. CASE EndSlice
    BY <2>1 DEF EndSlice, IterDone
  <2>2. CASE FormatStep
    <3>1. phase # "search"
      BY <2>2 DEF FormatStep, InfoStep, PopulateTaintset, LoadMetadata, FormatPath, FormatRest,
                  PopulateMatches, LoadMatchLocations, FormatMatches
    <3> QED
      BY <3>1 DEF ExportInv
  <2> QED
    BY <2>1, <2>2
<1>3. UNCHANGED searchVars /\ UNCHANGED <<sources, sinks>> /\ pc' = pc
  BY <1>1 DEF iterVars, searchVars
<1>4. SearchInv' /\ AvoidInv'
  BY <1>3, SearchInvStutter, AvoidInvStutter DEF ExportInv
<1> QED
  BY <1>1, <1>2, <1>3, <1>4 DEF ExportInv

\* The invariant of the export.
LEMMA ExportInvariant == ExportSpec => []ExportInv
<1>1. ExportInv /\ [ExportNext]_exportVars => ExportInv'
  <2>1. ExportInv /\ UNCHANGED exportVars => ExportInv'
    BY SearchInvStutter, AvoidInvStutter DEF ExportInv, exportVars, iterVars, searchVars, infoVars
  <2> QED
    BY <2>1, ExportInvLoad, ExportInvFind, ExportInvRest DEF ExportNext
<1> QED
  BY <1>1, ExportInvInit, PTL DEF ExportSpec

----------------------------------------------------------------------------

\* The assertion of BFS.perform never fails (graph.py:195), for every graph and in
\* a search that was cloned, reset and given vertices to avoid.
THEOREM AssertionHolds == ExportSpec => []PoppedIsDiscovered
<1>1. ExportInv => PoppedIsDiscovered
  <2> SUFFICES ASSUME ExportInv, pc = "bfs", worklist # <<>>
               PROVE  state[Head(worklist)] = "discovered"
    BY DEF PoppedIsDiscovered
  <2>1. worklist \in Seq(Node) /\ \A i \in DOMAIN worklist : state[worklist[i]] = "discovered"
    BY DEF ExportInv, SearchInv, SearchTypes, BfsInv
  <2>2. 1 \in DOMAIN worklist /\ Head(worklist) = worklist[1]
    BY <2>1
  <2> QED
    BY <2>1, <2>2
<1> QED
  BY <1>1, ExportInvariant, PTL

\* Paths that are handed out lead from the start to a goal and do not meet
\* themselves, and those of the running search avoid what it was told to, with every
\* strategy (iter_paths, startpaths).
THEOREM FoundPathsAreReal == ExportSpec => []PathsAreReal
<1>1. ExportInv => PathsAreReal
  <2> SUFFICES ASSUME ExportInv PROVE PathsAreReal
    OBVIOUS
  <2>1. /\ \A p \in paths : Route(p, graph, start) /\ Last(p) \in goals
        /\ \A p \in found : /\ Route(p, graph, start) /\ Last(p) \in goals
                            /\ ToSet(p) \cap avoids = {}
    BY DEF ExportInv, SearchInv, BfsInv
  <2> QED
    BY <2>1 DEF PathsAreReal, Route
<1> QED
  BY <1>1, ExportInvariant, PTL

\* With the strategies "front" and "back", a path found later avoids the second, or
\* second-to-last, vertex of every path found before (startpaths).
THEOREM PathsKeepAway == ExportSpec => NewPathsKeepAway
<1>1. ExportInv /\ [ExportNext]_exportVars => [KeepAway]_searchVars
  <2> SUFFICES ASSUME ExportInv, [ExportNext]_exportVars, ~UNCHANGED searchVars
               PROVE  KeepAway
    OBVIOUS
  <2>1. LoadTaintGraph \/ FindPaths
    BY DEF ExportNext, EndSlice, FormatStep, exportVars, iterVars
  <2>2. CASE LoadTaintGraph
    BY <2>2 DEF LoadTaintGraph, KeepAway
  <2>3. CASE FindPaths
    <3>1. CASE NextSource
      BY <3>1 DEF NextSource, Call, KeepAway
    <3>2. CASE Collect
      BY <3>2 DEF Collect, Call, KeepAway
    <3>3. CASE SearchStep
      BY <3>3, KeepAwayStep DEF ExportInv
    <3> QED
      BY <2>3, <3>1, <3>2, <3>3 DEF FindPaths, IterStep
  <2> QED
    BY <2>1, <2>2, <2>3
<1>2. [KeepAway]_searchVars
        <=> [\A p \in paths' \ paths, q \in paths :
               Len(q) > 1 =>
                 /\ strategy = "front" => q[2] \notin ToSet(p)
                 /\ strategy = "back"  => q[Len(q) - 1] \notin ToSet(p)]_searchVars
  BY DEF KeepAway
<1> QED
  BY <1>1, <1>2, ExportInvariant, PTL DEF ExportSpec, NewPathsKeepAway

----------------------------------------------------------------------------
(* What the loop over the sources has not missed.                          *)

HasPath(s, t) == \E p \in yielded : /\ p[1] = s /\ Last(p) = t
                                    /\ strategy # "none" => Len(p) = Distance(s, t, graph) + 1

Served(s) == \A t \in sinks : t \in ReachableFrom({s}, graph) => HasPath(s, t)

\* A goal that is no longer asked for has its path, and a root is still to be taken,
\* under way, or has all of its paths.
IterInv ==
  /\ pc # "idle" => goals \subseteq sinks /\ \A t \in sinks \ goals : HasPath(start, t)
  /\ phase = "search" /\ "path_result" \in resultTypes =>
       \A r \in roots : r \in sources \/ (pc # "idle" /\ r = start) \/ Served(r)

\* Yielding more takes no path away.
LEMMA ServedStays ==
  ASSUME UNCHANGED <<graph, strategy, sinks>>, yielded \subseteq yielded'
  PROVE  /\ \A s, t : HasPath(s, t) => HasPath(s, t)'
         /\ \A s : Served(s) => Served(s)'
<1>1. ASSUME NEW s, NEW t, HasPath(s, t) PROVE HasPath(s, t)'
  BY <1>1 DEF HasPath
<1>2. ASSUME NEW s, Served(s) PROVE Served(s)'
  BY <1>1, <1>2 DEF Served
<1> QED
  BY <1>1, <1>2

\* The round that takes a source.
LEMMA IterInvNext == ExportInv /\ IterInv /\ FindPaths /\ NextSource => ExactInv' /\ IterInv'
<1> SUFFICES ASSUME ExportInv, IterInv, FindPaths, NextSource PROVE ExactInv' /\ IterInv'
  OBVIOUS
<1>1. /\ phase' = phase /\ UNCHANGED <<roots, resultTypes, sinks, yielded>>
      /\ pc = "idle" /\ SearchInv /\ sources \subseteq Node /\ sinks \in SUBSET Node
  BY DEF FindPaths, NextSource, infoVars, ExportInv
<1>2. PICK s \in sources : /\ sources' = sources \ {s}
                          /\ \/ Call(s, sinks)
                             \/ sinks = {} /\ UNCHANGED searchVars
  BY DEF NextSource
<1>3. UNCHANGED <<graph, strategy>>
  BY <1>2 DEF Call, inputVars, searchVars
<1>4. \A r : Served(r) => Served(r)'
  BY <1>1, <1>3, ServedStays
<1>5. CASE Call(s, sinks)
  <2>1. ExactInv'
    BY <1>1, <1>5, ExactCall
  <2>2. pc' # "idle" /\ start' = s /\ goals' = sinks
    BY <1>5 DEF Call
  <2>3. IterInv'
    BY <1>1, <1>2, <1>4, <2>2 DEF IterInv
  <2> QED
    BY <2>1, <2>3
<1>6. CASE sinks = {} /\ UNCHANGED searchVars
  <2>1. pc' = "idle"
    BY <1>1, <1>6 DEF searchVars
  <2>2. ExactInv'
    BY <2>1 DEF ExactInv, ShortestInv, LeftInv, WalkInv
  <2>3. Served(s)'
    BY <1>1, <1>6 DEF Served
  <2>4. IterInv'
    BY <1>1, <1>2, <1>4, <2>1, <2>3 DEF IterInv
  <2> QED
    BY <2>2, <2>4
<1> QED
  BY <1>2, <1>5, <1>6

\* The round that collects what a call of startpaths has found.
LEMMA IterInvCollect ==
  ExportInv /\ ExactInv /\ IterInv /\ FindPaths /\ Collect => ExactInv' /\ IterInv'
<1> SUFFICES ASSUME ExportInv, ExactInv, IterInv, FindPaths, Collect PROVE ExactInv' /\ IterInv'
  OBVIOUS
<1> DEFINE rest == goals \ {Last(p) : p \in paths}
<1>1. /\ phase' = phase /\ UNCHANGED <<roots, resultTypes, sinks, sources>>
      /\ pc = "return" /\ SearchInv /\ sinks \in SUBSET Node /\ yielded' = yielded \cup paths
  BY DEF FindPaths, Collect, infoVars, ExportInv
<1>2. \/ Call(start, rest)
      \/ /\ pc' = "idle" /\ UNCHANGED <<inputVars, callVars>>
         /\ paths = {} \/ rest = {}
  BY DEF Collect
<1>3. UNCHANGED <<graph, strategy, start>>
  BY <1>2 DEF Call, inputVars, callVars
<1>4. /\ \A t : HasPath(start, t) => HasPath(start, t)'
      /\ \A r : Served(r) => Served(r)'
  BY <1>1, <1>3, ServedStays
<1>5. /\ start \in Node /\ goals \in SUBSET Node /\ graph \in SUBSET (Node \X Node)
      /\ goals \subseteq sinks /\ \A t \in sinks \ goals : HasPath(start, t)
      /\ \A p \in paths : Route(p, graph, start) /\ Last(p) \in goals
  BY <1>1 DEF SearchInv, SearchTypes, IterInv
<1>6. ASSUME NEW t \in goals, t \notin rest PROVE HasPath(start, t)'
  <2>1. PICK p \in paths : Last(p) = t
    BY <1>6
  <2>2. Route(p, graph, start) /\ p[1] = start
    BY <1>5 DEF Route
  <2>3. t \in ReachableFrom({start}, graph)
    BY <1>5, <2>1, <2>2, RouteReaches
  <2>4. CASE strategy = "none"
    BY <1>1, <1>3, <2>1, <2>2, <2>4 DEF HasPath
  <2>5. CASE strategy # "none"
    <3>1. HasShortest(t)
      BY <1>1, <2>3, <2>5, NothingToFind
    <3> QED
      BY <1>1, <1>3, <3>1 DEF HasShortest, HasPath
  <2> QED
    BY <2>4, <2>5
<1>7. CASE Call(start, rest)
  <2>1. rest \in SUBSET Node
    BY <1>5
  <2>2. ExactInv'
    <3> HIDE DEF rest
    <3> QED
      BY <1>1, <1>5, <1>7, <2>1, ExactCall
  <2>3. pc' # "idle" /\ start' = start /\ goals' = rest
    BY <1>7 DEF Call
  <2>4. goals' \subseteq sinks' /\ \A t \in sinks' \ goals' : HasPath(start, t)'
    BY <1>1, <1>4, <1>5, <1>6, <2>3
  <2> HIDE DEF rest
  <2>5. IterInv'
    BY <1>1, <1>3, <1>4, <2>3, <2>4 DEF IterInv
  <2> QED
    BY <2>2, <2>5
<1>8. CASE pc' = "idle" /\ (paths = {} \/ rest = {})
  <2>1. ExactInv'
    BY <1>8 DEF ExactInv, ShortestInv, LeftInv, WalkInv
  <2>2. ASSUME NEW t \in sinks, t \in ReachableFrom({start}, graph) PROVE HasPath(start, t)'
    <3>1. CASE t \notin goals
      BY <1>4, <1>5, <3>1
    <3>2. CASE t \in goals
      <4>1. paths # {}
        BY <1>1, <2>2, <3>2, NothingToFind
      <4> QED
        BY <1>6, <1>8, <3>2, <4>1
    <3> QED
      BY <3>1, <3>2
  <2>3. ASSUME NEW r, r = start PROVE Served(r)'
    BY <1>1, <1>3, <2>2, <2>3 DEF Served, HasPath
  <2> HIDE DEF rest
  <2>4. IterInv'
    BY <1>1, <1>4, <1>8, <2>3 DEF IterInv
  <2> QED
    BY <2>1, <2>4
<1> QED
  BY <1>2, <1>7, <1>8

\* Every other step.
LEMMA IterInvRest ==
  ExportInv /\ ExactInv /\ IterInv /\ [ExportNext]_exportVars => ExactInv' /\ IterInv'
<1> SUFFICES ASSUME ExportInv, ExactInv, IterInv, [ExportNext]_exportVars PROVE ExactInv' /\ IterInv'
  OBVIOUS
<1>1. ASSUME pc' = "idle" PROVE ExactInv'
  BY <1>1 DEF ExactInv, ShortestInv, LeftInv, WalkInv
<1>2. CASE LoadTaintGraph
  <2>1. pc' = "idle" /\ ("path_result" \in resultTypes' => sources' = roots')
    BY <1>2 DEF LoadTaintGraph, ExportInv
  <2> QED
    BY <1>1, <2>1 DEF IterInv
<1>3. CASE FindPaths
  <2>1. CASE SearchStep /\ UNCHANGED <<sources, sinks, yielded>>
    <3>1. ExactInv'
      BY <2>1, ExactStep DEF ExportInv
    <3>2. /\ UNCHANGED <<graph, strategy, start, goals, sources, sinks, yielded, roots, resultTypes, phase>>
          /\ pc # "idle" /\ pc' # "idle"
      BY <1>3, <2>1 DEF FindPaths, infoVars, SearchStep, Perform, Visit, EndSearch, Walk, Return,
                        inputVars, callVars
    <3>3. /\ \A s, t : HasPath(s, t) => HasPath(s, t)'
          /\ \A s : Served(s) => Served(s)'
      BY <3>2, ServedStays
    <3> QED
      BY <3>1, <3>2, <3>3 DEF IterInv
  <2> QED
    BY <1>3, <2>1, IterInvNext, IterInvCollect DEF FindPaths, IterStep
<1>4. CASE EndSlice \/ FormatStep
  <2>1. phase' # "search" /\ UNCHANGED searchVars
    BY <1>4 DEF EndSlice, FormatStep, InfoStep, PopulateTaintset, LoadMetadata, FormatPath, FormatRest,
                PopulateMatches, LoadMatchLocations, FormatMatches, iterVars
  <2>2. pc' = "idle"
    <3>1. ExportInv'
      BY <1>4, ExportInvRest
    <3> QED
      BY <2>1, <3>1 DEF ExportInv
  <2> QED
    BY <1>1, <2>1, <2>2 DEF IterInv
<1>5. CASE UNCHANGED exportVars
  <2>1. /\ UNCHANGED searchVars
        /\ UNCHANGED <<graph, strategy, start, goals, sources, sinks, yielded, roots, resultTypes, phase, pc>>
    BY <1>5 DEF exportVars, iterVars, infoVars, searchVars, inputVars, callVars
  <2>2. ExactInv'
    BY <2>1, ExactStutter
  <2>3. /\ \A s, t : HasPath(s, t) => HasPath(s, t)'
        /\ \A s : Served(s) => Served(s)'
    BY <2>1, ServedStays
  <2> QED
    BY <2>1, <2>2, <2>3 DEF IterInv
<1> QED
  BY <1>2, <1>3, <1>4, <1>5 DEF ExportNext

\* The invariant of what the export finds.
LEMMA CompleteInvariant == ExportSpec => [](ExportInv /\ ExactInv /\ IterInv)
<1>1. ExportInit => ExactInv /\ IterInv
  <2>1. ExportInit => pc = "idle" /\ phase # "search"
    BY DEF ExportInit, InitSearch
  <2> QED
    BY <2>1 DEF IterInv, ExactInv, ShortestInv, LeftInv, WalkInv
<1> QED
  BY <1>1, IterInvRest, ExportInvariant, PTL DEF ExportSpec

----------------------------------------------------------------------------

\* When startpaths returns, every path to a goal that is not among its results uses
\* a second (second-to-last) vertex of one that is: the searches that were spawned
\* with more to avoid have closed every other way, for every graph, with every
\* strategy but "none" and wherever startpaths is called (startpaths).
THEOREM NothingIsLeft == ExportSpec => []NothingLeft
<1>1. ExportInv /\ ExactInv => NothingLeft
  BY LeftNothing DEF ExportInv, ExactInv
<1> QED
  BY <1>1, CompleteInvariant, PTL

\* Strategy "none" returns exactly the simple paths to the first goal on them, for
\* every graph (startpaths).
THEOREM EveryPathIsFound == ExportSpec => []AllPathsFound
<1>1. ExportInv /\ ExactInv => AllPathsFound
  BY ReturnsAllPaths DEF ExportInv
<1> QED
  BY <1>1, CompleteInvariant, PTL

\* Every sink that a source reaches is at the end of a path that iter_paths yields,
\* a shortest one unless the strategy is "none": neither the avoidance of vertices
\* nor stopping at the first goal loses a sink, for every graph, and a source that
\* has no more goals to be asked for has them all (iter_paths).
THEOREM SinksHavePaths == ExportSpec => []EverySinkHasPath
<1>1. IterInv => EverySinkHasPath
  <2> SUFFICES ASSUME IterInv, phase = "search", "path_result" \in resultTypes, IterDone
               PROVE  PathsComplete(roots)
    BY DEF EverySinkHasPath
  <2>1. \A r \in roots : Served(r)
    BY DEF IterInv, IterDone
  <2> QED
    BY <2>1 DEF PathsComplete, Served, HasPath
<1> QED
  BY <1>1, CompleteInvariant, PTL

----------------------------------------------------------------------------
(* Rows in some order.                                                     *)

\* s lists all elements of U, each of them once, and nothing else.
Lists(s, U) ==
  /\ s \in Seq(U)
  /\ \A x \in U : \E i \in DOMAIN s : s[i] = x
  /\ \A i, j \in DOMAIN s : s[i] = s[j] => i = j

\* Listed does that to a finite set.
LEMMA ListedAll ==
  ASSUME NEW S, IsFiniteSet(S)
  PROVE  Lists(Listed(S), S)
<1> DEFINE P == SUBSET S
           D == Seq(S)
           step == [q \in P \X D |-> IF q[1] = {} THEN <<>> ELSE Append(q[2], CHOOSE x \in q[1] : TRUE)]
           Fix(it) == it = [s \in SUBSET S |-> IF s = {} THEN <<>>
                                               ELSE LET x == CHOOSE x \in s : TRUE
                                                    IN  Append(it[s \ {x}], x)]
           l == CHOOSE it : Fix(it)
<1>1. Listed(S) = l[S]
  BY DEF Listed, FoldSet, MapThenFoldSet
<1>2. step \in [P \X D -> D]
  <2> SUFFICES ASSUME NEW U \in P, NEW s \in D, U # {} PROVE Append(s, CHOOSE x \in U : TRUE) \in D
    OBVIOUS
  <2>1. (CHOOSE x \in U : TRUE) \in S
    OBVIOUS
  <2> QED
    BY <2>1
<1>3. PICK f : Folds(f, S, D, <<>>, step)
  <2>1. <<>> \in D
    OBVIOUS
  <2> HIDE DEF D, step
  <2> QED
    BY <1>2, <2>1, SetRecursion
<1>4. Fix(f)
  <2>1. f \in [P -> D] /\ f[{}] = <<>>
    BY <1>3 DEF Folds
  <2>2. ASSUME NEW U \in P, U # {} PROVE f[U] = Append(f[LessOne(U)], CHOOSE x \in U : TRUE)
    <3>1. LessOne(U) \in P /\ f[U] = step[<<U, f[LessOne(U)]>>]
      BY <1>3, <2>2 DEF Folds, LessOne
    <3>2. <<U, f[LessOne(U)]>> \in P \X D
      BY <2>1, <3>1
    <3> QED
      BY <2>2, <3>1, <3>2
  <2> HIDE DEF D, step
  <2> QED
    BY <2>1, <2>2 DEF LessOne
<1>5. Fix(l)
  <2> HIDE DEF Fix
  <2> QED
    BY <1>4
<1> HIDE DEF l
<1>6. l[{}] = <<>> /\ \A U \in P : U # {} => l[U] = Append(l[LessOne(U)], CHOOSE x \in U : TRUE)
  <2> HIDE DEF step, D
  <2> QED
    BY <1>5 DEF LessOne
<1> DEFINE T == {U \in P : Lists(l[U], U)}
<1>7. {} \in T
  <2>1. <<>> \in Seq({}) /\ DOMAIN <<>> = {}
    OBVIOUS
  <2>2. Lists(<<>>, {})
    BY <2>1 DEF Lists
  <2> QED
    BY <1>6, <2>2
<1>8. ASSUME NEW U \in P, U # {} PROVE \E x \in U : U \ {x} \in T => U \in T
  <2> DEFINE x == CHOOSE x \in U : TRUE
  <2>1. x \in U
    BY <1>8
  <2>2. l[U] = Append(l[U \ {x}], x)
    BY <1>6, <1>8 DEF LessOne
  <2> HIDE DEF x
  <2>3. ASSUME U \ {x} \in T PROVE U \in T
    <3> DEFINE s == l[U \ {x}]
    <3>1. Lists(s, U \ {x})
      BY <2>3
    <3> HIDE DEF s
    <3>2. s \in Seq(U \ {x})
      BY <3>1 DEF Lists
    <3>3. s \in Seq(U) /\ \A i \in 1 .. Len(s) : s[i] \in U \ {x}
      BY <3>2
    <3>4. /\ Append(s, x) \in Seq(U) /\ DOMAIN Append(s, x) = 1 .. Len(s) + 1 /\ Len(s) \in Nat
          /\ DOMAIN s = 1 .. Len(s)
          /\ \A i \in 1 .. Len(s) : Append(s, x)[i] = s[i] /\ i \in 1 .. Len(s) + 1
          /\ Append(s, x)[Len(s) + 1] = x /\ Len(s) + 1 \in 1 .. Len(s) + 1
      BY <2>1, <3>3
    <3>5. \A y \in U : \E i \in DOMAIN Append(s, x) : Append(s, x)[i] = y
      BY <3>1, <3>4 DEF Lists
    <3>6. \A i, j \in DOMAIN s : s[i] = s[j] => i = j
      BY <3>1 DEF Lists
    <3>7. ASSUME NEW i \in DOMAIN Append(s, x), NEW j \in DOMAIN Append(s, x),
                 Append(s, x)[i] = Append(s, x)[j]
          PROVE  i = j
      <4>1. (i \in 1 .. Len(s) \/ i = Len(s) + 1) /\ (j \in 1 .. Len(s) \/ j = Len(s) + 1)
        BY <3>4
      <4> QED
        BY <3>3, <3>4, <3>6, <3>7, <4>1
    <3>8. Lists(Append(s, x), U)
      BY <3>4, <3>5, <3>7 DEF Lists
    <3> QED
      BY <2>2, <3>8 DEF s
  <2> QED
    BY <2>1, <2>3
<1> HIDE DEF T
<1>9. S \in T
  BY <1>7, <1>8, SetInduction
<1> QED
  BY <1>1, <1>9 DEF T
----------------------------------------------------------------------------
(* Types.                                                                  *)

Phase == {"load", "search", "populate", "metadata", "format",
          "match", "match-locations", "match-format", "done", "failed"}

TablesTyped(t) == t.var \subseteq DVar /\ t.insn \subseteq DInsn /\ t.func \subseteq DFunction

EdgeRecord == [direction : {"f", "b"}, src : Node, dst : Node, insn : DInsn]

\* A source that is asked for is no sink, so that paths have two ends.
YieldsFit ==
  /\ sources \subseteq roots /\ roots \cap sinks = {}
  /\ pc # "idle" => start \in roots /\ goals \subseteq sinks
  /\ \A p \in yielded : Len(p) > 1

\* Strengthens ExportTypeOK.
ExportTypes ==
  /\ phase \in Phase /\ dir \in {"f", "b"} /\ roots \subseteq Node
  /\ leaks \subseteq [dir : {"f", "b"}, nodes : Seq(Node)] /\ \A l \in leaks : Len(l.nodes) > 1
  /\ TablesTyped(tainted)
  /\ info.edges \subseteq EdgeRecord
  /\ pending \in Seq(leaks)
  /\ yielded \subseteq Seq(Node)
  /\ phase = "search" => YieldsFit

\* What the temporary tables and the metadata are made of.
LEMMA InfoTypes ==
  ASSUME db \in DatabaseType
  PROVE  TablesTyped(TablesOfPaths) /\ TablesTyped(TablesOfSlices) /\ EdgeInfo \subseteq EdgeRecord
<1>1. /\ db.vertex \subseteq VertexRow /\ db.edge \subseteq EdgeRow /\ db.source \subseteq TagRow
      /\ db.sink \subseteq TagRow /\ db.varIn \subseteq DVar \X DFunction
      /\ db.insnIn \subseteq DInsn \X DFunction
  BY DEF DatabaseType
<1>2. \A V, I : FunctionsOf(V, I) \subseteq DFunction
  BY <1>1 DEF FunctionsOf
<1>3. \A x \in db.vertex \cup db.source \cup db.sink : x.v \in DVar
  BY <1>1 DEF VertexRow, TagRow
<1>4. \A e \in db.edge : e.insn \in DInsn /\ e.to \in Node /\ e.from \in Node /\ e.direction \in {"f", "b"}
  BY <1>1, ExportAssumption DEF EdgeRow
<1>5. TablesTyped(TablesOfPaths)
  BY <1>2, <1>3, <1>4 DEF TablesTyped, TablesOfPaths
<1>6. TablesTyped(TablesOfSlices)
  BY <1>2, <1>3, <1>4 DEF TablesTyped, TablesOfSlices
<1>7. EdgeInfo \subseteq EdgeRecord
  <2> DEFINE row(src, dst, e) == [direction |-> e.direction, src |-> src, dst |-> dst, insn |-> e.insn]
  <2>1. \A e \in db.edge : row(e.from, e.to, e) \in EdgeRecord /\ row(e.to, e.from, e) \in EdgeRecord
    BY <1>4 DEF EdgeRecord
  <2>2. \A r \in EdgeInfo : \E e \in db.edge : r = row(e.from, e.to, e) \/ r = row(e.to, e.from, e)
    BY DEF EdgeInfo, ForwardEdge, BackwardEdge
  <2> HIDE DEF row
  <2> QED
    BY <2>1, <2>2
<1> QED
  BY <1>5, <1>6, <1>7

\* The steps of the search keep their types.
LEMMA ExportTypesFind == ExportInv /\ ExportTypes /\ FindPaths => ExportTypes'
<1> SUFFICES ASSUME ExportInv, ExportTypes, FindPaths PROVE ExportTypes'
  OBVIOUS
<1>1. /\ UNCHANGED <<db, resultTypes, leaks, tainted, info, pending, phase, dir, roots>>
      /\ phase = "search" /\ YieldsFit /\ SearchInv
  BY DEF FindPaths, infoVars, ExportTypes, ExportInv
<1>2. yielded' \subseteq Seq(Node) /\ YieldsFit'
  <2>1. CASE NextSource
    <3>1. PICK s \in sources : /\ sources' = sources \ {s} /\ UNCHANGED <<sinks, yielded>>
                               /\ Call(s, sinks) \/ UNCHANGED searchVars
      BY <2>1 DEF NextSource
    <3>2. CASE Call(s, sinks)
      BY <1>1, <3>1, <3>2 DEF Call, YieldsFit, ExportTypes
    <3>3. CASE UNCHANGED searchVars
      BY <1>1, <3>1, <3>3 DEF searchVars, callVars, YieldsFit, ExportTypes
    <3> QED
      BY <3>1, <3>2, <3>3
  <2>2. CASE Collect
    <3>1. /\ pc = "return" /\ yielded' = yielded \cup paths /\ UNCHANGED <<sources, sinks>>
          /\ start' = start /\ goals' \subseteq goals
      BY <2>2 DEF Collect, Call, callVars
    <3>2. ASSUME NEW p \in paths PROVE p \in Seq(Node) /\ Len(p) > 1
      <4>1. Route(p, graph, start) /\ Last(p) \in goals /\ start \in roots /\ goals \subseteq sinks
        BY <1>1, <3>1 DEF SearchInv, YieldsFit
      <4>2. p \in Seq(Node) /\ Len(p) > 0 /\ p[1] # p[Len(p)] /\ Len(p) \in Nat
        BY <1>1, <4>1 DEF Route, IsPath, Last, YieldsFit
      <4> QED
        BY <4>2
    <3> QED
      BY <1>1, <3>1, <3>2 DEF YieldsFit, ExportTypes
  <2>3. CASE SearchStep /\ UNCHANGED <<sources, sinks, yielded>>
    <3>1. UNCHANGED <<start, goals>> /\ pc # "idle"
      BY <2>3 DEF SearchStep, Perform, Visit, EndSearch, Walk, Return, callVars
    <3> QED
      BY <1>1, <2>3, <3>1 DEF YieldsFit, ExportTypes
  <2> QED
    BY <2>1, <2>2, <2>3 DEF FindPaths, IterStep
<1> QED
  BY <1>1, <1>2 DEF ExportTypes

\* So does the end of a slice.
LEMMA ExportTypesEnd == ExportInv /\ ExportTypes /\ EndSlice => ExportTypes'
<1> SUFFICES ASSUME ExportInv, ExportTypes, EndSlice PROVE ExportTypes'
  OBVIOUS
<1>1. /\ UNCHANGED <<db, resultTypes, tainted, info, pending, roots, yielded>>
      /\ phase = "search" /\ YieldsFit /\ phase' \in {"load", "populate"} /\ dir' \in {"f", "b"}
  BY DEF EndSlice, iterVars, ExportTypes
<1>2. leaks \subseteq leaks' /\ \A l \in leaks' : l \in leaks \/ \E p \in yielded : l = [dir |-> dir, nodes |-> p]
  BY DEF EndSlice
<1>3. \A l \in leaks' : l \in [dir : {"f", "b"}, nodes : Seq(Node)] /\ Len(l.nodes) > 1
  BY <1>1, <1>2 DEF ExportTypes, YieldsFit
<1>4. pending' \in Seq(leaks')
  <2>1. pending \in Seq(leaks)
    BY DEF ExportTypes
  <2> QED
    BY <1>1, <1>2, <2>1
<1> QED
  BY <1>1, <1>3, <1>4 DEF ExportTypes, Phase, TablesTyped

\* So do the steps that format.
LEMMA ExportTypesFormat == ExportInv /\ ExportTypes /\ FormatStep /\ IsFiniteSet(leaks) => ExportTypes'
<1> SUFFICES ASSUME ExportInv, ExportTypes, FormatStep, IsFiniteSet(leaks) PROVE ExportTypes'
  OBVIOUS
<1>1. UNCHANGED <<db, leaks, dir, roots, yielded>> /\ phase' \in Phase /\ phase' # "search" /\ db \in DatabaseType
  BY DEF FormatStep, InfoStep, PopulateTaintset, LoadMetadata, FormatPath, FormatRest, Phase,
         PopulateMatches, LoadMatchLocations, FormatMatches, iterVars, ExportTypes, ExportInv
<1>2. TablesTyped(tainted)'
  <2>1. CASE PopulateTaintset
    BY <1>1, <2>1, InfoTypes DEF PopulateTaintset, TablesTyped
  <2>2. CASE PopulateMatches
    <3> DEFINE of(kind) == {m.obj : m \in {m \in db.match : m.kind = kind}}
    <3>1. \A V, I : FunctionsOf(V, I) \subseteq DFunction
      BY <1>1 DEF FunctionsOf, DatabaseType
    <3>2. of("insn") \subseteq DInsn /\ of("var") \subseteq DVar /\ of("func") \subseteq DFunction
      BY <1>1 DEF DatabaseType
    <3>3. tainted' = [NoTables EXCEPT !.insn = of("insn"), !.var = of("var"),
                                      !.func = of("func") \cup FunctionsOf(of("var"), of("insn"))]
      BY <2>2 DEF PopulateMatches
    <3> HIDE DEF of
    <3> QED
      BY <3>1, <3>2, <3>3 DEF TablesTyped, NoTables
  <2>3. CASE UNCHANGED tainted
    BY <2>3 DEF ExportTypes, TablesTyped
  <2> QED
    BY <2>1, <2>2, <2>3 DEF FormatStep, InfoStep, LoadMetadata, FormatPath, FormatRest,
         LoadMatchLocations, FormatMatches
<1>3. info'.edges \subseteq EdgeRecord
  <2>1. CASE LoadMetadata
    BY <1>1, <2>1, InfoTypes DEF LoadMetadata
  <2>2. CASE LoadMatchLocations
    BY <2>2 DEF LoadMatchLocations, NoInfo
  <2>3. CASE UNCHANGED info
    BY <2>3 DEF ExportTypes
  <2> QED
    BY <2>1, <2>2, <2>3 DEF FormatStep, InfoStep, PopulateTaintset, FormatPath, FormatRest,
         PopulateMatches, FormatMatches
<1>4. pending' \in Seq(leaks')
  <2>1. CASE LoadMetadata
    <3>1. Listed(leaks) \in Seq(leaks) /\ <<>> \in Seq(leaks)
      BY ListedAll DEF Lists
    <3> QED
      BY <1>1, <2>1, <3>1 DEF LoadMetadata
  <2>2. CASE FormatPath
    <3>1. pending \in Seq(leaks) /\ pending # <<>> /\ (pending' = Tail(pending) \/ pending' = pending)
      BY <2>2 DEF FormatPath, ExportTypes
    <3> QED
      BY <1>1, <3>1
  <2>3. CASE UNCHANGED pending
    BY <1>1, <2>3 DEF ExportTypes
  <2> QED
    BY <2>1, <2>2, <2>3 DEF FormatStep, InfoStep, PopulateTaintset, FormatRest,
         PopulateMatches, LoadMatchLocations, FormatMatches
<1> QED
  BY <1>1, <1>2, <1>3, <1>4 DEF ExportTypes

\* Only finitely many paths are ever found.
FiniteInv == IsFiniteSet(found) /\ IsFiniteSet(paths) /\ IsFiniteSet(yielded) /\ IsFiniteSet(leaks)

\* The steps of an export keep them finite.
LEMMA FiniteInvStep == FiniteInv /\ [ExportNext]_exportVars => FiniteInv'
<1> SUFFICES ASSUME FiniteInv, [ExportNext]_exportVars PROVE FiniteInv'
  OBVIOUS
<1>1. \A A, B : IsFiniteSet(A) /\ IsFiniteSet(B) => IsFiniteSet(A \cup B)
  BY FS_Union
<1>2. \A A, x : IsFiniteSet(A) => IsFiniteSet(A \cup {x})
  BY FS_AddElement
<1>3. IsFiniteSet({})
  BY FS_EmptySet
<1>4. CASE EndSlice
  <2>1. /\ UNCHANGED <<found, paths, yielded>>
        /\ \E Y \in SUBSET yielded : leaks' = leaks \cup {[dir |-> dir, nodes |-> p] : p \in Y}
    BY <1>4 DEF EndSlice, iterVars, searchVars, bfsVars
  <2>2. PICK Y \in SUBSET yielded : leaks' = leaks \cup {[dir |-> dir, nodes |-> p] : p \in Y}
    BY <2>1
  <2> DEFINE more == {[dir |-> dir, nodes |-> p] : p \in Y}
             f == [p \in Y |-> [dir |-> dir, nodes |-> p]]
  <2>3. IsFiniteSet(Y)
    BY FS_Subset DEF FiniteInv
  <2>4. f \in Surjection(Y, more)
    BY DEF Surjection
  <2> HIDE DEF f, more
  <2>5. IsFiniteSet(more)
    BY <2>3, <2>4, FS_Surjection
  <2> QED
    BY <1>1, <2>1, <2>2, <2>5 DEF FiniteInv, more
<1>5. CASE FindPaths
  <2>1. leaks' = leaks
    BY <1>5 DEF FindPaths, infoVars
  <2>2. found' = found \/ found' = {} \/ \E x : found' = found \cup {x}
    BY <1>5 DEF FindPaths, IterStep, NextSource, Collect, Call, SearchStep, Perform, Visit, EndSearch,
                Walk, Return, searchVars, bfsVars
  <2>3. paths' = paths \/ paths' = {} \/ paths' = paths \cup found \/ \E x : paths' = paths \cup {x}
    BY <1>5 DEF FindPaths, IterStep, NextSource, Collect, Call, SearchStep, Perform, Visit, EndSearch,
                Walk, Return, searchVars
  <2>4. yielded' = yielded \/ yielded' = yielded \cup paths
    BY <1>5 DEF FindPaths, IterStep, NextSource, Collect
  <2>5. IsFiniteSet(found')
    BY <1>2, <1>3, <2>2 DEF FiniteInv
  <2>6. IsFiniteSet(paths')
    BY <1>1, <1>2, <1>3, <2>3 DEF FiniteInv
  <2>7. IsFiniteSet(yielded')
    BY <1>1, <2>4 DEF FiniteInv
  <2> QED
    BY <2>1, <2>5, <2>6, <2>7 DEF FiniteInv
<1>6. CASE LoadTaintGraph
  BY <1>3, <1>6 DEF LoadTaintGraph, FiniteInv, bfsVars
<1>7. CASE FormatStep
  BY <1>7 DEF FormatStep, InfoStep, PopulateTaintset, LoadMetadata, FormatPath, FormatRest,
              PopulateMatches, LoadMatchLocations, FormatMatches, iterVars, searchVars, bfsVars, FiniteInv
<1>8. CASE UNCHANGED exportVars
  BY <1>8 DEF exportVars, iterVars, infoVars, searchVars, bfsVars, FiniteInv
<1> QED
  BY <1>4, <1>5, <1>6, <1>7, <1>8 DEF ExportNext

----------------------------------------------------------------------------
(* Leaks are found in the slices and shown in the results.                 *)

\* From a source to a vertex of a sink's variable in slice d.
Leak(d, x, y) ==
  /\ x.direction = d /\ y.direction = d
  /\ \E s \in db.source : VertexOf(s) = VertexOf(x)
  /\ x.v \notin {t.v : t \in db.sink} /\ y.v \in {t.v : t \in db.sink}
  /\ y.id \in ReachableFrom({x.id}, SliceGraph(d))

LeakFor(i, j) == \E l \in leaks : l.nodes[1] = i /\ Last(l.nodes) = j

Covered(d) == \A x, y \in db.vertex : Leak(d, x, y) => LeakFor(x.id, y.id)

\* A slice whose search has ended is covered.
SliceInv ==
  /\ DatabaseOK(db)
  /\ phase = "search" => /\ graph = SliceGraph(dir)
                         /\ sinks = TaggedIds(db.sink, dir)
                         /\ roots = TaggedIds(db.source, dir) \ sinks
  /\ "path_result" \in resultTypes /\ dir = "b" =>
       Covered("f") /\ (phase \notin {"load", "search"} => Covered("b"))

\* The vertex with id i among the rows I, and that path l is among the results R.
At(I, i)       == VertexOf(CHOOSE x \in I : x.id = i)
Shown(I, R, l) == \E r \in R : r.rule = "C0001" /\ r.ends = <<At(I, l.nodes[1]), At(I, Last(l.nodes))>>

ShownNow(l) == Shown(info.vertex, output.results, l)

\* The metadata has the vertices of the paths, and a path is still to be formatted
\* or among the results.
ShownInv ==
  /\ phase \in {"match", "match-locations", "match-format"} => dir = "f"
  /\ "path_result" \in resultTypes /\ dir = "b" =>
       /\ phase \in {"metadata", "format", "done"} /\ UsePaths =>
            tainted.id = UNION {ToSet(l.nodes) : l \in leaks}
       /\ phase \in {"format", "done"} => info.vertex = VertexRows
       /\ phase = "format" => \A l \in leaks : ShownNow(l) \/ \E i \in DOMAIN pending : pending[i] = l
       /\ phase = "done" => \A l \in leaks : ShownNow(l)

\* What is covered stays covered.
LEMMA CoveredStays ==
  ASSUME UNCHANGED db, leaks \subseteq leaks', NEW d, Covered(d)
  PROVE  Covered(d)'
<1>1. SliceGraph(d)' = SliceGraph(d)
  BY DEF SliceGraph
<1>2. ASSUME NEW x, NEW y PROVE Leak(d, x, y)' => Leak(d, x, y)
  BY <1>1 DEF Leak
<1>3. \A i, j : LeakFor(i, j) => LeakFor(i, j)'
  BY DEF LeakFor
<1> QED
  BY <1>2, <1>3 DEF Covered

\* The search of a slice covers it.
LEMMA SliceCovered ==
  ASSUME ExportInv, IterInv, SliceInv, EndSlice, "path_result" \in resultTypes,
         NEW x \in db.vertex, NEW y \in db.vertex, Leak(dir, x, y)
  PROVE  LeakFor(x.id, y.id)'
<1>1. /\ phase = "search" /\ graph = SliceGraph(dir) /\ sinks = TaggedIds(db.sink, dir)
      /\ roots = TaggedIds(db.source, dir) \ sinks /\ DatabaseOK(db) /\ IterDone
  BY DEF EndSlice, SliceInv
<1>2. x.id \in TaggedIds(db.source, dir) /\ y.id \in sinks
  BY <1>1 DEF Leak, TaggedIds, VertexOf
<1>3. x.id \notin sinks
  BY <1>1 DEF Leak, TaggedIds, DatabaseOK
<1>4. Served(x.id)
  BY <1>1, <1>2, <1>3 DEF IterInv, IterDone
<1>5. PICK p \in yielded : p[1] = x.id /\ Last(p) = y.id
  BY <1>1, <1>2, <1>4 DEF Served, HasPath, Leak
<1> DEFINE ends == {<<l.nodes[1], Last(l.nodes)>> : l \in leaks}
<1>6. CASE dir = "f" \/ <<p[1], Last(p)>> \notin ends
  <2>1. [dir |-> dir, nodes |-> p] \in leaks'
    BY <1>5, <1>6 DEF EndSlice
  <2> QED
    BY <1>5, <2>1 DEF LeakFor
<1>7. CASE <<p[1], Last(p)>> \in ends
  <2>1. PICK l \in leaks : <<p[1], Last(p)>> = <<l.nodes[1], Last(l.nodes)>>
    BY <1>7
  <2>2. l \in leaks' /\ l.nodes[1] = x.id /\ Last(l.nodes) = y.id
    BY <1>5, <2>1 DEF EndSlice
  <2> QED
    BY <2>2 DEF LeakFor
<1> QED
  BY <1>6, <1>7

\* A step of the export loses no leak of a slice.
LEMMA SliceInvStep ==
  ExportInv /\ ExportTypes /\ IterInv /\ SliceInv /\ [ExportNext]_exportVars => SliceInv'
<1> SUFFICES ASSUME ExportInv, ExportTypes, IterInv, SliceInv, [ExportNext]_exportVars PROVE SliceInv'
  OBVIOUS
<1>1. UNCHANGED <<db, resultTypes>> /\ leaks \subseteq leaks'
  BY DEF ExportNext, LoadTaintGraph, FindPaths, EndSlice, FormatStep, InfoStep, PopulateTaintset,
         LoadMetadata, FormatPath, FormatRest, PopulateMatches, LoadMatchLocations, FormatMatches,
         infoVars, exportVars
<1>2. DatabaseOK(db)'
  BY <1>1 DEF SliceInv, DatabaseOK
<1>3. \A d : Covered(d) => Covered(d)'
  BY <1>1, CoveredStays
<1>4. CASE LoadTaintGraph
  BY <1>1, <1>2, <1>3, <1>4 DEF LoadTaintGraph, SliceInv, SliceGraph, TaggedIds
<1>5. CASE FindPaths
  <2>1. UNCHANGED <<phase, dir, roots, sinks, graph>>
    BY <1>5 DEF FindPaths, infoVars, IterStep, NextSource, Collect, Call, SearchStep, Perform, Visit,
                EndSearch, Walk, Return, searchVars, inputVars
  <2> QED
    BY <1>1, <1>2, <1>3, <2>1 DEF SliceInv, SliceGraph, TaggedIds
<1>6. CASE EndSlice
  <2>1. \/ dir = "f" /\ dir' = "b" /\ phase' = "load"
        \/ dir = "b" /\ dir' = "b" /\ phase' = "populate"
    BY <1>6 DEF EndSlice
  <2>2. ASSUME "path_result" \in resultTypes, NEW d, d = dir PROVE Covered(d)'
    <3>1. ASSUME NEW x \in db.vertex, NEW y \in db.vertex, Leak(d, x, y) PROVE LeakFor(x.id, y.id)'
      BY <1>6, <2>2, <3>1, SliceCovered
    <3>2. ASSUME NEW x, NEW y PROVE Leak(d, x, y)' => Leak(d, x, y)
      <4>1. SliceGraph(d)' = SliceGraph(d)
        BY <1>1 DEF SliceGraph
      <4> QED
        BY <1>1, <4>1 DEF Leak
    <3> QED
      BY <1>1, <3>1, <3>2 DEF Covered
  <2> QED
    BY <1>1, <1>2, <1>3, <2>1, <2>2 DEF SliceInv
<1>7. CASE FormatStep
  <2>1. /\ UNCHANGED dir /\ phase' # "search" /\ phase \notin {"load", "search"}
    BY <1>7 DEF FormatStep, InfoStep, PopulateTaintset, LoadMetadata, FormatPath, FormatRest,
         PopulateMatches, LoadMatchLocations, FormatMatches
  <2> QED
    BY <1>1, <1>2, <1>3, <2>1 DEF SliceInv
<1>8. CASE UNCHANGED exportVars
  <2>1. UNCHANGED <<phase, dir, roots, sinks, graph>>
    BY <1>8 DEF exportVars, infoVars, iterVars, searchVars, inputVars
  <2> QED
    BY <1>1, <1>2, <1>3, <2>1 DEF SliceInv, SliceGraph, TaggedIds
<1> QED
  BY <1>4, <1>5, <1>6, <1>7, <1>8 DEF ExportNext

\* A step of the export loses no leak on the way to the results.
LEMMA ShownInvStep ==
  ExportTypes /\ FiniteInv /\ ShownInv /\ [ExportNext]_exportVars => ShownInv'
<1> SUFFICES ASSUME ExportTypes, FiniteInv, ShownInv, [ExportNext]_exportVars PROVE ShownInv'
  OBVIOUS
<1>0. phase' \in {"match", "match-locations", "match-format"} => dir' = "f"
  BY DEF ExportNext, LoadTaintGraph, FindPaths, EndSlice, FormatStep, InfoStep, PopulateTaintset,
         LoadMetadata, FormatPath, FormatRest, PopulateMatches, LoadMatchLocations, FormatMatches,
         infoVars, exportVars, ShownInv
<1> SUFFICES ASSUME "path_result" \in resultTypes', dir' = "b" PROVE ShownInv'
  BY <1>0 DEF ShownInv
<1>1. UNCHANGED <<db, resultTypes>>
  BY DEF ExportNext, LoadTaintGraph, FindPaths, EndSlice, FormatStep, InfoStep, PopulateTaintset,
         LoadMetadata, FormatPath, FormatRest, PopulateMatches, LoadMatchLocations, FormatMatches,
         infoVars, exportVars
<1>2. CASE LoadTaintGraph \/ FindPaths \/ EndSlice
  <2>1. phase' \in {"search", "load", "populate"}
    BY <1>2 DEF LoadTaintGraph, FindPaths, infoVars, EndSlice
  <2> QED
    BY <2>1 DEF ShownInv
<1>3. ASSUME UNCHANGED <<leaks, tainted, info, phase, dir, output, pending>> PROVE ShownInv'
  BY <1>1, <1>3 DEF ShownInv, ShownNow, VertexRows, UsePaths
<1>4. CASE UNCHANGED exportVars
  BY <1>3, <1>4 DEF exportVars, infoVars
<1>5. CASE FormatStep
  <2>1. UNCHANGED <<leaks, dir>>
    BY <1>5 DEF FormatStep, InfoStep, PopulateTaintset, LoadMetadata, FormatPath, FormatRest,
         PopulateMatches, LoadMatchLocations, FormatMatches
  <2>2. CASE PopulateTaintset
    <3>1. phase' = "metadata" /\ (UsePaths => tainted'.id = UNION {ToSet(l.nodes) : l \in leaks})
      BY <2>2 DEF PopulateTaintset, TablesOfPaths
    <3> QED
      BY <1>1, <2>1, <3>1 DEF ShownInv, UsePaths
  <2>3. CASE LoadMetadata
    <3>1. /\ phase = "metadata" /\ phase' = "format" /\ UNCHANGED tainted
          /\ info'.vertex = VertexRows /\ pending' = Listed(leaks)
      BY <1>1, <2>3 DEF LoadMetadata
    <3>2. \A l \in leaks : \E i \in DOMAIN Listed(leaks) : Listed(leaks)[i] = l
      BY ListedAll DEF Lists, FiniteInv
    <3>3. VertexRows' = VertexRows
      BY <1>1, <3>1 DEF VertexRows, UsePaths
    <3> QED
      BY <1>1, <2>1, <3>1, <3>2, <3>3 DEF ShownInv, UsePaths
  <2>4. CASE FormatPath
    <3>1. /\ phase = "format" /\ pending # <<>> /\ UNCHANGED <<tainted, info>>
          /\ pending \in Seq(leaks) /\ dir = "b" /\ "path_result" \in resultTypes
      BY <1>1, <2>1, <2>4 DEF FormatPath, ExportTypes
    <3> DEFINE l == Head(pending)
    <3>2. CASE phase' = "failed"
      BY <3>2 DEF ShownInv
    <3>3. CASE \E flow \in CodeFlows(l) :
                 /\ output' = [output EXCEPT !.results = @ \cup
                      {[Result("C0001", {}, {LabelAt(l.nodes[1])}) EXCEPT
                          !.ends = <<VertexAt(l.nodes[1]), VertexAt(Last(l.nodes))>>,
                          !.flow = flow]}]
                 /\ pending' = Tail(pending)
                 /\ UNCHANGED phase
      <4> DEFINE I == info.vertex
                 ends == <<At(I, l.nodes[1]), At(I, Last(l.nodes))>>
      <4>1. ends = <<VertexAt(l.nodes[1]), VertexAt(Last(l.nodes))>>
        BY DEF At, VertexAt
      <4>2. PICK r : /\ output'.results = output.results \cup {r}
                     /\ r.rule = "C0001" /\ r.ends = ends
                     /\ pending' = Tail(pending) /\ phase' = phase
        <5>1. PICK flow \in CodeFlows(l) :
                 /\ output' = [output EXCEPT !.results = @ \cup
                      {[Result("C0001", {}, {LabelAt(l.nodes[1])}) EXCEPT !.ends = ends, !.flow = flow]}]
                 /\ pending' = Tail(pending)
                 /\ UNCHANGED phase
          BY <3>3, <4>1
        <5> DEFINE r == [Result("C0001", {}, {LabelAt(l.nodes[1])}) EXCEPT !.ends = ends, !.flow = flow]
        <5>2. r.rule = "C0001" /\ r.ends = ends
          BY DEF Result
        <5> HIDE DEF r
        <5>3. output'.results = output.results \cup {r}
          BY <5>1 DEF r
        <5> QED
          BY <5>1, <5>2, <5>3
      <4>3. Shown(I, output'.results, l)
        BY <4>2 DEF Shown
      <4>4. ASSUME NEW m \in leaks
            PROVE  Shown(I, output'.results, m) \/ \E i \in DOMAIN pending' : pending'[i] = m
        <5>1. CASE Shown(I, output.results, m)
          BY <4>2, <5>1 DEF Shown
        <5>2. CASE \E i \in DOMAIN pending : pending[i] = m
          <6>1. PICK i \in DOMAIN pending : pending[i] = m
            BY <5>2
          <6>2. CASE i = 1
            BY <4>3, <6>1, <6>2
          <6>3. CASE i # 1
            <7>1. i - 1 \in DOMAIN Tail(pending) /\ Tail(pending)[i - 1] = pending[i]
              BY <3>1, <6>1, <6>3
            <7> QED
              BY <4>2, <6>1, <7>1
          <6> QED
            BY <6>2, <6>3
        <5> QED
          BY <1>1, <2>1, <3>1, <5>1, <5>2 DEF ShownInv, ShownNow
      <4>5. info.vertex = VertexRows /\ (UsePaths => tainted.id = UNION {ToSet(k.nodes) : k \in leaks})
        BY <3>1 DEF ShownInv
      <4> HIDE DEF l, ends
      <4> QED
        BY <1>1, <2>1, <3>1, <4>2, <4>4, <4>5 DEF ShownInv, ShownNow, VertexRows, UsePaths
    <3> QED
      BY <2>4, <3>2, <3>3 DEF FormatPath
  <2>5. CASE FormatRest
    <3>1. /\ phase = "format" /\ pending = <<>> /\ UNCHANGED <<tainted, info>>
          /\ \/ phase' = "failed"
             \/ phase' = "done" /\ output.results \subseteq output'.results
      BY <2>5 DEF FormatRest
    <3>2. \A l \in leaks : ShownNow(l)
      BY <1>1, <2>1, <3>1 DEF ShownInv
    <3>3. phase' = "done" => \A l \in leaks : ShownNow(l)'
      BY <3>1, <3>2 DEF ShownNow, Shown
    <3> QED
      BY <1>1, <2>1, <3>1, <3>3 DEF ShownInv, VertexRows, UsePaths
  <2>6. CASE PopulateMatches \/ LoadMatchLocations \/ FormatMatches
    BY <1>0, <2>1, <2>6 DEF PopulateMatches, LoadMatchLocations, FormatMatches, ShownInv
  <2> QED
    BY <1>5, <2>2, <2>3, <2>4, <2>5, <2>6 DEF FormatStep, InfoStep
<1> QED
  BY <1>2, <1>4, <1>5 DEF ExportNext

\* The whole invariant of an export.
ReportInv == ExportTypes /\ FiniteInv /\ SliceInv /\ ShownInv

\* It holds before the first slice is loaded.
LEMMA ReportInvInit == ExportInit => ReportInv
<1> SUFFICES ASSUME ExportInit PROVE ReportInv
  OBVIOUS
<1>1. PICK e \in Exports :
        /\ db = e.db
        /\ phase = IF e.match THEN "match"
                   ELSE IF {"graphs", "path_result"} \cap e.types # {} THEN "load"
                   ELSE "populate"
  BY DEF ExportInit
<1>2. DatabaseOK(db) /\ phase \in Phase /\ phase # "search"
  BY <1>1, ExportAssumption DEF Phase
<1>3. /\ found = {} /\ paths = {} /\ yielded = {} /\ leaks = {} /\ roots = {}
      /\ dir = "f" /\ tainted = NoTables /\ info = NoInfo /\ pending = <<>>
  BY DEF ExportInit, InitSearch
<1>4. ExportTypes
  <2>1. TablesTyped(tainted) /\ info.edges \subseteq EdgeRecord /\ pending \in Seq(leaks)
    BY <1>3 DEF TablesTyped, NoTables, NoInfo
  <2> QED
    BY <1>2, <1>3, <2>1 DEF ExportTypes
<1>5. FiniteInv
  BY <1>3, FS_EmptySet DEF FiniteInv
<1>6. SliceInv /\ ShownInv
  BY <1>2, <1>3 DEF SliceInv, ShownInv
<1> QED
  BY <1>4, <1>5, <1>6 DEF ReportInv

\* The steps of an export keep it.
LEMMA ReportInvStep ==
  ExportInv /\ IterInv /\ ReportInv /\ [ExportNext]_exportVars => ReportInv'
<1> SUFFICES ASSUME ExportInv, IterInv, ReportInv, [ExportNext]_exportVars PROVE ReportInv'
  OBVIOUS
<1>1. ExportTypes'
  <2>1. CASE LoadTaintGraph
    <3>1. /\ UNCHANGED <<leaks, tainted, info, pending, dir, pc>> /\ pc = "idle"
          /\ phase' = "search" /\ yielded' = {} /\ sources' \subseteq roots'
          /\ roots' = TaggedIds(db.source, dir) \ sinks'
      BY <2>1 DEF LoadTaintGraph, ExportInv
    <3>2. roots' \subseteq Node
      BY <3>1, SliceTypes DEF ExportInv
    <3> QED
      BY <3>1, <3>2 DEF ReportInv, ExportTypes, YieldsFit, Phase, TablesTyped
  <2>2. CASE UNCHANGED exportVars
    BY <2>2 DEF exportVars, iterVars, infoVars, searchVars, callVars, ReportInv, ExportTypes, YieldsFit, TablesTyped
  <2> QED
    BY <2>1, <2>2, ExportTypesFind, ExportTypesEnd, ExportTypesFormat DEF ExportNext, ReportInv, FiniteInv
<1> QED
  BY <1>1, FiniteInvStep, SliceInvStep, ShownInvStep DEF ReportInv

\* The invariant of what the export reports.
LEMMA ReportInvariant == ExportSpec => [](ExportInv /\ ReportInv)
BY ReportInvInit, ReportInvStep, CompleteInvariant, PTL DEF ExportSpec

----------------------------------------------------------------------------

\* Every variable has its type at every step of an export; a path that is reported
\* has two ends, since a source that is a sink is not searched from
\* (_load_taint_graph).
THEOREM ExportTypesOK == ExportSpec => []ExportTypeOK
<1>1. ExportInv /\ ReportInv => ExportTypeOK
  <2> SUFFICES ASSUME ExportInv, ReportInv PROVE ExportTypeOK
    OBVIOUS
  <2>1. SearchInv /\ SearchTypes /\ ExportTypes /\ sources \subseteq Node /\ sinks \subseteq Node
    BY DEF ExportInv, SearchInv, ReportInv
  <2>2. found \subseteq Seq(Node) /\ paths \subseteq Seq(Node)
    BY <2>1 DEF SearchInv, BfsInv, Route
  <2>3. SearchTypeOK
    BY <2>1, <2>2 DEF SearchTypes, SearchTypeOK
  <2> QED
    BY <2>1, <2>3 DEF ExportTypeOK, IterTypeOK, ExportTypes, TablesTyped, EdgeRecord, Phase
<1> QED
  BY <1>1, ReportInvariant, PTL

\* When paths were asked for and the export returns, every leak of a slice is among
\* the results with its ends, for every database whose ids are unique: neither the
\* search, nor the filter between the slices, nor the tables that the metadata is
\* restricted to lose one (iter_paths, format_run_info).
THEOREM EveryLeakReported == ExportSpec => []LeaksReported
<1>1. ExportInv /\ ReportInv => LeaksReported
  <2> SUFFICES ASSUME ExportInv, ReportInv, phase = "done", "path_result" \in resultTypes, dir = "b",
                      NEW x \in db.vertex, NEW y \in db.vertex,
                      x.direction = y.direction,
                      \E s \in db.source : VertexOf(s) = VertexOf(x),
                      x.v \notin {t.v : t \in db.sink}, y.v \in {t.v : t \in db.sink},
                      y.id \in ReachableFrom({x.id}, SliceGraph(x.direction))
               PROVE  \E r \in output.results :
                        r.rule = "C0001" /\ r.ends = <<VertexOf(x), VertexOf(y)>>
    BY DEF LeaksReported
  <2>1. x.direction \in {"f", "b"} /\ DatabaseOK(db)
    BY DEF ExportInv, DatabaseType, VertexRow, ReportInv, SliceInv
  <2>2. Covered("f") /\ Covered("b")
    BY DEF ReportInv, SliceInv
  <2>3. PICK l \in leaks : l.nodes[1] = x.id /\ Last(l.nodes) = y.id
    BY <2>1, <2>2 DEF Covered, Leak, LeakFor
  <2>4. /\ Shown(info.vertex, output.results, l) /\ info.vertex = VertexRows
        /\ UsePaths => tainted.id = UNION {ToSet(k.nodes) : k \in leaks}
    BY DEF ReportInv, ShownInv, ShownNow
  <2>5. x.id \in ToSet(l.nodes) /\ y.id \in ToSet(l.nodes)
    <3>1. l.nodes \in Seq(Node) /\ Len(l.nodes) > 1
      BY DEF ReportInv, ExportTypes
    <3> QED
      BY <2>3, <3>1 DEF ToSet, Last
  <2>6. x \in info.vertex /\ y \in info.vertex /\ info.vertex \subseteq db.vertex
    BY <2>4, <2>5 DEF VertexRows
  <2>7. \A z \in info.vertex : At(info.vertex, z.id) = VertexOf(z)
    <3> SUFFICES ASSUME NEW z \in info.vertex PROVE At(info.vertex, z.id) = VertexOf(z)
      OBVIOUS
    <3>1. (CHOOSE u \in info.vertex : u.id = z.id) = z
      BY <2>1, <2>6 DEF DatabaseOK
    <3> QED
      BY <3>1 DEF At
  <2> QED
    BY <2>3, <2>4, <2>6, <2>7 DEF Shown
<1> QED
  BY <1>1, ReportInvariant, PTL

----------------------------------------------------------------------------
(* The code flows follow the execution.                                    *)

\* A code flow of a path has a step for each of its edges, at one of the edge's
\* instructions.
LEMMA FlowSteps ==
  ASSUME NEW l, Len(l.nodes) \in Nat \ {0}, NEW f \in CodeFlows(l)
  PROVE  /\ f \in Seq(UNION {{f[k]} : k \in DOMAIN f}) /\ DOMAIN f = 1 .. Len(l.nodes) - 1
         /\ Len(f) = Len(l.nodes) - 1
         /\ \A k \in 1 .. Len(l.nodes) - 1 :
              \E insn \in InsnsAt(l, k) : /\ f[k].at = LocationOf(insn)
                                          /\ f[k].from = VertexAt(l.nodes[k])
                                          /\ f[k].to = VertexAt(l.nodes[k + 1])
<1> DEFINE n == Len(l.nodes) - 1
           func(v) == {r[2] : r \in {r \in db.varIn : r[1] = v}}
           step(i, insn) ==
             LET from == VertexAt(l.nodes[i])
                 to   == VertexAt(l.nodes[i + 1])
             IN  [at |-> LocationOf(insn), from |-> from, to |-> to,
                  kind |-> IF func(from.v) = func(to.v) THEN "intraprocedural" ELSE "interprocedural"]
           More(k, F) == {Append(g, step(k, insn)) : g \in F, insn \in InsnsAt(l, k)}
           S == UNION {{step(k, insn) : insn \in InsnsAt(l, k)} : k \in Nat}
           D == SUBSET Seq(S)
           next == [q \in Nat \X D |-> More(q[1], q[2])]
           Fix(flows) == flows = [k \in 0 .. n |-> IF k = 0 THEN {<<>>} ELSE More(k, flows[k - 1])]
           w == CHOOSE flows : Fix(flows)
<1>1. n \in Nat
  OBVIOUS
<1>2. f \in w[n]
  BY DEF CodeFlows
<1> HIDE DEF n
<1>3. \A k \in Nat, F \in D : More(k, F) \in D
  <2> HIDE DEF step
  <2>1. \A k \in Nat : \A insn \in InsnsAt(l, k) : step(k, insn) \in S
    OBVIOUS
  <2> HIDE DEF S
  <2> QED
    BY <2>1
<1>4. {<<>>} \in D
  <2> HIDE DEF S, step
  <2> QED
    OBVIOUS
<1> HIDE DEF More
<1>5. PICK h : Iterates(h, n, D, {<<>>}, next)
  <2>1. next \in [Nat \X D -> D]
    <3> HIDE DEF D
    <3> QED
      BY <1>3
  <2>2. StepOn(next, D)
    BY <2>1 DEF StepOn
  <2> HIDE DEF next, D
  <2> QED
    BY <1>1, <1>4, <2>2, Iteration
<1>6. Fix(h)
  <2>1. \A k \in 1 .. n : h[k] = More(k, h[k - 1])
    <3> TAKE k \in 1 .. n
    <3>1. k - 1 \in 0 .. n /\ k \in Nat
      BY <1>1
    <3> HIDE DEF D
    <3> QED
      BY <1>5, <3>1 DEF Iterates
  <2>2. h[0] = {<<>>} /\ h = [k \in 0 .. n |-> h[k]]
    BY <1>5 DEF Iterates
  <2> HIDE DEF D, next, step, S, Fix, w, func
  <2>3. \A k \in 0 .. n : k = 0 \/ k \in 1 .. n
    BY <1>1
  <2>4. \A k \in 0 .. n : h[k] = IF k = 0 THEN {<<>>} ELSE More(k, h[k - 1])
    BY <1>1, <2>1, <2>2, <2>3
  <2>5. h = [k \in 0 .. n |-> IF k = 0 THEN {<<>>} ELSE More(k, h[k - 1])]
    BY <2>2, <2>4
  <2> QED
    BY <2>5 DEF Fix
<1>7. Fix(w)
  <2> HIDE DEF Fix
  <2> QED
    BY <1>6
<1> HIDE DEF w, step
<1>8. w = [k \in 0 .. n |-> IF k = 0 THEN {<<>>} ELSE More(k, w[k - 1])]
  BY <1>7
<1> HIDE DEF Fix, next
<1>9. w[0] = {<<>>}
  <2>1. 0 \in 0 .. n
    BY <1>1
  <2> HIDE DEF D, S
  <2> QED
    BY <1>8, <2>1
<1>10. ASSUME NEW k \in 1 .. n PROVE w[k] = More(k, w[k - 1])
  <2>1. k \in 0 .. n /\ k # 0
    BY <1>1
  <2> HIDE DEF D, S
  <2> QED
    BY <1>8, <2>1
<1> DEFINE Good(g, k) == /\ g \in Seq(S) /\ Len(g) = k
                         /\ \A i \in 1 .. k : \E insn \in InsnsAt(l, i) : g[i] = step(i, insn)
           T == {k \in 0 .. n : \A g \in w[k] : Good(g, k)}
<1>11. 0 \in T
  <2>1. 0 \in 0 .. n
    BY <1>1
  <2> HIDE DEF S, D, step
  <2>2. \A g \in w[0] : g = <<>>
    BY <1>9
  <2>3. <<>> \in Seq(S) /\ Len(<<>>) = 0 /\ 1 .. 0 = {}
    OBVIOUS
  <2> QED
    BY <2>1, <2>2, <2>3
<1>12. ASSUME NEW k \in 0 .. n - 1, k \in T PROVE k + 1 \in T
  <2>1. k + 1 \in 1 .. n /\ (k + 1) - 1 = k /\ k + 1 \in 0 .. n /\ k \in Nat /\ k + 1 \in Nat
    BY <1>1
  <2>2. ASSUME NEW x \in w[k + 1] PROVE Good(x, k + 1)
    <3>1. w[k + 1] = More(k + 1, w[k])
      BY <1>10, <2>1
    <3>2. PICK g \in w[k], insn \in InsnsAt(l, k + 1) : x = Append(g, step(k + 1, insn))
      BY <2>2, <3>1 DEF More
    <3>3. Good(g, k)
      BY <1>12
    <3>4. step(k + 1, insn) \in S
      BY <2>1
    <3> DEFINE s == step(k + 1, insn)
    <3> HIDE DEF s, S
    <3>5. /\ x \in Seq(S) /\ Len(x) = k + 1 /\ \A i \in 1 .. k : x[i] = g[i]
          /\ x[k + 1] = s
      BY <2>1, <3>2, <3>3, <3>4 DEF s
    <3>6. \A i \in 1 .. k + 1 : i \in 1 .. k \/ i = k + 1
      BY <2>1
    <3> QED
      BY <3>3, <3>5, <3>6 DEF s
  <2> HIDE DEF Good
  <2> QED
    BY <2>1, <2>2
<1> HIDE DEF Good
<1>13. Good(f, n)
  <2> HIDE DEF T
  <2>1. \A k \in 0 .. n : k \in T
    BY <1>1, <1>11, <1>12, BoundedInduction
  <2>2. n \in T
    BY <1>1, <2>1
  <2> QED
    BY <1>2, <2>2 DEF T
<1>14. Len(f) = n /\ DOMAIN f = 1 .. n /\ f \in Seq(UNION {{f[k]} : k \in DOMAIN f})
  <2>1. f \in Seq(S) /\ Len(f) = n
    BY <1>13 DEF Good
  <2> HIDE DEF S
  <2>2. f \in [1 .. n -> UNION {{f[k]} : k \in DOMAIN f}] /\ DOMAIN f = 1 .. n
    BY <2>1
  <2> QED
    BY <1>1, <2>1, <2>2
<1>15. \A k \in 1 .. n : \E insn \in InsnsAt(l, k) : /\ f[k].at = LocationOf(insn)
                                                     /\ f[k].from = VertexAt(l.nodes[k])
                                                     /\ f[k].to = VertexAt(l.nodes[k + 1])
  <2> TAKE k \in 1 .. n
  <2>1. PICK insn \in InsnsAt(l, k) : f[k] = step(k, insn)
    BY <1>13 DEF Good
  <2> QED
    BY <2>1 DEF step
<1> QED
  BY <1>14, <1>15 DEF n

\* A step of a code flow that moves taint along an edge of slices D, and a path's
\* result whose code flow follows the execution.
Moves(D, s) ==
  \E e \in NaturalEdge(D), x, y \in D.vertex :
    /\ e.insn = s.at.obj /\ e.from = x.id /\ e.to = y.id
    /\ s.from = VertexOf(x) /\ s.to = VertexOf(y)

Follows(D, r) ==
  /\ r.flow # <<>>
  /\ r.flow[1].from = r.ends[1] /\ Last(r.flow).to = r.ends[2]
  /\ \A i \in 1 .. Len(r.flow) - 1 : r.flow[i].to = r.flow[i + 1].from
  /\ \A i \in DOMAIN r.flow : Moves(D, r.flow[i])

\* What is loaded for the paths: all rows of their vertices and edges.
MetaInv ==
  /\ phase \in {"metadata", "format"} /\ UsePaths => tainted.id = UNION {ToSet(l.nodes) : l \in leaks}
  /\ phase = "format" => info.vertex = VertexRows /\ info.edges = EdgeInfo

FlowInv == MetaInv /\ \A r \in output.results : r.rule = "C0001" => Follows(db, r)

\* Each instruction of an edge of a path moves taint from the edge's source to its
\* target.
LEMMA EdgesMove ==
  ASSUME db \in DatabaseType, ExportTypes, MetaInv, DatabaseOK(db), phase = "format",
         NEW l \in leaks, NEW k \in 1 .. Len(l.nodes) - 1, NEW insn \in InsnsAt(l, k)
  PROVE  \E e \in NaturalEdge(db), x, y \in db.vertex :
           /\ e.insn = insn /\ e.from = x.id /\ e.to = y.id
           /\ VertexAt(l.nodes[k]) = VertexOf(x) /\ VertexAt(l.nodes[k + 1]) = VertexOf(y)
<1>1. PICK r \in info.edges : r.insn = insn /\ r.src = l.nodes[k] /\ r.dst = l.nodes[k + 1]
  BY DEF InsnsAt
<1>2. r \in EdgeInfo
  BY DEF MetaInv
<1> DEFINE Flipped(e) == FlipRow(e).to = e.from /\ FlipRow(e).from = e.to /\ FlipRow(e).insn = e.insn
<1>0. \A e \in db.edge : Flipped(e)
  BY DEF DatabaseType, EdgeRow, FlipRow
<1>3. PICK e \in NaturalEdge(db) : e.insn = insn /\ e.from = r.src /\ e.to = r.dst
  <2> DEFINE row(src, dst, e) == [direction |-> e.direction, src |-> src, dst |-> dst, insn |-> e.insn]
  <2>1. \/ \E e \in ForwardEdge(db) : r = row(e.from, e.to, e)
        \/ \E e \in BackwardEdge(db) : r = row(e.to, e.from, e)
    BY <1>2 DEF EdgeInfo
  <2>2. CASE \E e \in ForwardEdge(db) : r = row(e.from, e.to, e)
    BY <1>1, <2>2 DEF NaturalEdge
  <2>3. CASE \E e \in BackwardEdge(db) : r = row(e.to, e.from, e)
    <3>1. PICK e2 \in BackwardEdge(db) : r = row(e2.to, e2.from, e2)
      BY <2>3
    <3>2. e2 \in db.edge /\ FlipRow(e2) \in NaturalEdge(db)
      BY <3>1 DEF BackwardEdge, NaturalEdge
    <3> QED
      BY <1>0, <1>1, <3>1, <3>2
  <2> QED
    BY <2>1, <2>2, <2>3
<1>4. PICK e2 \in db.edge : e.from \in {e2.to, e2.from} /\ e.to \in {e2.to, e2.from}
  <2>1. CASE e \in ForwardEdge(db)
    BY <2>1 DEF ForwardEdge
  <2>2. CASE \E e2 \in db.edge : e = FlipRow(e2)
    BY <1>0, <2>2
  <2> QED
    BY <2>1, <2>2 DEF NaturalEdge, BackwardEdge
<1>5. PICK x \in db.vertex, y \in db.vertex : x.id = e.from /\ y.id = e.to
  BY <1>4 DEF DatabaseOK
<1>6. ASSUME NEW z \in db.vertex, z.id \in ToSet(l.nodes) PROVE VertexAt(z.id) = VertexOf(z)
  <2>1. info.vertex = VertexRows /\ (UsePaths => tainted.id = UNION {ToSet(m.nodes) : m \in leaks})
    BY DEF MetaInv
  <2>2. z \in info.vertex /\ info.vertex \subseteq db.vertex
    BY <1>6, <2>1 DEF VertexRows
  <2>3. (CHOOSE u \in info.vertex : u.id = z.id) = z
    BY <2>2 DEF DatabaseOK
  <2> QED
    BY <2>3 DEF VertexAt
<1>7. l.nodes[k] \in ToSet(l.nodes) /\ l.nodes[k + 1] \in ToSet(l.nodes)
  <2>1. l.nodes \in Seq(Node)
    BY DEF ExportTypes
  <2> QED
    BY <2>1 DEF ToSet
<1> QED
  BY <1>1, <1>3, <1>5, <1>6, <1>7

\* A code flow that is shown follows the execution.
LEMMA FlowFollows ==
  ASSUME db \in DatabaseType, ExportTypes, MetaInv, DatabaseOK(db), phase = "format", NEW l \in leaks,
         NEW flow \in CodeFlows(l),
         NEW r, r.flow = flow, r.ends = <<VertexAt(l.nodes[1]), VertexAt(Last(l.nodes))>>
  PROVE  Follows(db, r)
<1> DEFINE n == Len(l.nodes) - 1
<1>1. l.nodes \in Seq(Node) /\ Len(l.nodes) > 1
  BY DEF ExportTypes
<1>2. /\ DOMAIN flow = 1 .. n /\ Len(flow) = n /\ n \in Nat \ {0} /\ Len(l.nodes) \in Nat \ {0}
      /\ \A k \in 1 .. n : \E insn \in InsnsAt(l, k) : /\ flow[k].at = LocationOf(insn)
                                                       /\ flow[k].from = VertexAt(l.nodes[k])
                                                       /\ flow[k].to = VertexAt(l.nodes[k + 1])
  <2>1. n \in Nat \ {0} /\ Len(l.nodes) \in Nat \ {0}
    <3> DEFINE s == l.nodes
    <3> HIDE DEF s
    <3>1. s \in Seq(Node)
      BY <1>1 DEF s
    <3>2. Len(s) \in Nat /\ Len(s) > 1
      BY <1>1, <3>1 DEF s
    <3>3. \A m \in Nat : m > 1 => m - 1 \in Nat \ {0} /\ m \in Nat \ {0}
      OBVIOUS
    <3>4. Len(s) - 1 \in Nat \ {0} /\ Len(s) \in Nat \ {0}
      BY <3>2, <3>3, Zenon
    <3> QED
      BY <3>4 DEF s
  <2> QED
    BY <2>1, FlowSteps
<1>3. ASSUME NEW k \in 1 .. n PROVE Moves(db, flow[k])
  <2>1. PICK insn \in InsnsAt(l, k) : /\ flow[k].at = LocationOf(insn)
                                      /\ flow[k].from = VertexAt(l.nodes[k])
                                      /\ flow[k].to = VertexAt(l.nodes[k + 1])
    BY <1>2
  <2>2. flow[k].at.obj = insn
    BY <2>1 DEF LocationOf
  <2> QED
    BY <2>1, <2>2, EdgesMove DEF Moves
<1>4. Last(l.nodes) = l.nodes[n + 1]
  BY <1>1 DEF Last
<1> HIDE DEF n
<1>5. flow # <<>> /\ Last(flow) = flow[n]
  BY <1>2 DEF Last
<1>6. flow[1].from = r.ends[1] /\ flow[n].to = r.ends[2]
  BY <1>2, <1>4
<1>7. \A i \in 1 .. n - 1 : flow[i].to = flow[i + 1].from
  <2> TAKE i \in 1 .. n - 1
  <2>1. i \in 1 .. n /\ i + 1 \in 1 .. n
    BY <1>2
  <2> QED
    BY <1>2, <2>1
<1> QED
  BY <1>2, <1>3, <1>5, <1>6, <1>7 DEF Follows

\* The steps of an export keep what is loaded for the paths.
LEMMA MetaInvStep == MetaInv /\ [ExportNext]_exportVars => MetaInv'
<1> SUFFICES ASSUME MetaInv, [ExportNext]_exportVars PROVE MetaInv'
  OBVIOUS
<1>1. CASE PopulateTaintset
  BY <1>1 DEF PopulateTaintset, TablesOfPaths, MetaInv, UsePaths
<1>2. CASE LoadMetadata
  <2>1. VertexRows' = VertexRows /\ EdgeInfo' = EdgeInfo /\ UsePaths' = UsePaths
    BY <1>2 DEF LoadMetadata, VertexRows, EdgeInfo, UsePaths
  <2> QED
    BY <1>2, <2>1 DEF LoadMetadata, MetaInv
<1>3. CASE UNCHANGED <<db, resultTypes, leaks, tainted, info, phase>>
  <2>1. VertexRows' = VertexRows /\ EdgeInfo' = EdgeInfo /\ UsePaths' = UsePaths
    BY <1>3 DEF VertexRows, EdgeInfo, UsePaths
  <2> QED
    BY <1>3, <2>1 DEF MetaInv
<1>4. CASE phase' \notin {"metadata", "format"}
  BY <1>4 DEF MetaInv
<1> QED
  BY <1>1, <1>2, <1>3, <1>4
  DEF ExportNext, LoadTaintGraph, FindPaths, EndSlice, FormatStep, InfoStep, FormatPath, FormatRest,
      PopulateMatches, LoadMatchLocations, FormatMatches, infoVars, exportVars

\* Only FormatPath adds results of paths.
LEMMA FlowInvStep ==
  ExportInv /\ ReportInv /\ FlowInv /\ [ExportNext]_exportVars => FlowInv'
<1> SUFFICES ASSUME ExportInv, ReportInv, FlowInv, [ExportNext]_exportVars PROVE FlowInv'
  OBVIOUS
<1>1. MetaInv' /\ UNCHANGED db
  BY MetaInvStep
  DEF FlowInv, ExportNext, LoadTaintGraph, FindPaths, EndSlice, FormatStep, InfoStep, PopulateTaintset,
      LoadMetadata, FormatPath, FormatRest, PopulateMatches, LoadMatchLocations, FormatMatches,
      infoVars, exportVars
<1>2. ASSUME NEW More, output'.results \subseteq output.results \cup More,
             \A r \in More : r.rule = "C0001" => Follows(db, r)
      PROVE  FlowInv'
  BY <1>1, <1>2 DEF FlowInv
<1>3. CASE FormatPath
  <2> DEFINE l == Head(pending)
             R(flow) == [Result("C0001", {}, {LabelAt(l.nodes[1])}) EXCEPT
                           !.ends = <<VertexAt(l.nodes[1]), VertexAt(Last(l.nodes))>>, !.flow = flow]
  <2>1. phase = "format" /\ l \in leaks /\ DatabaseOK(db) /\ db \in DatabaseType /\ ExportTypes
    <3>1. pending # <<>> /\ pending \in Seq(leaks)
      BY <1>3 DEF FormatPath, ReportInv, ExportTypes
    <3>2. l \in leaks
      BY <3>1
    <3> HIDE DEF l
    <3> QED
      BY <1>3, <3>2 DEF FormatPath, ReportInv, ExportInv, SliceInv
  <2>2. \/ output' = NoOutput
        \/ \E flow \in CodeFlows(l) : output' = [output EXCEPT !.results = @ \cup {R(flow)}]
    <3>1. CASE output' = NoOutput
      BY <3>1
    <3>2. CASE \E flow \in CodeFlows(l) :
                 /\ output' = [output EXCEPT !.results = @ \cup
                      {[Result("C0001", {}, {LabelAt(l.nodes[1])}) EXCEPT
                          !.ends = <<VertexAt(l.nodes[1]), VertexAt(Last(l.nodes))>>,
                          !.flow = flow]}]
                 /\ pending' = Tail(pending)
                 /\ UNCHANGED phase
      BY <3>2
    <3> HIDE DEF R
    <3> QED
      BY <1>3, <3>1, <3>2 DEF FormatPath
  <2>3. CASE output' = NoOutput
    BY <1>1, <2>3 DEF NoOutput, FlowInv
  <2>4. ASSUME NEW flow \in CodeFlows(l), output' = [output EXCEPT !.results = @ \cup {R(flow)}]
        PROVE  FlowInv'
    <3>1. R(flow).flow = flow /\ R(flow).ends = <<VertexAt(l.nodes[1]), VertexAt(Last(l.nodes))>>
      BY DEF Result
    <3> HIDE DEF l, R
    <3>2. Follows(db, R(flow))
      BY <2>1, <3>1, FlowFollows DEF FlowInv
    <3>3. output'.results \subseteq output.results \cup {R(flow)}
      BY <2>4
    <3> QED
      <4> DEFINE More == {R(flow)}
      <4>1. output'.results \subseteq output.results \cup More /\ \A r \in More : r.rule = "C0001" => Follows(db, r)
        BY <3>2, <3>3
      <4> HIDE DEF More
      <4> QED
        BY <1>2, <4>1
  <2> QED
    BY <2>2, <2>3, <2>4
<1>4. CASE FormatRest
  <2>1. \A r \in OtherResults : r.rule # "C0001"
    BY DEF OtherResults, Result
  <2>2. output'.results \subseteq output.results \cup OtherResults
    BY <1>4 DEF FormatRest, NoOutput
  <2> QED
    BY <1>2, <2>1, <2>2
<1>5. CASE FormatMatches
  <2> DEFINE rule == [insn |-> "M0001", var |-> "M0002", func |-> "M0003"]
             rows == {Result(rule[m.kind], {m.obj}, {m.label}) : m \in db.match}
  <2>1. \A m \in db.match : m.kind \in {"insn", "var", "func"}
    BY DEF ExportInv, DatabaseType
  <2>2. \A r \in rows : r.rule # "C0001"
    BY <2>1 DEF Result
  <2>3. output'.results = rows
    BY <1>5 DEF FormatMatches, NoOutput
  <2> HIDE DEF rows
  <2> QED
    BY <1>2, <2>2, <2>3
<1>6. CASE UNCHANGED output
  <2> DEFINE More == {}
  <2>1. output'.results \subseteq output.results \cup More /\ \A r \in More : r.rule = "C0001" => Follows(db, r)
    BY <1>6
  <2> HIDE DEF More
  <2> QED
    BY <1>2, <2>1
<1> QED
  BY <1>3, <1>4, <1>5, <1>6
  DEF ExportNext, LoadTaintGraph, FindPaths, EndSlice, FormatStep, InfoStep, PopulateTaintset,
      LoadMetadata, PopulateMatches, LoadMatchLocations, infoVars, exportVars

\* The steps of a code flow follow on each other from the path's start to its end,
\* and the instruction a step points at moves taint along an edge of the slices in
\* execution order, for every path of either slice ("all edges are in natural
\* (execution) order", vis/model.py).
THEOREM FlowsAreExecutions == ExportSpec => []FlowsFollowExecution
<1>1. ExportInit => FlowInv
  <2> SUFFICES ASSUME ExportInit PROVE FlowInv
    OBVIOUS
  <2>1. phase \notin {"metadata", "format"} /\ output = NoOutput
    BY DEF ExportInit
  <2> QED
    BY <2>1 DEF FlowInv, MetaInv, NoOutput
<1>2. FlowInv => FlowsFollowExecution
  BY DEF FlowInv, Follows, Moves, FlowsFollowExecution
<1> QED
  BY <1>1, <1>2, FlowInvStep, ReportInvariant, PTL DEF ExportSpec

----------------------------------------------------------------------------
(* What is shown has its locations.                                        *)

\* What the tables are filled with for these result types.
Tables == IF UsePaths THEN TablesOfPaths ELSE TablesOfSlices

MatchesOf(kind) == {m.obj : m \in {m \in db.match : m.kind = kind}}

MatchTables ==
  [NoTables EXCEPT !.insn = MatchesOf("insn"), !.var = MatchesOf("var"),
                   !.func = MatchesOf("func") \cup FunctionsOf(MatchesOf("var"), MatchesOf("insn"))]

\* The tables have the functions around their variables and instructions.
Around(t) == FunctionsOf(t.var, t.insn) \subseteq t.func

\* What has a logical location.
Locatable == tainted.func \cup tainted.var \cup LocatedInsns

Pointed(r) == r.at \cup {r.flow[i].at : i \in DOMAIN r.flow}

\* A result points at locations of what has one.
Points(r) == \A a \in Pointed(r) : \E o \in Locatable : a = LocationOf(o)

LocationInv ==
  /\ db \in DatabaseType /\ Located(db)
  /\ TablesTyped(tainted)
  /\ phase = "metadata" => tainted = Tables
  /\ phase = "match-locations" => tainted = MatchTables
  /\ phase = "format" => tainted = Tables /\ info.edges = EdgeInfo
  /\ phase = "match-format" => tainted = MatchTables
  /\ phase \in {"format", "match-format", "done"} =>
       Around(tainted) /\ info.physical = PhysicalLocations /\ info.logical = LogicalLocations
  /\ phase \notin {"format", "done"} => output.results = {}
  /\ \A r \in output.results : Points(r)

\* All tables have the functions around what is in them, and their types.
LEMMA TablesAround ==
  ASSUME db \in DatabaseType
  PROVE  Around(Tables) /\ Around(MatchTables) /\ TablesTyped(Tables) /\ TablesTyped(MatchTables)
<1>1. Around(Tables) /\ TablesTyped(Tables)
  BY InfoTypes DEF Around, Tables, TablesOfPaths, TablesOfSlices
<1>2. /\ MatchTables.insn = MatchesOf("insn") /\ MatchTables.var = MatchesOf("var")
      /\ MatchTables.func = MatchesOf("func") \cup FunctionsOf(MatchesOf("var"), MatchesOf("insn"))
  BY DEF MatchTables, NoTables
<1>3. /\ \A m \in db.match : /\ m.kind = "insn" => m.obj \in DInsn
                             /\ m.kind = "var" => m.obj \in DVar
                             /\ m.kind = "func" => m.obj \in DFunction
      /\ db.varIn \subseteq DVar \X DFunction /\ db.insnIn \subseteq DInsn \X DFunction
  BY DEF DatabaseType
<1>4. MatchesOf("insn") \subseteq DInsn /\ MatchesOf("var") \subseteq DVar /\ MatchesOf("func") \subseteq DFunction
  BY <1>3 DEF MatchesOf
<1>5. \A V, I : FunctionsOf(V, I) \subseteq DFunction
  BY <1>3 DEF FunctionsOf
<1> QED
  BY <1>1, <1>2, <1>4, <1>5 DEF Around, TablesTyped

\* An instruction of the tables is in a function when an edge or a match has it.
LEMMA InsnsLocated ==
  ASSUME db \in DatabaseType, Located(db), tainted = Tables \/ tainted = MatchTables
  PROVE  LocatedInsns = tainted.insn
<1>1. \A o \in tainted.insn : (\E e \in db.edge : e.insn = o) \/ (\E m \in db.match : m.kind = "insn" /\ m.obj = o)
  <2>1. CASE tainted = Tables
    BY <2>1 DEF Tables, TablesOfPaths, TablesOfSlices
  <2>2. CASE tainted = MatchTables
    BY <2>2 DEF MatchTables, NoTables, MatchesOf
  <2> QED
    BY <2>1, <2>2
<1>2. \A o \in tainted.insn : \E f \in DFunction : <<o, f>> \in db.insnIn
  BY <1>1 DEF Located
<1>3. \A o \in tainted.insn : \E r \in db.insnIn : r[1] = o
  BY <1>2
<1> QED
  BY <1>3 DEF LocatedInsns

\* The list of three finite sets without common elements.
LEMMA ListsJoin ==
  ASSUME NEW A, NEW B, NEW C, NEW a, NEW b, NEW c, Lists(a, A), Lists(b, B), Lists(c, C),
         A \cap B = {}, (A \cup B) \cap C = {}
  PROVE  Lists(a \o b \o c, A \cup B \cup C)
<1>1. ASSUME NEW S, NEW T, NEW s, NEW t, Lists(s, S), Lists(t, T), S \cap T = {}
      PROVE  Lists(s \o t, S \cup T)
  <2> DEFINE n == Len(s)
             m == Len(t)
             st == s \o t
  <2>1. s \in Seq(S) /\ t \in Seq(T) /\ n \in Nat /\ m \in Nat
    BY <1>1 DEF Lists
  <2>2. DOMAIN s = 1 .. n /\ DOMAIN t = 1 .. m /\ DOMAIN st = 1 .. n + m
    BY <2>1
  <2>3. /\ \A i \in 1 .. n : st[i] = s[i] /\ s[i] \in S
        /\ \A i \in 1 .. m : st[n + i] = t[i] /\ t[i] \in T
    BY <2>1
  <2>4. st \in Seq(S \cup T)
    <3>1. s \in Seq(S \cup T) /\ t \in Seq(S \cup T)
      BY <2>1
    <3> QED
      BY <3>1
  <2>5. \A i \in 1 .. n + m : i \in 1 .. n \/ \E j \in 1 .. m : i = n + j
    <3> SUFFICES ASSUME NEW i \in 1 .. n + m, i \notin 1 .. n PROVE i - n \in 1 .. m /\ i = n + (i - n)
      OBVIOUS
    <3> QED
      BY <2>1
  <2>6. /\ \A i \in 1 .. n : i \in 1 .. n + m
        /\ \A j \in 1 .. m : n + j \in 1 .. n + m
    BY <2>1
  <2>7. /\ \A x \in S : \E i \in 1 .. n : s[i] = x
        /\ \A x \in T : \E i \in 1 .. m : t[i] = x
        /\ \A i, j \in 1 .. n : s[i] = s[j] => i = j
        /\ \A i, j \in 1 .. m : t[i] = t[j] => i = j
    BY <1>1, <2>2 DEF Lists
  <2> HIDE DEF st, n, m
  <2>8. \A x \in S \cup T : \E i \in DOMAIN st : st[i] = x
    BY <2>2, <2>3, <2>6, <2>7
  <2>9. \A i, j \in DOMAIN st : st[i] = st[j] => i = j
    BY <1>1, <2>2, <2>3, <2>5, <2>7
  <2> QED
    BY <2>4, <2>8, <2>9 DEF Lists, st
<1>2. Lists(a \o b, A \cup B)
  BY <1>1
<1> QED
  BY <1>1, <1>2

\* Everything in the tables has one entry in the array of logical locations, whose
\* parent is the entry of its function, if it has one.
LEMMA LogicalEntries ==
  ASSUME TablesTyped(tainted), Around(tainted), db \in DatabaseType
  PROVE  LET L == LogicalLocations
         IN  /\ \A o \in Locatable : \E i \in DOMAIN L : L[i].obj = o
             /\ \A i, j \in DOMAIN L : L[i].obj = L[j].obj => i = j
             /\ \A i \in DOMAIN L :
                  LET inside == {q[2] : q \in {q \in db.varIn \cup db.insnIn : q[1] = L[i].obj}}
                  IN  IF L[i].parent = 0 THEN inside = {}
                      ELSE L[i].parent \in DOMAIN L /\ L[L[i].parent].obj \in inside
<1> DEFINE objs == Listed(tainted.func) \o Listed(tainted.var) \o Listed(LocatedInsns)
           around(obj) == {r[2] : r \in {r \in db.varIn \cup db.insnIn : r[1] = obj}}
           index(obj) == CHOOSE i \in DOMAIN objs : objs[i] = obj
           L == LogicalLocations
<1>1. LocatedInsns \subseteq tainted.insn
  BY DEF LocatedInsns
<1>2. Lists(objs, Locatable)
  <2>1. /\ IsFiniteSet(tainted.func) /\ IsFiniteSet(tainted.var) /\ IsFiniteSet(LocatedInsns)
        /\ tainted.func \cap tainted.var = {} /\ (tainted.func \cup tainted.var) \cap LocatedInsns = {}
    BY <1>1, LocatedAssumption, FS_Subset DEF TablesTyped
  <2>2. /\ Lists(Listed(tainted.func), tainted.func) /\ Lists(Listed(tainted.var), tainted.var)
        /\ Lists(Listed(LocatedInsns), LocatedInsns)
    BY <2>1, ListedAll
  <2> QED
    BY <2>1, <2>2, ListsJoin DEF Locatable
<1>3. /\ DOMAIN L = DOMAIN objs
      /\ \A i \in DOMAIN objs :
           /\ L[i].obj = objs[i]
           /\ L[i].parent = IF around(objs[i]) = {} THEN 0
                            ELSE index(CHOOSE f \in around(objs[i]) : TRUE)
  BY DEF LogicalLocations
<1>4. objs \in Seq(Locatable) /\ DOMAIN objs = 1 .. Len(objs) /\ Len(objs) \in Nat
  BY <1>2 DEF Lists
<1> HIDE DEF objs, L
<1>5. \A i \in DOMAIN objs : objs[i] \in Locatable
  BY <1>4
<1>6. \A o \in Locatable : index(o) \in DOMAIN objs /\ objs[index(o)] = o
  BY <1>2 DEF Lists
<1>7. \A o \in Locatable : around(o) \subseteq Locatable
  <2> SUFFICES ASSUME NEW o \in Locatable, NEW r \in db.varIn \cup db.insnIn, r[1] = o
               PROVE  r[2] \in tainted.func
    BY DEF Locatable
  <2>1. CASE r \in db.varIn
    <3>1. o \in DVar
      BY <2>1 DEF DatabaseType
    <3>2. o \in tainted.var
      BY <1>1, <3>1, LocatedAssumption DEF Locatable, TablesTyped
    <3> QED
      BY <2>1, <3>2 DEF FunctionsOf, Around
  <2>2. CASE r \in db.insnIn
    <3>1. o \in DInsn
      BY <2>2 DEF DatabaseType
    <3>2. o \in tainted.insn
      BY <1>1, <3>1, LocatedAssumption DEF Locatable, TablesTyped
    <3> QED
      BY <2>2, <3>2 DEF FunctionsOf, Around
  <2> QED
    BY <2>1, <2>2
<1>8. ASSUME NEW i \in DOMAIN L
      PROVE  IF L[i].parent = 0 THEN around(L[i].obj) = {}
             ELSE L[i].parent \in DOMAIN L /\ L[L[i].parent].obj \in around(L[i].obj)
  <2>1. i \in DOMAIN objs /\ L[i].obj = objs[i] /\ objs[i] \in Locatable
    BY <1>3, <1>5
  <2>2. CASE around(objs[i]) = {}
    BY <1>3, <2>1, <2>2
  <2>3. CASE around(objs[i]) # {}
    <3> DEFINE f == CHOOSE f \in around(objs[i]) : TRUE
    <3>1. f \in around(objs[i]) /\ f \in Locatable
      BY <1>7, <2>1, <2>3
    <3>2. L[i].parent = index(f)
      BY <1>3, <2>1, <2>3
    <3> HIDE DEF f
    <3>3. index(f) \in DOMAIN objs /\ objs[index(f)] = f /\ index(f) # 0
      BY <1>4, <1>6, <3>1
    <3>4. L[i].parent \in DOMAIN L /\ L[L[i].parent].obj = f /\ L[i].parent # 0
      BY <1>3, <3>2, <3>3
    <3> QED
      BY <2>1, <3>1, <3>4
  <2> QED
    BY <2>2, <2>3
<1>9. \A o \in Locatable : \E i \in DOMAIN L : L[i].obj = o
  BY <1>3, <1>6
<1>10. \A i, j \in DOMAIN L : L[i].obj = L[j].obj => i = j
  BY <1>2, <1>3 DEF Lists
<1> QED
  BY <1>8, <1>9, <1>10 DEF L

\* What a result points at does not move while it stays loaded.
LEMMA PointsStay ==
  ASSUME UNCHANGED <<db, tainted, info>>, NEW r, Points(r)
  PROVE  Points(r)'
<1>1. Locatable' = Locatable /\ \A o : LocationOf(o)' = LocationOf(o)
  BY DEF Locatable, LocatedInsns, LocationOf, SelectInSeq
<1> QED
  BY <1>1 DEF Points, Pointed

\* A result other than a path's.
LEMMA ResultPoints ==
  ASSUME NEW rule, NEW at \in SUBSET Locatable, NEW labels
  PROVE  Points(Result(rule, at, labels))
  BY DEF Points, Pointed, Result

\* The instructions of a code flow are those of edges, which are in the tables.
LEMMA FlowPoints ==
  ASSUME LocationInv, phase = "format", NEW l \in leaks, l.nodes \in Seq(Node), Len(l.nodes) > 1,
         NEW flow \in CodeFlows(l), NEW r, r.flow = flow, r.at = {}
  PROVE  Points(r)
<1>1. LocatedInsns = tainted.insn /\ tainted = Tables
  BY InsnsLocated DEF LocationInv
<1>2. \A e \in info.edges : e.insn \in tainted.insn
  <2> SUFFICES ASSUME NEW i \in EdgeInfo PROVE i.insn \in tainted.insn
    BY DEF LocationInv
  <2>1. PICK e \in db.edge : /\ i.insn = e.insn
                             /\ UsePaths => [direction |-> e.direction, from |-> e.from, to |-> e.to] \in tainted.edge
    BY DEF EdgeInfo, ForwardEdge, BackwardEdge
  <2>2. CASE UsePaths
    <3>1. tainted.edge = PathEdges
      BY <1>1, <2>2 DEF Tables, TablesOfPaths
    <3>2. \E q \in PathEdges : q.from = e.from /\ q.to = e.to
      BY <2>1, <2>2, <3>1
    <3> QED
      BY <1>1, <2>1, <2>2, <3>2 DEF Tables, TablesOfPaths
  <2>3. CASE ~UsePaths
    BY <1>1, <2>1, <2>3 DEF Tables, TablesOfSlices
  <2> QED
    BY <2>2, <2>3
<1>3. ASSUME NEW k \in DOMAIN flow PROVE \E o \in Locatable : flow[k].at = LocationOf(o)
  <2>1. Len(l.nodes) \in Nat \ {0}
    <3> DEFINE s == l.nodes
    <3> HIDE DEF s
    <3>1. s \in Seq(Node) /\ Len(s) > 1
      BY DEF s
    <3>2. Len(s) \in Nat \ {0}
      BY <3>1
    <3> QED
      BY <3>2 DEF s
  <2>2. k \in 1 .. Len(l.nodes) - 1
    BY <1>3, <2>1, FlowSteps, Zenon
  <2>4. \E insn \in InsnsAt(l, k) : flow[k].at = LocationOf(insn)
    <3>1. \A j \in 1 .. Len(l.nodes) - 1 : \E insn \in InsnsAt(l, j) :
            /\ flow[j].at = LocationOf(insn)
            /\ flow[j].from = VertexAt(l.nodes[j])
            /\ flow[j].to = VertexAt(l.nodes[j + 1])
      BY <2>1, FlowSteps
    <3> QED
      BY <2>2, <3>1, Zenon
  <2>3. \A insn \in InsnsAt(l, k) : insn \in tainted.insn
    BY <1>2 DEF InsnsAt
  <2> QED
    BY <1>1, <2>3, <2>4 DEF Locatable
<1> QED
  BY <1>3 DEF Points, Pointed

\* The results other than paths are asked for with the slices' tables.
LEMMA OthersPoint ==
  ASSUME LocationInv, phase = "format", NEW r \in OtherResults
  PROVE  Points(r)
<1>1. LocatedInsns = tainted.insn /\ tainted = Tables
  BY InsnsLocated DEF LocationInv
<1> DEFINE type == {"source_result", "sink_result", "vertex_result", "instruction_result",
                    "source_sink_function_result"}
<1>2. \E t \in type : t \in resultTypes
  BY DEF OtherResults
<1>3. tainted = TablesOfSlices
  BY <1>1, <1>2 DEF Tables, UsePaths
<1>4. \A x \in db.vertex \cup db.source \cup db.sink : x.v \in Locatable
  BY <1>3 DEF TablesOfSlices, Locatable
<1>5. \A e \in db.edge : e.insn \in Locatable
  BY <1>1, <1>3 DEF TablesOfSlices, Locatable
<1>6. \A e \in db.edge : FlipRow(e).insn = e.insn
  BY DEF LocationInv, DatabaseType, EdgeRow, FlipRow
<1>7. \A e \in NaturalEdge(db) : e.insn \in Locatable
  BY <1>5, <1>6 DEF NaturalEdge, ForwardEdge, BackwardEdge
<1>8. \A q \in FunctionPairs : {q[1], q[2]} \subseteq Locatable
  <2> DEFINE within(f, E) == {e \in E : <<e.insn, f>> \in db.insnIn}
             pairs(f) == {<<e.insn, b.insn>> : e \in within(f, ForwardEdge(db)), b \in within(f, BackwardEdge(db))}
  <2>1. ASSUME NEW f, NEW q \in pairs(f) PROVE {q[1], q[2]} \subseteq Locatable
    <3> DEFINE F == within(f, ForwardEdge(db))
               B == within(f, BackwardEdge(db))
    <3>2. F \subseteq db.edge /\ B \subseteq db.edge
      BY DEF ForwardEdge, BackwardEdge
    <3> HIDE DEF within, type
    <3>1. q \in {<<e.insn, b.insn>> : e \in F, b \in B}
      BY <2>1
    <3> HIDE DEF F, B
    <3>3. PICK e \in F, b \in B : q = <<e.insn, b.insn>>
      BY <3>1
    <3>4. q[1] = e.insn /\ q[2] = b.insn
      BY <3>3
    <3> QED
      BY <1>5, <3>2, <3>4
  <2>2. FunctionPairs = {CHOOSE q \in pairs(f) : TRUE : f \in {f \in DFunction : pairs(f) # {}}}
    BY DEF FunctionPairs
  <2> HIDE DEF pairs
  <2> QED
    BY <2>1, <2>2
<1>9. \E rule, at, labels : at \in SUBSET Locatable /\ r = Result(rule, at, labels)
  <2>1. \/ \E x \in db.vertex \cup db.source \cup db.sink : \E rule, labels : r = Result(rule, {x.v}, labels)
        \/ \E e \in NaturalEdge(db) : \E rule, labels : r = Result(rule, {e.insn}, labels)
        \/ \E q \in FunctionPairs : \E rule, labels : r = Result(rule, {q[1], q[2]}, labels)
    <3> HIDE DEF type
    <3> QED
      BY DEF OtherResults
  <2> QED
    BY <1>4, <1>7, <1>8, <2>1
<1> QED
  BY <1>9, ResultPoints

\* The results of a match query are about the rows its tables are filled from.
LEMMA MatchesPoint ==
  ASSUME LocationInv, phase = "match-format", NEW m \in db.match, NEW rule
  PROVE  Points(Result(rule, {m.obj}, {m.label}))
<1>1. LocatedInsns = tainted.insn /\ tainted = MatchTables
  BY InsnsLocated DEF LocationInv
<1>2. m.kind \in {"insn", "var", "func"}
  BY DEF LocationInv, DatabaseType
<1>3. m.obj \in Locatable
  BY <1>1, <1>2 DEF MatchTables, NoTables, MatchesOf, Locatable
<1> QED
  BY <1>3, ResultPoints

\* The steps of an export keep all this.
LEMMA LocationInvStep ==
  ExportTypes /\ LocationInv /\ [ExportNext]_exportVars => LocationInv'
<1> SUFFICES ASSUME ExportTypes, LocationInv, [ExportNext]_exportVars PROVE LocationInv'
  OBVIOUS
<1>1. CASE LoadTaintGraph \/ FindPaths \/ EndSlice
  <2>1. /\ UNCHANGED <<db, tainted, output>> /\ output.results = {}
        /\ phase' \in {"load", "search", "populate"}
    BY <1>1 DEF LoadTaintGraph, FindPaths, EndSlice, infoVars, LocationInv
  <2> QED
    BY <2>1 DEF LocationInv
<1>2. CASE PopulateTaintset
  <2>1. tainted' = Tables /\ Tables' = Tables
    BY <1>2 DEF PopulateTaintset, Tables, UsePaths, TablesOfPaths, TablesOfSlices, PathEdges, FunctionsOf
  <2>2. phase' = "metadata" /\ UNCHANGED <<db, output>> /\ output.results = {}
    BY <1>2 DEF PopulateTaintset, LocationInv
  <2> QED
    BY <2>1, <2>2, TablesAround DEF LocationInv
<1>3. CASE LoadMetadata
  <2>1. /\ phase' = "format" /\ UNCHANGED <<db, tainted, output>> /\ output.results = {}
        /\ tainted = Tables /\ Tables' = Tables /\ Around(tainted)' /\ Located(db)'
    BY <1>3, TablesAround
    DEF LoadMetadata, LocationInv, Tables, UsePaths, TablesOfPaths, TablesOfSlices, PathEdges, FunctionsOf, Around
  <2>2. EdgeInfo' = EdgeInfo
    BY <1>3 DEF LoadMetadata, EdgeInfo, UsePaths
  <2>3. PhysicalLocations' = PhysicalLocations
    BY <2>1 DEF PhysicalLocations
  <2>4. LogicalLocations' = LogicalLocations
    BY <2>1 DEF LogicalLocations, LocatedInsns
  <2>5. info'.edges = EdgeInfo /\ info'.physical = PhysicalLocations /\ info'.logical = LogicalLocations
    BY <1>3 DEF LoadMetadata
  <2> QED
    BY <2>1, <2>2, <2>3, <2>4, <2>5 DEF LocationInv
<1>4. CASE PopulateMatches
  <2>1. tainted' = MatchTables /\ MatchTables' = MatchTables
    BY <1>4 DEF PopulateMatches, MatchTables, MatchesOf, FunctionsOf
  <2>2. phase' = "match-locations" /\ UNCHANGED <<db, output>> /\ output.results = {}
    BY <1>4 DEF PopulateMatches, LocationInv
  <2> QED
    BY <2>1, <2>2, TablesAround DEF LocationInv
<1>5. CASE LoadMatchLocations
  <2>1. /\ phase' = "match-format" /\ UNCHANGED <<db, tainted, output>> /\ output.results = {}
        /\ tainted = MatchTables /\ MatchTables' = MatchTables /\ Around(tainted)' /\ Located(db)'
    BY <1>5, TablesAround
    DEF LoadMatchLocations, LocationInv, MatchTables, MatchesOf, FunctionsOf, Around
  <2>2. PhysicalLocations' = PhysicalLocations
    BY <2>1 DEF PhysicalLocations
  <2>3. LogicalLocations' = LogicalLocations
    BY <2>1 DEF LogicalLocations, LocatedInsns
  <2>4. info'.physical = PhysicalLocations /\ info'.logical = LogicalLocations
    BY <1>5 DEF LoadMatchLocations, NoInfo
  <2> QED
    BY <2>1, <2>2, <2>3, <2>4 DEF LocationInv
<1>6. CASE FormatPath \/ FormatRest \/ FormatMatches \/ UNCHANGED exportVars
  <2>1. /\ UNCHANGED <<db, resultTypes, leaks, tainted, info>>
        /\ \/ UNCHANGED phase
           \/ phase = "format" /\ phase' \in {"done", "failed"}
           \/ phase = "match-format" /\ phase' = "done"
    BY <1>6 DEF FormatPath, FormatRest, FormatMatches, exportVars, infoVars
  <2>2. /\ Tables' = Tables /\ MatchTables' = MatchTables /\ Around(tainted)' = Around(tainted)
        /\ EdgeInfo' = EdgeInfo /\ PhysicalLocations' = PhysicalLocations
        /\ LogicalLocations' = LogicalLocations
    BY <2>1 DEF Tables, UsePaths, TablesOfPaths, TablesOfSlices, PathEdges, FunctionsOf, MatchTables,
                MatchesOf, Around, EdgeInfo, PhysicalLocations, LogicalLocations, LocatedInsns
  <2>3. phase' \notin {"format", "done"} => output'.results = {}
    <3>1. CASE FormatPath
      <4>1. phase = "format" /\ (UNCHANGED phase \/ output' = NoOutput)
        BY <3>1, Zenon DEF FormatPath
      <4> QED
        BY <4>1 DEF NoOutput
    <3>2. CASE FormatRest
      BY <3>2 DEF FormatRest, NoOutput
    <3>3. CASE FormatMatches
      BY <3>3 DEF FormatMatches
    <3>4. CASE UNCHANGED exportVars
      BY <3>4 DEF exportVars, infoVars, LocationInv
    <3> QED
      BY <1>6, <3>1, <3>2, <3>3, <3>4
  <2>4. \A r \in output'.results : Points(r)
    <3>1. CASE FormatPath
      <4> DEFINE l == Head(pending)
                 R(flow) == [Result("C0001", {}, {LabelAt(l.nodes[1])}) EXCEPT
                               !.ends = <<VertexAt(l.nodes[1]), VertexAt(Last(l.nodes))>>, !.flow = flow]
      <4>1. phase = "format" /\ l \in leaks
        <5>1. phase = "format" /\ pending # <<>> /\ pending \in Seq(leaks)
          BY <3>1 DEF FormatPath, ExportTypes
        <5> QED
          BY <5>1
      <4>5. \/ output' = NoOutput
            \/ \E flow \in CodeFlows(l) : output' = [output EXCEPT !.results = @ \cup {R(flow)}]
        BY <3>1, Zenon DEF FormatPath
      <4> HIDE DEF l
      <4>2. l.nodes \in Seq(Node) /\ Len(l.nodes) > 1
        BY <4>1 DEF ExportTypes
      <4>3. \A flow : R(flow).flow = flow /\ R(flow).at = {}
        BY DEF Result
      <4> HIDE DEF R
      <4>4. \A flow \in CodeFlows(l) : Points(R(flow))
        BY <4>1, <4>2, <4>3, FlowPoints
      <4>6. CASE \E flow \in CodeFlows(l) : output' = [output EXCEPT !.results = @ \cup {R(flow)}]
        <5>1. PICK flow \in CodeFlows(l) : output' = [output EXCEPT !.results = @ \cup {R(flow)}]
          BY <4>6
        <5>2. output'.results \subseteq output.results \cup {R(flow)}
          BY <5>1
        <5> QED
          BY <4>4, <5>2 DEF LocationInv
      <4> QED
        BY <4>5, <4>6 DEF NoOutput
    <3>2. CASE FormatRest
      <4>1. output'.results \subseteq output.results \cup OtherResults /\ phase = "format"
        BY <3>2 DEF FormatRest, NoOutput
      <4> QED
        BY <4>1, OthersPoint DEF LocationInv
    <3>3. CASE FormatMatches
      <4>1. /\ phase = "match-format"
            /\ \A r \in output'.results : \E m \in db.match : \E rule : r = Result(rule, {m.obj}, {m.label})
        BY <3>3 DEF FormatMatches, NoOutput
      <4> QED
        BY <4>1, MatchesPoint
    <3>4. CASE UNCHANGED exportVars
      BY <3>4 DEF exportVars, infoVars, LocationInv
    <3> QED
      BY <1>6, <3>1, <3>2, <3>3, <3>4
  <2>5. \A r \in output'.results : Points(r)'
    BY <2>1, <2>4, PointsStay
  <2> QED
    BY <2>1, <2>2, <2>3, <2>5 DEF LocationInv
<1> QED
  BY <1>1, <1>2, <1>3, <1>4, <1>5, <1>6 DEF ExportNext, FormatStep, InfoStep

\* Nothing is shown before an export begins.
LEMMA LocationInvInit == ExportInit => LocationInv
<1> SUFFICES ASSUME ExportInit PROVE LocationInv
  OBVIOUS
<1>1. PICK e \in Exports :
        /\ db = e.db
        /\ phase = IF e.match THEN "match"
                   ELSE IF {"graphs", "path_result"} \cap e.types # {} THEN "load" ELSE "populate"
  BY DEF ExportInit
<1>2. phase \in {"match", "load", "populate"}
  BY <1>1
<1>3. db \in DatabaseType /\ Located(db)
  BY <1>1, ExportAssumption, LocatedAssumption
<1>4. TablesTyped(tainted) /\ output.results = {}
  BY DEF ExportInit, NoTables, NoOutput, TablesTyped
<1> QED
  BY <1>2, <1>3, <1>4 DEF LocationInv

\* What has a logical location has a physical one exactly if the database has it,
\* once the locations of the tables are loaded.
LEMMA PhysicalKnown ==
  ASSUME Located(db), info.physical = PhysicalLocations, NEW o \in tainted.var \cup tainted.insn
  PROVE  LocationOf(o).physical # {} <=> \E l \in db.location : l.element = o
<1> DEFINE rows == {l \in info.physical : l.obj = o}
<1>1. LocationOf(o).physical # {} <=> rows # {}
  BY DEF LocationOf
<1>2. ASSUME NEW row \in rows PROVE \E l \in db.location : l.element = o
  <2>1. row \in PhysicalLocations /\ row.obj = o
    OBVIOUS
  <2> HIDE DEF rows
  <2> QED
    BY <2>1 DEF PhysicalLocations
<1>3. ASSUME NEW l \in db.location, l.element = o PROVE rows # {}
  <2>1. PICK r \in db.region, f \in db.file : r.id = l.region /\ f.id = l.file
    BY DEF Located
  <2> DEFINE row == [obj |-> l.element, kind |-> r.kind, region |-> r.id, file |-> f.id,
                     based |-> f.base /\ ~f.absolute]
  <2>2. row \in PhysicalLocations
    BY <1>3, <2>1 DEF PhysicalLocations
  <2>3. row.obj = o
    BY <1>3
  <2> QED
    BY <2>2, <2>3
<1> HIDE DEF rows
<1> QED
  BY <1>1, <1>2, <1>3

\* Everything a result or a step of a code flow points at has one logical location,
\* in its function's, and the physical location of the database if that has one,
\* for every database whose instructions are in functions and whose locations are
\* regions of files: the tables are filled for the results that are asked for, and
\* the locations are loaded from the tables, before the first result is shown
\* (populate_taintset, _load_physical_locations, _make_logical_locations).
THEOREM LocationsAreKnown == ExportSpec => []LocationsKnown
<1>1. LocationInv => LocationsKnown
  <2> DEFINE placed(o) == \E l \in db.location : l.element = o
             inside(o) == {q[2] : q \in {q \in db.varIn \cup db.insnIn : q[1] = o}}
             parent(i) == info.logical[i].parent
  <2> SUFFICES ASSUME LocationInv, phase = "done",
                      NEW r \in output.results, NEW a \in Pointed(r)
               PROVE  /\ Cardinality(a.logical) = 1
                      /\ \A i \in a.logical :
                           IF parent(i) = 0 THEN inside(a.obj) = {}
                           ELSE info.logical[parent(i)].obj \in inside(a.obj)
                      /\ a.obj \notin DFunction => (a.physical # {} <=> placed(a.obj))
    <3> HIDE DEF placed, inside
    <3> QED
      BY Zenon DEF LocationsKnown, Pointed, placed, inside
  <2>1. PICK o \in Locatable : a = LocationOf(o)
    BY DEF LocationInv, Points
  <2>2. a.obj = o /\ a.logical = {i \in DOMAIN info.logical : info.logical[i].obj = o}
    BY <2>1 DEF LocationOf
  <2>3. /\ \A i, j \in DOMAIN info.logical : info.logical[i].obj = info.logical[j].obj => i = j
        /\ \E i \in DOMAIN info.logical : info.logical[i].obj = o
        /\ \A i \in DOMAIN info.logical :
             IF parent(i) = 0 THEN inside(info.logical[i].obj) = {}
             ELSE info.logical[parent(i)].obj \in inside(info.logical[i].obj)
    <3>1. /\ info.logical = LogicalLocations
          /\ TablesTyped(tainted) /\ Around(tainted) /\ db \in DatabaseType
      BY DEF LocationInv
    <3> DEFINE L == LogicalLocations
    <3>2. /\ \A o_1 \in Locatable : \E i \in DOMAIN L : L[i].obj = o_1
          /\ \A i, j \in DOMAIN L : L[i].obj = L[j].obj => i = j
          /\ \A i \in DOMAIN L : IF L[i].parent = 0 THEN inside(L[i].obj) = {}
                                 ELSE L[i].parent \in DOMAIN L /\ L[L[i].parent].obj \in inside(L[i].obj)
      BY <3>1, LogicalEntries
    <3>3. info.logical = L
      BY <3>1
    <3> HIDE DEF L, inside
    <3> QED
      BY <3>2, <3>3
  <2>4. Cardinality(a.logical) = 1
    <3>1. PICK i \in DOMAIN info.logical : info.logical[i].obj = o
      BY <2>3
    <3>2. a.logical = {i}
      BY <2>2, <2>3, <3>1
    <3> QED
      BY <3>2, FS_Singleton
  <2>5. ASSUME a.obj \notin DFunction
        PROVE  a.physical # {} <=> placed(a.obj)
    <3>1. o \in tainted.var \cup tainted.insn
      BY <2>2, <2>5 DEF Locatable, LocatedInsns, LocationInv, TablesTyped
    <3> QED
      BY <2>1, <2>2, <3>1, PhysicalKnown DEF LocationInv
  <2> QED
    BY <2>2, <2>3, <2>4, <2>5
<1> QED
  BY <1>1, LocationInvInit, LocationInvStep, ReportInvariant, PTL DEF ExportSpec, ReportInv

=============================================================================
