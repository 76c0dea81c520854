----------------------------- MODULE PathSearch -----------------------------
(***************************************************************************)
(* TaintGraph.startpaths (vis/taintgraph.py) and the breadth-first search   *)
(* it runs (util/graph.py): the paths of a taint graph from one vertex to   *)
(* any of several goals.  A search collects a shortest path to every goal   *)
(* it meets; to find others, it is repeated without the vertices after the  *)
(* start of its paths ("front"), before their end ("back"), or one and then *)
(* the other in searches of their own ("both").  Strategy "none" instead    *)
(* walks every path that does not meet itself.                             *)
(*                                                                         *)
(* One step is one iteration of a loop of the code.  The order in which a   *)
(* set of successors is iterated over is left open.                        *)
(***************************************************************************)
EXTENDS Naturals, FiniteSets, SequencesExt

CONSTANT Node  \* vertex ids

ASSUME NodeAssumption == IsFiniteSet(Node)  \* the rows of a table

VARIABLES
  graph,     \* the edges of the AdjacencyGraph1
  strategy,
  start, goals,
  searches,  \* for each search that is still to run, the vertices it avoids
  avoids, worklist, state, trail, found,  \* the search that runs
  stack,     \* the partial paths of strategy "none"
  paths,     \* what startpaths has collected
  pc

inputVars  == <<graph, strategy>>
callVars   == <<start, goals>>
bfsVars    == <<avoids, worklist, state, trail, found>>
searchVars == <<inputVars, callVars, bfsVars, searches, stack, paths, pc>>

Strategy    == {"front", "back", "both", "none"}
VertexState == {"undiscovered", "discovered", "processed"}

successors(u) == {v \in Node : <<u, v>> \in graph}

InitSearch(n) ==
  /\ start = n
  /\ goals = {}
  /\ searches = <<>>
  /\ avoids = {}
  /\ worklist = <<>>
  /\ state = [v \in Node |-> "undiscovered"]
  /\ trail = [v \in Node |-> <<v>>]
  /\ found = {}
  /\ stack = <<>>
  /\ paths = {}
  /\ pc = "idle"

----------------------------------------------------------------------------

\* startpaths is called.
Call(s, gs) ==
  /\ start' = s
  /\ goals' = gs
  /\ paths' = {}
  /\ \/ /\ strategy = "none"
        /\ stack' = <<<<s>>>>
        /\ searches' = <<>>
        /\ pc' = "walk"
     \/ /\ strategy # "none"
        /\ stack' = <<>>
        /\ searches' = <<{}>>
        /\ pc' = "pick"
  /\ UNCHANGED <<inputVars, bfsVars>>

PerformMutant ==  \* the avoided vertices are not marked
  /\ pc = "pick" /\ searches # <<>>
  /\ searches' = Front(searches)
  /\ avoids' = Last(searches)
  /\ worklist' = <<start>>
  /\ state' = [v \in Node |-> IF v = start THEN "discovered" ELSE "undiscovered"]
  /\ trail' = [v \in Node |-> <<v>>]
  /\ found' = {}
  /\ pc' = "bfs"
  /\ UNCHANGED <<inputVars, callVars, stack, paths>>

\* The next search is reset and set going.  trail[v] is what make_path reads
\* out of the parent map for v: v alone while it has no parent.
Perform ==
  /\ pc = "pick" /\ searches # <<>>
  /\ searches' = Front(searches)
  /\ avoids' = Last(searches)
  /\ worklist' = IF start \in avoids' THEN <<>> ELSE <<start>>
  /\ state' = [v \in Node |-> IF v \in avoids' THEN "processed"
                              ELSE IF v = start THEN "discovered" ELSE "undiscovered"]
  /\ trail' = [v \in Node |-> <<v>>]
  /\ found' = {}
  /\ pc' = "bfs"
  /\ UNCHANGED <<inputVars, callVars, stack, paths>>

VisitMutant ==  \* a vertex is marked when it is popped, not when it is pushed
  /\ pc = "bfs" /\ worklist # <<>>
  /\ LET u   == Head(worklist)
         new == {v \in successors(u) : state[v] = "undiscovered"}
     IN  /\ found' = IF u \in goals THEN found \cup {trail[u]} ELSE found
         /\ \E order \in SetToSeqs(new) : worklist' = Tail(worklist) \o order
         /\ state' = [state EXCEPT ![u] = "processed"]
         /\ trail' = [v \in Node |-> IF v \in new THEN Append(trail[u], v) ELSE trail[v]]
  /\ UNCHANGED <<inputVars, callVars, avoids, searches, stack, paths, pc>>

VisitStaleMutant ==  \* a later edge to a discovered vertex replaces its parent
  /\ pc = "bfs" /\ worklist # <<>>
  /\ LET u   == Head(worklist)
         new == {v \in successors(u) : state[v] = "undiscovered"}
     IN  /\ found' = IF u \in goals THEN found \cup {trail[u]} ELSE found
         /\ \E order \in SetToSeqs(new) : worklist' = Tail(worklist) \o order
         /\ state' = [v \in Node |-> IF v = u THEN "processed"
                                     ELSE IF v \in new THEN "discovered" ELSE state[v]]
         /\ trail' = [v \in Node |-> IF v \in successors(u) /\ state[v] # "processed"
                                     THEN Append(trail[u], v) ELSE trail[v]]
  /\ UNCHANGED <<inputVars, callVars, avoids, searches, stack, paths, pc>>

\* A vertex is popped: a goal adds its path, and then every successor not met
\* before is pushed with the vertex as its parent.
Visit ==
  /\ pc = "bfs" /\ worklist # <<>>
  /\ LET u   == Head(worklist)
         new == {v \in successors(u) : state[v] = "undiscovered"}
     IN  /\ found' = IF u \in goals THEN found \cup {trail[u]} ELSE found
         /\ \E order \in SetToSeqs(new) : worklist' = Tail(worklist) \o order
         /\ state' = [v \in Node |-> IF v = u THEN "processed"
                                     ELSE IF v \in new THEN "discovered" ELSE state[v]]
         /\ trail' = [v \in Node |-> IF v \in new THEN Append(trail[u], v) ELSE trail[v]]
  /\ UNCHANGED <<inputVars, callVars, avoids, searches, stack, paths, pc>>

SecondNodes      == {p[2] : p \in found}
PenultimateNodes == {p[Len(p) - 1] : p \in found}

RespawnMutant ==  \* only one of the paths is avoided
  LET p == CHOOSE p \in found : TRUE
  IN  (IF strategy \in {"front", "both"} THEN <<avoids \cup {p[2]}>> ELSE <<>>)
        \o (IF strategy \in {"back", "both"} THEN <<avoids \cup {p[Len(p) - 1]}>> ELSE <<>>)

RespawnSwapMutant ==  \* the second and the second-to-last vertices are mixed up
  (IF strategy \in {"front", "both"} THEN <<avoids \cup PenultimateNodes>> ELSE <<>>)
    \o (IF strategy \in {"back", "both"} THEN <<avoids \cup SecondNodes>> ELSE <<>>)

\* The clones of the search, each with more to avoid.
Respawn ==
  (IF strategy \in {"front", "both"} THEN <<avoids \cup SecondNodes>> ELSE <<>>)
    \o (IF strategy \in {"back", "both"} THEN <<avoids \cup PenultimateNodes>> ELSE <<>>)

EndSearch ==
  /\ pc = "bfs" /\ worklist = <<>>
  /\ paths' = paths \cup found
  /\ searches' = IF found = {} \/ (\E p \in found : Len(p) < 2)
                 THEN searches ELSE searches \o Respawn
  /\ found' = {}
  /\ pc' = "pick"
  /\ UNCHANGED <<inputVars, callVars, avoids, worklist, state, trail, stack>>

WalkMutant ==  \* only the vertex it came from is kept from being visited again
  /\ pc = "walk" /\ stack # <<>>
  /\ LET p    == Last(stack)
         next == {v \in successors(Last(p)) : v # Last(p)}
     IN  \/ /\ Last(p) \in goals
            /\ paths' = paths \cup {p}
            /\ stack' = Front(stack)
         \/ /\ Last(p) \notin goals /\ Len(p) < Cardinality(Node) + 1
            /\ stack' = Front(stack) \o SetToSeq({Append(p, v) : v \in next})
            /\ UNCHANGED paths
         \/ /\ Last(p) \notin goals /\ Len(p) >= Cardinality(Node) + 1
            /\ stack' = Front(stack)
            /\ UNCHANGED paths
  /\ UNCHANGED <<inputVars, callVars, bfsVars, searches, pc>>

\* Strategy "none": a partial path is a result at a goal, and otherwise grows
\* by every successor that is not on it.
Walk ==
  /\ pc = "walk" /\ stack # <<>>
  /\ LET p    == Last(stack)
         next == {v \in successors(Last(p)) : v \notin ToSet(p)}
     IN  \/ /\ Last(p) \in goals
            /\ paths' = paths \cup {p}
            /\ stack' = Front(stack)
         \/ /\ Last(p) \notin goals
            /\ stack' = Front(stack) \o SetToSeq({Append(p, v) : v \in next})
            /\ UNCHANGED paths
  /\ UNCHANGED <<inputVars, callVars, bfsVars, searches, pc>>

Return ==
  /\ \/ pc = "pick" /\ searches = <<>>
     \/ pc = "walk" /\ stack = <<>>
  /\ pc' = "return"
  /\ UNCHANGED <<inputVars, callVars, bfsVars, searches, stack, paths>>

SearchStep == Perform \/ Visit \/ EndSearch \/ Walk \/ Return

----------------------------------------------------------------------------
(* What startpaths promises.                                               *)

IsPath(p, E) == Len(p) > 0 /\ \A i \in 1 .. Len(p) - 1 : <<p[i], p[i + 1]>> \in E
IsSimple(p)  == \A i, j \in 1 .. Len(p) : p[i] = p[j] => i = j

\* The vertices within k edges of S, for every k.
Ball(S, E) ==
  LET ball[k \in 0 .. Cardinality(Node)] ==
        IF k = 0 THEN S
        ELSE LET inner == ball[k - 1]
             IN  inner \cup {e[2] : e \in {e \in E : e[1] \in inner}}
  IN  ball

ReachableFrom(S, E) == Ball(S, E)[Cardinality(Node)]
Distance(u, v, E)   == CHOOSE k \in 0 .. Cardinality(Node) :
                         v \in Ball({u}, E)[k] /\ (k > 0 => v \notin Ball({u}, E)[k - 1])
Without(S, E)       == {e \in E : e[1] \notin S /\ e[2] \notin S}

SearchTypeOK ==
  /\ graph \subseteq Node \X Node
  /\ strategy \in Strategy
  /\ pc # "idle" => start \in Node
  /\ goals \subseteq Node
  /\ searches \in Seq(SUBSET Node)
  /\ avoids \subseteq Node
  /\ worklist \in Seq(Node)
  /\ state \in [Node -> VertexState]
  /\ trail \in [Node -> Seq(Node)]
  /\ found \subseteq Seq(Node)
  /\ stack \in Seq(Seq(Node))
  /\ paths \subseteq Seq(Node)
  /\ pc \in {"idle", "pick", "bfs", "walk", "return"}

\* BFS.perform asserts that a vertex it pops is discovered (graph.py:195): a
\* vertex is pushed once and nothing marks it before its turn, in a search
\* that avoids vertices and follows others with the same object too.
PoppedIsDiscovered ==
  pc = "bfs" /\ worklist # <<>> => state[Head(worklist)] = "discovered"

\* Every path handed out leads from the start to a goal along edges of the
\* graph without meeting a vertex twice, and the running search's paths keep
\* away from what it was told to avoid.
PathsAreReal ==
  /\ \A p \in paths \cup found :
       IsPath(p, graph) /\ IsSimple(p) /\ p[1] = start /\ Last(p) \in goals
  /\ \A p \in found : ToSet(p) \cap avoids = {}

\* "The algorithm decides on a node that will never be included in new paths:
\* either the second node in the path, the second-to-last node" (startpaths).
NewPathsKeepAway ==
  [][\A p \in paths' \ paths, q \in paths :
       Len(q) > 1 =>
         /\ strategy = "front" => q[2] \notin ToSet(p)
         /\ strategy = "back"  => q[Len(q) - 1] \notin ToSet(p)]_searchVars

\* When startpaths returns, nothing is left to find: every further path to a
\* goal would use a second (second-to-last) vertex of a path it found.
NothingLeft ==
  pc = "return" /\ strategy # "none" /\ (\A p \in paths : Len(p) > 1) =>
    /\ strategy \in {"front", "both"} =>
         LET E == Without({p[2] : p \in paths}, graph)
         IN  ReachableFrom({start}, E) \cap goals = {}
    /\ strategy \in {"back", "both"} =>
         LET avoided == {p[Len(p) - 1] : p \in paths}
         IN  start \in avoided
               \/ ReachableFrom({start}, Without(avoided, graph)) \cap goals = {}

\* Strategy "none" finds every path that ends at the first goal it meets.
SimplePaths(s, E) ==
  LET walks[k \in 0 .. Cardinality(Node) - 1] ==
        IF k = 0 THEN {<<s>>}
        ELSE UNION {{Append(p, e[2]) : e \in {e \in E : e[1] = Last(p) /\ e[2] \notin ToSet(p)}} :
                      p \in walks[k - 1]}
  IN  UNION {walks[k] : k \in 0 .. Cardinality(Node) - 1}

AllPathsFound ==
  pc = "return" /\ strategy = "none" =>
    paths = {p \in SimplePaths(start, graph) :
               Last(p) \in goals /\ \A i \in 1 .. Len(p) - 1 : p[i] \notin goals}

=============================================================================
