----------------------------- MODULE IterPaths -----------------------------
(***************************************************************************)
(* TaintGraph.iter_paths (vis/taintgraph.py): paths from every source to    *)
(* every sink.  For one source, startpaths is called again as long as       *)
(* sinks are left that it has found no path to, and finds some.            *)
(***************************************************************************)
EXTENDS PathSearch

VARIABLES
  sources, sinks,  \* the graph's root and goal vertices; sources to go
  yielded          \* the paths the iterator has yielded

iterVars == <<searchVars, sources, sinks, yielded>>

\* The iterator takes its next source, and asks for paths if there are sinks.
NextSource ==
  /\ pc = "idle"
  /\ \E s \in sources :
       /\ sources' = sources \ {s}
       /\ \/ sinks # {} /\ Call(s, sinks)
          \/ sinks = {} /\ UNCHANGED searchVars
  /\ UNCHANGED <<sinks, yielded>>

CollectMutant ==  \* one call of startpaths for every source
  /\ pc = "return"
  /\ yielded' = yielded \cup paths
  /\ pc' = "idle"
  /\ paths' = {}
  /\ UNCHANGED <<inputVars, callVars, bfsVars, searches, stack, sources, sinks>>

CollectAgainMutant ==  \* goals that were found are asked for again
  /\ pc = "return"
  /\ yielded' = yielded \cup paths
  /\ \/ /\ paths # {}
        /\ Call(start, goals)
     \/ /\ paths = {}
        /\ pc' = "idle"
        /\ paths' = {}
        /\ UNCHANGED <<inputVars, callVars, bfsVars, searches, stack>>
  /\ UNCHANGED <<sources, sinks>>

\* The paths are yielded and their ends are no longer asked for.
Collect ==
  LET rest == goals \ {Last(p) : p \in paths}
  IN  /\ pc = "return"
      /\ yielded' = yielded \cup paths
      /\ \/ /\ paths # {} /\ rest # {}
            /\ Call(start, rest)
         \/ /\ paths = {} \/ rest = {}
            /\ pc' = "idle"
            /\ paths' = {}
            /\ UNCHANGED <<inputVars, callVars, bfsVars, searches, stack>>
      /\ UNCHANGED <<sources, sinks>>

IterStep == NextSource \/ Collect \/ (SearchStep /\ UNCHANGED <<sources, sinks, yielded>>)

IterDone == pc = "idle" /\ sources = {}

----------------------------------------------------------------------------

IterTypeOK ==
  /\ SearchTypeOK
  /\ sources \subseteq Node
  /\ sinks \subseteq Node
  /\ yielded \subseteq Seq(Node)

\* "Attempts to find a path from each start node to each goal node"
\* (iter_paths): whatever the strategy avoids, and though strategy "none" stops
\* at goals, each sink a source in S reaches is at the end of a path, of
\* a shortest one unless the strategy is "none".
PathsComplete(S) ==
  \A s \in S, t \in sinks :
    t \in ReachableFrom({s}, graph) =>
      \E p \in yielded :
        /\ p[1] = s /\ Last(p) = t
        /\ strategy # "none" => Len(p) = Distance(s, t, graph) + 1

=============================================================================
