----------------------------- MODULE PathTable -----------------------------
(***************************************************************************)
(* SemiNaiveMinPathLength (vis/taintgraph.py): the part of a slice that     *)
(* leads to a set of start vertices, by semi-naive evaluation over a        *)
(* temporary table fp, one SQL statement for one iteration.  The result is  *)
(* a graph in execution order with one edge for every vertex, the first one *)
(* of a shortest path.                                                     *)
(***************************************************************************)
EXTENDS TaintDatabase

VARIABLES
  db,   \* the database, which only reads change
  dir,  \* the slice: "f" or "b"
  fp, n,
  tableStarts

tableVars == <<dir, fp, n, tableStarts>>

Row(node, next, length, count) ==
  [node |-> node, next_node |-> next, path_length |-> length, iteration_count |-> count]

SliceRows == {e \in ReverseEdge(db) : e.direction = dir}

\* The edges out of the start vertices.
InitTable(starts) ==
  /\ tableStarts' = starts
  /\ n' = 0
  /\ fp' = {Row(e.from, e.to, 1, 0) : e \in {e \in SliceRows : e.from \in starts}}

AugmentLengthMutant ==  \* the length is carried over
  LET delta == {r \in fp : r.iteration_count = n}
      further(r) == {e \in SliceRows :
                       /\ e.from = r.next_node
                       /\ ~\E s \in fp : /\ s.node = e.from /\ s.next_node = e.to
                                         /\ s.path_length <= r.path_length}
  IN  UNION {{Row(r.next_node, e.to, r.path_length, r.iteration_count + 1) : e \in further(r)} : r \in delta}

AugmentMutant ==  \* also takes edges again that are not shorter
  LET delta == {r \in fp : r.iteration_count = n}
      further(r) == {e \in SliceRows :
                       /\ e.from = r.next_node
                       /\ n < 8
                       /\ ~\E s \in fp : /\ s.node = e.from /\ s.next_node = e.to
                                         /\ s.path_length < n}
  IN  UNION {{Row(r.next_node, e.to, r.path_length + 1, n + 1) : e \in further(r)} : r \in delta}

\* One edge further than iteration n, except edges known with a path no longer.
Augment ==
  LET delta == {r \in fp : r.iteration_count = n}
      further(r) == {e \in SliceRows :
                       /\ e.from = r.next_node
                       /\ ~\E s \in fp : /\ s.node = e.from /\ s.next_node = e.to
                                         /\ s.path_length <= r.path_length + 1}
  IN  UNION {{Row(r.next_node, e.to, r.path_length + 1, r.iteration_count + 1) : e \in further(r)} : r \in delta}

\* The loop ends when an iteration has added nothing.
TableDone == n > 0 /\ ~\E r \in fp : r.iteration_count = n

AugmentTable ==
  /\ ~TableDone
  /\ fp' = fp \cup Augment
  /\ n' = n + 1
  /\ UNCHANGED <<db, dir, tableStarts>>

\* SELECT node, next_node, MIN(path_length) ... GROUP BY next_node: the other
\* column comes from a row with the minimum, any of them.
NearestMutant(v) ==  \* an arbitrary row of the group
  {r \in fp : r.next_node = v}
Nearest(v) ==
  {r \in fp : r.next_node = v /\ \A s \in fp : s.next_node = v => r.path_length <= s.path_length}

ResultGraphsMutant ==  \* not turned back
  LET ends == {r.next_node : r \in fp}
  IN  {{<<pick[v].node, v>> : v \in ends} :
         pick \in {f \in [ends -> fp] : \A v \in ends : f[v] \in Nearest(v)}}

\* Turned back into execution order for the forward slice.
ResultGraphs ==
  LET ends == {r.next_node : r \in fp}
  IN  {{IF dir = "f" THEN <<v, pick[v].node>> ELSE <<pick[v].node, v>> : v \in ends} :
         pick \in {f \in [ends -> fp] : \A v \in ends : f[v] \in Nearest(v)}}

=============================================================================
