--------------------------- MODULE MCTaintTables ---------------------------
(***************************************************************************)
(* Small databases for the checks of the Python side.  A flow is a set of   *)
(* edges between vertices in execution order, with sources and sinks; both  *)
(* slices of it are computed as the query defines them.                     *)
(***************************************************************************)
EXTENDS TaintDatabase, TLC, Sequences

\* Vertices 1 .. 4 are x, y (in m), z, w (in c), 5 is a global and 6 is x.f.
MCVar(i)  == <<"x", "y", "z", "w", "g", "x">>[i]
MCPath(i) == IF i = 6 THEN "f" ELSE ""
MCVertex(i) == [v |-> MCVar(i), p |-> MCPath(i)]

MCDVar      == {"x", "y", "z", "w", "g"}
MCDPath     == {"", "f"}
MCDFunction == {"m", "c"}
MCDLabel    == {"A", "B"}
MCDRegion   == {"r1", "r2", "r3", "r4"}
MCDFile     == {"relative", "absolute"}
Insn(e)     == "i" \o ToString(e[1]) \o ToString(e[2])
MCDInsn     == {Insn(e) : e \in (1 .. 6) \X (1 .. 6)}
FunctionOf  == [v \in {"x", "y", "z", "w"} |-> IF v \in {"x", "y"} THEN "m" ELSE "c"]

\* Ids: forward A, forward B, backward A, backward B, six of each.
Id(i, label, direction) ==
  i + (IF label = "B" THEN 6 ELSE 0) + (IF direction = "b" THEN 12 ELSE 0)

Reached(S, E) ==
  LET ball[k \in 0 .. 6] ==
        IF k = 0 THEN S
        ELSE LET inner == ball[k - 1]
             IN  inner \cup {e[2] : e \in {e \in E : e[1] \in inner}}
  IN  ball[6]

Vertices(S, E, direction) ==
  UNION {{[id |-> Id(i, l, direction), v |-> MCVar(i), p |-> MCPath(i), label |-> l,
           direction |-> direction] :
            i \in Reached({s[1] : s \in {s \in S : s[2] = l}}, E)} : l \in MCDLabel}

\* Edges keep the label; insn (i, j) writes vertex j from vertex i.
Edges(S, E, direction) ==
  UNION {{[from |-> Id(e[1], l, direction), to |-> Id(e[2], l, direction),
           insn |-> Insn(IF direction = "f" THEN e ELSE <<e[2], e[1]>>),
           kind |-> IF MCVar(e[1]) \in {"x", "y"} /\ MCVar(e[2]) \in {"z", "w"} THEN "actual-to-formal"
                    ELSE "move",
           direction |-> direction] :
            e \in {e \in E : e[1] \in Reached({s[1] : s \in {s \in S : s[2] = l}}, E)}} : l \in MCDLabel}

Tags(S) == {[v |-> MCVar(s[1]), p |-> MCPath(s[1]), tag |-> s[2]] : s \in S}
Turned(E) == {<<e[2], e[1]>> : e \in E}

\* The database of flow E from sources to sinks, with the slices computed.
Database(E, sources, sinks, slices) ==
  [vertex |-> (IF "f" \in slices THEN Vertices(sources, E, "f") ELSE {})
                \cup (IF "b" \in slices THEN Vertices(sinks, Turned(E), "b") ELSE {}),
   edge |-> (IF "f" \in slices THEN Edges(sources, E, "f") ELSE {})
              \cup (IF "b" \in slices THEN Edges(sinks, Turned(E), "b") ELSE {}),
   source |-> Tags(sources),
   sink |-> Tags(sinks),
   varIn |-> {<<v, FunctionOf[v]>> : v \in DOMAIN FunctionOf},
   insnIn |-> {<<Insn(e), IF MCVar(e[2]) \in {"z", "w"} THEN "c" ELSE "m">> : e \in E},
   location |-> {[element |-> "i12", region |-> "r1", file |-> "relative"],
                 [element |-> "i12", region |-> "r4", file |-> "relative"],
                 [element |-> "i34", region |-> "r2", file |-> "absolute"],
                 [element |-> "w", region |-> "r3", file |-> "absolute"]},
   region |-> {[id |-> "r1", kind |-> "line"], [id |-> "r4", kind |-> "byte"],
               [id |-> "r2", kind |-> "address"], [id |-> "r3", kind |-> "char"]},
   file |-> {[id |-> "relative", absolute |-> FALSE, base |-> TRUE],
             [id |-> "absolute", absolute |-> TRUE, base |-> TRUE]},
   match |-> {[kind |-> "insn", obj |-> "i12", label |-> "A"],
              [kind |-> "var", obj |-> "w", label |-> "B"],
              [kind |-> "func", obj |-> "c", label |-> "A"]}]

Both == {"f", "b"}

\* Straight lines, forks and joins of equal and unequal length, cycles through
\* sources, sinks and between, a second way round, an unreachable part.
FewFlows ==
  {{<<1, 2>>, <<1, 3>>, <<2, 4>>, <<3, 4>>},
   {<<1, 2>>, <<2, 3>>, <<3, 2>>, <<3, 4>>, <<4, 1>>},
   {<<1, 4>>, <<1, 2>>, <<2, 4>>, <<2, 3>>, <<3, 4>>},
   {<<1, 2>>, <<2, 3>>, <<1, 5>>, <<5, 3>>, <<3, 4>>, <<4, 2>>, <<5, 4>>}}
OtherFlows ==
  {{<<1, 2>>, <<2, 3>>, <<3, 4>>},
   {<<1, 2>>, <<2, 4>>, <<1, 3>>, <<3, 5>>, <<5, 4>>},
   {<<1, 2>>, <<2, 4>>, <<2, 5>>, <<5, 4>>, <<3, 5>>}}

\* Two sinks in a row behind a fork, and a flow through a field.
Way    == {<<1, 2>>, <<1, 5>>, <<2, 3>>, <<5, 3>>, <<3, 4>>, <<2, 5>>}
Fields == {<<1, 2>>, <<2, 6>>, <<6, 3>>, <<3, 4>>, <<1, 3>>}

=============================================================================
