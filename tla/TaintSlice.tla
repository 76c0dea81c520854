----------------------------- MODULE TaintSlice -----------------------------
(***************************************************************************)
(* `ctadl query`: taint slices over a finished index (graph/slice/bidi.dl   *)
(* as information-flow/query.dl sets it up).  The forward slice follows     *)
(* data from the sources, the backward slice against its flow from the      *)
(* sinks.  Both walk the index's assignments and go in and out of calls,    *)
(* remembering in one bit whether they may still go up the call stack.      *)
(* They change nothing of the index.                                        *)
(***************************************************************************)
EXTENDS Index

CONSTANTS
  Label,    \* SliceLabelType
  Queries,  \* the queries a check ranges over
  NoQuery

VARIABLES
  query,
  sliceVertex,      \* Vertex of each slice, which the slice extends
  ReachableVertex,
  ReachableEdge

indexVars == vars
sliceVars == <<query, sliceVertex, ReachableVertex, ReachableEdge>>
queryVars == <<indexVars, sliceVars>>

Slice == {"fw", "bw"}
Side  == {"source", "sink"}

\* What a model generator's endpoint selects: one vertex of a variable, all
\* accesses of a field, or an instruction.  With "all_fields", all vertices of a
\* formal, but of a variable found by its name only the one with the path that
\* is given ("known"), as the rule uses it for both.
EndpointType ==
  [kind : {"vertex"}, side : Side, label : Label, v : Var, p : Path]
    \cup [kind : {"all_fields"}, side : Side, label : Label, v : Var]
    \cup [kind : {"known"}, side : Side, label : Label, v : Var, p : Path]
    \cup [kind : {"field"}, side : Side, label : Label, p : Path]
    \cup [kind : {"insn"}, side : Side, label : Label, insn : Insn]

EdgeType == [v1 : Var, p1 : Path, v2 : Var, p2 : Path]

QueryType ==
  [direction : SUBSET {"forward", "backward"},              \* MG_SliceDirection
   endpoints : SUBSET EndpointType,
   sanitizeVertex : SUBSET [label : Label, v : Var, p : Path],
   sanitizeAllVertex : SUBSET Vertices,
   sanitizeEdge : SUBSET [label : Label, edge : EdgeType],
   sanitizeAllEdge : SUBSET EdgeType]

ASSUME QueriesAssumption == Queries \subseteq QueryType /\ NoQuery \notin QueryType

----------------------------------------------------------------------------
(* Sources and sinks.                                                      *)

Tagged(label, v, p) == [label |-> label, v |-> v, p |-> p]

\* The vertices endpoint e tags, where one with all_fields looks among S.
\* An instruction is a source in what it reads and a sink in what it writes.
Tags(e, S) ==
  CASE e.kind = "vertex"     -> {Tagged(e.label, e.v, e.p)}
    [] e.kind = "all_fields" -> {Tagged(e.label, x.v, x.p) : x \in {x \in S : x.v = e.v}}
    [] e.kind = "known"      -> {Tagged(e.label, x.v, x.p) : x \in S \cap {Vtx(e.v, e.p)}}
    [] e.kind = "field"      ->
         {Tagged(e.label, x.v, x.p) :
            x \in {x \in {Vtx(a.v1, a.p1) : a \in VirtualAssign}
                           \cup {Vtx(a.v2, a.p2) : a \in VirtualAssign} : x.p = e.p}}
    [] e.kind = "insn"       ->
         {IF e.side = "source" THEN Tagged(e.label, a.v2, a.p2) ELSE Tagged(e.label, a.v1, a.p1) :
            a \in {a \in VirtualAssign : a.insn = e.insn}}

Endpoints(q, side, S) == UNION {Tags(e, S) : e \in {e \in q.endpoints : e.side = side}}

\* Among the index's vertices, and among the ones the slices have added.
TaintSourceVertexNonRec(q) == Endpoints(q, "source", Vertex)
LeakingSinkVertexNonRec(q) == Endpoints(q, "sink", Vertex)
TaintSourceVertex == Endpoints(query, "source", UNION {sliceVertex[d] : d \in Slice})
LeakingSinkVertex == Endpoints(query, "sink", UNION {sliceVertex[d] : d \in Slice})

isTaintLabel(q) == {x.label : x \in TaintSourceVertexNonRec(q) \cup LeakingSinkVertexNonRec(q)}

\* Unless the query names directions, the slice with fewer endpoints runs.
EnableForwardSlice(q) ==
  LET n_source == Cardinality({Vtx(x.v, x.p) : x \in TaintSourceVertexNonRec(q)})
      n_sink   == Cardinality({Vtx(x.v, x.p) : x \in LeakingSinkVertexNonRec(q)})
  IN  \/ "forward" \in q.direction
      \/ q.direction = {} /\ (n_sink = 0 \/ (n_source > 0 /\ n_source <= n_sink))

EnableBackwardSlice(q) ==
  "backward" \in q.direction \/ (q.direction = {} /\ ~EnableForwardSlice(q))

EnabledSlice(q, dir) == IF dir = "fw" THEN EnableForwardSlice(q) ELSE EnableBackwardSlice(q)

----------------------------------------------------------------------------
(* What a slice walks over.                                                *)

FlipMutant(a) == a
Flip(a) == [a EXCEPT !.v1 = a.v2, !.p1 = a.p2, !.v2 = a.v1, !.p2 = a.p1]

SliceAssign(dir) == IF dir = "fw" THEN VirtualAssign ELSE {Flip(a) : a \in VirtualAssign}

SanitizeVertexRel(v, p, label) ==
  \/ Tagged(label, v, p) \in query.sanitizeVertex
  \/ Vtx(v, p) \in query.sanitizeAllVertex /\ label \in isTaintLabel(query)

SanitizeAssignMutant(dir, v1, p1, v2, p2, label) ==  \* not flipped for "bw"
  LET edge == [v1 |-> v1, p1 |-> p1, v2 |-> v2, p2 |-> p2]
  IN  \/ [label |-> label, edge |-> edge] \in query.sanitizeEdge
      \/ edge \in query.sanitizeAllEdge /\ label \in isTaintLabel(query)

SanitizeAssign(dir, v1, p1, v2, p2, label) ==
  LET edge == IF dir = "fw" THEN [v1 |-> v1, p1 |-> p1, v2 |-> v2, p2 |-> p2]
                            ELSE [v1 |-> v2, p1 |-> p2, v2 |-> v1, p2 |-> p1]
  IN  \/ [label |-> label, edge |-> edge] \in query.sanitizeEdge
      \/ edge \in query.sanitizeAllEdge /\ label \in isTaintLabel(query)

\* The id of a reached vertex is the text of all of this.
Node(dir, v, p, label, call_state, ctx) ==
  [dir |-> dir, v |-> v, p |-> p, label |-> label, call_state |-> call_state, ctx |-> ctx]

NodeType ==
  [dir : Slice, v : Var, p : Path, label : Label,
   call_state : {"free", "restricted"}, ctx : Context]

MatchStartMutant == "nocall"  \* as the comment on its type has it
MatchStart == "free"

MatchNextMutant(prev, direction, next) ==  \* a restricted vertex may return
  \/ direction = "formal-to-actual" /\ next = prev
  \/ direction = "actual-to-formal" /\ next = "restricted"

\* Forward, a value may leave the functions it did not enter ("free") and
\* then enter callees; it does not come back out of those, since the summary
\* edges of the caller stand for that.  Backward the same, mirrored.
MatchNext(prev, direction, next) ==
  \/ prev = "free" /\ direction = "formal-to-actual" /\ next = "free"
  \/ direction = "actual-to-formal" /\ next = "restricted"

----------------------------------------------------------------------------

QueryInit ==
  /\ Init
  /\ query = NoQuery
  /\ sliceVertex = [d \in Slice |-> {}]
  /\ ReachableVertex = {}
  /\ ReachableEdge = {}

\* The index step is over when the query reads its tables.
StartQuery ==
  /\ query = NoQuery
  /\ Quiescent
  /\ query' \in Queries
  /\ sliceVertex' = [d \in Slice |-> IF EnabledSlice(query', d) THEN Vertex ELSE {}]
  /\ UNCHANGED <<indexVars, ReachableVertex, ReachableEdge>>

StartSlice ==
  \E dir \in Slice :
    \E x \in IF dir = "fw" THEN TaintSourceVertex ELSE LeakingSinkVertex :
      LET to == Node(dir, x.v, x.p, x.label, MatchStart, AnyContext)
      IN  /\ EnabledSlice(query, dir)
          /\ to \notin ReachableVertex
          /\ ReachableVertex' = ReachableVertex \cup {to}
          /\ sliceVertex' = [sliceVertex EXCEPT ![dir] = @ \cup {Vtx(x.v, x.p)}]
          /\ UNCHANGED <<indexVars, query, ReachableEdge>>

Edge(to, from, insn, kind) == [to |-> to, from |-> from, insn |-> insn, kind |-> kind]

\* Data tainted at z gets to v.p, unless a sanitizer stops it.
Extend(z, v, p, call_state, ctx, insn, kind) ==
  LET to   == Node(z.dir, v, p, z.label, call_state, ctx)
      edge == Edge(to, z, insn, kind)
  IN  /\ ~SanitizeAssign(z.dir, v, p, z.v, z.p, z.label)
      /\ ~SanitizeVertexRel(z.v, z.p, z.label)
      /\ edge \notin ReachableEdge
      /\ ReachableVertex' = ReachableVertex \cup {to}
      /\ ReachableEdge' = ReachableEdge \cup {edge}
      /\ UNCHANGED <<indexVars, query>>

\* call_string_taint_constraint
TaintContext(c0, c1, c2) == AllocContext(c0, c1, c2)

SliceMove ==
  \E z \in ReachableVertex : \E a \in SliceAssign(z.dir) : \E ctx \in {z.ctx, a.ctx} :
    /\ a.v2 = z.v /\ a.p2 = z.p
    /\ TaintContext(ctx, z.ctx, a.ctx)
    /\ Extend(z, a.v1, a.p1, z.call_state, ctx, a.insn, "move")
    /\ UNCHANGED sliceVertex

\* Follows call edge c from z to v.p at its other end.
CrossCall(z, v, p, c, direction) ==
  \E ctx \in {z.ctx, c.ctx}, next \in {"free", "restricted"} :
    /\ MatchNext(z.call_state, direction, next)
    /\ TaintContext(ctx, z.ctx, c.ctx)
    /\ Extend(z, v, p, next, ctx, c.insn, direction)
    /\ sliceVertex' = [sliceVertex EXCEPT ![z.dir] = @ \cup {Vtx(v, p)}]

SliceToFormalMutant ==  \* the formal itself instead of the field of it
  \E z \in ReachableVertex, a \in ir.actual, c \in CallEdge, x \in ir.formal :
    /\ a.v = z.v /\ a.insn = c.insn
    /\ x.f = c.f /\ x.n = a.n
    /\ z.dir = "fw" \/ isByRef(ir, x.f, x.n)
    /\ MatchComputedPrefix(isComputedAccessPath, z.p, a.p, After(a.p, z.p))
    /\ CrossCall(z, x.v, Empty, c, "actual-to-formal")

\* Forward an argument is passed; backward a reference parameter was written.
SliceToFormal ==
  \E z \in ReachableVertex, a \in ir.actual, c \in CallEdge, x \in ir.formal :
    LET p == After(a.p, z.p)
    IN  /\ a.v = z.v /\ a.insn = c.insn
        /\ x.f = c.f /\ x.n = a.n
        /\ z.dir = "fw" \/ isByRef(ir, x.f, x.n)
        /\ MatchComputedPrefix(isComputedAccessPath, z.p, a.p, p)
        /\ CrossCall(z, x.v, p, c, "actual-to-formal")

\* Forward a reference parameter gets out; backward the argument came in.
SliceToActual ==
  \E z \in ReachableVertex, a \in ir.actual, c \in CallEdge, x \in ir.formal :
    LET p == a.p \o z.p
    IN  /\ x.v = z.v /\ x.f = c.f
        /\ a.insn = c.insn /\ a.n = x.n
        /\ z.dir = "bw" \/ isByRef(ir, x.f, x.n)
        /\ MatchComputedPrefix(isComputedAccessPath, p, a.p, z.p)
        /\ CrossCall(z, a.v, p, c, "formal-to-actual")

SliceNext == query # NoQuery /\ (StartSlice \/ SliceMove \/ SliceToFormal \/ SliceToActual)

QueryNext ==
  \/ Next /\ UNCHANGED sliceVars
  \/ StartQuery
  \/ SliceNext

QuerySpec == QueryInit /\ [][QueryNext]_queryVars /\ WF_queryVars(QueryNext)

----------------------------------------------------------------------------
(* What the query reports.                                                 *)

isReachable(dir, v, p, label) ==
  \E z \in ReachableVertex : z.dir = dir /\ z.v = v /\ z.p = p /\ z.label = label

\* Hints for the user: assignments that may lose taint, because the index did
\* not propagate to them the access the slice arrived with.  The table keeps
\* one row for every instruction; whether there is a row is what matters.
LostAssign(dir) ==
  {a \in VirtualAssign :
     /\ a.ctx = AnyContext
     /\ \E z \in ReachableVertex :
          LET e    == IF dir = "fw" THEN Forwards(a) ELSE Backwards(a)
              rest == After(e.near, z.p)
          IN  /\ z.dir = dir /\ z.v = e.nearVar
              /\ MatchComputedPrefix(isComputedAccessPath, z.p, e.near, rest)
              /\ ~HasStar(e.far)
              /\ ~isReachable(dir, e.farVar, e.far \o rest, z.label)}

----------------------------------------------------------------------------

QueryTypeOK ==
  /\ TypeOK
  /\ query \in Queries \cup {NoQuery}
  /\ sliceVertex \in [Slice -> SUBSET Vertices]
  /\ ReachableVertex \subseteq NodeType
  /\ ReachableEdge \subseteq [to : NodeType, from : NodeType, insn : Insn,
                              kind : {"move", "actual-to-formal", "formal-to-actual"}]

=============================================================================
