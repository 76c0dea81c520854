--------------------------- MODULE IndexReference ---------------------------
(***************************************************************************)
(* What the index's results mean: the summaries must say where a value that *)
(* enters a function in a formal can leave it, and the allocations where an *)
(* object can be (see ProgramFlow for how values move).                     *)
(***************************************************************************)
EXTENDS Index, ProgramFlow

----------------------------------------------------------------------------
(* The results against the reference, once the index has stopped.          *)

Wildcards == ir.enableStar \/ ir.influenceFrom \cup ir.influenceTo # {}

\* Places a value entering in formal x.F can be at outside of any callee.
Leaving(C, strict, x, F) ==
  {w \in PlacesFrom(ir, C, Aliases(ir, C, strict), strict, Entering(x, F)) :
     w.stack = <<>>}

\* A summary reports no flow the program does not have: some sequence of
\* instructions, with every return going back to its own call, takes a value
\* from the one formal to the other.
SummariesSound ==
  Quiescent /\ ~Wildcards =>
    \A s \in SummaryFlow : \E x \in ir.formal :
      /\ x.f = s.m2 /\ x.n = s.n2
      /\ \E w \in Leaving(Followed, FALSE, x.v, s.p2) :
           w.q = s.p1 /\ [f |-> s.m1, n |-> s.n1, v |-> w.v] \in ir.formal

\* A summary says at least what is asked: the flow between shorter paths
\* stands for the flow between the paths extended alike.
Summarised(f1, q1, f2, q2) ==
  \E s \in SummaryFlow :
    /\ s.m1 = f1.f /\ s.n1 = f1.n /\ s.m2 = f2.f /\ s.n2 = f2.n
    /\ Prefix(s.p1, q1) /\ Prefix(s.p2, q2)
    /\ After(s.p1, q1) = After(s.p2, q2)

\* The summaries miss no flow from a formal to a formal of the same function
\* that stays within the computed paths and out of globals.
SummariesComplete ==
  Quiescent /\ ~ir.disableGlobal /\ ir.omit = {} =>
    \A f2 \in ir.formal :
      \A q2 \in {q \in isComputedAccessPath : ~HasStar(q)} :
        \A w \in {w \in Leaving(isComputedAccessPath, TRUE, f2.v, q2) : ~w.free} :
          \A f1 \in {x \in ir.formal : x.v = w.v /\ FlowsOut(x.f, x.n, w.q)} :
            (f1 = f2 /\ w.q = q2) \/ Summarised(f1, w.q, f2, q2)

\* A path of a summary stands for q, as it is, extended or by its wildcard.
Covers(p, q) ==
  Prefix(p, q) \/ (HasStar(p) /\ Prefix(SubSeq(p, 1, Len(p) - 1), q))

\* "The star abstraction compensates for unbounded access paths": a flow
\* between two vertices is in some summary even when it passes through paths
\* the index does not track.
WildcardsCover ==
  Quiescent /\ ir.enableStar =>
    \A x2 \in {x \in Vertex : ~HasStar(x.p)}, f2 \in ir.formal :
      \A w \in {w \in Leaving(Followed, TRUE, x2.v, x2.p) :
                ~w.free /\ Vtx(w.v, w.q) \in Vertex \ {x2}} :
        \A f1 \in {x \in ir.formal : x.v = w.v /\ FlowsOut(x.f, x.n, w.q)} :
          f2.v = x2.v =>
            \E s \in SummaryFlow :
              /\ s.m1 = f1.f /\ s.n1 = f1.n /\ s.m2 = f2.f /\ s.n2 = f2.n
              /\ Covers(s.p1, w.q) /\ Covers(s.p2, x2.p)

\* Where an object can be outside of the calls made since it was allocated.
Allocated(C, strict, z) ==
  {w \in PlacesFrom(ir, C, Aliases(ir, C, strict), strict,
                    Place(z.v, z.p, z.v, <<>>, TRUE, Len(z.p))) : w.stack = <<>>}

Produced(obj) == UNION {Allocated(Followed, FALSE, al) : al \in {al \in ir.alloc : al.obj = obj}}

\* An object is reported only where the program can put it.
AllocsSound ==
  Quiescent /\ ~Wildcards =>
    /\ \A o \in VirtualAlloc : \E w \in Produced(o.obj) : w.v = o.v /\ w.q = o.p
    /\ \A s \in SummaryAlloc : \E w \in Produced(s.obj) :
         w.q = s.p /\ [f |-> s.f, n |-> s.n, v |-> w.v] \in ir.formal

\* Every formal an object can leave its function by is in an allocation
\* summary, for objects that stay out of globals and within computed paths.
AllocsComplete ==
  Quiescent /\ ~ir.disableGlobal /\ GlobalVariableLoad = {} =>
    \A al \in ir.alloc :
      \A w \in Allocated(isComputedAccessPath, TRUE, al) :
        \A x \in {x \in ir.formal : x.v = w.v /\ FlowsOut(x.f, x.n, w.q)} :
          [f |-> x.f, n |-> x.n, p |-> w.q, obj |-> al.obj, ctx |-> AnyContext]
            \in SummaryAlloc

----------------------------------------------------------------------------
(* The rules the sources give as the reference for the tuned ones.         *)

Nontrivial(v1, p1, v2, p2) == v1 # v2 \/ p1 # p2

\* graph/fieldprop.dl derives all that its reference, graph/fieldprop_ref.dl,
\* derives: the case split loses no propagation in either direction.
FieldPropComplete ==
  Quiescent =>
    \A a \in VirtualAssign, x \in Vertex :
      LET r1 == Carried(x.p, a.p2, a.p1)
          r2 == Carried(x.p, a.p1, a.p2)
      IN  Local(a) =>
            /\ /\ x.v = a.v2
               /\ CarriesToRef(isComputedAccessPath, x.p, a.p2, a.p1, r1)
               /\ Nontrivial(a.v1, r1, a.v2, x.p)
               => Flow(a.v1, r1, a.v2, x.p, a.ctx) \in Keys(VirtualAssign)
            /\ /\ x.v = a.v1
               /\ CarriesToRef(isComputedAccessPath, x.p, a.p1, a.p2, r2)
               /\ Nontrivial(a.v1, x.p, a.v2, r2)
               => Flow(a.v1, x.p, a.v2, r2, a.ctx) \in Keys(VirtualAssign)

\* The case split of summary instantiation (graph/access_path.dl) derives all
\* that the rule it replaces (the comment in graph/dataflow.dl) derives.
InstantiationComplete ==
  Quiescent =>
    \A s \in SummaryFlow, c1 \in CallEdge, to, from \in ir.actual :
      LET p1 == to.p \o s.p1
          p2 == from.p \o s.p2
      IN  /\ s.m1 = s.m2 /\ s.ctx = AnyContext
          /\ c1.f = s.m1 /\ c1.ctx = AnyContext
          /\ to.insn = c1.insn /\ to.n = s.n1
          /\ from.insn = c1.insn /\ from.n = s.n2
          /\ MatchComputedPrefix(isComputedAccessPath, p1, to.p, s.p1)
          /\ MatchComputedPrefix(isComputedAccessPath, p2, from.p, s.p2)
          /\ Nontrivial(to.v, p1, from.v, p2)
          => Flow(to.v, p1, from.v, p2, AnyContext) \in Keys(VirtualAssign)

\* "Any summaries for these functions are not included in the analysis" (omitted
\* functions), and --no-interprocedural-data-flow "disables interprocedural data
\* flow": where both hold of a call, by either of them no assignment comes from a
\* summary of the callee.
SwitchedOff ==
  ir.disableGlobal /\ (\A call \in ir.call : call.f \in ir.omit) =>
    \A a \in VirtualAssign : a.reason \notin {"summary", "summary2"}

=============================================================================
