------------------------------- MODULE Index -------------------------------
(***************************************************************************)
(* `ctadl index`: the dataflow graph together with what crosses functions  *)
(* through global variables (graph/globals.dl) and with the allocations    *)
(* functions hand to their callers (graph/callgraph.dl).  The three parts  *)
(* feed each other and stop together.  Hybrid inlining, which resolves     *)
(* more calls, is off.                                                     *)
(***************************************************************************)
EXTENDS Dataflow

allButGlobals == <<ir, isComputedAccessPath, VirtualAssign, LocallyReachable,
                   SummaryFlow, VirtualAlloc, SummaryAlloc>>
allButAllocs  == <<ir, isComputedAccessPath, VirtualAssign, LocallyReachable,
                   SummaryFlow, GlobalReachable, SummaryAlloc>>
allButProduce == <<ir, isComputedAccessPath, VirtualAssign, LocallyReachable,
                   SummaryFlow, VirtualAlloc, GlobalReachable>>

GlobalFlowType == [v1 : Var, p1 : Path, v2 : Var, p2 : Path]
SummaryAllocType ==
  [f : Function, n : ParamIndex, p : Path, obj : Object, ctx : Context]

GlobalFlowMutant(g1, p1, g2, p2) == Flow(g1, p1, g2, p2, AnyContext)
GlobalFlow(g1, p1, g2, p2) == [v1 |-> g1, p1 |-> p1, v2 |-> g2, p2 |-> p2]

Init ==
  /\ FlowInit
  /\ GlobalReachable = {}
  /\ SummaryAlloc = {}

----------------------------------------------------------------------------
(* Flows through globals, one function at a time.                          *)

\* The local vertex v.p gets what is in local vertex w.q.
Reaches(v, p, w, q) ==
  \/ v = w /\ p = q
  \/ \E l \in LocallyReachable : l.v1 = v /\ l.p1 = p /\ l.v2 = w /\ l.p2 = q

FormalReachesGlobalMutant(g, q, f, p) ==  \* a store to any field of g
  isFormal(ir, f) /\ \E st \in GlobalVariableStore :
                       st.v1 = g /\ Reaches(st.v2, st.p2, f, p)

\* Formal f.p reaches a store to g.q.
FormalReachesGlobal(g, q, f, p) ==
  isFormal(ir, f) /\ \E st \in GlobalVariableStore :
                       st.v1 = g /\ st.p1 = q /\ Reaches(st.v2, st.p2, f, p)

\* A load of g.q reaches formal f.p.
GlobalReachesFormal(f, p, g, q) ==
  isFormal(ir, f) /\ \E ld \in GlobalVariableLoad :
                       ld.v2 = g /\ ld.p2 = q /\ Reaches(f, p, ld.v1, ld.p1)

\* Global g1.q1 gets what is in global g2.q2, within one function.
GlobalReachesGlobal(g1, q1, g2, q2) ==
  \/ \E a \in VirtualAssign :
       a.v1 = g1 /\ a.p1 = q1 /\ a.v2 = g2 /\ a.p2 = q2 /\ isGlobal(g1) /\ isGlobal(g2)
  \/ /\ g1 # g2 \/ q1 # q2
     /\ \E st \in GlobalVariableStore, ld \in GlobalVariableLoad :
          /\ st.v1 = g1 /\ st.p1 = q1 /\ ld.v2 = g2 /\ ld.p2 = q2
          /\ Reaches(st.v2, st.p2, ld.v1, ld.p1)

GlobalVertex == {x \in Vertex : isGlobal(x.v)}

ExtendGlobal(g) ==
  /\ g \notin GlobalReachable
  /\ GlobalReachable' = GlobalReachable \cup {g}
  /\ UNCHANGED allButGlobals

GlobalClose ==
  \E to, from \in GlobalVertex :
    /\ GlobalReachesGlobal(to.v, to.p, from.v, from.p)
    /\ \/ ExtendGlobal(GlobalFlow(to.v, to.p, from.v, from.p))
       \/ \E r \in GlobalReachable :
            /\ r.v1 = from.v /\ r.p1 = from.p
            /\ ExtendGlobal(GlobalFlow(to.v, to.p, r.v2, r.p2))

\* Global g1.q1 may hold what is stored to global g2.q2.
GlobalHolds(g1, q1, g2, q2) ==
  (g1 = g2 /\ q1 = q2) \/ GlobalFlow(g1, q1, g2, q2) \in GlobalReachable

\* A formal reaches a store to a global whose contents reach another formal.
SummarizeGlobals ==
  \E to, from \in GlobalVertex, x1, x2 \in Vertex, f1, f2 \in ir.formal :
    /\ f1.v = x1.v /\ f2.v = x2.v
    /\ FormalReachesGlobal(from.v, from.p, x2.v, x2.p)
    /\ GlobalHolds(to.v, to.p, from.v, from.p)
    /\ GlobalReachesFormal(x1.v, x1.p, to.v, to.p)
    /\ f1.n # f2.n \/ x1.p # x2.p \/ f1.f # f2.f
    /\ FlowsOut(f1.f, f1.n, x1.p)
    /\ Summarize(Summary(f1.f, f1.n, x1.p, f2.f, f2.n, x2.p, AnyContext))

----------------------------------------------------------------------------
(* Allocations.                                                            *)

Allocate(o) ==
  /\ o \notin VirtualAlloc
  /\ VirtualAlloc' = VirtualAlloc \cup {o}
  /\ UNCHANGED allButAllocs

\* An object stored to a global is allocated to whatever loads it.
AllocThroughGlobals ==
  \E st \in GlobalVariableStore, ld \in GlobalVariableLoad, o \in VirtualAlloc :
    /\ o.v = st.v2 /\ o.p = st.p2
    /\ GlobalHolds(ld.v2, ld.p2, st.v1, st.p1)
    /\ Allocate([v |-> ld.v1, p |-> ld.p1, obj |-> o.obj, ctx |-> AnyContext])

AllocInstantiateMutant ==  \* to any actual of the call
  \E s \in SummaryAlloc, c \in CallEdge, to \in ir.actual :
    LET p == to.p \o s.p
    IN  /\ s.ctx = AnyContext /\ c.ctx = AnyContext
        /\ c.f = s.f /\ to.insn = c.insn
        /\ \/ OneEmptyCat(p, to.p, s.p)
           \/ ComputedAccessPathNonEmptySplit(isComputedAccessPath, p, to.p, s.p)
        /\ Allocate([v |-> to.v, p |-> p, obj |-> s.obj, ctx |-> AnyContext])

\* A call allocates to its actuals what its callee produces in the formals.
AllocInstantiate ==
  \E s \in SummaryAlloc, c \in CallEdge, to \in ir.actual :
    LET p == to.p \o s.p
    IN  /\ s.ctx = AnyContext /\ c.ctx = AnyContext
        /\ c.f = s.f /\ to.insn = c.insn /\ to.n = s.n
        /\ \/ OneEmptyCat(p, to.p, s.p)
           \/ ComputedAccessPathNonEmptySplit(isComputedAccessPath, p, to.p, s.p)
        /\ Allocate([v |-> to.v, p |-> p, obj |-> s.obj, ctx |-> AnyContext])

SummarizeAllocation(s) ==
  /\ s \notin SummaryAlloc
  /\ SummaryAlloc' = SummaryAlloc \cup {s}
  /\ UNCHANGED allButProduce

\* CallStringUnder: call string d starts with c.
Under(c, d) == Len(c) <= Len(d) /\ SubSeq(d, 1, Len(c)) = c

\* The context of an object (c1) that flows on in context c2.
AllocContext(c0, c1, c2) ==
  (c1 = AnyContext /\ c0 = c2) \/ (Under(c2, c1) /\ c0 = c1)

SummarizeAllocMutant ==  \* only objects in vertices that reach a formal
  \E o \in VirtualAlloc, f \in ir.formal :
    /\ ~ir.disableGlobal
    /\ \E l \in LocallyReachable : \E ctx \in {o.ctx, l.ctx} :
         /\ l.v2 = o.v /\ l.p2 = o.p /\ l.v1 = f.v
         /\ FlowsOut(f.f, f.n, l.p1)
         /\ AllocContext(ctx, o.ctx, l.ctx)
         /\ SummarizeAllocation([f |-> f.f, n |-> f.n, p |-> l.p1, obj |-> o.obj, ctx |-> ctx])

\* An object in a formal, or in a vertex that reaches a formal.
SummarizeAlloc ==
  \E o \in VirtualAlloc, f \in ir.formal :
    /\ ~ir.disableGlobal
    /\ \/ /\ o.v = f.v
          /\ FlowsOut(f.f, f.n, o.p)
          /\ SummarizeAllocation([f |-> f.f, n |-> f.n, p |-> o.p, obj |-> o.obj, ctx |-> o.ctx])
       \/ \E l \in LocallyReachable : \E ctx \in {o.ctx, l.ctx} :
            /\ l.v2 = o.v /\ l.p2 = o.p /\ l.v1 = f.v
            /\ FlowsOut(f.f, f.n, l.p1)
            /\ AllocContext(ctx, o.ctx, l.ctx)
            /\ SummarizeAllocation([f |-> f.f, n |-> f.n, p |-> l.p1, obj |-> o.obj, ctx |-> ctx])

\* The object is written below an alias of the formal: see SummarizeAlias.
SummarizeAllocAlias ==
  \E held, written \in LocallyReachable, o \in VirtualAlloc, f \in ir.formal :
    LET FH == held.p2 \o After(held.p1, written.p1)
    IN  /\ held.v1 = written.v1
        /\ held.v2 # written.v2 /\ held.p1 # written.p1
        /\ held.ctx = AnyContext /\ written.ctx = AnyContext
        /\ o.v = written.v2 /\ o.p = written.p2
        /\ AliasedWrite(isComputedAccessPath, held.p1, written.p1, held.p2, FH)
        /\ f.v = held.v2
        /\ SummarizeAllocation([f |-> f.f, n |-> f.n, p |-> FH, obj |-> o.obj, ctx |-> o.ctx])

----------------------------------------------------------------------------

Next ==
  \/ FlowNext
  \/ GlobalClose \/ SummarizeGlobals
  \/ AllocThroughGlobals \/ AllocInstantiate
  \/ SummarizeAlloc \/ SummarizeAllocAlias

\* The rule engine stops only when no rule derives anything new.
Quiescent == ~ENABLED Next

Fairness == WF_vars(Next)

Spec == Init /\ [][Next]_vars /\ Fairness

----------------------------------------------------------------------------
(* Safety.                                                                 *)

TypeOK ==
  /\ ir \in Programs
  /\ isComputedAccessPath \subseteq Path
  /\ VirtualAssign \subseteq AssignType
  /\ LocallyReachable \subseteq FlowType
  /\ SummaryFlow \subseteq SummaryType
  /\ VirtualAlloc \subseteq AllocType
  /\ GlobalReachable \subseteq GlobalFlowType
  /\ SummaryAlloc \subseteq SummaryAllocType

\* The index never raises "LocallyReachable reaches across two functions" nor
\* "LocallyReachable: ... is global": reachability crosses functions only
\* in summaries and globals, however the rules combine.
ReachWithinFunction ==
  \A l \in LocallyReachable :
    /\ ~isGlobal(l.v1) /\ ~isGlobal(l.v2)
    /\ ir.inFunction[l.v1] = ir.inFunction[l.v2]

\* The index never raises "AP with only STAR (.*) not at end": no rule
\* extends a wildcard.
StarOnlyAtEnd == \A ap \in isComputedAccessPath : StarOnlyLast(ap)

\* Path p has at most n components, not counting a wildcard.
Fits(n, p) == Len(p) <= n \/ (HasStar(p) /\ Len(p) <= n + 1)

\* No longer than the program's own paths and the limit of the settings.
WithinLimit(p) ==
  \E n \in {ir.maxLength} \cup {Len(q) : q \in ProgramPaths(ir)} : Fits(n, p)

\* The rules concatenate paths with each other and around recursive calls, yet
\* no tuple of any relation has a path longer than this limit: there are
\* finitely many tuples to derive, so the index stops.
PathsBounded ==
  /\ \A p \in isComputedAccessPath : WithinLimit(p)
  /\ \A x \in VirtualAssign \cup LocallyReachable \cup SummaryFlow \cup GlobalReachable :
       WithinLimit(x.p1) /\ WithinLimit(x.p2)
  /\ \A x \in VirtualAlloc \cup SummaryAlloc : WithinLimit(x.p)

\* Every assignment is reported at an instruction of the function whose local
\* it writes, although field propagation, the wildcards and the summaries of
\* other functions pass the instruction on from rule to rule and the choice
\* keeps whichever instruction came first.
InstructionOfTarget ==
  \A a \in VirtualAssign :
    ~isGlobal(a.v1) => ir.inFunction[a.v1] = ir.insnIn[a.insn]

=============================================================================
