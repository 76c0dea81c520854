------------------------------ MODULE Dataflow ------------------------------
(***************************************************************************)
(* The index's dataflow graph of one program (graph/dataflow.dl with       *)
(* graph/fieldprop.dl and graph/star.dl): virtual assignments, the         *)
(* reachability inside functions and the function summaries, computed      *)
(* together as one fixpoint.                                               *)
(*                                                                         *)
(* A step derives one tuple that was not there, so a behaviour is one      *)
(* order in which the rule engine may derive them.  A relation that feeds  *)
(* no recursion of its own (Vertex, the roots, the loads and stores of     *)
(* globals) is an operator over the state.  Init is the state after the    *)
(* rules that read only the program.                                       *)
(***************************************************************************)
EXTENDS ProgramIR, FiniteSets

VARIABLES
  ir,                    \* the program, never changed
  isComputedAccessPath,
  VirtualAssign,
  LocallyReachable,
  SummaryFlow,
  VirtualAlloc,
  GlobalReachable,       \* flows from global to global, and
  SummaryAlloc           \* objects produced in formals: see Index

vars == <<ir, isComputedAccessPath, VirtualAssign, LocallyReachable, SummaryFlow,
          VirtualAlloc, GlobalReachable, SummaryAlloc>>

\* What the rules for one relation leave alone.
allButAssigns == <<ir, isComputedAccessPath, LocallyReachable, SummaryFlow,
                   VirtualAlloc, GlobalReachable, SummaryAlloc>>
allButPaths   == <<ir, VirtualAssign, LocallyReachable, SummaryFlow,
                   VirtualAlloc, GlobalReachable, SummaryAlloc>>
allButStars   == <<ir, LocallyReachable, SummaryFlow,
                   VirtualAlloc, GlobalReachable, SummaryAlloc>>
allButReach   == <<ir, isComputedAccessPath, VirtualAssign, SummaryFlow,
                   VirtualAlloc, GlobalReachable, SummaryAlloc>>
allButFlows   == <<ir, isComputedAccessPath, VirtualAssign, LocallyReachable,
                   VirtualAlloc, GlobalReachable, SummaryAlloc>>

Context == Seq(Function)  \* a call string, the innermost frame first
AnyContext == <<>>

Reasons == {"move", "summary", "summary2", "fp", "star", "model"}

FlowType == [v1 : Var, p1 : Path, v2 : Var, p2 : Path, ctx : Context]
AssignType ==
  [insn : Insn, v1 : Var, p1 : Path, v2 : Var, p2 : Path,
   reason : Reasons, ctx : Context]
SummaryType ==
  [m1 : Function, n1 : ParamIndex, p1 : Path,
   m2 : Function, n2 : ParamIndex, p2 : Path, ctx : Context]
AllocType == [v : Var, p : Path, obj : Object, ctx : Context]

Flow(v1, p1, v2, p2, ctx) ==
  [v1 |-> v1, p1 |-> p1, v2 |-> v2, p2 |-> p2, ctx |-> ctx]
Assign(insn, v1, p1, v2, p2, reason, ctx) ==
  [insn |-> insn, v1 |-> v1, p1 |-> p1, v2 |-> v2, p2 |-> p2,
   reason |-> reason, ctx |-> ctx]

isGlobal(v) == v \in ir.global
Local(a) == ~isGlobal(a.v1) /\ ~isGlobal(a.v2)

----------------------------------------------------------------------------
(* The relations the rules read.                                           *)

\* The columns of VirtualAssign's choice-domain.
Key(a) == Flow(a.v1, a.p1, a.v2, a.p2, a.ctx)
Keys(S) == {Key(a) : a \in S}

InitialVertex ==
  {x \in ir.use \cup {Vtx(m.v1, m.p1) : m \in ir.move}
              \cup {Vtx(m.v2, m.p2) : m \in ir.move}
              \cup {Vtx(x.v, Empty) : x \in ir.formal}
              \cup {Vtx(x.v, x.p) : x \in ir.actual} :
     x.p \in CisAccessPath(ir)}

Vertex ==
  InitialVertex \cup {Vtx(a.v1, a.p1) : a \in VirtualAssign}
                \cup {Vtx(a.v2, a.p2) : a \in VirtualAssign}
                \cup {Vtx(o.v, o.p) : o \in VirtualAlloc}

CallEdge == InitialCallEdges(ir)

GlobalVariableLoad  == {a \in VirtualAssign : isGlobal(a.v2) /\ ~isGlobal(a.v1)}
GlobalVariableStore == {a \in VirtualAssign : isGlobal(a.v1) /\ ~isGlobal(a.v2)}

LocallyReachable_Root ==
  {x \in Vertex :
     \/ isFormal(ir, x.v)
     \/ \E a \in GlobalVariableLoad : a.v1 = x.v /\ a.p1 = x.p
     \/ \E o \in VirtualAlloc : o.v = x.v /\ o.p = x.p}

LocallyReachable_CtxEdgeMutant ==  \* across functions too
  {a \in VirtualAssign : Local(a)}

LocallyReachable_CtxEdge ==
  {a \in VirtualAssign : Local(a) /\ ir.inFunction[a.v1] = ir.inFunction[a.v2]}

\* CheckSubstring: the frames of c are adjacent frames of d.
Within(c, d) == \E i \in 0 .. Len(d) - Len(c) : c = SubSeq(d, i + 1, i + Len(c))

\* Of two call strings where one lies within the other, the longer.
ContextOut(c0, c1, c2) ==
  IF Within(c2, c1) THEN c0 = c1 ELSE Within(c1, c2) /\ c0 = c2

\* An assignment seen from the end a path is carried from.
Forwards(a)  == [near |-> a.p2, nearVar |-> a.v2, far |-> a.p1, farVar |-> a.v1]
Backwards(a) == [near |-> a.p1, nearVar |-> a.v1, far |-> a.p2, farVar |-> a.v2]

----------------------------------------------------------------------------
(* Initial graph.                                                          *)

MoveAssigns ==
  {Assign(m.insn, m.v1, m.p1, m.v2, m.p2, "move", AnyContext) :
     m \in {m \in ir.move : /\ m.v1 # m.v2 \/ m.p1 # m.p2
                            /\ {m.p1, m.p2} \subseteq CisAccessPath(ir)}}

ModelAssigns ==
  {Assign(m.insn, m.v1, m.p1, m.v2, m.p2, "model", AnyContext) : m \in ir.insnModel}

\* One assignment for every key, whichever is derived first.
OnePerKey(S) ==
  {T \in SUBSET S : Keys(T) = Keys(S) /\ \A a, b \in T : Key(a) = Key(b) => a = b}

FlowInit ==
  /\ ir \in Programs
  /\ isComputedAccessPath = InitialPaths(ir)
  /\ VirtualAssign \in OnePerKey(MoveAssigns \cup ModelAssigns)
  /\ LocallyReachable = {}
  /\ SummaryFlow = ModelFlows(ir)
  /\ VirtualAlloc = {[v |-> o.v, p |-> o.p, obj |-> o.obj, ctx |-> AnyContext] : o \in ir.alloc}

----------------------------------------------------------------------------
(* Virtual assignments.                                                    *)

\* The choice-domain: an assignment with the key of another is dropped.
Derive(a) ==
  /\ a.v1 # a.v2 \/ a.p1 # a.p2
  /\ Key(a) \notin Keys(VirtualAssign)
  /\ VirtualAssign' = VirtualAssign \cup {a}

\* Rewrites summary s over the actuals of call edges c1 (of s.m1) and c2.
InstantiateMutant(s, c1, c2, reason) ==  \* any actual of the source's call
  /\ s.ctx = AnyContext
  /\ c1.f = s.m1 /\ c1.ctx = AnyContext
  /\ c2.f = s.m2 /\ c2.ctx = AnyContext
  /\ \E to \in ir.actual, from \in ir.actual :
       /\ to.insn = c1.insn /\ to.n = s.n1
       /\ from.insn = c2.insn
       /\ LET p1 == to.p \o s.p1
              p2 == from.p \o s.p2
          IN  /\ ActualToFormal(isComputedAccessPath, p1, to.p, s.p1, p2, from.p, s.p2)
              /\ Derive(Assign(c1.insn, to.v, p1, from.v, p2, reason, AnyContext))
  /\ UNCHANGED allButAssigns

InstantiateAtSource(s, c1, c2, reason) ==  \* reported at the source's call
  /\ s.ctx = AnyContext
  /\ c1.f = s.m1 /\ c1.ctx = AnyContext
  /\ c2.f = s.m2 /\ c2.ctx = AnyContext
  /\ \E to \in ir.actual, from \in ir.actual :
       /\ to.insn = c1.insn /\ to.n = s.n1
       /\ from.insn = c2.insn /\ from.n = s.n2
       /\ LET p1 == to.p \o s.p1
              p2 == from.p \o s.p2
          IN  /\ ActualToFormal(isComputedAccessPath, p1, to.p, s.p1, p2, from.p, s.p2)
              /\ Derive(Assign(c2.insn, to.v, p1, from.v, p2, reason, AnyContext))
  /\ UNCHANGED allButAssigns

Instantiate(s, c1, c2, reason) ==
  /\ s.ctx = AnyContext
  /\ c1.f = s.m1 /\ c1.ctx = AnyContext
  /\ c2.f = s.m2 /\ c2.ctx = AnyContext
  /\ \E to \in ir.actual, from \in ir.actual :
       /\ to.insn = c1.insn /\ to.n = s.n1
       /\ from.insn = c2.insn /\ from.n = s.n2
       /\ LET p1 == to.p \o s.p1
              p2 == from.p \o s.p2
          IN  /\ ActualToFormal(isComputedAccessPath, p1, to.p, s.p1, p2, from.p, s.p2)
              /\ Derive(Assign(c1.insn, to.v, p1, from.v, p2, reason, AnyContext))
  /\ UNCHANGED allButAssigns

SummaryInstantiate ==
  \E s \in SummaryFlow, c \in CallEdge : s.m1 = s.m2 /\ Instantiate(s, c, c, "summary")

SummaryInstantiate2 ==
  \E s \in SummaryFlow, c1, c2 \in CallEdge :
    s.m1 # s.m2 /\ Instantiate(s, c1, c2, "summary2")

DynamicAccessPathMutant ==  \* without the length limit
  \E a \in VirtualAssign, x \in Vertex : \E e \in {Forwards(a), Backwards(a)} :
    LET dH   == After(e.near, x.p)
        dGdH == e.far \o dH
    IN  /\ Local(a)
        /\ x.v = e.nearVar
        /\ MatchComputedPrefix(isComputedAccessPath, x.p, e.near, dH)
        /\ dH # Empty
        /\ ~HasStar(dGdH)
        /\ ~AccessPathCycle(dGdH)
        /\ dGdH \notin isComputedAccessPath
        /\ isComputedAccessPath' = isComputedAccessPath \cup {dGdH}
        /\ UNCHANGED allButPaths

\* A vertex accessed deeper than the near end of an assignment asks for the
\* same access at the far end, within the length limit and without repeats.
DynamicAccessPath ==
  \E a \in VirtualAssign, x \in Vertex : \E e \in {Forwards(a), Backwards(a)} :
    LET dH   == After(e.near, x.p)
        dGdH == e.far \o dH
    IN  /\ Local(a)
        /\ x.v = e.nearVar
        /\ MatchComputedPrefix(isComputedAccessPath, x.p, e.near, dH)
        /\ dH # Empty
        /\ ~HasStar(dGdH)
        /\ ~AccessPathCycle(dGdH)
        /\ AccessPathSize(dGdH) <= ir.maxLength
        /\ dGdH \notin isComputedAccessPath
        /\ isComputedAccessPath' = isComputedAccessPath \cup {dGdH}
        /\ UNCHANGED allButPaths

\* The source of a is accessed at x.p: its target is accessed likewise.
FieldPropForward ==
  \E a \in VirtualAssign, x \in Vertex :
    LET r == Carried(x.p, a.p2, a.p1)
    IN  /\ Local(a)
        /\ x.v = a.v2
        /\ CarriesTo(isComputedAccessPath, x.p, a.p2, a.p1, r)
        /\ Derive(Assign(a.insn, a.v1, r, a.v2, x.p, "fp", a.ctx))
        /\ UNCHANGED allButAssigns

FieldPropBackward ==
  \E a \in VirtualAssign, x \in Vertex :
    LET r == Carried(x.p, a.p1, a.p2)
    IN  /\ Local(a)
        /\ x.v = a.v1
        /\ CarriesTo(isComputedAccessPath, x.p, a.p1, a.p2, r)
        /\ Derive(Assign(a.insn, a.v1, x.p, a.v2, r, "fp", a.ctx))
        /\ UNCHANGED allButAssigns

NeedsStarMutant(C, q, near, far) ==  \* also after a wildcard
  LET rest == After(near, q)
  IN  /\ \/ ComputedAccessPathNonEmptySplit(C, q, near, rest)
         \/ near = Empty /\ far # Empty /\ q # Empty
      /\ far \o rest \notin CisAccessPath(ir)

\* Where the far end has no path of the program for the deeper access q of
\* the near end, the access is summed up by the far end's wildcard.
NeedsStar(C, q, near, far) ==
  LET rest == After(near, q)
  IN  /\ \/ ComputedAccessPathNonEmptySplit(C, q, near, rest)
         \/ near = Empty /\ far # Empty /\ q # Empty
      /\ ~HasStar(far)
      /\ far \o rest \notin CisAccessPath(ir)

\* Adds assignment a and its wildcarded path p; the choice may drop a alone.
DeriveStar(a, p) ==
  /\ \/ Derive(a)
     \/ /\ Key(a) \in Keys(VirtualAssign)
        /\ p \notin isComputedAccessPath
        /\ UNCHANGED VirtualAssign
  /\ isComputedAccessPath' = isComputedAccessPath \cup {p}
  /\ UNCHANGED allButStars

StarForward ==
  \E a \in VirtualAssign, x \in Vertex :
    LET r == Append(a.p1, STAR)
    IN  /\ ir.enableStar
        /\ Local(a)
        /\ x.v = a.v2
        /\ NeedsStar(isComputedAccessPath, x.p, a.p2, a.p1)
        /\ DeriveStar(Assign(a.insn, a.v1, r, a.v2, x.p, "star", a.ctx), r)

StarBackwardMutant ==  \* wildcards the target's path
  \E a \in VirtualAssign, x \in Vertex :
    LET r == Append(a.p1, STAR)
    IN  /\ ir.enableStar
        /\ Local(a)
        /\ x.v = a.v1
        /\ NeedsStar(isComputedAccessPath, x.p, a.p1, a.p2)
        /\ DeriveStar(Assign(a.insn, a.v1, r, a.v2, a.p2, "star", a.ctx), r)

StarBackward ==
  \E a \in VirtualAssign, x \in Vertex :
    LET r == Append(a.p2, STAR)
    IN  /\ ir.enableStar
        /\ Local(a)
        /\ x.v = a.v1
        /\ NeedsStar(isComputedAccessPath, x.p, a.p1, a.p2)
        /\ DeriveStar(Assign(a.insn, a.v1, x.p, a.v2, r, "star", a.ctx), r)

----------------------------------------------------------------------------
(* Local reachability and summaries.                                       *)

Reach(l) ==
  /\ l \notin LocallyReachable
  /\ LocallyReachable' = LocallyReachable \cup {l}
  /\ UNCHANGED allButReach

ReachFromRoot ==
  \E a \in LocallyReachable_CtxEdge :
    Vtx(a.v2, a.p2) \in LocallyReachable_Root /\ Reach(Key(a))

ReachStep ==
  \E l \in LocallyReachable, a \in LocallyReachable_CtxEdge : \E ctx \in {l.ctx, a.ctx} :
    /\ a.v2 = l.v1 /\ a.p2 = l.p1
    /\ ContextOut(ctx, l.ctx, a.ctx)
    /\ Reach(Flow(a.v1, a.p1, l.v2, l.p2, ctx))

Summarize(s) ==
  /\ s \notin SummaryFlow
  /\ SummaryFlow' = SummaryFlow \cup {s}
  /\ UNCHANGED allButFlows

\* Something flows back out of a formal when it is written below the formal
\* or the formal is passed by reference.
FlowsOut(m, n, p) == p # Empty \/ isByRef(ir, m, n)

SummarizeFlow ==
  \E l \in LocallyReachable, f1, f2 \in ir.formal :
    /\ f1.v = l.v1 /\ f2.v = l.v2
    /\ f1.n # f2.n \/ l.p1 # l.p2 \/ f1.f # f2.f
    /\ FlowsOut(f1.f, f1.n, l.p1)
    /\ {f1.f, f2.f} \cap ir.omit = {}
    /\ ~ir.disableGlobal
    /\ Summarize(Summary(f1.f, f1.n, l.p1, f2.f, f2.n, l.p2, l.ctx))

AliasedWriteMutant(C, G, GH, F, FH) ==  \* not when a is the formal itself
  LET H == After(G, GH)
  IN  /\ ComputedAccessPathNonEmptySplit(C, GH, G, H)
      /\ F = Empty \/ ComputedAccessPathNonEmptySplit(C, FH, F, H)

\* a.G holds formal x.F and y.K is written below it, to a.GH: the write goes
\* to x.FH as well, where FH extends F by what GH extends G by.
AliasedWrite(C, G, GH, F, FH) ==
  LET H == After(G, GH)
  IN  /\ G = Empty \/ ComputedAccessPathNonEmptySplit(C, GH, G, H)
      /\ F = Empty \/ ComputedAccessPathNonEmptySplit(C, FH, F, H)

SummarizeAlias ==
  \E held, written \in LocallyReachable, f1, f2 \in ir.formal :
    LET FH == held.p2 \o After(held.p1, written.p1)
    IN  /\ held.v1 = written.v1
        /\ held.v2 # written.v2 /\ held.p1 # written.p1
        /\ held.ctx = AnyContext /\ written.ctx = AnyContext
        /\ AliasedWrite(isComputedAccessPath, held.p1, written.p1, held.p2, FH)
        /\ f1.v = held.v2 /\ f2.v = written.v2 /\ f1.f = f2.f
        /\ f1.n # f2.n \/ FH # written.p2
        /\ Summarize(Summary(f1.f, f1.n, FH, f2.f, f2.n, written.p2, AnyContext))

FlowNext ==
  \/ SummaryInstantiate \/ SummaryInstantiate2
  \/ DynamicAccessPath
  \/ FieldPropForward \/ FieldPropBackward
  \/ StarForward \/ StarBackward
  \/ ReachFromRoot \/ ReachStep
  \/ SummarizeFlow \/ SummarizeAlias

=============================================================================
