---------------------------- MODULE Index_proofs ----------------------------
(***************************************************************************)
(* What the path operators return, for every set of fields: the splits cut *)
(* a path exactly, and the case splits the rules are tuned with lose       *)
(* nothing of the rules they stand for, or lose exactly what is stated.    *)
(* And the index's invariants, for every set of well-formed programs:      *)
(* types, the error rules that never fire, the bound on the length of      *)
(* paths and the instruction an assignment is reported at.                 *)
(***************************************************************************)
EXTENDS Index, SequenceTheorems, TLAPS

----------------------------------------------------------------------------
(* Access paths.                                                           *)

\* After is again a path, never longer than the path it is cut from.
LEMMA AfterPath ==
  ASSUME NEW pre \in Path, NEW ap \in Path
  PROVE  /\ After(pre, ap) \in Path
         /\ Len(After(pre, ap)) <= Len(ap)
         /\ Len(pre) <= Len(ap) => Len(After(pre, ap)) = Len(ap) - Len(pre)
         /\ pre = Empty => After(pre, ap) = ap
  BY DEF After, Path, Empty

\* Cutting off what was put in front gives back the rest.
LEMMA AfterConcat ==
  ASSUME NEW pre \in Path, NEW suf \in Path
  PROVE  After(pre, pre \o suf) = suf
  BY DEF After, Path

\* MatchComputedPrefix takes apart computed paths only, and exactly: nothing of
\* the path is lost or added between the prefix and the suffix.
THEOREM MatchIsExact ==
  ASSUME NEW C, C \subseteq Path, NEW ap, NEW pre \in Path, NEW suf \in Path,
         MatchComputedPrefix(C, ap, pre, suf)
  PROVE  ap \in C /\ ap = pre \o suf /\ suf = After(pre, ap)
<1>1. ap \in C /\ ap = pre \o suf
  <2>1. CASE ComputedAccessPathNonEmptySplit(C, ap, pre, suf)
    BY <2>1 DEF ComputedAccessPathNonEmptySplit
  <2>2. CASE pre = Empty /\ ap = suf /\ ap \in C
    BY <2>2, ConcatEmptySeq DEF Empty, Path
  <2>3. CASE suf = Empty /\ ap = pre /\ ap \in C
    BY <2>3, ConcatEmptySeq DEF Empty, Path
  <2> QED  BY <2>1, <2>2, <2>3, Zenon DEF MatchComputedPrefix
<1> QED  BY <1>1, AfterConcat

\* A summary becomes an assignment between the concatenated paths, and these
\* are never longer than what they are put together from, unless computed.
THEOREM ActualToFormalIsExact ==
  ASSUME NEW C, NEW to, NEW at \in Path, NEW st \in Path,
         NEW from, NEW af \in Path, NEW sf \in Path,
         ActualToFormal(C, to, at, st, from, af, sf)
  PROVE  /\ to = at \o st /\ from = af \o sf
         /\ to \in C \cup {at, st} /\ from \in C \cup {af, sf}
<1>1. ASSUME NEW out, NEW x \in Path, NEW y \in Path,
             OneEmptyCat(out, x, y)
      PROVE  out = x \o y /\ out \in {x, y}
  BY <1>1, ConcatEmptySeq DEF OneEmptyCat, Empty, Path
<1>2. ASSUME NEW ap, NEW pre \in Path, NEW suf \in Path,
             ComputedAccessPathNonEmptySplit(C, ap, pre, suf)
      PROVE  ap = pre \o suf /\ ap \in C
  BY <1>2 DEF ComputedAccessPathNonEmptySplit
<1>3. CASE ActualToFormalComputedPrefixCase0(to, at, st, from, af, sf)
  BY <1>3, <1>1 DEF ActualToFormalComputedPrefixCase0
<1>4. CASE ActualToFormalComputedPrefixCase1(C, to, at, st, from, af, sf)
  <2>1. CASE ComputedAccessPathNonEmptySplit(C, from, af, sf) /\ OneEmptyCat(to, at, st)
    BY <2>1, <1>1, <1>2
  <2>2. CASE ComputedAccessPathNonEmptySplit(C, to, at, st) /\ OneEmptyCat(from, af, sf)
    <3>1. to = at \o st /\ to \in C
      BY <2>2, <1>2
    <3>2. from = af \o sf /\ from \in {af, sf}
      BY <2>2, <1>1
    <3> QED  BY <3>1, <3>2
  <2> QED  BY <1>4, <2>1, <2>2, Zenon DEF ActualToFormalComputedPrefixCase1
<1>5. CASE ActualToFormalComputedPrefixCase2(C, to, at, st, from, af, sf)
  BY <1>5, <1>2 DEF ActualToFormalComputedPrefixCase2
<1> QED  BY <1>3, <1>4, <1>5 DEF ActualToFormal

\* A path carried over an assignment keeps what extends the near end and
\* changes nothing else; it is computed unless it is the path it came from.
THEOREM CarriesToIsExact ==
  ASSUME NEW C, C \subseteq Path, NEW q \in Path, NEW near \in Path,
         NEW far \in Path, NEW r \in Path, CarriesTo(C, q, near, far, r)
  PROVE  /\ q = near \o After(near, q) /\ r = far \o After(near, q)
         /\ r \in C \cup {q}
<1> DEFINE rest == After(near, q)
<1>0. rest \in Path
  BY AfterPath
<1>1. CASE near = Empty /\ far = Empty /\ r = q
  BY <1>1, AfterPath, ConcatEmptySeq DEF Empty, Path
<1>2. CASE far = Empty /\ ComputedAccessPathNonEmptySplit(C, q, near, r) /\ r \in C
  BY <1>2, AfterConcat, ConcatEmptySeq DEF ComputedAccessPathNonEmptySplit, Empty, Path
<1>3. CASE near = Empty /\ ComputedAccessPathNonEmptySplit(C, r, far, q)
  BY <1>3, AfterPath, ConcatEmptySeq DEF ComputedAccessPathNonEmptySplit, Empty, Path
<1>4. CASE /\ ComputedAccessPathNonEmptySplit(C, q, near, rest)
           /\ ComputedAccessPathNonEmptySplit(C, r, far, rest)
  BY <1>4 DEF ComputedAccessPathNonEmptySplit
<1> QED  BY <1>1, <1>2, <1>3, <1>4 DEF CarriesTo

\* The four cases of field propagation lose nothing of the reference rule but
\* the assignment it starts from.
THEOREM CarriesToIsExhaustive ==
  ASSUME NEW C, C \subseteq Path, NEW q \in Path, NEW near \in Path,
         NEW far \in Path, NEW r \in Path, CarriesToRef(C, q, near, far, r)
  PROVE  CarriesTo(C, q, near, far, r) \/ (q = near /\ r = far)
<1> DEFINE rest == After(near, q)
<1>0. rest \in Path
  BY AfterPath
<1>1. /\ MatchComputedPrefix(C, q, near, rest) /\ q = near \o rest
      /\ MatchComputedPrefix(C, r, far, rest) /\ r = far \o rest
  BY <1>0, MatchIsExact DEF CarriesToRef
<1>2. CASE rest = Empty
  BY <1>1, <1>2, ConcatEmptySeq DEF Empty, Path
<1>3. CASE rest # Empty /\ near = Empty
  <2>1. rest = q
    BY <1>0, <1>1, <1>3, ConcatEmptySeq DEF Empty, Path
  <2>2. CASE far = Empty
    BY <1>1, <1>3, <2>1, <2>2, ConcatEmptySeq DEF CarriesTo, Empty, Path
  <2>3. CASE far # Empty
    BY <1>1, <1>3, <2>1, <2>3 DEF CarriesTo, MatchComputedPrefix
  <2> QED  BY <2>2, <2>3
<1>4. CASE rest # Empty /\ near # Empty
  <2>1. ComputedAccessPathNonEmptySplit(C, q, near, rest)
    BY <1>1, <1>4 DEF MatchComputedPrefix
  <2>2. CASE far = Empty
    <3>1. r = rest /\ r \in C
      BY <1>0, <1>1, <2>2, MatchIsExact, ConcatEmptySeq DEF Empty, Path
    <3> QED  BY <2>1, <2>2, <3>1 DEF CarriesTo
  <2>3. CASE far # Empty
    BY <1>1, <1>4, <2>1, <2>3 DEF CarriesTo, MatchComputedPrefix
  <2> QED  BY <2>2, <2>3
<1> QED  BY <1>2, <1>3, <1>4


----------------------------------------------------------------------------
(* The program and what is derived from it alone.                          *)

LEMMA ProgramFacts ==
  ASSUME TypeOK
  PROVE  ir \in Programs /\ ir \in ProgramType /\ WellFormed(ir)
  BY ProgramsAssumption, ProgramsWellFormed DEF TypeOK

LEMMA PathConstants == Empty \in Path /\ <<STAR>> \in Path
  BY DEF Empty, Path

LEMMA AppendStar ==
  ASSUME NEW p \in Path
  PROVE  /\ Append(p, STAR) \in Path /\ p \o <<STAR>> \in Path
         /\ Append(p, STAR) = p \o <<STAR>>
         /\ Len(p \o <<STAR>>) = Len(p) + 1
         /\ HasStar(p \o <<STAR>>)
         /\ ~HasStar(p) => StarOnlyLast(p \o <<STAR>>)
<1>1. /\ Append(p, STAR) \in Path /\ p \o <<STAR>> \in Path
      /\ Append(p, STAR) = p \o <<STAR>>
      /\ Len(p \o <<STAR>>) = Len(p) + 1
  BY DEF Path
<1>2. (p \o <<STAR>>)[Len(p) + 1] = STAR /\ \A i \in 1 .. Len(p) : (p \o <<STAR>>)[i] = p[i]
  BY DEF Path
<1>3. Len(p) \in Nat
  BY DEF Path
<1> QED  BY <1>1, <1>2, <1>3 DEF HasStar, StarOnlyLast

LEMMA InitialTypes ==
  ASSUME NEW P \in ProgramType
  PROVE  /\ CisAccessPath(P) \subseteq Path
         /\ InitialPaths(P) \subseteq Path
         /\ ModelFlows(P) \subseteq SummaryType
         /\ InitialCallEdges(P) \subseteq [insn : Insn, f : Function, ctx : Context]
         /\ ProgramPaths(P) \subseteq Path
<1>1. /\ ApplicableModels(P) \subseteq ModelType
      /\ ApplicableFrom(P) \subseteq InfluenceType
      /\ ApplicableTo(P) \subseteq InfluenceType
      /\ P.paths \subseteq Path
  BY DEF ProgramType, ApplicableModels, ApplicableFrom, ApplicableTo
<1>2. CisAccessPath(P) \subseteq Path
  BY <1>1, PathConstants DEF CisAccessPath, ModelType, InfluenceType
<1>3. InitialPaths(P) \subseteq Path
  BY <1>1, <1>2, AppendStar DEF InitialPaths, InfluenceType
<1>4. <<>> \in Context
  BY DEF Context
<1>5. ModelFlows(P) \subseteq SummaryType
  <2>1. ASSUME NEW m \in ApplicableModels(P)
        PROVE  Summary(m.m1, m.n1, m.p1, m.m2, m.n2, m.p2, <<>>) \in SummaryType
    BY <1>1, <1>4 DEF Summary, SummaryType, ModelType
  <2>2. ASSUME NEW m \in ApplicableFrom(P)
        PROVE  Summary(m.f, m.n1, m.p1, m.f, m.n2, m.p2 \o <<STAR>>, <<>>) \in SummaryType
    BY <1>1, <1>4, AppendStar DEF Summary, SummaryType, InfluenceType
  <2>3. ASSUME NEW m \in ApplicableTo(P)
        PROVE  Summary(m.f, m.n1, m.p1 \o <<STAR>>, m.f, m.n2, m.p2, <<>>) \in SummaryType
    BY <1>1, <1>4, AppendStar DEF Summary, SummaryType, InfluenceType
  <2> QED  BY <2>1, <2>2, <2>3 DEF ModelFlows
<1>6. InitialCallEdges(P) \subseteq [insn : Insn, f : Function, ctx : Context]
  BY <1>4 DEF InitialCallEdges, ProgramType
<1>7. ProgramPaths(P) \subseteq Path
  BY <1>1, PathConstants DEF ProgramPaths, ProgramType, Vertices, MoveType, ModelType, InfluenceType
<1> QED  BY <1>2, <1>3, <1>5, <1>6, <1>7

LEMMA RelationTypes ==
  ASSUME TypeOK
  PROVE  /\ InitialVertex \subseteq Vertices
         /\ Vertex \subseteq Vertices
         /\ CallEdge \subseteq [insn : Insn, f : Function, ctx : Context]
         /\ LocallyReachable_Root \subseteq Vertices
         /\ LocallyReachable_CtxEdge \subseteq VirtualAssign
         /\ GlobalVariableLoad \subseteq VirtualAssign
         /\ GlobalVariableStore \subseteq VirtualAssign
<1>1. ir \in ProgramType
  BY ProgramFacts
<1>2. InitialVertex \subseteq Vertices
  BY <1>1, PathConstants DEF InitialVertex, ProgramType, Vertices, Vtx, MoveType
<1>3. Vertex \subseteq Vertices
  BY <1>2 DEF Vertex, Vertices, Vtx, TypeOK, AssignType, AllocType
<1> QED  BY <1>1, <1>2, <1>3, InitialTypes
         DEF CallEdge, LocallyReachable_Root, LocallyReachable_CtxEdge,
             GlobalVariableLoad, GlobalVariableStore

----------------------------------------------------------------------------
(* Type correctness.                                                       *)

LEMMA TypeInit == Init => TypeOK
<1> SUFFICES ASSUME Init PROVE TypeOK
  OBVIOUS
<1>1. ir \in Programs /\ ir \in ProgramType
  BY ProgramsAssumption DEF Init, FlowInit
<1>2. AnyContext \in Context
  BY DEF AnyContext, Context
<1>3. isComputedAccessPath \subseteq Path /\ SummaryFlow \subseteq SummaryType
  BY <1>1, InitialTypes DEF Init, FlowInit
<1>4. VirtualAssign \subseteq AssignType
  <2>1. MoveAssigns \subseteq AssignType
    BY <1>1, <1>2 DEF MoveAssigns, Assign, AssignType, ProgramType, MoveType, Reasons
  <2>2. ModelAssigns \subseteq AssignType
    BY <1>1, <1>2 DEF ModelAssigns, Assign, AssignType, ProgramType, MoveType, Reasons
  <2>3. VirtualAssign \subseteq MoveAssigns \cup ModelAssigns
    BY DEF Init, FlowInit, OnePerKey
  <2> QED  BY <2>1, <2>2, <2>3
<1>5. VirtualAlloc \subseteq AllocType
  BY <1>1, <1>2 DEF Init, FlowInit, AllocType, ProgramType
<1> QED  BY <1>1, <1>3, <1>4, <1>5 DEF TypeOK, Init, FlowInit

\* What a step adds has the type of the relation it is added to.
LEMMA StepsAddTyped ==
  ASSUME TypeOK, Next
  PROVE  /\ UNCHANGED ir
         /\ isComputedAccessPath' \subseteq Path
         /\ VirtualAssign' \subseteq AssignType
         /\ LocallyReachable' \subseteq FlowType
         /\ SummaryFlow' \subseteq SummaryType
         /\ VirtualAlloc' \subseteq AllocType
         /\ GlobalReachable' \subseteq GlobalFlowType
         /\ SummaryAlloc' \subseteq SummaryAllocType
<1> DEFINE Goal == /\ UNCHANGED ir
                   /\ isComputedAccessPath' \subseteq Path
                   /\ VirtualAssign' \subseteq AssignType
                   /\ LocallyReachable' \subseteq FlowType
                   /\ SummaryFlow' \subseteq SummaryType
                   /\ VirtualAlloc' \subseteq AllocType
                   /\ GlobalReachable' \subseteq GlobalFlowType
                   /\ SummaryAlloc' \subseteq SummaryAllocType
<1>1. ir \in ProgramType
  BY ProgramFacts
<1>2. AnyContext \in Context
  BY DEF AnyContext, Context
<1>a. ASSUME NEW a \in AssignType, Derive(a), UNCHANGED allButAssigns
      PROVE  Goal
  BY <1>a DEF Derive, allButAssigns, TypeOK
<1>r. ASSUME NEW l \in FlowType, Reach(l)
      PROVE  Goal
  BY <1>r DEF Reach, allButReach, TypeOK
<1>s. ASSUME NEW s \in SummaryType, Summarize(s)
      PROVE  Goal
  BY <1>s DEF Summarize, allButFlows, TypeOK
<1>o. ASSUME NEW x \in AllocType, Allocate(x)
      PROVE  Goal
  BY <1>o DEF Allocate, allButAllocs, TypeOK
<1>p. ASSUME NEW s \in SummaryAllocType, SummarizeAllocation(s)
      PROVE  Goal
  BY <1>p DEF SummarizeAllocation, allButProduce, TypeOK
<1>g. ASSUME NEW x \in GlobalFlowType, ExtendGlobal(x)
      PROVE  Goal
  BY <1>g DEF ExtendGlobal, allButGlobals, TypeOK
<1>t. ASSUME NEW a \in AssignType, NEW p \in Path, DeriveStar(a, p)
      PROVE  Goal
  BY <1>t DEF DeriveStar, Derive, allButStars, TypeOK
<1>10. ASSUME NEW s \in SummaryFlow, NEW c1 \in CallEdge, NEW c2 \in CallEdge,
              NEW reason \in Reasons, Instantiate(s, c1, c2, reason)
       PROVE  Goal
  <2>1. PICK to \in ir.actual, from \in ir.actual :
          Derive(Assign(c1.insn, to.v, to.p \o s.p1, from.v, from.p \o s.p2, reason, AnyContext))
    BY <1>10 DEF Instantiate
  <2>2. /\ to.v \in Var /\ to.p \in Path /\ from.v \in Var /\ from.p \in Path
    BY <1>1 DEF ProgramType
  <2>3. s.p1 \in Path /\ s.p2 \in Path
    BY DEF TypeOK, SummaryType
  <2>4. to.p \o s.p1 \in Path /\ from.p \o s.p2 \in Path
    BY <2>2, <2>3, ConcatProperties DEF Path
  <2>5. c1.insn \in Insn
    BY RelationTypes
  <2>6. Assign(c1.insn, to.v, to.p \o s.p1, from.v, from.p \o s.p2, reason, AnyContext) \in AssignType
    BY <1>2, <2>2, <2>4, <2>5 DEF Assign, AssignType
  <2> QED  BY <1>10, <1>a, <2>1, <2>6 DEF Instantiate
<1>11. CASE SummaryInstantiate
  BY <1>10, <1>11 DEF SummaryInstantiate, Reasons
<1>12. CASE SummaryInstantiate2
  BY <1>10, <1>12 DEF SummaryInstantiate2, Reasons
<1>v. ASSUME NEW x \in Vertex
      PROVE  x.v \in Var /\ x.p \in Path
  BY RelationTypes DEF Vertices
<1>w. ASSUME NEW a \in VirtualAssign
      PROVE  /\ a.insn \in Insn /\ a.ctx \in Context
             /\ a.v1 \in Var /\ a.p1 \in Path /\ a.v2 \in Var /\ a.p2 \in Path
  BY DEF TypeOK, AssignType
<1>c. ASSUME NEW q \in Path, NEW near \in Path, NEW far \in Path
      PROVE  After(near, q) \in Path /\ far \o After(near, q) \in Path
  BY AfterPath, ConcatProperties DEF Path
<1>13. CASE DynamicAccessPath
  <2>0. PICK a \in VirtualAssign, x \in Vertex :
          \E e \in {Forwards(a), Backwards(a)} :
            /\ isComputedAccessPath' = isComputedAccessPath \cup {e.far \o After(e.near, x.p)}
            /\ UNCHANGED allButPaths
    BY <1>13 DEF DynamicAccessPath
  <2>1. PICK e \in {Forwards(a), Backwards(a)} :
          /\ isComputedAccessPath' = isComputedAccessPath \cup {e.far \o After(e.near, x.p)}
          /\ UNCHANGED allButPaths
    BY <2>0
  <2>2. e.near \in Path /\ e.far \in Path
    BY <1>w DEF Forwards, Backwards
  <2>3. e.far \o After(e.near, x.p) \in Path
    BY <1>v, <1>c, <2>2
  <2> QED  BY <2>1, <2>3 DEF allButPaths, TypeOK
<1>14. CASE FieldPropForward
  <2>1. PICK a \in VirtualAssign, x \in Vertex :
          /\ Derive(Assign(a.insn, a.v1, Carried(x.p, a.p2, a.p1), a.v2, x.p, "fp", a.ctx))
          /\ UNCHANGED allButAssigns
    BY <1>14 DEF FieldPropForward
  <2>2. Carried(x.p, a.p2, a.p1) \in Path
    BY <1>v, <1>w, <1>c DEF Carried
  <2>3. Assign(a.insn, a.v1, Carried(x.p, a.p2, a.p1), a.v2, x.p, "fp", a.ctx) \in AssignType
    BY <1>v, <1>w, <2>2 DEF Assign, AssignType, Reasons
  <2> QED  BY <1>a, <2>1, <2>3
<1>15. CASE FieldPropBackward
  <2>1. PICK a \in VirtualAssign, x \in Vertex :
          /\ Derive(Assign(a.insn, a.v1, x.p, a.v2, Carried(x.p, a.p1, a.p2), "fp", a.ctx))
          /\ UNCHANGED allButAssigns
    BY <1>15 DEF FieldPropBackward
  <2>2. Carried(x.p, a.p1, a.p2) \in Path
    BY <1>v, <1>w, <1>c DEF Carried
  <2>3. Assign(a.insn, a.v1, x.p, a.v2, Carried(x.p, a.p1, a.p2), "fp", a.ctx) \in AssignType
    BY <1>v, <1>w, <2>2 DEF Assign, AssignType, Reasons
  <2> QED  BY <1>a, <2>1, <2>3
<1>16. CASE StarForward
  <2>1. PICK a \in VirtualAssign, x \in Vertex :
          DeriveStar(Assign(a.insn, a.v1, Append(a.p1, STAR), a.v2, x.p, "star", a.ctx),
                     Append(a.p1, STAR))
    BY <1>16 DEF StarForward
  <2>2. Append(a.p1, STAR) \in Path
    BY <1>w, AppendStar
  <2>3. Assign(a.insn, a.v1, Append(a.p1, STAR), a.v2, x.p, "star", a.ctx) \in AssignType
    BY <1>v, <1>w, <2>2 DEF Assign, AssignType, Reasons
  <2> QED  BY <1>t, <2>1, <2>2, <2>3
<1>17. CASE StarBackward
  <2>1. PICK a \in VirtualAssign, x \in Vertex :
          DeriveStar(Assign(a.insn, a.v1, x.p, a.v2, Append(a.p2, STAR), "star", a.ctx),
                     Append(a.p2, STAR))
    BY <1>17 DEF StarBackward
  <2>2. Append(a.p2, STAR) \in Path
    BY <1>w, AppendStar
  <2>3. Assign(a.insn, a.v1, x.p, a.v2, Append(a.p2, STAR), "star", a.ctx) \in AssignType
    BY <1>v, <1>w, <2>2 DEF Assign, AssignType, Reasons
  <2> QED  BY <1>t, <2>1, <2>2, <2>3
<1>18. CASE ReachFromRoot
  <2>1. PICK a \in LocallyReachable_CtxEdge : Reach(Key(a))
    BY <1>18 DEF ReachFromRoot
  <2>2. Key(a) \in FlowType
    BY <1>w, RelationTypes DEF Key, Flow, FlowType
  <2> QED  BY <1>r, <2>1, <2>2
<1>19. CASE ReachStep
  <2>0. PICK l \in LocallyReachable, a \in LocallyReachable_CtxEdge :
          \E ctx \in {l.ctx, a.ctx} : Reach(Flow(a.v1, a.p1, l.v2, l.p2, ctx))
    BY <1>19 DEF ReachStep
  <2>1. PICK ctx \in {l.ctx, a.ctx} : Reach(Flow(a.v1, a.p1, l.v2, l.p2, ctx))
    BY <2>0
  <2>2. l \in FlowType
    BY DEF TypeOK
  <2>3. Flow(a.v1, a.p1, l.v2, l.p2, ctx) \in FlowType
    BY <1>w, <2>2, RelationTypes DEF Flow, FlowType
  <2> QED  BY <1>r, <2>1, <2>3
<1> DEFINE FF == [f : Function, n : ParamIndex, v : Var]
<1>f. ir.formal \subseteq FF
  BY <1>1 DEF ProgramType
<1>20. CASE SummarizeFlow
  <2>1. PICK l \in LocallyReachable, f1 \in ir.formal, f2 \in ir.formal :
          Summarize(Summary(f1.f, f1.n, l.p1, f2.f, f2.n, l.p2, l.ctx))
    BY <1>20 DEF SummarizeFlow
  <2>2. l \in FlowType /\ f1 \in FF /\ f2 \in FF
    BY <1>f DEF TypeOK
  <2>3. Summary(f1.f, f1.n, l.p1, f2.f, f2.n, l.p2, l.ctx) \in SummaryType
    BY <2>2 DEF FlowType, Summary, SummaryType
  <2> QED  BY <1>s, <2>1, <2>3
<1>21. CASE SummarizeAlias
  <2>1. PICK held \in LocallyReachable, written \in LocallyReachable,
             f1 \in ir.formal, f2 \in ir.formal :
          Summarize(Summary(f1.f, f1.n, held.p2 \o After(held.p1, written.p1),
                            f2.f, f2.n, written.p2, AnyContext))
    BY <1>21 DEF SummarizeAlias
  <2>2. held \in FlowType /\ written \in FlowType /\ f1 \in FF /\ f2 \in FF
    BY <1>f DEF TypeOK
  <2>3. held.p2 \o After(held.p1, written.p1) \in Path
    BY <1>c, <2>2 DEF FlowType
  <2>4. Summary(f1.f, f1.n, held.p2 \o After(held.p1, written.p1),
                f2.f, f2.n, written.p2, AnyContext) \in SummaryType
    BY <1>2, <2>2, <2>3 DEF FlowType, Summary, SummaryType
  <2> QED  BY <1>s, <2>1, <2>4
<1>22. CASE GlobalClose
  <2>1. ASSUME NEW x \in GlobalVertex
        PROVE  x.v \in Var /\ x.p \in Path
    BY <1>v DEF GlobalVertex
  <2>2. PICK to \in GlobalVertex, from \in GlobalVertex :
          \/ ExtendGlobal(GlobalFlow(to.v, to.p, from.v, from.p))
          \/ \E r \in GlobalReachable : ExtendGlobal(GlobalFlow(to.v, to.p, r.v2, r.p2))
    BY <1>22 DEF GlobalClose
  <2>3. CASE ExtendGlobal(GlobalFlow(to.v, to.p, from.v, from.p))
    <3>1. GlobalFlow(to.v, to.p, from.v, from.p) \in GlobalFlowType
      BY <2>1 DEF GlobalFlow, GlobalFlowType
    <3> QED  BY <1>g, <2>3, <3>1
  <2>4. ASSUME NEW r \in GlobalReachable, ExtendGlobal(GlobalFlow(to.v, to.p, r.v2, r.p2))
        PROVE  Goal
    <3>1. GlobalFlow(to.v, to.p, r.v2, r.p2) \in GlobalFlowType
      BY <2>1 DEF GlobalFlow, GlobalFlowType, TypeOK
    <3> QED  BY <1>g, <2>4, <3>1
  <2> QED  BY <2>2, <2>3, <2>4
<1>23. CASE SummarizeGlobals
  <2>1. PICK x1 \in Vertex, x2 \in Vertex, f1 \in ir.formal, f2 \in ir.formal :
          Summarize(Summary(f1.f, f1.n, x1.p, f2.f, f2.n, x2.p, AnyContext))
    BY <1>23 DEF SummarizeGlobals
  <2>2. f1 \in FF /\ f2 \in FF
    BY <1>f
  <2>3. Summary(f1.f, f1.n, x1.p, f2.f, f2.n, x2.p, AnyContext) \in SummaryType
    BY <1>2, <1>v, <2>2 DEF Summary, SummaryType
  <2> QED  BY <1>s, <2>1, <2>3
<1>24. CASE AllocThroughGlobals
  <2>1. PICK ld \in GlobalVariableLoad, x \in VirtualAlloc :
          Allocate([v |-> ld.v1, p |-> ld.p1, obj |-> x.obj, ctx |-> AnyContext])
    BY <1>24 DEF AllocThroughGlobals
  <2>2. ld.v1 \in Var /\ ld.p1 \in Path /\ x.obj \in Object
    BY <1>w, RelationTypes DEF TypeOK, AllocType
  <2>3. [v |-> ld.v1, p |-> ld.p1, obj |-> x.obj, ctx |-> AnyContext] \in AllocType
    BY <1>2, <2>2 DEF AllocType
  <2> QED  BY <1>o, <2>1, <2>3
<1>25. CASE AllocInstantiate
  <2>1. PICK s \in SummaryAlloc, to \in ir.actual :
          Allocate([v |-> to.v, p |-> to.p \o s.p, obj |-> s.obj, ctx |-> AnyContext])
    BY <1>25 DEF AllocInstantiate
  <2>2. to.v \in Var /\ to.p \in Path /\ s.p \in Path /\ s.obj \in Object
    BY <1>1 DEF ProgramType, TypeOK, SummaryAllocType
  <2>3. to.p \o s.p \in Path
    BY <2>2, ConcatProperties DEF Path
  <2>4. [v |-> to.v, p |-> to.p \o s.p, obj |-> s.obj, ctx |-> AnyContext] \in AllocType
    BY <1>2, <2>2, <2>3 DEF AllocType
  <2> QED  BY <1>o, <2>1, <2>4
<1>26. CASE SummarizeAlloc
  <2>1. PICK x \in VirtualAlloc, fm \in ir.formal :
          \/ SummarizeAllocation([f |-> fm.f, n |-> fm.n, p |-> x.p, obj |-> x.obj, ctx |-> x.ctx])
          \/ \E l \in LocallyReachable : \E ctx \in {x.ctx, l.ctx} :
               SummarizeAllocation([f |-> fm.f, n |-> fm.n, p |-> l.p1, obj |-> x.obj, ctx |-> ctx])
    BY <1>26 DEF SummarizeAlloc
  <2>2. x \in AllocType /\ fm \in FF
    BY <1>f DEF TypeOK
  <2>3. CASE SummarizeAllocation([f |-> fm.f, n |-> fm.n, p |-> x.p, obj |-> x.obj, ctx |-> x.ctx])
    <3>1. [f |-> fm.f, n |-> fm.n, p |-> x.p, obj |-> x.obj, ctx |-> x.ctx] \in SummaryAllocType
      BY <2>2 DEF AllocType, SummaryAllocType
    <3> QED  BY <1>p, <2>3, <3>1
  <2>4. ASSUME NEW l \in LocallyReachable, NEW ctx \in {x.ctx, l.ctx},
               SummarizeAllocation([f |-> fm.f, n |-> fm.n, p |-> l.p1, obj |-> x.obj, ctx |-> ctx])
        PROVE  Goal
    <3>1. l \in FlowType
      BY DEF TypeOK
    <3>2. [f |-> fm.f, n |-> fm.n, p |-> l.p1, obj |-> x.obj, ctx |-> ctx] \in SummaryAllocType
      BY <2>2, <3>1 DEF AllocType, FlowType, SummaryAllocType
    <3> QED  BY <1>p, <2>4, <3>2
  <2> QED  BY <2>1, <2>3, <2>4
<1>27. CASE SummarizeAllocAlias
  <2>1. PICK held \in LocallyReachable, written \in LocallyReachable,
             x \in VirtualAlloc, fm \in ir.formal :
          SummarizeAllocation([f |-> fm.f, n |-> fm.n, p |-> held.p2 \o After(held.p1, written.p1),
                               obj |-> x.obj, ctx |-> x.ctx])
    BY <1>27 DEF SummarizeAllocAlias
  <2>2. held \in FlowType /\ written \in FlowType /\ x \in AllocType /\ fm \in FF
    BY <1>f DEF TypeOK
  <2>3. held.p2 \o After(held.p1, written.p1) \in Path
    BY <1>c, <2>2 DEF FlowType
  <2>4. [f |-> fm.f, n |-> fm.n, p |-> held.p2 \o After(held.p1, written.p1),
         obj |-> x.obj, ctx |-> x.ctx] \in SummaryAllocType
    BY <2>2, <2>3 DEF AllocType, SummaryAllocType
  <2> QED  BY <1>p, <2>1, <2>4
<1> QED  BY <1>11, <1>12, <1>13, <1>14, <1>15, <1>16, <1>17, <1>18, <1>19, <1>20, <1>21,
            <1>22, <1>23, <1>24, <1>25, <1>26, <1>27 DEF Next, FlowNext

\* The rules firing in any order, whether or not the engine goes on to the end.
IndexSteps == Init /\ [][Next]_vars

\* Every relation keeps its type, whatever order the rules fire in.
LEMMA TypesHold == IndexSteps => []TypeOK
<1>1. TypeOK /\ [Next]_vars => TypeOK'
  <2> SUFFICES ASSUME TypeOK, [Next]_vars PROVE TypeOK'
    OBVIOUS
  <2>1. CASE Next
    BY <2>1, StepsAddTyped DEF TypeOK
  <2>2. CASE UNCHANGED vars
    BY <2>2 DEF vars, TypeOK
  <2> QED  BY <2>1, <2>2
<1> QED  BY <1>1, TypeInit, PTL DEF IndexSteps

\* Every tuple the index derives, by any rules in any order, is well typed.
THEOREM TypeCorrect == Spec => []TypeOK
<1>1. Spec => IndexSteps
  BY DEF Spec, IndexSteps
<1> QED  BY <1>1, TypesHold, PTL

----------------------------------------------------------------------------
(* What the rules for one relation leave alone.                            *)

LEMMA Frame ==
  /\ SummaryInstantiate \/ SummaryInstantiate2 => UNCHANGED allButAssigns
  /\ FieldPropForward \/ FieldPropBackward => UNCHANGED allButAssigns
  /\ DynamicAccessPath => UNCHANGED allButPaths
  /\ StarForward \/ StarBackward => UNCHANGED allButStars
  /\ ReachFromRoot \/ ReachStep => UNCHANGED allButReach
  /\ SummarizeFlow \/ SummarizeAlias \/ SummarizeGlobals => UNCHANGED allButFlows
  /\ GlobalClose => UNCHANGED allButGlobals
  /\ AllocThroughGlobals \/ AllocInstantiate => UNCHANGED allButAllocs
  /\ SummarizeAlloc \/ SummarizeAllocAlias => UNCHANGED allButProduce
<1>1. SummaryInstantiate \/ SummaryInstantiate2 => UNCHANGED allButAssigns
  BY DEF SummaryInstantiate, SummaryInstantiate2, Instantiate
<1>2. FieldPropForward \/ FieldPropBackward => UNCHANGED allButAssigns
  BY DEF FieldPropForward, FieldPropBackward
<1>3. DynamicAccessPath => UNCHANGED allButPaths
  BY DEF DynamicAccessPath
<1>4. StarForward \/ StarBackward => UNCHANGED allButStars
  BY DEF StarForward, StarBackward, DeriveStar
<1>5. ReachFromRoot \/ ReachStep => UNCHANGED allButReach
  BY DEF ReachFromRoot, ReachStep, Reach
<1>6. SummarizeFlow \/ SummarizeAlias \/ SummarizeGlobals => UNCHANGED allButFlows
  <2>1. ASSUME NEW s, Summarize(s) PROVE UNCHANGED allButFlows
    BY <2>1 DEF Summarize
  <2>2. SummarizeFlow => UNCHANGED allButFlows
    BY <2>1 DEF SummarizeFlow
  <2>3. SummarizeAlias => UNCHANGED allButFlows
    BY <2>1 DEF SummarizeAlias
  <2>4. SummarizeGlobals => UNCHANGED allButFlows
    BY <2>1 DEF SummarizeGlobals
  <2> QED  BY <2>2, <2>3, <2>4
<1>7. GlobalClose => UNCHANGED allButGlobals
  BY DEF GlobalClose, ExtendGlobal
<1>8. AllocThroughGlobals \/ AllocInstantiate => UNCHANGED allButAllocs
  BY DEF AllocThroughGlobals, AllocInstantiate, Allocate
<1>9. SummarizeAlloc \/ SummarizeAllocAlias => UNCHANGED allButProduce
  <2>1. ASSUME NEW s, SummarizeAllocation(s) PROVE UNCHANGED allButProduce
    BY <2>1 DEF SummarizeAllocation
  <2>2. SummarizeAlloc => UNCHANGED allButProduce
    BY <2>1 DEF SummarizeAlloc
  <2>3. SummarizeAllocAlias => UNCHANGED allButProduce
    BY <2>1 DEF SummarizeAllocAlias
  <2> QED  BY <2>2, <2>3
<1> QED  BY <1>1, <1>2, <1>3, <1>4, <1>5, <1>6, <1>7, <1>8, <1>9

\* A relation changes by its own rules only.
LEMMA OwnRules ==
  ASSUME [Next]_vars
  PROVE  /\ UNCHANGED ir
         /\ \/ ReachFromRoot \/ ReachStep
            \/ UNCHANGED LocallyReachable
         /\ \/ DynamicAccessPath \/ StarForward \/ StarBackward
            \/ UNCHANGED isComputedAccessPath
         /\ \/ SummaryInstantiate \/ SummaryInstantiate2
            \/ FieldPropForward \/ FieldPropBackward
            \/ StarForward \/ StarBackward
            \/ UNCHANGED VirtualAssign
         /\ \/ SummarizeFlow \/ SummarizeAlias \/ SummarizeGlobals
            \/ UNCHANGED SummaryFlow
         /\ \/ AllocThroughGlobals \/ AllocInstantiate
            \/ UNCHANGED VirtualAlloc
         /\ GlobalClose \/ UNCHANGED GlobalReachable
         /\ SummarizeAlloc \/ SummarizeAllocAlias \/ UNCHANGED SummaryAlloc
  BY Frame DEF Next, FlowNext, vars, allButAssigns, allButPaths, allButStars,
               allButReach, allButFlows, allButGlobals, allButAllocs, allButProduce

----------------------------------------------------------------------------
(* The error rules never fire.                                             *)

\* Reachability follows edges within functions, from ends in one function.
LEMMA ReachHolds == IndexSteps => []ReachWithinFunction
<1>1. Init => ReachWithinFunction
  BY DEF Init, FlowInit, ReachWithinFunction
<1>2. ReachWithinFunction /\ [Next]_vars => ReachWithinFunction'
  <2> SUFFICES ASSUME ReachWithinFunction, [Next]_vars PROVE ReachWithinFunction'
    OBVIOUS
  <2>0. UNCHANGED ir
    BY OwnRules
  <2>1. ASSUME NEW a \in LocallyReachable_CtxEdge
        PROVE  /\ a.v1 \notin ir.global /\ a.v2 \notin ir.global
               /\ ir.inFunction[a.v1] = ir.inFunction[a.v2]
    BY DEF LocallyReachable_CtxEdge, Local, isGlobal
  <2>2. CASE ReachFromRoot
    <3>1. PICK a \in LocallyReachable_CtxEdge : LocallyReachable' = LocallyReachable \cup {Key(a)}
      BY <2>2 DEF ReachFromRoot, Reach
    <3>2. Key(a).v1 = a.v1 /\ Key(a).v2 = a.v2
      BY DEF Key, Flow
    <3> QED  BY <2>0, <2>1, <3>1, <3>2 DEF ReachWithinFunction, isGlobal
  <2>3. CASE ReachStep
    <3>1. PICK l \in LocallyReachable, a \in LocallyReachable_CtxEdge :
            /\ a.v2 = l.v1
            /\ \E ctx \in {l.ctx, a.ctx} :
                 LocallyReachable' = LocallyReachable \cup {Flow(a.v1, a.p1, l.v2, l.p2, ctx)}
      BY <2>3 DEF ReachStep, Reach
    <3>2. PICK ctx : LocallyReachable' = LocallyReachable \cup {Flow(a.v1, a.p1, l.v2, l.p2, ctx)}
      BY <3>1
    <3>3. /\ l.v1 \notin ir.global /\ l.v2 \notin ir.global
          /\ ir.inFunction[l.v1] = ir.inFunction[l.v2]
      BY DEF ReachWithinFunction, isGlobal
    <3>4. /\ Flow(a.v1, a.p1, l.v2, l.p2, ctx).v1 = a.v1
          /\ Flow(a.v1, a.p1, l.v2, l.p2, ctx).v2 = l.v2
      BY DEF Flow
    <3> QED  BY <2>0, <2>1, <3>1, <3>2, <3>3, <3>4 DEF ReachWithinFunction, isGlobal
  <2>4. CASE UNCHANGED LocallyReachable
    BY <2>0, <2>4 DEF ReachWithinFunction, isGlobal
  <2> QED  BY <2>2, <2>3, <2>4, OwnRules
<1> QED  BY <1>1, <1>2, PTL DEF IndexSteps

\* Local reachability never crosses functions nor touches a global: the two
\* CTADLError rules over LocallyReachable derive nothing.
THEOREM ReachStaysWithin == Spec => []ReachWithinFunction
<1>1. Spec => IndexSteps
  BY DEF Spec, IndexSteps
<1> QED  BY <1>1, ReachHolds, PTL

\* Every rule that puts a wildcard behind a path asks for a path without one.
LEMMA StarsHold == IndexSteps => []StarOnlyAtEnd
<1>1. Init => StarOnlyAtEnd
  <2> SUFFICES ASSUME Init PROVE StarOnlyAtEnd
    OBVIOUS
  <2>1. ir \in ProgramType /\ WellFormed(ir) /\ isComputedAccessPath = InitialPaths(ir)
    BY ProgramsAssumption, ProgramsWellFormed DEF Init, FlowInit
  <2>2. ASSUME NEW p \in ir.paths \cup {Empty} PROVE StarOnlyLast(p)
    BY <2>1 DEF WellFormed, HasStar, StarOnlyLast, Empty
  <2>3. StarOnlyLast(<<STAR>>)
    BY DEF StarOnlyLast
  <2>4. ASSUME NEW m \in ApplicableModels(ir) PROVE StarOnlyLast(m.p1) /\ StarOnlyLast(m.p2)
    BY <2>1 DEF WellFormed, ApplicableModels
  <2>5. ASSUME NEW m \in ApplicableFrom(ir) \cup ApplicableTo(ir)
        PROVE  /\ m.p1 \in Path /\ m.p2 \in Path /\ ~HasStar(m.p1) /\ ~HasStar(m.p2)
               /\ StarOnlyLast(m.p1) /\ StarOnlyLast(m.p2)
    <3>1. m \in ir.influenceFrom \cup ir.influenceTo
      BY DEF ApplicableFrom, ApplicableTo
    <3>2. m.p1 \in Path /\ m.p2 \in Path
      BY <2>1, <3>1 DEF ProgramType, InfluenceType
    <3>3. ~HasStar(m.p1) /\ ~HasStar(m.p2)
      BY <2>1, <3>1 DEF WellFormed
    <3> QED  BY <3>2, <3>3 DEF HasStar, StarOnlyLast
  <2>6. ASSUME NEW p \in CisAccessPath(ir) PROVE StarOnlyLast(p)
    BY <2>2, <2>3, <2>4, <2>5 DEF CisAccessPath
  <2>7. ASSUME NEW m \in ApplicableFrom(ir) \cup ApplicableTo(ir)
        PROVE  StarOnlyLast(m.p1 \o <<STAR>>) /\ StarOnlyLast(m.p2 \o <<STAR>>)
    BY <2>5, AppendStar
  <2> QED  BY <2>1, <2>6, <2>7 DEF InitialPaths, StarOnlyAtEnd
<1>2. TypeOK /\ StarOnlyAtEnd /\ [Next]_vars => StarOnlyAtEnd'
  <2> SUFFICES ASSUME TypeOK, StarOnlyAtEnd, [Next]_vars PROVE StarOnlyAtEnd'
    OBVIOUS
  <2>1. CASE DynamicAccessPath
    <3>1. PICK ap : ~HasStar(ap) /\ isComputedAccessPath' = isComputedAccessPath \cup {ap}
      BY <2>1 DEF DynamicAccessPath
    <3>2. StarOnlyLast(ap)
      BY <3>1 DEF HasStar, StarOnlyLast
    <3> QED  BY <3>1, <3>2 DEF StarOnlyAtEnd
  <2>2. CASE StarForward \/ StarBackward
    <3>1. PICK a \in VirtualAssign : \E far \in {a.p1, a.p2} :
            ~HasStar(far) /\ isComputedAccessPath' = isComputedAccessPath \cup {Append(far, STAR)}
      BY <2>2 DEF StarForward, StarBackward, NeedsStar, DeriveStar
    <3>2. PICK far \in Path :
            ~HasStar(far) /\ isComputedAccessPath' = isComputedAccessPath \cup {Append(far, STAR)}
      BY <3>1 DEF TypeOK, AssignType
    <3>3. StarOnlyLast(Append(far, STAR))
      BY <3>2, AppendStar
    <3> QED  BY <3>2, <3>3 DEF StarOnlyAtEnd
  <2>3. CASE UNCHANGED isComputedAccessPath
    BY <2>3 DEF StarOnlyAtEnd
  <2> QED  BY <2>1, <2>2, <2>3, OwnRules
<1> QED  BY <1>1, <1>2, TypesHold, PTL DEF IndexSteps

\* No computed path has a wildcard before its end: the CTADLError rule of
\* graph/dataflow.dl derives nothing.
THEOREM StarsStayLast == Spec => []StarOnlyAtEnd
<1>1. Spec => IndexSteps
  BY DEF Spec, IndexSteps
<1> QED  BY <1>1, StarsHold, PTL

----------------------------------------------------------------------------
(* Where an assignment is reported.                                        *)

\* Every assignment that writes a local is at an instruction of the local's
\* function, through any chain of rules that copy the instruction.
THEOREM InstructionsStayWithTarget == Spec => []InstructionOfTarget
<1>1. Init => InstructionOfTarget
  <2> SUFFICES ASSUME Init, NEW a \in VirtualAssign, ~isGlobal(a.v1)
               PROVE  ir.inFunction[a.v1] = ir.insnIn[a.insn]
    BY DEF InstructionOfTarget
  <2>1. WellFormed(ir)
    BY ProgramsWellFormed DEF Init, FlowInit
  <2>2. PICK m \in ir.move \cup ir.insnModel : a.v1 = m.v1 /\ a.insn = m.insn
    BY DEF Init, FlowInit, OnePerKey, MoveAssigns, ModelAssigns, Assign
  <2> QED  BY <2>1, <2>2 DEF WellFormed, LocalTo, isGlobal
<1>2. TypeOK /\ InstructionOfTarget /\ [Next]_vars => InstructionOfTarget'
  <2> SUFFICES ASSUME TypeOK, InstructionOfTarget, [Next]_vars PROVE InstructionOfTarget'
    OBVIOUS
  <2>0. UNCHANGED ir
    BY OwnRules
  <2>1. ASSUME NEW b, VirtualAssign' \subseteq VirtualAssign \cup {b},
               b.v1 \notin ir.global => ir.inFunction[b.v1] = ir.insnIn[b.insn]
        PROVE  InstructionOfTarget'
    BY <2>0, <2>1 DEF InstructionOfTarget, isGlobal
  <2>2. ASSUME NEW a \in VirtualAssign, NEW b, b.v1 = a.v1, b.insn = a.insn,
               VirtualAssign' \subseteq VirtualAssign \cup {b}
        PROVE  InstructionOfTarget'
    BY <2>1, <2>2 DEF InstructionOfTarget, isGlobal
  <2>3. CASE SummaryInstantiate \/ SummaryInstantiate2
    <3>1. PICK s \in SummaryFlow, c1 \in CallEdge, c2 \in CallEdge, reason \in Reasons :
            Instantiate(s, c1, c2, reason)
      BY <2>3 DEF SummaryInstantiate, SummaryInstantiate2, Reasons
    <3>2. PICK to \in ir.actual, from \in ir.actual :
            /\ to.insn = c1.insn
            /\ Derive(Assign(c1.insn, to.v, to.p \o s.p1, from.v, from.p \o s.p2, reason, AnyContext))
      BY <3>1 DEF Instantiate
    <3> DEFINE b == Assign(c1.insn, to.v, to.p \o s.p1, from.v, from.p \o s.p2, reason, AnyContext)
    <3>3. VirtualAssign' \subseteq VirtualAssign \cup {b} /\ b.v1 = to.v /\ b.insn = to.insn
      BY <3>2 DEF Derive, Assign
    <3>4. ir.inFunction[to.v] = ir.insnIn[to.insn]
      BY ProgramFacts DEF WellFormed, LocalTo
    <3> HIDE DEF b
    <3> QED  BY <2>1, <3>3, <3>4
  <2>4. CASE FieldPropForward \/ FieldPropBackward \/ StarForward \/ StarBackward
    <3>1. PICK a \in VirtualAssign :
            \E p1, v2, p2, reason, ctx :
              VirtualAssign' \subseteq VirtualAssign \cup {Assign(a.insn, a.v1, p1, v2, p2, reason, ctx)}
      <4>1. ASSUME NEW b, NEW p, DeriveStar(b, p) PROVE VirtualAssign' \subseteq VirtualAssign \cup {b}
        BY <4>1 DEF DeriveStar, Derive
      <4>2. ASSUME NEW b, Derive(b) PROVE VirtualAssign' \subseteq VirtualAssign \cup {b}
        BY <4>2 DEF Derive
      <4>3. CASE FieldPropForward
        BY <4>2, <4>3 DEF FieldPropForward
      <4>4. CASE FieldPropBackward
        BY <4>2, <4>4 DEF FieldPropBackward
      <4>5. CASE StarForward
        BY <4>1, <4>5 DEF StarForward
      <4>6. CASE StarBackward
        BY <4>1, <4>6 DEF StarBackward
      <4> QED  BY <2>4, <4>3, <4>4, <4>5, <4>6
    <3>2. PICK p1, v2, p2, reason, ctx :
            VirtualAssign' \subseteq VirtualAssign \cup {Assign(a.insn, a.v1, p1, v2, p2, reason, ctx)}
      BY <3>1
    <3> DEFINE b == Assign(a.insn, a.v1, p1, v2, p2, reason, ctx)
    <3>3. b.v1 = a.v1 /\ b.insn = a.insn /\ VirtualAssign' \subseteq VirtualAssign \cup {b}
      BY <3>2 DEF Assign
    <3> HIDE DEF b
    <3> QED  BY <2>2, <3>3
  <2>5. CASE UNCHANGED VirtualAssign
    BY <2>0, <2>5 DEF InstructionOfTarget, isGlobal
  <2> QED  BY <2>3, <2>4, <2>5, OwnRules
<1> QED  BY <1>1, <1>2, TypeCorrect, PTL DEF Spec

----------------------------------------------------------------------------
(* The length of paths.                                                    *)

LEMMA LimitFacts ==
  ASSUME ir \in ProgramType
  PROVE  /\ \A p \in Path : Len(p) <= ir.maxLength => WithinLimit(p)
         /\ \A p \in ProgramPaths(ir) : WithinLimit(p)
         /\ \A p \in ProgramPaths(ir) : WithinLimit(p \o <<STAR>>)
         /\ \A p \in Path : WithinLimit(p) /\ ~HasStar(p) => WithinLimit(Append(p, STAR))
         /\ \A p, s \in Path :
              WithinLimit(p) /\ ~HasStar(s) /\ Len(s) < Len(p) => WithinLimit(s)
<1>1. ir.maxLength \in Nat /\ ProgramPaths(ir) \subseteq Path
  BY InitialTypes DEF ProgramType
<1>2. \A p \in Path : Len(p) \in Nat
  BY DEF Path
<1>3. \A p \in Path : Len(p) <= ir.maxLength => WithinLimit(p)
  BY DEF WithinLimit, Fits
<1>4. \A p \in ProgramPaths(ir) : WithinLimit(p)
  BY <1>1, <1>2 DEF WithinLimit, Fits
<1>5. \A p \in ProgramPaths(ir) : WithinLimit(p \o <<STAR>>)
  <2>1. ASSUME NEW p \in ProgramPaths(ir) PROVE Fits(Len(p), p \o <<STAR>>)
    <3>1. p \in Path /\ Len(p) \in Nat
      BY <1>1, <1>2
    <3>2. Len(p \o <<STAR>>) <= Len(p) + 1
      BY <3>1, AppendStar
    <3>3. HasStar(p \o <<STAR>>)
      BY <3>1, AppendStar
    <3> QED  BY <3>2, <3>3 DEF Fits
  <2> QED  BY <2>1 DEF WithinLimit
<1>6. ASSUME NEW p \in Path, WithinLimit(p), ~HasStar(p) PROVE WithinLimit(Append(p, STAR))
  <2>1. PICK n \in {ir.maxLength} \cup {Len(q) : q \in ProgramPaths(ir)} : Fits(n, p)
    BY <1>6 DEF WithinLimit
  <2>2. n \in Nat
    BY <1>1, <1>2
  <2>3. Fits(n, Append(p, STAR))
    <3>1. Append(p, STAR) = p \o <<STAR>> /\ Len(p) \in Nat
      BY <1>2, <1>6, AppendStar
    <3>2. Len(p) <= n
      BY <1>6, <2>1 DEF Fits
    <3>3. Len(p \o <<STAR>>) <= n + 1
      BY <2>2, <3>1, <3>2, AppendStar
    <3>4. HasStar(p \o <<STAR>>)
      BY <1>6, AppendStar
    <3> QED  BY <3>1, <3>3, <3>4 DEF Fits
  <2> QED  BY <2>3 DEF WithinLimit
<1>7. ASSUME NEW p \in Path, NEW s \in Path, WithinLimit(p), ~HasStar(s), Len(s) < Len(p)
      PROVE  WithinLimit(s)
  <2>1. PICK n \in {ir.maxLength} \cup {Len(q) : q \in ProgramPaths(ir)} : Fits(n, p)
    BY <1>7 DEF WithinLimit
  <2>2. n \in Nat
    BY <1>1, <1>2
  <2>3. Fits(n, s)
    BY <1>2, <1>7, <2>1, <2>2 DEF Fits
  <2> QED  BY <2>3 DEF WithinLimit
<1> QED  BY <1>3, <1>4, <1>5, <1>6, <1>7

LEMMA BoundInit == Init => PathsBounded
<1> SUFFICES ASSUME Init PROVE PathsBounded
  OBVIOUS
<1>1. ir \in ProgramType
  BY ProgramsAssumption DEF Init, FlowInit
<1>2. CisAccessPath(ir) \subseteq ProgramPaths(ir)
  BY DEF CisAccessPath, ProgramPaths, ApplicableModels, ApplicableFrom, ApplicableTo
<1>3. \A m \in ApplicableModels(ir) \cup ApplicableFrom(ir) \cup ApplicableTo(ir) :
        m.p1 \in ProgramPaths(ir) /\ m.p2 \in ProgramPaths(ir)
  BY DEF ProgramPaths, ApplicableModels, ApplicableFrom, ApplicableTo
<1>4. \A p \in isComputedAccessPath : WithinLimit(p)
  BY <1>1, <1>2, <1>3, LimitFacts DEF Init, FlowInit, InitialPaths
<1>5. \A a \in VirtualAssign : WithinLimit(a.p1) /\ WithinLimit(a.p2)
  <2>1. ASSUME NEW a \in VirtualAssign
        PROVE  a.p1 \in ProgramPaths(ir) /\ a.p2 \in ProgramPaths(ir)
    <3>1. PICK m \in ir.move \cup ir.insnModel : a.p1 = m.p1 /\ a.p2 = m.p2
      BY DEF Init, FlowInit, OnePerKey, MoveAssigns, ModelAssigns, Assign
    <3> QED  BY <3>1 DEF ProgramPaths
  <2> QED  BY <1>1, <2>1, LimitFacts
<1>6. \A s \in SummaryFlow : WithinLimit(s.p1) /\ WithinLimit(s.p2)
  <2> SUFFICES ASSUME NEW s \in ModelFlows(ir) PROVE WithinLimit(s.p1) /\ WithinLimit(s.p2)
    BY DEF Init, FlowInit
  <2>1. \E m \in ApplicableModels(ir) \cup ApplicableFrom(ir) \cup ApplicableTo(ir) :
          s.p1 \in {m.p1, m.p1 \o <<STAR>>} /\ s.p2 \in {m.p2, m.p2 \o <<STAR>>}
    <3>1. CASE \E m \in ApplicableModels(ir) :
                 s = Summary(m.m1, m.n1, m.p1, m.m2, m.n2, m.p2, <<>>)
      BY <3>1 DEF Summary
    <3>2. CASE \E m \in ApplicableFrom(ir) :
                 s = Summary(m.f, m.n1, m.p1, m.f, m.n2, m.p2 \o <<STAR>>, <<>>)
      <4>1. PICK m \in ApplicableFrom(ir) : s = Summary(m.f, m.n1, m.p1, m.f, m.n2, m.p2 \o <<STAR>>, <<>>)
        BY <3>2
      <4>2. s.p1 = m.p1 /\ s.p2 = m.p2 \o <<STAR>>
        BY <4>1 DEF Summary
      <4> QED  BY <4>2
    <3>3. CASE \E m \in ApplicableTo(ir) :
                 s = Summary(m.f, m.n1, m.p1 \o <<STAR>>, m.f, m.n2, m.p2, <<>>)
      <4>1. PICK m \in ApplicableTo(ir) : s = Summary(m.f, m.n1, m.p1 \o <<STAR>>, m.f, m.n2, m.p2, <<>>)
        BY <3>3
      <4>2. s.p2 = m.p2 /\ s.p1 = m.p1 \o <<STAR>>
        BY <4>1 DEF Summary
      <4> QED  BY <4>2
    <3> QED  BY <3>1, <3>2, <3>3 DEF ModelFlows
  <2> QED  BY <1>1, <1>3, <2>1, LimitFacts
<1>7. \A x \in VirtualAlloc : WithinLimit(x.p)
  <2>1. ASSUME NEW x \in VirtualAlloc PROVE x.p \in ProgramPaths(ir)
    <3>1. PICK al \in ir.alloc : x.p = al.p
      BY DEF Init, FlowInit
    <3> QED  BY <3>1 DEF ProgramPaths
  <2> QED  BY <1>1, <2>1, LimitFacts
<1> QED  BY <1>4, <1>5, <1>6, <1>7 DEF PathsBounded, Init, FlowInit

LEMMA BoundFacts ==
  ASSUME TypeOK, PathsBounded
  PROVE  /\ \A x \in Vertex : WithinLimit(x.p)
         /\ \A x \in ir.actual : x.p \in Path /\ WithinLimit(x.p)
         /\ \A ap, pre, suf \in Path :
              ComputedAccessPathNonEmptySplit(isComputedAccessPath, ap, pre, suf) =>
                WithinLimit(suf)
<1>1. ir \in ProgramType
  BY ProgramFacts
<1>2. ASSUME NEW x \in Vertex PROVE WithinLimit(x.p)
  <2>1. CASE x \in InitialVertex
    <3>1. x.p \in ProgramPaths(ir)
      BY <2>1 DEF InitialVertex, CisAccessPath, ProgramPaths,
                  ApplicableModels, ApplicableFrom, ApplicableTo
    <3> QED  BY <1>1, <3>1, LimitFacts
  <2>2. CASE x \notin InitialVertex
    BY <2>2 DEF Vertex, Vtx, PathsBounded
  <2> QED  BY <2>1, <2>2
<1>3. ASSUME NEW x \in ir.actual PROVE x.p \in Path /\ WithinLimit(x.p)
  <2>1. x.p \in ProgramPaths(ir)
    BY DEF ProgramPaths
  <2> QED  BY <1>1, <2>1, InitialTypes, LimitFacts
<1>4. ASSUME NEW ap \in Path, NEW pre \in Path, NEW suf \in Path,
             ComputedAccessPathNonEmptySplit(isComputedAccessPath, ap, pre, suf)
      PROVE  WithinLimit(suf)
  <2>1. /\ ap \in isComputedAccessPath /\ ap = pre \o suf /\ ~HasStar(suf)
        /\ pre # Empty
    BY <1>4 DEF ComputedAccessPathNonEmptySplit
  <2>2. Len(suf) < Len(ap)
    BY <2>1 DEF Path, Empty
  <2>3. WithinLimit(ap)
    BY <2>1 DEF PathsBounded
  <2> QED  BY <1>1, <2>1, <2>2, <2>3, LimitFacts
<1> QED  BY <1>2, <1>3, <1>4

LEMMA AliasBound ==
  ASSUME TypeOK, PathsBounded,
         NEW G \in Path, NEW GH \in Path, NEW F \in Path, WithinLimit(GH),
         AliasedWrite(isComputedAccessPath, G, GH, F, F \o After(G, GH))
  PROVE  WithinLimit(F \o After(G, GH))
<1> DEFINE H == After(G, GH)
<1>1. H \in Path
  BY AfterPath
<1>2. CASE F = Empty
  <2>1. F \o H = H
    BY <1>1, <1>2, ConcatEmptySeq DEF Empty, Path
  <2>2. CASE G = Empty
    BY <2>1, <2>2, AfterPath
  <2>3. CASE ComputedAccessPathNonEmptySplit(isComputedAccessPath, GH, G, H)
    BY <1>1, <2>1, <2>3, BoundFacts
  <2> QED  BY <2>2, <2>3 DEF AliasedWrite
<1>3. CASE ComputedAccessPathNonEmptySplit(isComputedAccessPath, F \o H, F, H)
  <2>1. F \o H \in isComputedAccessPath
    BY <1>3 DEF ComputedAccessPathNonEmptySplit
  <2> QED  BY <2>1 DEF PathsBounded
<1> QED  BY <1>2, <1>3 DEF AliasedWrite

\* A step adds tuples within the limit.
LEMMA BoundStep ==
  ASSUME TypeOK, PathsBounded, [Next]_vars
  PROVE  PathsBounded'
<1>1. ir \in ProgramType /\ UNCHANGED ir
  BY ProgramFacts, OwnRules
<1>2. \A p : WithinLimit(p)' <=> WithinLimit(p)
  BY <1>1 DEF WithinLimit
<1>3. /\ \A x \in VirtualAssign : /\ x.p1 \in Path /\ WithinLimit(x.p1)
                                /\ x.p2 \in Path /\ WithinLimit(x.p2)
      /\ \A x \in LocallyReachable : /\ x.p1 \in Path /\ WithinLimit(x.p1)
                                   /\ x.p2 \in Path /\ WithinLimit(x.p2)
      /\ \A x \in SummaryFlow : /\ x.p1 \in Path /\ WithinLimit(x.p1)
                              /\ x.p2 \in Path /\ WithinLimit(x.p2)
      /\ \A x \in GlobalReachable : WithinLimit(x.p1) /\ WithinLimit(x.p2)
      /\ \A x \in VirtualAlloc : WithinLimit(x.p)
      /\ \A x \in SummaryAlloc : x.p \in Path /\ WithinLimit(x.p)
      /\ \A p \in isComputedAccessPath : p \in Path /\ WithinLimit(p)
  BY DEF TypeOK, PathsBounded, AssignType, FlowType, SummaryType, SummaryAllocType
<1>4. \A x \in Vertex : x.p \in Path /\ WithinLimit(x.p)
  BY BoundFacts, RelationTypes DEF Vertices
<1>a. ASSUME NEW b, NEW r, DeriveStar(b, r) PROVE VirtualAssign' \subseteq VirtualAssign \cup {b}
                                             /\ isComputedAccessPath' = isComputedAccessPath \cup {r}
  BY <1>a DEF DeriveStar, Derive
<1>5. \A x \in VirtualAssign' : WithinLimit(x.p1) /\ WithinLimit(x.p2)
  <2>1. CASE SummaryInstantiate \/ SummaryInstantiate2
    <3>1. PICK s \in SummaryFlow, c1 \in CallEdge, c2 \in CallEdge, reason \in Reasons :
            Instantiate(s, c1, c2, reason)
      BY <2>1 DEF SummaryInstantiate, SummaryInstantiate2, Reasons
    <3>2. PICK to \in ir.actual, from \in ir.actual :
            /\ ActualToFormal(isComputedAccessPath, to.p \o s.p1, to.p, s.p1,
                              from.p \o s.p2, from.p, s.p2)
            /\ Derive(Assign(c1.insn, to.v, to.p \o s.p1, from.v, from.p \o s.p2, reason, AnyContext))
      BY <3>1 DEF Instantiate
    <3>3. /\ to.p \o s.p1 \in isComputedAccessPath \cup {to.p, s.p1}
          /\ from.p \o s.p2 \in isComputedAccessPath \cup {from.p, s.p2}
      <4>1. /\ to.p \in Path /\ s.p1 \in Path
            /\ from.p \in Path /\ s.p2 \in Path
        BY <1>3, BoundFacts
      <4> DEFINE P1 == to.p \o s.p1
                 P2 == from.p \o s.p2
      <4>2. ActualToFormal(isComputedAccessPath, P1, to.p, s.p1, P2, from.p, s.p2)
        BY <3>2
      <4> HIDE DEF P1, P2
      <4>3. P1 \in isComputedAccessPath \cup {to.p, s.p1} /\ P2 \in isComputedAccessPath \cup {from.p, s.p2}
        BY <4>1, <4>2, ActualToFormalIsExact
      <4> QED  BY <4>3 DEF P1, P2
    <3>4. WithinLimit(to.p \o s.p1) /\ WithinLimit(from.p \o s.p2)
      BY <1>3, <3>3, BoundFacts
    <3>5. PICK b : VirtualAssign' = VirtualAssign \cup {b} /\ b.p1 = to.p \o s.p1 /\ b.p2 = from.p \o s.p2
      <4>1. /\ Assign(c1.insn, to.v, to.p \o s.p1, from.v, from.p \o s.p2, reason, AnyContext).p1 = to.p \o s.p1
            /\ Assign(c1.insn, to.v, to.p \o s.p1, from.v, from.p \o s.p2, reason, AnyContext).p2 = from.p \o s.p2
        BY DEF Assign
      <4> QED  BY <3>2, <4>1 DEF Derive
    <3> QED  BY <1>3, <3>4, <3>5
  <2>2. ASSUME NEW q \in Path, NEW near \in Path, NEW far \in Path, WithinLimit(q),
               CarriesTo(isComputedAccessPath, q, near, far, Carried(q, near, far))
        PROVE  WithinLimit(Carried(q, near, far))
    <3>1. Carried(q, near, far) \in Path
      BY AfterPath, ConcatProperties DEF Carried, Path
    <3>2. Carried(q, near, far) \in isComputedAccessPath \cup {q}
      BY <2>2, <3>1, CarriesToIsExact DEF TypeOK
    <3> QED  BY <1>3, <2>2, <3>2
  <2>3. CASE FieldPropForward
    <3>1. PICK a \in VirtualAssign, x \in Vertex :
            /\ CarriesTo(isComputedAccessPath, x.p, a.p2, a.p1, Carried(x.p, a.p2, a.p1))
            /\ Derive(Assign(a.insn, a.v1, Carried(x.p, a.p2, a.p1), a.v2, x.p, "fp", a.ctx))
      BY <2>3 DEF FieldPropForward
    <3>2. WithinLimit(Carried(x.p, a.p2, a.p1)) /\ WithinLimit(x.p)
      BY <1>3, <1>4, <2>2, <3>1
    <3> QED  BY <1>3, <3>1, <3>2 DEF Derive, Assign
  <2>4. CASE FieldPropBackward
    <3>1. PICK a \in VirtualAssign, x \in Vertex :
            /\ CarriesTo(isComputedAccessPath, x.p, a.p1, a.p2, Carried(x.p, a.p1, a.p2))
            /\ Derive(Assign(a.insn, a.v1, x.p, a.v2, Carried(x.p, a.p1, a.p2), "fp", a.ctx))
      BY <2>4 DEF FieldPropBackward
    <3>2. WithinLimit(Carried(x.p, a.p1, a.p2)) /\ WithinLimit(x.p)
      BY <1>3, <1>4, <2>2, <3>1
    <3> QED  BY <1>3, <3>1, <3>2 DEF Derive, Assign
  <2>5. CASE StarForward
    <3>1. PICK a \in VirtualAssign, x \in Vertex :
            /\ ~HasStar(a.p1)
            /\ DeriveStar(Assign(a.insn, a.v1, Append(a.p1, STAR), a.v2, x.p, "star", a.ctx),
                          Append(a.p1, STAR))
      BY <2>5 DEF StarForward, NeedsStar
    <3>2. WithinLimit(Append(a.p1, STAR)) /\ WithinLimit(x.p)
      BY <1>1, <1>3, <1>4, <3>1, LimitFacts
    <3> DEFINE b == Assign(a.insn, a.v1, Append(a.p1, STAR), a.v2, x.p, "star", a.ctx)
    <3>3. b.p1 = Append(a.p1, STAR) /\ b.p2 = x.p
      BY DEF Assign
    <3>4. VirtualAssign' \subseteq VirtualAssign \cup {b}
      BY <1>a, <3>1
    <3> HIDE DEF b
    <3> QED  BY <1>3, <3>2, <3>3, <3>4
  <2>6. CASE StarBackward
    <3>1. PICK a \in VirtualAssign, x \in Vertex :
            /\ ~HasStar(a.p2)
            /\ DeriveStar(Assign(a.insn, a.v1, x.p, a.v2, Append(a.p2, STAR), "star", a.ctx),
                          Append(a.p2, STAR))
      BY <2>6 DEF StarBackward, NeedsStar
    <3>2. WithinLimit(Append(a.p2, STAR)) /\ WithinLimit(x.p)
      BY <1>1, <1>3, <1>4, <3>1, LimitFacts
    <3> DEFINE b == Assign(a.insn, a.v1, x.p, a.v2, Append(a.p2, STAR), "star", a.ctx)
    <3>3. b.p1 = x.p /\ b.p2 = Append(a.p2, STAR)
      BY DEF Assign
    <3>4. VirtualAssign' \subseteq VirtualAssign \cup {b}
      BY <1>a, <3>1
    <3> HIDE DEF b
    <3> QED  BY <1>3, <3>2, <3>3, <3>4
  <2> QED  BY <1>3, <2>1, <2>3, <2>4, <2>5, <2>6, OwnRules
<1>6. \A p \in isComputedAccessPath' : WithinLimit(p)
  <2>1. CASE DynamicAccessPath
    <3>1. PICK ap : /\ Len(ap) <= ir.maxLength
                    /\ isComputedAccessPath' = isComputedAccessPath \cup {ap}
      BY <2>1 DEF DynamicAccessPath, AccessPathSize
    <3>2. ap \in Path
      BY <2>1, <3>1, StepsAddTyped DEF Next, FlowNext
    <3> QED  BY <1>1, <1>3, <3>1, <3>2, LimitFacts
  <2>2. CASE StarForward \/ StarBackward
    <3>1. PICK far \in Path :
            WithinLimit(far) /\ ~HasStar(far) /\ isComputedAccessPath' = isComputedAccessPath \cup {Append(far, STAR)}
      <4>1. PICK a \in VirtualAssign : \E far \in {a.p1, a.p2} :
              ~HasStar(far) /\ isComputedAccessPath' = isComputedAccessPath \cup {Append(far, STAR)}
        BY <2>2 DEF StarForward, StarBackward, NeedsStar, DeriveStar
      <4> QED  BY <1>3, <4>1
    <3> QED  BY <1>1, <1>3, <3>1, LimitFacts
  <2> QED  BY <1>3, <2>1, <2>2, OwnRules
<1>7. \A x \in LocallyReachable' : WithinLimit(x.p1) /\ WithinLimit(x.p2)
  <2>1. CASE ReachFromRoot
    <3>1. PICK a \in VirtualAssign : LocallyReachable' = LocallyReachable \cup {Key(a)}
      BY <2>1, RelationTypes DEF ReachFromRoot, Reach
    <3> QED  BY <1>3, <3>1 DEF Key, Flow
  <2>2. CASE ReachStep
    <3>1. PICK l \in LocallyReachable, a \in VirtualAssign : \E ctx \in {l.ctx, a.ctx} :
            LocallyReachable' = LocallyReachable \cup {Flow(a.v1, a.p1, l.v2, l.p2, ctx)}
      BY <2>2, RelationTypes DEF ReachStep, Reach
    <3> QED  BY <1>3, <3>1 DEF Flow
  <2> QED  BY <1>3, <2>1, <2>2, OwnRules
<1>8. \A x \in SummaryFlow' : WithinLimit(x.p1) /\ WithinLimit(x.p2)
  <2>1. CASE SummarizeFlow
    <3>1. PICK l \in LocallyReachable, f1 \in ir.formal, f2 \in ir.formal :
            SummaryFlow' = SummaryFlow \cup {Summary(f1.f, f1.n, l.p1, f2.f, f2.n, l.p2, l.ctx)}
      BY <2>1 DEF SummarizeFlow, Summarize
    <3> QED  BY <1>3, <3>1 DEF Summary
  <2>2. CASE SummarizeAlias
    <3>1. PICK held \in LocallyReachable, written \in LocallyReachable,
               f1 \in ir.formal, f2 \in ir.formal :
            /\ AliasedWrite(isComputedAccessPath, held.p1, written.p1, held.p2,
                            held.p2 \o After(held.p1, written.p1))
            /\ SummaryFlow' = SummaryFlow \cup
                 {Summary(f1.f, f1.n, held.p2 \o After(held.p1, written.p1),
                          f2.f, f2.n, written.p2, AnyContext)}
      BY <2>2 DEF SummarizeAlias, Summarize
    <3>2. WithinLimit(held.p2 \o After(held.p1, written.p1)) /\ WithinLimit(written.p2)
      BY <1>3, <3>1, AliasBound
    <3> DEFINE w == Summary(f1.f, f1.n, held.p2 \o After(held.p1, written.p1),
                            f2.f, f2.n, written.p2, AnyContext)
    <3>3. w.p1 = held.p2 \o After(held.p1, written.p1) /\ w.p2 = written.p2
      BY DEF Summary
    <3>4. SummaryFlow' = SummaryFlow \cup {w}
      BY <3>1
    <3> HIDE DEF w
    <3> QED  BY <1>3, <3>2, <3>3, <3>4
  <2>3. CASE SummarizeGlobals
    <3>1. PICK x1 \in Vertex, x2 \in Vertex, f1 \in ir.formal, f2 \in ir.formal :
            SummaryFlow' = SummaryFlow \cup {Summary(f1.f, f1.n, x1.p, f2.f, f2.n, x2.p, AnyContext)}
      BY <2>3 DEF SummarizeGlobals, Summarize
    <3> QED  BY <1>3, <1>4, <3>1 DEF Summary
  <2> QED  BY <1>3, <2>1, <2>2, <2>3, OwnRules
<1>9. \A x \in GlobalReachable' : WithinLimit(x.p1) /\ WithinLimit(x.p2)
  <2>1. CASE GlobalClose
    <3>1. PICK to \in Vertex, from \in Vertex :
            \/ GlobalReachable' = GlobalReachable \cup {GlobalFlow(to.v, to.p, from.v, from.p)}
            \/ \E r \in GlobalReachable :
                 GlobalReachable' = GlobalReachable \cup {GlobalFlow(to.v, to.p, r.v2, r.p2)}
      BY <2>1 DEF GlobalClose, ExtendGlobal, GlobalVertex
    <3> QED  BY <1>3, <1>4, <3>1 DEF GlobalFlow
  <2> QED  BY <1>3, <2>1, OwnRules
<1>10. \A x \in VirtualAlloc' : WithinLimit(x.p)
  <2>1. CASE AllocThroughGlobals
    <3>1. PICK ld \in VirtualAssign, y \in VirtualAlloc :
            VirtualAlloc' = VirtualAlloc \cup {[v |-> ld.v1, p |-> ld.p1, obj |-> y.obj, ctx |-> AnyContext]}
      BY <2>1, RelationTypes DEF AllocThroughGlobals, Allocate
    <3> QED  BY <1>3, <3>1
  <2>2. CASE AllocInstantiate
    <3>1. PICK s \in SummaryAlloc, to \in ir.actual :
            /\ \/ OneEmptyCat(to.p \o s.p, to.p, s.p)
               \/ ComputedAccessPathNonEmptySplit(isComputedAccessPath, to.p \o s.p, to.p, s.p)
            /\ VirtualAlloc' = VirtualAlloc \cup
                 {[v |-> to.v, p |-> to.p \o s.p, obj |-> s.obj, ctx |-> AnyContext]}
      BY <2>2 DEF AllocInstantiate, Allocate
    <3>2. to.p \o s.p \in isComputedAccessPath \cup {to.p, s.p}
      BY <3>1 DEF OneEmptyCat, ComputedAccessPathNonEmptySplit
    <3>3. WithinLimit(to.p \o s.p)
      BY <1>3, <3>2, BoundFacts
    <3> DEFINE w == [v |-> to.v, p |-> to.p \o s.p, obj |-> s.obj, ctx |-> AnyContext]
    <3>4. VirtualAlloc' = VirtualAlloc \cup {w} /\ w.p = to.p \o s.p
      BY <3>1
    <3> HIDE DEF w
    <3> QED  BY <1>3, <3>3, <3>4
  <2> QED  BY <1>3, <2>1, <2>2, OwnRules
<1>11. \A x \in SummaryAlloc' : WithinLimit(x.p)
  <2>1. CASE SummarizeAlloc
    <3>1. PICK y \in VirtualAlloc, fm \in ir.formal :
            \/ SummarizeAllocation([f |-> fm.f, n |-> fm.n, p |-> y.p, obj |-> y.obj, ctx |-> y.ctx])
            \/ \E l \in LocallyReachable : \E ctx \in {y.ctx, l.ctx} :
                 SummarizeAllocation([f |-> fm.f, n |-> fm.n, p |-> l.p1, obj |-> y.obj, ctx |-> ctx])
      BY <2>1 DEF SummarizeAlloc
    <3>2. ASSUME NEW fn, NEW n, NEW q, NEW obj, NEW ctx, WithinLimit(q),
                 SummarizeAllocation([f |-> fn, n |-> n, p |-> q, obj |-> obj, ctx |-> ctx])
          PROVE  \A x \in SummaryAlloc' : WithinLimit(x.p)
      <4> DEFINE w == [f |-> fn, n |-> n, p |-> q, obj |-> obj, ctx |-> ctx]
      <4>1. SummaryAlloc' = SummaryAlloc \cup {w} /\ w.p = q
        BY <3>2 DEF SummarizeAllocation
      <4> HIDE DEF w
      <4> QED  BY <1>3, <3>2, <4>1
    <3> QED  BY <1>3, <3>1, <3>2
  <2>2. CASE SummarizeAllocAlias
    <3>1. PICK held \in LocallyReachable, written \in LocallyReachable,
               y \in VirtualAlloc, fm \in ir.formal :
            /\ AliasedWrite(isComputedAccessPath, held.p1, written.p1, held.p2,
                            held.p2 \o After(held.p1, written.p1))
            /\ SummarizeAllocation([f |-> fm.f, n |-> fm.n, p |-> held.p2 \o After(held.p1, written.p1),
                                    obj |-> y.obj, ctx |-> y.ctx])
      BY <2>2 DEF SummarizeAllocAlias
    <3>2. WithinLimit(held.p2 \o After(held.p1, written.p1))
      BY <1>3, <3>1, AliasBound
    <3> DEFINE w == [f |-> fm.f, n |-> fm.n, p |-> held.p2 \o After(held.p1, written.p1),
                     obj |-> y.obj, ctx |-> y.ctx]
    <3>3. SummaryAlloc' = SummaryAlloc \cup {w} /\ w.p = held.p2 \o After(held.p1, written.p1)
      BY <3>1 DEF SummarizeAllocation
    <3> HIDE DEF w
    <3> QED  BY <1>3, <3>2, <3>3
  <2> QED  BY <1>3, <2>1, <2>2, OwnRules
<1> QED  BY <1>2, <1>5, <1>6, <1>7, <1>8, <1>9, <1>10, <1>11 DEF PathsBounded

\* No path grows past the longest path of the program or the limit of the
\* settings, plus one wildcard, however calls recurse: the fixpoint is over a
\* finite set of tuples.
THEOREM PathsStayBounded == Spec => []PathsBounded
<1>1. TypeOK /\ PathsBounded /\ [Next]_vars => PathsBounded'
  BY BoundStep
<1> QED  BY <1>1, BoundInit, TypeCorrect, PTL DEF Spec

=============================================================================
