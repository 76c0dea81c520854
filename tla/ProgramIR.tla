----------------------------- MODULE ProgramIR -----------------------------
(***************************************************************************)
(* The program under analysis: the CTADL IR a frontend hands to the index  *)
(* (ctadl_schema.dl), with the settings the index reads from the input     *)
(* database (config.dl) and the tuples the models add.  A program is a     *)
(* record of relations; nothing in the index changes it.                   *)
(*                                                                         *)
(* Programs is the set of programs a check ranges over.  Every one obeys   *)
(* the constraints the schema documents and asserts.                       *)
(***************************************************************************)
EXTENDS AccessPaths, Integers

CONSTANTS
  Var, Function, Insn, Object,  \* CVar, CFunction, CInsn, allocated objects
  ParamIndex,                   \* parameter positions, -1 is the return value
  Programs

Vertices == [v : Var, p : Path]
Vtx(v, p) == [v |-> v, p |-> p]

MoveType  == [insn : Insn, v1 : Var, p1 : Path, v2 : Var, p2 : Path]
ModelType == [m1 : Function, n1 : ParamIndex, p1 : Path,
              m2 : Function, n2 : ParamIndex, p2 : Path]
InfluenceType == [f : Function, n1 : ParamIndex, p1 : Path,
                  n2 : ParamIndex, p2 : Path]

ProgramType ==
  [global : SUBSET Var,                           \* CVar_isGlobal
   inFunction : [Var -> Function],                \* CVar_InFunction, of locals
   insnIn : [Insn -> Function],                   \* CInsn_InFunction
   move : SUBSET MoveType,                        \* CInsn_Move
   use : SUBSET Vertices,                         \* CInsn_Use
   call : SUBSET [insn : Insn, f : Function],     \* CInsn_Call, _UnsuspiciousCall
   actual : SUBSET [insn : Insn, n : ParamIndex, v : Var, p : Path],
   formal : SUBSET [f : Function, n : ParamIndex, v : Var],
   byRef : SUBSET [f : Function, n : ParamIndex], \* CFunction_isFormalParamByRef
   omit : SUBSET Function,                        \* CFunction_OmitSummaries
   alloc : SUBSET [v : Var, p : Path, obj : Object],
   paths : SUBSET Path,                           \* CisAccessPath and CisField
   modelAssign : SUBSET ModelType,
   influenceFrom : SUBSET InfluenceType,
   influenceTo : SUBSET InfluenceType,
   insnModel : SUBSET MoveType,                   \* CInsn_ModelAssign
   enableStar : BOOLEAN,                          \* EnableStar
   maxLength : Nat,                               \* DynamicAccessPaths_MaxLength
   disableGlobal : BOOLEAN]                       \* DisableGlobalDataFlow

----------------------------------------------------------------------------
(* The constraints of the schema.  A formal belongs to the function it is  *)
(* a parameter of, an actual to the function of its call; both are what    *)
(* every frontend emits and what the index relies on.                      *)

LocalTo(P, v, f) == v \notin P.global /\ P.inFunction[v] = f

WellFormed(P) ==
  /\ \A x \in P.formal : LocalTo(P, x.v, x.f)
  /\ \A m \in P.move :
       \A v \in {m.v1, m.v2} : v \in P.global \/ LocalTo(P, v, P.insnIn[m.insn])
  /\ \A x \in P.actual : LocalTo(P, x.v, P.insnIn[x.insn])
  /\ \A m \in P.insnModel :
       \A v \in {m.v1, m.v2} : v \in P.global \/ LocalTo(P, v, P.insnIn[m.insn])
  /\ \A p \in P.paths : ~HasStar(p)
  /\ \A m \in P.modelAssign : StarOnlyLast(m.p1) /\ StarOnlyLast(m.p2)
  /\ \A m \in P.influenceFrom \cup P.influenceTo : ~HasStar(m.p1) /\ ~HasStar(m.p2)

ASSUME ProgramsAssumption == Programs \subseteq ProgramType
ASSUME ProgramsWellFormed == \A P \in Programs : WellFormed(P)
ASSUME ParamIndexAssumption == ParamIndex \subseteq Int

\* Every path the program, its calls and its models mention.
ProgramPaths(P) ==
  P.paths \cup {Empty, <<STAR>>}
    \cup {x.p : x \in P.use \cup P.actual \cup P.alloc}
    \cup UNION {{m.p1, m.p2} : m \in P.move \cup P.insnModel \cup P.modelAssign
                                       \cup P.influenceFrom \cup P.influenceTo}

----------------------------------------------------------------------------
(* What the rules without recursion derive from the program alone.         *)

isFormal(P, v)  == \E x \in P.formal : x.v = v
isByRef(P, f, n) == [f |-> f, n |-> n] \in P.byRef
hasFormal(P, f, n) == \E x \in P.formal : x.f = f /\ x.n = n

\* A model applies when its functions have the formals it names and the
\* flow it states is not from a place to itself.
ApplicableModels(P) ==
  {m \in P.modelAssign :
     /\ hasFormal(P, m.m1, m.n1) /\ hasFormal(P, m.m2, m.n2)
     /\ m.m1 # m.m2 \/ m.n1 # m.n2 \/ m.p1 # m.p2
     /\ ~P.disableGlobal}

\* An influence model wildcards what it writes (To) or what it reads (From).
InfluenceApplies(P, m) ==
  hasFormal(P, m.f, m.n1) /\ hasFormal(P, m.f, m.n2) /\ ~P.disableGlobal

ApplicableFrom(P) ==
  {m \in P.influenceFrom : InfluenceApplies(P, m)
                             /\ (m.n1 # m.n2 \/ m.p1 # m.p2 \o <<STAR>>)}
ApplicableTo(P) ==
  {m \in P.influenceTo : InfluenceApplies(P, m)
                           /\ (m.n1 # m.n2 \/ m.p1 \o <<STAR>> # m.p2)}

Summary(m1, n1, p1, m2, n2, p2, ctx) ==
  [m1 |-> m1, n1 |-> n1, p1 |-> p1, m2 |-> m2, n2 |-> n2, p2 |-> p2, ctx |-> ctx]

ModelFlows(P) ==
  {Summary(m.m1, m.n1, m.p1, m.m2, m.n2, m.p2, <<>>) : m \in ApplicableModels(P)}
    \cup {Summary(m.f, m.n1, m.p1, m.f, m.n2, m.p2 \o <<STAR>>, <<>>) :
            m \in ApplicableFrom(P)}
    \cup {Summary(m.f, m.n1, m.p1 \o <<STAR>>, m.f, m.n2, m.p2, <<>>) :
            m \in ApplicableTo(P)}

\* CisAccessPath once the models have added theirs.
CisAccessPath(P) ==
  P.paths \cup {Empty, <<STAR>>}
    \cup UNION {{m.p1, m.p2} :
                  m \in ApplicableModels(P) \cup ApplicableFrom(P) \cup ApplicableTo(P)}

\* The computed paths before any rule has run.
InitialPaths(P) ==
  CisAccessPath(P) \cup {m.p2 \o <<STAR>> : m \in ApplicableFrom(P)}
                    \cup {m.p1 \o <<STAR>> : m \in ApplicableTo(P)}

\* CallEdge before hybrid inlining resolves any more calls.
InitialCallEdges(P) == {[insn |-> c.insn, f |-> c.f, ctx |-> <<>>] : c \in P.call}

=============================================================================
