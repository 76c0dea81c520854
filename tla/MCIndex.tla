------------------------------ MODULE MCIndex ------------------------------
(***************************************************************************)
(* Small programs for the index.  Each has a function m with formals a and *)
(* b, and most a function c with formals u and w that m calls on x and y;  *)
(* b and w are passed by reference.                                        *)
(***************************************************************************)
EXTENDS IndexReference

CONSTANTS
  m, c,                       \* functions
  a, b, x, y, u, w, t, g, h,  \* variables; g and h are global
  i1, i2, i3, i4, j1, j2,     \* instructions, i of m and j of c
  o,                          \* an object
  f, k,                       \* fields
  MaxDepth,                   \* calls a value may be inside of
  MaxPathLength,              \* the longest path a value is followed at
  MaxRounds, MaxAliasRounds   \* enough for a value to have been everywhere

MCFunction == {m, c}
MCVar      == {a, b, x, y, u, w, t, g, h}
MCInsn     == {i1, i2, i3, i4, j1, j2}
MCObject   == {o}
MCField    == {f, k}
MCIndexes  == {0, 1}

MCFollowed    == UNION {[1 .. n -> MCField] : n \in 0 .. MaxPathLength}
MCDepths      == 0 .. MaxDepth
MCRounds      == {MaxRounds}
MCAliasRounds == {MaxAliasRounds}

mv(insn, v1, p1, v2, p2) == [insn |-> insn, v1 |-> v1, p1 |-> p1, v2 |-> v2, p2 |-> p2]
act(insn, n, v, q) == [insn |-> insn, n |-> n, v |-> v, p |-> q]
fml(fn, n, v)      == [f |-> fn, n |-> n, v |-> v]

F == <<f>>
K == <<k>>
E == <<>>

\* m(a, &b) calls c(x, &y) at i2 in every program.
Base ==
  [global |-> {g, h},
   inFunction |-> [v \in MCVar |-> IF v \in {u, w, t} THEN c ELSE m],
   insnIn |-> [i \in MCInsn |-> IF i \in {j1, j2} THEN c ELSE m],
   move |-> {}, use |-> {},
   call |-> {[insn |-> i2, f |-> c]},
   actual |-> {act(i2, 0, x, E), act(i2, 1, y, E)},
   formal |-> {fml(m, 0, a), fml(m, 1, b), fml(c, 0, u), fml(c, 1, w)},
   byRef |-> {[f |-> m, n |-> 1], [f |-> c, n |-> 1]},
   omit |-> {}, alloc |-> {},
   paths |-> {F, K},
   modelAssign |-> {}, influenceFrom |-> {}, influenceTo |-> {}, insnModel |-> {},
   enableStar |-> FALSE, maxLength |-> 2, disableGlobal |-> FALSE]

\* Bodies of c: at most two of these moves.
CalleeMoves ==
  {mv(j1, w, E, u, E), mv(j1, w, F, u, E), mv(j1, w, E, u, F),
   mv(j1, t, E, w, E), mv(j2, t, F, u, E), mv(j2, w, K, t, F)}
CalleeBodies == {B \in SUBSET CalleeMoves : Cardinality(B) \in {1, 2}}

\* m hands over a, or an x whose field is a, and reads y or the field of y.
CallerBodies ==
  {{mv(i1, x, px, a, E), mv(i3, b, E, y, py)} : px, py \in {E, F}}

LocalPrograms ==
  {[Base EXCEPT !.move = B \cup M, !.actual = {act(i2, 0, x, E), act(i2, 1, y, q)}] :
     B \in CalleeBodies, M \in CallerBodies, q \in {E, F}}

\* Objects made by c, in a local or in an argument or a field of it; c may
\* write the object below an alias of w.
WithAlloc(B, q, v, path) ==
  [Base EXCEPT !.move = B \cup {mv(i3, b, E, y, E)}, !.alloc = {[v |-> v, p |-> path, obj |-> o]},
               !.actual = {act(i2, 0, x, E), act(i2, 1, y, q)}]
AllocPrograms ==
  {WithAlloc(B, q, t, E) : B \in {B \in CalleeBodies : Cardinality(B) = 2}, q \in {E, F}}
    \cup {WithAlloc({n}, q, u, F) : n \in CalleeMoves, q \in {E, F}}
    \cup {WithAlloc({mv(j1, t, E, w, E), mv(j2, t, F, u, E)}, q, u, E) : q \in {E, F}}

\* c stores to and loads from globals; m reads a global, calls itself and
\* makes an object it stores to a global.
GlobalMoves ==
  {mv(j1, g, F, u, E), mv(j2, w, E, g, E), mv(i1, h, E, g, F),
   mv(i3, b, E, h, E), mv(i4, g, E, a, E)}
GlobalPrograms ==
  {[Base EXCEPT !.move = B, !.alloc = {[v |-> a, p |-> E, obj |-> o]},
                !.call = {[insn |-> i2, f |-> c], [insn |-> i4, f |-> m]},
                !.actual = {act(i2, 0, x, E), act(i2, 1, y, E), act(i4, 1, y, E)}] :
     B \in {B \in SUBSET GlobalMoves :
              \/ Cardinality(B) = 2
              \/ Cardinality(B) = 3 /\ mv(i1, h, E, g, F) \in B /\ mv(j2, w, E, g, E) \notin B}}

\* c calls itself on a field of u.
Recursive ==
  [Base EXCEPT !.move = {mv(i1, x, E, a, E), mv(j1, w, F, u, E), mv(i3, b, E, y, E)},
               !.call = {[insn |-> i2, f |-> c], [insn |-> j2, f |-> c]},
               !.actual = {act(i2, 0, x, E), act(i2, 1, y, E),
                           act(j2, 0, u, F), act(j2, 1, w, E)}]

\* a goes to y.k.f on its way to b.f: that path is added, or a wildcard
\* stands for it, or it is not tracked.
Deep(star, limit) ==
  [Base EXCEPT !.move = {mv(i1, x, F, a, E), mv(j1, w, K, u, E), mv(i3, b, E, y, K)},
               !.use = {Vtx(b, F)},
               !.paths = {F, K}, !.enableStar = star, !.maxLength = limit]

\* Two accesses of u, one below the other, where w.k has no such paths.
DeepTwice ==
  [Base EXCEPT !.move = {mv(j1, w, K, u, E)}, !.use = {Vtx(u, F), Vtx(u, <<f, k>>)},
               !.paths = {F, K, <<f, k>>}, !.enableStar = TRUE]

\* m, called from c too, stores to a global that c loads from.
CrossFunction ==
  [Base EXCEPT !.move = {mv(i1, g, E, a, E), mv(j1, w, E, g, E)},
               !.call = {[insn |-> i2, f |-> c], [insn |-> j2, f |-> m]},
               !.actual = {act(i2, 0, x, E), act(i2, 1, y, E), act(j2, 0, w, E)}]

\* Flows stated by models, for c and for instruction i3; a move repeats i3's.
ModelFlow(n1, p1, n2, p2) ==
  [m1 |-> c, n1 |-> n1, p1 |-> p1, m2 |-> c, n2 |-> n2, p2 |-> p2]
Influence(n1, p1, n2, p2) == [f |-> c, n1 |-> n1, p1 |-> p1, n2 |-> n2, p2 |-> p2]
Modelled(assigns, to, from, disabled) ==
  [Base EXCEPT !.move = {mv(i1, x, E, a, E), mv(i4, b, E, y, E)},
               !.insnModel = {mv(i3, b, E, y, E)},
               !.modelAssign = assigns, !.influenceTo = to, !.influenceFrom = from,
               !.disableGlobal = disabled]

\* c copies one field of u to another before it writes below it.
SelfAlias ==
  [Base EXCEPT !.move = {mv(j1, u, K, u, F), mv(j2, u, <<k, f>>, w, E)},
               !.paths = {F, K, <<k, f>>, <<f, f>>}]

\* m gets an alias of a back from a global of c, and writes below that.
GlobalAlias ==
  [Base EXCEPT !.move = {mv(j1, g, E, u, E), mv(j2, w, E, g, E), mv(i1, x, F, b, E)},
               !.actual = {act(i2, 0, a, E), act(i2, 1, x, E)}]

\* A model lets data out of a parameter that is not passed by reference.
ModelledValue ==
  [Modelled({ModelFlow(1, E, 0, E)}, {}, {}, FALSE) EXCEPT !.byRef = {[f |-> m, n |-> 1]}]

SpecialPrograms ==
  {Recursive, Deep(FALSE, 2), Deep(FALSE, 1), Deep(TRUE, 0), Deep(TRUE, 2),
   DeepTwice, CrossFunction,
   Modelled({ModelFlow(1, F, 0, E)}, {}, {}, FALSE),
   Modelled({ModelFlow(1, F, 0, E)}, {Influence(1, E, 0, E)}, {}, FALSE),
   Modelled({ModelFlow(1, E, 0, E)}, {}, {Influence(1, E, 0, F)}, FALSE),
   Modelled({ModelFlow(1, F, 0, E)}, {Influence(1, E, 0, E)}, {}, TRUE),
   [Recursive EXCEPT !.omit = {c}], SelfAlias, GlobalAlias, ModelledValue}

MCPrograms == LocalPrograms \cup AllocPrograms \cup GlobalPrograms \cup SpecialPrograms

\* c stores the field of one argument in the field of the other, which m
\* passes as a field of y.
FieldOfActual ==
  {[Base EXCEPT !.move = {mv(i1, x, F, a, E), mv(j1, w, F, u, F), mv(i3, b, E, y, <<k, f>>)},
                !.actual = {act(i2, 0, x, E), act(i2, 1, y, K)},
                !.paths = {F, K, <<k, f>>}]}

\* c writes below an alias of w; its summaries are omitted, and there is no
\* interprocedural flow.
AliasedStore ==
  {[Base EXCEPT !.move = {mv(i1, x, E, a, E), mv(j1, t, E, w, E), mv(j2, t, F, u, E)},
                !.omit = {c}, !.disableGlobal = TRUE]}

=============================================================================
