------------------------------ MODULE MCTaint ------------------------------
(***************************************************************************)
(* Queries about small programs: m passes a, or an x whose field is a, to c *)
(* and reads what c leaves in y.                                           *)
(***************************************************************************)
EXTENDS TaintReference, MCIndex

CONSTANTS L1, L2  \* labels

MCLabel == {L1, L2}

\* All parameters are references, as a frontend makes those of object type.
ByRef == [f : MCFunction, n : MCIndexes]

\* Bodies of c, when m hands over a or an x whose field is a.
TaintBodies ==
  {<<E, {mv(j1, w, E, u, E)}>>, <<E, {mv(j1, t, E, w, E), mv(j2, t, F, u, E)}>>,
   <<F, {mv(j1, w, F, u, E)}>>, <<F, {mv(j1, w, E, u, F)}>>, <<F, {mv(j1, t, E, u, E)}>>}

\* c is called twice, on different data.
CalledTwice ==
  [Base EXCEPT !.move = {mv(i1, x, E, a, E), mv(j1, w, E, u, E)},
               !.call = {[insn |-> i2, f |-> c], [insn |-> i4, f |-> c]},
               !.actual = {act(i2, 0, x, E), act(i2, 1, y, E), act(i4, 0, b, E), act(i4, 1, b, E)}]

\* u reaches w through a global.
ThroughGlobal ==
  [Base EXCEPT !.move = {mv(i1, x, E, a, E), mv(j1, g, F, u, E), mv(j2, w, E, g, F)},
               !.byRef = ByRef, !.paths = {F}]

TaintPrograms ==
  {[Base EXCEPT !.move = B[2] \cup {mv(i1, x, B[1], a, E), mv(i3, b, E, y, E)},
                !.byRef = ByRef, !.paths = {F}] : B \in TaintBodies}
    \cup {CalledTwice, ThroughGlobal}

vertex(side, label, v, q) ==
  [kind |-> "vertex", side |-> side, label |-> label, v |-> v, p |-> q]
allFields(side, label, v) == [kind |-> "all_fields", side |-> side, label |-> label, v |-> v]
known(side, label, v, q) ==
  [kind |-> "known", side |-> side, label |-> label, v |-> v, p |-> q]
field(side, label, q)     == [kind |-> "field", side |-> side, label |-> label, p |-> q]
insn(side, label, i)      == [kind |-> "insn", side |-> side, label |-> label, insn |-> i]

Ask(dirs, endpoints) ==
  [direction |-> dirs, endpoints |-> endpoints, sanitizeVertex |-> {}, sanitizeAllVertex |-> {},
   sanitizeEdge |-> {}, sanitizeAllEdge |-> {}]

Both == {"forward", "backward"}
edge(v1, p1, v2, p2) == [v1 |-> v1, p1 |-> p1, v2 |-> v2, p2 |-> p2]

\* From m to c and back to m, from c to m, by field and by instruction, with
\* sanitizers of a label and of every label, between equal and other labels, and
\* with endpoints that match what the slices add.
TaintQueries ==
  {Ask(Both, {vertex("source", L1, a, E), allFields("sink", L2, b)}),
   Ask({}, {vertex("source", L1, a, E), vertex("source", L1, u, E), vertex("sink", L2, t, E)}),
   Ask({}, {field("source", L1, F), insn("sink", L1, i3), vertex("sink", L2, t, F)}),
   [Ask(Both, {vertex("source", L1, u, E), vertex("sink", L1, y, E)})
      EXCEPT !.sanitizeEdge = {[label |-> L1, edge |-> edge(w, E, u, E)]}],
   [Ask(Both, {vertex("source", L1, u, E), vertex("sink", L2, b, E)})
      EXCEPT !.sanitizeVertex = {[label |-> L1, v |-> w, p |-> F]},
             !.sanitizeAllEdge = {edge(b, E, y, E)}],
   [Ask(Both, {vertex("source", L1, a, E), vertex("sink", L1, b, E)})
      EXCEPT !.sanitizeAllEdge = {edge(y, E, x, E)}, !.sanitizeAllVertex = {Vtx(y, F)}],
   [Ask(Both, {vertex("source", L1, u, E), vertex("sink", L2, y, E)})
      EXCEPT !.sanitizeAllEdge = {edge(w, E, u, E)}, !.sanitizeAllVertex = {Vtx(t, F)}],
   Ask(Both, {vertex("source", L1, x, K), allFields("sink", L1, u), known("sink", L2, u, K)})}

\* c hands u on to w; u is sanitized.
Sanitizing ==
  {[Base EXCEPT !.move = {mv(i1, x, E, a, E), mv(j1, w, E, u, E), mv(i3, b, E, y, E)}]}
SanitizeInCallee ==
  {[Ask({"forward"}, {vertex("source", L1, a, E), vertex("sink", L2, b, E)})
      EXCEPT !.sanitizeAllVertex = {Vtx(u, E)}]}

=============================================================================
