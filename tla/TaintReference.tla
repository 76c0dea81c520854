--------------------------- MODULE TaintReference ---------------------------
(***************************************************************************)
(* What the slices of a query mean.  The same walk over the program that    *)
(* IndexReference takes from a formal starts at a source: anywhere in a     *)
(* function, so that the value may leave it to any of its callers.          *)
(***************************************************************************)
EXTENDS TaintSlice, IndexReference

\* No slice can take another step.
Sliced == query # NoQuery /\ ~ENABLED SliceNext

NoSanitizers ==
  /\ query.sanitizeVertex = {} /\ query.sanitizeAllVertex = {}
  /\ query.sanitizeEdge = {} /\ query.sanitizeAllEdge = {}

\* Where data can be that is at v.p, in a function of unknown callers.
Flows(C, aliases, strict, v, p) ==
  PlacesFrom(ir, C, aliases, strict, Place(v, p, v, <<>>, TRUE, Len(p)))

\* The forward slice taints only where data from a source with that label can
\* get by a sequence of instructions whose returns all match their calls: the
\* one bit of call state and the summary edges together lose no call site.
TaintSound ==
  ~Wildcards =>
    LET aliases == Aliases(ir, Followed, FALSE)
        tainted == UNION {{Tagged(s.label, w.v, w.q) : w \in Flows(Followed, aliases, FALSE, s.v, s.p)} :
                            s \in TaintSourceVertex}
    IN  \A z \in ReachableVertex : z.dir = "fw" => Tagged(z.label, z.v, z.p) \in tainted

\* The backward slice reports only what can get to a sink with that label.
BackwardSound ==
  ~Wildcards =>
    LET aliases == Aliases(ir, Followed, FALSE)
    IN  \A z \in {z \in ReachableVertex : z.dir = "bw"} :
          \E w \in Flows(Followed, aliases, FALSE, z.v, z.p) :
            Tagged(z.label, w.v, w.q) \in LeakingSinkVertex

\* Taint is lost only with a hint: when no assignment is named as an "assignment
\* that loses taint", the forward slice misses no place that data from a source
\* gets to.
MissesHaveHints ==
  Sliced /\ EnableForwardSlice(query) /\ NoSanitizers /\ LostAssign("fw") = {} =>
    \A s \in TaintSourceVertex :
      \A w \in Flows(isComputedAccessPath, {}, TRUE, s.v, s.p) :
        isReachable("fw", w.v, w.q, s.label)

\* Where the trails of a slice lead that start in the vertices S.
Onward(S) ==
  LET trail[n \in Nat] ==
        IF n = 0 THEN S
        ELSE LET before == trail[n - 1]
             IN  before \cup {e.to : e \in {e \in ReachableEdge : e.from \in before}}
  IN  trail[Cardinality(ReachableVertex)]

LeadsTo(dir, s, t) ==
  \E z \in Onward({Node(dir, s.v, s.p, s.label, MatchStart, AnyContext)}) :
    z.v = t.v /\ z.p = t.p

\* A trail leads from a source to a sink in the forward slice exactly when one
\* leads from the sink to the source in the backward slice, whatever the
\* sanitizers between them: "prefer to use AllEdge and AllVertex as it gives
\* the most consistent results".  A sanitizer of one label stops that label
\* alone, and one on the source or sink itself stops only the slice from it.
DirectionsAgree ==
  Sliced /\ EnableForwardSlice(query) /\ EnableBackwardSlice(query) =>
    \A s \in TaintSourceVertex, t \in LeakingSinkVertex :
      /\ s.label = t.label \/ query.sanitizeVertex \cup query.sanitizeEdge = {}
      /\ ~SanitizeVertexRel(s.v, s.p, s.label)
      /\ ~SanitizeVertexRel(t.v, t.p, t.label)
      => (LeadsTo("fw", s, t) <=> LeadsTo("bw", t, s))

\* "if v.p tainted, don't let any data flows out": a place is tainted only by
\* data that can get there without leaving a sanitized vertex.
FlowsAround(z) ==
  LET aliases == Aliases(ir, Followed, FALSE)
      walk[n \in Nat] ==
        IF n = 0 THEN [seen |-> {z}, new |-> {z}]
        ELSE LET before  == walk[n - 1]
                 through == {w \in before.new : Vtx(w.v, w.q) \notin query.sanitizeAllVertex}
                 new == SuccessorsOf(ir, Followed, aliases, FALSE, through) \ before.seen
             IN  [seen |-> before.seen \cup new, new |-> new]
  IN  UNION {walk[n].seen : n \in Rounds}

SanitizersStopFlow ==
  Sliced =>
    \A z \in {z \in ReachableVertex : z.dir = "fw"} :
      \E s \in TaintSourceVertex :
        \E w \in FlowsAround(Place(s.v, s.p, s.v, <<>>, TRUE, Len(s.p))) : w.v = z.v /\ w.q = z.p

=============================================================================
