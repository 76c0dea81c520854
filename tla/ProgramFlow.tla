----------------------------- MODULE ProgramFlow -----------------------------
(***************************************************************************)
(* Where the data of a program can get to.  A value sits at an access path  *)
(* of a variable and moves with the instructions of the program, into a     *)
(* callee at a call and back out at the matching return.  The reference     *)
(* follows values one at a time with an explicit stack of calls and knows   *)
(* nothing of summaries, splits of paths or vertices.                       *)
(***************************************************************************)
EXTENDS ProgramIR

CONSTANTS
  Followed,  \* the paths a value is followed at: all of Path, or few enough
  Depths,    \* how many calls a value may be inside of: all of Nat, or up to some
  Rounds,    \* how many steps a value may take: all of Nat, or enough of them
  AliasRounds  \* how often an alias may come of a write below another, likewise

ASSUME FollowedAssumption ==
  Followed \subseteq Path /\ Depths \subseteq Nat /\ Rounds \subseteq Nat /\ AliasRounds \subseteq Nat

\* A value at v.q.  entry is the formal it entered the current function in,
\* stack the calls it is inside of with the entries of the callers; free
\* says it came out of a global or an allocation, from an unknown caller.
\* The last store wrote the first `at` fields of q, 0 before any store.
Place(v, q, entry, stack, free, at) ==
  [v |-> v, q |-> q, entry |-> entry, stack |-> stack, free |-> free, at |-> at]

Prefix(s, t) == Len(s) <= Len(t) /\ SubSeq(t, 1, Len(s)) = s

MovesTo(P, z) ==
  {Place(m.v1, m.p1 \o After(m.p2, z.q), z.entry,
         IF m.v2 \in P.global THEN <<>> ELSE z.stack,
         z.free \/ m.v2 \in P.global, Len(m.p1)) :
     m \in {m \in P.move \cup P.insnModel : m.v2 = z.v /\ Prefix(m.p2, z.q)}}

CallsTo(P, z) ==
  UNION {{Place(x.v, After(a.p, z.q), x.v,
                <<[insn |-> a.insn, entry |-> z.entry]>> \o z.stack, z.free, 0) :
            x \in {x \in P.formal : x.n = a.n /\ [insn |-> a.insn, f |-> x.f] \in P.call}} :
         a \in {a \in P.actual : a.v = z.v /\ Prefix(a.p, z.q)}}

\* What gets out of formal x of its function by a value at x.q.  A model says
\* of a formal it writes that what it writes gets out; where the question is
\* what the rules must find (strict), a model is good for its own flow alone.
GetsOut(P, strict, x, q) ==
  \/ q # Empty
  \/ [f |-> x.f, n |-> x.n] \in P.byRef
  \/ ~strict /\ \E mod \in P.modelAssign : mod.m1 = x.f /\ mod.n1 = x.n /\ mod.p1 = Empty

ReturnsTo(P, strict, z) ==
  UNION {{Place(a.v, a.p \o z.q,
                IF z.stack = <<>> THEN a.v ELSE Head(z.stack).entry,
                IF z.stack = <<>> THEN <<>> ELSE Tail(z.stack), z.free, Len(a.p) + z.at) :
            a \in {a \in P.actual :
                     /\ a.n = x.n /\ [insn |-> a.insn, f |-> x.f] \in P.call
                     /\ IF z.stack = <<>> THEN z.free ELSE Head(z.stack).insn = a.insn}} :
         x \in {x \in P.formal : x.v = z.v /\ GetsOut(P, strict, x, z.q)}}

\* A modelled flow happens in the body of its function; one between two
\* functions is like a flow through a global.
ModelsTo(P, z) ==
  UNION {{Place(x1.v, mod.p1 \o After(mod.p2, z.q), z.entry,
                IF mod.m1 = mod.m2 THEN z.stack ELSE <<>>,
                z.free \/ mod.m1 # mod.m2, Len(mod.p1)) :
            x1 \in {x \in P.formal : x.f = mod.m1 /\ x.n = mod.n1}} :
         mod \in {mod \in P.modelAssign :
                   /\ [f |-> mod.m2, n |-> mod.n2, v |-> z.v] \in P.formal
                   /\ Prefix(mod.p2, z.q)}}

\* Where t.G holds formal x.F, a value strictly below t.G is in x too, unless
\* it came in by x in this call.  It is in the x of an unknown call, if t.G got
\* hold of x.F through a global.  When strict, only a store below t.G puts it
\* there; moving a whole object that has the value somewhere inside does not.
WritesTo(aliases, strict, z) ==
  {Place(h.x, h.F \o After(h.G, z.q), z.entry, IF h.free THEN <<>> ELSE z.stack,
         z.free \/ h.free, 0) :
     h \in {h \in aliases : /\ h.t = z.v /\ Prefix(h.G, z.q) /\ h.G # z.q
                            /\ h.x # z.entry \/ (z.free /\ ~strict)
                            /\ strict => Len(h.G) < z.at /\ ~h.free}}

\* C: the paths that are tracked; aliases: [x, F, t, G, free], t.G holds x.F.
StepsTo(P, aliases, strict, z) ==
  MovesTo(P, z) \cup CallsTo(P, z) \cup ReturnsTo(P, strict, z)
    \cup ModelsTo(P, z) \cup WritesTo(aliases, strict, z)

Successors(P, C, aliases, strict, z) ==
  {w \in StepsTo(P, aliases, strict, z) : w.q \in C /\ Len(w.stack) \in Depths}

SuccessorsOf(P, C, aliases, strict, S) == UNION {Successors(P, C, aliases, strict, w) : w \in S}

PlacesFrom(P, C, aliases, strict, z) ==
  LET walk[n \in Nat] ==
        IF n = 0 THEN [seen |-> {z}, new |-> {z}]
        ELSE LET before == walk[n - 1]
                 new == SuccessorsOf(P, C, aliases, strict, before.new) \ before.seen
             IN  [seen |-> before.seen \cup new, new |-> new]
  IN  UNION {walk[n].seen : n \in Rounds}

Entering(x, F) == Place(x, F, x, <<>>, FALSE, 0)

\* Where a value entering in formal x.F can be, back in the same function.
HeldAt(P, C, aliases, strict, x, F) ==
  {[x |-> x.v, F |-> F, t |-> w.v, G |-> w.q, free |-> w.free] :
     w \in {w \in PlacesFrom(P, C, aliases, strict, Entering(x.v, F)) :
              w.stack = <<>> /\ w.v \notin P.global /\ (w.v # x.v \/ w.q # F)}}

HeldFrom(P, C, aliases, strict, x) ==
  UNION {HeldAt(P, C, aliases, strict, x, F) : F \in {q \in C : ~HasStar(q)}}

HeldBy(P, C, aliases, strict) == UNION {HeldFrom(P, C, aliases, strict, x) : x \in P.formal}

\* The alias steps can themselves make new aliases.
Aliases(P, C, strict) ==
  LET known[n \in Nat] == IF n = 0 THEN {} ELSE HeldBy(P, C, known[n - 1], strict)
  IN  UNION {known[n] : n \in AliasRounds}

=============================================================================
