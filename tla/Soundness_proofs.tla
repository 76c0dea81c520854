-------------------------- MODULE Soundness_proofs --------------------------
(***************************************************************************)
(* The index and the slices report only what the program does, for every    *)
(* program without wildcards.  The argument never looks at the order of the *)
(* rules: a tuple of the index is explained by a relation of values closed  *)
(* under the steps of ProgramFlow if whatever is at its source place, or    *)
(* below it, gets to its target place, in the same call or out of all       *)
(* calls.  Every rule keeps all tuples explained by all closed relations    *)
(* (IndexExplained), every step of a slice its vertices (SliceExplained),   *)
(* and where the reference takes values is a closed relation.               *)
(***************************************************************************)
EXTENDS TaintReference, Index_proofs, Recursion_proofs

----------------------------------------------------------------------------
(* Values and the steps they take.                                         *)

Frames     == Seq([insn : Insn, entry : Var])
PlaceType  == [v : Var, q : Path, entry : Var, stack : Frames, free : BOOLEAN, at : Nat]

\* The value came from an unknown caller and is inside of no call since.
Loose(z) == z.free /\ z.stack = <<>>

\* What happened between z and w is over: w is in the call z is in, or loose.
Continues(z, w) ==
  \/ w.entry = z.entry /\ w.stack = z.stack /\ (z.free => w.free)
  \/ Loose(w)

\* R relates values to where they get to, with aliases A, at least.
Closed(P, R, A) ==
  /\ \A s \in PlaceType : <<s, s>> \in R
  /\ \A s, z, w \in PlaceType : <<s, z>> \in R /\ w \in StepsTo(P, A, FALSE, z) => <<s, w>> \in R
  /\ \A x \in P.formal, F \in Path, w \in PlaceType :
       /\ ~HasStar(F) /\ <<Entering(x.v, F), w>> \in R
       /\ w.stack = <<>> /\ w.v \notin P.global /\ (w.v # x.v \/ w.q # F)
       => [x |-> x.v, F |-> F, t |-> w.v, G |-> w.q, free |-> w.free] \in A

\* p and the fields r below it.
Below(p, r) == p \o r

\* The value that was at o gets to z, which is at v.q.
At(R, o, z, v, q) ==
  o \in PlaceType /\ z \in PlaceType /\ <<o, z>> \in R /\ z.v = v /\ z.q = q

\* Whatever is at v2.p2, or below it, gets to v1.p1 and the same below that.
Carries(R, v1, p1, v2, p2) ==
  \A o, z : \A r \in Path :
    At(R, o, z, v2, Below(p2, r)) =>
      \E w : At(R, o, w, v1, Below(p1, r)) /\ Continues(z, w)

Loosens(R, v1, p1, v2, p2) ==
  \A o, z : \A r \in Path :
    At(R, o, z, v2, Below(p2, r)) => \E w : At(R, o, w, v1, Below(p1, r)) /\ Loose(w)

\* A place made of parts of their types is a place with these parts.
LEMMA PlaceOf ==
  ASSUME NEW v \in Var, NEW q \in Path, NEW entry \in Var, NEW stack \in Frames,
         NEW free \in BOOLEAN, NEW at \in Nat
  PROVE  /\ Place(v, q, entry, stack, free, at) \in PlaceType
         /\ Place(v, q, entry, stack, free, at).v = v
         /\ Place(v, q, entry, stack, free, at).q = q
         /\ Place(v, q, entry, stack, free, at).entry = entry
         /\ Place(v, q, entry, stack, free, at).stack = stack
         /\ Place(v, q, entry, stack, free, at).free = free
  BY DEF Place, PlaceType

\* The parts of a place have their types.
LEMMA PlaceFields ==
  ASSUME NEW z \in PlaceType
  PROVE  /\ z.v \in Var /\ z.q \in Path /\ z.entry \in Var /\ z.stack \in Frames
         /\ z.free \in BOOLEAN /\ z.at \in Nat
  BY DEF PlaceType

\* The types of the parts of a program that move values.
LEMMA ProgramParts ==
  ASSUME NEW P \in ProgramType
  PROVE  /\ P.move \cup P.insnModel \subseteq MoveType
         /\ P.actual \subseteq [insn : Insn, n : ParamIndex, v : Var, p : Path]
         /\ P.formal \subseteq [f : Function, n : ParamIndex, v : Var]
         /\ P.modelAssign \subseteq ModelType
         /\ P.alloc \subseteq [v : Var, p : Path, obj : Object]
  BY DEF ProgramType

\* The length of a path is a number, and a path with more behind is a path.
LEMMA PathLength ==
  ASSUME NEW p \in Path
  PROVE  Len(p) \in Nat
  BY DEF Path

\* A path with fields below it is a path that the shorter one is a prefix of.
LEMMA BelowFacts ==
  ASSUME NEW p \in Path, NEW r \in Path
  PROVE  /\ Below(p, r) \in Path
         /\ Prefix(p, Below(p, r)) /\ After(p, Below(p, r)) = r
         /\ Below(p, Empty) = p /\ Below(Empty, p) = p
         /\ Below(p, r) = Empty => p = Empty /\ r = Empty
         /\ Below(p, r) = p => r = Empty
<1>1. p \o r \in Path
  BY DEF Path
<1>2. SubSeq(p \o r, 1, Len(p)) = p /\ Len(p) <= Len(p \o r)
  BY DEF Path
<1>3. After(p, p \o r) = r
  BY AfterConcat
<1>4. p \o Empty = p /\ Empty \o p = p
  BY ConcatEmptySeq DEF Empty, Path
<1>5. (p \o r = Empty => p = Empty /\ r = Empty) /\ (p \o r = p => r = Empty)
  BY ConcatSimplifications DEF Empty, Path
<1> QED
  BY <1>1, <1>2, <1>3, <1>4, <1>5 DEF Prefix, Below

\* Fields below fields below a path.
LEMMA BelowAssociative ==
  ASSUME NEW p \in Path, NEW q \in Path, NEW r \in Path
  PROVE  Below(Below(p, q), r) = Below(p, Below(q, r))
  BY ConcatAssociative DEF Path, Below

\* What matches a prefix is the prefix and what is after it.
LEMMA PrefixSplits ==
  ASSUME NEW p \in Path, NEW q \in Path, Prefix(p, q)
  PROVE  After(p, q) \in Path /\ q = Below(p, After(p, q))
<1> DEFINE pre  == SubSeq(q, 1, Len(p))
           rest == SubSeq(q, Len(p) + 1, Len(q))
<1>1. After(p, q) \in Path /\ rest = After(p, q)
  BY AfterPath DEF After
<1>2. Len(p) \in Nat /\ Len(q) \in Nat /\ Len(p) <= Len(q)
  BY DEF Prefix, Path
<1>3. /\ q \in Seq(Field \cup {STAR}) /\ 1 \in 1 .. Len(q) + 1 /\ Len(p) \in 1 - 1 .. Len(q)
      /\ Len(q) \in Len(p) .. Len(q)
  BY <1>2 DEF Path
<1>4. pre \o rest = SubSeq(q, 1, Len(q)) /\ SubSeq(q, 1, Len(q)) = q
  BY <1>3, ConcatAdjacentSubSeq, SubSeqFull
<1>5. p = pre
  BY DEF Prefix
<1> HIDE DEF pre, rest
<1> QED
  BY <1>1, <1>4, <1>5 DEF Below

\* A call puts a frame on the stack and a return takes it off.
Push(insn, entry, stack) == <<[insn |-> insn, entry |-> entry]>> \o stack

\* No calls at all are a stack.
LEMMA NoFrames ==
  <<>> \in Frames
  BY DEF Frames

\* What is put on the stack is on top of it, above what was there.
LEMMA PushFacts ==
  ASSUME NEW insn \in Insn, NEW entry \in Var, NEW stack \in Frames
  PROVE  /\ Push(insn, entry, stack) \in Frames /\ Push(insn, entry, stack) # <<>>
         /\ Head(Push(insn, entry, stack)).insn = insn
         /\ Head(Push(insn, entry, stack)).entry = entry
         /\ Tail(Push(insn, entry, stack)) = stack
<1> DEFINE S == [insn : Insn, entry : Var]
           frame == [insn |-> insn, entry |-> entry]
<1>1. frame \in S /\ stack \in Seq(S) /\ frame.insn = insn /\ frame.entry = entry
  BY DEF Frames
<1> HIDE DEF S, frame
<1>2. <<frame>> \o stack \in Seq(S) /\ <<frame>> \o stack # <<>> /\ Head(<<frame>> \o stack) = frame
  BY <1>1
<1>3. Tail(<<frame>> \o stack) = stack
  BY <1>1
<1>4. Push(insn, entry, stack) = <<frame>> \o stack
  BY DEF Push, frame
<1> QED
  BY <1>1, <1>2, <1>3, <1>4 DEF Frames, S

----------------------------------------------------------------------------
(* The steps of a value in a closed relation.                              *)

\* A closed relation has where a value gets to by one more step.
LEMMA StepInClosed ==
  ASSUME NEW P, NEW R, NEW A, Closed(P, R, A),
         NEW o \in PlaceType, NEW z \in PlaceType, NEW w \in PlaceType, <<o, z>> \in R,
         \/ w \in MovesTo(P, z)
         \/ w \in CallsTo(P, z)
         \/ w \in ReturnsTo(P, FALSE, z)
         \/ w \in ModelsTo(P, z)
         \/ w \in WritesTo(A, FALSE, z)
  PROVE  At(R, o, w, w.v, w.q)
<1>1. w \in StepsTo(P, A, FALSE, z)
  BY DEF StepsTo
<1> QED
  BY <1>1 DEF Closed, At

\* An assignment of the program carries what it reads; out of a global the value is loose.
LEMMA Moved ==
  ASSUME NEW P \in ProgramType, NEW R, NEW A, Closed(P, R, A),
         NEW m \in P.move \cup P.insnModel
  PROVE  /\ Carries(R, m.v1, m.p1, m.v2, m.p2)
         /\ m.v2 \in P.global => Loosens(R, m.v1, m.p1, m.v2, m.p2)
<1>0. m.v1 \in Var /\ m.p1 \in Path /\ m.v2 \in Var /\ m.p2 \in Path
  BY ProgramParts DEF MoveType
<1>1. ASSUME NEW o, NEW z, NEW r \in Path, At(R, o, z, m.v2, Below(m.p2, r))
      PROVE  \E w : /\ At(R, o, w, m.v1, Below(m.p1, r)) /\ Continues(z, w)
                    /\ m.v2 \in P.global => Loose(w)
  <2> DEFINE out == m.v2 \in P.global
             stack == IF out THEN <<>> ELSE z.stack
             free == z.free \/ out
             w == Place(m.v1, m.p1 \o After(m.p2, z.q), z.entry, stack, free, Len(m.p1))
  <2>0. o \in PlaceType /\ z \in PlaceType /\ <<o, z>> \in R /\ z.v = m.v2 /\ z.q = Below(m.p2, r)
    BY <1>1 DEF At
  <2>1. After(m.p2, z.q) = r /\ Prefix(m.p2, z.q) /\ Below(m.p1, r) \in Path
    BY <1>0, <2>0, BelowFacts
  <2>2. stack \in Frames /\ z.entry \in Var
    BY <2>0, PlaceFields, NoFrames
  <2>3. free \in BOOLEAN /\ Len(m.p1) \in Nat
    BY <1>0, PathLength
  <2>4. w \in MovesTo(P, z)
    BY <2>0, <2>1 DEF MovesTo
  <2>5. w = Place(m.v1, Below(m.p1, r), z.entry, stack, free, Len(m.p1))
    BY <2>1 DEF Below
  <2> HIDE DEF stack, free, w
  <2>6. /\ w \in PlaceType /\ w.v = m.v1 /\ w.q = Below(m.p1, r) /\ w.entry = z.entry
        /\ w.stack = stack /\ w.free = free
    BY <1>0, <2>1, <2>2, <2>3, <2>5, PlaceOf
  <2>7. At(R, o, w, m.v1, Below(m.p1, r))
    BY <2>0, <2>4, <2>6, StepInClosed
  <2>8. Continues(z, w) /\ (out => Loose(w))
    BY <2>6 DEF Continues, Loose, stack, free
  <2> QED
    BY <2>7, <2>8
<1> QED
  BY <1>1 DEF Carries, Loosens

\* Actual a hands what it has to formal x.
Passes(P, a, x) ==
  a \in P.actual /\ x \in P.formal /\ x.n = a.n /\ [insn |-> a.insn, f |-> x.f] \in P.call

\* w is what z becomes when a call at insn takes it into formal v.
Inside(w, z, insn, v) ==
  w.entry = v /\ w.free = z.free /\ w.stack = Push(insn, z.entry, z.stack)

\* A call takes what its actual has into the formal.
LEMMA Called ==
  ASSUME NEW P \in ProgramType, NEW R, NEW A, Closed(P, R, A), NEW a, NEW x, Passes(P, a, x),
         NEW o, NEW z, NEW r \in Path, At(R, o, z, a.v, Below(a.p, r))
  PROVE  \E w : At(R, o, w, x.v, r) /\ Inside(w, z, a.insn, x.v)
<1>0. a \in P.actual /\ x \in P.formal /\ x.v \in Var /\ a.p \in Path /\ a.insn \in Insn
  BY ProgramParts DEF Passes
<1> DEFINE pushed == Push(a.insn, z.entry, z.stack)
           w == Place(x.v, After(a.p, z.q), x.v, pushed, z.free, 0)
           into(b) == {Place(y.v, After(b.p, z.q), y.v,
                             Push(b.insn, z.entry, z.stack), z.free, 0) :
                         y \in {y \in P.formal : y.n = b.n /\ [insn |-> b.insn, f |-> y.f] \in P.call}}
           from == {b \in P.actual : b.v = z.v /\ Prefix(b.p, z.q)}
<1>a. o \in PlaceType /\ z \in PlaceType /\ <<o, z>> \in R /\ z.v = a.v /\ z.q = Below(a.p, r)
  BY DEF At
<1>1. After(a.p, z.q) = r /\ Prefix(a.p, z.q)
  BY <1>0, <1>a, BelowFacts
<1>2. w \in into(a)
  BY <1>0 DEF Passes
<1>3. a \in from
  BY <1>0, <1>1, <1>a
<1>4. CallsTo(P, z) = UNION {into(b) : b \in from}
  BY DEF CallsTo, Push
<1> HIDE DEF into, from
<1>5. w \in CallsTo(P, z)
  BY <1>2, <1>3, <1>4
<1>6. z.entry \in Var /\ z.stack \in Frames /\ z.free \in BOOLEAN
  BY <1>a, PlaceFields
<1>7. pushed \in Frames
  BY <1>0, <1>6, PushFacts
<1> HIDE DEF pushed
<1>8. /\ w \in PlaceType /\ w.v = x.v /\ w.q = r /\ w.entry = x.v /\ w.stack = pushed
      /\ w.free = z.free
  BY <1>0, <1>1, <1>6, <1>7, PlaceOf
<1> HIDE DEF w
<1>9. At(R, o, w, x.v, r)
  BY <1>a, <1>5, <1>8, StepInClosed
<1> QED
  BY <1>8, <1>9 DEF pushed, Inside

\* A value at x.q gets out of formal x.
Gets(P, x, q) == GetsOut(P, FALSE, x, q)

\* Where a value returns to: the call on the stack or, when loose, any call.
LEMMA ReturnStep ==
  ASSUME NEW P, NEW z, NEW a, NEW x, Passes(P, a, x), z.v = x.v, Gets(P, x, z.q),
         IF z.stack = <<>> THEN z.free ELSE Head(z.stack).insn = a.insn
  PROVE  Place(a.v, a.p \o z.q,
               IF z.stack = <<>> THEN a.v ELSE Head(z.stack).entry,
               IF z.stack = <<>> THEN <<>> ELSE Tail(z.stack), z.free, Len(a.p) + z.at)
           \in ReturnsTo(P, FALSE, z)
<1> DEFINE w(b) == Place(b.v, b.p \o z.q,
                         IF z.stack = <<>> THEN b.v ELSE Head(z.stack).entry,
                         IF z.stack = <<>> THEN <<>> ELSE Tail(z.stack), z.free, Len(b.p) + z.at)
           outof(y) == {w(b) : b \in {b \in P.actual :
                              /\ b.n = y.n /\ [insn |-> b.insn, f |-> y.f] \in P.call
                              /\ IF z.stack = <<>> THEN z.free ELSE Head(z.stack).insn = b.insn}}
           at == {y \in P.formal : y.v = z.v /\ GetsOut(P, FALSE, y, z.q)}
<1>1. ReturnsTo(P, FALSE, z) = UNION {outof(y) : y \in at}
  BY DEF ReturnsTo
<1> HIDE DEF w
<1>2. w(a) \in outof(x) /\ x \in at
  BY DEF Passes, Gets
<1> HIDE DEF outof, at
<1>3. w(a) \in ReturnsTo(P, FALSE, z)
  BY <1>1, <1>2
<1> QED
  BY <1>3 DEF w

\* Out of formal x to actual a, in the call the value is in.
LEMMA Returned ==
  ASSUME NEW P \in ProgramType, NEW R, NEW A, Closed(P, R, A), NEW a, NEW x, Passes(P, a, x),
         NEW o, NEW z, NEW q, At(R, o, z, x.v, q), Gets(P, x, q),
         NEW stack \in Frames, NEW entry \in Var, z.stack = Push(a.insn, entry, stack)
  PROVE  \E w : /\ At(R, o, w, a.v, Below(a.p, q))
                /\ w.entry = entry /\ w.stack = stack /\ w.free = z.free
<1>0. a \in P.actual /\ x \in P.formal /\ a.v \in Var /\ a.p \in Path /\ a.insn \in Insn
  BY ProgramParts DEF Passes
<1> DEFINE w == Place(a.v, Below(a.p, z.q), entry, stack, z.free, Len(a.p) + z.at)
<1>a. o \in PlaceType /\ z \in PlaceType /\ <<o, z>> \in R /\ z.v = x.v /\ z.q = q
  BY DEF At
<1>1. z.q \in Path /\ z.free \in BOOLEAN /\ z.at \in Nat
  BY <1>a, PlaceFields
<1>2. Below(a.p, z.q) \in Path /\ Len(a.p) + z.at \in Nat
  BY <1>0, <1>1, BelowFacts, PathLength
<1>3. /\ z.stack # <<>> /\ Tail(z.stack) = stack
      /\ Head(z.stack).insn = a.insn /\ Head(z.stack).entry = entry
  BY <1>0, PushFacts
<1>4. w = Place(a.v, a.p \o z.q,
               IF z.stack = <<>> THEN a.v ELSE Head(z.stack).entry,
               IF z.stack = <<>> THEN <<>> ELSE Tail(z.stack), z.free, Len(a.p) + z.at)
  BY <1>3 DEF Below
<1>5. w \in ReturnsTo(P, FALSE, z)
  <2> HIDE DEF w
  <2>1. IF z.stack = <<>> THEN z.free ELSE Head(z.stack).insn = a.insn
    BY <1>3
  <2> QED
    BY <1>4, <1>a, <2>1, ReturnStep
<1>6. /\ w \in PlaceType /\ w.v = a.v /\ w.q = Below(a.p, z.q) /\ w.entry = entry
      /\ w.stack = stack /\ w.free = z.free
  BY <1>0, <1>1, <1>2, PlaceOf
<1> HIDE DEF w
<1>7. At(R, o, w, a.v, Below(a.p, q))
  BY <1>a, <1>5, <1>6, StepInClosed
<1> QED
  BY <1>6, <1>7

\* Out of formal x to any actual for it, when the value is loose.
LEMMA ReturnedLoose ==
  ASSUME NEW P \in ProgramType, NEW R, NEW A, Closed(P, R, A), NEW a, NEW x, Passes(P, a, x),
         NEW o, NEW z, NEW q, At(R, o, z, x.v, q), Gets(P, x, q), Loose(z)
  PROVE  \E w : At(R, o, w, a.v, Below(a.p, q)) /\ Loose(w)
<1>0. a \in P.actual /\ x \in P.formal /\ a.v \in Var /\ a.p \in Path
  BY ProgramParts DEF Passes
<1> DEFINE w == Place(a.v, Below(a.p, z.q), a.v, <<>>, z.free, Len(a.p) + z.at)
<1>a. o \in PlaceType /\ z \in PlaceType /\ <<o, z>> \in R /\ z.v = x.v /\ z.q = q
  BY DEF At
<1>1. z.q \in Path /\ z.free \in BOOLEAN /\ z.at \in Nat
  BY <1>a, PlaceFields
<1>2. Below(a.p, z.q) \in Path /\ Len(a.p) + z.at \in Nat /\ <<>> \in Frames
  BY <1>0, <1>1, BelowFacts, PathLength, NoFrames
<1>3. w = Place(a.v, a.p \o z.q,
               IF z.stack = <<>> THEN a.v ELSE Head(z.stack).entry,
               IF z.stack = <<>> THEN <<>> ELSE Tail(z.stack), z.free, Len(a.p) + z.at)
  BY DEF Below, Loose
<1>4. w \in ReturnsTo(P, FALSE, z)
  <2> HIDE DEF w
  <2>1. z.stack = <<>> /\ z.free
    BY DEF Loose
  <2> QED
    BY <1>3, <1>a, <2>1, ReturnStep
<1>5. w \in PlaceType /\ w.v = a.v /\ w.q = Below(a.p, z.q) /\ w.stack = <<>> /\ w.free = z.free
  BY <1>0, <1>1, <1>2, PlaceOf
<1> HIDE DEF w
<1>6. At(R, o, w, a.v, Below(a.p, q))
  BY <1>a, <1>4, <1>5, StepInClosed
<1> QED
  BY <1>5, <1>6 DEF Loose

\* A modelled flow continues the value, and sets it loose between functions.
LEMMA ModelSteps ==
  ASSUME NEW P \in ProgramType, NEW R, NEW A, Closed(P, R, A),
         NEW mod \in P.modelAssign, NEW x1 \in P.formal, NEW x2 \in P.formal,
         x1.f = mod.m1, x1.n = mod.n1, x2.f = mod.m2, x2.n = mod.n2,
         NEW o, NEW z, NEW r \in Path, At(R, o, z, x2.v, Below(mod.p2, r))
  PROVE  \E w : /\ At(R, o, w, x1.v, Below(mod.p1, r)) /\ Continues(z, w)
                /\ mod.m1 # mod.m2 => Loose(w)
<1>0. mod.p1 \in Path /\ mod.p2 \in Path /\ x1.v \in Var
  BY ProgramParts DEF ModelType
<1> DEFINE stack == IF mod.m1 = mod.m2 THEN z.stack ELSE <<>>
           free == z.free \/ mod.m1 # mod.m2
           w == Place(x1.v, mod.p1 \o After(mod.p2, z.q), z.entry, stack, free, Len(mod.p1))
           into(b) == {Place(x.v, b.p1 \o After(b.p2, z.q), z.entry,
                             IF b.m1 = b.m2 THEN z.stack ELSE <<>>,
                             z.free \/ b.m1 # b.m2, Len(b.p1)) :
                         x \in {x \in P.formal : x.f = b.m1 /\ x.n = b.n1}}
           from == {b \in P.modelAssign :
                      /\ [f |-> b.m2, n |-> b.n2, v |-> z.v] \in P.formal
                      /\ Prefix(b.p2, z.q)}
<1>a. /\ o \in PlaceType /\ z \in PlaceType /\ <<o, z>> \in R
      /\ z.v = x2.v /\ z.q = Below(mod.p2, r)
  BY DEF At
<1>1. After(mod.p2, z.q) = r /\ Prefix(mod.p2, z.q) /\ Below(mod.p1, r) \in Path
  BY <1>0, <1>a, BelowFacts
<1>2. stack \in Frames /\ z.entry \in Var
  BY <1>a, PlaceFields, NoFrames
<1>3. free \in BOOLEAN /\ Len(mod.p1) \in Nat
  BY <1>0, PathLength
<1>4. x2 = [f |-> mod.m2, n |-> mod.n2, v |-> z.v]
  BY <1>a, ProgramParts
<1>5. ModelsTo(P, z) = UNION {into(b) : b \in from}
  BY DEF ModelsTo
<1>6. mod \in from
  BY <1>1, <1>4
<1>7. w \in into(mod)
  OBVIOUS
<1> HIDE DEF into, from
<1>8. w \in ModelsTo(P, z)
  BY <1>5, <1>6, <1>7
<1>9. w = Place(x1.v, Below(mod.p1, r), z.entry, stack, free, Len(mod.p1))
  BY <1>1 DEF Below
<1> HIDE DEF stack, free, w
<1>10. /\ w \in PlaceType /\ w.v = x1.v /\ w.q = Below(mod.p1, r) /\ w.entry = z.entry
       /\ w.stack = stack /\ w.free = free
  BY <1>0, <1>1, <1>2, <1>3, <1>9, PlaceOf
<1>11. At(R, o, w, x1.v, Below(mod.p1, r))
  BY <1>a, <1>8, <1>10, StepInClosed
<1>12. Continues(z, w) /\ (mod.m1 # mod.m2 => Loose(w))
  BY <1>10 DEF Continues, Loose, stack, free
<1> QED
  BY <1>11, <1>12

\* Below t.G, which holds x.F: the value is in x too, in the same call if t.G
\* got hold of x.F in the same call.
LEMMA Written ==
  ASSUME NEW P, NEW R, NEW A, Closed(P, R, A),
         NEW x \in Var, NEW F \in Path, NEW t, NEW G \in Path, NEW free \in BOOLEAN,
         [x |-> x, F |-> F, t |-> t, G |-> G, free |-> free] \in A,
         NEW o, NEW z, NEW r \in Path, r # Empty,
         At(R, o, z, t, Below(G, r)), x # z.entry \/ z.free
  PROVE  \E w : At(R, o, w, x, Below(F, r)) /\ Continues(z, w)
<1> DEFINE h == [x |-> x, F |-> F, t |-> t, G |-> G, free |-> free]
           stack == IF h.free THEN <<>> ELSE z.stack
           loose == z.free \/ h.free
           w == Place(h.x, h.F \o After(h.G, z.q), z.entry, stack, loose, 0)
<1>a. o \in PlaceType /\ z \in PlaceType /\ <<o, z>> \in R /\ z.v = t /\ z.q = Below(G, r)
  BY DEF At
<1>1. After(G, z.q) = r /\ Prefix(G, z.q) /\ Below(F, r) \in Path /\ G # z.q
  BY <1>a, BelowFacts
<1>h. h \in A /\ h.x = x /\ h.F = F /\ h.t = t /\ h.G = G /\ h.free = free
  OBVIOUS
<1>2. stack \in Frames /\ z.entry \in Var
  BY <1>a, PlaceFields, NoFrames
<1> HIDE DEF h
<1>3. loose \in BOOLEAN
  BY <1>a, <1>h, PlaceFields
<1>4. w \in WritesTo(A, FALSE, z)
  BY <1>1, <1>a, <1>h DEF WritesTo
<1>5. w = Place(x, Below(F, r), z.entry, stack, loose, 0)
  BY <1>1, <1>h DEF Below
<1> HIDE DEF stack, loose, w
<1>6. /\ w \in PlaceType /\ w.v = x /\ w.q = Below(F, r) /\ w.entry = z.entry
      /\ w.stack = stack /\ w.free = loose
  BY <1>1, <1>2, <1>3, <1>5, PlaceOf
<1>7. At(R, o, w, x, Below(F, r))
  BY <1>a, <1>4, <1>6, StepInClosed
<1>8. Continues(z, w)
  BY <1>6, <1>h DEF Continues, Loose, stack, loose
<1> QED
  BY <1>7, <1>8

\* What continues a continuation continues the value.
LEMMA ContinuesOn ==
  ASSUME NEW z, NEW y, NEW w, Continues(z, y), Continues(y, w)
  PROVE  Continues(z, w) /\ (Loose(y) => Loose(w))
  BY DEF Continues, Loose

\* Carrying goes on, and once loose on the way the value is loose at the end.
LEMMA CarriesOn ==
  ASSUME NEW R, NEW v1, NEW p1, NEW v2, NEW p2, NEW v3, NEW p3,
         Carries(R, v1, p1, v2, p2), Carries(R, v2, p2, v3, p3)
  PROVE  /\ Carries(R, v1, p1, v3, p3)
         /\ Loosens(R, v1, p1, v2, p2) => Loosens(R, v1, p1, v3, p3)
         /\ Loosens(R, v2, p2, v3, p3) => Loosens(R, v1, p1, v3, p3)
<1>1. Carries(R, v1, p1, v3, p3)
  <2> SUFFICES ASSUME NEW o, NEW z, NEW r \in Path, At(R, o, z, v3, Below(p3, r))
               PROVE  \E w : At(R, o, w, v1, Below(p1, r)) /\ Continues(z, w)
    BY DEF Carries
  <2>1. PICK y : At(R, o, y, v2, Below(p2, r)) /\ Continues(z, y)
    BY DEF Carries
  <2>2. PICK w : At(R, o, w, v1, Below(p1, r)) /\ Continues(y, w)
    BY <2>1 DEF Carries
  <2> QED
    BY <2>1, <2>2, ContinuesOn
<1>2. ASSUME Loosens(R, v1, p1, v2, p2)
      PROVE  Loosens(R, v1, p1, v3, p3)
  BY <1>2 DEF Carries, Loosens
<1>3. ASSUME Loosens(R, v2, p2, v3, p3)
      PROVE  Loosens(R, v1, p1, v3, p3)
  <2> SUFFICES ASSUME NEW o, NEW z, NEW r \in Path, At(R, o, z, v3, Below(p3, r))
               PROVE  \E w : At(R, o, w, v1, Below(p1, r)) /\ Loose(w)
    BY DEF Loosens
  <2>1. PICK y : At(R, o, y, v2, Below(p2, r)) /\ Loose(y)
    BY <1>3 DEF Loosens
  <2>2. PICK w : At(R, o, w, v1, Below(p1, r)) /\ Continues(y, w)
    BY <2>1 DEF Carries
  <2> QED
    BY <2>1, <2>2 DEF Continues, Loose
<1> QED
  BY <1>1, <1>2, <1>3

\* A place carries to itself.
LEMMA CarriesSame ==
  ASSUME NEW R, NEW v, NEW p
  PROVE  Carries(R, v, p, v, p)
  BY DEF Carries, Continues

\* What is carried is carried with everything below it.
LEMMA CarriesBelow ==
  ASSUME NEW R, NEW v1, NEW p1 \in Path, NEW v2, NEW p2 \in Path, NEW q \in Path
  PROVE  /\ Carries(R, v1, p1, v2, p2) => Carries(R, v1, Below(p1, q), v2, Below(p2, q))
         /\ Loosens(R, v1, p1, v2, p2) => Loosens(R, v1, Below(p1, q), v2, Below(p2, q))
<1>1. ASSUME NEW r \in Path
      PROVE  /\ Below(q, r) \in Path
             /\ Below(Below(p1, q), r) = Below(p1, Below(q, r))
             /\ Below(Below(p2, q), r) = Below(p2, Below(q, r))
  BY BelowFacts, BelowAssociative
<1>2. ASSUME Carries(R, v1, p1, v2, p2)
      PROVE  Carries(R, v1, Below(p1, q), v2, Below(p2, q))
  BY <1>1, <1>2 DEF Carries
<1>3. ASSUME Loosens(R, v1, p1, v2, p2)
      PROVE  Loosens(R, v1, Below(p1, q), v2, Below(p2, q))
  BY <1>1, <1>3 DEF Loosens
<1> QED
  BY <1>2, <1>3

\* A value at v2.p2 itself.
LEMMA CarriesAt ==
  ASSUME NEW R, NEW v1, NEW p1 \in Path, NEW v2, NEW p2 \in Path,
         Carries(R, v1, p1, v2, p2), NEW o, NEW z, At(R, o, z, v2, p2)
  PROVE  \E w : At(R, o, w, v1, p1) /\ Continues(z, w)
<1>1. Empty \in Path /\ Below(p2, Empty) = p2 /\ Below(p1, Empty) = p1
  BY PathConstants, BelowFacts
<1> QED
  BY <1>1 DEF Carries

\* Between formals x1 and x2 the value flows as s says.
FlowsAs(R, s, x1, x2) ==
  \A o, z : \A r \in Path :
    At(R, o, z, x2.v, Below(s.p2, r)) /\ z.entry = x2.v =>
      \E w : /\ At(R, o, w, x1.v, Below(s.p1, r)) /\ Continues(z, w)
             /\ s.m1 # s.m2 => Loose(w)

SummaryCarries(P, R, s) ==
  \E x1, x2 \in P.formal :
    /\ x1.f = s.m1 /\ x1.n = s.n1 /\ x2.f = s.m2 /\ x2.n = s.n2
    /\ Gets(P, x1, s.p1) /\ FlowsAs(R, s, x1, x2)

\* What is below a path that gets out of a formal gets out, too.
LEMMA GetsBelow ==
  ASSUME NEW P, NEW x, NEW p \in Path, NEW r \in Path, Gets(P, x, p)
  PROVE  Gets(P, x, Below(p, r))
<1>1. p # Empty => Below(p, r) # Empty
  BY BelowFacts
<1> QED
  BY <1>1 DEF Gets, GetsOut

\* A summary over the actuals of its calls: into the formal, on to the other
\* formal, and back out at the same call or, when loose, at any.
LEMMA InstantiateCarries ==
  ASSUME NEW P \in ProgramType, NEW R, NEW A, Closed(P, R, A),
         NEW s \in SummaryType, SummaryCarries(P, R, s),
         NEW to \in P.actual, NEW from \in P.actual, to.n = s.n1, from.n = s.n2,
         [insn |-> to.insn, f |-> s.m1] \in P.call,
         [insn |-> from.insn, f |-> s.m2] \in P.call,
         s.m1 = s.m2 => to.insn = from.insn
  PROVE  Carries(R, to.v, Below(to.p, s.p1), from.v, Below(from.p, s.p2))
<1> SUFFICES ASSUME NEW o, NEW z, NEW r \in Path,
                    At(R, o, z, from.v, Below(Below(from.p, s.p2), r))
             PROVE  \E w : At(R, o, w, to.v, Below(Below(to.p, s.p1), r)) /\ Continues(z, w)
  BY DEF Carries
<1>0. s.p1 \in Path /\ s.p2 \in Path /\ to.p \in Path /\ from.p \in Path
  BY ProgramParts DEF SummaryType
<1>1. PICK x1 \in P.formal, x2 \in P.formal :
        /\ x1.f = s.m1 /\ x1.n = s.n1 /\ x2.f = s.m2 /\ x2.n = s.n2
        /\ Gets(P, x1, s.p1) /\ FlowsAs(R, s, x1, x2)
  BY DEF SummaryCarries
<1>2. Passes(P, from, x2) /\ Passes(P, to, x1)
  BY <1>1 DEF Passes
<1>3. /\ Below(Below(from.p, s.p2), r) = Below(from.p, Below(s.p2, r))
      /\ Below(Below(to.p, s.p1), r) = Below(to.p, Below(s.p1, r))
  BY <1>0, BelowAssociative
<1>a. Below(s.p2, r) \in Path
  BY <1>0, BelowFacts
<1>4. PICK y : At(R, o, y, x2.v, Below(s.p2, r)) /\ Inside(y, z, from.insn, x2.v)
  BY <1>2, <1>3, <1>a, Called
<1>5. PICK w : /\ At(R, o, w, x1.v, Below(s.p1, r)) /\ Continues(y, w)
               /\ s.m1 # s.m2 => Loose(w)
  BY <1>1, <1>4 DEF FlowsAs, Inside
<1>6. Gets(P, x1, Below(s.p1, r))
  BY <1>0, <1>1, GetsBelow
<1>7. CASE Loose(w)
  <2>1. PICK u : At(R, o, u, to.v, Below(to.p, Below(s.p1, r))) /\ Loose(u)
    BY <1>2, <1>5, <1>6, <1>7, ReturnedLoose
  <2> QED
    BY <1>3, <2>1 DEF Continues
<1>8. CASE ~Loose(w)
  <2>1. to.insn = from.insn /\ w.stack = Push(to.insn, z.entry, z.stack) /\ (z.free => w.free)
    BY <1>4, <1>5, <1>8 DEF Continues, Inside
  <2>2. z.entry \in Var /\ z.stack \in Frames
    BY PlaceFields DEF At
  <2>3. PICK u : /\ At(R, o, u, to.v, Below(to.p, Below(s.p1, r)))
                 /\ u.entry = z.entry /\ u.stack = z.stack /\ u.free = w.free
    BY <1>2, <1>5, <1>6, <2>1, <2>2, Returned
  <2> QED
    BY <1>3, <2>1, <2>3 DEF Continues
<1> QED
  BY <1>7, <1>8

\* y.G holds formal x.F, and what is at v2.p2 gets below y.G: it is in x too.
LEMMA AliasCarries ==
  ASSUME NEW P \in ProgramType, NEW R, NEW A, Closed(P, R, A),
         NEW x \in P.formal, NEW y \in Var, y \notin P.global,
         NEW F \in Path, NEW G \in Path, NEW H \in Path, NEW v2, NEW p2 \in Path,
         ~HasStar(F), H # Empty,
         Carries(R, y, G, x.v, F), Carries(R, y, Below(G, H), v2, p2),
         NEW o, NEW z, NEW r \in Path,
         At(R, o, z, v2, Below(p2, r)), z.entry # x.v \/ Loose(z)
  PROVE  \E w : At(R, o, w, x.v, Below(Below(F, H), r)) /\ Continues(z, w)
<1>0. x.v \in Var /\ <<>> \in Frames /\ 0 \in Nat
  BY ProgramParts, NoFrames
<1>1. /\ Below(H, r) \in Path /\ Below(H, r) # Empty
      /\ Below(Below(G, H), r) = Below(G, Below(H, r))
      /\ Below(Below(F, H), r) = Below(F, Below(H, r))
  BY BelowFacts, BelowAssociative
<1>2. PICK t : At(R, o, t, y, Below(G, Below(H, r))) /\ Continues(z, t)
  BY <1>1 DEF Carries
<1>3. CASE y = x.v /\ G = F
  BY <1>1, <1>2, <1>3
<1>4. CASE y # x.v \/ G # F
  <2> DEFINE e == Entering(x.v, F)
  <2>1. e \in PlaceType /\ e.v = x.v /\ e.q = F /\ e.stack = <<>>
    BY <1>0 DEF Entering, Place, PlaceType
  <2> HIDE DEF e
  <2>2. At(R, e, e, x.v, F)
    BY <2>1 DEF Closed, At
  <2>3. PICK u : At(R, e, u, y, G) /\ Continues(e, u)
    BY <2>2, CarriesAt
  <2>4. u \in PlaceType /\ <<e, u>> \in R /\ u.v = y /\ u.q = G
    BY <2>3 DEF At
  <2>5. u.stack = <<>> /\ u.free \in BOOLEAN
    BY <2>1, <2>3, <2>4, PlaceFields DEF Continues, Loose
  <2>6. [x |-> x.v, F |-> F, t |-> y, G |-> G, free |-> u.free] \in A
    BY <1>4, <2>4, <2>5 DEF Closed, e
  <2>7. x.v # t.entry \/ t.free
    BY <1>2 DEF Continues, Loose
  <2>8. PICK w : At(R, o, w, x.v, Below(F, Below(H, r))) /\ Continues(t, w)
    BY <1>0, <1>1, <1>2, <2>5, <2>6, <2>7, Written
  <2> QED
    BY <1>1, <1>2, <2>8, ContinuesOn
<1> QED
  BY <1>3, <1>4

----------------------------------------------------------------------------
(* Every tuple of the index is a way values can go.                        *)

Origin(al) == Place(al.v, al.p, al.v, <<>>, TRUE, Len(al.p))

\* Some object obj gets to v.p, outside of any call since it was allocated.
ObjectAt(P, R, obj, v, p) ==
  \E al \in P.alloc, w \in PlaceType : al.obj = obj /\ At(R, Origin(al), w, v, p) /\ Loose(w)

AssignCarries(P, R, a) ==
  /\ Carries(R, a.v1, a.p1, a.v2, a.p2)
  /\ a.v2 \in P.global => Loosens(R, a.v1, a.p1, a.v2, a.p2)

AssignsCarry(R)    == \A a \in VirtualAssign : AssignCarries(ir, R, a)
ReachCarries(R)    == \A l \in LocallyReachable : Carries(R, l.v1, l.p1, l.v2, l.p2)
GlobalsCarry(R)    == \A g \in GlobalReachable : Carries(R, g.v1, g.p1, g.v2, g.p2)
SummariesCarry(R)  == \A s \in SummaryFlow : SummaryCarries(ir, R, s)
ObjectsReach(R)    == \A o \in VirtualAlloc : ObjectAt(ir, R, o.obj, o.v, o.p)
ProducedReach(R) ==
  \A s \in SummaryAlloc : \E x \in ir.formal :
    x.f = s.f /\ x.n = s.n /\ Gets(ir, x, s.p) /\ ObjectAt(ir, R, s.obj, x.v, s.p)

\* The assignments the index starts from are the program's.
LEMMA AssignInit ==
  ASSUME Init, NEW R, NEW A, Closed(ir, R, A)
  PROVE  AssignsCarry(R)
<1>1. ir \in ProgramType
  BY ProgramsAssumption DEF Init, FlowInit
<1>2. ASSUME NEW a \in VirtualAssign PROVE AssignCarries(ir, R, a)
  <2>1. PICK m \in ir.move \cup ir.insnModel :
          a.v1 = m.v1 /\ a.p1 = m.p1 /\ a.v2 = m.v2 /\ a.p2 = m.p2
    BY DEF Init, FlowInit, OnePerKey, MoveAssigns, ModelAssigns, Assign
  <2> QED
    BY <1>1, <2>1, Moved DEF AssignCarries
<1> QED
  BY <1>2 DEF AssignsCarry

\* Summaries that carry are instantiated to assignments that carry.
LEMMA InstantiateStep ==
  ASSUME TypeOK, NEW R, NEW A, Closed(ir, R, A), AssignsCarry(R), SummariesCarry(R),
         SummaryInstantiate \/ SummaryInstantiate2, UNCHANGED ir
  PROVE  AssignsCarry(R)'
<1>0. ir \in ProgramType /\ WellFormed(ir)
  BY ProgramFacts
<1>1. PICK s \in SummaryFlow, c1 \in CallEdge, c2 \in CallEdge, reason \in Reasons :
        Instantiate(s, c1, c2, reason) /\ (s.m1 = s.m2 => c1 = c2)
  BY DEF SummaryInstantiate, SummaryInstantiate2, Reasons
<1>2. PICK to \in ir.actual, from \in ir.actual :
        /\ to.insn = c1.insn /\ to.n = s.n1
        /\ from.insn = c2.insn /\ from.n = s.n2
        /\ Derive(Assign(c1.insn, to.v, to.p \o s.p1, from.v, from.p \o s.p2, reason, AnyContext))
  BY <1>1 DEF Instantiate
<1> DEFINE b == Assign(c1.insn, to.v, to.p \o s.p1, from.v, from.p \o s.p2, reason, AnyContext)
<1>3. /\ VirtualAssign' \subseteq VirtualAssign \cup {b} /\ b.v1 = to.v /\ b.v2 = from.v
      /\ b.p1 = Below(to.p, s.p1) /\ b.p2 = Below(from.p, s.p2)
  BY <1>2 DEF Derive, Assign, Below
<1>4. /\ [insn |-> c1.insn, f |-> s.m1] \in ir.call
      /\ [insn |-> c2.insn, f |-> s.m2] \in ir.call
  BY <1>0, <1>1 DEF Instantiate, CallEdge, InitialCallEdges, ProgramType
<1>5. from.v \notin ir.global
  BY <1>0 DEF WellFormed, LocalTo
<1>6. s \in SummaryType /\ SummaryCarries(ir, R, s)
  BY DEF TypeOK, SummariesCarry
<1> HIDE DEF b
<1>7. Carries(R, to.v, Below(to.p, s.p1), from.v, Below(from.p, s.p2))
  BY <1>0, <1>1, <1>2, <1>4, <1>6, InstantiateCarries
<1>8. AssignCarries(ir, R, b)
  BY <1>3, <1>5, <1>7 DEF AssignCarries
<1> QED
  BY <1>3, <1>8 DEF AssignsCarry

\* Propagating a field along an assignment keeps what it carries.
LEMMA FieldPropStep ==
  ASSUME TypeOK, NEW R, AssignsCarry(R), FieldPropForward \/ FieldPropBackward, UNCHANGED ir
  PROVE  AssignsCarry(R)'
<1> DEFINE C == isComputedAccessPath
<1>0. /\ C \subseteq Path
      /\ \A x \in Vertex : x.p \in Path
      /\ \A a \in VirtualAssign : a.p1 \in Path /\ a.p2 \in Path
  BY RelationTypes DEF TypeOK, AssignType, Vertices
<1>1. ASSUME NEW q \in Path, NEW near \in Path, NEW far \in Path,
             CarriesTo(C, q, near, far, Carried(q, near, far))
      PROVE  \E rest \in Path : q = Below(near, rest) /\ Carried(q, near, far) = Below(far, rest)
  <2>1. After(near, q) \in Path
    BY AfterPath
  <2>2. Carried(q, near, far) = Below(far, After(near, q))
    BY DEF Carried, Below
  <2>3. Carried(q, near, far) \in Path
    BY <2>1, <2>2, BelowFacts
  <2>4. q = Below(near, After(near, q))
    BY <1>0, <1>1, <2>3, CarriesToIsExact DEF Below
  <2> QED
    BY <2>1, <2>2, <2>4
<1>2. PICK b : \E a \in VirtualAssign, rest \in Path :
        /\ VirtualAssign' \subseteq VirtualAssign \cup {b} /\ Local(a)
        /\ b.v1 = a.v1 /\ b.p1 = Below(a.p1, rest) /\ b.v2 = a.v2 /\ b.p2 = Below(a.p2, rest)
  <2>1. CASE FieldPropForward
    <3>1. PICK a \in VirtualAssign, x \in Vertex :
            /\ Local(a) /\ CarriesTo(C, x.p, a.p2, a.p1, Carried(x.p, a.p2, a.p1))
            /\ Derive(Assign(a.insn, a.v1, Carried(x.p, a.p2, a.p1), a.v2, x.p, "fp", a.ctx))
      BY <2>1 DEF FieldPropForward
    <3>2. PICK rest \in Path : x.p = Below(a.p2, rest) /\ Carried(x.p, a.p2, a.p1) = Below(a.p1, rest)
      BY <1>0, <1>1, <3>1
    <3> DEFINE b == Assign(a.insn, a.v1, Carried(x.p, a.p2, a.p1), a.v2, x.p, "fp", a.ctx)
    <3>3. /\ b.v1 = a.v1 /\ b.p1 = Carried(x.p, a.p2, a.p1) /\ b.v2 = a.v2 /\ b.p2 = x.p
          /\ VirtualAssign' \subseteq VirtualAssign \cup {b}
      BY <3>1 DEF Derive, Assign
    <3> HIDE DEF b
    <3> QED
      BY <3>1, <3>2, <3>3
  <2>2. CASE FieldPropBackward
    <3>1. PICK a \in VirtualAssign, x \in Vertex :
            /\ Local(a) /\ CarriesTo(C, x.p, a.p1, a.p2, Carried(x.p, a.p1, a.p2))
            /\ Derive(Assign(a.insn, a.v1, x.p, a.v2, Carried(x.p, a.p1, a.p2), "fp", a.ctx))
      BY <2>2 DEF FieldPropBackward
    <3>2. PICK rest \in Path : x.p = Below(a.p1, rest) /\ Carried(x.p, a.p1, a.p2) = Below(a.p2, rest)
      BY <1>0, <1>1, <3>1
    <3> DEFINE b == Assign(a.insn, a.v1, x.p, a.v2, Carried(x.p, a.p1, a.p2), "fp", a.ctx)
    <3>3. /\ b.v1 = a.v1 /\ b.p1 = x.p /\ b.v2 = a.v2 /\ b.p2 = Carried(x.p, a.p1, a.p2)
          /\ VirtualAssign' \subseteq VirtualAssign \cup {b}
      BY <3>1 DEF Derive, Assign
    <3> HIDE DEF b
    <3> QED
      BY <3>1, <3>2, <3>3
  <2> QED
    BY <2>1, <2>2
<1>a. PICK a \in VirtualAssign, rest \in Path :
        /\ VirtualAssign' \subseteq VirtualAssign \cup {b} /\ Local(a)
        /\ b.v1 = a.v1 /\ b.p1 = Below(a.p1, rest) /\ b.v2 = a.v2 /\ b.p2 = Below(a.p2, rest)
  BY <1>2
<1>3. Carries(R, b.v1, b.p1, b.v2, b.p2)
  BY <1>0, <1>a, CarriesBelow DEF AssignsCarry, AssignCarries
<1>4. AssignCarries(ir, R, b)
  BY <1>a, <1>3 DEF AssignCarries, Local, isGlobal
<1> QED
  BY <1>a, <1>4 DEF AssignsCarry

\* No assignment says more than the program does, while there are no wildcards.
LEMMA AssignStep ==
  ASSUME TypeOK, NEW R, NEW A, Closed(ir, R, A), ~Wildcards,
         AssignsCarry(R), SummariesCarry(R), [Next]_vars
  PROVE  AssignsCarry(R)'
<1>0. UNCHANGED ir
  BY OwnRules
<1>1. ~StarForward /\ ~StarBackward
  BY DEF Wildcards, StarForward, StarBackward
<1>2. CASE UNCHANGED VirtualAssign
  BY <1>0, <1>2 DEF AssignsCarry
<1> QED
  BY <1>0, <1>1, <1>2, InstantiateStep, FieldPropStep, OwnRules

\* Local reachability is made of assignments that carry.
LEMMA ReachStepCarries ==
  ASSUME TypeOK, NEW R, AssignsCarry(R), ReachCarries(R), [Next]_vars
  PROVE  ReachCarries(R)'
<1>1. ASSUME NEW a \in LocallyReachable_CtxEdge
      PROVE  Carries(R, a.v1, a.p1, a.v2, a.p2)
  BY DEF LocallyReachable_CtxEdge, AssignsCarry, AssignCarries
<1>2. CASE ReachFromRoot
  <2>1. PICK a \in LocallyReachable_CtxEdge : LocallyReachable' = LocallyReachable \cup {Key(a)}
    BY <1>2 DEF ReachFromRoot, Reach
  <2>2. Key(a).v1 = a.v1 /\ Key(a).p1 = a.p1 /\ Key(a).v2 = a.v2 /\ Key(a).p2 = a.p2
    BY DEF Key, Flow
  <2>3. Carries(R, Key(a).v1, Key(a).p1, Key(a).v2, Key(a).p2)
    BY <1>1, <2>2
  <2> QED
    BY <2>1, <2>3 DEF ReachCarries
<1>3. CASE ReachStep
  <2>1. PICK l \in LocallyReachable, a \in LocallyReachable_CtxEdge :
          /\ a.v2 = l.v1 /\ a.p2 = l.p1
          /\ \E ctx : LocallyReachable' = LocallyReachable \cup {Flow(a.v1, a.p1, l.v2, l.p2, ctx)}
    BY <1>3 DEF ReachStep, Reach
  <2>a. PICK ctx : LocallyReachable' = LocallyReachable \cup {Flow(a.v1, a.p1, l.v2, l.p2, ctx)}
    BY <2>1
  <2> DEFINE n == Flow(a.v1, a.p1, l.v2, l.p2, ctx)
  <2>2. n.v1 = a.v1 /\ n.p1 = a.p1 /\ n.v2 = l.v2 /\ n.p2 = l.p2
    BY DEF Flow
  <2>3. Carries(R, a.v1, a.p1, l.v1, l.p1) /\ Carries(R, l.v1, l.p1, l.v2, l.p2)
    BY <1>1, <2>1 DEF ReachCarries
  <2>4. LocallyReachable' = LocallyReachable \cup {n}
    BY <2>a
  <2> HIDE DEF n
  <2>5. Carries(R, n.v1, n.p1, n.v2, n.p2)
    BY <2>2, <2>3, CarriesOn
  <2> QED
    BY <2>4, <2>5 DEF ReachCarries
<1>4. CASE UNCHANGED LocallyReachable
  BY <1>4 DEF ReachCarries
<1> QED
  BY <1>2, <1>3, <1>4, OwnRules

\* One place reaches another, by a tuple or by being the same.
LEMMA ReachesCarries ==
  ASSUME NEW R, ReachCarries(R), NEW v, NEW p, NEW w, NEW q, Reaches(v, p, w, q)
  PROVE  Carries(R, v, p, w, q)
  BY CarriesSame DEF Reaches, ReachCarries

\* From a formal into a global.
LEMMA FormalToGlobalCarries ==
  ASSUME NEW R, AssignsCarry(R), ReachCarries(R), NEW g, NEW q, NEW f, NEW p,
         FormalReachesGlobal(g, q, f, p)
  PROVE  Carries(R, g, q, f, p)
<1>1. PICK st \in VirtualAssign : st.v1 = g /\ st.p1 = q /\ Reaches(st.v2, st.p2, f, p)
  BY DEF FormalReachesGlobal, GlobalVariableStore
<1>2. Carries(R, g, q, st.v2, st.p2) /\ Carries(R, st.v2, st.p2, f, p)
  BY <1>1, ReachesCarries DEF AssignsCarry, AssignCarries
<1> QED
  BY <1>2, CarriesOn

\* Out of a global into a formal the value is loose.
LEMMA GlobalToFormalLoosens ==
  ASSUME NEW R, AssignsCarry(R), ReachCarries(R), NEW g, NEW q, NEW f, NEW p,
         GlobalReachesFormal(f, p, g, q)
  PROVE  Carries(R, f, p, g, q) /\ Loosens(R, f, p, g, q)
<1>1. PICK ld \in VirtualAssign :
        ld.v2 = g /\ ld.p2 = q /\ ld.v2 \in ir.global /\ Reaches(f, p, ld.v1, ld.p1)
  BY DEF GlobalReachesFormal, GlobalVariableLoad, isGlobal
<1>2. /\ Carries(R, ld.v1, ld.p1, g, q) /\ Loosens(R, ld.v1, ld.p1, g, q)
      /\ Carries(R, f, p, ld.v1, ld.p1)
  BY <1>1, ReachesCarries DEF AssignsCarry, AssignCarries
<1> QED
  BY <1>2, CarriesOn

\* From one global to the next.
LEMMA GlobalToGlobalCarries ==
  ASSUME NEW R, AssignsCarry(R), ReachCarries(R), NEW g1, NEW q1, NEW g2, NEW q2,
         GlobalReachesGlobal(g1, q1, g2, q2)
  PROVE  Carries(R, g1, q1, g2, q2)
<1>1. CASE \E a \in VirtualAssign : a.v1 = g1 /\ a.p1 = q1 /\ a.v2 = g2 /\ a.p2 = q2
  BY <1>1 DEF AssignsCarry, AssignCarries
<1>2. CASE \E st, ld \in VirtualAssign :
             /\ st.v1 = g1 /\ st.p1 = q1 /\ ld.v2 = g2 /\ ld.p2 = q2
             /\ Reaches(st.v2, st.p2, ld.v1, ld.p1)
  <2>1. PICK st \in VirtualAssign, ld \in VirtualAssign :
             /\ st.v1 = g1 /\ st.p1 = q1 /\ ld.v2 = g2 /\ ld.p2 = q2
             /\ Reaches(st.v2, st.p2, ld.v1, ld.p1)
    BY <1>2
  <2>2. /\ Carries(R, g1, q1, st.v2, st.p2) /\ Carries(R, ld.v1, ld.p1, g2, q2)
        /\ Carries(R, st.v2, st.p2, ld.v1, ld.p1)
    BY <2>1, ReachesCarries DEF AssignsCarry, AssignCarries
  <2>3. Carries(R, g1, q1, ld.v1, ld.p1)
    BY <2>2, CarriesOn
  <2> QED
    BY <2>2, <2>3, CarriesOn
<1> QED
  BY <1>1, <1>2 DEF GlobalReachesGlobal, GlobalVariableStore, GlobalVariableLoad

\* Reachability among globals is made of these.
LEMMA GlobalStepCarries ==
  ASSUME NEW R, AssignsCarry(R), ReachCarries(R), GlobalsCarry(R), [Next]_vars
  PROVE  GlobalsCarry(R)'
<1>1. CASE GlobalClose
  <2>1. PICK to \in GlobalVertex, from \in GlobalVertex :
          /\ GlobalReachesGlobal(to.v, to.p, from.v, from.p)
          /\ \/ ExtendGlobal(GlobalFlow(to.v, to.p, from.v, from.p))
             \/ \E r \in GlobalReachable :
                  /\ r.v1 = from.v /\ r.p1 = from.p
                  /\ ExtendGlobal(GlobalFlow(to.v, to.p, r.v2, r.p2))
    BY <1>1 DEF GlobalClose
  <2>2. Carries(R, to.v, to.p, from.v, from.p)
    BY <2>1, GlobalToGlobalCarries
  <2>3. ASSUME NEW v2, NEW p2, Carries(R, to.v, to.p, v2, p2),
               ExtendGlobal(GlobalFlow(to.v, to.p, v2, p2))
        PROVE  GlobalsCarry(R)'
    <3> DEFINE n == GlobalFlow(to.v, to.p, v2, p2)
    <3>1. n.v1 = to.v /\ n.p1 = to.p /\ n.v2 = v2 /\ n.p2 = p2
      BY DEF GlobalFlow
    <3>2. GlobalReachable' = GlobalReachable \cup {n}
      BY <2>3 DEF ExtendGlobal
    <3> HIDE DEF n
    <3> QED
      BY <2>3, <3>1, <3>2 DEF GlobalsCarry
  <2>4. ASSUME NEW r \in GlobalReachable, r.v1 = from.v, r.p1 = from.p
        PROVE  Carries(R, to.v, to.p, r.v2, r.p2)
    <3>1. Carries(R, from.v, from.p, r.v2, r.p2)
      BY <2>4 DEF GlobalsCarry
    <3> QED
      BY <2>2, <3>1, CarriesOn
  <2> QED
    BY <2>1, <2>2, <2>3, <2>4
<1>2. CASE UNCHANGED GlobalReachable
  BY <1>2 DEF GlobalsCarry
<1> QED
  BY <1>1, <1>2, OwnRules

\* One global holds what another does, by a tuple or by being the same.
LEMMA GlobalHoldsCarries ==
  ASSUME NEW R, GlobalsCarry(R), NEW g1, NEW q1, NEW g2, NEW q2, GlobalHolds(g1, q1, g2, q2)
  PROVE  Carries(R, g1, q1, g2, q2)
<1>1. CASE g1 = g2 /\ q1 = q2
  BY <1>1, CarriesSame
<1>2. CASE GlobalFlow(g1, q1, g2, q2) \in GlobalReachable
  <2> DEFINE n == GlobalFlow(g1, q1, g2, q2)
  <2>1. n.v1 = g1 /\ n.p1 = q1 /\ n.v2 = g2 /\ n.p2 = q2
    BY DEF GlobalFlow
  <2>2. n \in GlobalReachable
    BY <1>2
  <2> HIDE DEF n
  <2> QED
    BY <2>1, <2>2 DEF GlobalsCarry
<1> QED
  BY <1>1, <1>2 DEF GlobalHolds

\* The parts of a summary.
LEMMA SummaryParts ==
  ASSUME NEW m1, NEW n1, NEW p1, NEW m2, NEW n2, NEW p2, NEW ctx
  PROVE  LET s == Summary(m1, n1, p1, m2, n2, p2, ctx)
         IN  /\ s.m1 = m1 /\ s.n1 = n1 /\ s.p1 = p1
             /\ s.m2 = m2 /\ s.n2 = n2 /\ s.p2 = p2
  BY DEF Summary

\* A summary of two formals carries when every value in the one gets into the other.
LEMMA SummaryOf ==
  ASSUME NEW R, NEW f1 \in ir.formal, NEW f2 \in ir.formal, NEW p1, NEW p2, NEW ctx,
         Gets(ir, f1, p1),
         \A o, z : \A r \in Path :
           At(R, o, z, f2.v, Below(p2, r)) /\ z.entry = f2.v =>
             \E w : /\ At(R, o, w, f1.v, Below(p1, r)) /\ Continues(z, w)
                    /\ f1.f # f2.f => Loose(w)
  PROVE  SummaryCarries(ir, R, Summary(f1.f, f1.n, p1, f2.f, f2.n, p2, ctx))
<1> DEFINE s == Summary(f1.f, f1.n, p1, f2.f, f2.n, p2, ctx)
<1>1. s.m1 = f1.f /\ s.n1 = f1.n /\ s.p1 = p1 /\ s.m2 = f2.f /\ s.n2 = f2.n /\ s.p2 = p2
  BY SummaryParts
<1> HIDE DEF s
<1>2. FlowsAs(R, s, f1, f2)
  BY <1>1 DEF FlowsAs
<1>3. SummaryCarries(ir, R, s)
  BY <1>1, <1>2 DEF SummaryCarries
<1> QED
  BY <1>3 DEF s

\* A summary of flows among the locals, from one formal of a function to another.
LEMMA FlowSummarised ==
  ASSUME TypeOK, ReachWithinFunction, NEW R, ReachCarries(R), SummarizeFlow
  PROVE  \E s : SummaryFlow' = SummaryFlow \cup {s} /\ SummaryCarries(ir, R, s)
<1>1. PICK l \in LocallyReachable, f1 \in ir.formal, f2 \in ir.formal :
        /\ f1.v = l.v1 /\ f2.v = l.v2 /\ FlowsOut(f1.f, f1.n, l.p1)
        /\ Summarize(Summary(f1.f, f1.n, l.p1, f2.f, f2.n, l.p2, l.ctx))
  BY DEF SummarizeFlow
<1>2. f1.f = f2.f
  <2>1. f1.f = ir.inFunction[f1.v] /\ f2.f = ir.inFunction[f2.v]
    BY ProgramFacts DEF WellFormed, LocalTo
  <2> QED
    BY <1>1, <2>1 DEF ReachWithinFunction
<1>3. Gets(ir, f1, l.p1)
  BY <1>1 DEF FlowsOut, isByRef, Gets, GetsOut
<1>4. ASSUME NEW o, NEW z, NEW r \in Path, At(R, o, z, f2.v, Below(l.p2, r))
      PROVE  \E w : At(R, o, w, f1.v, Below(l.p1, r)) /\ Continues(z, w)
  BY <1>1, <1>4 DEF ReachCarries, Carries
<1>5. SummaryCarries(ir, R, Summary(f1.f, f1.n, l.p1, f2.f, f2.n, l.p2, l.ctx))
  BY <1>2, <1>3, <1>4, SummaryOf
<1> QED
  BY <1>1, <1>5 DEF Summarize

\* What held and written say of a write below an alias of formal held.v2.
LEMMA AliasFacts ==
  ASSUME TypeOK, ReachWithinFunction, StarOnlyAtEnd, NEW R, NEW A, Closed(ir, R, A), ReachCarries(R),
         NEW held \in LocallyReachable, NEW written \in LocallyReachable, NEW f \in ir.formal,
         held.v1 = written.v1, held.p1 # written.p1, f.v = held.v2,
         AliasedWrite(isComputedAccessPath, held.p1, written.p1, held.p2,
                      held.p2 \o After(held.p1, written.p1)),
         NEW FH, FH = held.p2 \o After(held.p1, written.p1)
  PROVE  /\ Gets(ir, f, FH)
         /\ \A o, z : \A r \in Path :
              At(R, o, z, written.v2, Below(written.p2, r)) /\ (z.entry # f.v \/ Loose(z)) =>
                \E w : At(R, o, w, f.v, Below(FH, r)) /\ Continues(z, w)
<1> DEFINE C == isComputedAccessPath
           F == held.p2
           G == held.p1
           GH == written.p1
           H == After(G, GH)
<1>1. /\ F \in Path /\ G \in Path /\ GH \in Path /\ written.p2 \in Path
      /\ held.v1 \in Var /\ held.v2 \in Var /\ written.v2 \in Var
  BY DEF TypeOK, FlowType
<1>2. H \in Path
  BY <1>1, AfterPath
<1>3. FH = Below(F, H)
  BY DEF Below
<1>4. AliasedWrite(C, G, GH, F, FH)
  OBVIOUS
<1>5. GH = Below(G, H) /\ H # Empty
  <2>1. CASE G = Empty
    <3>1. H = GH /\ GH # Empty
      BY <1>1, <2>1, AfterPath
    <3> QED
      BY <1>1, <2>1, <3>1, BelowFacts
  <2>2. CASE ComputedAccessPathNonEmptySplit(C, GH, G, H)
    BY <2>2 DEF ComputedAccessPathNonEmptySplit, Below
  <2> QED
    BY <1>4, <2>1, <2>2 DEF AliasedWrite
<1> HIDE DEF H
<1>6. ~HasStar(F)
  <2>1. CASE F = Empty
    BY <2>1 DEF HasStar, Empty
  <2>2. CASE ComputedAccessPathNonEmptySplit(C, FH, F, H)
    <3>1. StarOnlyLast(F \o H)
      BY <2>2 DEF ComputedAccessPathNonEmptySplit, StarOnlyAtEnd
    <3>2. ASSUME NEW i \in 1 .. Len(F) PROVE F[i] # STAR
      <4>1. Len(F) \in Nat /\ Len(H) \in Nat /\ Len(H) # 0
        BY <1>1, <1>2, <1>5 DEF Path, Empty
      <4>2. (F \o H)[i] = F[i] /\ i \in 1 .. Len(F \o H) /\ i # Len(F \o H)
        BY <1>1, <1>2, <4>1 DEF Path
      <4> QED
        BY <3>1, <4>2 DEF StarOnlyLast
    <3> QED
      BY <3>2 DEF HasStar
  <2> QED
    BY <1>4, <2>1, <2>2 DEF AliasedWrite, H
<1> HIDE DEF F, G, GH
<1>7. ir \in ProgramType /\ held.v1 \notin ir.global
  BY ProgramFacts DEF ReachWithinFunction, isGlobal
<1>8. Carries(R, held.v1, G, f.v, F) /\ Carries(R, held.v1, Below(G, H), written.v2, written.p2)
  BY <1>5 DEF ReachCarries, F, G, GH
<1>9. Gets(ir, f, FH)
  <2>1. FH # Empty
    BY <1>1, <1>2, <1>3, <1>5, BelowFacts
  <2> QED
    BY <2>1 DEF Gets, GetsOut
<1>10. ASSUME NEW o, NEW z, NEW r \in Path, At(R, o, z, written.v2, Below(written.p2, r)),
              z.entry # f.v \/ Loose(z)
       PROVE  \E w : At(R, o, w, f.v, Below(FH, r)) /\ Continues(z, w)
  BY <1>1, <1>2, <1>3, <1>5, <1>6, <1>7, <1>8, <1>10, AliasCarries
<1> QED
  BY <1>9, <1>10

\* A summary of a write below an alias of a formal.
LEMMA AliasSummarised ==
  ASSUME TypeOK, ReachWithinFunction, StarOnlyAtEnd, NEW R, NEW A, Closed(ir, R, A),
         ReachCarries(R), SummarizeAlias
  PROVE  \E s : SummaryFlow' = SummaryFlow \cup {s} /\ SummaryCarries(ir, R, s)
<1>1. PICK held \in LocallyReachable, written \in LocallyReachable,
           f1 \in ir.formal, f2 \in ir.formal :
        LET FH == held.p2 \o After(held.p1, written.p1)
        IN  /\ held.v1 = written.v1 /\ held.v2 # written.v2 /\ held.p1 # written.p1
            /\ AliasedWrite(isComputedAccessPath, held.p1, written.p1, held.p2, FH)
            /\ f1.v = held.v2 /\ f2.v = written.v2 /\ f1.f = f2.f
            /\ Summarize(Summary(f1.f, f1.n, FH, f2.f, f2.n, written.p2, AnyContext))
  BY DEF SummarizeAlias
<1> DEFINE FH == held.p2 \o After(held.p1, written.p1)
<1>2. /\ Gets(ir, f1, FH)
      /\ \A o, z : \A r \in Path :
           At(R, o, z, written.v2, Below(written.p2, r)) /\ (z.entry # f1.v \/ Loose(z)) =>
             \E w : At(R, o, w, f1.v, Below(FH, r)) /\ Continues(z, w)
  BY <1>1, AliasFacts
<1>3. Summarize(Summary(f1.f, f1.n, FH, f2.f, f2.n, written.p2, AnyContext))
  BY <1>1
<1> HIDE DEF FH
<1>4. ASSUME NEW o, NEW z, NEW r \in Path, At(R, o, z, f2.v, Below(written.p2, r)), z.entry = f2.v
      PROVE  \E w : At(R, o, w, f1.v, Below(FH, r)) /\ Continues(z, w)
  BY <1>1, <1>2, <1>4
<1>5. SummaryCarries(ir, R, Summary(f1.f, f1.n, FH, f2.f, f2.n, written.p2, AnyContext))
  BY <1>1, <1>2, <1>4, SummaryOf
<1> QED
  BY <1>3, <1>5 DEF Summarize

\* A summary of a flow into a global and out of it in another function.
LEMMA GlobalSummarised ==
  ASSUME NEW R, AssignsCarry(R), ReachCarries(R), GlobalsCarry(R), SummarizeGlobals
  PROVE  \E s : SummaryFlow' = SummaryFlow \cup {s} /\ SummaryCarries(ir, R, s)
<1>1. PICK to \in GlobalVertex, from \in GlobalVertex, x1 \in Vertex, x2 \in Vertex,
           f1 \in ir.formal, f2 \in ir.formal :
        /\ f1.v = x1.v /\ f2.v = x2.v
        /\ FormalReachesGlobal(from.v, from.p, x2.v, x2.p)
        /\ GlobalHolds(to.v, to.p, from.v, from.p)
        /\ GlobalReachesFormal(x1.v, x1.p, to.v, to.p)
        /\ FlowsOut(f1.f, f1.n, x1.p)
        /\ Summarize(Summary(f1.f, f1.n, x1.p, f2.f, f2.n, x2.p, AnyContext))
  BY DEF SummarizeGlobals
<1>2. Carries(R, from.v, from.p, x2.v, x2.p)
  BY <1>1, FormalToGlobalCarries
<1>3. Carries(R, to.v, to.p, from.v, from.p)
  BY <1>1, GlobalHoldsCarries
<1>4. Carries(R, x1.v, x1.p, to.v, to.p) /\ Loosens(R, x1.v, x1.p, to.v, to.p)
  BY <1>1, GlobalToFormalLoosens
<1>5. Carries(R, to.v, to.p, x2.v, x2.p)
  BY <1>2, <1>3, CarriesOn
<1>6. Loosens(R, x1.v, x1.p, x2.v, x2.p)
  BY <1>4, <1>5, CarriesOn
<1>7. Gets(ir, f1, x1.p)
  BY <1>1 DEF FlowsOut, isByRef, Gets, GetsOut
<1>8. ASSUME NEW o, NEW z, NEW r \in Path, At(R, o, z, f2.v, Below(x2.p, r))
      PROVE  \E w : At(R, o, w, f1.v, Below(x1.p, r)) /\ Continues(z, w) /\ Loose(w)
  BY <1>1, <1>6, <1>8 DEF Loosens, Continues
<1>9. SummaryCarries(ir, R, Summary(f1.f, f1.n, x1.p, f2.f, f2.n, x2.p, AnyContext))
  BY <1>7, <1>8, SummaryOf
<1> QED
  BY <1>1, <1>9 DEF Summarize

\* Whatever rule derives the next summary, it carries.
LEMMA SummaryStep ==
  ASSUME TypeOK, ReachWithinFunction, StarOnlyAtEnd, NEW R, NEW A, Closed(ir, R, A),
         AssignsCarry(R), ReachCarries(R), GlobalsCarry(R), SummariesCarry(R), [Next]_vars
  PROVE  SummariesCarry(R)'
<1>0. UNCHANGED ir
  BY OwnRules
<1>1. CASE SummarizeFlow \/ SummarizeAlias \/ SummarizeGlobals
  <2>1. PICK s : SummaryFlow' = SummaryFlow \cup {s} /\ SummaryCarries(ir, R, s)
    BY <1>1, FlowSummarised, AliasSummarised, GlobalSummarised
  <2> QED
    BY <1>0, <2>1 DEF SummariesCarry
<1>2. CASE UNCHANGED SummaryFlow
  BY <1>0, <1>2 DEF SummariesCarry
<1> QED
  BY <1>1, <1>2, OwnRules

\* The models of a program say of themselves what flows.
LEMMA SummaryInit ==
  ASSUME Init, NEW R, NEW A, Closed(ir, R, A), ~Wildcards
  PROVE  SummariesCarry(R)
<1>0. ir \in ProgramType
  BY ProgramsAssumption DEF Init, FlowInit
<1>1. ASSUME NEW mod \in ApplicableModels(ir)
      PROVE  SummaryCarries(ir, R, Summary(mod.m1, mod.n1, mod.p1, mod.m2, mod.n2, mod.p2, <<>>))
  <2>1. PICK x1 \in ir.formal, x2 \in ir.formal :
          x1.f = mod.m1 /\ x1.n = mod.n1 /\ x2.f = mod.m2 /\ x2.n = mod.n2
    BY DEF ApplicableModels, hasFormal
  <2>2. mod \in ir.modelAssign
    BY DEF ApplicableModels
  <2>3. Gets(ir, x1, mod.p1)
    BY <2>1, <2>2 DEF Gets, GetsOut
  <2>4. ASSUME NEW o, NEW z, NEW r \in Path, At(R, o, z, x2.v, Below(mod.p2, r))
        PROVE  \E w : /\ At(R, o, w, x1.v, Below(mod.p1, r)) /\ Continues(z, w)
                      /\ mod.m1 # mod.m2 => Loose(w)
    BY <1>0, <2>1, <2>2, <2>4, ModelSteps
  <2>5. SummaryCarries(ir, R, Summary(x1.f, x1.n, mod.p1, x2.f, x2.n, mod.p2, <<>>))
    BY <2>1, <2>3, <2>4, SummaryOf
  <2> QED
    BY <2>1, <2>5
<1>2. ASSUME NEW s \in SummaryFlow
      PROVE  \E mod \in ApplicableModels(ir) :
               s = Summary(mod.m1, mod.n1, mod.p1, mod.m2, mod.n2, mod.p2, <<>>)
  <2>1. ApplicableFrom(ir) = {} /\ ApplicableTo(ir) = {}
    BY DEF Wildcards, ApplicableFrom, ApplicableTo
  <2> QED
    BY <2>1 DEF Init, FlowInit, ModelFlows
<1> QED
  BY <1>1, <1>2 DEF SummariesCarry

\* An object goes on as far as its place is carried, out of any call.
LEMMA ObjectMoves ==
  ASSUME NEW R, NEW obj, NEW v1, NEW p1 \in Path, NEW v2, NEW p2 \in Path,
         Carries(R, v1, p1, v2, p2), ObjectAt(ir, R, obj, v2, p2)
  PROVE  ObjectAt(ir, R, obj, v1, p1)
<1>1. PICK al \in ir.alloc, z \in PlaceType : al.obj = obj /\ At(R, Origin(al), z, v2, p2) /\ Loose(z)
  BY DEF ObjectAt
<1>2. PICK w : At(R, Origin(al), w, v1, p1) /\ Continues(z, w)
  BY <1>1, CarriesAt
<1>3. Loose(w) /\ w \in PlaceType
  BY <1>1, <1>2 DEF Continues, Loose, At
<1> QED
  BY <1>1, <1>2, <1>3 DEF ObjectAt

\* An object is where its allocation says.
LEMMA ObjectInit ==
  ASSUME Init, NEW R, NEW A, Closed(ir, R, A)
  PROVE  ObjectsReach(R)
<1>0. ir \in ProgramType
  BY ProgramsAssumption DEF Init, FlowInit
<1>1. ASSUME NEW al \in ir.alloc PROVE ObjectAt(ir, R, al.obj, al.v, al.p)
  <2>1. al.v \in Var /\ al.p \in Path
    BY <1>0, ProgramParts
  <2>2. Len(al.p) \in Nat /\ <<>> \in Frames
    BY <2>1, PathLength, NoFrames
  <2>3. /\ Origin(al) \in PlaceType /\ Origin(al).v = al.v /\ Origin(al).q = al.p
        /\ Origin(al).stack = <<>> /\ Origin(al).free
    BY <2>1, <2>2 DEF Origin, Place, PlaceType
  <2>4. At(R, Origin(al), Origin(al), al.v, al.p) /\ Loose(Origin(al))
    BY <2>3 DEF Closed, At, Loose
  <2> QED
    BY <2>3, <2>4 DEF ObjectAt
<1> QED
  BY <1>1 DEF Init, FlowInit, ObjectsReach

\* Allocations spread along assignments and globals, and out of callees.
LEMMA AllocStep ==
  ASSUME TypeOK, NEW R, NEW A, Closed(ir, R, A), AssignsCarry(R), GlobalsCarry(R),
         ObjectsReach(R), ProducedReach(R), [Next]_vars
  PROVE  ObjectsReach(R)'
<1>0. UNCHANGED ir /\ ir \in ProgramType
  BY OwnRules, ProgramFacts
<1>1. ASSUME NEW obj, NEW v, NEW p, ObjectAt(ir, R, obj, v, p), NEW ctx,
             Allocate([v |-> v, p |-> p, obj |-> obj, ctx |-> ctx])
      PROVE  ObjectsReach(R)'
  BY <1>0, <1>1 DEF Allocate, ObjectsReach
<1>2. CASE AllocThroughGlobals
  <2>1. PICK st \in GlobalVariableStore, ld \in GlobalVariableLoad, o \in VirtualAlloc :
          /\ o.v = st.v2 /\ o.p = st.p2
          /\ GlobalHolds(ld.v2, ld.p2, st.v1, st.p1)
          /\ Allocate([v |-> ld.v1, p |-> ld.p1, obj |-> o.obj, ctx |-> AnyContext])
    BY <1>2 DEF AllocThroughGlobals
  <2>2. st \in VirtualAssign /\ ld \in VirtualAssign
    BY DEF GlobalVariableStore, GlobalVariableLoad
  <2>3. /\ Carries(R, st.v1, st.p1, st.v2, st.p2) /\ Carries(R, ld.v1, ld.p1, ld.v2, ld.p2)
        /\ Carries(R, ld.v2, ld.p2, st.v1, st.p1)
    BY <2>1, <2>2, GlobalHoldsCarries DEF AssignsCarry, AssignCarries
  <2>4. Carries(R, ld.v1, ld.p1, st.v1, st.p1)
    BY <2>3, CarriesOn
  <2>5. Carries(R, ld.v1, ld.p1, st.v2, st.p2)
    BY <2>3, <2>4, CarriesOn
  <2>6. ObjectAt(ir, R, o.obj, st.v2, st.p2)
    BY <2>1 DEF ObjectsReach
  <2>7. ld.p1 \in Path /\ st.p2 \in Path
    BY <2>2 DEF TypeOK, AssignType
  <2>8. ObjectAt(ir, R, o.obj, ld.v1, ld.p1)
    BY <2>5, <2>6, <2>7, ObjectMoves
  <2> QED
    BY <1>1, <2>1, <2>8
<1>3. CASE AllocInstantiate
  <2>1. PICK s \in SummaryAlloc, c \in CallEdge, to \in ir.actual :
          /\ c.f = s.f /\ to.insn = c.insn /\ to.n = s.n
          /\ Allocate([v |-> to.v, p |-> to.p \o s.p, obj |-> s.obj, ctx |-> AnyContext])
    BY <1>3 DEF AllocInstantiate
  <2>2. PICK x \in ir.formal :
          x.f = s.f /\ x.n = s.n /\ Gets(ir, x, s.p) /\ ObjectAt(ir, R, s.obj, x.v, s.p)
    BY DEF ProducedReach
  <2>3. Passes(ir, to, x)
    <3>1. [insn |-> c.insn, f |-> s.f] \in ir.call
      BY <1>0, <2>1 DEF CallEdge, InitialCallEdges, ProgramType
    <3> QED
      BY <2>1, <2>2, <3>1 DEF Passes
  <2>4. PICK al \in ir.alloc, z \in PlaceType : al.obj = s.obj /\ At(R, Origin(al), z, x.v, s.p) /\ Loose(z)
    BY <2>2 DEF ObjectAt
  <2>5. PICK w : At(R, Origin(al), w, to.v, Below(to.p, s.p)) /\ Loose(w)
    BY <1>0, <2>2, <2>3, <2>4, ReturnedLoose
  <2>a. w \in PlaceType
    BY <2>5 DEF At
  <2>6. ObjectAt(ir, R, s.obj, to.v, Below(to.p, s.p))
    BY <2>4, <2>5, <2>a DEF ObjectAt
  <2>7. Allocate([v |-> to.v, p |-> Below(to.p, s.p), obj |-> s.obj, ctx |-> AnyContext])
    BY <2>1 DEF Below
  <2> QED
    BY <1>1, <2>6, <2>7
<1>4. CASE UNCHANGED VirtualAlloc
  BY <1>0, <1>4 DEF ObjectsReach
<1> QED
  BY <1>2, <1>3, <1>4, OwnRules

\* A function hands out objects that are in its formals.
LEMMA ProducedStep ==
  ASSUME TypeOK, ReachWithinFunction, StarOnlyAtEnd, NEW R, NEW A, Closed(ir, R, A),
         ReachCarries(R), ObjectsReach(R), ProducedReach(R), [Next]_vars
  PROVE  ProducedReach(R)'
<1>0. UNCHANGED ir /\ ir \in ProgramType
  BY OwnRules, ProgramFacts
<1>1. ASSUME NEW x \in ir.formal, NEW p, Gets(ir, x, p), NEW obj, ObjectAt(ir, R, obj, x.v, p),
             NEW ctx,
             SummarizeAllocation([f |-> x.f, n |-> x.n, p |-> p, obj |-> obj, ctx |-> ctx])
      PROVE  ProducedReach(R)'
  <2> DEFINE s == [f |-> x.f, n |-> x.n, p |-> p, obj |-> obj, ctx |-> ctx]
  <2>1. SummaryAlloc' = SummaryAlloc \cup {s} /\ s.f = x.f /\ s.n = x.n /\ s.p = p /\ s.obj = obj
    BY <1>1 DEF SummarizeAllocation
  <2> HIDE DEF s
  <2> QED
    BY <1>0, <1>1, <2>1 DEF ProducedReach
<1>2. CASE SummarizeAlloc
  <2>1. PICK o \in VirtualAlloc, x \in ir.formal :
          \/ /\ o.v = x.v /\ FlowsOut(x.f, x.n, o.p)
             /\ SummarizeAllocation([f |-> x.f, n |-> x.n, p |-> o.p, obj |-> o.obj, ctx |-> o.ctx])
          \/ \E l \in LocallyReachable : \E ctx \in {o.ctx, l.ctx} :
               /\ l.v2 = o.v /\ l.p2 = o.p /\ l.v1 = x.v /\ FlowsOut(x.f, x.n, l.p1)
               /\ SummarizeAllocation([f |-> x.f, n |-> x.n, p |-> l.p1, obj |-> o.obj, ctx |-> ctx])
    BY <1>2 DEF SummarizeAlloc
  <2>2. ObjectAt(ir, R, o.obj, o.v, o.p)
    BY DEF ObjectsReach
  <2>3. ASSUME NEW p, FlowsOut(x.f, x.n, p) PROVE Gets(ir, x, p)
    BY <2>3 DEF FlowsOut, isByRef, Gets, GetsOut
  <2>4. ASSUME NEW l \in LocallyReachable, l.v2 = o.v, l.p2 = o.p, l.v1 = x.v
        PROVE  ObjectAt(ir, R, o.obj, x.v, l.p1)
    <3>1. l.p1 \in Path /\ l.p2 \in Path /\ Carries(R, l.v1, l.p1, l.v2, l.p2)
      BY DEF TypeOK, FlowType, ReachCarries
    <3> QED
      BY <2>2, <2>4, <3>1, ObjectMoves
  <2> QED
    BY <1>1, <2>1, <2>2, <2>3, <2>4
<1>3. CASE SummarizeAllocAlias
  <2>a. \E held, written \in LocallyReachable, o \in VirtualAlloc, f \in ir.formal :
          LET FH == held.p2 \o After(held.p1, written.p1)
          IN  /\ held.v1 = written.v1
              /\ held.v2 # written.v2 /\ held.p1 # written.p1
              /\ held.ctx = AnyContext /\ written.ctx = AnyContext
              /\ o.v = written.v2 /\ o.p = written.p2
              /\ AliasedWrite(isComputedAccessPath, held.p1, written.p1, held.p2, FH)
              /\ f.v = held.v2
              /\ SummarizeAllocation([f |-> f.f, n |-> f.n, p |-> FH, obj |-> o.obj, ctx |-> o.ctx])
    BY <1>3, Zenon DEF SummarizeAllocAlias
  <2>b. PICK held \in LocallyReachable, written \in LocallyReachable,
             o \in VirtualAlloc, f \in ir.formal :
          LET FH == held.p2 \o After(held.p1, written.p1)
          IN  /\ held.v1 = written.v1
              /\ held.v2 # written.v2 /\ held.p1 # written.p1
              /\ held.ctx = AnyContext /\ written.ctx = AnyContext
              /\ o.v = written.v2 /\ o.p = written.p2
              /\ AliasedWrite(isComputedAccessPath, held.p1, written.p1, held.p2, FH)
              /\ f.v = held.v2
              /\ SummarizeAllocation([f |-> f.f, n |-> f.n, p |-> FH, obj |-> o.obj, ctx |-> o.ctx])
    BY <2>a, Zenon
  <2>1. /\ held.v1 = written.v1 /\ held.p1 # written.p1
        /\ o.v = written.v2 /\ o.p = written.p2
        /\ AliasedWrite(isComputedAccessPath, held.p1, written.p1, held.p2,
                        held.p2 \o After(held.p1, written.p1))
        /\ f.v = held.v2
        /\ SummarizeAllocation([f |-> f.f, n |-> f.n, p |-> held.p2 \o After(held.p1, written.p1),
                                obj |-> o.obj, ctx |-> o.ctx])
    BY <2>b, Zenon
  <2> DEFINE FH == held.p2 \o After(held.p1, written.p1)
  <2>2. /\ Gets(ir, f, FH)
        /\ \A b, z : \A r \in Path :
             At(R, b, z, written.v2, Below(written.p2, r)) /\ (z.entry # f.v \/ Loose(z)) =>
               \E w : At(R, b, w, f.v, Below(FH, r)) /\ Continues(z, w)
    BY <2>1, AliasFacts
  <2>3. SummarizeAllocation([f |-> f.f, n |-> f.n, p |-> FH, obj |-> o.obj, ctx |-> o.ctx])
    BY <2>1
  <2>4. FH \in Path
    <3>1. held.p2 \in Path /\ After(held.p1, written.p1) \in Path
      BY AfterPath DEF TypeOK, FlowType
    <3> QED
      BY <3>1, BelowFacts DEF Below
  <2> HIDE DEF FH
  <2>5. ObjectAt(ir, R, o.obj, written.v2, written.p2)
    BY <2>1 DEF ObjectsReach
  <2>6. PICK al \in ir.alloc, z \in PlaceType :
          al.obj = o.obj /\ At(R, Origin(al), z, written.v2, written.p2) /\ Loose(z)
    BY <2>5 DEF ObjectAt
  <2>7. Empty \in Path /\ Below(written.p2, Empty) = written.p2 /\ Below(FH, Empty) = FH
    BY <2>4, PathConstants, BelowFacts DEF TypeOK, FlowType
  <2>8. PICK w : At(R, Origin(al), w, f.v, FH) /\ Continues(z, w)
    BY <2>2, <2>6, <2>7
  <2>9. Loose(w) /\ w \in PlaceType
    BY <2>6, <2>8 DEF Continues, Loose, At
  <2>10. ObjectAt(ir, R, o.obj, f.v, FH)
    BY <2>6, <2>8, <2>9 DEF ObjectAt
  <2> QED
    BY <1>1, <2>2, <2>3, <2>10
<1>4. CASE UNCHANGED SummaryAlloc
  BY <1>0, <1>4 DEF ProducedReach
<1> QED
  BY <1>2, <1>3, <1>4, OwnRules

----------------------------------------------------------------------------

Explained(R) ==
  /\ AssignsCarry(R) /\ ReachCarries(R) /\ GlobalsCarry(R) /\ SummariesCarry(R)
  /\ ObjectsReach(R) /\ ProducedReach(R)

\* The inductive invariant: every closed relation of values explains the index.
IndexExplained ==
  ~Wildcards => \A R, A : Closed(ir, R, A) => Explained(R)

\* The index starts explained.
LEMMA IndexExplainedInit == Init => IndexExplained
<1> SUFFICES ASSUME Init, ~Wildcards, NEW R, NEW A, Closed(ir, R, A) PROVE Explained(R)
  BY DEF IndexExplained
<1>1. ReachCarries(R) /\ GlobalsCarry(R) /\ ProducedReach(R)
  BY DEF Init, FlowInit, ReachCarries, GlobalsCarry, ProducedReach
<1> QED
  BY <1>1, AssignInit, SummaryInit, ObjectInit DEF Explained

\* The invariant is inductive: every rule adds tuples that carry.
LEMMA IndexExplainedStep ==
  ASSUME TypeOK, ReachWithinFunction, StarOnlyAtEnd, IndexExplained, [Next]_vars
  PROVE  IndexExplained'
<1>0. UNCHANGED ir
  BY OwnRules
<1> SUFFICES ASSUME ~Wildcards, NEW R, NEW A, Closed(ir, R, A) PROVE Explained(R)'
  BY <1>0 DEF IndexExplained, Wildcards
<1>1. Explained(R)
  BY DEF IndexExplained
<1> QED
  BY <1>1, AssignStep, ReachStepCarries, GlobalStepCarries, SummaryStep, AllocStep, ProducedStep
     DEF Explained

\* It holds while the index is computed, whatever surrounds it.
LEMMA ExplainedHolds == IndexSteps => []IndexExplained
<1>1. TypeOK /\ ReachWithinFunction /\ StarOnlyAtEnd /\ IndexExplained /\ [Next]_vars => IndexExplained'
  BY IndexExplainedStep
<1> QED
  BY <1>1, IndexExplainedInit, TypesHold, ReachHolds, StarsHold, PTL DEF IndexSteps

\* Without wildcards every assignment, reachable pair, flow, summary and
\* allocation of the index is a way values go in the program.
THEOREM IndexIsExplained == Spec => []IndexExplained
<1>1. Spec => IndexSteps
  BY DEF Spec, IndexSteps
<1> QED
  BY <1>1, ExplainedHolds, PTL

----------------------------------------------------------------------------
(* Steps stay within the places.                                           *)

AliasType == [x : Var, F : Path, t : Var, G : Path, free : BOOLEAN]

\* The places an assignment leads to.
LEMMA MovesTyped ==
  ASSUME NEW P \in ProgramType, NEW z \in PlaceType, NEW w \in MovesTo(P, z)
  PROVE  w \in PlaceType
<1> DEFINE stack(m) == IF m.v2 \in P.global THEN <<>> ELSE z.stack
           free(m) == z.free \/ m.v2 \in P.global
<1>1. PICK m \in P.move \cup P.insnModel :
        w = Place(m.v1, m.p1 \o After(m.p2, z.q), z.entry, stack(m), free(m), Len(m.p1))
  BY DEF MovesTo
<1>2. m.v1 \in Var /\ m.p1 \in Path /\ m.p2 \in Path
  BY ProgramParts DEF MoveType
<1>3. After(m.p2, z.q) \in Path
  BY <1>2, AfterPath, PlaceFields
<1>4. m.p1 \o After(m.p2, z.q) \in Path /\ Len(m.p1) \in Nat
  BY <1>2, <1>3, BelowFacts, PathLength DEF Below
<1>5. z.entry \in Var /\ stack(m) \in Frames
  BY PlaceFields, NoFrames
<1>6. free(m) \in BOOLEAN
  OBVIOUS
<1> HIDE DEF stack, free
<1> QED
  BY <1>1, <1>2, <1>4, <1>5, <1>6, PlaceOf

\* The places a call leads to.
LEMMA CallsTyped ==
  ASSUME NEW P \in ProgramType, NEW z \in PlaceType, NEW w \in CallsTo(P, z)
  PROVE  w \in PlaceType
<1> DEFINE into(a) == {Place(x.v, After(a.p, z.q), x.v,
                             <<[insn |-> a.insn, entry |-> z.entry]>> \o z.stack, z.free, 0) :
                         x \in {x \in P.formal : x.n = a.n /\ [insn |-> a.insn, f |-> x.f] \in P.call}}
           from == {a \in P.actual : a.v = z.v /\ Prefix(a.p, z.q)}
<1>1. CallsTo(P, z) = UNION {into(a) : a \in from}
  BY DEF CallsTo
<1> HIDE DEF into, from
<1>2. PICK a \in from : w \in into(a)
  BY <1>1
<1>3. PICK x \in P.formal :
        w = Place(x.v, After(a.p, z.q), x.v,
                  <<[insn |-> a.insn, entry |-> z.entry]>> \o z.stack, z.free, 0)
  BY <1>2 DEF into
<1>4. x.v \in Var /\ a.p \in Path /\ a.insn \in Insn
  BY <1>2, ProgramParts DEF from
<1>5. /\ After(a.p, z.q) \in Path /\ z.free \in BOOLEAN
      /\ <<[insn |-> a.insn, entry |-> z.entry]>> \o z.stack \in Frames
  BY <1>4, AfterPath, PlaceFields, PushFacts DEF Push
<1> QED
  BY <1>3, <1>4, <1>5, PlaceOf

\* The places a return leads to.
LEMMA ReturnsTyped ==
  ASSUME NEW P \in ProgramType, NEW z \in PlaceType, NEW w \in ReturnsTo(P, FALSE, z)
  PROVE  w \in PlaceType
<1> DEFINE entry(a) == IF z.stack = <<>> THEN a.v ELSE Head(z.stack).entry
           stack == IF z.stack = <<>> THEN <<>> ELSE Tail(z.stack)
           outof(x) == {Place(a.v, a.p \o z.q, entry(a), stack, z.free, Len(a.p) + z.at) :
                          a \in {a \in P.actual :
                              /\ a.n = x.n /\ [insn |-> a.insn, f |-> x.f] \in P.call
                              /\ IF z.stack = <<>> THEN z.free ELSE Head(z.stack).insn = a.insn}}
           at == {x \in P.formal : x.v = z.v /\ GetsOut(P, FALSE, x, z.q)}
<1>1. ReturnsTo(P, FALSE, z) = UNION {outof(x) : x \in at}
  BY DEF ReturnsTo
<1> HIDE DEF entry, stack
<1>2. PICK a \in P.actual : w = Place(a.v, a.p \o z.q, entry(a), stack, z.free, Len(a.p) + z.at)
  <2>1. \E x \in at : w \in outof(x)
    <3> HIDE DEF outof, at
    <3> QED
      BY <1>1
  <2> QED
    BY <2>1
<1> HIDE DEF outof, at
<1>3. a.v \in Var /\ a.p \in Path
  BY ProgramParts
<1>4. z.q \in Path /\ z.free \in BOOLEAN /\ z.at \in Nat /\ z.stack \in Frames
  BY PlaceFields
<1>5. a.p \o z.q \in Path
  BY <1>3, <1>4, BelowFacts DEF Below
<1>a. Len(a.p) + z.at \in Nat
  BY <1>3, <1>4, PathLength
<1>6. z.stack # <<>> => Head(z.stack) \in [insn : Insn, entry : Var] /\ Tail(z.stack) \in Frames
  <2> DEFINE S == [insn : Insn, entry : Var]
  <2>1. z.stack \in Seq(S)
    BY <1>4 DEF Frames
  <2> HIDE DEF S
  <2>2. z.stack # <<>> => Head(z.stack) \in S /\ Tail(z.stack) \in Seq(S)
    BY <2>1
  <2> QED
    BY <2>2 DEF S, Frames
<1>7. entry(a) \in Var /\ stack \in Frames
  BY <1>3, <1>6, NoFrames DEF entry, stack
<1> QED
  BY <1>2, <1>3, <1>4, <1>5, <1>a, <1>7, PlaceOf

\* The places a model leads to.
LEMMA ModelsTyped ==
  ASSUME NEW P \in ProgramType, NEW z \in PlaceType, NEW w \in ModelsTo(P, z)
  PROVE  w \in PlaceType
<1> DEFINE stack(b) == IF b.m1 = b.m2 THEN z.stack ELSE <<>>
           free(b) == z.free \/ b.m1 # b.m2
           into(b) == {Place(x.v, b.p1 \o After(b.p2, z.q), z.entry, stack(b), free(b), Len(b.p1)) :
                         x \in {x \in P.formal : x.f = b.m1 /\ x.n = b.n1}}
           from == {b \in P.modelAssign :
                      /\ [f |-> b.m2, n |-> b.n2, v |-> z.v] \in P.formal
                      /\ Prefix(b.p2, z.q)}
<1>1. ModelsTo(P, z) = UNION {into(b) : b \in from}
  BY DEF ModelsTo
<1> HIDE DEF into, from
<1>2. PICK b \in from : w \in into(b)
  BY <1>1
<1>3. PICK x \in P.formal :
        w = Place(x.v, b.p1 \o After(b.p2, z.q), z.entry, stack(b), free(b), Len(b.p1))
  BY <1>2 DEF into
<1>4. x.v \in Var /\ b.p1 \in Path /\ b.p2 \in Path
  BY <1>2, ProgramParts DEF from, ModelType
<1>5. After(b.p2, z.q) \in Path
  BY <1>4, AfterPath, PlaceFields
<1>6. b.p1 \o After(b.p2, z.q) \in Path /\ Len(b.p1) \in Nat
  BY <1>4, <1>5, BelowFacts, PathLength DEF Below
<1>7. z.entry \in Var /\ stack(b) \in Frames
  BY PlaceFields, NoFrames
<1>8. free(b) \in BOOLEAN
  OBVIOUS
<1> HIDE DEF stack, free
<1> QED
  BY <1>3, <1>4, <1>6, <1>7, <1>8, PlaceOf

\* The places a write below an alias leads to.
LEMMA WritesTyped ==
  ASSUME NEW A \in SUBSET AliasType, NEW z \in PlaceType, NEW w \in WritesTo(A, FALSE, z)
  PROVE  w \in PlaceType
<1> DEFINE stack(h) == IF h.free THEN <<>> ELSE z.stack
           free(h) == z.free \/ h.free
<1>1. PICK h \in A :
        w = Place(h.x, h.F \o After(h.G, z.q), z.entry, stack(h), free(h), 0)
  BY DEF WritesTo
<1>2. h.x \in Var /\ h.F \in Path /\ h.G \in Path
  BY DEF AliasType
<1>3. After(h.G, z.q) \in Path
  BY <1>2, AfterPath, PlaceFields
<1>4. h.F \o After(h.G, z.q) \in Path
  BY <1>2, <1>3, BelowFacts DEF Below
<1>5. z.entry \in Var /\ stack(h) \in Frames /\ 0 \in Nat
  BY PlaceFields, NoFrames
<1>6. free(h) \in BOOLEAN
  OBVIOUS
<1> HIDE DEF stack, free
<1>7. Place(h.x, h.F \o After(h.G, z.q), z.entry, stack(h), free(h), 0) \in PlaceType
  BY <1>2, <1>4, <1>5, <1>6, PlaceOf
<1> QED
  BY <1>1, <1>7

\* The places any step leads to.
LEMMA StepsTyped ==
  ASSUME NEW P \in ProgramType, NEW A \in SUBSET AliasType, NEW z \in PlaceType,
         NEW w \in StepsTo(P, A, FALSE, z)
  PROVE  w \in PlaceType
  BY MovesTyped, CallsTyped, ReturnsTyped, ModelsTyped, WritesTyped DEF StepsTo

----------------------------------------------------------------------------
(* The places a value gets to are the least set closed under the steps.    *)

Fresh(P, A, b) == SuccessorsOf(P, Path, A, FALSE, b.new) \ b.seen
Widen(P, A, b) == [seen |-> b.seen \cup Fresh(P, A, b), new |-> Fresh(P, A, b)]
Stages         == [seen : SUBSET PlaceType, new : SUBSET PlaceType]

WalkOf(f, P, A, s) ==
  /\ f \in [Nat -> Stages]
  /\ f[0] = [seen |-> {s}, new |-> {s}]
  /\ \A n \in Nat \ {0} : f[n] = Widen(P, A, f[n - 1])

\* The recursive function of PlacesFrom is defined, and has the values it says.
LEMMA WalkUnfolds ==
  ASSUME NEW P \in ProgramType, NEW A \in SUBSET AliasType, NEW s \in PlaceType
  PROVE  \E f : WalkOf(f, P, A, s) /\ PlacesFrom(P, Path, A, FALSE, s) = UNION {f[n].seen : n \in Rounds}
<1> DEFINE Fix(it) ==
             it = [n \in Nat |->
                     IF n = 0 THEN [seen |-> {s}, new |-> {s}]
                     ELSE LET before == it[n - 1]
                              new == SuccessorsOf(P, Path, A, FALSE, before.new) \ before.seen
                          IN  [seen |-> before.seen \cup new, new |-> new]]
           l == CHOOSE it : Fix(it)
           start == [seen |-> {s}, new |-> {s}]
           step == [q \in Nat \X Stages |-> Widen(P, A, q[2])]
<1>1. PlacesFrom(P, Path, A, FALSE, s) = UNION {l[n].seen : n \in Rounds}
  BY DEF PlacesFrom
<1>2. ASSUME NEW b \in Stages PROVE Widen(P, A, b) \in Stages
  <2>1. b.seen \subseteq PlaceType /\ b.new \subseteq PlaceType
    BY <1>2 DEF Stages
  <2>2. \A w \in b.new : Successors(P, Path, A, FALSE, w) \subseteq PlaceType
    BY <2>1, StepsTyped DEF Successors
  <2>3. Fresh(P, A, b) \subseteq PlaceType
    BY <2>2 DEF Fresh, SuccessorsOf
  <2> QED
    BY <2>1, <2>3 DEF Widen, Stages
<1>3. start \in Stages
  BY DEF Stages
<1>4. StepOn(step, Stages)
  BY <1>2 DEF StepOn
<1>5. PICK f : IteratesOn(f, Stages, start, step)
  <2> HIDE DEF step, start
  <2> QED
    BY <1>3, <1>4, NatRecursion
<1>6. f \in [Nat -> Stages] /\ f[0] = start
  BY <1>5 DEF IteratesOn
<1>7. \A n \in Nat \ {0} : f[n] = Widen(P, A, f[n - 1])
  <2> TAKE n \in Nat \ {0}
  <2>1. n - 1 \in Nat /\ f[n - 1] \in Stages
    BY <1>6
  <2>2. f[n] = step[<<n, f[n - 1]>>]
    BY <1>5 DEF IteratesOn
  <2> QED
    BY <2>1, <2>2
<1>8. Fix(f)
  BY <1>6, <1>7 DEF Widen, Fresh
<1>9. Fix(l)
  <2> HIDE DEF Fix
  <2> QED
    BY <1>8
<1> HIDE DEF l
<1>10. f = l
  <2> DEFINE T == {n \in Nat : f[n] = l[n]}
  <2>1. l[0] = start /\ \A n \in Nat \ {0} : l[n] = Widen(P, A, l[n - 1])
    BY <1>9 DEF Widen, Fresh
  <2>2. 0 \in T
    BY <1>6, <2>1
  <2>3. ASSUME NEW n \in Nat, n \in T PROVE n + 1 \in T
    <3>1. n + 1 \in Nat \ {0} /\ (n + 1) - 1 = n
      OBVIOUS
    <3> HIDE DEF Fix
    <3> QED
      BY <1>7, <2>1, <2>3, <3>1
  <2> HIDE DEF T
  <2>4. \A n \in Nat : n \in T
    BY <2>2, <2>3, NatStepInduction
  <2>5. l = [n \in Nat |-> l[n]] /\ f = [n \in Nat |-> f[n]]
    BY <1>6, <1>9
  <2> QED
    BY <2>4, <2>5 DEF T
<1>11. WalkOf(f, P, A, s)
  BY <1>6, <1>7 DEF WalkOf
<1> QED
  BY <1>1, <1>10, <1>11

\* The successors of a set are those of its members.
LEMMA FreshOnes ==
  ASSUME NEW P, NEW A, NEW S, NEW z \in S, NEW w \in Successors(P, Path, A, FALSE, z)
  PROVE  w \in SuccessorsOf(P, Path, A, FALSE, S)
BY Zenon DEF SuccessorsOf

\* Where the value at s gets to.
Reached(P, A, s) == PlacesFrom(P, Path, A, FALSE, s)

\* S has with each place the places a step away.
StepClosed(P, A, S) ==
  \A z \in S : \A w \in StepsTo(P, A, FALSE, z) : w \in S

\* The places reached have with each place those a step away.
LEMMA ReachedClosed ==
  ASSUME Depths = Nat, Rounds = Nat,
         NEW P \in ProgramType, NEW A \in SUBSET AliasType, NEW s \in PlaceType
  PROVE  /\ s \in Reached(P, A, s) /\ Reached(P, A, s) \subseteq PlaceType
         /\ StepClosed(P, A, Reached(P, A, s))
<1>a. PICK f : WalkOf(f, P, A, s) /\ Reached(P, A, s) = UNION {f[n].seen : n \in Rounds}
  BY WalkUnfolds DEF Reached
<1>1. WalkOf(f, P, A, s) /\ Reached(P, A, s) = UNION {f[n].seen : n \in Nat}
  BY <1>a
<1>2. s \in Reached(P, A, s)
  BY <1>1 DEF WalkOf
<1>3. \A n \in Nat : f[n].seen \subseteq PlaceType /\ f[n].new \subseteq PlaceType
  BY <1>1 DEF WalkOf, Stages
<1>4. ASSUME NEW z, NEW n \in Nat, z \in f[n].new, NEW w \in StepsTo(P, A, FALSE, z)
      PROVE  w \in f[n + 1].seen
  <2>1. n + 1 \in Nat \ {0} /\ (n + 1) - 1 = n
    OBVIOUS
  <2>2. f[n + 1] = Widen(P, A, f[n])
    BY <1>1, <2>1 DEF WalkOf
  <2>3. w \in PlaceType
    BY <1>3, <1>4, StepsTyped
  <2>4. w.q \in Path /\ Len(w.stack) \in Nat
    BY <2>3, PlaceFields DEF Frames
  <2>5. w \in Successors(P, Path, A, FALSE, z)
    BY <1>4, <2>4 DEF Successors
  <2>6. w \in f[n].seen \/ w \in Fresh(P, A, f[n])
    <3>1. w \in SuccessorsOf(P, Path, A, FALSE, f[n].new)
      BY <1>4, <2>5, FreshOnes
    <3> QED
      BY <3>1 DEF Fresh
  <2> QED
    BY <2>2, <2>6 DEF Widen
<1>5. ASSUME NEW z \in Reached(P, A, s) PROVE \E n \in Nat : z \in f[n].new
  <2> DEFINE T == {n \in Nat : \A y \in f[n].seen : \E m \in Nat : y \in f[m].new}
  <2>1. 0 \in T
    BY <1>1 DEF WalkOf
  <2>2. ASSUME NEW n \in Nat, n \in T PROVE n + 1 \in T
    <3>1. n + 1 \in Nat \ {0} /\ (n + 1) - 1 = n
      OBVIOUS
    <3>2. f[n + 1] = Widen(P, A, f[n])
      BY <1>1, <3>1 DEF WalkOf
    <3>3. f[n + 1].seen = f[n].seen \cup f[n + 1].new
      BY <3>2 DEF Widen
    <3> QED
      BY <2>2, <3>1, <3>3
  <2> HIDE DEF T
  <2>3. \A n \in Nat : n \in T
    BY <2>1, <2>2, NatStepInduction
  <2> QED
    BY <1>1, <2>3 DEF T
<1>6. ASSUME NEW z \in Reached(P, A, s), NEW w \in StepsTo(P, A, FALSE, z)
      PROVE  w \in Reached(P, A, s)
  <2>1. PICK n \in Nat : z \in f[n].new
    BY <1>5
  <2>2. w \in f[n + 1].seen
    BY <1>4, <2>1, Zenon
  <2>3. n + 1 \in Nat
    OBVIOUS
  <2> QED
    BY <1>1, <2>2, <2>3
<1> QED
  BY <1>1, <1>2, <1>3, <1>6 DEF StepClosed

\* They are the least places that have.
LEMMA ReachedLeast ==
  ASSUME NEW P \in ProgramType, NEW A \in SUBSET AliasType, NEW s \in PlaceType,
         NEW S, s \in S, StepClosed(P, A, S)
  PROVE  Reached(P, A, s) \subseteq S
<1>1. PICK f : WalkOf(f, P, A, s) /\ Reached(P, A, s) = UNION {f[n].seen : n \in Rounds}
  BY WalkUnfolds DEF Reached
<1> DEFINE T == {n \in Nat : f[n].seen \subseteq S /\ f[n].new \subseteq S}
<1>2. 0 \in T
  BY <1>1 DEF WalkOf
<1>3. ASSUME NEW n \in Nat, n \in T PROVE n + 1 \in T
  <2>1. n + 1 \in Nat \ {0} /\ (n + 1) - 1 = n
    OBVIOUS
  <2>2. f[n + 1] = Widen(P, A, f[n])
    BY <1>1, <2>1 DEF WalkOf
  <2>3. Fresh(P, A, f[n]) \subseteq S
    BY <1>3 DEF Fresh, SuccessorsOf, Successors, StepClosed
  <2> QED
    BY <1>3, <2>2, <2>3 DEF Widen
<1> HIDE DEF T
<1>4. \A n \in Nat : n \in T
  BY <1>2, <1>3, NatStepInduction
<1> QED
  BY <1>1, <1>4, FollowedAssumption DEF T

----------------------------------------------------------------------------
(* The aliases of a program are closed, too.                               *)

\* A value entering in formal x.F can be at w, back in the same function.
Holds(P, A, x, F, w) ==
  /\ x \in P.formal /\ F \in Path /\ ~HasStar(F) /\ w \in Reached(P, A, Entering(x.v, F))
  /\ w.stack = <<>> /\ w.v \notin P.global /\ (w.v # x.v \/ w.q # F)

AliasAt(x, F, w) == [x |-> x.v, F |-> F, t |-> w.v, G |-> w.q, free |-> w.free]

Held(P, A) == HeldBy(P, Path, A, FALSE)

\* An alias is where a formal's value is held.
LEMMA HeldIs ==
  ASSUME NEW P, NEW A, NEW h \in Held(P, A)
  PROVE  \E x, F, w : Holds(P, A, x, F, w) /\ h = AliasAt(x, F, w)
<1>1. PICK x \in P.formal : h \in HeldFrom(P, Path, A, FALSE, x)
  BY DEF Held, HeldBy
<1>2. PICK F \in {q \in Path : ~HasStar(q)} : h \in HeldAt(P, Path, A, FALSE, x, F)
  BY <1>1 DEF HeldFrom
<1>3. PICK w \in Reached(P, A, Entering(x.v, F)) :
        w.stack = <<>> /\ w.v \notin P.global /\ (w.v # x.v \/ w.q # F) /\ h = AliasAt(x, F, w)
  BY <1>2 DEF HeldAt, Reached, AliasAt
<1>4. Holds(P, A, x, F, w)
  BY <1>2, <1>3 DEF Holds
<1> QED
  BY <1>3, <1>4

\* Where a formal's value is held is an alias.
LEMMA HeldIn ==
  ASSUME NEW P, NEW A, NEW x, NEW F, NEW w, Holds(P, A, x, F, w)
  PROVE  AliasAt(x, F, w) \in Held(P, A)
<1>1. AliasAt(x, F, w) \in HeldAt(P, Path, A, FALSE, x, F)
  BY DEF HeldAt, Holds, Reached, AliasAt
<1>2. x \in P.formal /\ F \in Path /\ ~HasStar(F)
  BY DEF Holds
<1>3. AliasAt(x, F, w) \in HeldFrom(P, Path, A, FALSE, x)
  BY <1>1, <1>2 DEF HeldFrom
<1> QED
  BY <1>2, <1>3 DEF Held, HeldBy

\* A value that enters in a formal is at a place, inside of no call.
LEMMA EnteringPlace ==
  ASSUME NEW v \in Var, NEW F \in Path
  PROVE  /\ Entering(v, F) \in PlaceType /\ Entering(v, F).v = v /\ Entering(v, F).q = F
         /\ Entering(v, F).entry = v /\ Entering(v, F).stack = <<>> /\ Entering(v, F).free = FALSE
<1>1. <<>> \in Frames /\ 0 \in Nat
  BY NoFrames
<1> QED
  BY <1>1 DEF Entering, Place, PlaceType

\* Aliases relate paths of variables.
LEMMA HeldTyped ==
  ASSUME Depths = Nat, Rounds = Nat, NEW P \in ProgramType, NEW A \in SUBSET AliasType
  PROVE  Held(P, A) \in SUBSET AliasType
<1> SUFFICES ASSUME NEW h \in Held(P, A) PROVE h \in AliasType
  OBVIOUS
<1>1. ASSUME NEW x, NEW F, NEW w, Holds(P, A, x, F, w) PROVE AliasAt(x, F, w) \in AliasType
  <2>1. x \in P.formal /\ F \in Path /\ w \in Reached(P, A, Entering(x.v, F))
    BY <1>1 DEF Holds
  <2>2. x.v \in Var
    BY <2>1, ProgramParts
  <2>3. Entering(x.v, F) \in PlaceType
    BY <2>1, <2>2, EnteringPlace
  <2>4. w \in PlaceType
    BY <2>1, <2>3, ReachedClosed
  <2>5. w.v \in Var /\ w.q \in Path /\ w.free \in BOOLEAN
    BY <2>4, PlaceFields
  <2> QED
    BY <2>1, <2>2, <2>5 DEF AliasAt, AliasType
<1>2. PICK x, F, w : Holds(P, A, x, F, w) /\ h = AliasAt(x, F, w)
  BY HeldIs
<1> QED
  BY <1>1, <1>2

\* More aliases allow more steps, ...
LEMMA StepsMonotone ==
  ASSUME NEW P, NEW A, NEW B, A \subseteq B, NEW z
  PROVE  StepsTo(P, A, FALSE, z) \subseteq StepsTo(P, B, FALSE, z)
<1>1. WritesTo(A, FALSE, z) \subseteq WritesTo(B, FALSE, z)
  BY DEF WritesTo
<1> QED
  BY <1>1 DEF StepsTo

\* ... more places, ...
LEMMA ReachedMonotone ==
  ASSUME Depths = Nat, Rounds = Nat, NEW P \in ProgramType, NEW s \in PlaceType,
         NEW A \in SUBSET AliasType, NEW B \in SUBSET AliasType, A \subseteq B
  PROVE  Reached(P, A, s) \subseteq Reached(P, B, s)
<1>1. s \in Reached(P, B, s) /\ StepClosed(P, B, Reached(P, B, s))
  BY ReachedClosed
<1>2. StepClosed(P, A, Reached(P, B, s))
  BY <1>1, StepsMonotone DEF StepClosed
<1> QED
  BY <1>1, <1>2, ReachedLeast

\* ... and more aliases.
LEMMA HeldMonotone ==
  ASSUME Depths = Nat, Rounds = Nat, NEW P \in ProgramType,
         NEW A \in SUBSET AliasType, NEW B \in SUBSET AliasType, A \subseteq B
  PROVE  Held(P, A) \subseteq Held(P, B)
<1>1. ASSUME NEW x, NEW F, NEW w, Holds(P, A, x, F, w) PROVE Holds(P, B, x, F, w)
  <2>1. x \in P.formal /\ F \in Path /\ w \in Reached(P, A, Entering(x.v, F))
    BY <1>1 DEF Holds
  <2>2. x.v \in Var
    BY <2>1, ProgramParts
  <2>3. w \in Reached(P, B, Entering(x.v, F))
    BY <2>1, <2>2, EnteringPlace, ReachedMonotone
  <2> QED
    BY <1>1, <2>3 DEF Holds
<1>2. ASSUME NEW h \in Held(P, A) PROVE h \in Held(P, B)
  <2>1. PICK x, F, w : Holds(P, A, x, F, w) /\ h = AliasAt(x, F, w)
    BY <1>2, HeldIs
  <2> QED
    BY <1>1, <2>1, HeldIn
<1> QED
  BY <1>2

\* The aliases known after each round.
KnownOf(f, P) ==
  /\ f \in [Nat -> SUBSET AliasType]
  /\ f[0] = {}
  /\ \A n \in Nat : f[n + 1] = Held(P, f[n])

\* The recursive function of Aliases is defined, and has the values it says.
LEMMA AliasesUnfold ==
  ASSUME Depths = Nat, Rounds = Nat, NEW P \in ProgramType
  PROVE  \E f : KnownOf(f, P) /\ Aliases(P, Path, FALSE) = UNION {f[n] : n \in AliasRounds}
<1> DEFINE D == SUBSET AliasType
           Fix(it) == it = [n \in Nat |-> IF n = 0 THEN {} ELSE HeldBy(P, Path, it[n - 1], FALSE)]
           l == CHOOSE it : Fix(it)
           step == [q \in Nat \X D |-> Held(P, q[2])]
<1>1. Aliases(P, Path, FALSE) = UNION {l[n] : n \in AliasRounds}
  BY DEF Aliases
<1>2. \A A \in D : Held(P, A) \in D
  BY HeldTyped
<1>3. StepOn(step, D)
  <2> HIDE DEF D
  <2> QED
    BY <1>2 DEF StepOn
<1>4. PICK f : IteratesOn(f, D, {}, step)
  <2>1. {} \in D
    OBVIOUS
  <2> HIDE DEF step, D
  <2> QED
    BY <1>3, <2>1, NatRecursion
<1>5. f \in [Nat -> D] /\ f[0] = {}
  BY <1>4 DEF IteratesOn
<1>6. \A n \in Nat \ {0} : f[n] = Held(P, f[n - 1])
  <2> TAKE n \in Nat \ {0}
  <2> HIDE DEF D
  <2>1. n - 1 \in Nat /\ f[n - 1] \in D
    BY <1>5
  <2>2. f[n] = step[<<n, f[n - 1]>>]
    BY <1>4 DEF IteratesOn
  <2> QED
    BY <2>1, <2>2
<1>7. Fix(f)
  <2> HIDE DEF D, step
  <2> QED
    BY <1>5, <1>6 DEF Held
<1>8. Fix(l)
  <2> HIDE DEF Fix
  <2> QED
    BY <1>7
<1> HIDE DEF l
<1>9. f = l
  <2> DEFINE T == {n \in Nat : f[n] = l[n]}
  <2>1. l[0] = {} /\ \A n \in Nat \ {0} : l[n] = Held(P, l[n - 1])
    BY <1>8 DEF Held
  <2>2. 0 \in T
    BY <1>5, <2>1
  <2>3. ASSUME NEW n \in Nat, n \in T PROVE n + 1 \in T
    <3>1. n + 1 \in Nat \ {0} /\ (n + 1) - 1 = n
      OBVIOUS
    <3> HIDE DEF Fix
    <3> QED
      BY <1>6, <2>1, <2>3, <3>1
  <2> HIDE DEF T
  <2>4. \A n \in Nat : n \in T
    BY <2>2, <2>3, NatStepInduction
  <2>5. l = [n \in Nat |-> l[n]] /\ f = [n \in Nat |-> f[n]]
    BY <1>5, <1>8
  <2> QED
    BY <2>4, <2>5 DEF T
<1>10. ASSUME NEW n \in Nat PROVE f[n + 1] = Held(P, f[n])
  <2>1. n + 1 \in Nat \ {0} /\ (n + 1) - 1 = n
    OBVIOUS
  <2> QED
    BY <1>6, <2>1
<1>11. KnownOf(f, P)
  BY <1>5, <1>10 DEF KnownOf
<1> QED
  BY <1>1, <1>9, <1>11

\* Every round knows the aliases of the rounds before.
LEMMA KnownGrows ==
  ASSUME Depths = Nat, Rounds = Nat, NEW P \in ProgramType, NEW f, KnownOf(f, P),
         NEW m \in Nat, NEW n \in Nat, m <= n
  PROVE  f[m] \subseteq f[n]
<1>1. \A k \in Nat : f[k] \in SUBSET AliasType
  BY DEF KnownOf
<1> DEFINE T == {k \in Nat : f[k] \subseteq f[k + 1]}
<1>2. 0 \in T
  BY DEF KnownOf
<1>3. ASSUME NEW k \in Nat, k \in T PROVE k + 1 \in T
  <2>1. k + 1 \in Nat /\ (k + 1) + 1 \in Nat
    OBVIOUS
  <2>2. f[k] \in SUBSET AliasType /\ f[k + 1] \in SUBSET AliasType
    BY <1>1, <2>1
  <2>3. Held(P, f[k]) \subseteq Held(P, f[k + 1])
    BY <1>3, <2>2, HeldMonotone
  <2> QED
    BY <2>1, <2>3 DEF KnownOf
<1> HIDE DEF T
<1>4. \A k \in Nat : k \in T
  BY <1>2, <1>3, NatStepInduction
<1> DEFINE U == {d \in Nat : f[m] \subseteq f[m + d]}
<1>5. 0 \in U
  OBVIOUS
<1>6. ASSUME NEW d \in Nat, d \in U PROVE d + 1 \in U
  <2>1. m + d \in Nat /\ m + (d + 1) = (m + d) + 1
    OBVIOUS
  <2>2. f[m + d] \subseteq f[(m + d) + 1]
    BY <1>4, <2>1 DEF T
  <2> QED
    BY <1>6, <2>1, <2>2
<1> HIDE DEF U
<1>7. \A d \in Nat : d \in U
  BY <1>5, <1>6, NatStepInduction
<1>8. n - m \in Nat /\ m + (n - m) = n
  OBVIOUS
<1>9. f[m] \subseteq f[m + (n - m)]
  BY <1>7, <1>8 DEF U
<1> QED
  BY <1>8, <1>9

\* A value gets to a place by finitely many steps, hence with the aliases
\* known after some round.
LEMMA ReachedInSomeRound ==
  ASSUME Depths = Nat, Rounds = Nat, NEW P \in ProgramType, NEW s \in PlaceType,
         NEW f, KnownOf(f, P), NEW A, A = UNION {f[n] : n \in Nat},
         NEW w \in Reached(P, A, s)
  PROVE  \E n \in Nat : w \in Reached(P, f[n], s)
<1> DEFINE S == UNION {Reached(P, f[n], s) : n \in Nat}
<1>1. \A k \in Nat : f[k] \in SUBSET AliasType
  BY DEF KnownOf
<1>2. A \in SUBSET AliasType
  BY <1>1
<1>3. s \in S
  <2>1. s \in Reached(P, f[0], s)
    BY <1>1, ReachedClosed
  <2> QED
    BY <2>1
<1>4. ASSUME NEW n \in Nat, NEW z \in Reached(P, f[n], s), NEW y \in StepsTo(P, A, FALSE, z)
      PROVE  \E k \in Nat : y \in Reached(P, f[k], s)
  <2>1. CASE y \in StepsTo(P, {}, FALSE, z)
    <3>1. y \in StepsTo(P, f[n], FALSE, z)
      BY <2>1, StepsMonotone
    <3> QED
      BY <1>1, <3>1, ReachedClosed DEF StepClosed
  <2>2. CASE y \in WritesTo(A, FALSE, z)
    <3>1. PICK h \in A : y \in WritesTo({h}, FALSE, z)
      BY <2>2 DEF WritesTo
    <3>2. PICK m \in Nat : h \in f[m]
      BY <3>1
    <3>3. PICK k \in Nat : m <= k /\ n <= k
      <4>1. n + m \in Nat /\ m <= n + m /\ n <= n + m
        OBVIOUS
      <4> QED
        BY <4>1
    <3>4. h \in f[k]
      BY <3>2, <3>3, KnownGrows
    <3>5. f[n] \subseteq f[k]
      BY <3>3, KnownGrows
    <3>6. z \in Reached(P, f[k], s)
      BY <1>1, <3>5, ReachedMonotone
    <3>7. y \in StepsTo(P, f[k], FALSE, z)
      <4>1. y \in StepsTo(P, {h}, FALSE, z)
        BY <3>1 DEF StepsTo
      <4> QED
        BY <3>4, <4>1, StepsMonotone
    <3> QED
      BY <1>1, <3>6, <3>7, ReachedClosed DEF StepClosed
  <2> QED
    BY <2>1, <2>2 DEF StepsTo
<1>5. StepClosed(P, A, S)
  <2> SUFFICES ASSUME NEW z \in S, NEW y \in StepsTo(P, A, FALSE, z) PROVE y \in S
    BY DEF StepClosed
  <2>1. PICK n \in Nat : z \in Reached(P, f[n], s)
    OBVIOUS
  <2>2. PICK k \in Nat : y \in Reached(P, f[k], s)
    BY <1>4, <2>1
  <2> QED
    BY <2>2
<1>6. Reached(P, A, s) \subseteq S
  <2> HIDE DEF S
  <2> QED
    BY <1>2, <1>3, <1>5, ReachedLeast
<1> QED
  BY <1>6

----------------------------------------------------------------------------
(* The reference is a closed relation.                                     *)

AllAliases(P) == Aliases(P, Path, FALSE)

Flowing(P) ==
  {e \in PlaceType \X PlaceType : e[2] \in Reached(P, AllAliases(P), e[1])}

\* Where the reference takes values is a closed relation, with its aliases.
LEMMA ReferenceClosed ==
  ASSUME Depths = Nat, Rounds = Nat, AliasRounds = Nat, NEW P \in ProgramType
  PROVE  Closed(P, Flowing(P), AllAliases(P))
<1> DEFINE A == AllAliases(P)
           R == Flowing(P)
<1>a. PICK f : KnownOf(f, P) /\ Aliases(P, Path, FALSE) = UNION {f[n] : n \in AliasRounds}
  BY AliasesUnfold
<1>1. KnownOf(f, P) /\ A = UNION {f[n] : n \in Nat}
  BY <1>a DEF AllAliases
<1>2. A \in SUBSET AliasType /\ \A n \in Nat : f[n] \in SUBSET AliasType
  BY <1>1 DEF KnownOf
<1> HIDE DEF A
<1>3. \A s \in PlaceType, w \in PlaceType : <<s, w>> \in R <=> w \in Reached(P, A, s)
  BY DEF Flowing, A
<1> HIDE DEF R
<1>4. \A s \in PlaceType : <<s, s>> \in R
  BY <1>2, <1>3, ReachedClosed
<1>5. ASSUME NEW s \in PlaceType, NEW z \in PlaceType, NEW w \in PlaceType,
             <<s, z>> \in R, w \in StepsTo(P, A, FALSE, z)
      PROVE  <<s, w>> \in R
  <2>1. StepClosed(P, A, Reached(P, A, s))
    BY <1>2, ReachedClosed
  <2> QED
    BY <1>3, <1>5, <2>1 DEF StepClosed
<1>6. ASSUME NEW x \in P.formal, NEW F \in Path, NEW w \in PlaceType,
             ~HasStar(F), <<Entering(x.v, F), w>> \in R,
             w.stack = <<>>, w.v \notin P.global, w.v # x.v \/ w.q # F
      PROVE  AliasAt(x, F, w) \in A
  <2>1. Entering(x.v, F) \in PlaceType
    BY ProgramParts, EnteringPlace
  <2>2. w \in Reached(P, A, Entering(x.v, F))
    BY <1>3, <1>6, <2>1
  <2>3. PICK n \in Nat : w \in Reached(P, f[n], Entering(x.v, F))
    BY <1>1, <2>1, <2>2, ReachedInSomeRound
  <2>4. Holds(P, f[n], x, F, w)
    BY <1>6, <2>3 DEF Holds
  <2>5. AliasAt(x, F, w) \in f[n + 1]
    BY <1>1, <2>4, HeldIn DEF KnownOf
  <2>6. n + 1 \in Nat
    OBVIOUS
  <2> QED
    BY <1>1, <2>5, <2>6
<1>7. Closed(P, R, A)
  BY <1>4, <1>5, <1>6 DEF Closed, AliasAt
<1> QED
  BY <1>7 DEF R, A

\* The reference follows values at all paths, in calls of any depth, all the way.
Unbounded == Followed = Path /\ Depths = Nat /\ Rounds = Nat /\ AliasRounds = Nat

\* What this relation says is what the functions of the reference return.
LEMMA FlowingTo ==
  ASSUME Unbounded, NEW o, NEW w, NEW v, NEW q, At(Flowing(ir), o, w, v, q)
  PROVE  /\ w \in PlacesFrom(ir, Followed, Aliases(ir, Followed, FALSE), FALSE, o)
         /\ o \in PlaceType /\ w \in PlaceType /\ w.v = v /\ w.q = q
  BY DEF At, Flowing, Reached, AllAliases, Unbounded

\* It is closed for the program that is indexed.
LEMMA FlowingClosed ==
  ASSUME Unbounded, TypeOK
  PROVE  Closed(ir, Flowing(ir), AllAliases(ir))
  BY ProgramFacts, ReferenceClosed DEF Unbounded

\* An explained summary is a flow of the reference.
LEMMA ExplainedSummaries ==
  ASSUME Unbounded, TypeOK, IndexExplained
  PROVE  SummariesSound
<1> SUFFICES ASSUME ~Wildcards, NEW s \in SummaryFlow
             PROVE  \E x \in ir.formal :
                      /\ x.f = s.m2 /\ x.n = s.n2
                      /\ \E w \in Leaving(Followed, FALSE, x.v, s.p2) :
                           w.q = s.p1 /\ [f |-> s.m1, n |-> s.n1, v |-> w.v] \in ir.formal
  BY DEF SummariesSound
<1> DEFINE R == Flowing(ir)
<1>1. Closed(ir, R, AllAliases(ir)) /\ ir \in ProgramType
  BY FlowingClosed, ProgramFacts
<1> HIDE DEF R
<1>2. SummaryCarries(ir, R, s)
  BY <1>1 DEF IndexExplained, Explained, SummariesCarry
<1>3. PICK x1 \in ir.formal, x2 \in ir.formal :
        /\ x1.f = s.m1 /\ x1.n = s.n1 /\ x2.f = s.m2 /\ x2.n = s.n2
        /\ FlowsAs(R, s, x1, x2)
  BY <1>2 DEF SummaryCarries
<1>4. s.p1 \in Path /\ s.p2 \in Path /\ x2.v \in Var /\ x1 \in [f : Function, n : ParamIndex, v : Var]
  BY <1>1, ProgramParts DEF TypeOK, SummaryType
<1> DEFINE e == Entering(x2.v, s.p2)
<1>5. e \in PlaceType /\ e.v = x2.v /\ e.q = s.p2 /\ e.entry = x2.v /\ e.stack = <<>>
  BY <1>4, EnteringPlace
<1> HIDE DEF e
<1>6. Empty \in Path /\ Below(s.p2, Empty) = s.p2 /\ Below(s.p1, Empty) = s.p1
  BY <1>4, PathConstants, BelowFacts
<1>7. At(R, e, e, x2.v, Below(s.p2, Empty))
  BY <1>1, <1>5, <1>6 DEF At, Closed
<1>8. PICK w : At(R, e, w, x1.v, Below(s.p1, Empty)) /\ Continues(e, w)
  BY <1>3, <1>5, <1>6, <1>7 DEF FlowsAs
<1>9. /\ w \in PlacesFrom(ir, Followed, Aliases(ir, Followed, FALSE), FALSE, e)
      /\ w.v = x1.v /\ w.q = s.p1 /\ w.stack = <<>>
  BY <1>5, <1>6, <1>8, FlowingTo DEF R, Continues, Loose
<1>10. w \in Leaving(Followed, FALSE, x2.v, s.p2)
  BY <1>9 DEF Leaving, e
<1>11. [f |-> s.m1, n |-> s.n1, v |-> w.v] \in ir.formal
  BY <1>3, <1>4, <1>9
<1> QED
  BY <1>3, <1>9, <1>10, <1>11

\* An explained allocation is a place of the reference for its object.
LEMMA ExplainedAllocs ==
  ASSUME Unbounded, TypeOK, IndexExplained
  PROVE  AllocsSound
<1> SUFFICES ASSUME ~Wildcards
             PROVE  /\ \A o \in VirtualAlloc : \E w \in Produced(o.obj) : w.v = o.v /\ w.q = o.p
                    /\ \A s \in SummaryAlloc : \E w \in Produced(s.obj) :
                         w.q = s.p /\ [f |-> s.f, n |-> s.n, v |-> w.v] \in ir.formal
  BY DEF AllocsSound
<1> DEFINE R == Flowing(ir)
<1>1. Closed(ir, R, AllAliases(ir)) /\ ir \in ProgramType
  BY FlowingClosed, ProgramFacts
<1> HIDE DEF R
<1>2. ObjectsReach(R) /\ ProducedReach(R)
  BY <1>1 DEF IndexExplained, Explained
<1>3. ASSUME NEW obj, NEW v, NEW p, ObjectAt(ir, R, obj, v, p)
      PROVE  \E w \in Produced(obj) : w.v = v /\ w.q = p
  <2>1. PICK al \in ir.alloc, w \in PlaceType : al.obj = obj /\ At(R, Origin(al), w, v, p) /\ Loose(w)
    BY <1>3 DEF ObjectAt
  <2>2. /\ w \in PlacesFrom(ir, Followed, Aliases(ir, Followed, FALSE), FALSE, Origin(al))
        /\ w.v = v /\ w.q = p /\ w.stack = <<>>
    BY <2>1, FlowingTo DEF R, Loose
  <2>3. w \in Allocated(Followed, FALSE, al)
    BY <2>2 DEF Allocated, Origin
  <2>4. w \in Produced(obj)
    BY <2>1, <2>3 DEF Produced
  <2> QED
    BY <2>2, <2>4
<1>4. ASSUME NEW s \in SummaryAlloc
      PROVE  \E w \in Produced(s.obj) : w.q = s.p /\ [f |-> s.f, n |-> s.n, v |-> w.v] \in ir.formal
  <2>1. PICK x \in ir.formal : x.f = s.f /\ x.n = s.n /\ ObjectAt(ir, R, s.obj, x.v, s.p)
    BY <1>2 DEF ProducedReach
  <2>2. PICK w \in Produced(s.obj) : w.v = x.v /\ w.q = s.p
    BY <1>3, <2>1
  <2>3. x = [f |-> s.f, n |-> s.n, v |-> w.v]
    BY <1>1, <2>1, <2>2, ProgramParts
  <2> QED
    BY <2>2, <2>3
<1> QED
  BY <1>2, <1>3, <1>4 DEF ObjectsReach

\* A summary reports no flow the program does not have, with every return going
\* back to its own call: for all programs without wildcards, and the reference
\* following values at all paths, in calls of any depth, for any number of steps.
THEOREM SummariesAreSound ==
  ASSUME Followed = Path, Depths = Nat, Rounds = Nat, AliasRounds = Nat
  PROVE  Spec => []SummariesSound
<1>1. TypeOK /\ IndexExplained => SummariesSound
  BY ExplainedSummaries DEF Unbounded
<1> QED
  BY <1>1, TypeCorrect, IndexIsExplained, PTL

\* An object is reported only where the program can put it, likewise.
THEOREM AllocsAreSound ==
  ASSUME Followed = Path, Depths = Nat, Rounds = Nat, AliasRounds = Nat
  PROVE  Spec => []AllocsSound
<1>1. TypeOK /\ IndexExplained => AllocsSound
  BY ExplainedAllocs DEF Unbounded
<1> QED
  BY <1>1, TypeCorrect, IndexIsExplained, PTL

----------------------------------------------------------------------------
(* The state of a query.                                                   *)

\* A query leaves the index to its own rules.
LEMMA QuerySteps == QuerySpec => IndexSteps
<1>1. QueryInit => Init
  BY DEF QueryInit
<1>2. [QueryNext]_queryVars => [Next]_vars
  <2>1. StartQuery => UNCHANGED vars
    BY DEF StartQuery, indexVars
  <2>2. StartSlice => UNCHANGED vars
    BY Zenon DEF StartSlice, indexVars
  <2>3. SliceMove => UNCHANGED vars
    BY DEF SliceMove, Extend, indexVars
  <2>4. SliceToFormal => UNCHANGED vars
    BY DEF SliceToFormal, CrossCall, Extend, indexVars
  <2>5. SliceToActual => UNCHANGED vars
    BY DEF SliceToActual, CrossCall, Extend, indexVars
  <2>6. UNCHANGED queryVars => UNCHANGED vars
    BY DEF queryVars, indexVars
  <2> QED
    BY <2>1, <2>2, <2>3, <2>4, <2>5, <2>6 DEF QueryNext, SliceNext
<1> QED
  BY <1>1, <1>2, PTL DEF QuerySpec, IndexSteps

TagType       == [label : Label, v : Var, p : Path]
TableEdgeType == [to : NodeType, from : NodeType, insn : Insn,
                  kind : {"move", "actual-to-formal", "formal-to-actual"}]

\* The tags of an endpoint.
LEMMA TagsTyped ==
  ASSUME TypeOK, NEW S, S \subseteq Vertices, NEW e \in EndpointType
  PROVE  Tags(e, S) \subseteq TagType
<1>0. ASSUME NEW l \in Label, NEW v \in Var, NEW p \in Path PROVE Tagged(l, v, p) \in TagType
  BY DEF Tagged, TagType
<1>1. \A a \in VirtualAssign : /\ a.v1 \in Var /\ a.p1 \in Path
                               /\ a.v2 \in Var /\ a.p2 \in Path
  BY DEF TypeOK, AssignType
<1>2. \A x \in S : x.v \in Var /\ x.p \in Path
  BY DEF Vertices
<1>3. e.label \in Label
  BY DEF EndpointType
<1>4. CASE e.kind = "vertex"
  <2>1. e.v \in Var /\ e.p \in Path
    BY <1>4 DEF EndpointType
  <2> QED
    BY <1>0, <1>3, <1>4, <2>1 DEF Tags
<1>5. CASE e.kind = "all_fields"
  BY <1>0, <1>2, <1>3, <1>5 DEF Tags
<1>6. CASE e.kind = "known"
  <2>1. Tags(e, S) = {Tagged(e.label, x.v, x.p) : x \in S \cap {Vtx(e.v, e.p)}}
    BY <1>6 DEF Tags
  <2> QED
    BY <1>0, <1>2, <1>3, <2>1
<1>7. CASE e.kind = "field"
  <2>1. ASSUME NEW x \in {Vtx(a.v1, a.p1) : a \in VirtualAssign}
                           \cup {Vtx(a.v2, a.p2) : a \in VirtualAssign}
        PROVE  x.v \in Var /\ x.p \in Path
    BY <1>1 DEF Vtx
  <2> QED
    BY <1>0, <1>3, <1>7, <2>1 DEF Tags
<1>8. CASE e.kind = "insn"
  <2>1. Tags(e, S) =
          {IF e.side = "source" THEN Tagged(e.label, a.v2, a.p2) ELSE Tagged(e.label, a.v1, a.p1) :
             a \in {a \in VirtualAssign : a.insn = e.insn}}
    BY <1>8 DEF Tags
  <2> QED
    BY <1>0, <1>1, <1>3, <2>1
<1> QED
  BY <1>4, <1>5, <1>6, <1>7, <1>8 DEF EndpointType

\* The vertices among which a query looks for its endpoints.
Tracked == UNION {sliceVertex[d] : d \in Slice}

\* The sources and sinks of a query are tagged vertices.
LEMMA EndpointsTyped ==
  ASSUME QueryTypeOK, query # NoQuery
  PROVE  TaintSourceVertex \subseteq TagType /\ LeakingSinkVertex \subseteq TagType
<1>1. query.endpoints \subseteq EndpointType
  BY QueriesAssumption DEF QueryTypeOK, QueryType
<1>2. Tracked \subseteq Vertices
  BY DEF QueryTypeOK, Tracked, Slice
<1>3. ASSUME NEW side PROVE Endpoints(query, side, Tracked) \subseteq TagType
  <2> SUFFICES ASSUME NEW e \in {e \in query.endpoints : e.side = side}
               PROVE  Tags(e, Tracked) \subseteq TagType
    BY DEF Endpoints
  <2> QED
    BY <1>1, <1>2, TagsTyped DEF QueryTypeOK
<1> QED
  BY <1>3 DEF TaintSourceVertex, LeakingSinkVertex, Tracked

\* The assignments of a slice, turned around for a backward one.
LEMMA FlipTyped ==
  ASSUME TypeOK, NEW dir, NEW a \in SliceAssign(dir)
  PROVE  /\ a.v1 \in Var /\ a.p1 \in Path /\ a.v2 \in Var /\ a.p2 \in Path
         /\ a.insn \in Insn /\ a.ctx \in Context
<1>1. ASSUME NEW b \in VirtualAssign
      PROVE  /\ b \in AssignType /\ Flip(b) \in AssignType
  BY DEF TypeOK, AssignType, Flip
<1>2. a \in AssignType
  BY <1>1 DEF SliceAssign
<1> QED
  BY <1>2 DEF AssignType

\* A node made of parts of their types is a node with these parts.
LEMMA NodeOf ==
  ASSUME NEW dir \in Slice, NEW v \in Var, NEW p \in Path, NEW label \in Label,
         NEW call_state \in {"free", "restricted"}, NEW ctx \in Context
  PROVE  /\ Node(dir, v, p, label, call_state, ctx) \in NodeType
         /\ Node(dir, v, p, label, call_state, ctx).dir = dir
         /\ Node(dir, v, p, label, call_state, ctx).v = v
         /\ Node(dir, v, p, label, call_state, ctx).p = p
         /\ Node(dir, v, p, label, call_state, ctx).label = label
         /\ Node(dir, v, p, label, call_state, ctx).call_state = call_state
  BY DEF Node, NodeType

\* An edge to a typed node keeps the table of edges typed.
LEMMA ExtendTyped ==
  ASSUME QueryTypeOK, NEW z \in ReachableVertex, NEW v \in Var, NEW p \in Path,
         NEW call_state \in {"free", "restricted"}, NEW ctx \in Context, NEW insn \in Insn,
         NEW kind \in {"move", "actual-to-formal", "formal-to-actual"},
         Extend(z, v, p, call_state, ctx, insn, kind)
  PROVE  ReachableVertex' \subseteq NodeType /\ ReachableEdge' \subseteq TableEdgeType
<1> DEFINE to == Node(z.dir, v, p, z.label, call_state, ctx)
<1>1. z \in NodeType
  BY DEF QueryTypeOK
<1>2. z.dir \in Slice /\ z.label \in Label
  BY <1>1 DEF NodeType
<1>3. to \in NodeType
  BY <1>2, NodeOf
<1> HIDE DEF to
<1>4. Edge(to, z, insn, kind) \in TableEdgeType
  BY <1>1, <1>3 DEF Edge, TableEdgeType
<1>5. /\ ReachableVertex' = ReachableVertex \cup {to}
      /\ ReachableEdge' = ReachableEdge \cup {Edge(to, z, insn, kind)}
  BY DEF Extend, to
<1> QED
  BY <1>3, <1>4, <1>5 DEF QueryTypeOK, TableEdgeType

\* A vertex of a slice is tracked, and no other is dropped.
LEMMA TrackTyped ==
  ASSUME QueryTypeOK, NEW d \in Slice, NEW v \in Var, NEW p \in Path,
         sliceVertex' = [sliceVertex EXCEPT ![d] = @ \cup {Vtx(v, p)}]
  PROVE  /\ sliceVertex' \in [Slice -> SUBSET Vertices]
         /\ \A c \in Slice : sliceVertex[c] \subseteq sliceVertex'[c]
<1>1. Vtx(v, p) \in Vertices
  BY DEF Vtx, Vertices
<1> QED
  BY <1>1 DEF QueryTypeOK

\* A call edge taken from z leads to a typed node.
LEMMA CrossTyped ==
  ASSUME QueryTypeOK, NEW z \in ReachableVertex, NEW v \in Var, NEW p \in Path, NEW c \in CallEdge,
         NEW direction \in {"actual-to-formal", "formal-to-actual"},
         CrossCall(z, v, p, c, direction)
  PROVE  /\ UNCHANGED <<indexVars, query>>
         /\ ReachableVertex' \subseteq NodeType /\ ReachableEdge' \subseteq TableEdgeType
         /\ sliceVertex' \in [Slice -> SUBSET Vertices]
         /\ \A d \in Slice : sliceVertex[d] \subseteq sliceVertex'[d]
<1>1. PICK ctx \in {z.ctx, c.ctx}, next \in {"free", "restricted"} :
        /\ Extend(z, v, p, next, ctx, c.insn, direction)
        /\ sliceVertex' = [sliceVertex EXCEPT ![z.dir] = @ \cup {Vtx(v, p)}]
  BY DEF CrossCall
<1>2. z \in NodeType /\ c \in [insn : Insn, f : Function, ctx : Context]
  BY RelationTypes DEF QueryTypeOK
<1>3. z.dir \in Slice /\ ctx \in Context /\ c.insn \in Insn
  BY <1>2 DEF NodeType
<1>4. direction \in {"move", "actual-to-formal", "formal-to-actual"}
  OBVIOUS
<1>5. ReachableVertex' \subseteq NodeType /\ ReachableEdge' \subseteq TableEdgeType
  BY <1>1, <1>3, <1>4, ExtendTyped
<1>6. UNCHANGED <<indexVars, query>>
  BY <1>1 DEF Extend
<1> QED
  BY <1>1, <1>3, <1>5, <1>6, TrackTyped

\* The paths a call takes a vertex to.
LEMMA PartTyped ==
  ASSUME QueryTypeOK, NEW z \in ReachableVertex, NEW a \in ir.actual, NEW x \in ir.formal
  PROVE  /\ z.v \in Var /\ z.p \in Path /\ z.dir \in Slice
         /\ a.v \in Var /\ a.p \in Path /\ x.v \in Var
         /\ After(a.p, z.p) \in Path /\ a.p \o z.p \in Path
<1>1. z \in NodeType /\ ir \in ProgramType
  BY ProgramFacts DEF QueryTypeOK
<1>2. z.v \in Var /\ z.p \in Path /\ z.dir \in Slice
  BY <1>1 DEF NodeType
<1>3. a.v \in Var /\ a.p \in Path /\ x.v \in Var
  BY <1>1, ProgramParts
<1>4. After(a.p, z.p) \in Path /\ a.p \o z.p \in Path
  BY <1>2, <1>3, AfterPath, BelowFacts DEF Below
<1> QED
  BY <1>2, <1>3, <1>4

\* A step of a slice keeps its tables typed and the index as it is.
LEMMA SliceTyped ==
  ASSUME QueryTypeOK, SliceNext
  PROVE  /\ query # NoQuery /\ UNCHANGED <<indexVars, query>>
         /\ ReachableVertex' \subseteq NodeType /\ ReachableEdge' \subseteq TableEdgeType
         /\ sliceVertex' \in [Slice -> SUBSET Vertices]
         /\ \A d \in Slice : sliceVertex[d] \subseteq sliceVertex'[d]
<1>0. query # NoQuery
  BY DEF SliceNext
<1>1. CASE StartSlice
  <2>1. \E dir \in Slice :
          \E x \in IF dir = "fw" THEN TaintSourceVertex ELSE LeakingSinkVertex :
            LET to == Node(dir, x.v, x.p, x.label, MatchStart, AnyContext)
            IN  /\ EnabledSlice(query, dir)
                /\ to \notin ReachableVertex
                /\ ReachableVertex' = ReachableVertex \cup {to}
                /\ sliceVertex' = [sliceVertex EXCEPT ![dir] = @ \cup {Vtx(x.v, x.p)}]
                /\ UNCHANGED <<indexVars, query, ReachableEdge>>
    BY <1>1, Zenon DEF StartSlice
  <2>2. PICK dir \in Slice : \E x \in IF dir = "fw" THEN TaintSourceVertex ELSE LeakingSinkVertex :
          /\ ReachableVertex' = ReachableVertex
                                  \cup {Node(dir, x.v, x.p, x.label, MatchStart, AnyContext)}
          /\ sliceVertex' = [sliceVertex EXCEPT ![dir] = @ \cup {Vtx(x.v, x.p)}]
          /\ UNCHANGED <<indexVars, query, ReachableEdge>>
    BY <2>1, Zenon
  <2>3. PICK x \in IF dir = "fw" THEN TaintSourceVertex ELSE LeakingSinkVertex :
          /\ ReachableVertex' = ReachableVertex
                                  \cup {Node(dir, x.v, x.p, x.label, MatchStart, AnyContext)}
          /\ sliceVertex' = [sliceVertex EXCEPT ![dir] = @ \cup {Vtx(x.v, x.p)}]
          /\ UNCHANGED <<indexVars, query, ReachableEdge>>
    BY <2>2, Zenon
  <2>4. x \in TagType
    BY <1>0, EndpointsTyped
  <2>5. x.v \in Var /\ x.p \in Path /\ x.label \in Label
    BY <2>4 DEF TagType
  <2>6. Node(dir, x.v, x.p, x.label, MatchStart, AnyContext) \in NodeType
    <3>1. MatchStart \in {"free", "restricted"} /\ AnyContext \in Context
      BY DEF MatchStart, AnyContext, Context
    <3> QED
      BY <2>5, <3>1, NodeOf
  <2>7. ReachableVertex' \subseteq NodeType /\ ReachableEdge' \subseteq TableEdgeType
    BY <2>3, <2>6 DEF QueryTypeOK, TableEdgeType
  <2>8. /\ sliceVertex' \in [Slice -> SUBSET Vertices]
        /\ \A d \in Slice : sliceVertex[d] \subseteq sliceVertex'[d]
    BY <2>3, <2>5, TrackTyped
  <2> QED
    BY <1>0, <2>3, <2>7, <2>8
<1>2. CASE SliceMove
  <2>1. PICK z \in ReachableVertex : \E a \in SliceAssign(z.dir) : \E ctx \in {z.ctx, a.ctx} :
          Extend(z, a.v1, a.p1, z.call_state, ctx, a.insn, "move") /\ UNCHANGED sliceVertex
    BY <1>2 DEF SliceMove
  <2>a. PICK a \in SliceAssign(z.dir) : \E ctx \in {z.ctx, a.ctx} :
          Extend(z, a.v1, a.p1, z.call_state, ctx, a.insn, "move") /\ UNCHANGED sliceVertex
    BY <2>1
  <2>2. PICK ctx \in {z.ctx, a.ctx} :
          Extend(z, a.v1, a.p1, z.call_state, ctx, a.insn, "move") /\ UNCHANGED sliceVertex
    BY <2>a
  <2>3. z \in NodeType
    BY DEF QueryTypeOK
  <2>4. /\ a.v1 \in Var /\ a.p1 \in Path /\ a.insn \in Insn /\ ctx \in Context
        /\ z.call_state \in {"free", "restricted"}
    BY <2>3, FlipTyped DEF NodeType, QueryTypeOK
  <2>5. ReachableVertex' \subseteq NodeType /\ ReachableEdge' \subseteq TableEdgeType
    BY <2>2, <2>4, ExtendTyped
  <2> QED
    BY <1>0, <2>2, <2>5 DEF Extend, QueryTypeOK
<1>3. CASE SliceToFormal
  <2>1. PICK z \in ReachableVertex, a \in ir.actual, c \in CallEdge, x \in ir.formal :
          CrossCall(z, x.v, After(a.p, z.p), c, "actual-to-formal")
    BY <1>3 DEF SliceToFormal
  <2>2. x.v \in Var /\ After(a.p, z.p) \in Path
    BY PartTyped
  <2>3. "actual-to-formal" \in {"actual-to-formal", "formal-to-actual"}
    OBVIOUS
  <2> QED
    BY <1>0, <2>1, <2>2, <2>3, CrossTyped
<1>4. CASE SliceToActual
  <2>1. PICK z \in ReachableVertex, a \in ir.actual, c \in CallEdge, x \in ir.formal :
          CrossCall(z, a.v, a.p \o z.p, c, "formal-to-actual")
    BY <1>4 DEF SliceToActual
  <2>2. a.v \in Var /\ a.p \o z.p \in Path
    BY PartTyped
  <2>3. "formal-to-actual" \in {"actual-to-formal", "formal-to-actual"}
    OBVIOUS
  <2> QED
    BY <1>0, <2>1, <2>2, <2>3, CrossTyped
<1> QED
  BY <1>1, <1>2, <1>3, <1>4 DEF SliceNext

\* There are no slices at first.
LEMMA QueryTypeInit == QueryInit => QueryTypeOK
  BY TypeInit DEF QueryInit, QueryTypeOK

\* Every step of the index and of the query keeps the types.
LEMMA QueryTypeStep ==
  ASSUME QueryTypeOK, TypeOK', [QueryNext]_queryVars
  PROVE  QueryTypeOK'
<1>1. CASE SliceNext
  BY <1>1, SliceTyped DEF QueryTypeOK, TableEdgeType
<1>2. CASE StartQuery
  <2>1. Vertex \subseteq Vertices
    BY RelationTypes DEF QueryTypeOK
  <2>2. sliceVertex' \in [Slice -> SUBSET Vertices]
    BY <1>2, <2>1 DEF StartQuery
  <2>3. query' \in Queries /\ UNCHANGED <<ReachableVertex, ReachableEdge>>
    BY <1>2 DEF StartQuery
  <2> QED
    BY <2>2, <2>3 DEF QueryTypeOK
<1>3. CASE UNCHANGED sliceVars
  BY <1>3 DEF sliceVars, QueryTypeOK
<1> QED
  BY <1>1, <1>2, <1>3 DEF QueryNext, queryVars

\* The type invariant of a query.
LEMMA QueryTyped == QuerySpec => []QueryTypeOK
<1>1. QueryTypeOK /\ TypeOK' /\ [QueryNext]_queryVars => QueryTypeOK'
  BY QueryTypeStep
<1> QED
  BY <1>1, QueryTypeInit, QuerySteps, TypesHold, PTL DEF QuerySpec

\* A slice reaches typed vertices, and its tables hold what their types say.
THEOREM QueryTypesHold == QuerySpec => []QueryTypeOK
  BY QueryTyped

----------------------------------------------------------------------------
(* What a slice reaches is explained by the steps of values.               *)

\* The rules take no assignment back.
LEMMA AssignsGrow ==
  ASSUME [Next]_vars
  PROVE  VirtualAssign \subseteq VirtualAssign'
<1>1. ASSUME NEW b, Derive(b) PROVE VirtualAssign \subseteq VirtualAssign'
  BY <1>1 DEF Derive
<1>2. CASE SummaryInstantiate \/ SummaryInstantiate2
  <2>1. PICK s, c1, c2, reason : Instantiate(s, c1, c2, reason)
    BY <1>2 DEF SummaryInstantiate, SummaryInstantiate2
  <2>2. PICK b : Derive(b)
    BY <2>1 DEF Instantiate
  <2> QED
    BY <1>1, <2>2
<1>3. CASE FieldPropForward \/ FieldPropBackward
  <2>1. PICK b : Derive(b)
    BY <1>3 DEF FieldPropForward, FieldPropBackward
  <2> QED
    BY <1>1, <2>1
<1>4. CASE StarForward \/ StarBackward
  <2>1. PICK b, p : DeriveStar(b, p)
    BY <1>4 DEF StarForward, StarBackward
  <2> QED
    BY <1>1, <2>1 DEF DeriveStar
<1> QED
  BY <1>2, <1>3, <1>4, OwnRules

\* Endpoints of a query only grow with the assignments and the tracked vertices.
LEMMA TagsGrow ==
  ASSUME NEW e \in EndpointType, VirtualAssign \subseteq VirtualAssign', Tracked \subseteq Tracked'
  PROVE  Tags(e, Tracked) \subseteq Tags(e, Tracked)'
<1>1. CASE e.kind = "vertex"
  BY <1>1 DEF Tags, Tagged
<1>2. CASE e.kind = "all_fields"
  BY <1>2 DEF Tags, Tagged
<1>3. CASE e.kind = "field"
  BY <1>3 DEF Tags, Tagged
<1>4. CASE e.kind = "insn"
  BY <1>4 DEF Tags, Tagged
<1>5. CASE e.kind = "known"
  BY <1>5 DEF Tags, Tagged, Vtx
<1> QED
  BY <1>1, <1>2, <1>3, <1>4, <1>5 DEF EndpointType

\* Nor does a query lose an endpoint once it runs.
LEMMA EndpointsGrow ==
  ASSUME QueryTypeOK, query # NoQuery, UNCHANGED query, VirtualAssign \subseteq VirtualAssign',
         \A d \in Slice : sliceVertex[d] \subseteq sliceVertex'[d]
  PROVE  /\ TaintSourceVertex \subseteq TaintSourceVertex'
         /\ LeakingSinkVertex \subseteq LeakingSinkVertex'
<1>1. query.endpoints \subseteq EndpointType
  BY QueriesAssumption DEF QueryTypeOK, QueryType
<1>2. Tracked \subseteq Tracked'
  BY DEF Tracked, Slice
<1>3. ASSUME NEW side, NEW x \in Endpoints(query, side, Tracked)
      PROVE  x \in Endpoints(query, side, Tracked)'
  <2>1. PICK e \in query.endpoints : e.side = side /\ x \in Tags(e, Tracked)
    BY <1>3 DEF Endpoints
  <2>2. x \in Tags(e, Tracked)'
    BY <1>1, <1>2, <2>1, TagsGrow
  <2> QED
    BY <2>1, <2>2 DEF Endpoints
<1> QED
  BY <1>3 DEF TaintSourceVertex, LeakingSinkVertex, Tracked

\* Where the reference starts from v.p, in a function of unknown callers.
Source(v, p) == Place(v, p, v, <<>>, TRUE, Len(p))

\* A source of S with the label of z gets to z, and is not inside of a call if
\* z may still go up the call stack.
CameFrom(R, S, z) ==
  \E s \in S, w \in PlaceType :
    /\ s.label = z.label /\ At(R, Source(s.v, s.p), w, z.v, z.p)
    /\ z.call_state = "free" => Loose(w)

\* What is at z gets to a sink of T with the label of z, if it is loose or z
\* may still go up the call stack.
GetsInto(R, T, z) ==
  \A o, u :
    At(R, o, u, z.v, z.p) /\ (z.call_state = "free" \/ Loose(u)) =>
      \E w \in PlaceType : At(R, o, w, w.v, w.q) /\ Tagged(z.label, w.v, w.q) \in T

NodeExplained(R, S, T, z) ==
  (z.dir = "fw" => CameFrom(R, S, z)) /\ (z.dir = "bw" => GetsInto(R, T, z))

\* An explained vertex stays explained.
LEMMA NodeStays ==
  ASSUME NEW R, NEW S, NEW T, NEW S1, NEW T1, S \subseteq S1, T \subseteq T1,
         NEW z, NodeExplained(R, S, T, z)
  PROVE  NodeExplained(R, S1, T1, z)
<1>1. z.dir = "fw" => CameFrom(R, S1, z)
  BY DEF NodeExplained, CameFrom
<1>2. z.dir = "bw" => GetsInto(R, T1, z)
  BY DEF NodeExplained, GetsInto
<1> QED
  BY <1>1, <1>2 DEF NodeExplained

\* Where the reference starts from is a loose place.
LEMMA SourcePlace ==
  ASSUME NEW P, NEW R, NEW A, Closed(P, R, A), NEW v \in Var, NEW p \in Path
  PROVE  /\ Source(v, p) \in PlaceType /\ Loose(Source(v, p))
         /\ At(R, Source(v, p), Source(v, p), v, p)
<1>1. Len(p) \in Nat /\ <<>> \in Frames
  BY PathLength, NoFrames
<1>2. /\ Source(v, p) \in PlaceType /\ Source(v, p).v = v /\ Source(v, p).q = p
      /\ Source(v, p).stack = <<>> /\ Source(v, p).free
  BY <1>1 DEF Source, Place, PlaceType
<1> QED
  BY <1>2 DEF Loose, At, Closed

\* The vertex a slice starts in.
LEMMA StartExplained ==
  ASSUME NEW P, NEW R, NEW A, Closed(P, R, A), NEW S, NEW T, NEW dir \in Slice, NEW x \in TagType,
         x \in IF dir = "fw" THEN S ELSE T
  PROVE  NodeExplained(R, S, T, Node(dir, x.v, x.p, x.label, MatchStart, AnyContext))
<1> DEFINE z == Node(dir, x.v, x.p, x.label, MatchStart, AnyContext)
<1>1. x.v \in Var /\ x.p \in Path /\ x.label \in Label /\ x = Tagged(x.label, x.v, x.p)
  BY DEF TagType, Tagged
<1>2. z.dir = dir /\ z.v = x.v /\ z.p = x.p /\ z.label = x.label
  BY DEF Node
<1> HIDE DEF z
<1>3. CASE dir = "fw"
  <2>1. /\ Source(x.v, x.p) \in PlaceType /\ Loose(Source(x.v, x.p))
        /\ At(R, Source(x.v, x.p), Source(x.v, x.p), x.v, x.p)
    BY <1>1, SourcePlace
  <2>2. CameFrom(R, S, z)
    BY <1>2, <1>3, <2>1 DEF CameFrom
  <2> QED
    BY <1>2, <1>3, <2>2 DEF NodeExplained, z
<1>4. CASE dir = "bw"
  <2>1. GetsInto(R, T, z)
    <3> SUFFICES ASSUME NEW o, NEW u, At(R, o, u, z.v, z.p)
                 PROVE  \E w \in PlaceType : /\ At(R, o, w, w.v, w.q)
                                             /\ Tagged(z.label, w.v, w.q) \in T
      BY DEF GetsInto
    <3>1. u \in PlaceType /\ u.v = x.v /\ u.q = x.p /\ At(R, o, u, u.v, u.q)
      BY <1>2 DEF At
    <3> QED
      BY <1>1, <1>2, <1>4, <3>1
  <2> QED
    BY <1>2, <1>4, <2>1 DEF NodeExplained, z
<1> QED
  BY <1>3, <1>4 DEF Slice

\* The vertex at the other end of an assignment.
LEMMA MoveExplained ==
  ASSUME TypeOK, NEW R, AssignsCarry(R), NEW S, NEW T, NEW z \in NodeType, NodeExplained(R, S, T, z),
         NEW a \in SliceAssign(z.dir), a.v2 = z.v, a.p2 = z.p, NEW ctx
  PROVE  NodeExplained(R, S, T, Node(z.dir, a.v1, a.p1, z.label, z.call_state, ctx))
<1> DEFINE to == Node(z.dir, a.v1, a.p1, z.label, z.call_state, ctx)
<1>1. /\ to.dir = z.dir /\ to.v = a.v1 /\ to.p = a.p1 /\ to.label = z.label
      /\ to.call_state = z.call_state
  BY DEF Node
<1>2. a.p1 \in Path /\ a.p2 \in Path
  BY FlipTyped
<1> HIDE DEF to
<1>3. CASE z.dir = "fw"
  <2>1. Carries(R, a.v1, a.p1, z.v, z.p)
    BY <1>3 DEF SliceAssign, AssignsCarry, AssignCarries
  <2>2. PICK s \in S, w \in PlaceType :
          /\ s.label = z.label /\ At(R, Source(s.v, s.p), w, z.v, z.p)
          /\ z.call_state = "free" => Loose(w)
    BY <1>3 DEF NodeExplained, CameFrom
  <2>3. PICK y : At(R, Source(s.v, s.p), y, a.v1, a.p1) /\ Continues(w, y)
    BY <1>2, <2>1, <2>2, CarriesAt
  <2>4. y \in PlaceType /\ (Loose(w) => Loose(y))
    BY <2>3 DEF At, Continues, Loose
  <2>5. CameFrom(R, S, to)
    BY <1>1, <2>2, <2>3, <2>4 DEF CameFrom
  <2> QED
    BY <1>1, <1>3, <2>5 DEF NodeExplained, to
<1>4. CASE z.dir = "bw"
  <2>1. Carries(R, z.v, z.p, a.v1, a.p1)
    <3>1. PICK b \in VirtualAssign : a = Flip(b)
      BY <1>4 DEF SliceAssign
    <3>2. b \in AssignType
      BY DEF TypeOK
    <3>3. a.v1 = b.v2 /\ a.p1 = b.p2 /\ a.v2 = b.v1 /\ a.p2 = b.p1
      BY <3>1, <3>2 DEF Flip, AssignType
    <3> QED
      BY <3>3 DEF AssignsCarry, AssignCarries
  <2>2. GetsInto(R, T, z)
    BY <1>4 DEF NodeExplained
  <2>3. GetsInto(R, T, to)
    <3> SUFFICES ASSUME NEW o, NEW u, At(R, o, u, to.v, to.p), to.call_state = "free" \/ Loose(u)
                 PROVE  \E w \in PlaceType : /\ At(R, o, w, w.v, w.q)
                                             /\ Tagged(to.label, w.v, w.q) \in T
      BY DEF GetsInto
    <3>1. PICK y : At(R, o, y, z.v, z.p) /\ Continues(u, y)
      BY <1>1, <1>2, <2>1, CarriesAt
    <3>2. z.call_state = "free" \/ Loose(y)
      BY <1>1, <3>1 DEF Continues, Loose
    <3> QED
      BY <1>1, <2>2, <3>1, <3>2 DEF GetsInto
  <2> QED
    BY <1>1, <1>4, <2>3 DEF NodeExplained, to
<1> QED
  BY <1>3, <1>4 DEF NodeType, Slice

\* The formal of a callee: forward the value is passed, backward it got out.
LEMMA FormalExplained ==
  ASSUME TypeOK, NEW R, NEW A, Closed(ir, R, A), NEW S, NEW T,
         NEW z \in NodeType, NodeExplained(R, S, T, z),
         NEW a \in ir.actual, NEW x \in ir.formal, Passes(ir, a, x), NEW p \in Path,
         a.v = z.v, z.p = Below(a.p, p), z.dir = "fw" \/ Gets(ir, x, p), NEW ctx
  PROVE  NodeExplained(R, S, T, Node(z.dir, x.v, p, z.label, "restricted", ctx))
<1> DEFINE to == Node(z.dir, x.v, p, z.label, "restricted", ctx)
<1>0. ir \in ProgramType
  BY ProgramFacts
<1>1. /\ to.dir = z.dir /\ to.v = x.v /\ to.p = p /\ to.label = z.label
      /\ to.call_state = "restricted"
  BY DEF Node
<1> HIDE DEF to
<1>2. Empty \in Path /\ Below(p, Empty) = p
  BY PathConstants, BelowFacts
<1>3. CASE z.dir = "fw"
  <2>1. PICK s \in S, w \in PlaceType :
          s.label = z.label /\ At(R, Source(s.v, s.p), w, a.v, Below(a.p, p))
    BY <1>3 DEF NodeExplained, CameFrom
  <2>2. PICK y : At(R, Source(s.v, s.p), y, x.v, p)
    BY <1>0, <2>1, Called
  <2>3. y \in PlaceType
    BY <2>2 DEF At
  <2>4. CameFrom(R, S, to)
    BY <1>1, <2>1, <2>2, <2>3 DEF CameFrom
  <2> QED
    BY <1>1, <1>3, <2>4 DEF NodeExplained, to
<1>4. CASE z.dir = "bw"
  <2>1. GetsInto(R, T, z)
    BY <1>4 DEF NodeExplained
  <2>2. GetsInto(R, T, to)
    <3> SUFFICES ASSUME NEW o, NEW u, At(R, o, u, x.v, p), Loose(u)
                 PROVE  \E w \in PlaceType : /\ At(R, o, w, w.v, w.q)
                                             /\ Tagged(to.label, w.v, w.q) \in T
      BY <1>1 DEF GetsInto
    <3>1. PICK y : At(R, o, y, a.v, Below(a.p, p)) /\ Loose(y)
      BY <1>0, <1>4, ReturnedLoose
    <3> QED
      BY <1>1, <2>1, <3>1 DEF GetsInto
  <2> QED
    BY <1>1, <1>4, <2>2 DEF NodeExplained, to
<1> QED
  BY <1>3, <1>4 DEF NodeType, Slice

\* The actual of a caller: forward the value gets out, backward it was passed.
LEMMA ActualExplained ==
  ASSUME TypeOK, NEW R, NEW A, Closed(ir, R, A), NEW S, NEW T,
         NEW z \in NodeType, NodeExplained(R, S, T, z), z.call_state = "free",
         NEW a \in ir.actual, NEW x \in ir.formal, Passes(ir, a, x),
         x.v = z.v, z.dir = "bw" \/ Gets(ir, x, z.p), NEW ctx
  PROVE  NodeExplained(R, S, T, Node(z.dir, a.v, Below(a.p, z.p), z.label, "free", ctx))
<1> DEFINE to == Node(z.dir, a.v, Below(a.p, z.p), z.label, "free", ctx)
<1>0. ir \in ProgramType /\ z.p \in Path
  BY ProgramFacts DEF NodeType
<1>1. /\ to.dir = z.dir /\ to.v = a.v /\ to.p = Below(a.p, z.p) /\ to.label = z.label
      /\ to.call_state = "free"
  BY DEF Node
<1> HIDE DEF to
<1>2. CASE z.dir = "fw"
  <2>1. PICK s \in S, w \in PlaceType :
          s.label = z.label /\ At(R, Source(s.v, s.p), w, x.v, z.p) /\ Loose(w)
    BY <1>2 DEF NodeExplained, CameFrom
  <2>2. PICK y : At(R, Source(s.v, s.p), y, a.v, Below(a.p, z.p)) /\ Loose(y)
    BY <1>0, <1>2, <2>1, ReturnedLoose
  <2>3. y \in PlaceType
    BY <2>2 DEF At
  <2>4. CameFrom(R, S, to)
    BY <1>1, <2>1, <2>2, <2>3 DEF CameFrom
  <2> QED
    BY <1>1, <1>2, <2>4 DEF NodeExplained, to
<1>3. CASE z.dir = "bw"
  <2>1. GetsInto(R, T, z)
    BY <1>3 DEF NodeExplained
  <2>2. GetsInto(R, T, to)
    <3> SUFFICES ASSUME NEW o, NEW u, At(R, o, u, a.v, Below(a.p, z.p))
                 PROVE  \E w \in PlaceType : /\ At(R, o, w, w.v, w.q)
                                             /\ Tagged(to.label, w.v, w.q) \in T
      BY <1>1 DEF GetsInto
    <3>1. PICK y : At(R, o, y, x.v, z.p)
      BY <1>0, Called
    <3> QED
      BY <1>1, <2>1, <3>1 DEF GetsInto
  <2> QED
    BY <1>1, <1>3, <2>2 DEF NodeExplained, to
<1> QED
  BY <1>2, <1>3 DEF NodeType, Slice

\* A call edge from an actual of its call to a formal of its function.
LEMMA EdgePasses ==
  ASSUME TypeOK, NEW a \in ir.actual, NEW x \in ir.formal, NEW c \in CallEdge,
         a.insn = c.insn, x.f = c.f, x.n = a.n
  PROVE  Passes(ir, a, x)
<1>1. [insn |-> c.insn, f |-> c.f] \in ir.call
  BY ProgramFacts DEF CallEdge, InitialCallEdges, ProgramType
<1> QED
  BY <1>1 DEF Passes

\* The step of a slice adds one explained vertex.
LEMMA SliceExplains ==
  ASSUME QueryTypeOK, NEW R, NEW A, Closed(ir, R, A), AssignsCarry(R),
         \A z \in ReachableVertex : NodeExplained(R, TaintSourceVertex, LeakingSinkVertex, z),
         SliceNext
  PROVE  \E to : /\ ReachableVertex' = ReachableVertex \cup {to}
                 /\ NodeExplained(R, TaintSourceVertex, LeakingSinkVertex, to)
<1> DEFINE S == TaintSourceVertex
           T == LeakingSinkVertex
<1>0. query # NoQuery /\ TypeOK /\ ReachableVertex \subseteq NodeType
  BY DEF SliceNext, QueryTypeOK
<1>1. CASE StartSlice
  <2>1. \E dir \in Slice :
          \E x \in IF dir = "fw" THEN TaintSourceVertex ELSE LeakingSinkVertex :
            LET to == Node(dir, x.v, x.p, x.label, MatchStart, AnyContext)
            IN  /\ EnabledSlice(query, dir)
                /\ to \notin ReachableVertex
                /\ ReachableVertex' = ReachableVertex \cup {to}
                /\ sliceVertex' = [sliceVertex EXCEPT ![dir] = @ \cup {Vtx(x.v, x.p)}]
                /\ UNCHANGED <<indexVars, query, ReachableEdge>>
    BY <1>1, Zenon DEF StartSlice
  <2>2. PICK dir \in Slice : \E x \in IF dir = "fw" THEN S ELSE T :
          ReachableVertex' = ReachableVertex
                               \cup {Node(dir, x.v, x.p, x.label, MatchStart, AnyContext)}
    BY <2>1, Zenon
  <2>3. PICK x \in IF dir = "fw" THEN S ELSE T :
          ReachableVertex' = ReachableVertex
                               \cup {Node(dir, x.v, x.p, x.label, MatchStart, AnyContext)}
    BY <2>2, Zenon
  <2>4. x \in TagType
    BY <1>0, EndpointsTyped
  <2> HIDE DEF S, T
  <2>5. NodeExplained(R, S, T, Node(dir, x.v, x.p, x.label, MatchStart, AnyContext))
    BY <2>4, StartExplained
  <2> QED
    BY <2>3, <2>5 DEF S, T
<1>2. CASE SliceMove
  <2>1. PICK z \in ReachableVertex : \E a \in SliceAssign(z.dir) : \E ctx \in {z.ctx, a.ctx} :
          /\ a.v2 = z.v /\ a.p2 = z.p
          /\ Extend(z, a.v1, a.p1, z.call_state, ctx, a.insn, "move")
    BY <1>2 DEF SliceMove
  <2>2. PICK a \in SliceAssign(z.dir) : \E ctx \in {z.ctx, a.ctx} :
          /\ a.v2 = z.v /\ a.p2 = z.p
          /\ Extend(z, a.v1, a.p1, z.call_state, ctx, a.insn, "move")
    BY <2>1
  <2>3. PICK ctx \in {z.ctx, a.ctx} :
          /\ a.v2 = z.v /\ a.p2 = z.p
          /\ Extend(z, a.v1, a.p1, z.call_state, ctx, a.insn, "move")
    BY <2>2
  <2>4. z \in NodeType /\ NodeExplained(R, S, T, z)
    BY <1>0
  <2>5. ReachableVertex' = ReachableVertex
                             \cup {Node(z.dir, a.v1, a.p1, z.label, z.call_state, ctx)}
    BY <2>3 DEF Extend
  <2> HIDE DEF S, T
  <2>6. NodeExplained(R, S, T, Node(z.dir, a.v1, a.p1, z.label, z.call_state, ctx))
    BY <1>0, <2>3, <2>4, MoveExplained
  <2> QED
    BY <2>5, <2>6 DEF S, T
<1>3. CASE SliceToFormal
  <2>1. PICK z \in ReachableVertex, a \in ir.actual, c \in CallEdge, x \in ir.formal :
          /\ a.v = z.v /\ a.insn = c.insn /\ x.f = c.f /\ x.n = a.n
          /\ z.dir = "fw" \/ isByRef(ir, x.f, x.n)
          /\ MatchComputedPrefix(isComputedAccessPath, z.p, a.p, After(a.p, z.p))
          /\ CrossCall(z, x.v, After(a.p, z.p), c, "actual-to-formal")
    BY <1>3 DEF SliceToFormal
  <2> DEFINE p == After(a.p, z.p)
  <2>2. z \in NodeType /\ NodeExplained(R, S, T, z) /\ a.p \in Path /\ p \in Path
    BY <1>0, PartTyped
  <2>3. z.p = Below(a.p, p)
    <3>1. MatchComputedPrefix(isComputedAccessPath, z.p, a.p, p)
      BY <2>1
    <3>2. isComputedAccessPath \subseteq Path
      BY <1>0 DEF TypeOK
    <3> HIDE DEF p
    <3>3. z.p = a.p \o p
      BY <2>2, <3>1, <3>2, MatchIsExact
    <3> QED
      BY <3>3 DEF Below
  <2>4. PICK ctx : ReachableVertex' = ReachableVertex
                     \cup {Node(z.dir, x.v, p, z.label, "restricted", ctx)}
    <3>1. "actual-to-formal" # "formal-to-actual"
      OBVIOUS
    <3>2. PICK ctx, next : /\ MatchNext(z.call_state, "actual-to-formal", next)
                           /\ Extend(z, x.v, p, next, ctx, c.insn, "actual-to-formal")
      BY <2>1 DEF CrossCall
    <3>3. next = "restricted"
      BY <3>1, <3>2 DEF MatchNext
    <3> QED
      BY <3>2, <3>3 DEF Extend
  <2>5. Passes(ir, a, x)
    BY <1>0, <2>1, EdgePasses
  <2>6. z.dir = "fw" \/ Gets(ir, x, p)
    BY <2>1 DEF Gets, GetsOut, isByRef
  <2> HIDE DEF S, T, p
  <2>7. NodeExplained(R, S, T, Node(z.dir, x.v, p, z.label, "restricted", ctx))
    BY <1>0, <2>1, <2>2, <2>3, <2>5, <2>6, FormalExplained
  <2> QED
    BY <2>4, <2>7 DEF S, T
<1>4. CASE SliceToActual
  <2>1. PICK z \in ReachableVertex, a \in ir.actual, c \in CallEdge, x \in ir.formal :
          /\ x.v = z.v /\ x.f = c.f /\ a.insn = c.insn /\ a.n = x.n
          /\ z.dir = "bw" \/ isByRef(ir, x.f, x.n)
          /\ CrossCall(z, a.v, a.p \o z.p, c, "formal-to-actual")
    BY <1>4 DEF SliceToActual
  <2>2. z \in NodeType /\ NodeExplained(R, S, T, z)
    BY <1>0
  <2>3. PICK ctx : /\ z.call_state = "free"
                   /\ ReachableVertex' = ReachableVertex
                        \cup {Node(z.dir, a.v, Below(a.p, z.p), z.label, "free", ctx)}
    <3>1. "formal-to-actual" # "actual-to-formal"
      OBVIOUS
    <3>2. PICK ctx, next : /\ MatchNext(z.call_state, "formal-to-actual", next)
                           /\ Extend(z, a.v, a.p \o z.p, next, ctx, c.insn, "formal-to-actual")
      BY <2>1 DEF CrossCall
    <3>3. next = "free" /\ z.call_state = "free"
      BY <3>1, <3>2 DEF MatchNext
    <3> QED
      BY <3>2, <3>3 DEF Extend, Below
  <2>4. Passes(ir, a, x)
    BY <1>0, <2>1, EdgePasses
  <2>5. z.dir = "bw" \/ Gets(ir, x, z.p)
    BY <2>1 DEF Gets, GetsOut, isByRef
  <2> HIDE DEF S, T
  <2>6. NodeExplained(R, S, T, Node(z.dir, a.v, Below(a.p, z.p), z.label, "free", ctx))
    BY <1>0, <2>1, <2>2, <2>3, <2>4, <2>5, ActualExplained
  <2> QED
    BY <2>3, <2>6 DEF S, T
<1> QED
  BY <1>1, <1>2, <1>3, <1>4 DEF SliceNext

\* The inductive invariant: every closed relation of values explains the slices.
SliceExplained ==
  /\ query = NoQuery => ReachableVertex = {}
  /\ ~Wildcards => \A R, A : Closed(ir, R, A) =>
       \A z \in ReachableVertex : NodeExplained(R, TaintSourceVertex, LeakingSinkVertex, z)

\* There are no slices to explain at first.
LEMMA SliceExplainedInit == QueryInit => SliceExplained
  BY DEF QueryInit, SliceExplained

\* The invariant is inductive: every step of a slice adds an explained vertex.
LEMMA SliceExplainedStep ==
  ASSUME QueryTypeOK, IndexExplained, SliceExplained, [QueryNext]_queryVars
  PROVE  SliceExplained'
<1> DEFINE S == TaintSourceVertex
           T == LeakingSinkVertex
           All(R) == \A z \in ReachableVertex : NodeExplained(R, S, T, z)
<1>1. CASE SliceNext
  <2>1. /\ query # NoQuery /\ UNCHANGED <<indexVars, query>>
        /\ \A d \in Slice : sliceVertex[d] \subseteq sliceVertex'[d]
    BY <1>1, SliceTyped
  <2>2. UNCHANGED <<ir, query, VirtualAssign>>
    BY <2>1 DEF indexVars, vars
  <2>3. S \subseteq S' /\ T \subseteq T'
    BY <2>1, <2>2, EndpointsGrow
  <2>4. ASSUME ~Wildcards, NEW R, NEW A, Closed(ir, R, A), NEW z \in ReachableVertex'
        PROVE  NodeExplained(R, S', T', z)
    <3>1. AssignsCarry(R) /\ All(R)
      BY <2>4 DEF IndexExplained, Explained, SliceExplained
    <3>2. PICK to : ReachableVertex' = ReachableVertex \cup {to} /\ NodeExplained(R, S, T, to)
      BY <1>1, <2>4, <3>1, SliceExplains
    <3>3. NodeExplained(R, S, T, z)
      BY <2>4, <3>1, <3>2
    <3> HIDE DEF S, T
    <3> QED
      BY <2>3, <3>3, NodeStays
  <2> QED
    BY <2>1, <2>2, <2>4 DEF SliceExplained, Wildcards
<1>2. CASE StartQuery
  <2>1. ReachableVertex' = {}
    BY <1>2 DEF StartQuery, SliceExplained
  <2> QED
    BY <2>1 DEF SliceExplained
<1>3. CASE [Next]_vars /\ UNCHANGED sliceVars
  <2>1. UNCHANGED <<query, sliceVertex, ReachableVertex>> /\ UNCHANGED ir
    BY <1>3, OwnRules DEF sliceVars
  <2>2. VirtualAssign \subseteq VirtualAssign'
    BY <1>3, AssignsGrow
  <2>3. query # NoQuery => S \subseteq S' /\ T \subseteq T'
    BY <2>1, <2>2, EndpointsGrow
  <2>4. ASSUME ~Wildcards, NEW R, NEW A, Closed(ir, R, A), NEW z \in ReachableVertex
        PROVE  NodeExplained(R, S', T', z)
    <3>1. NodeExplained(R, S, T, z) /\ query # NoQuery
      BY <2>4 DEF SliceExplained
    <3> HIDE DEF S, T
    <3> QED
      BY <2>3, <3>1, NodeStays
  <2> QED
    BY <2>1, <2>4 DEF SliceExplained, Wildcards
<1> QED
  BY <1>1, <1>2, <1>3 DEF QueryNext, queryVars, indexVars

\* It holds along with the invariant of the index.
LEMMA SlicesHold == QuerySpec => []SliceExplained
<1>1. QueryTypeOK /\ IndexExplained /\ SliceExplained /\ [QueryNext]_queryVars => SliceExplained'
  BY SliceExplainedStep
<1> QED
  BY <1>1, SliceExplainedInit, QuerySteps, QueryTyped, ExplainedHolds, PTL DEF QuerySpec

\* Without wildcards every vertex a slice reaches is one that values get to
\* from a source, or from which they get to a sink.
THEOREM SlicesAreExplained == QuerySpec => []SliceExplained
  BY SlicesHold

\* An explained vertex of the forward slice is tainted in the reference.
LEMMA ExplainedTaint ==
  ASSUME Unbounded, QueryTypeOK, SliceExplained
  PROVE  TaintSound
<1> SUFFICES ASSUME ~Wildcards, NEW z \in ReachableVertex, z.dir = "fw"
             PROVE  Tagged(z.label, z.v, z.p) \in
                      UNION {{Tagged(s.label, w.v, w.q) :
                                w \in Flows(Followed, Aliases(ir, Followed, FALSE), FALSE, s.v, s.p)} :
                               s \in TaintSourceVertex}
  BY DEF TaintSound
<1> DEFINE R == Flowing(ir)
           F(s) == Flows(Followed, Aliases(ir, Followed, FALSE), FALSE, s.v, s.p)
           G(s) == {Tagged(s.label, w.v, w.q) : w \in F(s)}
<1>1. Closed(ir, R, AllAliases(ir))
  BY FlowingClosed DEF QueryTypeOK
<1> HIDE DEF R
<1>2. CameFrom(R, TaintSourceVertex, z)
  BY <1>1 DEF SliceExplained, NodeExplained
<1>3. PICK s \in TaintSourceVertex, w \in PlaceType :
        s.label = z.label /\ At(R, Source(s.v, s.p), w, z.v, z.p)
  BY <1>2 DEF CameFrom
<1>4. w \in F(s) /\ w.v = z.v /\ w.q = z.p
  BY <1>3, FlowingTo DEF R, Flows, Source
<1> HIDE DEF F
<1>5. Tagged(z.label, z.v, z.p) \in G(s)
  BY <1>3, <1>4
<1> HIDE DEF G
<1>6. Tagged(z.label, z.v, z.p) \in UNION {G(t) : t \in TaintSourceVertex}
  BY <1>5
<1> QED
  BY <1>6 DEF G, F

\* An explained vertex of the backward slice gets to a sink in the reference.
LEMMA ExplainedBackward ==
  ASSUME Unbounded, QueryTypeOK, SliceExplained
  PROVE  BackwardSound
<1> SUFFICES ASSUME ~Wildcards, NEW z \in ReachableVertex, z.dir = "bw"
             PROVE  \E w \in Flows(Followed, Aliases(ir, Followed, FALSE), FALSE, z.v, z.p) :
                      Tagged(z.label, w.v, w.q) \in LeakingSinkVertex
  BY DEF BackwardSound
<1> DEFINE R == Flowing(ir)
           o == Source(z.v, z.p)
<1>1. Closed(ir, R, AllAliases(ir))
  BY FlowingClosed DEF QueryTypeOK
<1> HIDE DEF R
<1>2. GetsInto(R, LeakingSinkVertex, z)
  BY <1>1 DEF SliceExplained, NodeExplained
<1>3. z.v \in Var /\ z.p \in Path
  BY DEF QueryTypeOK, NodeType
<1>4. At(R, o, o, z.v, z.p) /\ Loose(o)
  BY <1>1, <1>3, SourcePlace
<1>5. PICK w \in PlaceType : At(R, o, w, w.v, w.q) /\ Tagged(z.label, w.v, w.q) \in LeakingSinkVertex
  BY <1>2, <1>4 DEF GetsInto
<1>6. w \in Flows(Followed, Aliases(ir, Followed, FALSE), FALSE, z.v, z.p)
  BY <1>5, FlowingTo DEF R, Flows, Source
<1> QED
  BY <1>5, <1>6

\* The forward slice taints only where data of a source with that label gets.
THEOREM TaintIsSound ==
  ASSUME Followed = Path, Depths = Nat, Rounds = Nat, AliasRounds = Nat
  PROVE  QuerySpec => []TaintSound
<1>1. QueryTypeOK /\ SliceExplained => TaintSound
  BY ExplainedTaint DEF Unbounded
<1> QED
  BY <1>1, QueryTyped, SlicesHold, PTL

\* The backward slice reports only what gets to a sink with that label.
THEOREM BackwardIsSound ==
  ASSUME Followed = Path, Depths = Nat, Rounds = Nat, AliasRounds = Nat
  PROVE  QuerySpec => []BackwardSound
<1>1. QueryTypeOK /\ SliceExplained => BackwardSound
  BY ExplainedBackward DEF Unbounded
<1> QED
  BY <1>1, QueryTyped, SlicesHold, PTL

=============================================================================
