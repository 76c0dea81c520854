---------------------------- MODULE AccessPaths ----------------------------
(***************************************************************************)
(* Field access paths and the operators the index and the slices match    *)
(* them with (graph/access_path.dl, the oecat macro of macros.dl and the  *)
(* two access-path functors of functors.cpp).                             *)
(*                                                                         *)
(* The program writes a path as the text ".f.g"; here it is the sequence   *)
(* <<f, g>>, the empty text is <<>> and text concatenation is \o.  Every   *)
(* split the code makes is at a dot, so no field is ever cut in two.       *)
(* The operators take the set C of computed paths (isComputedAccessPath),  *)
(* which grows while the index runs.                                       *)
(***************************************************************************)
EXTENDS Naturals, Sequences

CONSTANTS
  Field,       \* the fields of the analysed program
  STAR,        \* the wildcard component, ".*"
  NamePrefix   \* <<f, g>>: the text of f is a proper prefix of the text of g

ASSUME FieldAssumption ==
  /\ STAR \notin Field
  /\ NamePrefix \subseteq Field \X Field

Path  == Seq(Field \cup {STAR})
Empty == <<>>

HasStar(ap)       == \E i \in 1 .. Len(ap) : ap[i] = STAR
StarOnlyLast(ap)  == \A i \in 1 .. Len(ap) : ap[i] = STAR => i = Len(ap)
AccessPathSize(ap) == Len(ap)

\* The functor searches the text of each component in the whole path, so a
\* component also "repeats" where its text begins a longer field name.
AccessPathCycle(ap) ==
  \E i, j \in 1 .. Len(ap) :
    i # j /\ (ap[i] = ap[j] \/ <<ap[i], ap[j]>> \in NamePrefix)

\* What is left of ap when its first Len(pre) components are cut off.
After(pre, ap) == SubSeq(ap, Len(pre) + 1, Len(ap))

----------------------------------------------------------------------------
(* Splitting a computed path into a computed prefix and a suffix.          *)

ComputedAccessPathNonEmptySplit(C, ap, pre, suf) ==
  /\ ap \in C
  /\ pre \in C
  /\ pre # Empty
  /\ suf # Empty
  /\ ap = pre \o suf
  /\ ~HasStar(suf)

MatchComputedPrefix(C, ap, pre, suf) ==
  \/ ComputedAccessPathNonEmptySplit(C, ap, pre, suf)
  \/ pre = Empty /\ suf # Empty /\ ap = suf /\ ap \in C
  \/ suf = Empty /\ pre # Empty /\ ap = pre /\ ap \in C
  \/ pre = Empty /\ suf = Empty /\ ap = Empty /\ ap \in C

----------------------------------------------------------------------------
(* Translating a summary between formals into an assignment between        *)
(* actuals: `to` and `from` are the paths of the assignment, at and af the *)
(* paths of the actuals, st and sf the paths of the summary.               *)

OneEmptyCat(out, x, y) == (x = Empty /\ out = y) \/ (y = Empty /\ out = x)

ActualToFormalComputedPrefixCase0(to, at, st, from, af, sf) ==
  OneEmptyCat(from, af, sf) /\ OneEmptyCat(to, at, st)

\* The second disjunct also asks that `from` is the actual's own path.
ActualToFormalComputedPrefixCase1(C, to, at, st, from, af, sf) ==
  \/ /\ ComputedAccessPathNonEmptySplit(C, from, af, sf)
     /\ OneEmptyCat(to, at, st)
  \/ /\ ComputedAccessPathNonEmptySplit(C, to, at, st)
     /\ OneEmptyCat(from, af, sf)
     /\ from = af

ActualToFormalComputedPrefixCase2(C, to, at, st, from, af, sf) ==
  /\ ComputedAccessPathNonEmptySplit(C, to, at, st)
  /\ ComputedAccessPathNonEmptySplit(C, from, af, sf)

\* The three rules that use the cases have the same body otherwise.
ActualToFormal(C, to, at, st, from, af, sf) ==
  \/ ActualToFormalComputedPrefixCase0(to, at, st, from, af, sf)
  \/ ActualToFormalComputedPrefixCase1(C, to, at, st, from, af, sf)
  \/ ActualToFormalComputedPrefixCase2(C, to, at, st, from, af, sf)

----------------------------------------------------------------------------
(* Carrying a path over an assignment: one end of the assignment has path  *)
(* near, the other far, and the vertex at the near end is accessed at q.   *)
(* CarriesTo holds when field propagation then accesses the far end at r.  *)
(* The four disjuncts are cases B, D, F and H of graph/fieldprop.dl.       *)

CarriesToMutant(C, q, near, far, r) ==  \* without case D
  \/ near = Empty /\ far = Empty /\ r = q
  \/ near = Empty /\ ComputedAccessPathNonEmptySplit(C, r, far, q)
  \/ LET rest == After(near, q)
     IN  /\ ComputedAccessPathNonEmptySplit(C, q, near, rest)
         /\ ComputedAccessPathNonEmptySplit(C, r, far, rest)

CarriesTo(C, q, near, far, r) ==
  \/ near = Empty /\ far = Empty /\ r = q
  \/ far = Empty /\ ComputedAccessPathNonEmptySplit(C, q, near, r) /\ r \in C
  \/ near = Empty /\ ComputedAccessPathNonEmptySplit(C, r, far, q)
  \/ LET rest == After(near, q)
     IN  /\ ComputedAccessPathNonEmptySplit(C, q, near, rest)
         /\ ComputedAccessPathNonEmptySplit(C, r, far, rest)

\* The only r that CarriesTo can hold of.
Carried(q, near, far) == far \o After(near, q)

\* graph/fieldprop_ref.dl: the one rule the four cases stand for.
CarriesToRef(C, q, near, far, r) ==
  LET rest == After(near, q)
  IN  MatchComputedPrefix(C, q, near, rest) /\ MatchComputedPrefix(C, r, far, rest)

=============================================================================
