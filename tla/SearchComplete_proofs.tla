----------------------- MODULE SearchComplete_proofs -----------------------
(***************************************************************************)
(* What a call of startpaths finds is all there is to find, whatever the    *)
(* graph: a search meets every vertex that can be reached, at its distance; *)
(* the searches of a call leave no way out that the paths found do not      *)
(* block; and strategy "none" leaves out no path to a first goal.          *)
(***************************************************************************)
EXTENDS PathSearch_proofs

-----------------------------------------------------------------------------
(* What can be reached, in how many steps.                                 *)

\* The nodes of the graph, and those one edge further than X.
N == Cardinality(Node)
Spread(X, E) == X \cup {e[2] : e \in {e \in E : e[1] \in X}}

\* A graph has finitely many nodes.
LEMMA NodeCount == N \in Nat
BY NodeAssumption, FS_CardinalityType DEF N

\* Ball is the function that its recursive definition describes.
LEMMA BallSteps ==
  ASSUME NEW S \in SUBSET Node, NEW E \in SUBSET (Node \X Node)
  PROVE  /\ Ball(S, E) \in [0 .. N -> SUBSET Node]
         /\ Ball(S, E)[0] = S
         /\ \A k \in 1 .. N : Ball(S, E)[k] = Spread(Ball(S, E)[k - 1], E)
<1> DEFINE next == [q \in Nat \X SUBSET Node |-> Spread(q[2], E)]
<1>1. next \in [Nat \X SUBSET Node -> SUBSET Node]
  BY DEF Spread
<1>2. PICK f : Iterates(f, N, SUBSET Node, S, next)
  <2>1. StepOn(next, SUBSET Node)
    BY <1>1 DEF StepOn
  <2>2. S \in SUBSET Node
    OBVIOUS
  <2> HIDE DEF next
  <2> QED
    BY <2>1, <2>2, NodeCount, Iteration
<1>3. \A k \in 1 .. N : f[k] = Spread(f[k - 1], E)
  <2> TAKE k \in 1 .. N
  <2>1. k - 1 \in 0 .. N /\ k \in Nat
    BY NodeCount
  <2> QED
    BY <1>2, <2>1 DEF Iterates
<1> DEFINE Fix(ball) == ball = [k \in 0 .. N |-> IF k = 0 THEN S
                                 ELSE LET inner == ball[k - 1]
                                      IN  inner \cup {e[2] : e \in {e \in E : e[1] \in inner}}]
<1>4. Ball(S, E) = CHOOSE ball : Fix(ball)
  BY DEF Ball, N
<1>5. Fix(f)
  <2>1. \A k \in 0 .. N : f[k] = IF k = 0 THEN S
                                 ELSE LET inner == f[k - 1]
                                      IN  inner \cup {e[2] : e \in {e \in E : e[1] \in inner}}
    <3> TAKE k \in 0 .. N
    <3>1. CASE k = 0
      BY <1>2, <3>1 DEF Iterates
    <3>2. CASE k # 0
      BY <1>3, <3>2, NodeCount DEF Spread
    <3> QED
      BY <3>1, <3>2
  <2> QED
    BY <1>2, <2>1 DEF Iterates
<1> DEFINE b == Ball(S, E)
<1>6. Fix(b)
  <2> HIDE DEF Fix
  <2> QED
    BY <1>4, <1>5
<1>7. b = [k \in 0 .. N |-> IF k = 0 THEN S ELSE Spread(b[k - 1], E)]
  BY <1>6 DEF Spread
<1> HIDE DEF b
<1>8. b[0] = S /\ \A k \in 1 .. N : b[k] = Spread(b[k - 1], E)
  BY <1>7, NodeCount
<1> DEFINE T == {k \in 0 .. N : b[k] \subseteq Node}
<1>9. \A k \in 0 .. N : k \in T
  <2>1. 0 \in T
    BY <1>8, NodeCount
  <2>2. ASSUME NEW k \in 0 .. N - 1, k \in T PROVE k + 1 \in T
    <3>1. k + 1 \in 1 .. N /\ (k + 1) - 1 = k
      BY NodeCount
    <3>2. b[k + 1] = Spread(b[k], E)
      BY <1>8, <3>1
    <3> QED
      BY <2>2, <3>1, <3>2 DEF Spread
  <2> HIDE DEF T
  <2> QED
    BY <2>1, <2>2, NodeCount, BoundedInduction
<1> QED
  BY <1>7, <1>8, <1>9 DEF b
\* More edges reach further.
LEMMA BallGrows ==
  ASSUME NEW S \in SUBSET Node, NEW E \in SUBSET (Node \X Node), NEW j \in 0 .. N
  PROVE  \A i \in 0 .. j : Ball(S, E)[i] \subseteq Ball(S, E)[j]
<1> DEFINE b == Ball(S, E)
           T == {k \in 0 .. N : \A i \in 0 .. k : b[i] \subseteq b[k]}
<1>1. b \in [0 .. N -> SUBSET Node] /\ \A k \in 1 .. N : b[k] = Spread(b[k - 1], E)
  BY BallSteps
<1> HIDE DEF b
<1>2. 0 \in T
  BY NodeCount
<1>3. ASSUME NEW k \in 0 .. N - 1, k \in T PROVE k + 1 \in T
  <2>1. k + 1 \in 1 .. N /\ (k + 1) - 1 = k /\ k + 1 \in 0 .. N
    BY NodeCount
  <2>2. b[k] \subseteq b[k + 1]
    <3>1. b[k + 1] = Spread(b[k], E)
      BY <1>1, <2>1
    <3> QED
      BY <3>1 DEF Spread
  <2>3. ASSUME NEW i \in 0 .. k + 1 PROVE b[i] \subseteq b[k + 1]
    <3>1. i = k + 1 \/ i \in 0 .. k
      BY <2>1
    <3> QED
      BY <1>3, <2>2, <3>1
  <2> QED
    BY <2>1, <2>3
<1> HIDE DEF T
<1>4. \A k \in 0 .. N : k \in T
  BY <1>2, <1>3, NodeCount, BoundedInduction
<1> QED
  BY <1>4 DEF T, b

\* As many steps as there are vertices reach everything: a step that adds
\* nothing is the last one.
LEMMA ReachableClosed ==
  ASSUME NEW S \in SUBSET Node, NEW E \in SUBSET (Node \X Node)
  PROVE  /\ S \subseteq ReachableFrom(S, E) /\ ReachableFrom(S, E) \subseteq Node
         /\ \A e \in E : e[1] \in ReachableFrom(S, E) => e[2] \in ReachableFrom(S, E)
<1> DEFINE b == Ball(S, E)
           T == {k \in 0 .. N : Spread(b[k], E) = b[k] \/ Cardinality(b[k]) >= k}
<1>1. /\ b \in [0 .. N -> SUBSET Node] /\ b[0] = S
      /\ \A k \in 1 .. N : b[k] = Spread(b[k - 1], E)
  BY BallSteps
<1>2. ReachableFrom(S, E) = b[N]
  BY DEF ReachableFrom, N
<1>3. S \subseteq b[N]
  BY <1>1, NodeCount, BallGrows
<1> HIDE DEF b
<1>4. \A k \in 0 .. N : IsFiniteSet(b[k]) /\ Cardinality(b[k]) \in Nat
  <2> TAKE k \in 0 .. N
  <2>1. b[k] \in SUBSET Node
    BY <1>1
  <2> QED
    BY <2>1, NodeAssumption, FS_Subset, FS_CardinalityType
<1>5. 0 \in T
  BY <1>4, NodeCount
<1>6. ASSUME NEW k \in 0 .. N - 1, k \in T PROVE k + 1 \in T
  <2>1. k + 1 \in 1 .. N /\ (k + 1) - 1 = k /\ k + 1 \in 0 .. N /\ k \in 0 .. N
    BY NodeCount
  <2>2. b[k + 1] = Spread(b[k], E)
    BY <1>1, <2>1
  <2>3. CASE Spread(b[k], E) = b[k]
    BY <2>1, <2>2, <2>3
  <2>4. CASE Spread(b[k], E) # b[k] /\ Cardinality(b[k]) >= k
    <3>1. b[k] \in SUBSET b[k + 1] /\ b[k] # b[k + 1]
      BY <2>2, <2>4 DEF Spread
    <3>2. Cardinality(b[k]) <= Cardinality(b[k + 1]) /\ Cardinality(b[k]) # Cardinality(b[k + 1])
      BY <1>4, <2>1, <3>1, FS_Subset
    <3> QED
      BY <1>4, <2>1, <2>4, <3>2
  <2> QED
    BY <1>6, <2>3, <2>4
<1>7. N \in T
  <2> HIDE DEF T
  <2> QED
    BY <1>5, <1>6, NodeCount, BoundedInduction
<1>8. CASE Spread(b[N], E) = b[N]
  BY <1>1, <1>2, <1>3, <1>8, NodeCount DEF Spread
<1>9. CASE Cardinality(b[N]) >= N
  <2>1. b[N] \in SUBSET Node
    BY <1>1, NodeCount
  <2>2. b[N] = Node
    <3>1. Cardinality(b[N]) <= N /\ (N = Cardinality(b[N]) => Node = b[N])
      BY <2>1, NodeAssumption, FS_Subset DEF N
    <3> QED
      BY <1>4, <1>9, <3>1, NodeCount
  <2> QED
    BY <1>2, <1>3, <2>2
<1> QED
  BY <1>7, <1>8, <1>9

\* What can be reached is in every set that the edges do not leave.
LEMMA ReachableLeast ==
  ASSUME NEW S \in SUBSET Node, NEW E \in SUBSET (Node \X Node), NEW X,
         S \subseteq X, \A e \in E : e[1] \in X => e[2] \in X
  PROVE  ReachableFrom(S, E) \subseteq X
<1> DEFINE b == Ball(S, E)
           T == {k \in 0 .. N : b[k] \subseteq X}
<1>1. b[0] = S /\ \A k \in 1 .. N : b[k] = Spread(b[k - 1], E)
  BY BallSteps
<1> HIDE DEF b
<1>2. 0 \in T
  BY <1>1, NodeCount
<1>3. ASSUME NEW k \in 0 .. N - 1, k \in T PROVE k + 1 \in T
  <2>1. k + 1 \in 1 .. N /\ (k + 1) - 1 = k /\ k + 1 \in 0 .. N
    BY NodeCount
  <2>2. b[k + 1] = Spread(b[k], E)
    BY <1>1, <2>1
  <2> QED
    BY <1>3, <2>1, <2>2 DEF Spread
<1> HIDE DEF T
<1>4. N \in T
  BY <1>2, <1>3, NodeCount, BoundedInduction
<1> QED
  BY <1>4 DEF T, b, ReachableFrom, N

\* Fewer edges and fewer starts reach less.
LEMMA ReachableMonotone ==
  ASSUME NEW S \in SUBSET Node, NEW E \in SUBSET (Node \X Node), NEW D \in SUBSET E
  PROVE  ReachableFrom(S, D) \subseteq ReachableFrom(S, E)
<1>1. /\ S \subseteq ReachableFrom(S, E)
      /\ \A e \in D : e[1] \in ReachableFrom(S, E) => e[2] \in ReachableFrom(S, E)
  BY ReachableClosed
<1>2. D \in SUBSET (Node \X Node)
  OBVIOUS
<1> QED
  BY <1>1, <1>2, ReachableLeast

\* Distance is the least number of edges.
LEMMA DistanceFacts ==
  ASSUME NEW u \in Node, NEW v, NEW E \in SUBSET (Node \X Node), v \in ReachableFrom({u}, E)
  PROVE  /\ Distance(u, v, E) \in 0 .. N
         /\ v \in Ball({u}, E)[Distance(u, v, E)]
         /\ \A k \in 0 .. N : v \in Ball({u}, E)[k] => Distance(u, v, E) <= k
<1> DEFINE b == Ball({u}, E)
           T == {k \in 0 .. N : v \in b[k]}
           Least(k) == v \in b[k] /\ (k > 0 => v \notin b[k - 1])
           d == Distance(u, v, E)
<1>1. T # {}
  <2>1. v \in b[N]
    BY DEF ReachableFrom, N
  <2>2. N \in T
    BY <2>1, NodeCount
  <2> QED
    BY <2>2
<1>2. PICK k \in T : \A m \in T : k <= m
  <2>1. T \in SUBSET Nat
    OBVIOUS
  <2> HIDE DEF T
  <2> QED
    BY <1>1, <2>1, NatMin
<1>3. k \in 0 .. N /\ Least(k)
  <2>1. k > 0 => k - 1 \in 0 .. N /\ ~(k <= k - 1)
    BY NodeCount
  <2> QED
    BY <1>2, <2>1
<1>4. d \in 0 .. N /\ Least(d)
  <2>1. d = CHOOSE n \in 0 .. N : Least(n)
    BY DEF Distance, N
  <2> HIDE DEF d, Least
  <2> QED
    BY <1>3, <2>1
<1> HIDE DEF d
<1>5. ASSUME NEW m \in 0 .. N, v \in b[m] PROVE d <= m
  <2> SUFFICES ASSUME m < d PROVE FALSE
    BY <1>4, NodeCount
  <2>1. d > 0 /\ d - 1 \in 0 .. N /\ m \in 0 .. d - 1
    BY <1>4, NodeCount
  <2>2. {u} \in SUBSET Node
    OBVIOUS
  <2>3. b[m] \subseteq b[d - 1]
    BY <2>1, <2>2, BallGrows
  <2> QED
    BY <1>4, <1>5, <2>1, <2>3
<1> QED
  BY <1>4, <1>5 DEF d

-----------------------------------------------------------------------------
(* Routes go wherever a vertex can be reached.                             *)

\* A route has no more vertices than there are.
LEMMA RouteFits ==
  ASSUME NEW E, NEW s, NEW p, Route(p, E, s)
  PROVE  Len(p) \in 1 .. N /\ \A i \in 1 .. Len(p) : p[i] \in Node
<1>1. /\ p \in Seq(Node) /\ Len(p) \in Nat /\ Len(p) > 0
      /\ \A i, j \in 1 .. Len(p) : p[i] = p[j] => i = j
  BY DEF Route, IsPath, IsSimple
<1>2. p \in [1 .. Len(p) -> Node]
  BY <1>1
<1>3. p \in Injection(1 .. Len(p), Node)
  BY <1>1, <1>2 DEF Injection, IsInjective
<1>4. Cardinality(1 .. Len(p)) <= N
  BY <1>3, NodeAssumption, FS_Injection DEF N
<1>5. Cardinality(1 .. Len(p)) = Len(p)
  BY <1>1, FS_Interval
<1> QED
  BY <1>1, <1>2, <1>4, <1>5, NodeCount

\* The vertices of a route up to one of them are a route.
LEMMA RoutePrefix ==
  ASSUME NEW E, NEW s, NEW p, Route(p, E, s), NEW n \in 1 .. Len(p)
  PROVE  LET q == SubSeq(p, 1, n)
         IN  /\ Route(q, E, s) /\ Last(q) = p[n]
             /\ Len(q) = n /\ \A i \in 1 .. n : q[i] = p[i]
<1> DEFINE q == SubSeq(p, 1, n)
<1>1. /\ p \in Seq(Node) /\ Len(p) \in Nat /\ p[1] = s
      /\ \A i \in 1 .. Len(p) - 1 : <<p[i], p[i + 1]>> \in E
      /\ \A i, j \in 1 .. Len(p) : p[i] = p[j] => i = j
  BY DEF Route, IsPath, IsSimple
<1>2. q \in Seq(Node) /\ Len(q) = n /\ \A i \in 1 .. n : q[i] = p[i]
  BY <1>1
<1> HIDE DEF q
<1>3. IsPath(q, E)
  <2>1. ASSUME NEW i \in 1 .. n - 1 PROVE <<q[i], q[i + 1]>> \in E
    <3>1. i \in 1 .. n /\ i + 1 \in 1 .. n /\ i \in 1 .. Len(p) - 1
      BY <1>1
    <3> QED
      BY <1>1, <1>2, <3>1
  <2> QED
    BY <1>2, <2>1 DEF IsPath
<1>4. IsSimple(q)
  <2>1. \A i \in 1 .. n : i \in 1 .. Len(p)
    BY <1>1
  <2> QED
    BY <1>1, <1>2, <2>1 DEF IsSimple
<1>5. q[1] = s /\ Last(q) = p[n]
  BY <1>1, <1>2 DEF Last
<1> QED
  BY <1>2, <1>3, <1>4, <1>5 DEF Route, q

\* A vertex that can be reached is at the end of a route.
LEMMA ReachableRoute ==
  ASSUME NEW s \in Node, NEW E \in SUBSET (Node \X Node), NEW v \in ReachableFrom({s}, E)
  PROVE  \E p : Route(p, E, s) /\ Last(p) = v
<1> DEFINE X == {u \in Node : \E p : Route(p, E, s) /\ Last(p) = u}
<1>1. {s} \subseteq X
  BY UnitRoute
<1>2. ASSUME NEW e \in E, e[1] \in X PROVE e[2] \in X
  <2>1. e[1] \in Node /\ e[2] \in Node /\ e = <<e[1], e[2]>>
    OBVIOUS
  <2>2. PICK p : Route(p, E, s) /\ Last(p) = e[1]
    BY <1>2
  <2>3. CASE e[2] \notin ToSet(p)
    <3>1. <<Last(p), e[2]>> \in E
      BY <2>1, <2>2
    <3>2. Route(Append(p, e[2]), E, s) /\ Last(Append(p, e[2])) = e[2]
      BY <2>1, <2>2, <2>3, <3>1, AppendRoute
    <3> QED
      BY <2>1, <3>2
  <2>4. CASE e[2] \in ToSet(p)
    <3>1. PICK n \in 1 .. Len(p) : e[2] = p[n]
      <4>1. DOMAIN p = 1 .. Len(p)
        BY <2>2 DEF Route
      <4> QED
        BY <2>4, <4>1 DEF ToSet
    <3>2. Route(SubSeq(p, 1, n), E, s) /\ Last(SubSeq(p, 1, n)) = e[2]
      BY <2>2, <3>1, RoutePrefix
    <3> QED
      BY <2>1, <3>2
  <2> QED
    BY <2>3, <2>4
<1>3. {s} \in SUBSET Node
  OBVIOUS
<1> HIDE DEF X
<1>4. ReachableFrom({s}, E) \subseteq X
  BY <1>1, <1>2, <1>3, ReachableLeast
<1> QED
  BY <1>4 DEF X

\* The vertices of a route can be reached in as many steps as it takes to them.
LEMMA RouteReaches ==
  ASSUME NEW s \in Node, NEW E \in SUBSET (Node \X Node), NEW p, Route(p, E, s)
  PROVE  /\ Last(p) \in ReachableFrom({s}, E)
         /\ Distance(s, Last(p), E) \in Nat /\ Distance(s, Last(p), E) <= Len(p) - 1
<1> DEFINE b == Ball({s}, E)
           L == Len(p) - 1
           T == {k \in 0 .. L : p[k + 1] \in b[k]}
<1>1. {s} \in SUBSET Node
  OBVIOUS
<1>2. b[0] = {s} /\ \A k \in 1 .. N : b[k] = Spread(b[k - 1], E)
  BY <1>1, BallSteps
<1> HIDE DEF b
<1>3. /\ Len(p) \in 1 .. N /\ L \in Nat /\ L = Len(p) - 1 /\ p[1] = s
      /\ \A i \in 1 .. Len(p) - 1 : <<p[i], p[i + 1]>> \in E
  <2>1. Len(p) \in 1 .. N
    BY RouteFits
  <2> QED
    BY <2>1, NodeCount DEF Route, IsPath
<1> HIDE DEF L
<1>4. 0 \in T
  BY <1>2, <1>3
<1>5. ASSUME NEW k \in 0 .. L - 1, k \in T PROVE k + 1 \in T
  <2>1. k + 1 \in 1 .. N /\ (k + 1) - 1 = k /\ k + 1 \in 1 .. Len(p) - 1
    BY <1>3, NodeCount
  <2>2. b[k + 1] = Spread(b[k], E)
    BY <1>2, <2>1
  <2>3. <<p[k + 1], p[k + 2]>> \in E /\ p[k + 1] \in b[k] /\ (k + 1) + 1 = k + 2
    BY <1>3, <1>5, <2>1
  <2> DEFINE e == <<p[k + 1], p[k + 2]>>
  <2>4. p[k + 2] \in Spread(b[k], E)
    <3>1. e \in E /\ e[1] \in b[k] /\ e[2] = p[k + 2]
      BY <2>3
    <3> HIDE DEF e
    <3> QED
      BY <3>1 DEF Spread
  <2>5. k + 1 \in 0 .. L /\ p[(k + 1) + 1] \in b[k + 1]
    BY <1>3, <2>1, <2>2, <2>3, <2>4
  <2> QED
    BY <2>5
<1> HIDE DEF T
<1>6. L \in T
  <2>1. L \in Nat
    BY <1>3
  <2>2. \A k \in 0 .. L : k \in T
    BY <1>4, <1>5, <2>1, BoundedInduction
  <2> QED
    BY <2>1, <2>2
<1>7. Last(p) \in b[L] /\ L \in 0 .. N /\ N \in 0 .. N /\ L \in 0 .. N
  BY <1>3, <1>6, NodeCount DEF T, Last
<1>8. Last(p) \in ReachableFrom({s}, E)
  <2>1. b[L] \subseteq b[N]
    BY <1>1, <1>7, BallGrows DEF b
  <2> QED
    BY <1>7, <2>1 DEF ReachableFrom, N, b
<1>9. Distance(s, Last(p), E) \in 0 .. N /\ Distance(s, Last(p), E) <= L
  BY <1>7, <1>8, DistanceFacts DEF b
<1> QED
  BY <1>8, <1>9, NodeCount DEF L

-----------------------------------------------------------------------------
(* A search meets whatever it can reach, nearest first.                    *)

Done(v) == state[v] = "processed" /\ v \notin avoids

\* What the search that runs has not missed: what is discovered is listed, the
\* successors of what is done are met, the goals among it are found, and the list
\* is in the order of the distances, which differ by one at most.
CompleteInv ==
  /\ start \notin avoids => Met(start) /\ trail[start] = <<start>>
  /\ \A v \in Node : state[v] = "discovered" => \E i \in DOMAIN worklist : worklist[i] = v
  /\ \A u, v \in Node : Done(u) /\ <<u, v>> \in graph /\ v \notin avoids =>
       Met(v) /\ Len(trail[v]) <= Len(trail[u]) + 1
  /\ \A u \in goals : Done(u) => trail[u] \in found
  /\ \A i, j \in DOMAIN worklist :
       /\ i <= j => Len(trail[worklist[i]]) <= Len(trail[worklist[j]])
       /\ Len(trail[worklist[j]]) <= Len(trail[worklist[i]]) + 1
  /\ \A u \in Node, i \in DOMAIN worklist : Done(u) => Len(trail[u]) <= Len(trail[worklist[i]])

\* Where the elements of a concatenation are.
LEMMA ConcatAt ==
  ASSUME NEW S, NEW s \in Seq(S), NEW t \in Seq(S)
  PROVE  /\ DOMAIN (s \o t) = 1 .. Len(s) + Len(t)
         /\ \A k \in 1 .. Len(s) : (s \o t)[k] = s[k]
         /\ \A k \in 1 .. Len(t) : (s \o t)[Len(s) + k] = t[k]
<1>1. ASSUME NEW k \in 1 .. Len(t) PROVE (s \o t)[Len(s) + k] = t[k]
  <2>1. Len(s) + k \in 1 .. Len(s) + Len(t) /\ Len(s) + k > Len(s) /\ (Len(s) + k) - Len(s) = k
    OBVIOUS
  <2> QED
    BY <2>1
<1> QED
  BY <1>1

\* A search that starts has done nothing and lists its start.
LEMMA CompletePerform == SearchInv /\ Perform => CompleteInv'
<1> SUFFICES ASSUME SearchInv, Perform PROVE CompleteInv'
  OBVIOUS
<1>1. /\ worklist' = (IF start \in avoids' THEN <<>> ELSE <<start>>)
      /\ state' = [v \in Node |-> IF v \in avoids' THEN "processed"
                                  ELSE IF v = start THEN "discovered" ELSE "undiscovered"]
      /\ trail' = [v \in Node |-> <<v>>]
      /\ UNCHANGED <<graph, start, goals>>
      /\ start \in Node /\ goals \subseteq Node
  BY DEF Perform, inputVars, callVars, SearchInv, SearchTypes
<1>2. \A v \in Node : ~Done(v)'
  BY <1>1 DEF Done
<1>3. \A i \in DOMAIN worklist' : i = 1 /\ worklist'[i] = start
  BY <1>1
<1>4. start' \notin avoids' => Met(start)' /\ trail'[start'] = <<start'>>
  BY <1>1 DEF Met
<1>5. \A v \in Node : state'[v] = "discovered" => \E i \in DOMAIN worklist' : worklist'[i] = v
  <2> SUFFICES ASSUME NEW v \in Node, state'[v] = "discovered"
               PROVE  1 \in DOMAIN worklist' /\ worklist'[1] = v
    OBVIOUS
  <2>1. start \notin avoids' /\ v = start
    BY <1>1
  <2> QED
    BY <1>1, <2>1
<1>6. \A i, j \in DOMAIN worklist' :
        /\ Len(trail'[worklist'[i]]) <= Len(trail'[worklist'[j]])
        /\ Len(trail'[worklist'[j]]) <= Len(trail'[worklist'[i]]) + 1
  <2>1. trail'[start] = <<start>>
    BY <1>1
  <2> QED
    BY <1>3, <2>1
<1>7. \A u \in goals' : ~Done(u)'
  BY <1>1, <1>2
<1> QED
  BY <1>2, <1>4, <1>5, <1>6, <1>7 DEF CompleteInv

\* A visit leaves out none of the vertex's successors and lists the new ones last.
LEMMA CompleteVisit == SearchInv /\ CompleteInv /\ Visit => CompleteInv'
<1> SUFFICES ASSUME SearchInv, CompleteInv, Visit PROVE CompleteInv'
  OBVIOUS
<1> DEFINE u == Head(worklist)
           new == {v \in successors(u) : state[v] = "undiscovered"}
           d == [v \in Node |-> Len(trail[v])]
           dd == [v \in Node |-> Len(trail'[v])]
<1>1. /\ u \in Node /\ state[u] = "discovered" /\ Met(u)
      /\ new \subseteq Node
      /\ \A v \in new : <<u, v>> \in graph /\ state[v] = "undiscovered" /\ v \notin avoids
      /\ found' = IF u \in goals THEN found \cup {trail[u]} ELSE found
      /\ \E order \in Seq(new) :
           /\ worklist' = Tail(worklist) \o order
           /\ \A v \in new : \E i \in DOMAIN order : order[i] = v
      /\ state' = [v \in Node |-> IF v = u THEN "processed"
                                  ELSE IF v \in new THEN "discovered" ELSE state[v]]
      /\ trail' = [v \in Node |-> IF v \in new THEN Append(trail[u], v) ELSE trail[v]]
      /\ UNCHANGED <<graph, strategy, start, goals, avoids, searches, stack, paths, pc>>
  BY VisitFacts
<1>2. /\ u = Head(worklist) /\ worklist # <<>> /\ pc = "bfs" /\ SearchTypes /\ BfsInv
      /\ start \in Node /\ goals \subseteq Node
  BY DEF Visit, SearchInv, SearchTypes
<1>3. \A v \in Node : <<u, v>> \in graph /\ state[v] = "undiscovered" => v \in new
  BY DEF successors
<1> HIDE DEF u, new
<1>4. PICK order \in Seq(new) :
        /\ worklist' = Tail(worklist) \o order
        /\ \A v \in new : \E i \in DOMAIN order : order[i] = v
  BY <1>1
<1>5. worklist \in Seq(Node) /\ order \in Seq(Node)
  BY <1>1, <1>2, <1>4 DEF SearchTypes
<1>6. /\ \A i \in DOMAIN worklist' :
           \/ i + 1 \in DOMAIN worklist /\ worklist'[i] = worklist[i + 1] /\ i < Len(worklist)
           \/ worklist'[i] \in new /\ i >= Len(worklist)
      /\ \A k \in DOMAIN worklist : k # 1 => k - 1 \in DOMAIN worklist' /\ worklist'[k - 1] = worklist[k]
      /\ \A k \in DOMAIN order :
           k + Len(worklist) - 1 \in DOMAIN worklist' /\ worklist'[k + Len(worklist) - 1] = order[k]
      /\ DOMAIN worklist' \subseteq Nat
  <2> DEFINE m == Len(worklist)
             rest == Tail(worklist)
  <2>1. /\ m \in Nat \ {0} /\ DOMAIN worklist = 1 .. m
        /\ rest \in Seq(Node) /\ Len(rest) = m - 1
        /\ \A k \in 1 .. m - 1 : rest[k] = worklist[k + 1]
    BY <1>2, <1>5
  <2>2. /\ Len(order) \in Nat /\ DOMAIN order = 1 .. Len(order)
        /\ \A k \in 1 .. Len(order) : order[k] \in new
    BY <1>4
  <2>3. worklist' = rest \o order
    BY <1>4
  <2> HIDE DEF m, rest
  <2>4. /\ DOMAIN worklist' = 1 .. m - 1 + Len(order)
        /\ \A k \in 1 .. m - 1 : worklist'[k] = rest[k]
        /\ \A k \in 1 .. Len(order) : worklist'[m - 1 + k] = order[k]
    <3>1. rest \in Seq(Node) /\ order \in Seq(Node)
      BY <1>5, <2>1
    <3>2. /\ DOMAIN (rest \o order) = 1 .. Len(rest) + Len(order)
          /\ \A k \in 1 .. Len(rest) : (rest \o order)[k] = rest[k]
          /\ \A k \in 1 .. Len(order) : (rest \o order)[Len(rest) + k] = order[k]
      BY <3>1, ConcatAt
    <3> QED
      BY <2>1, <2>3, <3>2
  <2>5. ASSUME NEW i \in DOMAIN worklist'
        PROVE  \/ i + 1 \in DOMAIN worklist /\ worklist'[i] = worklist[i + 1] /\ i < m
               \/ worklist'[i] \in new /\ i >= m
    <3>1. CASE i < m
      BY <2>1, <2>2, <2>4, <3>1
    <3>2. CASE i >= m
      <4>1. i - (m - 1) \in 1 .. Len(order) /\ i = m - 1 + (i - (m - 1))
        BY <2>1, <2>2, <2>4, <3>2
      <4> QED
        BY <2>2, <2>4, <3>2, <4>1
    <3> QED
      BY <2>1, <2>2, <2>4, <3>1, <3>2
  <2>6. ASSUME NEW k \in DOMAIN worklist, k # 1
        PROVE  k - 1 \in DOMAIN worklist' /\ worklist'[k - 1] = worklist[k]
    <3>1. k - 1 \in 1 .. m - 1 /\ (k - 1) + 1 = k
      BY <2>1, <2>6
    <3> QED
      BY <2>1, <2>2, <2>4, <3>1
  <2>7. ASSUME NEW k \in DOMAIN order
        PROVE  k + m - 1 \in DOMAIN worklist' /\ worklist'[k + m - 1] = order[k]
    <3>1. k + m - 1 = m - 1 + k
      BY <2>1, <2>2
    <3> QED
      BY <2>1, <2>2, <2>4, <3>1
  <2>8. DOMAIN worklist' \subseteq Nat
    BY <2>1, <2>2, <2>4
  <2> QED
    BY <2>5, <2>6, <2>7, <2>8 DEF m
<1>7. /\ 1 \in DOMAIN worklist /\ u = worklist[1]
      /\ \A k \in DOMAIN worklist : worklist[k] \in Node /\ state[worklist[k]] = "discovered" /\ k \in Nat
      /\ \A j, k \in DOMAIN worklist : worklist[j] = worklist[k] => j = k
  BY <1>2, <1>5 DEF BfsInv
<1>8. /\ \A v \in Node : d[v] \in Nat
      /\ \A v \in Node \ new : trail'[v] = trail[v] /\ dd[v] = d[v]
      /\ \A v \in new : dd[v] = d[u] + 1
  <2>1. \A v \in Node : trail[v] \in Seq(Node)
    BY <1>2 DEF SearchTypes
  <2>2. \A v \in new : Len(Append(trail[u], v)) = Len(trail[u]) + 1
    BY <1>1, <2>1
  <2> QED
    BY <1>1, <2>1, <2>2
<1>8a. /\ \A v \in Node : d[v] = Len(trail[v]) /\ dd[v] = Len(trail'[v])
  OBVIOUS
<1> HIDE DEF d, dd
<1>8b. u \in Node /\ d[u] \in Nat
  BY <1>1, <1>8
<1>9. /\ \A v \in Node : Done(v)' <=> Done(v) \/ v = u
      /\ \A v \in Node : Met(v)' <=> Met(v) \/ v \in new
      /\ \A v \in Node : Met(v) \/ Done(v) => v \notin new
  BY <1>1 DEF Done, Met
<1>10. /\ \A i, j \in DOMAIN worklist : i <= j => d[worklist[i]] <= d[worklist[j]]
       /\ \A i \in DOMAIN worklist : d[u] <= d[worklist[i]] /\ d[worklist[i]] <= d[u] + 1
       /\ \A v \in Node : Done(v) => d[v] <= d[u]
  <2>1. ASSUME NEW i \in DOMAIN worklist, NEW j \in DOMAIN worklist
        PROVE  /\ i <= j => d[worklist[i]] <= d[worklist[j]]
               /\ d[worklist[j]] <= d[worklist[i]] + 1
    BY <1>7, <1>8a DEF CompleteInv
  <2>2. ASSUME NEW v \in Node, Done(v) PROVE d[v] <= d[u]
    BY <1>1, <1>7, <1>8a, <2>2 DEF CompleteInv
  <2>3. \A i \in DOMAIN worklist : 1 <= i
    BY <1>5
  <2> QED
    BY <1>7, <2>1, <2>2, <2>3
<1>11. \A i \in DOMAIN worklist' :
         /\ worklist'[i] \in Node
         /\ d[u] <= dd[worklist'[i]] /\ dd[worklist'[i]] <= d[u] + 1
         /\ dd[worklist'[i]] \in Nat
  <2> TAKE i \in DOMAIN worklist'
  <2>1. CASE i + 1 \in DOMAIN worklist /\ worklist'[i] = worklist[i + 1]
    <3>1. worklist'[i] \in Node \ new
      BY <1>1, <1>7, <2>1
    <3> QED
      BY <1>8, <1>10, <2>1, <3>1
  <2>2. CASE worklist'[i] \in new
    <3>1. worklist'[i] \in Node /\ dd[worklist'[i]] = d[u] + 1
      BY <1>1, <1>8, <2>2
    <3> QED
      BY <1>8b, <3>1
  <2> QED
    BY <1>6, <2>1, <2>2
<1>12. start' \notin avoids' => Met(start)' /\ trail'[start'] = <<start'>>
  BY <1>1, <1>2, <1>8, <1>9 DEF CompleteInv, Met
<1>13. ASSUME NEW v \in Node, state'[v] = "discovered"
       PROVE  \E i \in DOMAIN worklist' : worklist'[i] = v
  <2>1. CASE v \in new
    <3>1. PICK k \in DOMAIN order : order[k] = v
      BY <1>4, <2>1
    <3> QED
      BY <1>6, <3>1
  <2>2. CASE v \notin new
    <3>1. v # u /\ state[v] = "discovered"
      BY <1>1, <1>13, <2>2
    <3>2. PICK k \in DOMAIN worklist : worklist[k] = v
      BY <3>1 DEF CompleteInv
    <3> QED
      BY <1>6, <1>7, <3>1, <3>2
  <2> QED
    BY <2>1, <2>2
<1>14. ASSUME NEW w \in Node, NEW v \in Node, Done(w)', <<w, v>> \in graph', v \notin avoids'
       PROVE  Met(v)' /\ dd[v] <= dd[w] + 1
  <2>1. CASE w = u
    <3>1. dd[w] = d[u]
      BY <1>1, <1>8, <1>9, <2>1
    <3>2. CASE state[v] = "undiscovered"
      <4>1. v \in new
        BY <1>1, <1>3, <1>14, <2>1, <3>2
      <4> QED
        BY <1>1, <1>8, <1>9, <3>1, <4>1
    <3>3. CASE state[v] # "undiscovered"
      <4>1. Met(v) /\ v \notin new
        BY <1>1, <1>14, <3>3 DEF Met
      <4>2. d[v] <= d[u] + 1
        <5>1. state[v] = "discovered" \/ Done(v)
          BY <1>1, <1>2, <1>14, <3>3 DEF Done, SearchTypes, VertexState
        <5>2. CASE state[v] = "discovered"
          <6>1. PICK k \in DOMAIN worklist : worklist[k] = v
            BY <5>2 DEF CompleteInv
          <6> QED
            BY <1>10, <6>1
        <5>3. CASE Done(v)
          BY <1>1, <1>8, <1>10, <5>3
        <5> QED
          BY <5>1, <5>2, <5>3
      <4> QED
        BY <1>8, <1>9, <3>1, <4>1, <4>2
    <3> QED
      BY <3>2, <3>3
  <2>2. CASE w # u
    <3>1. Done(w) /\ w \notin new
      BY <1>9, <1>14, <2>2
    <3>2. Met(v) /\ d[v] <= d[w] + 1 /\ v \notin new
      BY <1>1, <1>8a, <1>9, <1>14, <3>1 DEF CompleteInv
    <3> QED
      BY <1>8, <1>9, <3>1, <3>2
  <2> QED
    BY <2>1, <2>2
<1>15. ASSUME NEW w \in goals', Done(w)' PROVE trail'[w] \in found'
  <2>1. w \in Node /\ w \in goals /\ (Done(w) \/ w = u)
    BY <1>1, <1>2, <1>9, <1>15
  <2>2. trail'[w] = trail[w]
    BY <1>1, <1>8, <1>9, <2>1
  <2>3. trail[w] \in found'
    BY <1>1, <2>1 DEF CompleteInv
  <2> QED
    BY <2>2, <2>3
<1>16. ASSUME NEW i \in DOMAIN worklist', NEW j \in DOMAIN worklist'
       PROVE  /\ i <= j => dd[worklist'[i]] <= dd[worklist'[j]]
              /\ dd[worklist'[j]] <= dd[worklist'[i]] + 1
  <2>1. dd[worklist'[j]] <= dd[worklist'[i]] + 1
    <3> QED
      BY <1>8b, <1>11
  <2>2. ASSUME i <= j PROVE dd[worklist'[i]] <= dd[worklist'[j]]
    <3>1. CASE worklist'[j] \in new
      BY <1>8, <1>11, <3>1
    <3>2. CASE j + 1 \in DOMAIN worklist /\ worklist'[j] = worklist[j + 1] /\ j < Len(worklist)
      <4>1. i + 1 \in DOMAIN worklist /\ worklist'[i] = worklist[i + 1] /\ i + 1 <= j + 1
        BY <1>5, <1>6, <2>2, <3>2
      <4>2. worklist'[i] \in Node \ new /\ worklist'[j] \in Node \ new
        BY <1>1, <1>7, <3>2, <4>1
      <4>3. d[worklist[i + 1]] <= d[worklist[j + 1]]
        BY <1>10, <3>2, <4>1
      <4> QED
        BY <1>8, <3>2, <4>1, <4>2, <4>3
    <3> QED
      BY <1>6, <3>1, <3>2
  <2> QED
    BY <2>1, <2>2
<1>17. ASSUME NEW w \in Node, NEW i \in DOMAIN worklist', Done(w)'
       PROVE  dd[w] <= dd[worklist'[i]]
  <2>1. dd[w] = d[w] /\ d[w] <= d[u]
    BY <1>1, <1>8, <1>9, <1>10, <1>17
  <2> QED
    BY <1>8b, <1>11, <2>1, <1>8
<1> QED
  <2>1. ASSUME NEW w \in Node, NEW v \in Node, Done(w)', <<w, v>> \in graph', v \notin avoids'
        PROVE  Met(v)' /\ Len(trail'[v]) <= Len(trail'[w]) + 1
    BY <1>8a, <1>14, <2>1
  <2>2. ASSUME NEW i \in DOMAIN worklist', NEW j \in DOMAIN worklist'
        PROVE  /\ i <= j => Len(trail'[worklist'[i]]) <= Len(trail'[worklist'[j]])
               /\ Len(trail'[worklist'[j]]) <= Len(trail'[worklist'[i]]) + 1
    BY <1>8a, <1>11, <1>16
  <2>3. ASSUME NEW w \in Node, NEW i \in DOMAIN worklist', Done(w)'
        PROVE  Len(trail'[w]) <= Len(trail'[worklist'[i]])
    BY <1>8a, <1>11, <1>17, <2>3
  <2> QED
    BY <1>12, <1>13, <1>15, <2>1, <2>2, <2>3 DEF CompleteInv

-----------------------------------------------------------------------------
(* What a search that ended has found.                                     *)

\* A search that has ended has met everything it could reach.
LEMMA SearchExhausts ==
  ASSUME SearchInv, CompleteInv, pc = "bfs", worklist = <<>>, start \notin avoids
  PROVE  \A v \in ReachableFrom({start}, Without(avoids, graph)) :
           v \in Node /\ Done(v) /\ (v \in goals => trail[v] \in found)
<1> DEFINE X == {v \in Node : Met(v)}
           E == Without(avoids, graph)
<1>1. start \in Node /\ graph \subseteq Node \X Node /\ state \in [Node -> VertexState]
  BY DEF SearchInv, SearchTypes
<1>2. \A v \in X : Done(v)
  <2> TAKE v \in X
  <2>1. state[v] # "discovered"
    BY DEF CompleteInv
  <2> QED
    BY <1>1, <2>1 DEF Met, Done, VertexState
<1>3. {start} \subseteq X
  BY <1>1 DEF CompleteInv
<1>4. ASSUME NEW e \in E, e[1] \in X PROVE e[2] \in X
  <2>1. e \in graph /\ e = <<e[1], e[2]>> /\ e[1] \in Node /\ e[2] \in Node /\ e[2] \notin avoids
    BY <1>1 DEF Without
  <2>2. Done(e[1])
    BY <1>2, <1>4
  <2> QED
    BY <2>1, <2>2 DEF CompleteInv
<1>5. E \in SUBSET (Node \X Node) /\ {start} \in SUBSET Node
  BY <1>1 DEF Without
<1> HIDE DEF X, E
<1>6. ReachableFrom({start}, E) \subseteq X
  BY <1>3, <1>4, <1>5, ReachableLeast
<1>7. ASSUME NEW v \in ReachableFrom({start}, E)
      PROVE  v \in Node /\ Done(v) /\ (v \in goals => trail[v] \in found)
  <2>1. v \in Node /\ Done(v)
    BY <1>2, <1>6 DEF X
  <2> QED
    BY <2>1 DEF CompleteInv
<1> QED
  BY <1>7 DEF E

\* If it avoided nothing, the trails are of the least length.
LEMMA SearchShortest ==
  ASSUME SearchInv, CompleteInv, pc = "bfs", worklist = <<>>, avoids = {},
         NEW t \in ReachableFrom({start}, graph), t \in goals
  PROVE  /\ trail[t] \in found
         /\ trail[t][1] = start /\ Last(trail[t]) = t
         /\ Len(trail[t]) = Distance(start, t, graph) + 1
<1> DEFINE b == Ball({start}, graph)
           X(k) == \A v \in b[k] : Met(v) /\ Len(trail[v]) <= k + 1
           T == {k \in 0 .. N : X(k)}
<1>1. /\ start \in Node /\ graph \in SUBSET (Node \X Node) /\ {start} \in SUBSET Node
      /\ \A v \in Node : Len(trail[v]) \in Nat
  BY DEF SearchInv, SearchTypes
<1>2. /\ b \in [0 .. N -> SUBSET Node] /\ b[0] = {start}
      /\ \A k \in 1 .. N : b[k] = Spread(b[k - 1], graph)
  BY <1>1, BallSteps
<1>3. graph = Without({}, graph)
  BY DEF Without
<1>4. \A v \in ReachableFrom({start}, graph) : v \in Node /\ Done(v) /\ (v \in goals => trail[v] \in found)
  BY <1>3, SearchExhausts
<1>5. \A j \in 0 .. N : b[j] \subseteq ReachableFrom({start}, graph)
  <2> TAKE j \in 0 .. N
  <2>1. N \in 0 .. N /\ j \in 0 .. N
    BY NodeCount
  <2>2. b[j] \subseteq b[N]
    BY <1>1, <2>1, BallGrows
  <2> QED
    BY <2>2 DEF ReachableFrom, N
<1> HIDE DEF b
<1>6. 0 \in T
  <2>1. Met(start) /\ Len(trail[start]) <= 0 + 1
    <3>1. Met(start) /\ trail[start] = <<start>>
      BY DEF CompleteInv
    <3> QED
      BY <3>1
  <2> QED
    BY <1>2, <2>1, NodeCount
<1>7. ASSUME NEW k \in 0 .. N - 1, k \in T PROVE k + 1 \in T
  <2>1. k + 1 \in 1 .. N /\ (k + 1) - 1 = k /\ k + 1 \in 0 .. N /\ k \in 0 .. N /\ k \in Nat
    BY NodeCount
  <2>2. b[k + 1] = Spread(b[k], graph)
    BY <1>2, <2>1
  <2>3. ASSUME NEW v \in b[k + 1] PROVE Met(v) /\ Len(trail[v]) <= (k + 1) + 1
    <3>1. CASE v \in b[k]
      <4>1. v \in Node /\ Met(v) /\ Len(trail[v]) <= k + 1
        BY <1>2, <1>7, <2>1, <3>1
      <4> QED
        BY <1>1, <2>1, <4>1
    <3>2. CASE v \notin b[k]
      <4>1. PICK e \in graph : e[1] \in b[k] /\ v = e[2]
        BY <2>2, <3>2 DEF Spread
      <4>2. e = <<e[1], v>> /\ e[1] \in Node /\ v \in Node
        BY <1>1, <4>1
      <4>3. Done(e[1]) /\ Len(trail[e[1]]) <= k + 1
        BY <1>4, <1>5, <1>7, <2>1, <4>1
      <4>4. Met(v) /\ Len(trail[v]) <= Len(trail[e[1]]) + 1
        BY <4>1, <4>2, <4>3 DEF CompleteInv
      <4> QED
        BY <1>1, <2>1, <4>2, <4>3, <4>4
    <3> QED
      BY <3>1, <3>2
  <2> QED
    BY <2>1, <2>3
<1> DEFINE d == Distance(start, t, graph)
<1>8. d \in 0 .. N /\ t \in b[d]
  BY <1>1, DistanceFacts DEF b
<1> HIDE DEF d
<1>9. Met(t) /\ Len(trail[t]) <= d + 1
  <2> HIDE DEF T
  <2>1. \A k \in 0 .. N : k \in T
    BY <1>6, <1>7, NodeCount, BoundedInduction
  <2> QED
    BY <1>8, <2>1 DEF T
<1>10. t \in Node /\ trail[t] \in found
  BY <1>4
<1>11. Route(trail[t], graph, start) /\ Last(trail[t]) = t
  BY <1>9, <1>10 DEF SearchInv, BfsInv
<1>12. d \in Nat /\ d <= Len(trail[t]) - 1
  BY <1>1, <1>11, RouteReaches DEF d
<1>13. Len(trail[t]) = d + 1
  BY <1>1, <1>9, <1>10, <1>12
<1> QED
  BY <1>10, <1>11, <1>13 DEF Route, d

----------------------------------------------------------------------------
(* A call of startpaths finds shortest paths.                              *)

HasShortest(t) == \E p \in paths : p[1] = start /\ Last(p) = t /\ Len(p) = Distance(start, t, graph) + 1

AllReached == \A t \in goals : t \in ReachableFrom({start}, graph) => HasShortest(t)

\* The first search avoids nothing, so that every goal that can be reached has a
\* shortest path once it has ended.
ShortestInv ==
  strategy # "none" =>
    /\ pc = "pick" => (searches = <<{}>> /\ paths = {}) \/ AllReached
    /\ pc = "bfs" => avoids = {} \/ AllReached
    /\ pc = "return" => AllReached

\* Paths that join those that were found take none away.
LEMMA AllReachedStays ==
  ASSUME AllReached, UNCHANGED <<graph, start, goals>>, paths \subseteq paths'
  PROVE  AllReached'
BY DEF AllReached, HasShortest

\* A step keeps this invariant.
LEMMA ShortestInvStep ==
  SearchInv /\ AvoidInv /\ (pc = "bfs" => CompleteInv) /\ ShortestInv /\ SearchStep => ShortestInv'
<1> SUFFICES ASSUME SearchInv, AvoidInv, pc = "bfs" => CompleteInv, ShortestInv, SearchStep,
                    strategy' # "none"
             PROVE  ShortestInv'
  BY DEF ShortestInv
<1>1. UNCHANGED <<graph, start, goals, strategy>> /\ strategy # "none"
  BY DEF SearchStep, Perform, Visit, EndSearch, Walk, Return, inputVars, callVars
<1>2. CASE Perform
  <2>1. /\ pc = "pick" /\ pc' = "bfs" /\ avoids' = Last(searches) /\ paths' = paths
    BY <1>2 DEF Perform
  <2>2. CASE searches = <<{}>>
    BY <2>1, <2>2 DEF ShortestInv, Last
  <2>3. CASE AllReached
    BY <1>1, <2>1, <2>3, AllReachedStays DEF ShortestInv
  <2> QED
    BY <1>1, <2>1, <2>2, <2>3 DEF ShortestInv
<1>3. CASE Visit
  <2>1. pc = "bfs" /\ pc' = "bfs" /\ avoids' = avoids /\ paths' = paths
    BY <1>3 DEF Visit
  <2> QED
    BY <1>1, <2>1, AllReachedStays DEF ShortestInv
<1>4. CASE EndSearch
  <2>1. pc = "bfs" /\ worklist = <<>> /\ pc' = "pick" /\ paths' = paths \cup found
    BY <1>4 DEF EndSearch
  <2>2. CASE avoids = {}
    <3>1. ASSUME NEW t \in goals, t \in ReachableFrom({start}, graph) PROVE HasShortest(t)'
      <4>1. /\ trail[t] \in paths'
            /\ trail[t][1] = start /\ Last(trail[t]) = t
            /\ Len(trail[t]) = Distance(start, t, graph) + 1
        BY <2>1, <2>2, <3>1, SearchShortest
      <4> QED
        BY <1>1, <4>1 DEF HasShortest
    <3>2. AllReached'
      BY <1>1, <3>1 DEF AllReached
    <3> QED
      BY <2>1, <3>2 DEF ShortestInv
  <2>3. CASE AllReached
    BY <1>1, <2>1, <2>3, AllReachedStays DEF ShortestInv
  <2> QED
    BY <1>1, <2>1, <2>2, <2>3 DEF ShortestInv
<1>5. CASE Walk
  BY <1>1, <1>5 DEF Walk, AvoidInv
<1>6. CASE Return
  <2>1. pc = "pick" /\ searches = <<>> /\ pc' = "return" /\ paths' = paths
    BY <1>1, <1>6 DEF Return, AvoidInv
  <2>2. AllReached
    BY <1>1, <2>1 DEF ShortestInv
  <2> QED
    BY <1>1, <2>1, <2>2, AllReachedStays DEF ShortestInv
<1> QED
  BY <1>2, <1>3, <1>4, <1>5, <1>6 DEF SearchStep

----------------------------------------------------------------------------
(* When a call returns, nothing is left to find.                           *)

Seconds(P)      == {p[2] : p \in P}
Penultimates(P) == {p[Len(p) - 1] : p \in P}

\* No goal can be reached without the vertices of S.
NoWay(S) == start \in S \/ ReachableFrom({start}, Without(S, graph)) \cap goals = {}

\* A search that avoids vertices of S only is to come or runs, or there is no way.
Pending(S) ==
  \/ \E i \in DOMAIN searches : searches[i] \subseteq S
  \/ pc = "bfs" /\ avoids \subseteq S
  \/ NoWay(S)

\* There always is a search that avoids no more than these vertices, as long as
\* there is a way without them.
LeftInv ==
  strategy # "none" =>
    /\ pc = "return" => searches = <<>>
    /\ pc \in {"pick", "bfs", "return"} /\ (\A p \in paths : Len(p) > 1) =>
         /\ strategy \in {"front", "both"} => Pending(Seconds(paths))
         /\ strategy \in {"back", "both"} => Pending(Penultimates(paths))

\* With more to avoid there is no way either.
LEMMA NoWayGrows ==
  ASSUME SearchInv, pc # "idle", NEW S, NEW S2, S \subseteq S2, NoWay(S)
  PROVE  NoWay(S2)
<1> DEFINE E == Without(S, graph)
           D == Without(S2, graph)
<1>1. /\ {start} \in SUBSET Node /\ E \in SUBSET (Node \X Node) /\ D \in SUBSET E
  BY DEF SearchInv, SearchTypes, Without
<1> HIDE DEF D, E
<1>2. ReachableFrom({start}, D) \subseteq ReachableFrom({start}, E)
  BY <1>1, ReachableMonotone
<1> QED
  BY <1>2 DEF NoWay, D, E

\* NoWay is about these variables only.
LEMMA NoWayStays ==
  ASSUME UNCHANGED <<graph, start, goals>>, NEW S, NoWay(S)
  PROVE  NoWay(S)'
BY DEF NoWay, Without

\* One set or two.
LEMMA ShortConcat ==
  ASSUME NEW S, NEW a \in S, NEW b \in S
  PROVE  /\ <<a>> \o <<>> = <<a>> /\ <<>> \o <<b>> = <<b>>
         /\ <<a>> \o <<b>> \in Seq(S) /\ DOMAIN (<<a>> \o <<b>>) = 1 .. 2
         /\ (<<a>> \o <<b>>)[1] = a /\ (<<a>> \o <<b>>)[2] = b
<1>1. <<a>> \o <<>> = <<a>> /\ <<>> \o <<b>> = <<b>>
  OBVIOUS
<1>2. /\ <<a>> \in Seq(S) /\ <<b>> \in Seq(S) /\ Len(<<a>>) = 1 /\ Len(<<b>>) = 1
      /\ <<a>>[1] = a /\ <<b>>[1] = b
  OBVIOUS
<1> DEFINE s == <<a>>
           t == <<b>>
<1> HIDE DEF s, t
<1>3. s \in Seq(S) /\ t \in Seq(S) /\ Len(s) = 1 /\ Len(t) = 1 /\ s[1] = a /\ t[1] = b
  BY <1>2 DEF s, t
<1>4. s \o t \in Seq(S) /\ DOMAIN (s \o t) = 1 .. 2 /\ (s \o t)[1] = a /\ (s \o t)[2] = b
  BY <1>3, ConcatAt
<1> QED
  BY <1>1, <1>4 DEF s, t

\* The second and the second-to-last vertices of the paths found so far.
LEMMA SpawnedAvoid ==
  ASSUME pc = "bfs", SearchInv, EndSearch, found # {}, \A p \in found : Len(p) > 1,
         NEW S, avoids \subseteq S,
         \/ strategy \in {"front", "both"} /\ Seconds(found) \subseteq S
         \/ strategy \in {"back", "both"} /\ Penultimates(found) \subseteq S
  PROVE  \E i \in DOMAIN searches' : searches'[i] \subseteq S
<1>1. searches \in Seq(SUBSET Node) /\ \A p \in found : Len(p) \in Nat
  BY DEF SearchInv, SearchTypes, BfsInv, Route
<1>2. searches' = searches \o Respawn
  BY <1>1 DEF EndSearch
<1> DEFINE a == avoids \cup SecondNodes
           b == avoids \cup PenultimateNodes
<1>3. Respawn = (IF strategy \in {"front", "both"} THEN <<a>> ELSE <<>>)
                  \o (IF strategy \in {"back", "both"} THEN <<b>> ELSE <<>>)
  BY DEF Respawn
<1>4. \/ strategy \in {"front", "both"} /\ a \subseteq S
      \/ strategy \in {"back", "both"} /\ b \subseteq S
  BY DEF SecondNodes, PenultimateNodes, Seconds, Penultimates
<1> HIDE DEF a, b
<1> DEFINE U == {a, b}
<1>5. Respawn \in Seq(U) /\ \E k \in DOMAIN Respawn : Respawn[k] \subseteq S
  <2>1. a \in U /\ b \in U
    OBVIOUS
  <2> HIDE DEF U
  <2>2. /\ <<a>> \o <<>> = <<a>> /\ <<>> \o <<b>> = <<b>>
        /\ <<a>> \o <<b>> \in Seq(U) /\ DOMAIN (<<a>> \o <<b>>) = 1 .. 2
        /\ (<<a>> \o <<b>>)[1] = a /\ (<<a>> \o <<b>>)[2] = b
    BY <2>1, ShortConcat
  <2>3. <<a>> \in Seq(U) /\ <<b>> \in Seq(U)
    BY <2>1
  <2>4. CASE strategy = "both"
    <3>1. Respawn = <<a>> \o <<b>>
      BY <1>3, <2>4
    <3>2. 1 \in 1 .. 2 /\ 2 \in 1 .. 2
      OBVIOUS
    <3> QED
      BY <1>4, <2>2, <3>1, <3>2
  <2>5. CASE strategy = "front"
    <3>1. Respawn = <<a>> /\ a \subseteq S
      BY <1>3, <1>4, <2>2, <2>5
    <3> QED
      BY <2>3, <3>1
  <2>6. CASE strategy = "back"
    <3>1. Respawn = <<b>> /\ b \subseteq S
      BY <1>3, <1>4, <2>2, <2>6
    <3> QED
      BY <2>3, <3>1
  <2> QED
    BY <1>4, <2>4, <2>5, <2>6
<1>6. PICK k \in DOMAIN Respawn : Respawn[k] \subseteq S
  BY <1>5
<1> DEFINE V == (SUBSET Node) \cup U
<1>7. searches \in Seq(V) /\ Respawn \in Seq(V)
  <2> HIDE DEF U
  <2> QED
    BY <1>1, <1>5
<1> HIDE DEF U, V
<1>8. /\ DOMAIN (searches \o Respawn) = 1 .. Len(searches) + Len(Respawn)
      /\ \A i \in 1 .. Len(Respawn) : (searches \o Respawn)[Len(searches) + i] = Respawn[i]
  BY <1>7, ConcatAt
<1>9. k \in 1 .. Len(Respawn) /\ Len(searches) \in Nat /\ Len(Respawn) \in Nat
  BY <1>7
<1>10. Len(searches) + k \in DOMAIN searches'
  BY <1>2, <1>8, <1>9
<1> QED
  BY <1>2, <1>6, <1>8, <1>9, <1>10

\* A search that finds nothing leaves no way.
LEMMA NothingFound ==
  ASSUME SearchInv, CompleteInv, pc = "bfs", worklist = <<>>, found = {}
  PROVE  NoWay(avoids)
BY SearchExhausts DEF NoWay

\* A step keeps what is pending, for vertices of the paths found.
LEMMA PendingStep ==
  ASSUME SearchInv, AvoidInv, pc = "bfs" => CompleteInv, SearchStep, strategy # "none",
         pc \in {"pick", "bfs"},
         NEW S, NEW S2, S \subseteq S2, Pending(S),
         pc = "bfs" /\ worklist = <<>> /\ found # {} =>
           /\ \A p \in found : Len(p) > 1
           /\ \/ strategy \in {"front", "both"} /\ Seconds(found) \subseteq S2
              \/ strategy \in {"back", "both"} /\ Penultimates(found) \subseteq S2
  PROVE  Pending(S2)'
<1>1. UNCHANGED <<graph, start, goals, strategy>> /\ searches \in Seq(SUBSET Node)
  BY DEF SearchStep, Perform, Visit, EndSearch, Walk, Return, inputVars, callVars, SearchInv, SearchTypes
<1>2. CASE NoWay(S)
  <2>1. NoWay(S2)
    BY <1>2, NoWayGrows
  <2> QED
    BY <1>1, <2>1, NoWayStays DEF Pending
<1>3. CASE \E i \in DOMAIN searches : searches[i] \subseteq S
  <2>1. PICK i \in DOMAIN searches : searches[i] \subseteq S2
    BY <1>3
  <2>2. CASE Perform
    <3>1. /\ searches' = Front(searches) /\ avoids' = Last(searches) /\ pc' = "bfs"
      BY <2>2 DEF Perform
    <3>2. CASE i = Len(searches)
      BY <2>1, <3>1, <3>2 DEF Last, Pending
    <3>3. CASE i # Len(searches)
      <4>1. i \in DOMAIN searches' /\ searches'[i] = searches[i]
        BY <1>1, <2>1, <3>1, <3>3 DEF Front
      <4> QED
        BY <2>1, <4>1 DEF Pending
    <3> QED
      BY <3>2, <3>3
  <2>3. CASE Visit \/ Walk
    BY <2>1, <2>3 DEF Visit, Walk, Pending
  <2>4. CASE EndSearch
    <3>1. searches' = searches \/ searches' = searches \o Respawn
      BY <2>4 DEF EndSearch
    <3>2. i \in DOMAIN searches' /\ searches'[i] = searches[i]
      <4>1. CASE searches' = searches
        BY <2>1, <4>1
      <4>2. CASE searches' = searches \o Respawn /\ found # {}
        <5>1. Len(Respawn) \in {1, 2}
          BY <1>1 DEF Respawn, SearchInv, SearchTypes, Strategy
        <5> QED
          BY <1>1, <2>1, <4>2, <5>1
      <4>3. CASE found = {}
        BY <2>1, <2>4, <4>3 DEF EndSearch
      <4> QED
        BY <3>1, <4>1, <4>2, <4>3
    <3> QED
      BY <2>1, <3>2 DEF Pending
  <2>5. CASE Return
    BY <2>1, <2>5 DEF Return, Pending
  <2> QED
    BY <2>2, <2>3, <2>4, <2>5 DEF SearchStep
<1>4. CASE pc = "bfs" /\ avoids \subseteq S
  <2>1. CASE Visit
    BY <1>4, <2>1 DEF Visit, Pending
  <2>2. CASE EndSearch
    <3>1. worklist = <<>>
      BY <2>2 DEF EndSearch
    <3>2. CASE found = {}
      <4>1. NoWay(S2)
        BY <1>4, <3>1, <3>2, NothingFound, NoWayGrows
      <4> QED
        BY <1>1, <4>1, NoWayStays DEF Pending
    <3>3. CASE found # {}
      <4>1. avoids \subseteq S2
        BY <1>4
      <4>2. \E i \in DOMAIN searches' : searches'[i] \subseteq S2
        BY <1>4, <2>2, <3>1, <3>3, <4>1, SpawnedAvoid
      <4> QED
        BY <4>2 DEF Pending
    <3> QED
      BY <3>2, <3>3
  <2>3. CASE Perform \/ Walk \/ Return
    BY <1>4, <2>3 DEF Perform, Walk, Return
  <2> QED
    BY <2>1, <2>2, <2>3 DEF SearchStep
<1> QED
  BY <1>2, <1>3, <1>4 DEF Pending

-----------------------------------------------------------------------------
(* A call leaves nothing to be found.                                      *)

\* A step keeps this invariant.
LEMMA LeftInvStep ==
  SearchInv /\ AvoidInv /\ (pc = "bfs" => CompleteInv) /\ LeftInv /\ SearchStep => LeftInv'
<1> SUFFICES ASSUME SearchInv, AvoidInv, pc = "bfs" => CompleteInv, LeftInv, SearchStep,
                    strategy' # "none"
             PROVE  LeftInv'
  BY DEF LeftInv
<1>1. /\ UNCHANGED <<graph, start, goals, strategy>> /\ strategy # "none"
      /\ pc \in {"pick", "bfs"} /\ paths \subseteq paths' /\ strategy \in Strategy
  BY DEF SearchStep, Perform, Visit, EndSearch, Walk, Return, inputVars, callVars, AvoidInv,
         SearchInv, SearchTypes
<1>2. pc' = "return" => searches' = <<>>
  BY <1>1 DEF SearchStep, Perform, Visit, EndSearch, Walk, Return
<1> DEFINE After(S) == \/ \E i \in DOMAIN searches' : searches'[i] \subseteq S
                       \/ pc' = "bfs" /\ avoids' \subseteq S
                       \/ start' \in S
                       \/ ReachableFrom({start'}, {e \in graph' : e[1] \notin S /\ e[2] \notin S}) \cap goals' = {}
<1>3. ASSUME \A p \in paths' : Len(p) > 1
      PROVE  /\ strategy \in {"front", "both"} => After(Seconds(paths'))
             /\ strategy \in {"back", "both"} => After(Penultimates(paths'))
  <2>1. \A p \in paths : Len(p) > 1
    BY <1>1, <1>3
  <2>2. Seconds(paths) \subseteq Seconds(paths') /\ Penultimates(paths) \subseteq Penultimates(paths')
    BY <1>1 DEF Seconds, Penultimates
  <2>3. pc = "bfs" /\ worklist = <<>> => found \subseteq paths'
    BY <1>1 DEF SearchStep, Perform, Visit, EndSearch, Walk, Return
  <2>4. pc = "bfs" /\ worklist = <<>> =>
          /\ \A p \in found : Len(p) > 1
          /\ Seconds(found) \subseteq Seconds(paths')
          /\ Penultimates(found) \subseteq Penultimates(paths')
    BY <1>3, <2>3 DEF Seconds, Penultimates
  <2>5. ASSUME strategy \in {"front", "both"} PROVE After(Seconds(paths'))
    <3> DEFINE S == Seconds(paths)
    <3>1. Pending(S)
      BY <1>1, <2>1, <2>5 DEF LeftInv
    <3>2. ASSUME NEW S2, S2 = Seconds(paths') PROVE After(S2)
      <4>1. S \subseteq S2 /\ (pc = "bfs" /\ worklist = <<>> => Seconds(found) \subseteq S2)
        BY <2>2, <2>4, <3>2
      <4> HIDE DEF S
      <4>2. Pending(S2)'
        BY <1>1, <2>4, <2>5, <3>1, <4>1, PendingStep
      <4> QED
        BY <4>2 DEF Pending, NoWay, Without, After
    <3> QED
      BY <3>2
  <2>6. ASSUME strategy \in {"back", "both"} PROVE After(Penultimates(paths'))
    <3> DEFINE S == Penultimates(paths)
    <3>1. Pending(S)
      BY <1>1, <2>1, <2>6 DEF LeftInv
    <3>2. ASSUME NEW S2, S2 = Penultimates(paths') PROVE After(S2)
      <4>1. S \subseteq S2 /\ (pc = "bfs" /\ worklist = <<>> => Penultimates(found) \subseteq S2)
        BY <2>2, <2>4, <3>2
      <4> HIDE DEF S
      <4>2. Pending(S2)'
        BY <1>1, <2>4, <2>6, <3>1, <4>1, PendingStep
      <4> QED
        BY <4>2 DEF Pending, NoWay, Without, After
    <3> QED
      BY <3>2
  <2> QED
    BY <2>5, <2>6
<1>4. ASSUME \A p \in paths' : Len(p) > 1
      PROVE  /\ strategy \in {"front", "both"} => Pending(Seconds(paths))'
             /\ strategy \in {"back", "both"} => Pending(Penultimates(paths))'
  BY <1>3, <1>4 DEF Pending, NoWay, Without, Seconds, Penultimates
<1> QED
  BY <1>1, <1>2, <1>4 DEF LeftInv

\* Then nothing is left when a call returns.
LEMMA LeftNothing == SearchInv /\ LeftInv => NothingLeft
<1> SUFFICES ASSUME SearchInv, LeftInv, pc = "return", strategy # "none", \A p \in paths : Len(p) > 1
             PROVE  /\ strategy \in {"front", "both"} =>
                         LET E == Without({p[2] : p \in paths}, graph)
                         IN  ReachableFrom({start}, E) \cap goals = {}
                    /\ strategy \in {"back", "both"} =>
                         LET avoided == {p[Len(p) - 1] : p \in paths}
                         IN  start \in avoided
                               \/ ReachableFrom({start}, Without(avoided, graph)) \cap goals = {}
  BY DEF NothingLeft
<1>1. searches = <<>>
  BY DEF LeftInv
<1>2. start \notin {p[2] : p \in paths}
  <2> SUFFICES ASSUME NEW p \in paths PROVE p[2] # start
    OBVIOUS
  <2>1. p \in Seq(Node) /\ IsSimple(p) /\ p[1] = start /\ Len(p) > 1 /\ Len(p) \in Nat
    BY DEF SearchInv, Route
  <2>2. 1 \in 1 .. Len(p) /\ 2 \in 1 .. Len(p)
    BY <2>1
  <2> QED
    BY <2>1, <2>2 DEF IsSimple
<1>3. strategy \in {"front", "both"} => NoWay(Seconds(paths))
  BY <1>1 DEF LeftInv, Pending
<1>4. strategy \in {"back", "both"} => NoWay(Penultimates(paths))
  BY <1>1 DEF LeftInv, Pending
<1> QED
  BY <1>2, <1>3, <1>4 DEF NoWay, Seconds, Penultimates

----------------------------------------------------------------------------
(* Strategy "none" walks every path up to its first goal.                  *)

\* A route to the first goal on it.
ToGoal(p) == /\ Route(p, graph, start) /\ Last(p) \in goals
             /\ \A i \in 1 .. Len(p) - 1 : p[i] \notin goals

Begins(q, p) == Len(q) <= Len(p) /\ \A i \in 1 .. Len(q) : q[i] = p[i]

\* Each such route was found, or has a beginning that is still to be followed.
WalkInv ==
  /\ pc \in {"pick", "bfs"} => strategy # "none"
  /\ pc # "idle" /\ strategy = "none" =>
       /\ \A p : ToGoal(p) => p \in paths \/ \E i \in DOMAIN stack : Begins(stack[i], p)
       /\ \A p \in paths : ToGoal(p)
       /\ \A i \in DOMAIN stack : \A k \in 1 .. Len(stack[i]) - 1 : stack[i][k] \notin goals

\* A walk loses no route to a goal.
LEMMA WalkInvWalk == SearchInv /\ AvoidInv /\ WalkInv /\ Walk => WalkInv'
<1> SUFFICES ASSUME SearchInv, AvoidInv, WalkInv, Walk PROVE WalkInv'
  OBVIOUS
<1> DEFINE q == Last(stack)
           next == {v \in successors(Last(q)) : v \notin ToSet(q)}
           more == {Append(q, v) : v \in next}
<1>1. /\ pc = "walk" /\ stack # <<>> /\ stack \in Seq(Seq(Node)) /\ strategy = "none"
      /\ graph \subseteq Node \X Node
      /\ UNCHANGED <<graph, strategy, start, goals, avoids, worklist, state, trail, found, searches, pc>>
  BY DEF Walk, SearchInv, SearchTypes, AvoidInv, inputVars, callVars, bfsVars
<1> DEFINE n == Len(stack)
           rest == Front(stack)
<1>2. /\ n \in Nat \ {0} /\ DOMAIN stack = 1 .. n /\ q = stack[n] /\ n \in 1 .. n
      /\ rest \in Seq(Seq(Node)) /\ DOMAIN rest = 1 .. n - 1 /\ Len(rest) = n - 1
      /\ \A i \in 1 .. n - 1 : rest[i] = stack[i] /\ i \in 1 .. n
  <2> DEFINE D == Seq(Node)
  <2>1. stack \in Seq(D) /\ stack # <<>>
    BY <1>1
  <2> HIDE DEF D
  <2>2. Len(stack) \in Nat \ {0} /\ DOMAIN stack = 1 .. Len(stack)
    BY <2>1
  <2>3. rest = SubSeq(stack, 1, Len(stack) - 1)
    BY DEF Front
  <2>4. /\ SubSeq(stack, 1, Len(stack) - 1) \in Seq(D)
        /\ Len(SubSeq(stack, 1, Len(stack) - 1)) = Len(stack) - 1
        /\ \A i \in 1 .. Len(stack) - 1 : SubSeq(stack, 1, Len(stack) - 1)[i] = stack[i]
    BY <2>1, <2>2
  <2>5. rest \in Seq(D) /\ Len(rest) = n - 1 /\ \A i \in 1 .. n - 1 : rest[i] = stack[i]
    BY <2>3, <2>4
  <2> HIDE DEF rest
  <2>6. DOMAIN rest = 1 .. n - 1
    BY <2>5
  <2>7. q = stack[n]
    BY DEF Last
  <2> QED
    BY <2>2, <2>5, <2>6, <2>7 DEF D
<1> HIDE DEF n, rest
<1>3. /\ Route(q, graph, start) /\ \A k \in 1 .. Len(q) - 1 : q[k] \notin goals
      /\ \A p : ToGoal(p) => p \in paths \/ \E i \in 1 .. n : Begins(stack[i], p)
      /\ \A p \in paths : ToGoal(p)
      /\ \A i \in 1 .. n : \A k \in 1 .. Len(stack[i]) - 1 : stack[i][k] \notin goals
  BY <1>1, <1>2 DEF SearchInv, WalkInv
<1>4. /\ q \in Seq(Node) /\ Len(q) \in Nat /\ Len(q) > 0 /\ Last(q) = q[Len(q)] /\ DOMAIN q = 1 .. Len(q)
  BY <1>3 DEF Route, IsPath, Last
<1> HIDE DEF q
<1>5. \A p : ToGoal(p)' <=> ToGoal(p)
  BY <1>1 DEF ToGoal, Route, IsPath
<1>6. ASSUME NEW p, ToGoal(p), Begins(q, p)
      PROVE  /\ Last(q) \in goals => p = q
             /\ Last(q) \notin goals => \E v \in next : Begins(Append(q, v), p)
  <2>1. /\ p \in Seq(Node) /\ Len(p) \in Nat /\ DOMAIN p = 1 .. Len(p)
        /\ \A i \in 1 .. Len(p) - 1 : <<p[i], p[i + 1]>> \in graph /\ p[i] \notin goals
        /\ \A i, j \in 1 .. Len(p) : p[i] = p[j] => i = j
        /\ p[Len(p)] \in goals
        /\ Len(q) <= Len(p) /\ \A i \in 1 .. Len(q) : q[i] = p[i]
    BY <1>6 DEF ToGoal, Route, IsPath, IsSimple, Last, Begins
  <2>2. ASSUME Last(q) \in goals PROVE p = q
    <3>1. Len(q) = Len(p)
      <4> SUFFICES ASSUME Len(q) # Len(p) PROVE FALSE
        OBVIOUS
      <4>0. Len(q) \in Nat /\ Len(p) \in Nat /\ Len(q) > 0 /\ Len(q) <= Len(p)
        BY <1>4, <2>1
      <4>1. Len(q) \in 1 .. Len(p) - 1 /\ Len(q) \in 1 .. Len(q)
        <5> HIDE DEF next, more
        <5> QED
          BY <4>0
      <4>2. p[Len(q)] \notin goals /\ q[Len(q)] = p[Len(q)]
        BY <2>1, <4>1
      <4> QED
        BY <1>4, <2>2, <4>2
    <3> QED
      BY <1>4, <2>1, <3>1
  <2>3. ASSUME Last(q) \notin goals PROVE \E v \in next : Begins(Append(q, v), p)
    <3>1. Len(q) < Len(p)
      BY <1>4, <2>1, <2>3
    <3> DEFINE v == p[Len(q) + 1]
    <3>2. v \in Node /\ <<Last(q), v>> \in graph
      <4>1. Len(q) \in 1 .. Len(p) - 1 /\ Len(q) + 1 \in 1 .. Len(p)
        BY <1>4, <2>1, <3>1
      <4> QED
        BY <1>4, <2>1, <4>1
    <3>3. v \notin ToSet(q)
      <4> SUFFICES ASSUME NEW i \in 1 .. Len(q), q[i] = v PROVE FALSE
        BY <1>4 DEF ToSet
      <4>1. i \in 1 .. Len(p) /\ Len(q) + 1 \in 1 .. Len(p) /\ i # Len(q) + 1 /\ p[i] = v
        BY <1>4, <2>1, <3>1
      <4> QED
        BY <2>1, <4>1
    <3>4. v \in next
      BY <3>2, <3>3 DEF successors
    <3>5. Begins(Append(q, v), p)
      <4> HIDE DEF v
      <4>1. /\ Len(Append(q, v)) = Len(q) + 1
            /\ \A i \in 1 .. Len(q) : Append(q, v)[i] = q[i]
            /\ Append(q, v)[Len(q) + 1] = v
        BY <1>4, <3>2
      <4>2. \A i \in 1 .. Len(q) + 1 : i \in 1 .. Len(q) \/ i = Len(q) + 1
        BY <1>4
      <4>3. v = p[Len(q) + 1]
        BY DEF v
      <4> QED
        BY <1>4, <2>1, <3>1, <4>1, <4>2, <4>3 DEF Begins
    <3> HIDE DEF v, next
    <3> QED
      BY <3>4, <3>5
  <2> QED
    BY <2>2, <2>3
<1>7. CASE Last(q) \in goals /\ paths' = paths \cup {q} /\ stack' = rest
  <2>1. ToGoal(q)
    BY <1>3, <1>7 DEF ToGoal
  <2>2. ASSUME NEW p, ToGoal(p)
        PROVE  p \in paths' \/ \E i \in DOMAIN stack' : Begins(stack'[i], p)
    <3>1. p \in paths \/ \E i \in 1 .. n : Begins(stack[i], p)
      BY <1>3, <2>2
    <3>2. CASE Begins(q, p)
      BY <1>6, <1>7, <2>2, <3>2
    <3>3. CASE p \notin paths /\ ~Begins(q, p)
      <4>1. PICK i \in 1 .. n : Begins(stack[i], p)
        BY <3>1, <3>3
      <4>2. i \in 1 .. n - 1
        BY <1>2, <3>3, <4>1
      <4> QED
        BY <1>2, <1>7, <4>1, <4>2
    <3> QED
      BY <1>7, <3>2, <3>3
  <2>3. \A i \in DOMAIN stack' : \A k \in 1 .. Len(stack'[i]) - 1 : stack'[i][k] \notin goals
    BY <1>2, <1>3, <1>7
  <2> QED
    BY <1>1, <1>3, <1>5, <1>7, <2>1, <2>2, <2>3 DEF WalkInv
<1>8. CASE Last(q) \notin goals /\ stack' = rest \o SetToSeq(more) /\ UNCHANGED paths
  <2> DEFINE list == SetToSeq(more)
  <2>1. IsFiniteSet(more)
    <3>1. IsFiniteSet(next)
      BY FS_Subset, NodeAssumption DEF successors
    <3> DEFINE f == [v \in next |-> Append(q, v)]
    <3>2. f \in Surjection(next, more)
      BY DEF Surjection
    <3> HIDE DEF f, next, more
    <3> QED
      BY <3>1, <3>2, FS_Surjection
  <2>2. list \in Seq(more) /\ \A x \in more : \E i \in DOMAIN list : list[i] = x
    <3> HIDE DEF more
    <3> QED
      BY <2>1, ChosenListing
  <2>3. \A x \in more : x \in Seq(Node) /\ \A k \in 1 .. Len(x) - 1 : x[k] \notin goals
    <3> SUFFICES ASSUME NEW v \in next
                 PROVE  /\ Append(q, v) \in Seq(Node)
                        /\ \A k \in 1 .. Len(Append(q, v)) - 1 : Append(q, v)[k] \notin goals
      OBVIOUS
    <3>1. v \in Node
      BY DEF successors
    <3>2. Len(Append(q, v)) = Len(q) + 1 /\ \A k \in 1 .. Len(q) : Append(q, v)[k] = q[k]
      BY <1>4, <3>1
    <3>3. \A k \in 1 .. Len(q) : k \in 1 .. Len(q) - 1 \/ k = Len(q)
      <4>1. Len(q) \in Nat
        BY <1>4
      <4> HIDE DEF next, more
      <4> QED
        BY <4>1
    <3>4. \A k \in 1 .. Len(q) : q[k] \notin goals
      BY <1>3, <1>4, <1>8, <3>3
    <3> QED
      BY <1>4, <3>1, <3>2, <3>4
  <2>4. stack' = rest \o list /\ list \in Seq(Seq(Node))
    <3> HIDE DEF more
    <3> QED
      BY <1>8, <2>2, <2>3
  <2> HIDE DEF list
  <2>5. /\ DOMAIN stack' = 1 .. (n - 1) + Len(list)
        /\ \A i \in 1 .. n - 1 : stack'[i] = rest[i]
        /\ \A i \in 1 .. Len(list) : stack'[(n - 1) + i] = list[i]
    <3> DEFINE D == Seq(Node)
    <3>1. rest \in Seq(D) /\ list \in Seq(D) /\ Len(rest) = n - 1
      <4> HIDE DEF more, next
      <4> QED
        BY <1>2, <2>4
    <3> HIDE DEF D
    <3>2. \A a, b \in Seq(D) :
            /\ DOMAIN (a \o b) = 1 .. Len(a) + Len(b)
            /\ \A k \in 1 .. Len(a) : (a \o b)[k] = a[k]
            /\ \A k \in 1 .. Len(b) : (a \o b)[Len(a) + k] = b[k]
      <4> HIDE DEF more, next
      <4> QED
        BY ConcatAt
    <3> QED
      BY <2>4, <3>1, <3>2
  <2>6. Len(list) \in Nat /\ DOMAIN list = 1 .. Len(list) /\ \A i \in 1 .. Len(list) : list[i] \in more
    <3> HIDE DEF more
    <3> QED
      BY <2>2
  <2>7. ASSUME NEW p, ToGoal(p)
        PROVE  p \in paths' \/ \E i \in DOMAIN stack' : Begins(stack'[i], p)
    <3>1. p \in paths \/ \E i \in 1 .. n : Begins(stack[i], p)
      BY <1>3, <2>7
    <3>2. CASE Begins(q, p)
      <4>1. PICK v \in next : Begins(Append(q, v), p)
        BY <1>6, <1>8, <2>7, <3>2
      <4>2. PICK i \in DOMAIN list : list[i] = Append(q, v)
        BY <2>2
      <4>3. (n - 1) + i \in DOMAIN stack' /\ stack'[(n - 1) + i] = Append(q, v)
        BY <1>2, <2>5, <2>6, <4>2
      <4> QED
        BY <4>1, <4>3
    <3>3. CASE p \notin paths /\ ~Begins(q, p)
      <4>1. PICK i \in 1 .. n : Begins(stack[i], p)
        BY <3>1, <3>3
      <4>2. i \in 1 .. n - 1
        BY <1>2, <3>3, <4>1
      <4>3. i \in DOMAIN stack' /\ stack'[i] = stack[i]
        BY <1>2, <2>5, <2>6, <4>2
      <4> QED
        BY <4>1, <4>3
    <3> QED
      BY <1>8, <3>2, <3>3
  <2>8. ASSUME NEW i \in DOMAIN stack'
        PROVE  \A k \in 1 .. Len(stack'[i]) - 1 : stack'[i][k] \notin goals
    <3>1. i \in 1 .. n - 1 \/ \E k \in 1 .. Len(list) : i = (n - 1) + k
      <4>1. CASE i > n - 1
        <5>1. i - (n - 1) \in 1 .. Len(list) /\ i = (n - 1) + (i - (n - 1))
          BY <1>2, <2>5, <2>6, <4>1
        <5> QED
          BY <5>1
      <4> QED
        BY <1>2, <2>5, <2>6, <4>1
    <3>2. CASE i \in 1 .. n - 1
      BY <1>2, <1>3, <2>5, <3>2
    <3>3. CASE \E k \in 1 .. Len(list) : i = (n - 1) + k
      <4> HIDE DEF more
      <4> QED
        BY <2>3, <2>5, <2>6, <3>3
    <3> QED
      BY <3>1, <3>2, <3>3
  <2> QED
    BY <1>1, <1>3, <1>5, <1>8, <2>7, <2>8 DEF WalkInv
<1> QED
  BY <1>7, <1>8 DEF Walk, rest, q

-----------------------------------------------------------------------------
(* What a call has found when it returns.                                  *)

\* SimplePaths is the set of routes.
LEMMA SimplePathsRoutes ==
  ASSUME NEW s \in Node, NEW E \in SUBSET (Node \X Node)
  PROVE  \A p : p \in SimplePaths(s, E) <=> Route(p, E, s)
<1> DEFINE M == N - 1
           D == SUBSET Seq(Node)
           Grow(P) == UNION {{Append(p, e[2]) : e \in {e \in E : e[1] = Last(p) /\ e[2] \notin ToSet(p)}} :
                               p \in P}
           step == [q \in Nat \X D |-> Grow(q[2])]
<1>1. N \in Nat /\ M \in Nat /\ M = N - 1
  <2>1. N # 0
    BY NodeAssumption, FS_EmptySet DEF N
  <2> QED
    BY <2>1, NodeCount
<1> HIDE DEF M
<1>2. \A P \in D : Grow(P) \in D
  <2> SUFFICES ASSUME NEW P \in D, NEW p \in P, NEW e \in E PROVE Append(p, e[2]) \in Seq(Node)
    OBVIOUS
  <2>1. p \in Seq(Node) /\ e[2] \in Node
    OBVIOUS
  <2> QED
    BY <2>1
<1> HIDE DEF Grow
<1>3. {<<s>>} \in D
  <2>1. <<s>> \in Seq(Node)
    OBVIOUS
  <2> QED
    BY <2>1
<1>4. PICK f : Iterates(f, M, D, {<<s>>}, step)
  <2>1. step \in [Nat \X D -> D]
    <3> HIDE DEF D
    <3> QED
      BY <1>2
  <2>2. StepOn(step, D)
    BY <2>1 DEF StepOn
  <2> HIDE DEF step, D
  <2> QED
    BY <1>1, <1>3, <2>2, Iteration
<1>5. f[0] = {<<s>>} /\ \A k \in 1 .. M : f[k] = Grow(f[k - 1])
  <2>1. ASSUME NEW k \in 1 .. M PROVE f[k] = Grow(f[k - 1])
    <3>1. k - 1 \in 0 .. M /\ k \in Nat
      BY <1>1
    <3> HIDE DEF D
    <3> QED
      BY <1>4, <3>1 DEF Iterates
  <2> QED
    BY <1>4, <2>1 DEF Iterates
<1> DEFINE Fix(g) == g = [k \in 0 .. M |-> IF k = 0 THEN {<<s>>}
                             ELSE UNION {{Append(p, e[2]) : e \in {e \in E : e[1] = Last(p) /\ e[2] \notin ToSet(p)}} :
                                           p \in g[k - 1]}]
           w == CHOOSE g : Fix(g)
<1>6. SimplePaths(s, E) = UNION {w[k] : k \in 0 .. M}
  BY DEF SimplePaths, N, M
<1>7. Fix(f)
  <2>1. \A k \in 0 .. M : f[k] = IF k = 0 THEN {<<s>>} ELSE Grow(f[k - 1])
    BY <1>1, <1>5
  <2>2. f = [k \in 0 .. M |-> f[k]]
    BY <1>4 DEF Iterates
  <2> QED
    BY <2>1, <2>2 DEF Grow
<1>8. Fix(w)
  <2> HIDE DEF Fix
  <2> QED
    BY <1>7
<1>9. w = [k \in 0 .. M |-> IF k = 0 THEN {<<s>>} ELSE Grow(w[k - 1])]
  BY <1>8 DEF Grow
<1> HIDE DEF w
<1>10. w[0] = {<<s>>} /\ \A k \in 1 .. M : w[k] = Grow(w[k - 1])
  <2> HIDE DEF D, step, Fix
  <2>1. w[0] = {<<s>>}
    <3>1. 0 \in 0 .. M
      BY <1>1
    <3> QED
      BY <1>9, <3>1
  <2>2. ASSUME NEW k \in 1 .. M PROVE w[k] = Grow(w[k - 1])
    <3>1. k \in 0 .. M /\ k # 0
      BY <1>1
    <3> QED
      BY <1>9, <3>1
  <2> QED
    BY <2>1, <2>2
<1> DEFINE T == {k \in 0 .. M : \A p : p \in w[k] <=> Route(p, E, s) /\ Len(p) = k + 1}
<1>11. 0 \in T
  <2>1. Route(<<s>>, E, s) /\ Len(<<s>>) = 1
    BY UnitRoute
  <2>2. ASSUME NEW p, Route(p, E, s), Len(p) = 1 PROVE p = <<s>>
    BY <2>2 DEF Route
  <2> QED
    BY <1>1, <1>10, <2>1, <2>2
<1>12. ASSUME NEW k \in 0 .. M - 1, k \in T PROVE k + 1 \in T
  <2>1. k + 1 \in 1 .. M /\ (k + 1) - 1 = k /\ k + 1 \in 0 .. M /\ k \in Nat
    BY <1>1
  <2>2. w[k + 1] = Grow(w[k]) /\ \A p : p \in w[k] <=> Route(p, E, s) /\ Len(p) = k + 1
    BY <1>10, <1>12, <2>1
  <2>3. ASSUME NEW x, x \in w[k + 1] PROVE Route(x, E, s) /\ Len(x) = (k + 1) + 1
    <3>1. PICK p \in w[k], e \in E : e[1] = Last(p) /\ e[2] \notin ToSet(p) /\ x = Append(p, e[2])
      BY <2>2, <2>3 DEF Grow
    <3>2. Route(p, E, s) /\ Len(p) = k + 1 /\ e[2] \in Node /\ e = <<e[1], e[2]>>
      BY <2>2
    <3>3. Route(x, E, s)
      BY <3>1, <3>2, AppendRoute
    <3>4. Len(x) = (k + 1) + 1
      BY <3>1, <3>2 DEF Route
    <3> QED
      BY <3>3, <3>4
  <2>4. ASSUME NEW x, Route(x, E, s), Len(x) = (k + 1) + 1 PROVE x \in w[k + 1]
    <3> DEFINE p == SubSeq(x, 1, k + 1)
               e == <<x[k + 1], x[k + 2]>>
    <3>1. /\ x \in Seq(Node) /\ Len(x) = k + 2 /\ DOMAIN x = 1 .. k + 2
          /\ \A i \in 1 .. k + 1 : <<x[i], x[i + 1]>> \in E
          /\ \A i, j \in 1 .. k + 2 : x[i] = x[j] => i = j
          /\ k + 1 \in 1 .. k + 1 /\ k + 1 \in 1 .. k + 2 /\ k + 2 \in 1 .. k + 2 /\ (k + 1) + 1 = k + 2
      BY <2>1, <2>4 DEF Route, IsPath, IsSimple
    <3>2. k + 1 \in 1 .. Len(x)
      BY <3>1
    <3>3. /\ Route(p, E, s) /\ Last(p) = x[k + 1] /\ Len(p) = k + 1 /\ p \in Seq(Node)
          /\ \A i \in 1 .. k + 1 : p[i] = x[i]
      BY <2>4, <3>2, RoutePrefix DEF Route
    <3>4. e \in E /\ e[1] = x[k + 1] /\ e[2] = x[k + 2] /\ x[k + 2] \in Node
      BY <3>1
    <3> HIDE DEF p, e
    <3>5. x[k + 2] \notin ToSet(p)
      <4> SUFFICES ASSUME NEW i \in DOMAIN p, p[i] = x[k + 2] PROVE FALSE
        BY DEF ToSet
      <4>1. i \in 1 .. k + 1 /\ i \in 1 .. k + 2 /\ i # k + 2
        BY <2>1, <3>3
      <4> QED
        BY <3>1, <3>3, <4>1
    <3>6. x = Append(p, x[k + 2])
      <4>1. /\ Append(p, x[k + 2]) \in Seq(Node) /\ Len(Append(p, x[k + 2])) = k + 2
            /\ \A i \in 1 .. k + 1 : Append(p, x[k + 2])[i] = p[i]
            /\ Append(p, x[k + 2])[k + 2] = x[k + 2]
        BY <2>1, <3>3, <3>4
      <4>2. \A i \in 1 .. k + 2 : i \in 1 .. k + 1 \/ i = k + 2
        BY <2>1
      <4>3. \A i \in 1 .. k + 2 : x[i] = Append(p, x[k + 2])[i]
        BY <3>3, <4>1, <4>2
      <4> QED
        BY <3>1, <4>1, <4>3
    <3>7. p \in w[k]
      BY <2>2, <3>3
    <3>8. x \in Grow(w[k])
      BY <3>3, <3>4, <3>5, <3>6, <3>7 DEF Grow
    <3> QED
      BY <2>2, <3>8
  <2> QED
    BY <2>1, <2>3, <2>4
<1>13. \A k \in 0 .. M : k \in T
  <2> HIDE DEF T
  <2> QED
    BY <1>1, <1>11, <1>12, BoundedInduction
<1>14. ASSUME NEW p, p \in SimplePaths(s, E) PROVE Route(p, E, s)
  <2>1. PICK k \in 0 .. M : p \in w[k]
    BY <1>6, <1>14
  <2> QED
    BY <1>13, <2>1
<1>15. ASSUME NEW p, Route(p, E, s) PROVE p \in SimplePaths(s, E)
  <2>1. Len(p) \in 1 .. N
    BY <1>15, RouteFits
  <2> DEFINE k == Len(p) - 1
  <2>2. k \in 0 .. M /\ Len(p) = k + 1
    BY <1>1, <2>1
  <2> HIDE DEF k
  <2>3. p \in w[k]
    BY <1>13, <1>15, <2>2
  <2> QED
    BY <1>6, <2>2, <2>3
<1> QED
  BY <1>14, <1>15

\* What the search that runs has not missed, what the call it belongs to has not,
\* and what strategy "none" has not.
ExactInv == (pc = "bfs" => CompleteInv) /\ ShortestInv /\ LeftInv /\ WalkInv

\* A call starts with everything still to be found.
LEMMA ExactCall ==
  ASSUME SearchInv, NEW s \in Node, NEW gs \in SUBSET Node, Call(s, gs)
  PROVE  ExactInv'
<1>1. start' = s /\ goals' = gs /\ paths' = {} /\ strategy' = strategy
  BY DEF Call, inputVars
<1>2. CASE strategy # "none"
  <2>1. pc' = "pick" /\ searches' = <<{}>>
    BY <1>2 DEF Call
  <2>2. 1 \in DOMAIN searches' /\ searches'[1] = {}
    BY <2>1
  <2>3. ShortestInv' /\ WalkInv'
    BY <1>1, <1>2, <2>1 DEF ShortestInv, WalkInv
  <2>4. LeftInv'
    <3>1. Pending(Seconds(paths))' /\ Pending(Penultimates(paths))'
      BY <2>2 DEF Pending
    <3> QED
      BY <2>1, <3>1 DEF LeftInv
  <2> QED
    BY <2>1, <2>3, <2>4 DEF ExactInv
<1>3. CASE strategy = "none"
  <2>1. pc' = "walk" /\ stack' = <<<<s>>>>
    BY <1>3 DEF Call
  <2>2. DOMAIN stack' = {1} /\ stack'[1] = <<s>> /\ Len(<<s>>) = 1 /\ <<s>>[1] = s
    BY <2>1
  <2>3. \A p : ToGoal(p)' => Begins(stack'[1], p)
    <3> SUFFICES ASSUME NEW p, ToGoal(p)' PROVE Begins(<<s>>, p)
      BY <2>2
    <3>1. p \in Seq(Node) /\ Len(p) > 0 /\ p[1] = s
      BY <1>1 DEF ToGoal, Route, IsPath
    <3> QED
      BY <2>2, <3>1 DEF Begins
  <2>4. \A i \in DOMAIN stack' : \A k \in 1 .. Len(stack'[i]) - 1 : FALSE
    <3> SUFFICES ASSUME NEW i \in DOMAIN stack', NEW k \in 1 .. Len(stack'[i]) - 1 PROVE FALSE
      OBVIOUS
    <3>1. Len(stack'[i]) = 1
      BY <2>2
    <3> QED
      BY <3>1
  <2>5. \A p : ToGoal(p)' => \E i \in DOMAIN stack' : Begins(stack'[i], p)
    BY <2>2, <2>3
  <2>6. WalkInv'
    BY <1>1, <1>3, <2>1, <2>4, <2>5 DEF WalkInv
  <2> QED
    BY <1>1, <1>3, <2>1, <2>6 DEF ExactInv, ShortestInv, LeftInv
<1> QED
  BY <1>2, <1>3

\* A step of a search keeps it.
LEMMA ExactStep == SearchInv /\ AvoidInv /\ ExactInv /\ SearchStep => ExactInv'
<1> SUFFICES ASSUME SearchInv, AvoidInv, ExactInv, SearchStep PROVE ExactInv'
  OBVIOUS
<1>1. ShortestInv' /\ LeftInv'
  BY ShortestInvStep, LeftInvStep DEF ExactInv
<1>2. pc' = "bfs" => CompleteInv'
  <2>1. CASE Perform
    BY <2>1, CompletePerform
  <2>2. CASE Visit
    BY <2>2, CompleteVisit DEF ExactInv, Visit
  <2>3. CASE EndSearch \/ Walk \/ Return
    BY <2>3 DEF EndSearch, Walk, Return
  <2> QED
    BY <2>1, <2>2, <2>3 DEF SearchStep
<1>3. WalkInv'
  <2>1. CASE Walk
    BY <2>1, WalkInvWalk DEF ExactInv
  <2>2. CASE Perform \/ Visit \/ EndSearch
    BY <2>2 DEF ExactInv, WalkInv, Perform, Visit, EndSearch, inputVars
  <2>3. CASE Return
    <3>1. UNCHANGED <<graph, strategy, start, goals, stack, paths>> /\ pc' = "return"
      BY <2>3 DEF Return, inputVars, callVars
    <3>2. strategy = "none" => pc = "walk"
      BY <2>3 DEF Return, ExactInv, WalkInv
    <3>3. \A p : ToGoal(p)' <=> ToGoal(p)
      BY <3>1 DEF ToGoal, Route, IsPath
    <3> QED
      BY <3>1, <3>2, <3>3 DEF ExactInv, WalkInv
  <2> QED
    BY <2>1, <2>2, <2>3 DEF SearchStep
<1> QED
  BY <1>1, <1>2, <1>3 DEF ExactInv

\* Outside the search nothing of it changes.
LEMMA ExactStutter == ExactInv /\ UNCHANGED searchVars => ExactInv'
<1> SUFFICES ASSUME ExactInv, UNCHANGED searchVars PROVE ExactInv'
  OBVIOUS
<1>1. UNCHANGED <<graph, strategy, start, goals, searches, avoids, worklist, state, trail, found,
                  stack, paths, pc>>
  BY DEF searchVars, inputVars, callVars, bfsVars
<1>2. pc = "bfs" => CompleteInv'
  BY <1>1 DEF ExactInv, CompleteInv, Done, Met
<1>3. ShortestInv'
  BY <1>1, AllReachedStays DEF ExactInv, ShortestInv
<1>4. LeftInv'
  BY <1>1 DEF ExactInv, LeftInv, Pending, NoWay, Without, Seconds, Penultimates
<1>5. WalkInv'
  <2>1. \A p : ToGoal(p)' <=> ToGoal(p)
    BY <1>1 DEF ToGoal, Route, IsPath
  <2> QED
    BY <1>1, <2>1 DEF ExactInv, WalkInv
<1> QED
  BY <1>1, <1>2, <1>3, <1>4, <1>5 DEF ExactInv

\* Between calls it says nothing.
LEMMA ExactIdle == pc = "idle" => ExactInv
BY DEF ExactInv, ShortestInv, LeftInv, WalkInv

\* Strategy "none" has found all paths to a first goal when it returns.
LEMMA ReturnsAllPaths == SearchInv /\ ExactInv => AllPathsFound
<1> SUFFICES ASSUME SearchInv, ExactInv, pc = "return", strategy = "none"
             PROVE  paths = {p \in SimplePaths(start, graph) :
                               Last(p) \in goals /\ \A i \in 1 .. Len(p) - 1 : p[i] \notin goals}
  BY DEF AllPathsFound
<1>1. stack = <<>> /\ start \in Node /\ graph \in SUBSET (Node \X Node)
  BY DEF SearchInv, SearchTypes
<1>2. \A p : ToGoal(p) <=> p \in paths
  <2>1. DOMAIN stack = {}
    BY <1>1
  <2> QED
    BY <2>1 DEF ExactInv, WalkInv
<1>3. \A p : p \in SimplePaths(start, graph) <=> Route(p, graph, start)
  BY <1>1, SimplePathsRoutes
<1> QED
  BY <1>2, <1>3 DEF ToGoal

\* A call that finds nothing had nothing to find.
LEMMA NothingToFind ==
  ASSUME SearchInv, ExactInv, pc = "return", NEW t \in goals, t \in ReachableFrom({start}, graph)
  PROVE  /\ paths # {}
         /\ strategy # "none" => HasShortest(t)
<1>1. start \in Node /\ graph \in SUBSET (Node \X Node)
  BY DEF SearchInv, SearchTypes
<1>2. CASE strategy # "none"
  BY <1>2 DEF ExactInv, ShortestInv, AllReached, HasShortest
<1>3. CASE strategy = "none"
  <2>1. PICK p : Route(p, graph, start) /\ Last(p) = t
    BY <1>1, ReachableRoute
  <2> DEFINE T == {i \in 1 .. Len(p) : p[i] \in goals}
  <2>2. Len(p) \in 1 .. N /\ p[Len(p)] = t
    BY <2>1, RouteFits DEF Last
  <2>3. T # {} /\ T \in SUBSET Nat
    BY <2>2, NodeCount
  <2> HIDE DEF T
  <2>4. PICK n \in T : \A i \in T : n <= i
    BY <2>3, NatMin
  <2>5. n \in 1 .. Len(p) /\ p[n] \in goals /\ \A i \in 1 .. n - 1 : p[i] \notin goals
    <3>1. n \in 1 .. Len(p) /\ p[n] \in goals
      BY <2>4 DEF T
    <3>2. \A i \in 1 .. n - 1 : i \in 1 .. Len(p) /\ ~(n <= i)
      BY <2>2, <3>1, NodeCount
    <3> QED
      BY <2>4, <3>1, <3>2 DEF T
  <2> DEFINE q == SubSeq(p, 1, n)
  <2>6. /\ Route(q, graph, start) /\ Last(q) = p[n]
        /\ Len(q) = n /\ \A i \in 1 .. n : q[i] = p[i]
    BY <2>1, <2>5, RoutePrefix
  <2> HIDE DEF q
  <2>7. \A i \in 1 .. n - 1 : i \in 1 .. n
    BY <2>2, <2>5, NodeCount
  <2>8. ToGoal(q)
    BY <2>5, <2>6, <2>7 DEF ToGoal
  <2>9. stack = <<>>
    BY DEF SearchInv
  <2> QED
    BY <1>3, <2>8, <2>9 DEF ExactInv, WalkInv
<1> QED
  BY <1>2, <1>3

=============================================================================
