-------------------------- MODULE PathSearch_proofs --------------------------
(***************************************************************************)
(* The search of startpaths keeps SearchInv, whatever the graph.  The       *)
(* modules about its callers add their own steps to that.                  *)
(***************************************************************************)
EXTENDS PathSearch, Recursion_proofs

\* A way from s along E that meets no vertex twice.
Route(p, E, s) == p \in Seq(Node) /\ IsPath(p, E) /\ IsSimple(p) /\ p[1] = s

Met(v) == state[v] # "undiscovered" /\ v \notin avoids

\* What the search that runs knows: vertices it avoids are never on its list or
\* the trail of a vertex it has met, and every vertex is listed at most once.
BfsInv ==
  /\ \A v \in avoids : state[v] = "processed"
  /\ \A i \in DOMAIN worklist : state[worklist[i]] = "discovered"
  /\ \A i, j \in DOMAIN worklist : worklist[i] = worklist[j] => i = j
  /\ \A v \in Node : Met(v) =>
       /\ Route(trail[v], graph, start) /\ Last(trail[v]) = v
       /\ \A k \in DOMAIN trail[v] : Met(trail[v][k])
  /\ \A p \in found : /\ Route(p, graph, start) /\ Last(p) \in goals
                      /\ ToSet(p) \cap avoids = {}

SearchTypes ==
  /\ graph \subseteq Node \X Node
  /\ strategy \in Strategy
  /\ pc # "idle" => start \in Node
  /\ goals \subseteq Node
  /\ searches \in Seq(SUBSET Node)
  /\ avoids \subseteq Node
  /\ worklist \in Seq(Node)
  /\ state \in [Node -> VertexState]
  /\ trail \in [Node -> Seq(Node)]
  /\ stack \in Seq(Seq(Node))
  /\ pc \in {"idle", "pick", "bfs", "walk", "return"}

\* Strengthens PoppedIsDiscovered and PathsAreReal.
SearchInv ==
  /\ SearchTypes
  /\ pc = "bfs" => BfsInv
  /\ pc # "bfs" => found = {}
  /\ pc = "idle" => paths = {}
  /\ pc # "walk" => stack = <<>>
  /\ \A p \in paths : Route(p, graph, start) /\ Last(p) \in goals
  /\ \A i \in DOMAIN stack : Route(stack[i], graph, start)

\* What the strategies "front" and "back" avoid of a path.
Avoided(q) == IF strategy = "front" THEN q[2] ELSE q[Len(q) - 1]

AllAvoidedIn(S) == \A q \in paths : Len(q) > 1 => Avoided(q) \in S

\* With one of these strategies there is one search, running or to be run, and it
\* avoids something of every path found before.
AvoidInv ==
  /\ pc = "walk" => strategy = "none"
  /\ strategy \in {"front", "back"} =>
       /\ searches # <<>> => Len(searches) = 1 /\ AllAvoidedIn(searches[1])
       /\ pc = "bfs" => searches = <<>> /\ AllAvoidedIn(avoids)

-----------------------------------------------------------------------------
(* Routes.                                                                 *)

\* A route grows by a vertex that is not on it.
LEMMA AppendRoute ==
  ASSUME NEW E, NEW s, NEW p, Route(p, E, s), NEW v \in Node, v \notin ToSet(p),
         <<Last(p), v>> \in E
  PROVE  /\ Route(Append(p, v), E, s) /\ Last(Append(p, v)) = v
         /\ ToSet(Append(p, v)) = ToSet(p) \cup {v}
<1> DEFINE q == Append(p, v)
<1>1. /\ p \in Seq(Node) /\ Len(p) \in Nat /\ Len(p) > 0
      /\ \A i \in 1 .. Len(p) - 1 : <<p[i], p[i + 1]>> \in E
      /\ \A i, j \in 1 .. Len(p) : p[i] = p[j] => i = j
      /\ p[1] = s /\ <<p[Len(p)], v>> \in E
      /\ \A i \in 1 .. Len(p) : p[i] # v
  BY DEF Route, IsPath, IsSimple, Last, ToSet
<1>2. /\ q \in Seq(Node) /\ Len(q) = Len(p) + 1
      /\ \A i \in 1 .. Len(p) : q[i] = p[i]
      /\ q[Len(p) + 1] = v
  BY <1>1
<1>3. IsPath(q, E)
  <2>1. ASSUME NEW i \in 1 .. Len(p) PROVE <<q[i], q[i + 1]>> \in E
    <3>1. CASE i = Len(p)
      BY <1>1, <1>2, <3>1
    <3>2. CASE i # Len(p)
      <4>1. i \in 1 .. Len(p) - 1 /\ i + 1 \in 1 .. Len(p)
        BY <1>1, <3>2
      <4> QED
        BY <1>1, <1>2, <4>1
    <3> QED
      BY <3>1, <3>2
  <2> QED
    BY <1>1, <1>2, <2>1 DEF IsPath
<1>4. IsSimple(q)
  <2>1. ASSUME NEW i \in 1 .. Len(q), NEW j \in 1 .. Len(q), q[i] = q[j] PROVE i = j
    <3>1. /\ i \in 1 .. Len(p) \/ i = Len(p) + 1
          /\ j \in 1 .. Len(p) \/ j = Len(p) + 1
      BY <1>1, <1>2
    <3> QED
      BY <1>1, <1>2, <2>1, <3>1
  <2> QED
    BY <2>1 DEF IsSimple
<1>5. q[1] = s /\ Last(q) = v
  BY <1>1, <1>2 DEF Last
<1>6. ToSet(q) = ToSet(p) \cup {v}
  <2>1. DOMAIN q = 1 .. Len(p) + 1 /\ DOMAIN p = 1 .. Len(p)
    BY <1>1, <1>2
  <2> HIDE DEF q
  <2>2. ASSUME NEW x \in ToSet(q) PROVE x \in ToSet(p) \cup {v}
    <3>1. PICK i \in 1 .. Len(p) + 1 : x = q[i]
      BY <2>1 DEF ToSet
    <3>2. i \in 1 .. Len(p) \/ i = Len(p) + 1
      BY <1>1
    <3> QED
      BY <1>2, <2>1, <3>1, <3>2 DEF ToSet
  <2>3. ASSUME NEW x \in ToSet(p) PROVE x \in ToSet(q)
    <3>1. PICK i \in 1 .. Len(p) : x = p[i]
      BY <2>1 DEF ToSet
    <3>2. i \in 1 .. Len(p) + 1
      BY <1>1
    <3> QED
      BY <1>2, <2>1, <3>1, <3>2 DEF ToSet
  <2>4. v \in ToSet(q)
    BY <1>1, <1>2, <2>1 DEF ToSet
  <2> QED
    BY <2>2, <2>3, <2>4
<1> QED
  BY <1>2, <1>3, <1>4, <1>5, <1>6 DEF Route

\* A vertex alone is a route.
LEMMA UnitRoute ==
  ASSUME NEW E, NEW v \in Node
  PROVE  Route(<<v>>, E, v) /\ Last(<<v>>) = v
BY DEF Route, IsPath, IsSimple, Last

----------------------------------------------------------------------------
(* Lists of successors.                                                    *)

\* Lists of no vertex and of one.
LEMMA ShortList ==
  ASSUME NEW S, NEW x \in S
  PROVE  <<>> \in Seq(S) /\ <<x>> \in Seq(S)
OBVIOUS

\* A set of vertices can be listed, each once.
LEMMA Listing ==
  ASSUME NEW S, IsFiniteSet(S), NEW order \in SetToSeqs(S)
  PROVE  /\ order \in Seq(S)
         /\ \A i, j \in DOMAIN order : order[i] = order[j] => i = j
         /\ \A x \in S : \E i \in DOMAIN order : order[i] = x
<1>1. Cardinality(S) \in Nat
  BY FS_CardinalityType
<1>2. /\ order \in [1 .. Cardinality(S) -> S]
      /\ \A i, j \in 1 .. Cardinality(S) : i # j => order[i] # order[j]
  BY DEF SetToSeqs
<1>3. order \in Surjection(1 .. Cardinality(S), S)
  <2>1. order \in Injection(1 .. Cardinality(S), S)
    BY <1>2 DEF Injection, IsInjective
  <2>2. Cardinality(1 .. Cardinality(S)) = Cardinality(S)
    BY <1>1, FS_Interval
  <2> QED
    BY <2>1, <2>2, FS_Injection
<1> QED
  BY <1>1, <1>2, <1>3 DEF Surjection

\* SetToSeq lists a finite set.
LEMMA ChosenListing ==
  ASSUME NEW S, IsFiniteSet(S)
  PROVE  SetToSeq(S) \in Seq(S) /\ \A x \in S : \E i \in DOMAIN SetToSeq(S) : SetToSeq(S)[i] = x
<1> DEFINE f == SetToSeq(S)
<1>1. Cardinality(S) \in Nat /\ ExistsBijection(1 .. Cardinality(S), S)
  BY FS_CardinalityType
<1>2. \E g \in [1 .. Cardinality(S) -> S] : IsInjective(g)
  BY <1>1 DEF ExistsBijection, Bijection, Injection, IsInjective
<1>3. f \in [1 .. Cardinality(S) -> S] /\ IsInjective(f)
  BY <1>2 DEF SetToSeq
<1> HIDE DEF f
<1>4. f \in Surjection(1 .. Cardinality(S), S)
  <2>1. f \in Injection(1 .. Cardinality(S), S)
    BY <1>3 DEF Injection, IsInjective
  <2>2. Cardinality(1 .. Cardinality(S)) = Cardinality(S)
    BY <1>1, FS_Interval
  <2> QED
    BY <2>1, <2>2, FS_Injection
<1>5. f \in Seq(S) /\ DOMAIN f = 1 .. Cardinality(S)
  BY <1>1, <1>3
<1> QED
  BY <1>4, <1>5 DEF Surjection, f

----------------------------------------------------------------------------
(* A step keeps the invariant.                                             *)

\* A search of nothing.
LEMMA SearchInvInit ==
  ASSUME NEW n, graph = {}, strategy \in Strategy, InitSearch(n)
  PROVE  SearchInv
<1>1. SearchTypes
  BY DEF SearchTypes, InitSearch, VertexState
<1> QED
  BY <1>1 DEF SearchInv, InitSearch

\* A new call of startpaths starts from its arguments, without the paths before.
LEMMA SearchInvCall ==
  ASSUME SearchInv, NEW s \in Node, NEW gs \in SUBSET Node, pc # "bfs", Call(s, gs)
  PROVE  SearchInv'
<1>1. /\ start' = s /\ goals' = gs /\ paths' = {} /\ pc' \in {"walk", "pick"}
      /\ searches' \in {<<>>, <<{}>>} /\ stack' \in {<<>>, <<<<s>>>>}
      /\ pc' # "walk" => stack' = <<>>
      /\ UNCHANGED <<graph, strategy, avoids, worklist, state, trail, found>>
  BY DEF Call, inputVars, bfsVars
<1>2. Route(<<s>>, graph, s) /\ <<s>> \in Seq(Node)
  BY UnitRoute
<1>3. SearchTypes'
  <2>1. searches' \in Seq(SUBSET Node)
    BY <1>1, ShortList
  <2>2. stack' \in Seq(Seq(Node))
    BY <1>1, <1>2, ShortList
  <2> QED
    BY <1>1, <2>1, <2>2 DEF SearchInv, SearchTypes
<1>4. \A i \in DOMAIN stack' : Route(stack'[i], graph', start')
  BY <1>1, <1>2
<1> QED
  BY <1>1, <1>3, <1>4 DEF SearchInv

\* startpaths starts the next search of its work list with nothing discovered.
LEMMA SearchInvPerform == SearchInv /\ Perform => SearchInv'
<1> SUFFICES ASSUME SearchInv, Perform PROVE SearchInv'
  OBVIOUS
<1>1. /\ searches # <<>> /\ searches' = Front(searches) /\ avoids' = Last(searches)
      /\ worklist' = (IF start \in avoids' THEN <<>> ELSE <<start>>)
      /\ state' = [v \in Node |-> IF v \in avoids' THEN "processed"
                                  ELSE IF v = start THEN "discovered" ELSE "undiscovered"]
      /\ trail' = [v \in Node |-> <<v>>]
      /\ found' = {} /\ pc' = "bfs"
      /\ UNCHANGED <<graph, strategy, start, goals, stack, paths>>
  BY DEF Perform, inputVars, callVars
<1>2. avoids' \subseteq Node /\ searches' \in Seq(SUBSET Node)
  BY <1>1 DEF SearchInv, SearchTypes, Front, Last
<1>3. start \in Node
  BY DEF SearchInv, SearchTypes, Perform
<1>4. SearchTypes'
  <2>1. state' \in [Node -> VertexState] /\ trail' \in [Node -> Seq(Node)] /\ worklist' \in Seq(Node)
    BY <1>1, <1>3 DEF VertexState
  <2> QED
    BY <1>1, <1>2, <2>1 DEF SearchInv, SearchTypes
<1>5. BfsInv'
  <2>1. \A v \in avoids' : state'[v] = "processed"
    BY <1>1, <1>2
  <2>2. \A i \in DOMAIN worklist' : i = 1 /\ worklist'[i] = start /\ start \notin avoids'
    BY <1>1
  <2>3. \A i \in DOMAIN worklist' : state'[worklist'[i]] = "discovered"
    BY <1>1, <1>3, <2>2
  <2>4. \A v \in Node : Met(v)' => v = start
    BY <1>1 DEF Met
  <2>5. Route(trail'[start], graph, start) /\ Last(trail'[start]) = start
    BY <1>1, <1>3, UnitRoute
  <2>6. \A k \in DOMAIN trail'[start] : trail'[start][k] = start
    BY <1>1, <1>3
  <2>7. ASSUME NEW v \in Node, Met(v)'
        PROVE  /\ Route(trail'[v], graph', start') /\ Last(trail'[v]) = v
               /\ \A k \in DOMAIN trail'[v] : Met(trail[v][k])'
    <3>1. v = start
      BY <2>4, <2>7
    <3>2. \A k \in DOMAIN trail'[v] : trail'[v][k] = v
      BY <2>6, <3>1
    <3>3. \A k \in DOMAIN trail'[v] : Met(trail[v][k])'
      BY <2>7, <3>2 DEF Met
    <3> QED
      BY <1>1, <2>5, <3>1, <3>3
  <2> QED
    BY <1>1, <2>1, <2>2, <2>3, <2>7 DEF BfsInv
<1>6. stack' = <<>> /\ \A p \in paths' : Route(p, graph', start') /\ Last(p) \in goals'
  BY <1>1 DEF SearchInv, Perform
<1>7. \A i \in DOMAIN stack' : Route(stack'[i], graph', start')
  BY <1>6
<1> QED
  BY <1>1, <1>4, <1>5, <1>6, <1>7 DEF SearchInv

\* What a visit to u changes.
LEMMA VisitFacts ==
  ASSUME SearchInv, Visit
  PROVE  LET u   == Head(worklist)
             new == {v \in successors(u) : state[v] = "undiscovered"}
         IN  /\ u \in Node /\ state[u] = "discovered" /\ Met(u)
             /\ new \subseteq Node
             /\ \A v \in new : <<u, v>> \in graph /\ state[v] = "undiscovered" /\ v \notin avoids
             /\ found' = IF u \in goals THEN found \cup {trail[u]} ELSE found
             /\ \E order \in Seq(new) :
                  /\ worklist' = Tail(worklist) \o order
                  /\ \A i, j \in DOMAIN order : order[i] = order[j] => i = j
                  /\ \A v \in new : \E i \in DOMAIN order : order[i] = v
             /\ state' = [v \in Node |-> IF v = u THEN "processed"
                                         ELSE IF v \in new THEN "discovered" ELSE state[v]]
             /\ trail' = [v \in Node |-> IF v \in new THEN Append(trail[u], v) ELSE trail[v]]
             /\ UNCHANGED <<graph, strategy, start, goals, avoids, searches, stack, paths, pc>>
<1> DEFINE u == Head(worklist)
           new == {v \in successors(u) : state[v] = "undiscovered"}
<1>1. pc = "bfs" /\ worklist # <<>> /\ SearchTypes /\ BfsInv
  BY DEF Visit, SearchInv
<1>2. u = worklist[1] /\ 1 \in DOMAIN worklist /\ u \in Node
  BY <1>1 DEF SearchTypes
<1>3. state[u] = "discovered"
  BY <1>1, <1>2 DEF BfsInv
<1>4. Met(u)
  BY <1>1, <1>3 DEF Met, BfsInv
<1>5. new \subseteq Node /\ \A v \in new : <<u, v>> \in graph /\ state[v] = "undiscovered"
  BY DEF successors
<1>6. \A v \in new : v \notin avoids
  BY <1>1, <1>5 DEF BfsInv
<1>7. IsFiniteSet(new)
  BY <1>5, FS_Subset, NodeAssumption
<1>8. PICK order \in SetToSeqs(new) : worklist' = Tail(worklist) \o order
  BY DEF Visit
<1>9. /\ order \in Seq(new)
      /\ \A i, j \in DOMAIN order : order[i] = order[j] => i = j
      /\ \A v \in new : \E i \in DOMAIN order : order[i] = v
  <2> HIDE DEF new
  <2> QED
    BY <1>7, <1>8, Listing
<1> QED
  BY <1>2, <1>3, <1>4, <1>5, <1>6, <1>8, <1>9 DEF Visit, inputVars, callVars

\* BFS.perform lists the successors not met before, so their trails are routes.
LEMMA SearchInvVisit == SearchInv /\ Visit => SearchInv'
<1> SUFFICES ASSUME SearchInv, Visit PROVE SearchInv'
  OBVIOUS
<1> DEFINE u == Head(worklist)
           new == {v \in successors(u) : state[v] = "undiscovered"}
<1>1. /\ u \in Node /\ state[u] = "discovered" /\ Met(u)
      /\ new \subseteq Node
      /\ \A v \in new : <<u, v>> \in graph /\ state[v] = "undiscovered" /\ v \notin avoids
      /\ found' = IF u \in goals THEN found \cup {trail[u]} ELSE found
      /\ \E order \in Seq(new) :
           /\ worklist' = Tail(worklist) \o order
           /\ \A i, j \in DOMAIN order : order[i] = order[j] => i = j
      /\ state' = [v \in Node |-> IF v = u THEN "processed"
                                  ELSE IF v \in new THEN "discovered" ELSE state[v]]
      /\ trail' = [v \in Node |-> IF v \in new THEN Append(trail[u], v) ELSE trail[v]]
      /\ UNCHANGED <<graph, strategy, start, goals, avoids, searches, stack, paths, pc>>
  BY VisitFacts
<1>2. u = Head(worklist) /\ worklist # <<>> /\ pc = "bfs" /\ SearchTypes /\ BfsInv
  BY DEF Visit, SearchInv
<1> HIDE DEF u, new
<1>3. /\ Route(trail[u], graph, start) /\ Last(trail[u]) = u
      /\ \A k \in DOMAIN trail[u] : Met(trail[u][k])
  BY <1>1, <1>2 DEF BfsInv
<1>4. PICK order \in Seq(new) :
        /\ worklist' = Tail(worklist) \o order
        /\ \A i, j \in DOMAIN order : order[i] = order[j] => i = j
  BY <1>1
<1>5. trail[u] \in Seq(Node) /\ worklist \in Seq(Node) /\ order \in Seq(Node)
  BY <1>1, <1>2, <1>4 DEF SearchTypes
<1>6. \A i \in DOMAIN worklist' :
        \/ \E k \in DOMAIN worklist : k > 1 /\ k = i + 1 /\ worklist'[i] = worklist[k]
        \/ \E k \in DOMAIN order : i = k + Len(worklist) - 1 /\ worklist'[i] = order[k]
  BY <1>2, <1>4, <1>5
<1>7. /\ 1 \in DOMAIN worklist /\ u = worklist[1]
      /\ \A k \in DOMAIN worklist : worklist[k] \in Node /\ state[worklist[k]] = "discovered"
      /\ \A j, k \in DOMAIN worklist : worklist[j] = worklist[k] => j = k
      /\ \A k \in DOMAIN worklist : k \in Nat
      /\ \A k \in DOMAIN order : k \in Nat /\ order[k] \in new
  BY <1>2, <1>4, <1>5 DEF BfsInv
<1>8. SearchTypes'
  <2>1. \A v \in new : Append(trail[u], v) \in Seq(Node)
    BY <1>1, <1>5
  <2>2. trail' \in [Node -> Seq(Node)]
    BY <1>1, <1>2, <2>1 DEF SearchTypes
  <2>3. state' \in [Node -> VertexState]
    BY <1>1, <1>2 DEF SearchTypes, VertexState
  <2>4. worklist' \in Seq(Node)
    BY <1>2, <1>4, <1>5
  <2> QED
    BY <1>1, <1>2, <2>2, <2>3, <2>4 DEF SearchTypes
<1>9. \A v \in avoids' : state'[v] = "processed"
  BY <1>1, <1>2 DEF BfsInv, SearchTypes
<1>10. \A i \in DOMAIN worklist' : state'[worklist'[i]] = "discovered"
  <2> TAKE i \in DOMAIN worklist'
  <2>1. CASE \E k \in DOMAIN worklist : k > 1 /\ k = i + 1 /\ worklist'[i] = worklist[k]
    <3>1. PICK k \in DOMAIN worklist : k > 1 /\ worklist'[i] = worklist[k]
      BY <2>1
    <3>2. worklist[k] # u /\ worklist[k] \in Node /\ state[worklist[k]] = "discovered"
      BY <1>7, <3>1
    <3> QED
      BY <1>1, <3>1, <3>2
  <2>2. CASE \E k \in DOMAIN order : i = k + Len(worklist) - 1 /\ worklist'[i] = order[k]
    BY <1>1, <1>7, <2>2
  <2> QED
    BY <1>6, <2>1, <2>2
<1>11. \A i, j \in DOMAIN worklist' : worklist'[i] = worklist'[j] => i = j
  <2> SUFFICES ASSUME NEW i \in DOMAIN worklist', NEW j \in DOMAIN worklist',
                      worklist'[i] = worklist'[j]
               PROVE  i = j
    OBVIOUS
  <2>1. \A k \in DOMAIN worklist, l \in DOMAIN order : worklist[k] # order[l]
    BY <1>1, <1>7
  <2>2. i \in Nat /\ j \in Nat /\ Len(worklist) \in Nat
    BY <1>5, <1>8 DEF SearchTypes
  <2>3. CASE \E k \in DOMAIN worklist : k > 1 /\ k = i + 1 /\ worklist'[i] = worklist[k]
    <3>1. PICK k \in DOMAIN worklist : k = i + 1 /\ worklist'[i] = worklist[k]
      BY <2>3
    <3>2. PICK l \in DOMAIN worklist : l = j + 1 /\ worklist'[j] = worklist[l]
      BY <1>6, <2>1, <3>1
    <3>3. k = l
      BY <1>7, <3>1, <3>2
    <3> QED
      BY <2>2, <3>1, <3>2, <3>3
  <2>4. CASE \E k \in DOMAIN order : i = k + Len(worklist) - 1 /\ worklist'[i] = order[k]
    <3>1. PICK k \in DOMAIN order : i = k + Len(worklist) - 1 /\ worklist'[i] = order[k]
      BY <2>4
    <3>2. PICK l \in DOMAIN order : j = l + Len(worklist) - 1 /\ worklist'[j] = order[l]
      BY <1>6, <2>1, <3>1
    <3>3. k = l
      BY <1>4, <3>1, <3>2
    <3> QED
      BY <3>1, <3>2, <3>3
  <2> QED
    BY <1>6, <2>3, <2>4
<1>12. \A w \in Node : Met(w)' <=> Met(w) \/ w \in new
  BY <1>1 DEF Met
<1>13. ASSUME NEW v \in Node, Met(v)'
       PROVE  /\ Route(trail'[v], graph', start') /\ Last(trail'[v]) = v
              /\ \A k \in DOMAIN trail'[v] : Met(trail[v][k])'
  <2>1. CASE v \in new
    <3>1. trail'[v] = Append(trail[u], v)
      BY <1>1, <2>1
    <3>2. v \notin ToSet(trail[u])
      BY <1>1, <1>3, <2>1 DEF ToSet, Met
    <3>3. /\ Route(trail'[v], graph, start) /\ Last(trail'[v]) = v
      <4>1. v \in Node /\ <<Last(trail[u]), v>> \in graph
        BY <1>1, <1>3, <2>1
      <4>2. Route(Append(trail[u], v), graph, start) /\ Last(Append(trail[u], v)) = v
        BY <1>3, <3>2, <4>1, AppendRoute
      <4> QED
        BY <3>1, <4>2
    <3>4. ASSUME NEW k \in DOMAIN trail'[v] PROVE Met(trail[v][k])'
      <4>1. \/ k \in DOMAIN trail[u] /\ trail'[v][k] = trail[u][k]
            \/ trail'[v][k] = v
        BY <1>5, <3>1
      <4>2. trail'[v][k] \in Node /\ (Met(trail'[v][k]) \/ trail'[v][k] \in new)
        BY <1>3, <1>5, <2>1, <4>1
      <4>3. state'[trail'[v][k]] # "undiscovered" /\ trail'[v][k] \notin avoids'
        BY <1>1, <4>2 DEF Met
      <4> QED
        BY <4>3 DEF Met
    <3> QED
      BY <1>1, <3>3, <3>4
  <2>2. CASE v \notin new
    <3>1. trail'[v] = trail[v] /\ Met(v)
      BY <1>1, <1>12, <1>13, <2>2
    <3>2. /\ Route(trail[v], graph, start) /\ Last(trail[v]) = v
          /\ \A k \in DOMAIN trail[v] : Met(trail[v][k])
      BY <1>2, <3>1 DEF BfsInv
    <3>3. \A k \in DOMAIN trail[v] : trail[v][k] \in Node
      BY <3>2 DEF Route
    <3>4. ASSUME NEW k \in DOMAIN trail'[v] PROVE Met(trail[v][k])'
      <4>1. state'[trail'[v][k]] # "undiscovered" /\ trail'[v][k] \notin avoids'
        BY <1>1, <3>1, <3>2, <3>3 DEF Met
      <4> QED
        BY <4>1 DEF Met
    <3> QED
      BY <1>1, <3>1, <3>2, <3>4
  <2> QED
    BY <2>1, <2>2
<1>14. \A p \in found' : /\ Route(p, graph', start') /\ Last(p) \in goals'
                         /\ ToSet(p) \cap avoids' = {}
  <2>1. ToSet(trail[u]) \cap avoids = {}
    BY <1>3 DEF ToSet, Met
  <2> QED
    BY <1>1, <1>2, <1>3, <2>1 DEF BfsInv
<1>15. BfsInv'
  BY <1>9, <1>10, <1>11, <1>13, <1>14 DEF BfsInv
<1> QED
  BY <1>1, <1>2, <1>8, <1>15 DEF SearchInv

\* A search ends: what it found joins the paths, and its clones avoid vertices.
LEMMA SearchInvEnd == SearchInv /\ EndSearch => SearchInv'
<1> SUFFICES ASSUME SearchInv, EndSearch PROVE SearchInv'
  OBVIOUS
<1>1. /\ pc = "bfs" /\ SearchTypes /\ BfsInv
      /\ paths' = paths \cup found /\ found' = {} /\ pc' = "pick"
      /\ UNCHANGED <<graph, strategy, start, goals, avoids, worklist, state, trail, stack>>
  BY DEF EndSearch, SearchInv, inputVars, callVars
<1>2. Respawn \in Seq(SUBSET Node) \/ found = {} \/ \E p \in found : Len(p) < 2
  <2> SUFFICES ASSUME \A p \in found : ~(Len(p) < 2) PROVE Respawn \in Seq(SUBSET Node)
    OBVIOUS
  <2>1. \A p \in found : p[2] \in Node /\ p[Len(p) - 1] \in Node
    <3> TAKE p \in found
    <3>1. p \in Seq(Node) /\ ~(Len(p) < 2)
      BY <1>1 DEF BfsInv, Route
    <3> QED
      BY <3>1
  <2>2. avoids \cup SecondNodes \in SUBSET Node /\ avoids \cup PenultimateNodes \in SUBSET Node
    BY <1>1, <2>1 DEF SecondNodes, PenultimateNodes, SearchTypes
  <2> DEFINE a == avoids \cup SecondNodes
             b == avoids \cup PenultimateNodes
  <2> HIDE DEF a, b
  <2>3. /\ <<>> \in Seq(SUBSET Node) /\ <<a>> \in Seq(SUBSET Node) /\ <<b>> \in Seq(SUBSET Node)
    BY <2>2 DEF a, b
  <2>4. Respawn = (IF strategy \in {"front", "both"} THEN <<a>> ELSE <<>>)
                    \o (IF strategy \in {"back", "both"} THEN <<b>> ELSE <<>>)
    BY DEF Respawn, a, b
  <2> QED
    BY <2>3, <2>4
<1>3. searches' \in Seq(SUBSET Node)
  BY <1>1, <1>2 DEF EndSearch, SearchTypes
<1> QED
  BY <1>1, <1>3 DEF SearchInv, SearchTypes, BfsInv

\* Without a strategy, a path grows by a neighbour that is not on it.
LEMMA SearchInvWalk == SearchInv /\ Walk => SearchInv'
<1> SUFFICES ASSUME SearchInv, Walk PROVE SearchInv'
  OBVIOUS
<1> DEFINE p == Last(stack)
           next == {v \in successors(Last(p)) : v \notin ToSet(p)}
           more == {Append(p, v) : v \in next}
<1>1. /\ pc = "walk" /\ stack # <<>> /\ stack \in Seq(Seq(Node)) /\ SearchTypes
      /\ UNCHANGED <<graph, strategy, start, goals, avoids, worklist, state, trail, found, searches, pc>>
  BY DEF Walk, SearchInv, SearchTypes, inputVars, callVars, bfsVars
<1>2. /\ Front(stack) \in Seq(Seq(Node)) /\ Route(p, graph, start)
      /\ \A i \in DOMAIN Front(stack) : Route(Front(stack)[i], graph, start)
  <2>1. /\ Len(stack) \in Nat \ {0} /\ DOMAIN stack = 1 .. Len(stack)
        /\ Front(stack) \in Seq(Seq(Node)) /\ Len(Front(stack)) = Len(stack) - 1
        /\ \A i \in 1 .. Len(stack) - 1 : Front(stack)[i] = stack[i]
    <3>1. Len(stack) \in Nat \ {0} /\ DOMAIN stack = 1 .. Len(stack)
      BY <1>1
    <3> QED
      BY <1>1, <3>1 DEF Front
  <2>2. \A i \in 1 .. Len(stack) : Route(stack[i], graph, start)
    BY <2>1 DEF SearchInv
  <2>3. /\ Len(stack) \in 1 .. Len(stack)
        /\ DOMAIN Front(stack) = 1 .. Len(stack) - 1
        /\ \A i \in 1 .. Len(stack) - 1 : i \in 1 .. Len(stack)
    BY <2>1
  <2> QED
    BY <2>1, <2>2, <2>3 DEF Last
<1>3. CASE Last(p) \in goals /\ paths' = paths \cup {p} /\ stack' = Front(stack)
  BY <1>1, <1>2, <1>3 DEF SearchInv, SearchTypes
<1>4. CASE stack' = Front(stack) \o SetToSeq(more) /\ UNCHANGED paths
  <2>1. \A q \in more : Route(q, graph, start) /\ q \in Seq(Node)
    <3> SUFFICES ASSUME NEW v \in next
                 PROVE  Route(Append(p, v), graph, start) /\ Append(p, v) \in Seq(Node)
      OBVIOUS
    <3>1. v \in Node /\ <<Last(p), v>> \in graph /\ v \notin ToSet(p)
      BY DEF successors
    <3>2. Route(Append(p, v), graph, start)
      BY <1>2, <3>1, AppendRoute
    <3> QED
      BY <3>2 DEF Route
  <2>2. IsFiniteSet(next)
    BY FS_Subset, NodeAssumption DEF successors
  <2>3. IsFiniteSet(more)
    <3> DEFINE f == [v \in next |-> Append(p, v)]
    <3>1. f \in Surjection(next, more)
      BY DEF Surjection
    <3> HIDE DEF f, next, more
    <3> QED
      BY <2>2, <3>1, FS_Surjection
  <2>4. SetToSeq(more) \in Seq(more)
    BY <2>3, ChosenListing
  <2> DEFINE list == SetToSeq(more)
  <2>5. list \in Seq(Seq(Node)) /\ \A i \in DOMAIN list : Route(list[i], graph, start)
    <3> HIDE DEF more
    <3> QED
      BY <2>1, <2>4
  <2>6. stack' = Front(stack) \o list
    BY <1>4
  <2> HIDE DEF list
  <2>7. stack' \in Seq(Seq(Node)) /\ \A i \in DOMAIN stack' : Route(stack'[i], graph, start)
    BY <1>2, <2>5, <2>6
  <2> QED
    BY <1>1, <1>4, <2>7 DEF SearchInv, SearchTypes
<1> QED
  BY <1>3, <1>4 DEF Walk

\* Handing out the paths changes nothing the invariant is about.
LEMMA SearchInvReturn == SearchInv /\ Return => SearchInv'
BY DEF SearchInv, SearchTypes, BfsInv, Return, inputVars, callVars, bfsVars

\* A step of the search keeps the invariant.
LEMMA SearchInvStep == SearchInv /\ SearchStep => SearchInv'
BY SearchInvPerform, SearchInvVisit, SearchInvEnd, SearchInvWalk, SearchInvReturn DEF SearchStep

\* The invariant is about these variables only.
LEMMA SearchInvStutter == SearchInv /\ UNCHANGED searchVars => SearchInv'
BY DEF SearchInv, SearchTypes, BfsInv, Met, searchVars, inputVars, callVars, bfsVars

----------------------------------------------------------------------------
(* New paths keep away from the old ones.                                  *)

\* A new call knows no paths yet.
LEMMA AvoidInvCall ==
  ASSUME SearchInv, AvoidInv, NEW s, NEW gs, Call(s, gs)
  PROVE  AvoidInv'
BY DEF Call, AvoidInv, AllAvoidedIn, inputVars

\* The action of NewPathsKeepAway.
KeepAway ==
  \A p \in paths' \ paths, q \in paths :
    Len(q) > 1 =>
      /\ strategy = "front" => q[2] \notin ToSet(p)
      /\ strategy = "back"  => q[Len(q) - 1] \notin ToSet(p)

\* A path that a step adds keeps away from those that were there.
LEMMA KeepAwayStep == SearchInv /\ AvoidInv /\ SearchStep => KeepAway
<1> SUFFICES ASSUME SearchInv, AvoidInv, SearchStep PROVE KeepAway
  OBVIOUS
<1>1. CASE EndSearch
  <2> SUFFICES ASSUME strategy \in {"front", "back"},
                      NEW p \in paths' \ paths, NEW q \in paths, Len(q) > 1
               PROVE  Avoided(q) \notin ToSet(p)
    BY DEF KeepAway, Avoided
  <2>1. p \in found /\ pc = "bfs"
    BY <1>1 DEF EndSearch
  <2>2. ToSet(p) \cap avoids = {} /\ Avoided(q) \in avoids
    BY <2>1 DEF SearchInv, BfsInv, AvoidInv, AllAvoidedIn
  <2> QED
    BY <2>2
<1>2. CASE Walk
  BY <1>2 DEF Walk, AvoidInv, KeepAway
<1>3. CASE Perform \/ Visit \/ Return
  BY <1>3 DEF Perform, Visit, Return, KeepAway
<1> QED
  BY <1>1, <1>2, <1>3 DEF SearchStep

\* The search listed or running avoids a vertex of every path found.
LEMMA AvoidInvStep == SearchInv /\ AvoidInv /\ SearchStep => AvoidInv'
<1> SUFFICES ASSUME SearchInv, AvoidInv, SearchStep PROVE AvoidInv'
  OBVIOUS
<1>1. CASE EndSearch
  <2>1. /\ pc = "bfs" /\ pc' = "pick" /\ paths' = paths \cup found /\ strategy' = strategy
        /\ searches' = IF found = {} \/ (\E p \in found : Len(p) < 2)
                       THEN searches ELSE searches \o Respawn
    BY <1>1 DEF EndSearch, inputVars
  <2> SUFFICES ASSUME strategy \in {"front", "back"}, searches' # <<>>
               PROVE  Len(searches') = 1 /\ AllAvoidedIn(searches[1])'
    BY <2>1 DEF AvoidInv
  <2>2. searches = <<>> /\ AllAvoidedIn(avoids)
    BY <2>1 DEF AvoidInv
  <2> DEFINE more == IF strategy = "front" THEN SecondNodes ELSE PenultimateNodes
  <2>3. Respawn = <<avoids \cup more>>
    <3>1. CASE strategy = "front"
      BY <3>1 DEF Respawn
    <3>2. CASE strategy = "back"
      BY <3>2 DEF Respawn
    <3> QED
      BY <3>1, <3>2
  <2>4. searches' = <<avoids \cup more>>
    BY <2>1, <2>2, <2>3
  <2>5. \A q \in found : Avoided(q) \in more
    BY DEF Avoided, SecondNodes, PenultimateNodes
  <2>6. \A q \in paths' : Len(q) > 1 => Avoided(q) \in avoids \cup more
    BY <2>1, <2>2, <2>5 DEF AllAvoidedIn
  <2>7. Len(searches') = 1 /\ searches'[1] = avoids \cup more
    BY <2>4
  <2> QED
    BY <2>1, <2>6, <2>7 DEF AllAvoidedIn, Avoided
<1>2. CASE Perform
  <2>1. /\ searches # <<>> /\ searches' = Front(searches) /\ avoids' = Last(searches)
        /\ pc' = "bfs" /\ UNCHANGED <<strategy, paths>>
    BY <1>2 DEF Perform, inputVars
  <2> SUFFICES ASSUME strategy \in {"front", "back"}
               PROVE  searches' = <<>> /\ AllAvoidedIn(avoids)'
    BY <2>1 DEF AvoidInv
  <2>2. Len(searches) = 1 /\ AllAvoidedIn(searches[1]) /\ searches \in Seq(SUBSET Node)
    BY <2>1 DEF AvoidInv, SearchInv, SearchTypes
  <2>3. searches' = <<>> /\ avoids' = searches[1]
    BY <2>1, <2>2 DEF Front, Last
  <2> QED
    BY <2>1, <2>2, <2>3 DEF AllAvoidedIn, Avoided
<1>3. CASE Visit
  BY <1>3 DEF Visit, AvoidInv, AllAvoidedIn, Avoided, inputVars
<1>4. CASE Walk
  BY <1>4 DEF Walk, AvoidInv, inputVars, bfsVars
<1>5. CASE Return
  BY <1>5 DEF Return, AvoidInv, AllAvoidedIn, Avoided, inputVars, bfsVars
<1> QED
  BY <1>1, <1>2, <1>3, <1>4, <1>5 DEF SearchStep

\* The invariant is about these variables only.
LEMMA AvoidInvStutter == AvoidInv /\ UNCHANGED searchVars => AvoidInv'
BY DEF AvoidInv, AllAvoidedIn, Avoided, searchVars, inputVars, callVars, bfsVars

-----------------------------------------------------------------------------
(* The searches of another graph.                                          *)

\* A graph takes the place of another between searches.
LEMMA NewGraph ==
  ASSUME SearchInv, AvoidInv, pc = "idle", graph' \subseteq Node \X Node,
         UNCHANGED <<strategy, callVars, bfsVars, searches, stack, paths, pc>>
  PROVE  SearchInv' /\ AvoidInv'
<1>1. paths = {} /\ stack = <<>> /\ found = {}
  BY DEF SearchInv
<1>2. SearchTypes'
  BY DEF SearchInv, SearchTypes, callVars, bfsVars
<1>3. SearchInv'
  BY <1>1, <1>2 DEF SearchInv, callVars, bfsVars
<1>4. AvoidInv'
  BY <1>1 DEF AvoidInv, AllAvoidedIn, Avoided, bfsVars
<1> QED
  BY <1>3, <1>4

=============================================================================
