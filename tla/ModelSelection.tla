--------------------------- MODULE ModelSelection ---------------------------
(***************************************************************************)
(* What model generators select and cause: the rules of                     *)
(* souffle-logic/config.dl and information-flow/query.dl over the rows that *)
(* the translator wrote, the generators that are exported from an index and *)
(* from a query (models.py), and what the constraints mean by their         *)
(* documentation.                                                          *)
(*                                                                         *)
(* No rule derives a function from the nodes of the constraints parent,     *)
(* extends, parameter and any_parameter, so the relations about names are   *)
(* left out.                                                               *)
(***************************************************************************)
EXTENDS ModelGenerators

CONSTANTS
  Program,  \* the program's relations, and an index's and a query's
  Matches   \* for every pattern, what it matches

Rows(rel) == {r \in facts : r.rel = rel}

\* An operator holds of what its children hold of.
OpStep(E) ==
  UNION {LET kind == (CHOOSE r \in Rows("MG_OpNode") : r.id = e.id).sym[1]
             of(i) == {x[2] : x \in {x \in E : x[1] = i}}
         IN  {<<e.id, x>> : x \in IF kind = "union" THEN of(e.num[1]) \cup of(e.num[2])
                                  ELSE of(e.num[1]) \cap of(e.num[2])} : e \in Rows("MG_Edge2")}

\* Pairs of a node that names a value and what has that value.
Having(rel, table) ==
  {<<r.id, x[1]>> : <<r, x>> \in {<<r, x>> \in Rows(rel) \X table : x[2] = r.sym[1]}}
Matching(rel, table) ==
  {<<r.id, x[1]>> : <<r, x>> \in {<<r, x>> \in Rows(rel) \X table : x[2] \in Matches[r.sym[1]]}}
Same(S) == {<<x, x>> : x \in S}

Compare(rel, n, value) ==
  CASE rel = ">=" -> n >= value [] rel = ">" -> n > value
    [] rel = "<=" -> n <= value [] rel = "<" -> n < value
    [] rel = "!=" -> n # value  [] rel = "==" -> n = value

HasCode == {q[2] : q \in Program.insnIn}

\* One step of the rules from what they have derived so far.
FuncStep(E) ==
  OpStep(E.func)
    \cup Having("MG_SigMatchName", Program.name)
    \cup Having("MG_SigMatchParent", Program.parent)
    \cup Matching("MG_SigMatchPattern", Program.signature)
    \cup Having("MG_SigMatchUnqualifiedId", Same(Program.function))
    \cup Matching("MG_Name", Program.name)
    \cup {<<x[1], q[2]>> : <<x, q>> \in {<<x, q>> \in E.insn \X Program.insnIn : x[2] = q[1]}}
    \cup {<<r.id, q[1]>> : <<r, x, q>> \in
            {<<r, x, q>> \in Rows("MG_Edge1") \X E.num \X Program.arity :
               /\ \E m \in Rows("MG_NumberParameters") : m.id = r.id
               /\ r.num[1] = x[1] /\ q[2] = x[2]}}
    \cup UNION {{<<r.id, f>> : f \in IF r.sym[1] = "true" THEN HasCode ELSE Program.function \ HasCode} :
                  r \in Rows("MG_HasCode")}
    \cup {<<r.id, f>> : <<r, f>> \in
            {<<r, f>> \in Rows("MG_Edge1") \X Program.function :
               /\ \E m \in Rows("MG_Not") : m.id = r.id
               /\ \E x \in E.func : x[1] = r.num[1] /\ x[2] # f}}

VarStep(E) ==
  OpStep(E.var)
    \cup Having("MG_SigMatchName", Program.varName)
    \cup Having("MG_SigMatchParent", Program.varIn)
    \cup Having("MG_SigMatchUnqualifiedId", Same({q[1] : q \in Program.varIn}))

FieldStep(E) ==
  OpStep(E.field)
    \cup Having("MG_SigMatchName", Program.fieldName)
    \cup Matching("MG_SigMatchPattern", Same({q[1] : q \in Program.fieldName}))
    \cup Having("MG_SigMatchUnqualifiedId", Same({q[1] : q \in Program.fieldName}))

InsnStep(E) ==
  LET named == {<<u[1], q[2]>> : <<u, q>> \in {<<u, q>> \in Program.uses \X Program.fieldName : u[2] = q[1]}}
  IN  OpStep(E.insn)
        \cup Having("MG_SigMatchUnqualifiedId", Same({q[1] : q \in Program.insnIn}))
        \cup Having("MG_UsesFieldName", named)
        \cup Having("MG_UsesFieldUnqualifiedId", Program.uses)

\* MG_SuppliesNumber and MG_NumberEval: the arities, filtered by a comparison
\* that is the inner constraint itself, or by the negation of one.
Supplied ==
  {<<e.num[1], q[2]>> : <<e, q>> \in
     {<<e, q>> \in Rows("MG_Edge1") \X Program.arity :
        \E r \in Rows("MG_NumberParameters") : r.id = e.id}}
NumberStep(E) ==
  LET holds(x) == \E r \in Rows("MG_IntCompare") : r.id = x[1] /\ Compare(r.sym[1], x[2], r.num[1])
  IN  OpStep(E.num)
        \cup {x \in Supplied : holds(x)}
        \cup {<<e.id, x[2]>> : <<e, x>> \in
                {<<e, x>> \in Rows("MG_Edge1") \X Supplied :
                   /\ e.num[1] = x[1] /\ ~holds(x)
                   /\ \E r \in Rows("MG_Not") : r.id = e.id
                   /\ \E r \in Rows("MG_IntCompare") : r.id = x[1]}}

RECURSIVE Fixpoint(_)
Fixpoint(E) ==
  LET next == [func |-> FuncStep(E), var |-> VarStep(E), field |-> FieldStep(E),
               insn |-> InsnStep(E), num |-> NumberStep(E)]
  IN  IF next = E THEN E ELSE Fixpoint(next)

Evaluated == Fixpoint([func |-> {}, var |-> {}, field |-> {}, insn |-> {}, num |-> {}])

SelectedBy(E, root) == {x[2] : x \in {x \in E : x[1] = root}}

\* The parameters a row with `num` means, in one function.
Params(f, num) ==
  IF num[2] = 0 THEN {num[1]}
  ELSE {q.index : q \in {q \in Program.formal : q.f = f /\ q.index >= 0}}

\* CFunction_ModelAssign, as far as it comes from one generator.
ModelAssign(root) ==
  UNION {{[f |-> f, dst |-> d, dstAp |-> o.sym[2], src |-> s, srcAp |-> i.sym[2]] :
            d \in Params(f, o.num) \ Program.globals, s \in Params(f, i.num) \ Program.globals} :
           <<f, i, o>> \in {<<f, i, o>> \in SelectedBy(Evaluated.func, root)
                              \X Rows("MG_Propagation") \X Rows("MG_Propagation") :
                              /\ i.id = root /\ o.id = root
                              /\ i.sym[1] = "input" /\ o.sym[1] = "output" /\ i.num[3] = o.num[3]}}

\* The vertices an endpoint means by its path and all_fields: of a formal all there
\* are, of a selected variable the one with the path, as the rules bind both.
FormalVertices(v, sym) ==
  IF sym[2] = "false" THEN {<<v, sym[1]>>} ELSE {x \in Program.vertex : x[1] = v}
VariableVertices(v, sym) ==
  IF sym[2] = "false" THEN {<<v, sym[1]>>} ELSE Program.vertex \cap {<<v, sym[1]>>}

\* TaintSourceVertexNonRec and LeakingSinkVertexNonRec, from one generator.
EndpointVertices(type, root) ==
  LET E == Evaluated
      labels == {r.sym[2] : r \in {r \in Rows("MG_Endpoint") : r.id = root /\ r.sym[1] = type}}
      ports  == {r \in Rows("MG_EndpointVertex") : r.id = root}
      formals(r) == {q.v : q \in {q \in Program.formal : q.f \in SelectedBy(E.func, root)
                                                           /\ q.index \in Params(q.f, r.num)}}
      vars == SelectedBy(E.var, root)
      has(rel) == \E r \in Rows(rel) : r.id = root
      side(a)  == IF type = "source" THEN <<a.v2, a.p2>> ELSE <<a.v1, a.p1>>
      vertices == UNION {FormalVertices(x[2], x[1].sym) : x \in UNION {{r} \X formals(r) : r \in ports}}
                    \cup (UNION {VariableVertices(x[2], x[1].sym) : x \in ports \X vars})
                    \cup {side(a) : a \in {a \in Program.assign :
                            has("MG_EndpointInsn") /\ a.insn \in SelectedBy(E.insn, root)}}
                    \cup (IF has("MG_EndpointField")
                          THEN {x \in {<<a.v1, a.p1>> : a \in Program.assign}
                                       \cup {<<a.v2, a.p2>> : a \in Program.assign} :
                                  x[2] \in SelectedBy(E.field, root)} ELSE {})
  IN  labels \X vertices

----------------------------------------------------------------------------
(* Exported generators.                                                    *)

Optionally(S) == IF S = {} THEN <<>> ELSE <<CHOOSE x \in S : TRUE>>

Signature(name, parents, id) ==
  [con |-> "signature_match", names |-> <<>>, name |-> <<name>>, parents |-> <<>>,
   parent |-> Optionally(parents), id |-> <<id>>]

NoModel == [propagation |-> <<>>, sources |-> <<>>, sinks |-> <<>>, taint |-> <<>>,
            forward_self |-> <<>>, forward_call |-> <<>>]

\* get_propagation_models: the summaries of an index, one generator for a
\* function.  The function has a name and a signature, or a KeyError is raised.
Summaries == {r \in Program.summary : r.m1 = r.m2 /\ r.ctx = ""}
handle_argMutant(n, ap) ==  \* the access path is left out
  [base |-> IF n = -1 THEN "Return" ELSE "Argument", n |-> n, ap |-> ""]
handle_arg(n, ap) == [base |-> IF n = -1 THEN "Return" ELSE "Argument", n |-> n, ap |-> ap]

PropagationModels ==
  LET flows(f) == {[input |-> handle_arg(r.n2, r.p2), output |-> handle_arg(r.n1, r.p1)] :
                     r \in {r \in Summaries : r.m1 = f}}
      name(f)  == CHOOSE n \in {q[2] : q \in Program.name} : <<f, n>> \in Program.name
      parents(f) == {q[2] : q \in {q \in Program.parent : q[1] = f}}
  IN  SetToSeq({[find |-> "methods", where |-> <<Signature(name(f), parents(f), f)>>,
                 model |-> [NoModel EXCEPT !.propagation = SetToSeq(flows(f))]] :
                  f \in {r.m1 : r \in Summaries}})

\* get_endpoint_models: the sources and sinks of a query, one generator for a
\* named variable.  An empty path is left out like a missing one.
EndpointModels ==
  LET ends(S, v) == SetToSeq({[kind |-> x.tag, fields |-> IF x.p = "" THEN <<>> ELSE <<x.p>>,
                               port |-> <<>>, all_fields |-> <<>>] : x \in {x \in S : x.v = v}})
      funcs(v)   == {q[2] : q \in {q \in Program.varIn : q[1] = v}}
      named == {q \in Program.varName : q[1] \in {x.v : x \in Program.sources \cup Program.sinks}}
  IN  SetToSeq({[find |-> "variables", where |-> <<Signature(q[2], funcs(q[1]), q[1])>>,
                 model |-> [NoModel EXCEPT !.sources = ends(Program.sources, q[1]),
                                           !.sinks = ends(Program.sinks, q[1])]] : q \in named})

----------------------------------------------------------------------------
(* What the documentation says (docs/models.rst).                          *)

Listing(xs) == {xs[k] : k \in DOMAIN xs}

\* The functions a constraint of a method holds of.
RECURSIVE Meaning(_)
Meaning(con) ==
  CASE con.con = "name" -> {q[1] : q \in {q \in Program.name : q[2] \in Matches[con.pattern]}}
    [] con.con = "signature" ->
         {q[1] : q \in {q \in Program.signature : q[2] \in Matches[con.pattern]}}
    [] con.con = "signature_match" ->
         {f \in Program.function :
            /\ con.names # <<>> => \E n \in Listing(con.names) : <<f, n>> \in Program.name
            /\ \A n \in Listing(con.name) : <<f, n>> \in Program.name
            /\ con.parents # <<>> => \E n \in Listing(con.parents) : <<f, n>> \in Program.parent
            /\ \A n \in Listing(con.parent) : <<f, n>> \in Program.parent
            /\ \A n \in Listing(con.id) : f = n}
    [] con.con = "uses_field" ->
         {f \in Program.function : \E u \in Program.uses :
            /\ <<u[1], f>> \in Program.insnIn
            /\ \/ u[2] \in Listing(con.id)
               \/ \E n \in Listing(con.names) \cup Listing(con.name) : <<u[2], n>> \in Program.fieldName}
    [] con.con = "has_code" -> IF con.code = <<"false">> THEN Program.function \ HasCode ELSE HasCode
    [] con.con = "number_parameters" ->
         {q[1] : q \in {q \in Program.arity : Compare(con.inner.rel, q[2], con.inner.value)}}
    [] con.con = "any_of" -> UNION {Meaning(c) : c \in Listing(con.inners)}
    [] con.con = "all_of" ->
         {f \in Program.function : \A c \in Listing(con.inners) : f \in Meaning(c)}
    [] con.con = "not" -> Program.function \ Meaning(con.inner)

\* The constraints of methods that the rules implement as they are documented:
\* none without a property, no list without elements, a comparison itself as
\* the inner constraint of number_parameters, and "not" of what holds of one function.
RECURSIVE Implemented(_)
Implemented(con) ==
  CASE con.con \in {"name", "signature", "has_code"} -> TRUE
    [] con.con = "signature_match" ->
         con.names \o con.name \o con.parents \o con.parent \o con.id # <<>>
    [] con.con = "uses_field" ->
         Cardinality({k \in {"names", "name", "id"} : con[k] # <<>>}) = 1
    [] con.con = "number_parameters" -> con.inner.con = "compare"
    [] con.con \in {"any_of", "all_of"} ->
         con.inners # <<>> /\ \A c \in Listing(con.inners) : Implemented(c)
    [] con.con = "not" -> Implemented(con.inner) /\ Cardinality(Meaning(con.inner)) = 1
    [] OTHER -> FALSE

\* Keywords that exist, with the keys that are not optional.
RECURSIVE Known(_)
Known(con) ==
  /\ con.con # "unknown"
  /\ con.con = "parameter" => con.num # <<>>
  /\ "inner" \in DOMAIN con => Known(con.inner)
  /\ "inners" \in DOMAIN con => \A c \in Listing(con.inners) : Known(c)

\* The optional keys are there too.
RECURSIVE Explicit(_)
Explicit(con) ==
  /\ con.con = "has_code" => con.code # <<>>
  /\ con.con = "any_parameter" => con.num # <<>>
  /\ "inner" \in DOMAIN con => Explicit(con.inner)
  /\ "inners" \in DOMAIN con => \A c \in Listing(con.inners) : Explicit(c)

Constraints(gen) ==
  LET calls == Listing(gen.model.forward_call)
  IN  Listing(gen.where) \cup (UNION {Listing(w) : w \in Listing(gen.model.forward_self) \cup {c.where : c \in calls}})

Legal(gen) ==
  /\ gen.find \in {"methods", "variables", "fields", "instructions"}
  /\ \A c \in Constraints(gen) : Known(c)
  /\ \A p \in Listing(gen.model.propagation) : IsPort(p.input) /\ IsPort(p.output)
  /\ \A e \in Listing(gen.model.sources \o gen.model.sinks) : \A p \in Listing(e.port) : IsPort(p)

\* The generators of methods whose selection is settled.
Settled == {g \in Listing(done) :
              /\ g.gen.find = "methods" /\ g.gen.where # <<>>
              /\ \A c \in Listing(g.gen.where) : Implemented(c)}
Selected(gen) == {f \in Program.function : \A c \in Listing(gen.where) : f \in Meaning(c)}

\* "All constraints must be satisfied" (docs/models.rst): what is selected for
\* a generator is what its constraints hold of, whatever was translated before
\* it, and although a constraint that yields no node is the identity of both
\* operators and the nodes of all generators are in the same relations.
SelectionCorrect ==
  \A g \in Settled : SelectedBy(Evaluated.func, g.root) = Selected(g.gen)

Ends(gen, type) == Listing(IF type = "source" THEN gen.model.sources ELSE gen.model.sinks)

\* What the endpoints of a generator of methods mark, each with its kind at its port.
Marked(gen, type) ==
  LET marks(e) ==
        {<<e.kind, <<q.v, p>>>> : <<q, p>> \in
           {<<q, p>> \in Program.formal \X {x[2] : x \in Program.vertex} :
              /\ q.f \in Selected(gen)
              /\ IF e.port = <<>> THEN (q.index >= 0 \/ q.index = -1)
                 ELSE q.index \in Params(q.f, <<con_port(e.port[1]).param, con_port(e.port[1]).star>>)
              /\ IF AllFields(e, IF e.port = <<>> THEN "true" ELSE "false") = "true"
                 THEN <<q.v, p>> \in Program.vertex
                 ELSE p = IF e.port = <<>> THEN "" ELSE e.port[1].ap}}
  IN  UNION {marks(e) : e \in Ends(gen, type)}


\* A source or sink has a kind, "The source name", and a port, "The source access
\* path" (docs/models.rst:139-149): a generator marks each port with the kind of
\* its own endpoint only.
EndpointsApart ==
  \A g \in Settled : \A type \in {"source", "sink"} :
    EndpointVertices(type, g.root) = Marked(g.gen, type)

\* The summaries of an index, exported as models and imported again, are
\* assigned again, except those of global variables.  The endpoints of a query come
\* back if they are in a function and their path is not empty; and a variable that
\* has one endpoint gets no other.
RoundTrip ==
  status = "done" =>
    LET gens == [k \in DOMAIN done |-> done[k].gen]
        all(F(_)) == UNION {F(g.root) : g \in Listing(done)}
        count(S, v) == Cardinality({x \in S : x.v = v})
        kept(S)   == {<<x.tag, <<x.v, x.p>>>> : x \in
                        {x \in S : x.p # "" /\ x.v \in {q[1] : q \in Program.varIn}}}
        again(type) == all(LAMBDA root : EndpointVertices(type, root))
        single(E) == {e \in E : count(Program.sources, e[2][1]) + count(Program.sinks, e[2][1]) = 1}
    IN  /\ gens = PropagationModels =>
             all(ModelAssign) = {[f |-> r.m1, dst |-> r.n1, dstAp |-> r.p1, src |-> r.n2, srcAp |-> r.p2] :
                                   r \in {r \in Summaries : {r.n1, r.n2} \cap Program.globals = {}}}
        /\ gens = EndpointModels =>
             /\ kept(Program.sources) \subseteq again("source")
             /\ kept(Program.sinks) \subseteq again("sink")
             /\ single(again("source")) = single(kept(Program.sources))
             /\ single(again("sink")) = single(kept(Program.sinks))

\* A list of legal generators that gives all keys is translated to its end, into a
\* database too, where a row that is written twice is an error: models without
\* constraints share the root "0".  Without `value` of has_code, which "by default
\* is considered true", or the "optional extra property" start_idx of any_parameter
\* (docs/models.rst:64-70) it is not, as the code takes them to be there.
CompleteTranslated ==
  status = "failed" =>
    ~Legal(Head(todo)) \/ \E c \in Constraints(Head(todo)) : ~Explicit(c)

=============================================================================
