-------------------------- MODULE ModelGenerators --------------------------
(***************************************************************************)
(* JSONTranslator (models.py): model generators, which select functions,    *)
(* variables, fields or instructions by constraints and say what holds of   *)
(* them, become the rows of the MG_ relations, from which the rules of      *)
(* souffle-logic/config.dl and information-flow/query.dl compute what was   *)
(* selected, the assignments of models and the endpoints of a query.       *)
(*                                                                         *)
(* A constraint is a record with its keyword in "con"; a key that may be    *)
(* missing is a sequence of at most one value.  A regular expression is one *)
(* of a few patterns.  A port is "Return", an argument with a number, all   *)
(* arguments, or text that is no port, and the rest of it an access path.   *)
(***************************************************************************)
EXTENDS Integers, FiniteSets, SequencesExt

CONSTANTS
  Inputs  \* the lists of generators a check ranges over

VARIABLES
  store,    \* where Facts writes: a directory or an SQLite database
  todo,     \* generators that are still to be translated
  done,     \* those translated, each with the id of its root
  counter, nodes_output,
  facts,    \* the rows of the MG_ relations
  status

modelVars == <<store, todo, done, counter, nodes_output, facts, status>>

ModelsInit ==
  /\ store \in {"dir", "sqlite"}
  /\ todo \in Inputs
  /\ done = <<>>
  /\ counter = 1
  /\ nodes_output = {}
  /\ facts = {}
  /\ status = "run"

----------------------------------------------------------------------------
(* Nodes.  The translator's state is threaded through: the counter, the     *)
(* nodes made for the generator, whether an error was raised, and the node  *)
(* that was returned last.  Text and numbers of a node are kept apart.     *)

Node(id, rel, sym, num, inners) ==
  [id |-> id, rel |-> rel, sym |-> sym, num |-> num, inners |-> inners]

\* The identity of union and of intersection.
nothing == Node(0, "nothing", <<>>, <<>>, <<>>)

Keep(s, n)     == [s EXCEPT !.nodes = @ \cup {n}, !.node = n]
Returning(s, n) == [s EXCEPT !.node = n]
ValueError(s)  == [s EXCEPT !.ok = FALSE]
KeyError(s)    == [s EXCEPT !.ok = FALSE]

atom(s, rel, sym, num, inners) ==
  Keep([s EXCEPT !.counter = @ + 1], Node(s.counter + 1, rel, sym, num, inners))

\* An atom with the id of the generator's root.
modelAtom(s, root, rel, sym, num) == Keep(s, Node(root.id, rel, sym, num, <<>>))

opMutant(s, kind, left, right) ==  \* an intersection with nothing is nothing
  Keep([s EXCEPT !.counter = @ + 1],
       IF left = nothing THEN IF kind = "union" THEN right ELSE left
       ELSE IF right = nothing THEN left
       ELSE Node(s.counter + 1, "MG_OpNode", <<kind>>, <<>>, <<left.id, right.id>>))

\* An id is used up even if no node is made.
op(s, kind, left, right) ==
  Keep([s EXCEPT !.counter = @ + 1],
       IF left = nothing THEN right
       ELSE IF right = nothing THEN left
       ELSE Node(s.counter + 1, "MG_OpNode", <<kind>>, <<>>, <<left.id, right.id>>))

reduce_op(s, kind, list) ==
  FoldLeft(LAMBDA t, n : op(t, kind, n, t.node), Returning(s, nothing), list)

Collected(t, list) == [s |-> t, list |-> Append(list, t.node)]

\* The nodes F makes for xs, one after the other, are made before any is used.
ReduceEach(s, kind, xs, F(_, _)) ==
  LET combine(made) == reduce_op(made.s, kind, made.list)
  IN  combine(FoldLeft(LAMBDA acc, x : Collected(F(acc.s, x), acc.list), [s |-> s, list |-> <<>>], xs))

----------------------------------------------------------------------------
(* Constraints.                                                            *)

\* A list of alternatives, or a key that may be missing.
AnyOf(rel, values)    == [rel |-> rel, values |-> values, list |-> TRUE]
Optional(rel, values) == [rel |-> rel, values |-> values, list |-> FALSE]

con_part(s, part) ==
  IF part.list THEN ReduceEach(s, "union", part.values, LAMBDA t, x : atom(t, part.rel, <<x>>, <<>>, <<>>))
  ELSE IF part.values = <<>> THEN Returning(s, nothing)
  ELSE atom(s, part.rel, part.values, <<>>, <<>>)

con_signature_match(s, con) ==
  ReduceEach(s, "intersection",
    <<AnyOf("MG_SigMatchName", con.names), Optional("MG_SigMatchName", con.name),
      AnyOf("MG_SigMatchParent", con.parents), Optional("MG_SigMatchParent", con.parent),
      Optional("MG_SigMatchUnqualifiedId", con.id)>>, con_part)

con_uses_field(s, con) ==
  ReduceEach(s, "intersection",
    <<AnyOf("MG_UsesFieldName", con.names), Optional("MG_UsesFieldName", con.name),
      Optional("MG_UsesFieldUnqualifiedId", con.id)>>, con_part)

InnerRelation == [parent |-> "MG_Parent", extends |-> "MG_Extends", parameter |-> "MG_Parameter",
                  any_parameter |-> "MG_AnyParameter", number_parameters |-> "MG_NumberParameters",
                  not |-> "MG_Not"]

RECURSIVE handle_constraint(_, _)

\* con_parent, con_extends, con_parameter, con_any_parameter,
\* con_number_parameters and con_not; `num` is the index of the parameters'
\* constraints, which the code takes to be there.
con_inner(s, con) ==
  LET t == handle_constraint(s, con.inner)
  IN  IF con.con \in {"parameter", "any_parameter"} /\ con.num = <<>> THEN KeyError(t)
      ELSE atom(t, InnerRelation[con.con], <<>>, con.num, <<t.node.id>>)

\* So it takes `value`, whether true or false.
con_has_code(s, con) ==
  IF con.code = <<>> THEN KeyError(s) ELSE atom(s, "MG_HasCode", con.code, <<>>, <<>>)

handle_constraint(s, con) ==
  CASE con.con = "missing" -> Returning(s, nothing)
    [] con.con = "name" -> atom(s, "MG_Name", <<con.pattern>>, <<>>, <<>>)
    [] con.con = "signature" -> atom(s, "MG_SigMatchPattern", <<con.pattern>>, <<>>, <<>>)
    [] con.con = "signature_match" -> con_signature_match(s, con)
    [] con.con = "uses_field" -> con_uses_field(s, con)
    [] con.con = "has_code" -> con_has_code(s, con)
    [] con.con = "compare" -> atom(s, "MG_IntCompare", <<con.rel>>, <<con.value>>, <<>>)
    [] con.con = "any_of" ->
         ReduceEach(s, "union", con.inners, LAMBDA t, c : handle_constraint(t, c))
    [] con.con = "all_of" ->
         ReduceEach(s, "intersection", con.inners, LAMBDA t, c : handle_constraint(t, c))
    [] con.con \in DOMAIN InnerRelation -> con_inner(s, con)
    [] OTHER -> ValueError(s)

handle_where(s, where) ==
  ReduceEach(s, "intersection", where, LAMBDA t, c : handle_constraint(t, c))

----------------------------------------------------------------------------
(* Models.                                                                 *)

con_port(port) ==
  CASE port.base = "Return"    -> [param |-> -1, star |-> 0, ap |-> port.ap]
    [] port.base = "Argument"  -> [param |-> port.n, star |-> 0, ap |-> port.ap]
    [] port.base = "Argument*" -> [param |-> -100, star |-> 1, ap |-> port.ap]
    [] OTHER                   -> [param |-> -100, star |-> 0, ap |-> "ValueError"]

IsPort(port) == port.base \in {"Return", "Argument", "Argument*"}


mod_propagation(s, root, props) ==
  LET row(t, k, direction, port) ==
        modelAtom(t, root, "MG_Propagation", <<direction, con_port(port).ap>>,
                  <<con_port(port).param, con_port(port).star, k>>)
      both(t, k) == row(row(t, k, "input", props[k].input), k, "output", props[k].output)
  IN  IF \A k \in DOMAIN props : IsPort(props[k].output) /\ IsPort(props[k].input)
      THEN FoldLeft(both, s, [k \in DOMAIN props |-> k]) ELSE ValueError(s)

\* The sinks come first.
Endpoints(model) ==
  LET of(type, list) == [k \in DOMAIN list |-> [type |-> type, end |-> list[k]]]
  IN  of("sink", model.sinks) \o of("source", model.sources)

\* all_fields of an endpoint, or what it is by default.
AllFields(end, default) == IF end.all_fields = <<>> THEN default ELSE end.all_fields[1]

MethodPorts(end) ==
  IF end.port # <<>> THEN end.port
  ELSE <<[base |-> "Argument*", n |-> 0, ap |-> ""], [base |-> "Return", n |-> 0, ap |-> ""]>>

endpointRows(s, root, e, ports, all) ==
  FoldLeft(LAMBDA t, p : modelAtom(modelAtom(t, root, "MG_Endpoint", <<e.type, e.end.kind>>, <<>>),
                                   root, "MG_EndpointVertex", <<p.ap, all>>, <<p.param, p.star>>),
           s, ports)

mod_endpoints_on_methods(s, root, model) ==
  FoldLeft(LAMBDA t, e :
             IF \A k \in DOMAIN MethodPorts(e.end) : IsPort(MethodPorts(e.end)[k])
             THEN endpointRows(t, root, e, [k \in DOMAIN MethodPorts(e.end) |-> con_port(MethodPorts(e.end)[k])],
                               AllFields(e.end, IF e.end.port = <<>> THEN "true" ELSE "false"))
             ELSE ValueError(t),
           s, Endpoints(model))

\* "field" and "fields".
mod_endpoints_on_variables(s, root, model) ==
  FoldLeft(LAMBDA t, e :
             endpointRows(t, root, e, [k \in DOMAIN e.end.fields |->
                                         [param |-> -100, star |-> 0, ap |-> e.end.fields[k]]],
                          AllFields(e.end, "false")),
           s, Endpoints(model))

\* mod_endpoints_on_fields and mod_endpoints_on_instructions, which has taints too.
mod_endpoints_on(s, root, rel, ends) ==
  FoldLeft(LAMBDA t, e : modelAtom(modelAtom(t, root, "MG_Endpoint", <<e.type, e.end.kind>>, <<>>),
                                   root, rel, <<>>, <<>>), s, ends)

mod_forward_self(s, root, where) ==
  IF where = <<>> THEN s
  ELSE LET t == handle_where(s, where[1])
       IN  modelAtom(t, root, "MG_ForwardSelf", <<>>, <<t.node.id>>)

\* The receiver, if there is one, is passed on as text.
mod_forward_call(s, root, call) ==
  IF call = <<>> THEN s
  ELSE LET t     == handle_where(s, call[1].where)
           ports == call[1].receiver
       IN  IF ports = <<>> THEN atom(t, "MG_ForwardCall", <<"">>, <<root.id, t.node.id, 1>>, <<>>)
           ELSE IF ports[1].base \in {"Return", "Argument"}
           THEN atom(t, "MG_ForwardCall", <<ToString(con_port(ports[1]).param)>>,
                     <<root.id, t.node.id, 0>>, <<>>)
           ELSE ValueError(t)

handle_models(s, root, model, find) ==
  CASE find = "methods" ->
         mod_forward_call(mod_forward_self(mod_endpoints_on_methods(
           mod_propagation(s, root, model.propagation), root, model), root, model.forward_self),
           root, model.forward_call)
    [] find = "variables" -> mod_endpoints_on_variables(s, root, model)
    [] find = "fields" -> mod_endpoints_on(s, root, "MG_EndpointField", Endpoints(model))
    [] find = "instructions" ->
         mod_endpoints_on(s, root, "MG_EndpointInsn",
           Endpoints(model) \o [k \in DOMAIN model.taint |-> [type |-> "taint", end |-> model.taint[k]]])
    [] OTHER -> ValueError(s)

----------------------------------------------------------------------------
(* Generators.                                                             *)

handle_find(gen) ==
  LET start == [counter |-> counter, nodes |-> {}, ok |-> TRUE, node |-> nothing]
      models(where) == Returning(handle_models(where, where.node, gen.model, gen.find), where.node)
  IN  models(handle_where(start, gen.where))

\* What is written for a node: its row, and its children.
RowsOf(n) ==
  LET row(rel, sym, num) == [rel |-> rel, id |-> n.id, sym |-> sym, num |-> num]
  IN  {row(n.rel, n.sym, n.num)}
        \cup (IF n.rel = "MG_OpNode" THEN {row("MG_Edge2", <<>>, n.inners)}
              ELSE {row("MG_Edge1", <<>>, <<n.inners[k]>>) : k \in DOMAIN n.inners})

TranslateMutant ==  \* the counter starts again for each generator
  /\ status = "run" /\ todo # <<>>
  /\ \E s \in {handle_find(Head(todo))} :
     LET new  == s.nodes \ (nodes_output \cup {nothing})
         rows == UNION {RowsOf(n) : n \in new}
         ok   == s.ok /\ (store = "sqlite" => rows \cap facts = {})
     IN  /\ \E written \in IF ok THEN {rows} ELSE IF s.ok THEN SUBSET (rows \ facts) ELSE {{}} :
              facts' = facts \cup written
         /\ counter' = 1
         /\ nodes_output' = IF s.ok THEN nodes_output \cup new ELSE nodes_output
         /\ done' = IF ok THEN Append(done, [gen |-> Head(todo), root |-> s.node.id]) ELSE done
         /\ todo' = IF ok THEN Tail(todo) ELSE todo
         /\ status' = IF ok THEN "run" ELSE "failed"
  /\ UNCHANGED store

TranslateAgainMutant ==  \* nodes that were written are not left out
  /\ status = "run" /\ todo # <<>>
  /\ \E s \in {handle_find(Head(todo))} :
     LET new  == s.nodes \ {nothing}
         rows == UNION {RowsOf(n) : n \in new}
         ok   == s.ok /\ (store = "sqlite" => rows \cap facts = {})
     IN  /\ \E written \in IF ok THEN {rows} ELSE IF s.ok THEN SUBSET (rows \ facts) ELSE {{}} :
              facts' = facts \cup written
         /\ counter' = s.counter
         /\ nodes_output' = IF s.ok THEN nodes_output \cup new ELSE nodes_output
         /\ done' = IF ok THEN Append(done, [gen |-> Head(todo), root |-> s.node.id]) ELSE done
         /\ todo' = IF ok THEN Tail(todo) ELSE todo
         /\ status' = IF ok THEN "run" ELSE "failed"
  /\ UNCHANGED store

\* The next generator of the files is translated, and its nodes are written
\* unless they were before.  An error ends the translation: one in the generator
\* before any of its rows is written; one of the database, for a row it has, after
\* those written before it (in the order of a Python set).
Translate ==
  /\ status = "run" /\ todo # <<>>
  /\ \E s \in {handle_find(Head(todo))} :
     LET new  == s.nodes \ (nodes_output \cup {nothing})
         rows == UNION {RowsOf(n) : n \in new}
         ok   == s.ok /\ (store = "sqlite" => rows \cap facts = {})
     IN  /\ \E written \in IF ok THEN {rows} ELSE IF s.ok THEN SUBSET (rows \ facts) ELSE {{}} :
              facts' = facts \cup written
         /\ counter' = s.counter
         /\ nodes_output' = IF s.ok THEN nodes_output \cup new ELSE nodes_output
         /\ done' = IF ok THEN Append(done, [gen |-> Head(todo), root |-> s.node.id]) ELSE done
         /\ todo' = IF ok THEN Tail(todo) ELSE todo
         /\ status' = IF ok THEN "run" ELSE "failed"
  /\ UNCHANGED store

Finish ==
  /\ status = "run" /\ todo = <<>>
  /\ status' = "done"
  /\ UNCHANGED <<store, todo, done, counter, nodes_output, facts>>

ModelsNext == Translate \/ Finish

ModelsSpec == ModelsInit /\ [][ModelsNext]_modelVars

=============================================================================
