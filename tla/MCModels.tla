------------------------------ MODULE MCModels ------------------------------
(***************************************************************************)
(* A program of three functions, and lists of up to two generators over it. *)
(***************************************************************************)
EXTENDS ModelSelection

\* get and set are methods of C; the other get is one of D and has no code.
MCProgram ==
  [function  |-> {"f", "g", "h"},
   name      |-> {<<"f", "get">>, <<"g", "set">>, <<"h", "get">>},
   parent    |-> {<<"f", "C">>, <<"g", "C">>, <<"h", "D">>},
   signature |-> {<<"f", "C.get()">>, <<"g", "C.set(x)">>, <<"h", "D.get(x,y)">>},
   arity     |-> {<<"f", 1>>, <<"g", 2>>, <<"h", 3>>},
   formal    |-> {[f |-> f, index |-> n, v |-> v] : <<f, n, v>> \in
                    {<<"f", 0, "f0">>, <<"f", -1, "fr">>, <<"f", -3, "fg">>, <<"g", 0, "g0">>,
                     <<"g", 1, "g1">>, <<"h", 0, "h0">>, <<"h", 1, "h1">>, <<"h", -1, "hr">>}},
   globals   |-> {-3},
   insnIn    |-> {<<"i1", "f">>, <<"i2", "g">>, <<"i3", "g">>},
   uses      |-> {<<"i1", ".a">>, <<"i2", ".b">>, <<"i3", ".a">>},
   fieldName |-> {<<".a", "a">>, <<".b", "b">>},
   varName   |-> {<<"f0", "this">>, <<"g0", "this">>, <<"g1", "x">>, <<"hr", "result">>},
   varIn     |-> {<<"f0", "f">>, <<"fr", "f">>, <<"g0", "g">>, <<"g1", "g">>, <<"h0", "h">>,
                  <<"h1", "h">>, <<"hr", "h">>},
   vertex    |-> {<<"f0", "">>, <<"f0", ".a">>, <<"g0", "">>, <<"g1", "">>, <<"g1", ".b">>,
                  <<"h0", "">>, <<"hr", "">>},
   assign    |-> {[insn |-> "i1", v1 |-> "fr", p1 |-> "", v2 |-> "f0", p2 |-> ".a"],
                  [insn |-> "i2", v1 |-> "g0", p1 |-> ".b", v2 |-> "g1", p2 |-> ""]},
   summary   |-> {[m1 |-> m, n1 |-> n1, p1 |-> p1, m2 |-> m2, n2 |-> n2, p2 |-> p2, ctx |-> c] :
                    <<m, n1, p1, m2, n2, p2, c>> \in
                      {<<"f", -1, "", "f", 0, ".a", "">>, <<"f", -3, "", "f", 0, "", "">>,
                       <<"f", -1, "", "g", 0, "", "">>, <<"g", 0, ".b", "g", 1, "", "">>,
                       <<"g", 1, "", "g", 0, ".b", "">>, <<"g", 1, "", "g", 0, "", "c">>}},
   sources   |-> {[tag |-> "A", v |-> "f0", p |-> ".a"], [tag |-> "B", v |-> "g1", p |-> ""],
                  [tag |-> "A", v |-> "g1", p |-> ".b"]},
   sinks     |-> {[tag |-> "A", v |-> "g0", p |-> ".b"], [tag |-> "B", v |-> "f0", p |-> ".a"]}]

\* Patterns: "C.*" for signatures, ".et" and "g.*" for names.
MCMatches == [inC |-> {"C.get()", "C.set(x)"}, et |-> {"get", "set"}, g |-> {"get"}]

Match(names, name, parents, parent, id) ==
  [con |-> "signature_match", names |-> names, name |-> name, parents |-> parents,
   parent |-> parent, id |-> id]
Uses(names, name, id) == [con |-> "uses_field", names |-> names, name |-> name, id |-> id]
Named(n)   == Match(<<>>, <<n>>, <<>>, <<>>, <<>>)
Pattern(p) == [con |-> "name", pattern |-> p]
Inner(con, inner)  == [con |-> con, num |-> <<>>, inner |-> inner]
Indexed(con, n, inner) == [con |-> con, num |-> <<n>>, inner |-> inner]
Inners(con, inners) == [con |-> con, inners |-> inners]
Code(value) == [con |-> "has_code", code |-> value]
Arity(rel, n) == Inner("number_parameters", [con |-> "compare", rel |-> rel, value |-> n])

Wheres ==
  {<<>>, <<[con |-> "missing"]>>, <<[con |-> "unknown"]>>,
   <<Named("get")>>, <<Named("get"), Match(<<>>, <<>>, <<"C">>, <<>>, <<>>)>>,
   <<Match(<<"get", "set">>, <<>>, <<"D", "C">>, <<"C">>, <<>>)>>,
   <<Match(<<>>, <<>>, <<>>, <<"C">>, <<"g">>), Pattern("et")>>,
   <<Match(<<>>, <<>>, <<>>, <<>>, <<>>), Named("set")>>,
   <<[con |-> "signature", pattern |-> "inC"], Code(<<"true">>)>>,
   <<Code(<<"false">>)>>,
   <<Inners("any_of", <<Named("set"), Code(<<"false">>)>>)>>,
   <<Inners("all_of", <<Pattern("g"), Inners("any_of", <<Named("set"), Named("get")>>)>>), [con |-> "missing"]>>,
   <<Inner("not", Named("set"))>>, <<Inner("not", Named("get"))>>,
   <<Inner("not", Inners("all_of", <<Pattern("g"), Match(<<>>, <<>>, <<>>, <<"C">>, <<>>)>>))>>,
   <<Arity(">", 1), Arity("<=", 2)>>, <<Arity("!=", 2)>>, <<Arity(">=", 3)>>, <<Arity("<", 2)>>,
   <<Arity("==", 3)>>, <<Inner("number_parameters", Inner("not", [con |-> "compare", rel |-> "<", value |-> 2]))>>,
   <<Uses(<<"a", "b">>, <<>>, <<>>)>>, <<Uses(<<>>, <<"b">>, <<>>), Uses(<<>>, <<>>, <<".a">>)>>,
   <<Indexed("parameter", 0, Pattern("g"))>>, <<Indexed("any_parameter", 1, Pattern("g"))>>,
   <<Code(<<>>)>>, <<Inners("any_of", <<Named("set"), Inner("any_parameter", Pattern("g"))>>)>>}

Port(base, n, ap) == [base |-> base, n |-> n, ap |-> ap]
Arg(n)  == Port("Argument", n, "")
Return  == Port("Return", 0, "")
All     == Port("Argument*", 0, "")
NoPort  == Port("text", 0, "")
End(kind, port)   == [kind |-> kind, port |-> port, all_fields |-> <<>>, fields |-> <<>>]
Field(kind, field) == [kind |-> kind, port |-> <<>>, all_fields |-> <<>>, fields |-> <<field>>]

Flow(input, output) == [input |-> input, output |-> output]
Flows == [NoModel EXCEPT !.propagation = <<Flow(Arg(1), Return), Flow(Port("Argument", 0, ".a"), Arg(1))>>]
Source == [NoModel EXCEPT !.sources = <<End("A", <<Port("Argument", 0, ".a")>>)>>]

Models ==
  {Flows, Source,
   [NoModel EXCEPT !.propagation = <<Flow(All, Arg(-3)), Flow(Return, All)>>],
   [NoModel EXCEPT !.propagation = <<Flow(Arg(0), Return), Flow(NoPort, Return)>>],
   [NoModel EXCEPT !.sinks = <<End("B", <<>>)>>],
   [NoModel EXCEPT !.sinks = <<[End("B", <<All>>) EXCEPT !.all_fields = <<"true">>]>>],
   [NoModel EXCEPT !.sources = <<End("A", <<Arg(0)>>), End("B", <<Arg(1)>>)>>, !.sinks = <<End("A", <<Return>>)>>],
   [NoModel EXCEPT !.sources = <<End("A", <<NoPort>>)>>],
   [NoModel EXCEPT !.forward_self = <<<<Named("set")>>>>,
                   !.forward_call = <<[where |-> <<Pattern("g")>>, receiver |-> <<Arg(1)>>]>>],
   [NoModel EXCEPT !.forward_call = <<[where |-> <<Named("get")>>, receiver |-> <<>>]>>]}

Generator(find, where, model) == [find |-> find, where |-> where, model |-> model]

First ==
  {Generator("methods", w, m) : w \in Wheres, m \in {Flows, Source}}
    \cup {Generator("methods", <<Named("get")>>, m) : m \in Models}
    \cup {Generator("variables", <<Match(<<"this", "x">>, <<>>, <<>>, <<"g">>, <<>>)>>,
                    [NoModel EXCEPT !.sinks = <<Field("B", ".b"), Field("A", "")>>]),
          Generator("variables", <<Match(<<>>, <<"x">>, <<>>, <<>>, <<>>)>>,
                    [NoModel EXCEPT !.sources = <<[Field("A", ".b") EXCEPT !.all_fields = <<"true">>]>>]),
          Generator("fields", <<Named("a")>>, Source),
          Generator("instructions", <<Uses(<<"a">>, <<>>, <<>>)>>,
                    [Source EXCEPT !.taint = <<End("T", <<>>)>>]),
          Generator("classes", <<Named("C")>>, NoModel)}

\* What comes after another: models without constraints, and a few of each kind.
Second ==
  {Generator("methods", w, Source) : w \in {<<>>, <<Pattern("et"), Named("get")>>, <<Inner("not", Named("set"))>>}}
    \cup {Generator("methods", <<Match(<<"get", "set">>, <<>>, <<>>, <<"C">>, <<>>)>>, m) : m \in Models}

MCInputs ==
  {<<x>> : x \in First} \cup {<<x, y>> : x \in First, y \in Second}
    \cup {PropagationModels, EndpointModels}

=============================================================================
