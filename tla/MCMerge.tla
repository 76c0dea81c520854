------------------------------ MODULE MCMerge ------------------------------
(***************************************************************************)
(* Two or three small indices with ids that overlap and differ.            *)
(***************************************************************************)
EXTENDS MergeIndices, TLC

MCSymbol   == {"a", "b", "on", "off", "lang"}
MCRelation == {"CVar_Name", "CFunction_Arity", "CGlobalParameter", "CTADLConfig", "CTADLStats"}
MCColumn   == [CVar_Name |-> <<"TEXT", "TEXT">>, CFunction_Arity |-> <<"TEXT", "INTEGER">>,
               CGlobalParameter |-> <<"INTEGER">>, CTADLConfig |-> <<"TEXT", "TEXT">>,
               CTADLStats |-> <<"TEXT", "INTEGER">>]

NoRows == [r \in MCRelation |-> {}]
Index(symbols, rows) == [sym |-> symbols, rows |-> rows @@ NoRows]

First ==
  Index(<<"a", "b", "lang", "on">>,
        [CVar_Name |-> {<<1, 2>>, <<2, 1>>}, CFunction_Arity |-> {<<1, 2>>, <<2, 1>>},
         CGlobalParameter |-> {<<1>>}, CTADLConfig |-> {<<3, 4>>}, CTADLStats |-> {<<1, 7>>}])

Others ==
  {Index(<<"b", "a">>, [CVar_Name |-> {<<1, 2>>, <<1, 1>>}, CFunction_Arity |-> {<<2, 2>>, <<2, 1>>}]),
   Index((0 :> "off") @@ (2 :> "lang") @@ (5 :> "b"),
         [CTADLConfig |-> {<<2, 0>>}, CFunction_Arity |-> {<<5, 5>>}, CTADLStats |-> {<<5, 8>>}]),
   Index(<<"lang", "on", "a">>, [CTADLConfig |-> {<<1, 2>>}, CGlobalParameter |-> {<<2>>, <<1>>},
                                 CVar_Name |-> {<<3, 3>>}])}

MCMerges ==
  {[inputs |-> ("x" :> x) @@ ("y" :> y), output |-> Index(<<"a">>, [CFunction_Arity |-> {<<1, 1>>}])] :
     <<x, y>> \in {<<First, y>> : y \in Others \cup {First}} \cup Others \X Others}

MCFile     == {"x", "y"}
MCSettings == {<<"lang", "on">>, <<"lang", "off">>, <<"lang", "a">>}
MCInputs   == [CVar_Name |-> {<<"a", "on">>}]

=============================================================================
