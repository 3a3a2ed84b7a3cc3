-------------------------- MODULE MCSessionDocument --------------------------
(* SessionDocument with values of every type, requests with a good and a   *)
(* bad field, and documents that go wrong in each of their parts.          *)
EXTENDS SessionDocument

MCTexts == STRING

Double(d) == Leaf("number_float", d)

MCNumbers == (<<"2">> :> "2.0") @@ (<<"1e999">> :> "inf")
MCBooleans == <<"t">> :> TRUE
MCSetCommands ==
    {[words |-> <<"=">> \o w, flags |-> f] :
        w \in {<<"2">>, <<"1e999">>, <<"t">>, <<>>, <<"a", "b">>},
        f \in {{"number"}, {"bool"}}}
    \cup {[words |-> <<"a", "b">>, flags |-> f] :
            f \in {{"string"}, {}, {"number", "bool"}, {"text"}}}
MCResults == {"2.0", "inf"}

MCUses == ("x^2" :> {"x"}) @@ ("x+y" :> {"x", "y"}) @@ ("tau*x" :> {"tau", "x"})
MCDefinitions ==
    {[name |-> "f", params |-> <<"x">>, expression |-> e] : e \in {"x^2", "tau*x", "x+y", "2+"}}
    \cup {[name |-> "g", params |-> <<"x", "">>, expression |-> "x^2"],
          [name |-> "g", params |-> <<"x", "y">>, expression |-> "x+y"]}

MCTrimmed == ("" :> "") @@ (" " :> "") @@ ("vim" :> "vim") @@ (" vim " :> "vim")
MCUpdates ==
    {[sandbox_ide |-> Text(t)] : t \in {" vim ", " "}}
    \cup {[sandbox_ide |-> Text("vim"), ai_model |-> Integer(1), ai_key |-> Text("")],
          [ai_endpoint |-> Text("vim"), ai_key |-> Text(" ")]}

MCStores ==
    {("lua::scripts::a" :> Text("print(1)")) @@ ("lua::scripts::__deleted__::a" :> Leaf("bool", FALSE))
     @@ ("custom::commands::__schema_version__" :> Leaf("int64", 2))}

MCSharedValues == {Array(<<Integer(1), Null>>)}

Entry(name, value) == Object([name |-> Text(name), type |-> Text("double"), value |-> value])
Function(expression) ==
    Object([name |-> Text("f"), type |-> Text("function"), params |-> Array(<<Text("x")>>),
            expression |-> Text(expression)])
Doc(persisted, variables, functions) ==
    Object([schema_version |-> Integer(2), persisted_variables |-> persisted,
            math_state |-> Object([variables |-> variables, functions |-> functions])])

Nested == Object([a |-> Array(<<Integer(7), Leaf("boolean", FALSE), Object([b |-> Null])>>)])

MCEdited ==
    {Array(None),
     Object([version |-> Integer(1), kept |-> Nested]),
     Object(("sandbox::ide" :> Integer(1)) @@ ("zeri.ai.model" :> Text(" vim "))),
     Object([schema_version |-> Text("2")]),
     Object([schema_version |-> Integer(3)]),
     Object([schema_version |-> Integer(1), math_state |-> EmptyArray]),
     Doc(Object([x |-> Integer(7), y |-> Nested]),
         Array(<<Entry("x", Double("0.5")), Entry("x", Null)>>), Array(<<Function("x^2")>>)),
     Doc(EmptyArray, EmptyArray, EmptyArray),
     Doc(Object([x |-> Null]), EmptyObject, EmptyArray),
     Doc(Object([x |-> Null]), Array(<<Entry("", Null)>>), EmptyArray),
     Doc(Object([x |-> Null]), Array(<<Object([name |-> Integer(7)])>>), EmptyArray),
     Doc(Object([x |-> Null]), EmptyArray, Array(<<Function("x+y")>>)),
     Doc(Object([x |-> Null]), EmptyArray, Array(<<Entry("f", Null)>>))}
=============================================================================
