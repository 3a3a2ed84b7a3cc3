-------------------------- MODULE SessionDocument --------------------------
(***************************************************************************)
(* The values a session keeps and the document they are saved in: typed    *)
(* values (std::any), their JSON form, ExportSessionState and              *)
(* ImportSessionState, and the commands and requests that put values       *)
(* there: /set, assignments, /promote, /fn, settings_update, what the      *)
(* scripts and the custom commands store, the shared scope of the scripts, *)
(* session_save_state and session_load_state.                              *)
(*                                                                         *)
(* A value and a JSON value are trees, written as functions: from the path *)
(* of each node (as in a JSON pointer) to the node, <<type, scalar>> or    *)
(* <<kind, scalar>>.  A document is a JSON value, so it may have any       *)
(* shape: an edited file, or one of another version.  Texts are compared   *)
(* and trimmed, never taken apart.  How the file gets to the disk is       *)
(* SessionStore, whose names differ.  Of the frames, which RuntimeScopes has, *)
(* there is the one of the math context; which keys scripts and custom     *)
(* commands write is for ScriptRegistry and CustomCommands to say.         *)
(***************************************************************************)
EXTENDS Naturals, Sequences, FiniteSetsExt, SequencesExt

CONSTANTS
    Texts,          \* the texts there are
    Variables,      \* names of variables
    SetCommands,    \* [words, flags] a user gives to /set after the key
    Numbers,        \* the texts strtod takes as a whole, with their doubles
    Booleans,       \* the texts that are a boolean, with their values
    Results,        \* the doubles an expression evaluates to, "inf" if not finite
    Definitions,    \* [name, params, expression] a user gives to /fn
    Uses,           \* for each expression exprtk can parse, the names in it
    Trimmed,        \* for each text of a setting, what Trim leaves
    Updates,        \* fields of settings_update requests
    Stores,         \* what a script or a custom command stores, by keys
    SharedValues,   \* JSON values scripts share
    Edited,         \* documents the engine did not write itself
    MaxSteps        \* bound on the steps

ASSUME StepsAssumption == MaxSteps \in Nat

\* The kind each type is written as, and the type each kind is read as.
KindOf == [null |-> "null", bool |-> "boolean", int64 |-> "number_integer",
           double |-> "number_float", string |-> "string", array |-> "array", object |-> "object"]
TypeOf == [null |-> "null", boolean |-> "bool", number_integer |-> "int64",
           number_float |-> "double", string |-> "string", array |-> "array", object |-> "object"]

\* A branch of a tree: the member of an object, or the item of an array.
Branch == Texts \X Nat
Member(key) == <<key, 0>>
Item(i) == <<"", i>>
Fits(b, kind) == \/ kind = "object" /\ b = Member(b[1])
                 \/ kind = "array" /\ b = Item(b[2])
Tree(j) ==
    /\ <<>> \in DOMAIN j /\ DOMAIN j \subseteq Seq(Branch) /\ IsFiniteSet(DOMAIN j)
    /\ \A p \in DOMAIN j :
          /\ j[p] = <<j[p][1], j[p][2]>> /\ j[p][1] \in DOMAIN TypeOf
          /\ \A n \in 1 .. Len(p) :
                LET parent == SubSeq(p, 1, n - 1)
                IN parent \in DOMAIN j /\ Fits(p[n], j[parent][1])

\* The names of the attributes, and of the settings the TUI changes.
Attributes == {"schema_version", "persisted_variables", "global_variables", "math_state",
               "variables", "functions", "name", "type", "value", "params", "expression"}
KeyOf == [sandbox_ide |-> "sandbox::ide", ai_endpoint |-> "zeri.ai.endpoint",
          ai_model |-> "zeri.ai.model", ai_key |-> "zeri.ai.key"]

\* Neither command takes an empty name, and exprtk no empty expression; what
\* comes from outside has at least been parsed.
ASSUME TextsAssumption == Attributes \cup {KeyOf[f] : f \in DOMAIN KeyOf} \cup {""} \subseteq Texts
ASSUME NamesAssumption ==
    /\ Variables \subseteq Texts \ {""}
    /\ \A d \in Definitions : d.name # "" /\ d.params \in Seq(Texts)
    /\ "" \notin DOMAIN Uses
\* Code and entries are texts, a deletion is a flag, a version is a number.
ASSUME StoresAssumption ==
    \A w \in Stores :
       /\ DOMAIN w \subseteq Texts
       /\ \A k \in DOMAIN w :
             LET node == w[k][<<>>]
             IN /\ w[k] = [p \in {<<>>} |-> <<node[1], node[2]>>]
                /\ node[1] \in {"string", "bool", "int64"}
ASSUME EditedAssumption == \A doc \in Edited : Tree(doc)

VARIABLES
    session,        \* [persisted, globals, math, definitions]
    local,          \* the frame of the math context
    shared,         \* m_sharedVariables
    file,           \* the document in state.json
    corrupted,      \* m_sessionCorrupted
    engine,         \* "up" or "down"
    steps

documentVars == <<session, local, shared, file, corrupted, engine, steps>>

None == <<>>
NoSession == [persisted |-> None, globals |-> None, math |-> None, definitions |-> None]

\* f with k mapped to v: m[k] = v.
With(f, k, v) == [x \in DOMAIN f \cup {k} |-> IF x = k THEN v ELSE f[x]]

-----------------------------------------------------------------------------
(* Values and JSON                                                         *)

Kind(j) == j[<<>>][1]
TextOf(j) == j[<<>>][2]
Branches(j) == {p[1] : p \in DOMAIN j \ {<<>>}}
\* The tree that a branch leads to.
Sub(j, b) == LET below == {p \in DOMAIN j : p # <<>> /\ p[1] = b}
             IN [p \in {Tail(q) : q \in below} |-> j[<<b>> \o p]]

Leaf(kind, scalar) == [p \in {<<>>} |-> <<kind, scalar>>]
\* A container of the trees f has for each of its branches.
Container(kind, f) ==
    LET Below(b) == {<<b>> \o p : p \in DOMAIN f[b]}
    IN [p \in {<<>>} \cup UNION {Below(b) : b \in DOMAIN f} |->
           IF p = <<>> THEN <<kind, None>> ELSE f[p[1]][Tail(p)]]
Object(f) == Container("object", [b \in {Member(k) : k \in DOMAIN f} |-> f[b[1]]])
Array(q) == Container("array", [b \in {Item(i) : i \in DOMAIN q} |-> q[b[2]]])

Text(t) == Leaf("string", t)
Null == Leaf("null", None)
Integer(n) == Leaf("number_integer", n)
EmptyObject == Object(None)
EmptyArray == Array(None)

IsObject(j) == Kind(j) = "object"
IsArray(j) == Kind(j) = "array"
KeysOf(j) == {b[1] : b \in Branches(j)}
ItemsOf(j) == {b[2] : b \in Branches(j)}
Has(j, key) == Member(key) \in Branches(j)
At(j, key, default) == IF Has(j, key) THEN Sub(j, Member(key)) ELSE default

NotFinite == <<"double", "inf">>
NullNode == <<"null", None>>

\* A slip: a whole number is written without a fraction.
AnyValueToJsonShort(v) ==
    [p \in DOMAIN v |->
        IF v[p] = NotFinite THEN NullNode
        ELSE IF v[p] = <<"double", "2.0">> THEN <<"number_integer", 2>>
        ELSE <<KindOf[v[p][1]], v[p][2]>>]

\* AnyValueToJson and the dump, node by node: JSON has no notation for a double
\* that is not finite.
AnyValueToJson(v) ==
    [p \in DOMAIN v |-> IF v[p] = NotFinite THEN NullNode ELSE <<KindOf[v[p][1]], v[p][2]>>]

\* JsonToAnyValue: every JSON value is a value.
JsonToAnyValue(j) == [p \in DOMAIN j |-> <<TypeOf[j[p][1]], j[p][2]>>]

AnyValueTypeName(v) == Kind(v)

-----------------------------------------------------------------------------
(* ExportSessionState                                                      *)

\* The objects of f, in some order of their names.
ArrayOf(f) == LET names == SetToSeq(DOMAIN f)
              IN Array([i \in DOMAIN names |-> Object(f[names[i]])])

Export(s) ==
    LET Plain(f) == Object([k \in DOMAIN f |-> AnyValueToJson(f[k])])
        variables == [k \in DOMAIN s.math |->
                         [name |-> Text(k), type |-> Text(AnyValueTypeName(s.math[k])),
                          value |-> AnyValueToJson(s.math[k])]]
        functions == [n \in DOMAIN s.definitions |->
                         [name |-> Text(n), type |-> Text("function"),
                          params |-> Array([i \in DOMAIN s.definitions[n].params |->
                                               Text(s.definitions[n].params[i])]),
                          expression |-> Text(s.definitions[n].expression)]]
    IN Object([schema_version |-> Integer(2),
               persisted_variables |-> Plain(s.persisted),
               global_variables |-> Plain(s.globals),
               math_state |-> Object([variables |-> ArrayOf(variables),
                                      functions |-> ArrayOf(functions)])])

-----------------------------------------------------------------------------
(* ImportSessionState.  It ends with "ok", with "rejected" (an error is    *)
(* returned), or "threw" (json::value on an attribute of another type).    *)

StringOf(item, key) == At(item, key, Text(""))
Mistyped(item, keys) == \E k \in keys : Kind(StringOf(item, k)) # "string"

\* One entry of math_state.variables.
ParseMathVariable(item) ==
    IF ~IsObject(item) THEN "rejected"
    ELSE IF Mistyped(item, {"name", "type"}) THEN "threw"
    ELSE IF \/ TextOf(StringOf(item, "name")) = "" \/ TextOf(StringOf(item, "type")) = ""
            \/ ~Has(item, "value")
    THEN "rejected" ELSE "ok"

Params(item) == At(item, "params", Null)

\* One entry of math_state.functions.
ParseMathFunction(item) ==
    IF ~IsObject(item) THEN "rejected"
    ELSE IF Mistyped(item, {"name", "type", "expression"}) THEN "threw"
    ELSE IF \/ TextOf(StringOf(item, "name")) = "" \/ TextOf(StringOf(item, "expression")) = ""
            \/ TextOf(StringOf(item, "type")) # "function"
            \/ ~IsArray(Params(item))
            \/ \E b \in Branches(Params(item)) :
                  LET param == Sub(Params(item), b)
                  IN Kind(param) # "string" \/ TextOf(param) = ""
    THEN "rejected" ELSE "ok"

\* A slip: a constant is added to the table of /fn only.
CompileWithFewerConstants(params, expression) ==
    LET constants == {"pi", "epsilon", "inf", "euler", "phi", "sqrt2"}
    IN /\ expression \in DOMAIN Uses
       /\ \A u \in Uses[expression] : u \in constants \/ \E i \in DOMAIN params : params[i] = u

\* The table has the constants and the parameters: no other name compiles.
CompileMathFunction(params, expression) ==
    LET constants == {"pi", "epsilon", "inf", "euler", "phi", "tau", "sqrt2"}
    IN /\ expression \in DOMAIN Uses
       /\ \A u \in Uses[expression] : u \in constants \/ \E i \in DOMAIN params : params[i] = u

\* The objects of an array by their names: a later one replaces an earlier one.
ByName(node) ==
    LET Name(i) == TextOf(StringOf(Sub(node, Item(i)), "name"))
    IN [n \in {Name(i) : i \in ItemsOf(node)} |->
           Sub(node, Item(Max({i \in ItemsOf(node) : Name(i) = n})))]

FunctionOf(item) == [params |-> [i \in ItemsOf(Params(item)) |-> TextOf(Sub(Params(item), Item(i)))],
                     expression |-> TextOf(StringOf(item, "expression"))]

\* The four sections of a document; without a version it is the first schema,
\* all of it persisted variables.
Sections(root) ==
    LET mathState == At(root, "math_state", EmptyObject)
    IN IF ~Has(root, "schema_version")
       THEN [persisted |-> root, globals |-> EmptyObject,
             variables |-> EmptyArray, functions |-> EmptyArray]
       ELSE [persisted |-> At(root, "persisted_variables", EmptyObject),
             globals |-> At(root, "global_variables", EmptyObject),
             variables |-> At(mathState, "variables", EmptyArray),
             functions |-> At(mathState, "functions", EmptyArray)]

\* The first result that is not "ok".
FirstOf(results) == IF \E i \in DOMAIN results : results[i] # "ok"
                    THEN results[CHOOSE i \in DOMAIN results : results[i] # "ok" /\
                                    \A j \in DOMAIN results : j < i => results[j] = "ok"]
                    ELSE "ok"
Check(condition) == IF condition THEN "ok" ELSE "rejected"

\* The header: what is tested before the sections are parsed.
CheckHeader(root) ==
    /\ IsObject(root)
    /\ Has(root, "schema_version") =>
          /\ At(root, "schema_version", Null) \in {Integer(1), Integer(2)}
          /\ IsObject(At(root, "math_state", EmptyObject))

ParseMathVariables(node) ==
    IF IsArray(node) THEN FirstOf([i \in ItemsOf(node) |-> ParseMathVariable(Sub(node, Item(i)))])
    ELSE "rejected"

ParseMathFunctions(node) ==
    IF IsArray(node) THEN FirstOf([i \in ItemsOf(node) |-> ParseMathFunction(Sub(node, Item(i)))])
    ELSE "rejected"

MathVariablesOf(node) == LET items == ByName(node)
                         IN [n \in DOMAIN items |-> JsonToAnyValue(At(items[n], "value", Null))]
MathFunctionsOf(node) == LET items == ByName(node) IN [n \in DOMAIN items |-> FunctionOf(items[n])]

Outcome(root) ==
    IF ~CheckHeader(root) THEN "rejected"
    ELSE LET s == Sections(root)
             parsed == FirstOf(<<Check(IsObject(s.persisted)), Check(IsObject(s.globals)),
                                 ParseMathVariables(s.variables),
                                 ParseMathFunctions(s.functions)>>)
             defs == MathFunctionsOf(s.functions)
         IN IF parsed # "ok" THEN parsed
            ELSE Check(\A n \in DOMAIN defs :
                          CompileMathFunction(defs[n].params, defs[n].expression))

Values(node) == [k \in KeysOf(node) |-> JsonToAnyValue(At(node, k, Null))]

\* What replaces the session once everything has been parsed and compiled.
Imported(root) ==
    LET s == Sections(root)
    IN [persisted |-> Values(s.persisted), globals |-> Values(s.globals),
        math |-> MathVariablesOf(s.variables), definitions |-> MathFunctionsOf(s.functions)]

-----------------------------------------------------------------------------
(* Commands                                                                *)

Count == engine = "up" /\ steps < MaxSteps /\ steps' = steps + 1
Keeps == Count /\ UNCHANGED <<local, shared, file, corrupted, engine>>

\* The text after the key and an optional "=", a sequence of words.
ExtractSetValue(c) == IF c.words # None /\ c.words[1] = "=" THEN Tail(c.words) ELSE c.words

\* Exactly one of the flags, and no other.
ResolveSetType(c) ==
    IF \E type \in {"number", "string", "bool"} : c.flags = {type}
    THEN CHOOSE type \in c.flags : TRUE ELSE "error"

\* "inf" and "1e999" are numbers too.
ParseNumber(text) == IF text \in DOMAIN Numbers THEN {Leaf("double", Numbers[text])} ELSE {}
ParseBoolean(text) == IF text \in DOMAIN Booleans THEN {Leaf("bool", Booleans[text])} ELSE {}

\* The value, if there is one.
ParseSetValue(c) ==
    LET text == ExtractSetValue(c)
        type == ResolveSetType(c)
    IN IF text = None \/ type = "error" THEN {}
       ELSE IF type = "number" THEN ParseNumber(text)
       ELSE IF type = "bool" THEN ParseBoolean(text)
       ELSE {Text(text)}

\* /set at the root.
Set(k) ==
    /\ Keeps
    /\ \E c \in SetCommands : \E v \in ParseSetValue(c) :
          session' = [session EXCEPT !.globals = With(@, k, v)]

\* In the math context /set is for its frame.
SetLocal(k) ==
    /\ Count
    /\ \E c \in SetCommands : \E v \in ParseSetValue(c) : local' = With(local, k, v)
    /\ UNCHANGED <<session, shared, file, corrupted, engine>>

\* x = <expression> in the math context.
Assign(k) ==
    /\ Count
    /\ \E r \in Results :
          /\ local' = With(local, k, Leaf("double", r))
          /\ session' = [session EXCEPT !.math = With(@, k, Leaf("double", r))]
    /\ UNCHANGED <<shared, file, corrupted, engine>>

\* /promote takes a variable out of the frame; the session scope is not saved.
Promote(k) ==
    /\ Count
    /\ k \in DOMAIN local
    /\ local' = [x \in DOMAIN local \ {k} |-> local[x]]
    /\ \/ session' = [session EXCEPT !.globals = With(@, k, local[k])]
       \/ session' = [session EXCEPT !.persisted = With(@, k, local[k])]
       \/ session' = session
    /\ UNCHANGED <<shared, file, corrupted, engine>>

\* The math context is left and entered again: its frame is a new one.
EnterMath ==
    /\ Count
    /\ local' = None
    /\ UNCHANGED <<session, shared, file, corrupted, engine>>

\* HandleDefineFunction has a copy of CompileMathFunction, with a table of its
\* own.
Compiles(d) ==
    LET constants == {"pi", "epsilon", "inf", "euler", "phi", "tau", "sqrt2"}
    IN /\ d.expression \in DOMAIN Uses
       /\ Uses[d.expression] \subseteq constants \cup {d.params[i] : i \in DOMAIN d.params}

\* /fn: an empty parameter or a body that does not compile is an error.
DefineFunction(d) ==
    /\ Keeps
    /\ \A i \in DOMAIN d.params : d.params[i] # ""
    /\ Compiles(d)
    /\ session' = [session EXCEPT !.definitions =
                      With(@, d.name, [params |-> d.params, expression |-> d.expression])]

\* A script or a custom command is saved, deleted or restored.
StoreTexts(w) ==
    /\ Keeps
    /\ session' = [session EXCEPT !.persisted =
                      [k \in DOMAIN @ \cup DOMAIN w |-> IF k \in DOMAIN w THEN w[k] ELSE @[k]]]

\* A script sets a shared value, or deletes it.
SetShared(k) ==
    /\ Count
    /\ \E j \in SharedValues : shared' = With(shared, k, JsonToAnyValue(j))
    /\ UNCHANGED <<session, local, file, corrupted, engine>>

DeleteShared(k) ==
    /\ Count
    /\ shared' = [x \in DOMAIN shared \ {k} |-> shared[x]]
    /\ UNCHANGED <<session, local, file, corrupted, engine>>

\* /reset keeps the global and the persisted variables.
ResetSession ==
    /\ Count
    /\ session' = [session EXCEPT !.math = None, !.definitions = None]
    /\ local' = None /\ shared' = None
    /\ UNCHANGED <<file, corrupted, engine>>

-----------------------------------------------------------------------------
(* Settings                                                                *)

Fields == <<"sandbox_ide", "ai_endpoint", "ai_model", "ai_key">>

\* A field that is stored: a string, and only the key may be left empty.
Accepted(field, j) == Kind(j) = "string" /\ (field = "ai_key" \/ Trimmed[TextOf(j)] # "")

\* The fields are looked at in turn: the first that is refused ends the
\* request, and what was stored before it stays.
Stored(request) ==
    {Fields[i] : i \in {i \in DOMAIN Fields :
                          /\ Fields[i] \in DOMAIN request
                          /\ \A h \in 1 .. i : Fields[h] \in DOMAIN request =>
                                Accepted(Fields[h], request[Fields[h]])}}

SettingsUpdate(request) ==
    /\ Keeps
    /\ session' = [session EXCEPT !.persisted =
           [k \in DOMAIN @ \cup {KeyOf[f] : f \in Stored(request)} |->
               IF \E f \in Stored(request) : KeyOf[f] = k
               THEN Text(Trimmed[TextOf(request[CHOOSE f \in Stored(request) : KeyOf[f] = k])])
               ELSE @[k]]]

-----------------------------------------------------------------------------
(* The document                                                            *)

SaveState ==
    /\ Count
    /\ file' = Export(session)
    /\ UNCHANGED <<session, local, shared, corrupted, engine>>

\* A slip: what has been parsed is taken over at once, so a function that does
\* not compile comes too late.
LoadStateBySections(doc) ==
    /\ Count
    /\ IF Outcome(doc) = "ok"
       THEN /\ session' = Imported(doc) /\ local' = None /\ shared' = None
            /\ file' = Export(Imported(doc)) /\ UNCHANGED engine
       ELSE /\ session' = IF CheckHeader(doc) /\ IsObject(Sections(doc).persisted)
                          THEN [session EXCEPT !.persisted = Values(Sections(doc).persisted)]
                          ELSE session
            /\ UNCHANGED <<local, shared, file, engine>>
    /\ UNCHANGED corrupted

\* session_load_state: imported and saved.  An exception ends the engine, and
\* the destructor saves the session as it is.
LoadDocument(doc) ==
    /\ Count
    /\ \/ /\ Outcome(doc) = "ok"
          /\ session' = Imported(doc) /\ local' = None /\ shared' = None
          /\ file' = Export(Imported(doc)) /\ UNCHANGED engine
       \/ Outcome(doc) = "rejected" /\ UNCHANGED <<session, local, shared, file, engine>>
       \/ /\ Outcome(doc) = "threw"
          /\ engine' = "down" /\ file' = Export(session) /\ UNCHANGED <<session, local, shared>>
    /\ UNCHANGED corrupted

\* /exit, or the connection is lost.
Exit ==
    /\ Count
    /\ file' = Export(session) /\ engine' = "down"
    /\ UNCHANGED <<session, local, shared, corrupted>>

\* The file is edited, or another version has run.
EditFile ==
    /\ engine = "down" /\ steps < MaxSteps /\ steps' = steps + 1
    /\ file' \in Edited
    /\ UNCHANGED <<session, local, shared, corrupted, engine>>

\* The constructor loads the file.  Only an import that returns an error says
\* that the session was corrupted; an exception is caught with the flag down.
Start ==
    /\ engine = "down"
    /\ engine' = "up" /\ local' = None /\ shared' = None
    /\ session' = IF Outcome(file) = "ok" THEN Imported(file) ELSE NoSession
    /\ corrupted' = (Outcome(file) = "rejected")
    /\ UNCHANGED <<file, steps>>

DocumentInit ==
    /\ session = NoSession /\ local = None /\ shared = None /\ file = Export(NoSession)
    /\ corrupted = FALSE /\ engine = "down" /\ steps = 0

DocumentNext ==
    \/ \E k \in Variables : \/ Set(k) \/ SetLocal(k) \/ Assign(k) \/ Promote(k)
                            \/ SetShared(k) \/ DeleteShared(k)
    \/ EnterMath
    \/ \E d \in Definitions : DefineFunction(d)
    \/ \E w \in Stores : StoreTexts(w)
    \/ \E request \in Updates : SettingsUpdate(request)
    \/ \E doc \in Edited \cup {file} : LoadDocument(doc)
    \/ ResetSession \/ SaveState \/ Exit \/ EditFile \/ Start

DocumentSpec == DocumentInit /\ [][DocumentNext]_documentVars

-----------------------------------------------------------------------------
(* Properties                                                              *)

\* Nothing a user can do makes a session whose document the next start would
\* reject or fail on.
ExportIsAccepted == Outcome(Export(session)) = "ok"

\* A document read back is the session it was written from, type by type; a
\* double that is not finite comes back as null.
Finite(v) == [p \in DOMAIN v |-> IF v[p] = NotFinite THEN NullNode ELSE v[p]]
FiniteValues(f) == [k \in DOMAIN f |-> Finite(f[k])]

RoundTripKeepsSession ==
    LET back == Imported(Export(session))
    IN /\ back.persisted = FiniteValues(session.persisted)
       /\ back.globals = FiniteValues(session.globals)
       /\ back.math = FiniteValues(session.math)
       /\ back.definitions = session.definitions

\* A command, a request or a script changes one part of the session, and takes
\* no name out of it.
Part == {"persisted", "globals", "math", "definitions"}
OnePart == \E part \in Part :
              /\ DOMAIN session[part] \subseteq DOMAIN session'[part]
              /\ \A other \in Part \ {part} : session'[other] = session[other]
Cleared == session' = [session EXCEPT !.math = None, !.definitions = None]

\* A document is taken over as a whole or not at all: whatever changes two parts
\* of the session, or takes a value away, is /reset, a start with nothing, or
\* all four parts of one document that is accepted, at a load as at a start.
DocumentsAreTakenWhole ==
    [][\/ OnePart \/ Cleared
       \/ session' = NoSession
       \/ \E doc \in Edited \cup {file} :
             Outcome(doc) = "ok" /\ session' = Imported(doc)]_documentVars
=============================================================================
