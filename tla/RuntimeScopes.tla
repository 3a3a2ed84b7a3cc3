---------------------------- MODULE RuntimeScopes ----------------------------
(***************************************************************************)
(* RuntimeState: the context stack, the local frames that go with it, the  *)
(* session, global, math and persisted scopes, and the cache of compiled   *)
(* expressions that ExpressionExecutor keeps beside it.  The commands that *)
(* change them come from main.cpp (SwitchContext, /back, /reset, the       *)
(* run_script and session_load_state requests), from the math context      *)
(* (assignments, /fn, /promote) and from the language contexts (/set, the  *)
(* script editor).                                                         *)
(*                                                                         *)
(* Values.  Every value stored and every function defined gets a number of *)
(* its own, in the order of the commands: 0 stands for "not defined", a    *)
(* larger number is a later definition.  Inf is a result that is not       *)
(* finite; JSON has no notation for it, and a document holds null instead. *)
(*                                                                         *)
(* Everything here runs on the engine's main thread, one command per step. *)
(***************************************************************************)
EXTENDS Naturals, Sequences

CONSTANTS
    Variables,      \* names of variables
    Functions,      \* names of functions
    Languages,      \* language contexts, a subset of the five in the catalog
    MaxWrites,      \* bound on the values stored and functions defined
    MaxDepth,       \* bound on the context stack
    Inf,            \* a number that is not finite
    Null            \* JSON null

ASSUME LanguagesAssumption == Languages \subseteq {"lua", "python", "js", "ts", "ruby"}
ASSUME BoundsAssumption == MaxWrites \in Nat /\ MaxDepth \in Nat \ {0}
ASSUME ValuesAssumption == Inf \notin Nat /\ Null \notin Nat /\ Inf # Null

VARIABLES
    contexts,       \* ContextManager's stack: the names, the root first
    frames,         \* m_localVariables and m_localFunctions, frame by frame
    session,        \* m_sessionVariables
    globals,        \* m_globalVariables
    math,           \* m_mathVariables
    persisted,      \* m_persistedVariables
    globalFns,      \* m_globalFunctions
    definitions,    \* m_mathFunctionDefinitions
    cache,          \* g_expressionCache: the f that the compiled "f(1)" calls
    writes,         \* number of values stored and functions defined
    exported,       \* the document of the last session_save_state
    announced,      \* the context of the last context_changed message
    loading         \* ghost: a session was loaded and no context announced yet

stackVars == <<contexts, frames>>
scopeVars == <<session, globals, math, persisted>>
functionVars == <<globalFns, definitions, cache>>
tuiVars == <<announced, loading>>
vars == <<stackVars, scopeVars, functionVars, writes, exported, tuiVars>>

Numbers == 1 .. MaxWrites
Values == Numbers \cup {0, Inf, Null}
Contexts == {"global", "code", "math", "script_editor"} \cup Languages

Unset == [x \in Variables |-> 0]
Undefined == [f \in Functions |-> 0]

Top(s) == s[Len(s)]
Context == Top(contexts)
Local == Top(frames)

\* A frame remembers the depth of the context it was pushed for (a ghost).
Frame(d) == [depth |-> d, vars |-> Unset, fns |-> Undefined]

-----------------------------------------------------------------------------
(* Lookups.                                                                *)

FirstOf(s) == IF \E i \in DOMAIN s : s[i] # 0
              THEN s[CHOOSE i \in DOMAIN s : s[i] # 0 /\ \A j \in 1 .. (i - 1) : s[j] = 0]
              ELSE 0

\* GetVariable(key), seen from a context whose frame holds v.
Read(x, v) == FirstOf(<<v, session[x], globals[x], math[x], persisted[x]>>)

\* GetFunction(name), GetResolvedFunctions.  Nothing in the program ever fills
\* the session and the persisted function maps.
Resolved(f) == FirstOf(<<Local.fns[f], globalFns[f]>>)

-----------------------------------------------------------------------------
(* The stacks.                                                             *)

\* n times PopContext, which never removes the root nor the last frame.
Pop(n) ==
    /\ contexts' = SubSeq(contexts, 1, Len(contexts) - n)
    /\ frames' = SubSeq(frames, 1, Len(frames) - n)

Push(names) ==
    /\ Len(contexts) + Len(names) <= MaxDepth
    /\ contexts' = contexts \o names
    /\ frames' = frames \o [i \in DOMAIN names |-> Frame(Len(contexts) + i)]

\* ResetSession and ImportSessionState leave the root and one empty frame.
ToRoot ==
    /\ contexts' = SubSeq(contexts, 1, 1)
    /\ frames' = <<Frame(1)>>

\* ++m_functionRevision: an entry compiled before is never used again.
BumpRevision == cache' = Undefined

Announce(c) == announced' = c /\ loading' = FALSE

-----------------------------------------------------------------------------
(* Commands of main.cpp.                                                   *)

\* The catalog's reachable lists; an unknown context has those of the root.
ReachableFrom(c) ==
    CASE c = "math" -> {"global", "math"}
      [] c \in Languages \cup {"code"} -> {"global", "code"} \cup Languages
      [] OTHER -> {"global", "code", "math"}

\* SwitchContext, reached by "$c" from any context but the editor, which takes
\* every line as text.
SwitchContext(c) ==
    /\ Context # "script_editor"
    /\ \/ c = "global" /\ Pop(Len(contexts) - 1) /\ Announce("global")
       \/ /\ c \in ReachableFrom(Context) \ {"global", Context}
          /\ Push(<<c>>) /\ Announce(c)
    /\ UNCHANGED <<scopeVars, functionVars, writes, exported>>

\* Variant: the parent is entered and not announced.
BackSilently ==
    /\ Context \notin {"global", "script_editor"}
    /\ Pop(1)
    /\ UNCHANGED <<scopeVars, functionVars, writes, exported, tuiVars>>

Back ==
    /\ Context \notin {"global", "script_editor"}
    /\ Pop(1)
    /\ Announce(contexts[Len(contexts) - 1])
    /\ UNCHANGED <<scopeVars, functionVars, writes, exported>>

\* /reset.  Functions restored from a session are global and stay.
Reset ==
    /\ Context # "script_editor"
    /\ ToRoot
    /\ session' = Unset /\ math' = Unset
    /\ definitions' = Undefined
    /\ BumpRevision
    /\ Announce("global")
    /\ UNCHANGED <<globals, persisted, globalFns, writes, exported>>

\* The run_script request switches to the language, runs the script there and
\* switches back by name; when the script fails it stays in the language.  (In
\* the language itself it changes nothing.)
RunScript(l, succeeds) ==
    /\ l \in ReachableFrom(Context)
    /\ LET entered  == IF l = Context THEN <<>> ELSE <<l>>
           returned == IF succeeds /\ l # Context /\ Context \in ReachableFrom(l)
                       THEN <<Context>> ELSE <<>>
       IN  /\ entered # <<>>
           /\ Push(entered \o returned)
           /\ Announce(Top(entered \o returned))
    /\ UNCHANGED <<scopeVars, functionVars, writes, exported>>

-----------------------------------------------------------------------------
(* Commands of the contexts.                                               *)

NewValue == {writes + 1, Inf}

Count == writes < MaxWrites /\ writes' = writes + 1

\* Variant: the local scope is the first frame.
SetInFirstFrame(x, v) == frames' = [frames EXCEPT ![1].vars[x] = v]

SetLocal(x, v) == frames' = [frames EXCEPT ![Len(frames)].vars[x] = v]

\* "x = <expression>" in the math context.
Assign(x) ==
    /\ Context = "math"
    /\ Count
    /\ \E v \in NewValue : SetLocal(x, v) /\ math' = [math EXCEPT ![x] = v]
    /\ UNCHANGED <<contexts, session, globals, persisted, functionVars, exported, tuiVars>>

\* /set: the global scope at the root, the local one in a language context.
Set(x) ==
    /\ Context \in Languages \cup {"global"}
    /\ Count
    /\ IF Context = "global"
       THEN globals' = [globals EXCEPT ![x] = writes + 1] /\ UNCHANGED frames
       ELSE SetLocal(x, writes + 1) /\ UNCHANGED globals
    /\ UNCHANGED <<contexts, session, math, persisted, functionVars, exported, tuiVars>>

\* RuntimeState::PromoteVariable under the overwrite policy Overwrite, the only one in use.
PromoteVariable(x, scope) ==
    LET v == Local.vars[x]
        Into(name, values) == IF scope = name THEN [values EXCEPT ![x] = v] ELSE values
    IN  /\ v # 0
        /\ session' = Into("session", session)
        /\ globals' = Into("global", globals)
        /\ persisted' = Into("persisted", persisted)
        /\ SetLocal(x, 0)

\* /promote moves a local variable to the scope it names.
Promote(x, scope) ==
    /\ Context = "math"
    /\ PromoteVariable(x, scope)
    /\ UNCHANGED <<contexts, math, functionVars, writes, exported, tuiVars>>

\* Variant: only a new name counts as a change of the registry.
DefineFunctionQuietly(f) ==
    /\ Context = "math"
    /\ Count
    /\ frames' = [frames EXCEPT ![Len(frames)].fns[f] = writes + 1]
    /\ definitions' = [definitions EXCEPT ![f] = writes + 1]
    /\ cache' = IF Local.fns[f] = 0 THEN Undefined ELSE cache
    /\ UNCHANGED <<contexts, scopeVars, globalFns, exported, tuiVars>>

\* /fn f(x) = <body>
DefineFunction(f) ==
    /\ Context = "math"
    /\ Count
    /\ frames' = [frames EXCEPT ![Len(frames)].fns[f] = writes + 1]
    /\ definitions' = [definitions EXCEPT ![f] = writes + 1]
    /\ BumpRevision
    /\ UNCHANGED <<contexts, scopeVars, globalFns, exported, tuiVars>>

\* "f(1)" is compiled unless an entry of this revision exists; it does not
\* compile while f is not in scope.
Evaluate(f) ==
    /\ Context = "math"
    /\ cache[f] = 0 /\ Resolved(f) # 0
    /\ cache' = [cache EXCEPT ![f] = Resolved(f)]
    /\ UNCHANGED <<stackVars, scopeVars, globalFns, definitions, writes, exported, tuiVars>>

\* /new or /edit in a language context; neither announces the editor.
OpenEditor ==
    /\ Context \in Languages
    /\ Push(<<"script_editor">>)
    /\ UNCHANGED <<scopeVars, functionVars, writes, exported, tuiVars>>

\* /run, /save and /cancel in the editor.
CloseEditor ==
    /\ Context = "script_editor"
    /\ Pop(1)
    /\ UNCHANGED <<scopeVars, functionVars, writes, exported, tuiVars>>

-----------------------------------------------------------------------------
(* The session document.                                                   *)

ToJson(values) == [x \in Variables |-> IF values[x] = Inf THEN Null ELSE values[x]]

\* ExportSessionState, after a trip through JSON.
Document == [globals |-> ToJson(globals), persisted |-> ToJson(persisted),
             math |-> ToJson(math), functions |-> definitions]

\* ImportSessionState: the math functions come back as global ones.
Import(doc) ==
    /\ session' = Unset
    /\ globals' = doc.globals /\ persisted' = doc.persisted /\ math' = doc.math
    /\ globalFns' = doc.functions /\ definitions' = doc.functions
    /\ BumpRevision

\* session_save_state
SaveState ==
    /\ exported' = Document
    /\ UNCHANGED <<stackVars, scopeVars, functionVars, writes, tuiVars>>

\* Variant: the contexts stay where they are.
LoadInPlace ==
    /\ Import(exported)
    /\ frames' = <<Frame(1)>>
    /\ loading' = TRUE
    /\ UNCHANGED <<contexts, writes, exported, announced>>

\* session_load_state: the TUI is not told of the context and asks for one.
LoadState ==
    /\ Import(exported)
    /\ ToRoot
    /\ loading' = TRUE
    /\ UNCHANGED <<writes, exported, announced>>

\* /exit or a lost connection, and a new start: the constructor imports the session file, which
\* leaves a frame, and RunMain pushes the root context with a second one.
Restart ==
    /\ Import(Document)
    /\ contexts' = <<"global">>
    /\ frames' = <<Frame(0), Frame(1)>>
    /\ Announce("global")
    /\ UNCHANGED <<writes, exported>>

-----------------------------------------------------------------------------
\* A start without a session file.
Init ==
    /\ contexts = <<"global">>
    /\ frames = <<Frame(1)>>
    /\ session = Unset /\ globals = Unset /\ math = Unset /\ persisted = Unset
    /\ globalFns = Undefined /\ definitions = Undefined /\ cache = Undefined
    /\ writes = 0
    /\ exported = [globals |-> Unset, persisted |-> Unset, math |-> Unset,
                   functions |-> Undefined]
    /\ announced = "global" /\ loading = FALSE

Next ==
    \/ \E c \in Contexts : SwitchContext(c)
    \/ \E l \in Languages : RunScript(l, TRUE) \/ RunScript(l, FALSE)
    \/ \E x \in Variables : Assign(x) \/ Set(x)
    \/ \E x \in Variables, s \in {"session", "global", "persisted"} : Promote(x, s)
    \/ \E f \in Functions : DefineFunction(f) \/ Evaluate(f)
    \/ Back \/ Reset \/ OpenEditor \/ CloseEditor
    \/ SaveState \/ LoadState \/ Restart

Spec == Init /\ [][Next]_vars

-----------------------------------------------------------------------------
(* Properties.                                                             *)

FrameRecords == [depth : 0 .. MaxDepth, vars : [Variables -> Values],
                 fns : [Functions -> 0 .. MaxWrites]]

Documents == [globals : [Variables -> Values], persisted : [Variables -> Values],
              math : [Variables -> Values], functions : [Functions -> 0 .. MaxWrites]]

\* Every variable keeps its type; the stacks are never empty.
TypeOK ==
    /\ contexts \in Seq(Contexts) /\ Len(contexts) \in 1 .. MaxDepth
    /\ frames \in Seq(FrameRecords) /\ Len(frames) > 0
    /\ session \in [Variables -> Values] /\ globals \in [Variables -> Values]
    /\ math \in [Variables -> Values] /\ persisted \in [Variables -> Values]
    /\ globalFns \in [Functions -> 0 .. MaxWrites]
    /\ definitions \in [Functions -> 0 .. MaxWrites]
    /\ cache \in [Functions -> 0 .. MaxWrites]
    /\ writes \in 0 .. MaxWrites
    /\ exported \in Documents
    /\ announced \in Contexts /\ loading \in BOOLEAN

\* The frame that belongs to the i-th context.
FrameOf(i) == frames[Len(frames) - Len(contexts) + i]

\* Each context on the stack has the frame that was pushed for it, whatever
\* mixture of switches, resets, loads and restarts came before: no context works
\* in the locals of another one.
FramesStayAligned ==
    /\ Len(frames) >= Len(contexts)
    /\ \A i \in DOMAIN contexts : FrameOf(i).depth = i

\* The locals of a context that is covered by others do not change until it is
\* on top again: /back finds them as they were left.
LocalsSurviveNesting ==
    [][\/ Reset \/ LoadState \/ Restart
       \/ \A i \in 1 .. (Len(contexts) - 1) :
              i \in DOMAIN contexts' => FrameOf(i)' = FrameOf(i)]_vars

\* An evaluation never calls an older definition of a function than the one in
\* scope.  (It may call a newer one, of a frame that was popped or covered since:
\* PushContext and PopContext do not change the revision.)
EvaluationNotOutdated ==
    Context = "math" => \A f \in Functions : cache[f] # 0 => cache[f] >= Resolved(f)

\* A run_script request that succeeds ends in the context it was made from.
RunScriptComesBack ==
    [][\A l \in Languages : RunScript(l, TRUE) => Top(contexts') = Context]_vars

\* The TUI shows the context the engine is in, but for the editor, which is not
\* announced, and the time between a session load and the switch it asks for.
AnnouncedContextIsCurrent ==
    ~loading /\ Context # "script_editor" => announced = Context

=============================================================================
