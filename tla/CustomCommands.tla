--------------------------- MODULE CustomCommands ---------------------------
(***************************************************************************)
(* A line at the prompt: ExecuteStage, the global commands, and the        *)
(* commands the user defines (CustomCommandContext), which are stored in   *)
(* persisted variables and run as chains of further lines.                 *)
(*                                                                         *)
(* Lines.  A line is a record [op, ...]: what MetaParser makes of the      *)
(* text.  A body is a sequence of lines, the steps SplitBody cuts it into; *)
(* <<>> is a body with nothing in it.  A body kept by an older version may *)
(* hold any text, so steps that are no slash commands too.                 *)
(*                                                                         *)
(* Storage.  A definition is found through the registry, a list of ids     *)
(* <<scope, name>>, and an entry for each id.  A scope is Everywhere or    *)
(* In(context).  Version 0 is the storage of the first schema: plain names *)
(* in the registry, plain text as entries.  An entry is a map with a name, *)
(* a body and a scope; older ones lack the scope or are plain text.        *)
(*                                                                         *)
(* Plugins.  ExecuteStage asks LuaPluginLoader for every command first,    *)
(* and SwitchContext and BuildContext ask PluginLoader for contexts, but   *)
(* nothing in the engine calls either LoadAll: both are empty, and have no *)
(* step here.                                                              *)
(*                                                                         *)
(* Everything runs on the main thread; a chain is a stack of frames.  The  *)
(* names differ from those of ReplSession, whose loop reads these lines:   *)
(* ReplSessionProofs is about both.                                        *)
(***************************************************************************)
EXTENDS Naturals, Sequences, FiniteSetsExt, SequencesExt

CONSTANTS
    Names,          \* names of custom commands
    GlobalNames,    \* names that are global commands of the engine
    Catalog,        \* the help catalog: the contexts that each one reaches
    Contexts,       \* contexts BuildContext makes
    Languages,      \* those of them that open script editors
    Lines,          \* lines a user types
    Stores,         \* the storage an engine may start with
    MaxDepth,       \* 24: custom commands inside one another
    MaxLines        \* bound on the lines typed

ASSUME LimitsAssumption == MaxDepth \in Nat \ {0} /\ MaxLines \in Nat

Everywhere == <<>>
In(context) == <<context>>
\* The id of a legacy name: it has no scope.
Legacy == <<"legacy">>

Editor == "script_editor"
ASSUME ContextsAssumption ==
    /\ "global" \in DOMAIN Catalog
    /\ Languages \subseteq Contexts
    /\ {"global", Editor} \cap Contexts = {}

Scopes == {Everywhere} \cup {In(c) : c \in DOMAIN Catalog}

\* An engine starts with what some version has written: the first one knew
\* only names.
AllIds == (Scopes \cup {Legacy}) \X Names
ASSUME StoresAssumption ==
    \A s \in Stores :
        /\ s.version \in Nat /\ s.registry \in Seq(AllIds)
        /\ s.version < 2 => \A i \in DOMAIN s.registry : s.registry[i][1] = Legacy

Absent == [form |-> "absent", body |-> <<>>]
Map(body) == [form |-> "map", body |-> body]

VARIABLES
    store,      \* [version, registry, entries]: the persisted variables
    contexts,   \* the context stack
    frames,     \* the custom commands being run, the outermost first
    current,    \* the line being executed
    status,     \* what became of it
    exitRequested, \* RuntimeState::m_exitRequested
    typed,      \* number of lines typed
    broken      \* ghost: a step of this line, at any depth, has failed

commandVars == <<store, contexts, frames, current, status, exitRequested, typed, broken>>

NoLine == [op |-> "none"]
Context == Last(contexts)

CommandsInit ==
    /\ store \in Stores
    /\ contexts = <<"global">> /\ frames = <<>>
    /\ current = NoLine /\ status = "idle"
    /\ exitRequested = FALSE /\ typed = 0 /\ broken = FALSE

-----------------------------------------------------------------------------
(* The storage                                                             *)

Definition(name, scope, body) == [name |-> name, scope |-> scope, body |-> body]
IdOf(d) == <<d.scope, d.name>>

\* The elements of q at the positions in I, in their order.
Filtered(q, I) ==
    LET Upto[n \in 0 .. Len(q)] ==
            IF n = 0 THEN <<>>
            ELSE IF n \in I THEN Append(Upto[n - 1], q[n]) ELSE Upto[n - 1]
    IN Upto[Len(q)]

\* The entry kept for an id.
Entry(s, id) == IF id \in DOMAIN s.entries THEN s.entries[id] ELSE Absent

\* Entries, registry and version as they are written after every change.  The
\* entry of a command that is no longer listed stays.
Written(s, defs) ==
    LET ids == [i \in DOMAIN defs |-> IdOf(defs[i])]
        At(id) == {i \in DOMAIN defs : ids[i] = id}
    IN [version |-> 2, registry |-> ids,
        entries |-> [id \in DOMAIN s.entries \cup {ids[i] : i \in DOMAIN defs} |->
                        IF At(id) # {} THEN Map(defs[Max(At(id))].body) ELSE s.entries[id]]]

\* The entry of an id, as a definition: plain text belongs to no context.
Decoded(s, id) ==
    Definition(id[2], IF Entry(s, id).form = "text" THEN Everywhere ELSE id[1],
               Entry(s, id).body)

\* From the first schema: every name with a body becomes a global command.
Migrated(s) ==
    LET named == {i \in DOMAIN s.registry : /\ Entry(s, s.registry[i]).form = "text"
                                            /\ Entry(s, s.registry[i]).body # <<>>}
        defs == Filtered([i \in DOMAIN s.registry |->
                             Definition(s.registry[i][2], Everywhere, Entry(s, s.registry[i]).body)],
                         named)
    IN [ok |-> TRUE, defs |-> defs, store |-> Written(s, defs)]

\* ReadDefinitions: what cannot be decoded is an error and nothing is changed.
\* Of several entries with one id the first is taken.  An old form or a double
\* makes it write everything again.
ReadDefinitions(s) ==
    LET Id(i) == IdOf(Decoded(s, s.registry[i]))
        listed == {i \in DOMAIN s.registry : Entry(s, s.registry[i]).body # <<>>}
        first == {i \in listed : \A j \in listed : j < i => Id(j) # Id(i)}
        defs == Filtered([i \in DOMAIN s.registry |-> Decoded(s, s.registry[i])], first)
        Has(forms) == \E i \in DOMAIN s.registry : Entry(s, s.registry[i]).form \in forms
        rewrite == Has({"text", "unscoped"}) \/ first # listed
    IN IF s.version < 2 THEN Migrated(s)
       ELSE IF Has({"other"}) THEN [ok |-> FALSE, defs |-> <<>>, store |-> s]
       ELSE [ok |-> TRUE, defs |-> defs, store |-> IF rewrite THEN Written(s, defs) ELSE s]

FindByName(defs, name) == Filtered(defs, {i \in DOMAIN defs : defs[i].name = name})

\* The definition bound to a scope, if there is one.
Bound(defs, name, scope) == Filtered(defs, {i \in DOMAIN defs : IdOf(defs[i]) = <<scope, name>>})

\* A slip: the global definition comes first.
ResolveGlobalFirst(defs, name, context) ==
    Bound(defs, name, Everywhere) \o Bound(defs, name, In(context))

\* The definitions to choose from, the one to take first.
Resolve(defs, name, context) ==
    Bound(defs, name, In(context)) \o Bound(defs, name, Everywhere)

\* What SplitBody accepts: at least one step, and only slash commands.
NotSlash == {"expr", "switch", "shell", "unclosed"}
SplitBody(body) == body # <<>> /\ \A i \in DOMAIN body : body[i].op \notin NotSlash

-----------------------------------------------------------------------------
(* The end of a line or of a step                                          *)

\* RunMain hands what is typed in a script editor to the editor as it is; the
\* steps of a chain come from ExecuteStage, whatever context they run in.
Raw == Context = Editor /\ frames = <<>>

Executing(op) == status = "executing" /\ ~Raw /\ current.op = op

\* The line is done; `fail' hands the reason to the chain around it.
Ends(result) ==
    /\ status' = result
    /\ broken' = (broken \/ result = "failed")
    /\ UNCHANGED <<frames, current, exitRequested, typed>>

Type ==
    /\ status = "idle" /\ ~exitRequested /\ typed < MaxLines
    /\ current' \in Lines
    /\ status' = "executing" /\ typed' = typed + 1 /\ broken' = FALSE
    /\ UNCHANGED <<store, contexts, frames, exitRequested>>

LineDone ==
    /\ status \in {"ok", "failed"} /\ frames = <<>>
    /\ status' = "idle" /\ current' = NoLine
    /\ UNCHANGED <<store, contexts, frames, exitRequested, typed, broken>>

\* A slip: the chain looks only at whether there are steps left.
NextStepRegardless ==
    /\ status \in {"ok", "failed"} /\ frames # <<>>
    /\ LET f == Last(frames)
       IN /\ f.next <= Len(f.body)
          /\ current' = f.body[f.next] /\ status' = "executing"
          /\ frames' = Append(Front(frames), [f EXCEPT !.next = @ + 1])
    /\ UNCHANGED <<store, contexts, exitRequested, typed, broken>>

\* A slip: the same step once more.
NextStepAgain ==
    /\ status = "ok" /\ frames # <<>>
    /\ LET f == Last(frames)
       IN f.next <= Len(f.body) /\ current' = f.body[f.next] /\ status' = "executing"
    /\ UNCHANGED <<store, contexts, frames, exitRequested, typed, broken>>

NextStep ==
    /\ status = "ok" /\ frames # <<>>
    /\ LET f == Last(frames)
       IN /\ f.next <= Len(f.body)
          /\ current' = f.body[f.next] /\ status' = "executing"
          /\ frames' = Append(Front(frames), [f EXCEPT !.next = @ + 1])
    /\ UNCHANGED <<store, contexts, exitRequested, typed, broken>>

\* The last step was done, or one failed (CUSTOM_CHAIN_FAILED): the command
\* around it sees the same.
ChainEnds ==
    /\ frames # <<>>
    /\ status = "failed" \/ (status = "ok" /\ Last(frames).next > Len(Last(frames).body))
    /\ frames' = Front(frames)
    /\ UNCHANGED <<store, contexts, current, status, exitRequested, typed, broken>>

-----------------------------------------------------------------------------
(* ExecuteStage: what is not a command of the context                      *)

\* A parse error, or a pipe.
Refused ==
    /\ Executing("unclosed") \/ Executing("pipe")
    /\ Ends("failed") /\ UNCHANGED <<store, contexts>>

\* !command, through the shell.
ExecuteSystemOp ==
    /\ Executing("shell")
    /\ \E result \in {"ok", "failed"} : Ends(result)
    /\ UNCHANGED <<store, contexts>>

\* A context that is not in the catalog, such as the editor, reaches what the
\* root reaches.
ReachableFrom(c) == Catalog[IF c \in DOMAIN Catalog THEN c ELSE "global"]

\* $context: the root is reached by leaving every other one, the context itself
\* by staying, another one only if the catalog lists it and it can be made.
SwitchContext ==
    /\ Executing("switch")
    /\ \/ /\ current.to = "global"
          /\ contexts' = <<"global">> /\ Ends("ok")
       \/ /\ current.to = Context /\ Context # "global"
          /\ UNCHANGED contexts /\ Ends("ok")
       \/ /\ current.to \notin {"global", Context}
          /\ IF current.to \in ReachableFrom(Context) \cap Contexts
             THEN contexts' = Append(contexts, current.to) /\ Ends("ok")
             ELSE UNCHANGED contexts /\ Ends("failed")
    /\ UNCHANGED store

Back ==
    /\ Executing("back")
    /\ contexts' = IF Context = "global" THEN contexts ELSE Front(contexts)
    /\ Ends("ok") /\ UNCHANGED store

\* Custom commands are persisted: they stay.
Reset ==
    /\ Executing("reset")
    /\ contexts' = <<"global">>
    /\ Ends("ok") /\ UNCHANGED store

\* The chain goes on after it; the prompt does not come back.
Exit ==
    /\ Executing("exit")
    /\ exitRequested' = TRUE /\ status' = "ok"
    /\ UNCHANGED <<store, contexts, frames, current, typed, broken>>

\* Global commands that change nothing kept here answer, and always count as done.
Answers(op) == Executing(op) /\ Ends("ok") /\ UNCHANGED <<store, contexts>>
Help == Answers("help")
ListContexts == Answers("context")
Status == Answers("status")
Save == Answers("save")
Shared == Answers("shared")
Bug == Answers("bug")

GlobalCommand ==
    Back \/ Reset \/ Exit \/ Help \/ ListContexts \/ Status \/ Save \/ Shared \/ Bug

-----------------------------------------------------------------------------
(* Custom commands                                                         *)

\* /run in customcommand, and a single word in any context.
Invoking == \/ Executing("run") /\ Context = "customcommand"
            \/ Executing("expr")

\* ResolveForInvocation does not look for a name that is a global command.
Sought == IF current.name \in GlobalNames
          THEN [ok |-> TRUE, defs |-> <<>>, store |-> store]
          ELSE ReadDefinitions(store)

Depth == Len(frames)

\* The steps are copied: what a step does to the definition comes too late.
Invoke ==
    /\ Invoking /\ Depth < MaxDepth
    /\ \E r \in {Sought} : \E found \in {Resolve(r.defs, current.name, Context)} :
          /\ r.ok /\ found # <<>> /\ SplitBody(found[1].body)
          /\ store' = r.store
          /\ frames' = Append(frames, [name |-> current.name, body |-> found[1].body, next |-> 2])
          /\ current' = found[1].body[1]
    /\ UNCHANGED <<contexts, status, exitRequested, typed, broken>>

\* Storage that cannot be read, the recursion limit, a body that cannot be
\* run, or (for /run) no such command.
InvokeFails ==
    /\ Invoking
    /\ \E r \in {Sought} : \E found \in {Resolve(r.defs, current.name, Context)} :
          /\ \/ ~r.ok
             \/ found # <<>> /\ (Depth >= MaxDepth \/ ~SplitBody(found[1].body))
             \/ found = <<>> /\ current.op = "run"
          /\ store' = r.store
    /\ Ends("failed") /\ UNCHANGED contexts

\* A word that is no custom command goes to the context: a variable to math, a
\* path to sandbox; the root and customcommand know no expressions, and an
\* editor takes it as a line of the script.
Expression ==
    /\ Executing("expr")
    /\ \E r \in {Sought} :
          r.ok /\ Resolve(r.defs, current.name, Context) = <<>> /\ store' = r.store
    /\ \E result \in {"ok", "failed"} :
          /\ Context \in {"global", "customcommand"} => result = "failed"
          /\ Context = Editor => result = "ok"
          /\ Ends(result)
    /\ UNCHANGED contexts

\* ScriptEditorContext: /run, /cancel and (typed) /save leave the editor, of
\* which only the first can fail; anything else is a line of the script.
EditorHandles ==
    /\ \/ /\ current.op = "save"
          /\ contexts' = Front(contexts) /\ Ends("ok")
       \/ /\ current.op = "work"
          /\ contexts' = Front(contexts)
          /\ \E result \in {"ok", "failed"} : Ends(result)
       \/ /\ current.op # "save"
          /\ UNCHANGED contexts /\ Ends("ok")
    /\ UNCHANGED store

HandleRawLine == status = "executing" /\ Raw /\ EditorHandles

\* Any other command goes to the context as it is; /new and /edit of a language
\* open an editor.
Commands == {"define", "list", "show", "delete", "run", "work"}
HandleCommand ==
    /\ \E op \in Commands : Executing(op)
    /\ Context # "customcommand"
    /\ \/ Context = Editor /\ EditorHandles
       \/ /\ Context \in Languages /\ current.op = "work"
          /\ contexts' = Append(contexts, Editor) /\ Ends("ok")
          /\ UNCHANGED store
       \/ /\ Context # Editor
          /\ \E result \in {"ok", "failed"} :
                /\ Context = "global" /\ current.op # "work" => result = "failed"
                /\ Ends(result)
          /\ UNCHANGED <<store, contexts>>

-----------------------------------------------------------------------------
(* CustomCommandContext::HandleCommand                                     *)

InCustom(op) == Executing(op) /\ Context = "customcommand"

\* A handler that has read the definitions ends with this storage.
Leaves(result, s) == store' = s /\ Ends(result) /\ UNCHANGED contexts

Unread == Leaves("failed", store)

\* A slip: a definition of the same name is replaced, whatever its scope.
ReplacedByName(defs, new) ==
    IF \E i \in DOMAIN defs : defs[i].name = new.name
    THEN [i \in DOMAIN defs |-> IF defs[i].name = new.name THEN new ELSE defs[i]]
    ELSE Append(defs, new)

Replaced(defs, new) ==
    IF \E i \in DOMAIN defs : IdOf(defs[i]) = IdOf(new)
    THEN [i \in DOMAIN defs |-> IF IdOf(defs[i]) = IdOf(new) THEN new ELSE defs[i]]
    ELSE Append(defs, new)

\* /define checks the context and the body before it reads.
Define ==
    /\ InCustom("define")
    /\ \E r \in {ReadDefinitions(store)} :
       LET new == Definition(current.name, current.scope, current.body)
       IN IF current.scope \notin Scopes \/ ~SplitBody(current.body) \/ ~r.ok THEN Unread
          ELSE Leaves("ok", Written(r.store, Replaced(r.defs, new)))

List ==
    /\ InCustom("list")
    /\ \E r \in {ReadDefinitions(store)} :
          Leaves(IF r.ok THEN "ok" ELSE "failed", r.store)

\* /show looks as an invocation would, global names included.
ShowDefinition ==
    /\ InCustom("show")
    /\ \E r \in {ReadDefinitions(store)} :
          Leaves(IF r.ok /\ Resolve(r.defs, current.name, Context) # <<>> THEN "ok"
                  ELSE "failed", r.store)

\* /delete: of several definitions the user picks one, or none.
Delete ==
    /\ InCustom("delete")
    /\ \E r \in {ReadDefinitions(store)} :
       LET matches == FindByName(r.defs, current.name)
           Without(d) == Filtered(r.defs, {i \in DOMAIN r.defs : IdOf(r.defs[i]) # IdOf(d)})
       IN \/ matches = <<>> /\ Leaves("failed", r.store)
          \/ Len(matches) > 1 /\ Leaves("ok", r.store)
          \/ \E i \in DOMAIN matches : Leaves("ok", Written(r.store, Without(matches[i])))

UnknownOperation == InCustom("work") /\ Leaves("failed", store)

CustomCommand == Define \/ List \/ ShowDefinition \/ Delete \/ UnknownOperation

Run ==
    \/ LineDone \/ NextStep \/ ChainEnds
    \/ Refused \/ ExecuteSystemOp \/ SwitchContext \/ GlobalCommand
    \/ Invoke \/ InvokeFails \/ Expression \/ HandleRawLine \/ HandleCommand \/ CustomCommand

CommandsNext == Type \/ Run

\* Nothing but the user keeps a line from going on.
CommandsSpec == CommandsInit /\ [][CommandsNext]_commandVars /\ WF_commandVars(Run)

-----------------------------------------------------------------------------
(* Properties                                                              *)

\* The id an entry of the registry goes by, and the entries that stand for an
\* id: those with a body.
IdNow(s, id) == IF s.version < 2 THEN <<Everywhere, id[2]>> ELSE IdOf(Decoded(s, id))
Ids(s) == {IdNow(s, s.registry[i]) : i \in DOMAIN s.registry}
Listed(s, id) ==
    {i \in DOMAIN s.registry :
        /\ IdNow(s, s.registry[i]) = id /\ Entry(s, s.registry[i]).body # <<>>
        /\ s.version < 2 => Entry(s, s.registry[i]).form = "text"}

\* The commands as the user sees them, whatever form they are kept in: a body
\* for each name and scope, <<>> for none.
BodyIn(s, id) == IF Listed(s, id) = {} THEN <<>>
                 ELSE Entry(s, s.registry[Min(Listed(s, id))]).body

\* A custom command comes, changes or goes only by a /define of its name and
\* scope, or a /delete of its name: not by reading the storage, by moving it
\* to the current schema, or by what another command does.
TableChangesOnlyByCommand ==
    [][store' # store =>
          \A id \in Ids(store) \cup Ids(store') :
             BodyIn(store', id) # BodyIn(store, id) =>
                /\ status = "executing" /\ Context = "customcommand"
                /\ current.name = id[2]
                /\ \/ current.op = "define" /\ id[1] = current.scope
                      /\ BodyIn(store', id) = current.body
                   \/ current.op = "delete" /\ BodyIn(store', id) = <<>>]_commandVars

\* README: "built-in > context-bound > global", and what runs is the body of
\* that moment, wherever the line comes from.
InvocationIsMostSpecific ==
    [][Len(frames') > Len(frames) =>
          LET f == Last(frames')
              bound == BodyIn(store, <<In(Context), f.name>>)
          IN /\ f.name \notin GlobalNames
             /\ f.body = IF bound # <<>> THEN bound
                         ELSE BodyIn(store, <<Everywhere, f.name>>)]_commandVars

\* Fail-fast: once a step has failed, at whatever depth, nothing more of the
\* line is executed, and no command around it counts as done.
FailFast == broken => status \in {"failed", "idle"}

\* Every line comes to an end, a command that runs itself too.
LineEnds == status = "executing" ~> status = "idle"
=============================================================================
