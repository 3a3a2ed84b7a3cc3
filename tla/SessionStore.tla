---------------------------- MODULE SessionStore ----------------------------
(***************************************************************************)
(* The session file of the engine: RuntimeState::SaveSession, LoadSession  *)
(* and the places that call them (the constructor and the destructor of    *)
(* RuntimeState, /save, session_save_state, session_load_state and the end *)
(* of RunMain).                                                            *)
(*                                                                         *)
(* A save writes state.json.tmp, moves state.json to state.json.bak and    *)
(* then state.json.tmp to state.json: several system calls, with a crash   *)
(* or an error possible at each.  Names and files are kept apart, as in a  *)
(* POSIX directory: a rename moves the name of a file that another process *)
(* may still be writing.  Nothing locks the directory, so two engines of   *)
(* one user work on the same three names.                                  *)
(*                                                                         *)
(* A session is a number: 0 for the empty one, n for the one after the     *)
(* n-th edit.  What a file may hold besides: Torn (an incomplete document, *)
(* nlohmann::json::parse_error) and Foreign (a document that the import    *)
(* rejects, say of a newer schema_version).                                *)
(***************************************************************************)
EXTENDS Naturals

CONSTANTS
    Engines,        \* engine processes of one user
    Inodes,         \* files; three names and one open file per engine suffice
    MaxEdits,       \* bound on the edits of the session
    Faults,         \* what the environment does: "crash", "error", "damage"
    Nothing,        \* no file of that name, no open file, no saved session
    Torn,           \* content of a file that is not complete
    Foreign         \* content that parses and is rejected by the import

ASSUME MaxEditsAssumption == MaxEdits \in Nat
ASSUME FaultsAssumption == Faults \subseteq {"crash", "error", "damage"}
ASSUME ValuesAssumption ==
    /\ Nothing \notin Inodes \cup Nat \cup {Torn, Foreign}
    /\ Torn \notin Nat \cup {Foreign}
    /\ Foreign \notin Nat

VARIABLES
    name,           \* the directory: the file each of the three names denotes
    content,        \* content of each file
    step,           \* program counter of each engine
    purpose,        \* why it saves: "command", "exit" or "destructor"
    memory,         \* the session each engine holds
    snapshot,       \* the serialized session it saves
    open,           \* the temporary file it has open
    edits,          \* edits so far
    saved,          \* ghost: the session of the last completed save
    damaged,        \* ghost: the state file was damaged since that save
    clean           \* ghost: the last engine ended with two good saves

diskVars   == <<name, content>>
engineVars == <<step, purpose, memory, snapshot, open>>
ghostVars  == <<saved, damaged, clean>>
vars == <<diskVars, engineVars, edits, ghostVars>>

Names == {"main", "bak", "tmp"}
Sessions == 0 .. MaxEdits
Empty == 0
Contents == Sessions \cup {Torn, Foreign}

Exists(f) == name[f] # Nothing
Content(f) == IF Exists(f) THEN content[name[f]] ELSE Nothing

-----------------------------------------------------------------------------
(* LoadSession: without a state file it does not look at the backup; only  *)
(* a parse error makes it try the backup; a rejected document leaves the   *)
(* empty session.                                                          *)

Importable(c) == IF c \in Sessions THEN c ELSE Empty

Loaded == IF Content("main") = Torn THEN Importable(Content("bak"))
                                    ELSE Importable(Content("main"))

Boot(e) ==
    /\ step[e] = "down"
    /\ step' = [step EXCEPT ![e] = "ready"]
    /\ memory' = [memory EXCEPT ![e] = Loaded]
    /\ clean' = FALSE
    /\ UNCHANGED <<diskVars, purpose, snapshot, open, edits, saved, damaged>>

-----------------------------------------------------------------------------
(* The engine between two saves.                                           *)

\* Any command that changes a saved variable or function.
Edit(e) ==
    /\ step[e] = "ready" /\ edits < MaxEdits
    /\ edits' = edits + 1
    /\ memory' = [memory EXCEPT ![e] = edits + 1]
    /\ UNCHANGED <<diskVars, step, purpose, snapshot, open, ghostVars>>

\* SaveSession begins with the export of the session.
StartSave(e, why, session) ==
    /\ step[e] = "ready"
    /\ step' = [step EXCEPT ![e] = "open"]
    /\ purpose' = [purpose EXCEPT ![e] = why]
    /\ memory' = [memory EXCEPT ![e] = session]
    /\ snapshot' = [snapshot EXCEPT ![e] = session]
    /\ UNCHANGED <<diskVars, open, edits, ghostVars>>

\* /save and session_save_state.
Save(e) == StartSave(e, "command", memory[e])

\* session_load_state: a state exported earlier replaces the session, which is
\* saved at once.
LoadState(e) == \E s \in 0 .. edits : StartSave(e, "command", s)

\* The REPL loop ends, or an exception unwinds RunMain past its own save.
Quit(e) == \E why \in {"exit", "destructor"} : StartSave(e, why, memory[e])

\* SaveSession returns.  The save at the end of RunMain is followed by the one
\* of the destructor, and that by the end of the process.
Finish(e) ==
    /\ step' = [step EXCEPT ![e] = IF purpose[e] = "command" THEN "ready"
                                    ELSE IF purpose[e] = "exit" THEN "open"
                                    ELSE "down"]
    /\ purpose' = [purpose EXCEPT ![e] = IF purpose[e] = "exit"
                                         THEN "destructor" ELSE @]
    /\ UNCHANGED <<memory, snapshot, edits>>

-----------------------------------------------------------------------------
(* SaveSession, one system call per step.                                  *)

Advance(e, from, to) ==
    /\ step[e] = from
    /\ step' = [step EXCEPT ![e] = to]
    /\ UNCHANGED <<purpose, memory, snapshot, edits, ghostVars>>

Unused(i) == (\A f \in Names : name[f] # i) /\ (\A e \in Engines : open[e] # i)

\* PersistDurableFile opens the temporary file: O_CREAT | O_TRUNC.
OpenTemp(e) ==
    /\ Advance(e, "open", "write")
    /\ \E i \in Inodes :
        /\ IF Exists("tmp") THEN i = name["tmp"] ELSE Unused(i)
        /\ name' = [name EXCEPT !["tmp"] = i]
        /\ content' = [content EXCEPT ![i] = Torn]
        /\ open' = [open EXCEPT ![e] = i]

\* Faulty variant: an incomplete write goes unnoticed.
WriteUnchecked(e) ==
    /\ Advance(e, "write", "check")
    /\ \E c \in {snapshot[e], Torn} : content' = [content EXCEPT ![open[e]] = c]
    /\ open' = [open EXCEPT ![e] = Nothing]
    /\ UNCHANGED name

\* It writes, syncs and closes.  Over a longer document of another engine the
\* new one leaves a tail of the old.
WriteTemp(e) ==
    /\ Advance(e, "write", "check")
    /\ \E c \in {snapshot[e], Torn} :
        /\ content[open[e]] = Torn => c = snapshot[e]
        /\ content' = [content EXCEPT ![open[e]] = c]
    /\ open' = [open EXCEPT ![e] = Nothing]
    /\ UNCHANGED name

\* Faulty variant: the old backup goes before the check for a state file.
CheckAndDrop(e) ==
    /\ Advance(e, "check", IF Exists("main") THEN "backup" ELSE "publish")
    /\ name' = [name EXCEPT !["bak"] = Nothing]
    /\ UNCHANGED <<content, open>>

\* exists(path) decides whether there is anything to back up.
CheckState(e) ==
    /\ Advance(e, "check", IF Exists("main") THEN "drop" ELSE "publish")
    /\ UNCHANGED <<diskVars, open>>

\* An old backup is removed.
DropBackup(e) ==
    /\ Advance(e, "drop", "backup")
    /\ name' = [name EXCEPT !["bak"] = Nothing]
    /\ UNCHANGED <<content, open>>

\* Faulty variant: the state file is removed, not kept.
DiscardState(e) ==
    /\ Advance(e, "backup", "publish")
    /\ Exists("main")
    /\ name' = [name EXCEPT !["main"] = Nothing]
    /\ UNCHANGED <<content, open>>

\* rename(path, backupPath)
BackUp(e) ==
    /\ Advance(e, "backup", "publish")
    /\ Exists("main")
    /\ name' = [name EXCEPT !["bak"] = name["main"], !["main"] = Nothing]
    /\ UNCHANGED <<content, open>>

\* rename(tempPath, path), and SaveSession returns success.
Publish(e) ==
    /\ step[e] = "publish" /\ Exists("tmp")
    /\ name' = [name EXCEPT !["main"] = name["tmp"], !["tmp"] = Nothing]
    /\ saved' = snapshot[e]
    /\ damaged' = FALSE
    /\ clean' = (purpose[e] = "destructor" /\ saved = snapshot[e] /\ ~damaged)
    /\ Finish(e)
    /\ UNCHANGED <<content, open>>

\* The file a rename needs is gone: another engine took it.
MissingFile(e) == \/ step[e] = "backup" /\ ~Exists("main")
                  \/ step[e] = "publish" /\ ~Exists("tmp")

Saving(e) == step[e] \in {"open", "write", "check", "drop", "backup", "publish"}

\* Any of the calls may fail.  The catch block removes the temporary file,
\* whoever wrote it, and SaveSession returns an error.
FailSave(e) ==
    /\ Saving(e)
    /\ "error" \in Faults \/ MissingFile(e)
    /\ name' = [name EXCEPT !["tmp"] = Nothing]
    /\ open' = [open EXCEPT ![e] = Nothing]
    /\ Finish(e)
    /\ UNCHANGED <<content, ghostVars>>

-----------------------------------------------------------------------------
(* The environment.                                                        *)

\* The process is killed; a file it was writing stays as it is.
Crash(e) ==
    /\ "crash" \in Faults
    /\ step[e] # "down"
    /\ step' = [step EXCEPT ![e] = "down"]
    /\ memory' = [memory EXCEPT ![e] = Empty]
    /\ snapshot' = [snapshot EXCEPT ![e] = Empty]
    /\ open' = [open EXCEPT ![e] = Nothing]
    /\ UNCHANGED <<diskVars, purpose, edits, ghostVars>>

\* The state file is damaged from outside while no engine runs.
Damage ==
    /\ "damage" \in Faults
    /\ \A e \in Engines : step[e] = "down"
    /\ Exists("main") /\ Content("main") # Torn
    /\ content' = [content EXCEPT ![name["main"]] = Torn]
    /\ damaged' = TRUE
    /\ UNCHANGED <<name, engineVars, edits, saved, clean>>

-----------------------------------------------------------------------------
\* A first start, or the files an earlier version of the engine left.
Init ==
    /\ \E i \in Inodes \cup {Nothing} :
        name = [f \in Names |-> IF f = "main" THEN i ELSE Nothing]
    /\ \E c \in {Empty, Foreign} : content = [i \in Inodes |-> c]
    /\ step = [e \in Engines |-> "down"]
    /\ purpose = [e \in Engines |-> "command"]
    /\ memory = [e \in Engines |-> Empty]
    /\ snapshot = [e \in Engines |-> Empty]
    /\ open = [e \in Engines |-> Nothing]
    /\ edits = 0
    /\ saved = Content("main")
    /\ damaged = FALSE
    /\ clean = FALSE

Next ==
    \/ \E e \in Engines :
        \/ Boot(e) \/ Edit(e) \/ Save(e) \/ LoadState(e) \/ Quit(e)
        \/ OpenTemp(e) \/ WriteTemp(e) \/ CheckState(e) \/ DropBackup(e)
        \/ BackUp(e) \/ Publish(e) \/ FailSave(e) \/ Crash(e)
    \/ Damage

Spec == Init /\ [][Next]_vars

-----------------------------------------------------------------------------
(* Properties.                                                             *)

Steps == {"down", "ready", "open", "write", "check", "drop", "backup", "publish"}

\* Every variable keeps its type: names denote files, files hold a session, a
\* torn or a foreign document, engines are between two of their steps.
TypeOK ==
    /\ name \in [Names -> Inodes \cup {Nothing}]
    /\ content \in [Inodes -> Contents]
    /\ step \in [Engines -> Steps]
    /\ purpose \in [Engines -> {"command", "exit", "destructor"}]
    /\ memory \in [Engines -> Sessions]
    /\ snapshot \in [Engines -> Sessions]
    /\ open \in [Engines -> Inodes \cup {Nothing}]
    /\ edits \in 0 .. MaxEdits
    /\ saved \in Contents \cup {Nothing}
    /\ damaged \in BOOLEAN /\ clean \in BOOLEAN

\* Whenever there is a state file, it is complete and holds the session of the
\* last completed save: neither a crash nor an error in the middle of a later
\* save leaves a torn or a stale one behind.
StateFileIsLastSave ==
    Exists("main") /\ ~damaged => Content("main") = saved

\* The session of the last completed save is complete on disk until the next
\* save has completed, in the state file or in the backup, over any number of
\* crashes, failed saves and restarts that did not load it.
SavedSessionOnDisk ==
    saved # Nothing /\ ~damaged => saved \in {Content("main"), Content("bak")}

\* After a regular exit the backup holds the session too: damage to the state
\* file costs nothing, the next start loads the session all the same.
CleanExitSurvivesDamage == clean => Loaded = saved

=============================================================================
