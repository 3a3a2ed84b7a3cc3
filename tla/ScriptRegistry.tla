---------------------------- MODULE ScriptRegistry ----------------------------
(***************************************************************************)
(* The saved scripts of one language: ScriptRegistry.h, and what changes   *)
(* them: the commands of the language context, the engine's script editor, *)
(* the TUI's bridge requests, and saved sessions.                          *)
(*                                                                         *)
(* The registry has no storage of its own.  Everything it knows is spread  *)
(* over the persisted variables, under keys put together from the name of  *)
(* the script: the latest text, one snapshot per version, the metadata, a  *)
(* deletion flag, and one list of names per language.  A key is a sequence *)
(* of the segments that "::" separates, so that it is visible when two of  *)
(* them coincide; the common prefix "<language>::scripts" is left out.  The *)
(* order of the list and the time stamps, which only a listing shows, are  *)
(* left out too.  A text is a constant: the editor keeps it line by line,  *)
(* and splitting and joining give it back up to its last line end.  The    *)
(* buffer a bare /run takes, a session variable that /run and /save write, *)
(* is read by no function of the registry and is left out: running code    *)
(* changes no script.                                                      *)
(***************************************************************************)
EXTENDS Naturals, Sequences, FiniteSets

CONSTANTS
    Names,          \* names a script is given, each a sequence of segments
    Codes,          \* texts a script is saved with
    Numeral,        \* Numeral[v]: the segment std::to_string(v)
    Empty,          \* the empty text
    Garbled,        \* metadata or a list of names, read as the text of a script
    None,           \* no value
    MaxVersion,     \* bound on the versions of a script
    MaxSnapshots,   \* bound on the versions of all scripts together
    MaxKept         \* bound on the versions a saved session holds

Versions == 1 .. MaxVersion
Texts == Codes \cup {Empty, Garbled}

VARIABLES
    store,          \* RuntimeState's persisted variables
    editor,         \* the ScriptEditorContext on top of the stack, or None
    checkpoint      \* a session the user saved: the persisted variables then

vars == <<store, editor, checkpoint>>

-----------------------------------------------------------------------------
(* Keys.                                                                   *)

ScriptKey(n) == n
VersionKey(n, v) == n \o <<"v", Numeral[v]>>
MetaKey(n) == n \o <<"meta">>
DeletedKey(n) == <<"__deleted__">> \o n
RegistryKey == <<"__registry__">>

Keys == {ScriptKey(n) : n \in Names} \cup {MetaKey(n) : n \in Names}
        \cup {DeletedKey(n) : n \in Names} \cup {RegistryKey}
        \cup {VersionKey(n, v) : n \in Names, v \in Versions}

(* No two of them coincide.  Nothing in the code sees to it: "a::v::1" is a *)
(* name like any other, and the latest text of that script is kept under   *)
(* the key of the first snapshot of "a".                                   *)
KeysApart ==
    \A m, n \in Names :
        /\ MetaKey(m) = MetaKey(n) => m = n
        /\ DeletedKey(m) = DeletedKey(n) => m = n
        /\ ScriptKey(m) \notin {MetaKey(n), DeletedKey(n), RegistryKey}
        /\ MetaKey(m) \notin {DeletedKey(n), RegistryKey}
        /\ DeletedKey(m) # RegistryKey
        /\ \A v \in Versions :
              /\ VersionKey(m, v) \notin {ScriptKey(n), MetaKey(n), DeletedKey(n), RegistryKey}
              /\ \A w \in Versions : VersionKey(m, v) = VersionKey(n, w) => m = n /\ v = w

ASSUME KeysAssumption == KeysApart
ASSUME TextsAssumption == None \notin Texts
ASSUME BoundsAssumption == MaxVersion \in Nat

-----------------------------------------------------------------------------
(* Values.  Reading one as what it is not gives what the code falls back   *)
(* to: no text, FALSE, no metadata, no names.                              *)

Absent == [kind |-> "absent"]
Text(t) == [kind |-> "text", text |-> t]
Flag(b) == [kind |-> "flag", on |-> b]
Meta(n, vs) == [kind |-> "meta", version |-> n, versions |-> vs]
Registry(ns) == [kind |-> "names", names |-> ns]

Values == {Absent} \cup {Text(t) : t \in Texts} \cup {Flag(b) : b \in BOOLEAN}
          \cup {Meta(n, 1 .. n) : n \in 0 .. MaxVersion}
          \cup {Registry(ns) : ns \in SUBSET Names}

AnyToString(x) ==
    IF x.kind = "text" THEN x.text
    ELSE IF x.kind \in {"meta", "names"} THEN Garbled ELSE None

AnyToBool(x) == IF x.kind = "flag" THEN x.on ELSE FALSE

ReadRegistry(s) ==
    IF s[RegistryKey].kind = "names" THEN s[RegistryKey].names ELSE {}

ReadMeta(s, n) ==
    IF s[MetaKey(n)].kind = "meta" THEN s[MetaKey(n)] ELSE Meta(0, {})

WriteRegistry(s, ns) == [s EXCEPT ![RegistryKey] = Registry(ns)]

-----------------------------------------------------------------------------
(* The functions of ScriptRegistry.h, from a store to a store or a result. *)

LoadScript(s, n) ==
    IF AnyToBool(s[DeletedKey(n)]) THEN None ELSE AnyToString(s[ScriptKey(n)])

SaveScript(s, n, code) ==
    LET next == ReadMeta(s, n).version + 1
        meta == Meta(next, ReadMeta(s, n).versions \cup {next})
        saved == [s EXCEPT ![VersionKey(n, next)] = Text(code),
                           ![ScriptKey(n)] = Text(code),
                           ![DeletedKey(n)] = Flag(FALSE),
                           ![MetaKey(n)] = meta]
    IN IF n \in ReadRegistry(saved) THEN saved
       ELSE WriteRegistry(saved, ReadRegistry(saved) \cup {n})

DeleteScript(s, n) == [s EXCEPT ![DeletedKey(n)] = Flag(TRUE)]

(* HardDeleteScript finds a script that is listed, or of which anything is *)
(* left; its keys keep an empty text, so it finds a script it has removed. *)
Removable(s, n) ==
    \/ n \in ReadRegistry(s)
    \/ s[MetaKey(n)] # Absent
    \/ s[ScriptKey(n)] # Absent

(* Variant: only the keys are emptied, the deletion flag is not set.       *)
HardDeleteScriptUnflagged(s, n) ==
    LET snapshots == {VersionKey(n, v) : v \in ReadMeta(s, n).versions} IN
    WriteRegistry([k \in Keys |->
                      IF k \in snapshots \cup {MetaKey(n), ScriptKey(n)}
                      THEN Text(Empty) ELSE s[k]],
                  ReadRegistry(s) \ {n})

HardDeleteScript(s, n) ==
    LET unlisted == WriteRegistry(s, ReadRegistry(s) \ {n})
        snapshots == {VersionKey(n, v) : v \in ReadMeta(unlisted, n).versions}
        cleared == [k \in Keys |-> IF k \in snapshots THEN Text(Empty) ELSE unlisted[k]]
    IN [cleared EXCEPT ![MetaKey(n)] = Text(Empty),
                       ![ScriptKey(n)] = Text(Empty),
                       ![DeletedKey(n)] = Flag(TRUE)]

LoadScriptVersion(s, n, v) ==
    IF v \in ReadMeta(s, n).versions THEN AnyToString(s[VersionKey(n, v)]) ELSE None

(* Variants: the latest text is set back without a version of its own; the *)
(* versions after the one that is restored are dropped.                    *)
RollbackScriptInPlace(s, n, v) ==
    [s EXCEPT ![ScriptKey(n)] = Text(LoadScriptVersion(s, n, v)),
              ![DeletedKey(n)] = Flag(FALSE)]

RollbackScriptTruncating(s, n, v) ==
    [s EXCEPT ![ScriptKey(n)] = Text(LoadScriptVersion(s, n, v)),
              ![DeletedKey(n)] = Flag(FALSE),
              ![MetaKey(n)] = Meta(v, 1 .. v)]

RollbackScript(s, n, v) ==
    [SaveScript(s, n, LoadScriptVersion(s, n, v)) EXCEPT ![DeletedKey(n)] = Flag(FALSE)]

ListScripts(s) == {n \in ReadRegistry(s) : ~AnyToBool(s[DeletedKey(n)])}

-----------------------------------------------------------------------------
(* The engine.  A command reaches the language context only while no       *)
(* editor is open; the editor takes every line the user types.  A bridge   *)
(* request is handled before either, with or without an editor.            *)

Commanding == editor = None

Snapshots == {p \in Names \X Versions : p[2] \in ReadMeta(store, p[1]).versions}

Savable(n) ==                                           \* bounds of the model
    ReadMeta(store, n).version < MaxVersion /\ Cardinality(Snapshots) < MaxSnapshots

Keepable == Cardinality(Snapshots) <= MaxKept           \* bound of the model

(* /new <name>: refused for a script that can be loaded.                   *)
New(n) ==
    /\ Commanding
    /\ LoadScript(store, n) = None
    /\ editor' = [name |-> n, text |-> Empty]
    /\ UNCHANGED <<store, checkpoint>>

(* /edit <name>.                                                           *)
Edit(n) ==
    /\ Commanding
    /\ LoadScript(store, n) # None
    /\ editor' = [name |-> n, text |-> LoadScript(store, n)]
    /\ UNCHANGED <<store, checkpoint>>

(* Lines are added to the editor's buffer.                                 *)
Type(code) ==
    /\ editor # None
    /\ editor' = [editor EXCEPT !.text = code]
    /\ UNCHANGED <<store, checkpoint>>

(* /save in the editor, which writes over whatever was saved since /new.   *)
EditorSave ==
    /\ editor # None
    /\ Savable(editor.name)
    /\ store' = SaveScript(store, editor.name, editor.text)
    /\ editor' = None
    /\ UNCHANGED checkpoint

(* /run and /cancel leave the editor without saving.                      *)
EditorLeave ==
    /\ editor # None
    /\ editor' = None
    /\ UNCHANGED <<store, checkpoint>>

(* A save_script request; its content may be empty.                        *)
SaveRequest(n, code) ==
    /\ Savable(n)
    /\ store' = SaveScript(store, n, code)
    /\ UNCHANGED <<editor, checkpoint>>

(* /delete <name>, and a delete_script request.                            *)
Delete(n) ==
    /\ LoadScript(store, n) # None
    /\ store' = DeleteScript(store, n)
    /\ UNCHANGED <<editor, checkpoint>>

(* /delete --hard <name> --confirm <name>, and a request with hard set.    *)
HardDelete(n) ==
    /\ Removable(store, n)
    /\ store' = HardDeleteScript(store, n)
    /\ UNCHANGED <<editor, checkpoint>>

(* /rollback <name> <version>, also of a deleted script.                   *)
Rollback(n, v) ==
    /\ Commanding
    /\ LoadScriptVersion(store, n, v) # None
    /\ Savable(n)
    /\ store' = RollbackScript(store, n, v)
    /\ UNCHANGED <<editor, checkpoint>>

(* session_save_state: the TUI keeps the persisted variables in a file, as *)
(* the engine does when it stops.                                          *)
SaveState ==
    /\ Keepable
    /\ checkpoint' = store
    /\ UNCHANGED <<store, editor>>

(* session_load_state, or an engine started again: the persisted variables *)
(* are replaced and the contexts popped, an open editor with them.         *)
LoadState ==
    /\ checkpoint # None
    /\ store' = checkpoint
    /\ editor' = None
    /\ UNCHANGED checkpoint

(* A script of a version without snapshots: listed, with a latest text.    *)
Unversioned(s, n, code) ==
    [s EXCEPT ![ScriptKey(n)] = Text(code), ![RegistryKey] = Registry({n})]

Init ==
    /\ LET none == [k \in Keys |-> Absent]
       IN store \in {none} \cup {Unversioned(none, n, c) : n \in Names, c \in Codes}
    /\ editor = None
    /\ checkpoint = None

Next ==
    \/ \E n \in Names : New(n) \/ Edit(n) \/ Delete(n) \/ HardDelete(n)
    \/ \E n \in Names, c \in Codes \cup {Empty} : SaveRequest(n, c)
    \/ \E n \in Names, v \in Versions : Rollback(n, v)
    \/ \E c \in Codes : Type(c)
    \/ EditorSave \/ EditorLeave \/ SaveState \/ LoadState

Spec == Init /\ [][Next]_vars

-----------------------------------------------------------------------------
TypeOK ==
    /\ store \in [Keys -> Values]
    /\ editor \in {None} \cup [name : Names, text : Texts]
    /\ checkpoint \in {None} \cup [Keys -> Values]

(***************************************************************************)
(* The versions of a script are numbered without a gap, each has its       *)
(* snapshot, and the text that /run, /show and /edit take is that of the   *)
(* newest: five writes under four kinds of keys agree after every command. *)
(***************************************************************************)
HistoryIsWhole ==
    \A n \in Names :
        LET meta == ReadMeta(store, n) IN
        /\ meta.versions = 1 .. meta.version
        /\ \A v \in meta.versions : LoadScriptVersion(store, n, v) # None
        /\ meta.version > 0 =>
               store[ScriptKey(n)] = store[VersionKey(n, meta.version)]

(***************************************************************************)
(* A script is listed, in /list, in a search and in the TUI's hub, exactly *)
(* when it can be loaded: the list of names, the deletion flag and the     *)
(* text are written by different calls.                                    *)
(***************************************************************************)
ListedIffLoadable ==
    \A n \in Names : n \in ListScripts(store) <=> LoadScript(store, n) # None

(***************************************************************************)
(* A snapshot never changes, "immutable snapshots" in ScriptRegistry.h:    *)
(* whatever is saved, edited or deleted, every version in the history      *)
(* keeps its text, and only a hard delete, which ends the history, or      *)
(* loading a session takes a version away.                                 *)
(***************************************************************************)
History(s, n) == [v \in ReadMeta(s, n).versions |-> s[VersionKey(n, v)]]

SnapshotsAreImmutable ==
    [][\A n \in Names :
          \/ \A v \in DOMAIN History(store, n) :
                /\ v \in DOMAIN History(store', n)
                /\ History(store', n)[v] = History(store, n)[v]
          \/ n \notin ReadRegistry(store')
          \/ store' = checkpoint]_vars
=============================================================================
