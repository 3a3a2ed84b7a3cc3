------------------------ MODULE ScriptRegistryProofs ------------------------
(***************************************************************************)
(* What the script registry promises, for any names whose keys do not      *)
(* coincide and any texts.  StoreInv says what every command leaves in the *)
(* persisted variables; as a saved session is such a store too, it holds   *)
(* of the checkpoint, and loading a session keeps it.                      *)
(***************************************************************************)
EXTENDS ScriptRegistry, TLAPS

\* One script: its latest text, its snapshots and its entry in the list.
ScriptInv(s, n) ==
    /\ s[ScriptKey(n)].kind \in {"absent", "text"}
    /\ \A v \in ReadMeta(s, n).versions : s[VersionKey(n, v)].kind = "text"
    /\ ReadMeta(s, n).version > 0 =>
           s[ScriptKey(n)] = s[VersionKey(n, ReadMeta(s, n).version)]
    /\ n \in ReadRegistry(s) => s[ScriptKey(n)].kind = "text"
    /\ s[ScriptKey(n)].kind = "text" =>
           n \in ReadRegistry(s) \/ AnyToBool(s[DeletedKey(n)])

StoreInv(s) ==
    /\ s \in [Keys -> Values]
    /\ \A n \in Names : ScriptInv(s, n)

RegistryInv ==
    /\ StoreInv(store)
    /\ editor \in {None} \cup [name : Names, text : Texts]
    /\ checkpoint # None => StoreInv(checkpoint)

\* What a command on script n may do to the others: nothing.
OthersKept(s, t, n) ==
    \A m \in Names \ {n} :
        /\ t[ScriptKey(m)] = s[ScriptKey(m)]
        /\ t[MetaKey(m)] = s[MetaKey(m)]
        /\ t[DeletedKey(m)] = s[DeletedKey(m)]
        /\ \A v \in Versions : t[VersionKey(m, v)] = s[VersionKey(m, v)]
        /\ m \in ReadRegistry(t) <=> m \in ReadRegistry(s)

\* The snapshots of script n are kept.
SnapshotsKept(s, t, n) ==
    \A v \in ReadMeta(s, n).versions :
        v \in ReadMeta(t, n).versions /\ t[VersionKey(n, v)] = s[VersionKey(n, v)]

-----------------------------------------------------------------------------
(* Keys and values.                                                        *)

\* What the keys of a script are.
LEMMA KeyTypes ==
    /\ RegistryKey \in Keys
    /\ \A n \in Names : ScriptKey(n) \in Keys /\ MetaKey(n) \in Keys /\ DeletedKey(n) \in Keys
    /\ \A n \in Names : \A v \in Versions : VersionKey(n, v) \in Keys
  BY DEF Keys

\* What may lie under a key.
LEMMA ValueTypes ==
    /\ Absent \in Values
    /\ \A t \in Texts : Text(t) \in Values /\ Text(t).kind = "text" /\ Text(t).text = t
    /\ \A f \in BOOLEAN : Flag(f) \in Values
    /\ \A k \in 0 .. MaxVersion : Meta(k, 1 .. k) \in Values
    /\ \A ns \in SUBSET Names : Registry(ns) \in Values
  BY DEF Values, Text

\* Values of different kinds differ.
LEMMA ValueShapes ==
    ASSUME NEW x \in Values
    PROVE  /\ x.kind = "text" => x.text \in Texts
           /\ x.kind = "meta" => /\ x.version \in 0 .. MaxVersion
                                 /\ x.versions = 1 .. x.version
           /\ x.kind = "names" => x.names \in SUBSET Names
  BY DEF Values, Absent, Text, Flag, Meta, Registry

\* What the metadata of a script says, whatever stands under its key.
LEMMA MetaShape ==
    ASSUME NEW s \in [Keys -> Values], NEW n \in Names
    PROVE  /\ ReadMeta(s, n).version \in 0 .. MaxVersion
           /\ ReadMeta(s, n).versions = 1 .. ReadMeta(s, n).version
           /\ ReadMeta(s, n).versions \subseteq Versions
  <1>1. s[MetaKey(n)] \in Values
    BY KeyTypes
  <1>2. CASE s[MetaKey(n)].kind = "meta"
    <2>1. ReadMeta(s, n) = s[MetaKey(n)]
      BY <1>2 DEF ReadMeta
    <2>2. s[MetaKey(n)].version \in 0 .. MaxVersion /\ s[MetaKey(n)].versions = 1 .. s[MetaKey(n)].version
      BY <1>1, <1>2, ValueShapes
    <2> QED BY <2>1, <2>2, BoundsAssumption DEF Versions
  <1>3. CASE s[MetaKey(n)].kind # "meta"
    <2>1. ReadMeta(s, n) = Meta(0, {})
      BY <1>3 DEF ReadMeta
    <2>2. Meta(0, {}).version = 0 /\ Meta(0, {}).versions = {}
      BY DEF Meta
    <2> QED BY <2>1, <2>2, BoundsAssumption
  <1> QED BY <1>2, <1>3

\* The list of names is a set of names.
LEMMA RegistryShape ==
    ASSUME NEW s \in [Keys -> Values]
    PROVE  ReadRegistry(s) \in SUBSET Names
  <1>1. s[RegistryKey] \in Values
    BY KeyTypes
  <1> QED BY <1>1, ValueShapes DEF ReadRegistry

\* What was written is read back.
LEMMA ReadWritten ==
    ASSUME NEW s \in [Keys -> Values], NEW ns \in SUBSET Names
    PROVE  /\ WriteRegistry(s, ns) \in [Keys -> Values]
           /\ ReadRegistry(WriteRegistry(s, ns)) = ns
           /\ \A k \in Keys \ {RegistryKey} : WriteRegistry(s, ns)[k] = s[k]
  <1>1. Registry(ns) \in Values /\ Registry(ns).kind = "names" /\ Registry(ns).names = ns
    BY ValueTypes DEF Registry
  <1> QED BY <1>1, KeyTypes DEF WriteRegistry, ReadRegistry

-----------------------------------------------------------------------------
(* The functions of ScriptRegistry.h, one lemma each.                      *)

\* SaveScript writes one new snapshot and makes it the latest text.
LEMMA SaveEffect ==
    ASSUME NEW s \in [Keys -> Values], NEW n \in Names, NEW code \in Texts,
           ReadMeta(s, n).version < MaxVersion
    PROVE  LET t == SaveScript(s, n, code)
               next == ReadMeta(s, n).version + 1
           IN /\ t \in [Keys -> Values]
              /\ t[VersionKey(n, next)] = Text(code)
              /\ t[ScriptKey(n)] = Text(code)
              /\ t[DeletedKey(n)] = Flag(FALSE)
              /\ t[MetaKey(n)] = Meta(next, 1 .. next)
              /\ ReadRegistry(t) = ReadRegistry(s) \cup {n}
              /\ \A k \in Keys \ {VersionKey(n, next), ScriptKey(n), DeletedKey(n), MetaKey(n), RegistryKey} :
                    t[k] = s[k]
  <1> DEFINE next == ReadMeta(s, n).version + 1
             meta == Meta(next, ReadMeta(s, n).versions \cup {next})
             saved == [s EXCEPT ![VersionKey(n, next)] = Text(code),
                                ![ScriptKey(n)] = Text(code),
                                ![DeletedKey(n)] = Flag(FALSE),
                                ![MetaKey(n)] = meta]
             t == SaveScript(s, n, code)
  <1>1. next \in Versions /\ next \in 0 .. MaxVersion /\ ReadMeta(s, n).versions \cup {next} = 1 .. next
    BY MetaShape, BoundsAssumption DEF Versions
  <1>2. meta = Meta(next, 1 .. next) /\ meta \in Values
    BY <1>1, ValueTypes
  <1>3. /\ Text(code) \in Values /\ Flag(FALSE) \in Values
        /\ VersionKey(n, next) \in Keys /\ ScriptKey(n) \in Keys
        /\ DeletedKey(n) \in Keys /\ MetaKey(n) \in Keys /\ RegistryKey \in Keys
    BY <1>1, ValueTypes, KeyTypes
  <1>4. /\ VersionKey(n, next) \notin {ScriptKey(n), MetaKey(n), DeletedKey(n), RegistryKey}
        /\ ScriptKey(n) \notin {MetaKey(n), DeletedKey(n), RegistryKey}
        /\ MetaKey(n) \notin {DeletedKey(n), RegistryKey}
        /\ DeletedKey(n) # RegistryKey
    BY <1>1, KeysAssumption DEF KeysApart
  <1> HIDE DEF next, meta
  <1>5. /\ saved \in [Keys -> Values]
        /\ saved[VersionKey(n, next)] = Text(code)
        /\ saved[ScriptKey(n)] = Text(code)
        /\ saved[DeletedKey(n)] = Flag(FALSE)
        /\ saved[MetaKey(n)] = meta
        /\ saved[RegistryKey] = s[RegistryKey]
        /\ \A k \in Keys \ {VersionKey(n, next), ScriptKey(n), DeletedKey(n), MetaKey(n)} : saved[k] = s[k]
    BY <1>2, <1>3, <1>4
  <1> HIDE DEF saved
  <1>6. ReadRegistry(saved) = ReadRegistry(s)
    BY <1>5 DEF ReadRegistry
  <1>7. t = IF n \in ReadRegistry(saved) THEN saved
            ELSE WriteRegistry(saved, ReadRegistry(saved) \cup {n})
    BY DEF SaveScript, saved, meta, next
  <1>8. ReadRegistry(saved) \cup {n} \in SUBSET Names
    BY <1>5, RegistryShape
  <1>9. /\ t \in [Keys -> Values]
        /\ ReadRegistry(t) = ReadRegistry(saved) \cup {n}
        /\ \A k \in Keys \ {RegistryKey} : t[k] = saved[k]
    BY <1>5, <1>7, <1>8, ReadWritten
  <1> HIDE DEF t
  <1>10. /\ t[VersionKey(n, next)] = Text(code) /\ t[ScriptKey(n)] = Text(code)
         /\ t[DeletedKey(n)] = Flag(FALSE) /\ t[MetaKey(n)] = Meta(next, 1 .. next)
    BY <1>2, <1>3, <1>4, <1>5, <1>9
  <1> QED BY <1>5, <1>6, <1>9, <1>10 DEF t, next

\* A script that a command leaves alone keeps its invariant and its snapshots.
LEMMA OthersUndisturbed ==
    ASSUME NEW s \in [Keys -> Values], NEW t \in [Keys -> Values], NEW n \in Names,
           StoreInv(s), ScriptInv(t, n), OthersKept(s, t, n)
    PROVE  /\ StoreInv(t)
           /\ \A m \in Names \ {n} : SnapshotsKept(s, t, m)
  <1>1. ASSUME NEW m \in Names \ {n}
        PROVE  ScriptInv(t, m) /\ SnapshotsKept(s, t, m)
    <2>1. ReadMeta(t, m) = ReadMeta(s, m)
      BY DEF OthersKept, ReadMeta
    <2>2. \A v \in ReadMeta(s, m).versions : t[VersionKey(m, v)] = s[VersionKey(m, v)]
      BY MetaShape DEF OthersKept
    <2>3. ReadMeta(s, m).version > 0 => ReadMeta(s, m).version \in Versions
      BY MetaShape, BoundsAssumption DEF Versions
    <2>4. ScriptInv(s, m)
      BY DEF StoreInv
    <2>5. ReadMeta(s, m).version > 0 =>
              t[VersionKey(m, ReadMeta(s, m).version)] = s[VersionKey(m, ReadMeta(s, m).version)]
      BY <2>3 DEF OthersKept
    <2>6. /\ t[ScriptKey(m)] = s[ScriptKey(m)] /\ t[DeletedKey(m)] = s[DeletedKey(m)]
          /\ m \in ReadRegistry(t) <=> m \in ReadRegistry(s)
      BY DEF OthersKept
    <2>7. ScriptInv(t, m)
      BY <2>1, <2>2, <2>4, <2>5, <2>6 DEF ScriptInv
    <2> QED BY <2>1, <2>2, <2>7 DEF SnapshotsKept
  <1> QED BY <1>1 DEF StoreInv

\* A save keeps the store well formed.
LEMMA SaveKeepsStore ==
    ASSUME NEW s, StoreInv(s), NEW n \in Names, NEW code \in Texts,
           ReadMeta(s, n).version < MaxVersion
    PROVE  /\ StoreInv(SaveScript(s, n, code))
           /\ \A m \in Names : SnapshotsKept(s, SaveScript(s, n, code), m)
  <1> DEFINE t == SaveScript(s, n, code)
             next == ReadMeta(s, n).version + 1
  <1>1. s \in [Keys -> Values]
    BY DEF StoreInv
  <1>2. /\ t \in [Keys -> Values]
        /\ t[VersionKey(n, next)] = Text(code)
        /\ t[ScriptKey(n)] = Text(code)
        /\ t[DeletedKey(n)] = Flag(FALSE)
        /\ t[MetaKey(n)] = Meta(next, 1 .. next)
        /\ ReadRegistry(t) = ReadRegistry(s) \cup {n}
        /\ \A k \in Keys \ {VersionKey(n, next), ScriptKey(n), DeletedKey(n), MetaKey(n), RegistryKey} :
              t[k] = s[k]
    BY <1>1, SaveEffect
  <1>3. next \in Versions /\ next \notin ReadMeta(s, n).versions /\ 1 .. next = ReadMeta(s, n).versions \cup {next}
    BY <1>1, MetaShape, BoundsAssumption DEF Versions
  <1>4. ReadMeta(t, n) = Meta(next, 1 .. next) /\ ReadMeta(t, n).version = next
        /\ ReadMeta(t, n).versions = 1 .. next
    BY <1>2 DEF ReadMeta, Meta
  <1> HIDE DEF t, next
  <1>5. \A v \in ReadMeta(s, n).versions : t[VersionKey(n, v)] = s[VersionKey(n, v)]
    <2> TAKE v \in ReadMeta(s, n).versions
    <2>1. v \in Versions /\ v # next
      BY <1>1, <1>3, MetaShape
    <2>2. VersionKey(n, v) \in Keys
      BY <2>1, KeyTypes
    <2>3. VersionKey(n, v) \notin {VersionKey(n, next), ScriptKey(n), DeletedKey(n), MetaKey(n), RegistryKey}
      BY <2>1, <1>3, KeysAssumption DEF KeysApart
    <2> QED BY <2>2, <2>3, <1>2
  <1>6. OthersKept(s, t, n)
    <2> SUFFICES ASSUME NEW m \in Names \ {n}
                 PROVE  /\ t[ScriptKey(m)] = s[ScriptKey(m)]
                        /\ t[MetaKey(m)] = s[MetaKey(m)]
                        /\ t[DeletedKey(m)] = s[DeletedKey(m)]
                        /\ \A v \in Versions : t[VersionKey(m, v)] = s[VersionKey(m, v)]
                        /\ m \in ReadRegistry(t) <=> m \in ReadRegistry(s)
      BY DEF OthersKept
    <2> DEFINE written == {VersionKey(n, next), ScriptKey(n), DeletedKey(n), MetaKey(n), RegistryKey}
    <2>1. ScriptKey(m) \notin written /\ MetaKey(m) \notin written /\ DeletedKey(m) \notin written
      BY <1>3, KeysAssumption DEF KeysApart, ScriptKey
    <2>2. \A v \in Versions : VersionKey(m, v) \notin written
      BY <1>3, KeysAssumption DEF KeysApart
    <2> QED BY <2>1, <2>2, <1>2, KeyTypes
  <1>7. ScriptInv(t, n)
    <2>1. Text(code).kind = "text"
      BY ValueTypes
    <2>2. \A v \in 1 .. next : t[VersionKey(n, v)].kind = "text"
      BY <1>2, <1>3, <1>5, <2>1 DEF StoreInv, ScriptInv
    <2> QED BY <1>2, <1>4, <2>1, <2>2 DEF ScriptInv
  <1>8. SnapshotsKept(s, t, n)
    BY <1>3, <1>4, <1>5 DEF SnapshotsKept
  <1>9. StoreInv(t) /\ \A m \in Names \ {n} : SnapshotsKept(s, t, m)
    BY <1>1, <1>2, <1>6, <1>7, OthersUndisturbed
  <1> QED BY <1>8, <1>9 DEF t

\* A rollback is a save: the flag it writes once more is clear already.
LEMMA RollbackIsSave ==
    ASSUME NEW s, StoreInv(s), NEW n \in Names, NEW v \in Versions,
           LoadScriptVersion(s, n, v) # None, ReadMeta(s, n).version < MaxVersion
    PROVE  \E code \in Texts : RollbackScript(s, n, v) = SaveScript(s, n, code)
  <1> DEFINE code == LoadScriptVersion(s, n, v)
             t == SaveScript(s, n, code)
  <1>1. s \in [Keys -> Values]
    BY DEF StoreInv
  <1>2. code \in Texts
    <2>1. v \in ReadMeta(s, n).versions /\ code = AnyToString(s[VersionKey(n, v)])
      BY DEF LoadScriptVersion
    <2>2. s[VersionKey(n, v)].kind = "text" /\ s[VersionKey(n, v)] \in Values
      BY <1>1, <2>1, KeyTypes DEF StoreInv, ScriptInv
    <2> QED BY <2>1, <2>2, ValueShapes DEF AnyToString
  <1>3. t \in [Keys -> Values] /\ t[DeletedKey(n)] = Flag(FALSE)
    BY <1>1, <1>2, SaveEffect
  <1>4. RollbackScript(s, n, v) = [t EXCEPT ![DeletedKey(n)] = Flag(FALSE)]
    BY DEF RollbackScript
  <1> HIDE DEF t, code
  <1>5. [t EXCEPT ![DeletedKey(n)] = Flag(FALSE)] = t
    BY <1>3
  <1> QED BY <1>2, <1>4, <1>5 DEF t

\* A delete keeps the store well formed.
LEMMA DeleteKeepsStore ==
    ASSUME NEW s, StoreInv(s), NEW n \in Names
    PROVE  /\ StoreInv(DeleteScript(s, n))
           /\ \A m \in Names : SnapshotsKept(s, DeleteScript(s, n), m)
  <1> DEFINE t == DeleteScript(s, n)
  <1>1. s \in [Keys -> Values] /\ ScriptInv(s, n)
    BY DEF StoreInv
  <1>2. /\ t \in [Keys -> Values]
        /\ t[DeletedKey(n)] = Flag(TRUE)
        /\ \A k \in Keys \ {DeletedKey(n)} : t[k] = s[k]
    BY <1>1, KeyTypes, ValueTypes DEF DeleteScript
  <1> HIDE DEF t
  <1>3. ASSUME NEW m \in Names
        PROVE  /\ t[RegistryKey] = s[RegistryKey]
               /\ t[ScriptKey(m)] = s[ScriptKey(m)]
               /\ t[MetaKey(m)] = s[MetaKey(m)]
               /\ m # n => t[DeletedKey(m)] = s[DeletedKey(m)]
    BY <1>2, KeyTypes, KeysAssumption DEF KeysApart
  <1>4. \A m \in Names, v \in Versions : t[VersionKey(m, v)] = s[VersionKey(m, v)]
    BY <1>2, KeyTypes, KeysAssumption DEF KeysApart
  <1>5. ReadRegistry(t) = ReadRegistry(s) /\ \A m \in Names : ReadMeta(t, m) = ReadMeta(s, m)
    <2>1. ReadRegistry(t) = ReadRegistry(s)
      BY <1>3 DEF ReadRegistry
    <2>2. ASSUME NEW m \in Names
          PROVE  ReadMeta(t, m) = ReadMeta(s, m)
      <3>1. t[MetaKey(m)] = s[MetaKey(m)]
        BY <1>3
      <3> QED BY <3>1 DEF ReadMeta
    <2> QED BY <2>1, <2>2
  <1>6. OthersKept(s, t, n)
    <2> SUFFICES ASSUME NEW m \in Names \ {n}
                 PROVE  /\ t[ScriptKey(m)] = s[ScriptKey(m)]
                        /\ t[MetaKey(m)] = s[MetaKey(m)]
                        /\ t[DeletedKey(m)] = s[DeletedKey(m)]
                        /\ \A v \in Versions : t[VersionKey(m, v)] = s[VersionKey(m, v)]
                        /\ m \in ReadRegistry(t) <=> m \in ReadRegistry(s)
      BY DEF OthersKept
    <2> m \in Names /\ m # n
      OBVIOUS
    <2>1. /\ t[ScriptKey(m)] = s[ScriptKey(m)]
          /\ t[MetaKey(m)] = s[MetaKey(m)]
          /\ t[DeletedKey(m)] = s[DeletedKey(m)]
      BY <1>3
    <2> QED BY <2>1, <1>4, <1>5
  <1>7. \A v \in ReadMeta(s, n).versions : v \in Versions
    BY <1>1, MetaShape
  <1>8. ReadMeta(s, n).version > 0 => ReadMeta(s, n).version \in Versions
    BY <1>1, MetaShape, BoundsAssumption DEF Versions
  <1>9. ScriptInv(t, n)
    <2>1. AnyToBool(t[DeletedKey(n)])
      BY <1>2 DEF AnyToBool, Flag
    <2>2. \A v \in ReadMeta(t, n).versions : t[VersionKey(n, v)].kind = "text"
      BY <1>1, <1>4, <1>5, <1>7 DEF ScriptInv
    <2>3. ReadMeta(t, n).version > 0 =>
              t[ScriptKey(n)] = t[VersionKey(n, ReadMeta(t, n).version)]
      BY <1>1, <1>3, <1>4, <1>5, <1>8 DEF ScriptInv
    <2> QED BY <1>1, <1>3, <1>5, <2>1, <2>2, <2>3 DEF ScriptInv
  <1>10. SnapshotsKept(s, t, n)
    BY <1>4, <1>5, <1>7 DEF SnapshotsKept
  <1>11. StoreInv(t) /\ \A m \in Names \ {n} : SnapshotsKept(s, t, m)
    BY <1>1, <1>2, <1>6, <1>9, OthersUndisturbed
  <1> QED BY <1>10, <1>11 DEF t

\* A hard delete leaves no key of its script.
LEMMA HardDeleteKeepsStore ==
    ASSUME NEW s, StoreInv(s), NEW n \in Names
    PROVE  /\ StoreInv(HardDeleteScript(s, n))
           /\ n \notin ReadRegistry(HardDeleteScript(s, n))
           /\ \A m \in Names \ {n} : SnapshotsKept(s, HardDeleteScript(s, n), m)
  <1> DEFINE unlisted == WriteRegistry(s, ReadRegistry(s) \ {n})
             snapshots == {VersionKey(n, v) : v \in ReadMeta(unlisted, n).versions}
             cleared == [k \in Keys |-> IF k \in snapshots THEN Text(Empty) ELSE unlisted[k]]
             t == HardDeleteScript(s, n)
  <1>1. s \in [Keys -> Values] /\ ScriptInv(s, n)
    BY DEF StoreInv
  <1>2. /\ unlisted \in [Keys -> Values]
        /\ ReadRegistry(unlisted) = ReadRegistry(s) \ {n}
        /\ \A k \in Keys \ {RegistryKey} : unlisted[k] = s[k]
    <2>1. ReadRegistry(s) \ {n} \in SUBSET Names
      BY <1>1, RegistryShape
    <2> QED BY <1>1, <2>1, ReadWritten
  <1>3. t = [cleared EXCEPT ![MetaKey(n)] = Text(Empty),
                            ![ScriptKey(n)] = Text(Empty),
                            ![DeletedKey(n)] = Flag(TRUE)]
    BY DEF HardDeleteScript
  <1> HIDE DEF unlisted
  <1>4. \A v \in ReadMeta(unlisted, n).versions : v \in Versions
    BY <1>2, MetaShape
  <1>5. \A k \in snapshots : \E v \in Versions : k = VersionKey(n, v)
    BY <1>4
  <1> HIDE DEF snapshots, t
  <1>6. Text(Empty) \in Values /\ Text(Empty).kind = "text" /\ Flag(TRUE) \in Values
    BY ValueTypes DEF Texts
  <1>7. /\ cleared \in [Keys -> Values]
        /\ \A k \in Keys \ snapshots : cleared[k] = unlisted[k]
    BY <1>2, <1>6
  <1> HIDE DEF cleared
  <1>8. /\ t \in [Keys -> Values]
        /\ t[MetaKey(n)] = Text(Empty) /\ t[ScriptKey(n)] = Text(Empty)
        /\ t[DeletedKey(n)] = Flag(TRUE)
        /\ \A k \in Keys \ {MetaKey(n), ScriptKey(n), DeletedKey(n)} : t[k] = cleared[k]
    <2>1. /\ MetaKey(n) \in Keys /\ ScriptKey(n) \in Keys /\ DeletedKey(n) \in Keys
          /\ MetaKey(n) # ScriptKey(n) /\ MetaKey(n) # DeletedKey(n) /\ ScriptKey(n) # DeletedKey(n)
      BY KeyTypes, KeysAssumption DEF KeysApart
    <2> QED BY <1>3, <1>6, <1>7, <2>1
  <1>9. \A k \in Keys \ {MetaKey(n), ScriptKey(n), DeletedKey(n), RegistryKey} :
            k \notin snapshots => t[k] = s[k]
    BY <1>2, <1>7, <1>8
  <1>10. RegistryKey \notin snapshots
    BY <1>5, KeysAssumption DEF KeysApart
  <1>11. ReadRegistry(t) = ReadRegistry(s) \ {n}
    <2>1. RegistryKey \in Keys /\ RegistryKey \notin {MetaKey(n), ScriptKey(n), DeletedKey(n)}
      BY KeyTypes, KeysAssumption DEF KeysApart
    <2>2. t[RegistryKey] = unlisted[RegistryKey]
      BY <1>7, <1>8, <1>10, <2>1
    <2> QED BY <1>2, <2>2 DEF ReadRegistry
  <1>12. OthersKept(s, t, n)
    <2> SUFFICES ASSUME NEW m \in Names \ {n}
                 PROVE  /\ t[ScriptKey(m)] = s[ScriptKey(m)]
                        /\ t[MetaKey(m)] = s[MetaKey(m)]
                        /\ t[DeletedKey(m)] = s[DeletedKey(m)]
                        /\ \A v \in Versions : t[VersionKey(m, v)] = s[VersionKey(m, v)]
                        /\ m \in ReadRegistry(t) <=> m \in ReadRegistry(s)
      BY DEF OthersKept
    <2> DEFINE written == {MetaKey(n), ScriptKey(n), DeletedKey(n), RegistryKey}
    <2>1. /\ ScriptKey(m) \notin written /\ ScriptKey(m) \notin snapshots
          /\ MetaKey(m) \notin written /\ MetaKey(m) \notin snapshots
          /\ DeletedKey(m) \notin written /\ DeletedKey(m) \notin snapshots
      BY <1>5, KeysAssumption DEF KeysApart, ScriptKey
    <2>2. \A v \in Versions : VersionKey(m, v) \notin written /\ VersionKey(m, v) \notin snapshots
      BY <1>5, KeysAssumption DEF KeysApart
    <2> QED BY <2>1, <2>2, <1>9, <1>11, KeyTypes
  <1>13. ScriptInv(t, n)
    <2>1. ReadMeta(t, n).version = 0 /\ ReadMeta(t, n).versions = {}
      BY <1>6, <1>8 DEF ReadMeta, Meta
    <2>2. AnyToBool(t[DeletedKey(n)])
      BY <1>8 DEF AnyToBool, Flag
    <2>3. t[ScriptKey(n)].kind = "text" /\ n \notin ReadRegistry(t)
      BY <1>6, <1>8, <1>11
    <2> QED BY <2>1, <2>2, <2>3 DEF ScriptInv
  <1>14. StoreInv(t) /\ \A m \in Names \ {n} : SnapshotsKept(s, t, m)
    BY <1>1, <1>8, <1>12, <1>13, OthersUndisturbed
  <1> QED BY <1>11, <1>14 DEF t

-----------------------------------------------------------------------------
(* The commands.                                                           *)

\* Before anything was saved, or with scripts of a version without snapshots.
LEMMA InitKeepsStore ==
    Init => RegistryInv
  <1> SUFFICES ASSUME Init PROVE RegistryInv
    OBVIOUS
  <1> DEFINE none == [k \in Keys |-> Absent]
  <1>1. Absent.kind = "absent" /\ none \in [Keys -> Values]
    BY ValueTypes DEF Absent
  <1>2. \A k \in Keys : none[k] = Absent
    OBVIOUS
  <1> HIDE DEF none
  <1>3. StoreInv(none)
    <2>1. \A n \in Names : ReadMeta(none, n) = Meta(0, {})
      BY <1>1, <1>2, KeyTypes DEF ReadMeta
    <2>2. Meta(0, {}).version = 0 /\ Meta(0, {}).versions = {}
      BY DEF Meta
    <2>3. ReadRegistry(none) = {}
      BY <1>1, <1>2, KeyTypes DEF ReadRegistry
    <2>4. \A n \in Names : none[ScriptKey(n)].kind = "absent"
      BY <1>1, <1>2, KeyTypes
    <2>5. \A n \in Names : ScriptInv(none, n)
      BY <2>1, <2>2, <2>3, <2>4 DEF ScriptInv
    <2> QED BY <1>1, <2>5 DEF StoreInv
  <1>4. ASSUME NEW n \in Names, NEW code \in Codes
        PROVE  StoreInv(Unversioned(none, n, code))
    <2> DEFINE u == Unversioned(none, n, code)
    <2>1. /\ Text(code) \in Values /\ Text(code).kind = "text"
          /\ Registry({n}) \in Values /\ Registry({n}).kind = "names" /\ Registry({n}).names = {n}
      BY ValueTypes DEF Texts, Registry
    <2>2. ScriptKey(n) # RegistryKey
      BY KeysAssumption DEF KeysApart
    <2>3. /\ u \in [Keys -> Values]
          /\ u[ScriptKey(n)] = Text(code)
          /\ u[RegistryKey] = Registry({n})
          /\ \A k \in Keys \ {ScriptKey(n), RegistryKey} : u[k] = Absent
      BY <1>1, <1>2, <2>1, <2>2, KeyTypes DEF Unversioned
    <2> HIDE DEF u
    <2>4. ReadRegistry(u) = {n}
      BY <2>1, <2>3 DEF ReadRegistry
    <2>5. ASSUME NEW m \in Names
          PROVE  ScriptInv(u, m)
      <3>1. u[MetaKey(m)] = Absent
        BY <2>3, KeyTypes, KeysAssumption DEF KeysApart
      <3>2. ReadMeta(u, m).version = 0 /\ ReadMeta(u, m).versions = {}
        BY <1>1, <3>1 DEF ReadMeta, Meta
      <3>3. m # n => u[ScriptKey(m)].kind = "absent"
        BY <1>1, <2>3, KeyTypes, KeysAssumption DEF KeysApart, ScriptKey
      <3> QED BY <2>1, <2>3, <2>4, <3>2, <3>3 DEF ScriptInv
    <2> QED BY <2>3, <2>5 DEF StoreInv, u
  <1> QED BY <1>3, <1>4 DEF Init, RegistryInv, none

\* Texts come out of the store as texts.
LEMMA LoadedIsText ==
    ASSUME NEW s, StoreInv(s), NEW n \in Names, LoadScript(s, n) # None
    PROVE  LoadScript(s, n) \in Texts
  <1>1. s[ScriptKey(n)] \in Values /\ s[ScriptKey(n)].kind \in {"absent", "text"}
    BY KeyTypes DEF StoreInv, ScriptInv
  <1>2. LoadScript(s, n) = AnyToString(s[ScriptKey(n)])
    BY DEF LoadScript
  <1> QED BY <1>1, <1>2, ValueShapes DEF AnyToString

\* What a step does to the store, from the side of one script.
StoreStep ==
    \A n \in Names :
        \/ SnapshotsKept(store, store', n)
        \/ n \notin ReadRegistry(store')
        \/ store' = checkpoint

\* Every step keeps the store, and the checkpoint, well formed.
LEMMA NextKeepsStore ==
    ASSUME RegistryInv, [Next]_vars
    PROVE  RegistryInv' /\ StoreStep
  <1> USE DEF RegistryInv
  <1>0. store' = store => StoreStep
    BY MetaShape DEF StoreStep, SnapshotsKept
  <1>1. ASSUME NEW n \in Names, New(n) PROVE RegistryInv' /\ StoreStep
    BY <1>0, <1>1 DEF New, Texts
  <1>2. ASSUME NEW n \in Names, Edit(n) PROVE RegistryInv' /\ StoreStep
    BY <1>0, <1>2, LoadedIsText DEF Edit
  <1>3. ASSUME NEW c \in Codes, Type(c) PROVE RegistryInv' /\ StoreStep
    BY <1>0, <1>3 DEF Type, Texts
  <1>4. ASSUME EditorSave PROVE RegistryInv' /\ StoreStep
    <2>1. editor.name \in Names /\ editor.text \in Texts
      BY <1>4 DEF EditorSave
    <2>2. ReadMeta(store, editor.name).version < MaxVersion
      BY <1>4 DEF EditorSave, Savable
    <2>3. StoreInv(store') /\ \A m \in Names : SnapshotsKept(store, store', m)
      BY <1>4, <2>1, <2>2, SaveKeepsStore DEF EditorSave
    <2> QED BY <1>4, <2>3 DEF EditorSave, StoreStep
  <1>5. ASSUME EditorLeave PROVE RegistryInv' /\ StoreStep
    BY <1>0, <1>5 DEF EditorLeave
  <1>6. ASSUME NEW n \in Names, NEW c \in Codes \cup {Empty}, SaveRequest(n, c)
        PROVE  RegistryInv' /\ StoreStep
    <2>1. StoreInv(store') /\ \A m \in Names : SnapshotsKept(store, store', m)
      BY <1>6, SaveKeepsStore DEF SaveRequest, Savable, Texts
    <2> QED BY <1>6, <2>1 DEF SaveRequest, StoreStep
  <1>7. ASSUME NEW n \in Names, Delete(n) PROVE RegistryInv' /\ StoreStep
    <2>1. StoreInv(store') /\ \A m \in Names : SnapshotsKept(store, store', m)
      BY <1>7, DeleteKeepsStore DEF Delete
    <2> QED BY <1>7, <2>1 DEF Delete, StoreStep
  <1>8. ASSUME NEW n \in Names, HardDelete(n) PROVE RegistryInv' /\ StoreStep
    <2>1. /\ StoreInv(store') /\ n \notin ReadRegistry(store')
          /\ \A m \in Names \ {n} : SnapshotsKept(store, store', m)
      BY <1>8, HardDeleteKeepsStore DEF HardDelete
    <2> QED BY <1>8, <2>1 DEF HardDelete, StoreStep
  <1>9. ASSUME NEW n \in Names, NEW v \in Versions, Rollback(n, v)
        PROVE  RegistryInv' /\ StoreStep
    <2>1. ReadMeta(store, n).version < MaxVersion /\ LoadScriptVersion(store, n, v) # None
      BY <1>9 DEF Rollback, Savable
    <2>2. PICK code \in Texts : RollbackScript(store, n, v) = SaveScript(store, n, code)
      BY <2>1, RollbackIsSave
    <2>3. StoreInv(store') /\ \A m \in Names : SnapshotsKept(store, store', m)
      BY <1>9, <2>1, <2>2, SaveKeepsStore DEF Rollback
    <2> QED BY <1>9, <2>3 DEF Rollback, StoreStep
  <1>10. ASSUME SaveState PROVE RegistryInv' /\ StoreStep
    BY <1>0, <1>10 DEF SaveState
  <1>11. ASSUME LoadState PROVE RegistryInv' /\ StoreStep
    BY <1>11 DEF LoadState, StoreStep
  <1>12. CASE UNCHANGED vars
    BY <1>0, <1>12 DEF vars
  <1> QED BY <1>1, <1>2, <1>3, <1>4, <1>5, <1>6, <1>7, <1>8, <1>9, <1>10, <1>11, <1>12 DEF Next

\* The inductive invariant holds of every run.
LEMMA Invariance ==
    Spec => []RegistryInv
  BY InitKeepsStore, NextKeepsStore, PTL DEF Spec

-----------------------------------------------------------------------------
(* Theorems.                                                               *)

(***************************************************************************)
(* Every variable has its type: in particular no key ever holds what the   *)
(* code that reads it would fall back from.                                *)
(***************************************************************************)
THEOREM TypeCorrect ==
    Spec => []TypeOK
  <1>1. RegistryInv => TypeOK
    BY DEF RegistryInv, StoreInv, TypeOK
  <1> QED BY <1>1, Invariance, PTL

(***************************************************************************)
(* The history of a script has no gap, every version of it has its text,   *)
(* and the latest text is that of the newest version.                      *)
(***************************************************************************)
THEOREM HistoryStaysWhole ==
    Spec => []HistoryIsWhole
  <1>1. RegistryInv => HistoryIsWhole
    <2> SUFFICES ASSUME RegistryInv, NEW n \in Names
                 PROVE  /\ ReadMeta(store, n).versions = 1 .. ReadMeta(store, n).version
                        /\ \A v \in ReadMeta(store, n).versions : LoadScriptVersion(store, n, v) # None
                        /\ ReadMeta(store, n).version > 0 =>
                              store[ScriptKey(n)] = store[VersionKey(n, ReadMeta(store, n).version)]
      BY DEF HistoryIsWhole
    <2>1. store \in [Keys -> Values] /\ ScriptInv(store, n)
      BY DEF RegistryInv, StoreInv
    <2>2. ASSUME NEW v \in ReadMeta(store, n).versions
          PROVE  LoadScriptVersion(store, n, v) # None
      <3>1. v \in Versions
        BY <2>1, MetaShape
      <3>2. store[VersionKey(n, v)] \in Values /\ store[VersionKey(n, v)].kind = "text"
        BY <2>1, <3>1, KeyTypes DEF ScriptInv
      <3> QED BY <3>2, ValueShapes, TextsAssumption DEF LoadScriptVersion, AnyToString
    <2> QED BY <2>1, <2>2, MetaShape DEF ScriptInv
  <1> QED BY <1>1, Invariance, PTL

(***************************************************************************)
(* Exactly the scripts that can be loaded are listed.                      *)
(***************************************************************************)
THEOREM ListingsAgree ==
    Spec => []ListedIffLoadable
  <1>1. RegistryInv => ListedIffLoadable
    <2> SUFFICES ASSUME RegistryInv, NEW n \in Names
                 PROVE  n \in ListScripts(store) <=> LoadScript(store, n) # None
      BY DEF ListedIffLoadable
    <2>1. store \in [Keys -> Values] /\ ScriptInv(store, n) /\ store[ScriptKey(n)] \in Values
      BY KeyTypes DEF RegistryInv, StoreInv
    <2>2. CASE AnyToBool(store[DeletedKey(n)])
      BY <2>2 DEF ListScripts, LoadScript
    <2>3. CASE ~AnyToBool(store[DeletedKey(n)])
      <3>1. n \in ReadRegistry(store) <=> store[ScriptKey(n)].kind = "text"
        BY <2>1, <2>3 DEF ScriptInv
      <3>2. LoadScript(store, n) = AnyToString(store[ScriptKey(n)])
        BY <2>3 DEF LoadScript
      <3>3. AnyToString(store[ScriptKey(n)]) # None <=> store[ScriptKey(n)].kind = "text"
        BY <2>1, ValueShapes, TextsAssumption DEF AnyToString, ScriptInv
      <3>4. n \in ListScripts(store) <=> n \in ReadRegistry(store)
        BY <2>3, <2>1, RegistryShape DEF ListScripts
      <3> QED BY <3>1, <3>2, <3>3, <3>4
    <2> QED BY <2>2, <2>3
  <1> QED BY <1>1, Invariance, PTL

(***************************************************************************)
(* Snapshots are immutable: a version leaves the history only with its     *)
(* script, by a hard delete, or when a saved session is loaded, and no      *)
(* version ever changes its text.                                          *)
(***************************************************************************)
THEOREM SnapshotsStay ==
    Spec => SnapshotsAreImmutable
  <1> DEFINE Kept(n) == \/ \A v \in DOMAIN History(store, n) :
                              /\ v \in DOMAIN History(store', n)
                              /\ History(store', n)[v] = History(store, n)[v]
                        \/ n \notin ReadRegistry(store')
                        \/ store' = checkpoint
  <1>1. ASSUME RegistryInv, [Next]_vars
        PROVE  [\A n \in Names : Kept(n)]_vars
    <2>1. StoreStep
      BY <1>1, NextKeepsStore
    <2>2. ASSUME NEW n \in Names, SnapshotsKept(store, store', n)
          PROVE  Kept(n)
      BY <2>2 DEF SnapshotsKept, History
    <2> QED BY <2>1, <2>2 DEF StoreStep
  <1> QED BY <1>1, Invariance, PTL DEF Spec, SnapshotsAreImmutable
=============================================================================
