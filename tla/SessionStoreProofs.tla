------------------------- MODULE SessionStoreProofs -------------------------
(***************************************************************************)
(* Proofs about SessionStore, how a session gets to the disk and back, and *)
(* about SessionDocument, what is written.                                 *)
(*                                                                         *)
(* SessionStore: type correctness holds for any number of engines.  The    *)
(* promises about the state file are those of one engine, which the        *)
(* theorems assume: two engines of one user share one temporary file, and  *)
(* nothing locks it.                                                       *)
(*                                                                         *)
(* SessionDocument: every tree of JSON the code builds is taken apart      *)
(* again (ContainerIs, ObjectIs, ArrayIs, ArrayOfIs), so that a session    *)
(* that is well-formed (SessionOK) is accepted and read back (ExportIs);   *)
(* conversely a document of any shape, once accepted, is a well-formed     *)
(* session (ImportIs).  The two make DocumentInv inductive.                *)
(***************************************************************************)
EXTENDS SessionStore, SessionDocument, FiniteSetTheorems, SequenceTheorems,
        WellFoundedInduction, TLAPS

\* The directory starts in its type.
LEMMA TypeInit == Init => TypeOK
<1> SUFFICES ASSUME Init PROVE TypeOK
  OBVIOUS
<1>1. name \in [Names -> Inodes \cup {Nothing}]
  BY DEF Init
<1>2. content \in [Inodes -> Contents]
  BY MaxEditsAssumption DEF Init, Contents, Sessions, Empty
<1>3. saved \in Contents \cup {Nothing}
  BY <1>1, <1>2 DEF Init, Content, Exists, Names
<1>4. step \in [Engines -> Steps]
  BY DEF Init, Steps
<1>5. /\ memory \in [Engines -> Sessions]
      /\ snapshot \in [Engines -> Sessions]
      /\ edits \in 0 .. MaxEdits
  BY MaxEditsAssumption DEF Init, Sessions, Empty
<1>6. /\ purpose \in [Engines -> {"command", "exit", "destructor"}]
      /\ open \in [Engines -> Inodes \cup {Nothing}]
      /\ damaged \in BOOLEAN /\ clean \in BOOLEAN
  BY DEF Init
<1> QED
  BY <1>1, <1>2, <1>3, <1>4, <1>5, <1>6 DEF TypeOK

\* What a boot loads is a session.
LEMMA LoadedType == ASSUME TypeOK PROVE Loaded \in Sessions
BY MaxEditsAssumption DEF Loaded, Importable, Sessions, Empty

\* Every system call keeps the types.
LEMMA TypeStep == TypeOK /\ [Next]_vars => TypeOK'
<1> SUFFICES ASSUME TypeOK, [Next]_vars PROVE TypeOK'
  OBVIOUS
<1> USE DEF TypeOK, Steps, diskVars, engineVars, ghostVars, Names
<1>1. ASSUME NEW e \in Engines, Boot(e) PROVE TypeOK'
  BY <1>1, LoadedType DEF Boot
<1>2. ASSUME NEW e \in Engines, Edit(e) PROVE TypeOK'
  BY <1>2, MaxEditsAssumption DEF Edit, Sessions
<1>3. ASSUME NEW e \in Engines, NEW s \in Sessions,
             NEW why \in {"command", "exit", "destructor"},
             StartSave(e, why, s)
      PROVE  TypeOK'
  BY <1>3 DEF StartSave
<1>4. ASSUME NEW e \in Engines, Save(e) \/ LoadState(e) \/ Quit(e) PROVE TypeOK'
  <2>1. memory[e] \in Sessions /\ 0 .. edits \subseteq Sessions
    BY MaxEditsAssumption DEF Sessions
  <2> QED
    BY <1>3, <1>4, <2>1 DEF Save, LoadState, Quit
<1>5. ASSUME NEW e \in Engines, OpenTemp(e) PROVE TypeOK'
  BY <1>5 DEF OpenTemp, Advance, Contents
<1>6. ASSUME NEW e \in Engines, WriteTemp(e) PROVE TypeOK'
  <2>1. PICK c \in {snapshot[e], Torn} : content' = [content EXCEPT ![open[e]] = c]
    BY <1>6 DEF WriteTemp
  <2>2. content' \in [Inodes -> Contents]
    BY <2>1 DEF Contents
  <2>3. open' \in [Engines -> Inodes \cup {Nothing}]
    BY <1>6 DEF WriteTemp
  <2> QED
    BY <1>6, <2>2, <2>3 DEF WriteTemp, Advance
<1>7. ASSUME NEW e \in Engines, CheckState(e) PROVE TypeOK'
  BY <1>7 DEF CheckState, Advance
<1>8. ASSUME NEW e \in Engines, DropBackup(e) PROVE TypeOK'
  BY <1>8 DEF DropBackup, Advance
<1>9. ASSUME NEW e \in Engines, BackUp(e) PROVE TypeOK'
  BY <1>9 DEF BackUp, Advance
<1>10. ASSUME NEW e \in Engines, Finish(e)
       PROVE  /\ step' \in [Engines -> Steps]
              /\ purpose' \in [Engines -> {"command", "exit", "destructor"}]
  BY <1>10 DEF Finish
<1>11. ASSUME NEW e \in Engines, Publish(e) PROVE TypeOK'
  <2>1. clean' \in BOOLEAN
    BY <1>11 DEF Publish
  <2> QED
    BY <1>10, <1>11, <2>1 DEF Publish, Finish, Contents
<1>12. ASSUME NEW e \in Engines, FailSave(e) PROVE TypeOK'
  BY <1>10, <1>12 DEF FailSave, Finish
<1>13. ASSUME NEW e \in Engines, Crash(e) PROVE TypeOK'
  BY <1>13, MaxEditsAssumption DEF Crash, Sessions, Empty
<1>14. CASE Damage
  BY <1>14 DEF Damage, Contents
<1>15. CASE UNCHANGED vars
  BY <1>15 DEF vars
<1> QED
  BY <1>1, <1>2, <1>4, <1>5, <1>6, <1>7, <1>8, <1>9, <1>11, <1>12, <1>13, <1>14,
     <1>15 DEF Next

\* Names denote files, files hold what the code can write, and every engine is at
\* one of the steps of the code: for any number of engines, files and edits.
THEOREM TypeCorrect == Spec => []TypeOK
BY TypeInit, TypeStep, PTL DEF Spec

-----------------------------------------------------------------------------
(* One engine.  The inductive invariant says which file each name denotes  *)
(* at each step of a save, and that the three names and the open file      *)
(* never share a file in the wrong way.  The backup carries the promise    *)
(* through the moment in which there is no state file.                     *)

\* No two names denote one file.
DistinctNames ==
    \A f, g \in Names : f # g /\ name[f] = name[g] => name[f] = Nothing

\* Where engine e is in its save, and what the three names denote then.
SaveInv(e) ==
    /\ step[e] = "write" => open[e] = name["tmp"]
    /\ step[e] \in {"write", "check", "drop", "backup", "publish"} => Exists("tmp")
    /\ step[e] = "write" => content[name["tmp"]] = Torn
    /\ step[e] \in {"check", "drop", "backup", "publish"}
            => content[name["tmp"]] = snapshot[e]
    /\ step[e] \in {"drop", "backup"} => Exists("main")
    /\ step[e] = "publish" => ~Exists("main")

\* After a regular exit state file and backup both are there, the backup intact.
CleanInv(e) ==
    clean => /\ step[e] = "down"
             /\ saved \in Sessions
             /\ Exists("main") /\ Exists("bak")
             /\ content[name["main"]] \in {saved, Torn}
             /\ content[name["bak"]] = saved

DiskInv(e) ==
    /\ TypeOK
    /\ DistinctNames
    /\ SaveInv(e)
    /\ StateFileIsLastSave
    /\ SavedSessionOnDisk
    /\ CleanInv(e)

\* An empty or a saved directory satisfies the invariant.
LEMMA DiskInit ==
  ASSUME NEW e \in Engines, Init
  PROVE  DiskInv(e)
<1>1. TypeOK
  BY TypeInit
<1>2. PICK i \in Inodes \cup {Nothing} :
        name = [f \in Names |-> IF f = "main" THEN i ELSE Nothing]
  BY DEF Init
<1>3. DistinctNames
  BY <1>2 DEF DistinctNames, Names
<1>4. SaveInv(e)
  BY DEF Init, SaveInv
<1>5. StateFileIsLastSave /\ SavedSessionOnDisk
  BY DEF Init, StateFileIsLastSave, SavedSessionOnDisk
<1>6. CleanInv(e)
  BY DEF Init, CleanInv
<1> QED
  BY <1>1, <1>3, <1>4, <1>5, <1>6 DEF DiskInv

\* What the promises need of a step that leaves the disk and the ghosts alone.
LEMMA DiskUnchanged ==
  ASSUME NEW e \in Engines, DiskInv(e), TypeOK', UNCHANGED <<diskVars, saved, damaged>>,
         SaveInv(e)', CleanInv(e)'
  PROVE  DiskInv(e)'
BY DEF DiskInv, DistinctNames, StateFileIsLastSave, SavedSessionOnDisk, Content,
       Exists, diskVars

\* Every system call, crash and error keeps it.
LEMMA DiskStep ==
  ASSUME NEW e \in Engines, Engines = {e}, DiskInv(e), [Next]_vars
  PROVE  DiskInv(e)'
<1>0. TypeOK /\ TypeOK'
  BY TypeStep DEF DiskInv
<1> USE DEF Names, diskVars, engineVars, ghostVars
<1>1. CASE Boot(e)
  <2>1. step[e] = "down" /\ step' = [step EXCEPT ![e] = "ready"] /\ clean' = FALSE
    BY <1>1 DEF Boot
  <2>2. step'[e] = "ready"
    BY <2>1, <1>0 DEF TypeOK
  <2>3. SaveInv(e)' /\ CleanInv(e)'
    BY <2>1, <2>2 DEF SaveInv, CleanInv
  <2> QED
    BY <1>0, <1>1, <2>3, DiskUnchanged DEF Boot
<1>2. CASE Edit(e)
  <2>1. SaveInv(e)' /\ CleanInv(e)'
    BY <1>2 DEF Edit, DiskInv, SaveInv, CleanInv, Exists
  <2> QED
    BY <1>0, <1>2, <2>1, DiskUnchanged DEF Edit
<1>3. CASE Save(e) \/ LoadState(e) \/ Quit(e)
  <2>1. PICK why \in {"command", "exit", "destructor"}, s \in Nat \cup {memory[e]} :
          StartSave(e, why, s)
    <3>1. 0 .. edits \subseteq Nat
      OBVIOUS
    <3> QED
      BY <1>3, <3>1 DEF Save, LoadState, Quit
  <2>2. step[e] = "ready" /\ step'[e] = "open"
    BY <2>1, <1>0 DEF StartSave, TypeOK
  <2>3. SaveInv(e)'
    BY <2>2 DEF SaveInv
  <2>4. CleanInv(e)'
    BY <2>1, <2>2 DEF StartSave, CleanInv, DiskInv
  <2> QED
    BY <1>0, <2>1, <2>3, <2>4, DiskUnchanged DEF StartSave
<1>4. CASE OpenTemp(e)
  <2>1. PICK i \in Inodes :
          /\ IF Exists("tmp") THEN i = name["tmp"] ELSE Unused(i)
          /\ name' = [name EXCEPT !["tmp"] = i]
          /\ content' = [content EXCEPT ![i] = Torn]
          /\ open' = [open EXCEPT ![e] = i]
    BY <1>4 DEF OpenTemp
  <2>2. /\ step[e] = "open" /\ step'[e] = "write"
        /\ UNCHANGED <<saved, damaged, clean>>
    BY <1>4, <1>0 DEF OpenTemp, Advance, TypeOK
  <2>3. i # name["main"] /\ i # name["bak"] /\ i # Nothing
    BY <2>1, ValuesAssumption DEF DiskInv, DistinctNames, Exists, Unused
  <2>4. /\ name'["main"] = name["main"] /\ name'["bak"] = name["bak"]
        /\ name'["tmp"] = i /\ content'[i] = Torn /\ open'[e] = i
    BY <2>1, <1>0 DEF TypeOK
  <2>5. Content("main")' = Content("main") /\ Content("bak")' = Content("bak")
    BY <2>1, <2>3, <2>4, <1>0 DEF Content, Exists, TypeOK
  <2>6. DistinctNames'
    BY <2>3, <2>4 DEF DiskInv, DistinctNames
  <2>7. SaveInv(e)'
    BY <2>2, <2>3, <2>4 DEF SaveInv, Exists
  <2>8. CleanInv(e)'
    BY <2>2 DEF DiskInv, CleanInv
  <2>9. StateFileIsLastSave' /\ SavedSessionOnDisk'
    BY <2>2, <2>4, <2>5 DEF DiskInv, StateFileIsLastSave, SavedSessionOnDisk, Exists
  <2> QED
    BY <1>0, <2>6, <2>7, <2>8, <2>9 DEF DiskInv
<1>5. CASE WriteTemp(e)
  <2>1. /\ step[e] = "write" /\ step'[e] = "check" /\ snapshot' = snapshot
        /\ name' = name /\ UNCHANGED <<saved, damaged, clean>>
    BY <1>5, <1>0 DEF WriteTemp, Advance, TypeOK
  <2>2. /\ open[e] = name["tmp"] /\ name["tmp"] \in Inodes
        /\ content[name["tmp"]] = Torn
    BY <2>1, <1>0 DEF DiskInv, SaveInv, Exists, TypeOK
  <2>3. content' = [content EXCEPT ![name["tmp"]] = snapshot[e]]
    BY <1>5, <2>2 DEF WriteTemp
  <2>4. name["tmp"] # name["main"] /\ name["tmp"] # name["bak"]
    BY <2>2, ValuesAssumption DEF DiskInv, DistinctNames
  <2>5. Content("main")' = Content("main") /\ Content("bak")' = Content("bak")
    BY <2>1, <2>3, <2>4, <1>0 DEF Content, Exists, TypeOK
  <2>6. content'[name'["tmp"]] = snapshot'[e]
    BY <2>1, <2>2, <2>3, <1>0 DEF TypeOK
  <2>7. SaveInv(e)'
    BY <2>1, <2>6 DEF DiskInv, SaveInv, Exists
  <2>8. CleanInv(e)'
    BY <2>1 DEF DiskInv, CleanInv
  <2>9. DistinctNames' /\ StateFileIsLastSave' /\ SavedSessionOnDisk'
    BY <2>1, <2>5 DEF DiskInv, DistinctNames, StateFileIsLastSave,
                      SavedSessionOnDisk, Exists
  <2> QED
    BY <1>0, <2>7, <2>8, <2>9 DEF DiskInv
<1>6. CASE CheckState(e)
  <2>1. SaveInv(e)' /\ CleanInv(e)'
    BY <1>6, <1>0 DEF CheckState, Advance, DiskInv, TypeOK, SaveInv, CleanInv, Exists
  <2> QED
    BY <1>0, <1>6, <2>1, DiskUnchanged DEF CheckState, Advance
<1>7. CASE DropBackup(e)
  <2>1. /\ step[e] = "drop" /\ step'[e] = "backup" /\ snapshot' = snapshot
        /\ content' = content /\ open' = open /\ UNCHANGED <<saved, damaged, clean>>
    BY <1>7, <1>0 DEF DropBackup, Advance, TypeOK
  <2>2. /\ name'["bak"] = Nothing /\ name'["main"] = name["main"]
        /\ name'["tmp"] = name["tmp"]
    BY <1>7, <1>0 DEF DropBackup, TypeOK
  <2>3. Exists("main") /\ (~damaged => Content("main") = saved)
    BY <2>1 DEF DiskInv, SaveInv, StateFileIsLastSave
  <2>4. Exists("main")' /\ Content("main")' = Content("main")
    BY <2>1, <2>2, <2>3 DEF Content, Exists
  <2>5. StateFileIsLastSave' /\ SavedSessionOnDisk'
    BY <2>1, <2>3, <2>4 DEF StateFileIsLastSave, SavedSessionOnDisk
  <2>6. DistinctNames'
    BY <2>2 DEF DiskInv, DistinctNames
  <2>7. SaveInv(e)'
    BY <2>1, <2>2, <2>4 DEF DiskInv, SaveInv, Exists
  <2>8. CleanInv(e)'
    BY <2>1 DEF DiskInv, CleanInv
  <2> QED
    BY <1>0, <2>5, <2>6, <2>7, <2>8 DEF DiskInv
<1>8. CASE BackUp(e)
  <2>1. /\ step[e] = "backup" /\ step'[e] = "publish" /\ snapshot' = snapshot
        /\ content' = content /\ open' = open /\ UNCHANGED <<saved, damaged, clean>>
    BY <1>8, <1>0 DEF BackUp, Advance, TypeOK
  <2>2. /\ name'["bak"] = name["main"] /\ name'["main"] = Nothing
        /\ name'["tmp"] = name["tmp"]
    BY <1>8, <1>0 DEF BackUp, TypeOK
  <2>3. Exists("main") /\ (~damaged => Content("main") = saved)
    BY <2>1 DEF DiskInv, SaveInv, StateFileIsLastSave
  <2>4. ~Exists("main")' /\ Content("bak")' = Content("main")
    BY <2>1, <2>2, <2>3 DEF Content, Exists
  <2>5. StateFileIsLastSave' /\ SavedSessionOnDisk'
    BY <2>1, <2>3, <2>4 DEF StateFileIsLastSave, SavedSessionOnDisk
  <2>6. DistinctNames'
    BY <2>2 DEF DiskInv, DistinctNames
  <2>7. SaveInv(e)'
    BY <2>1, <2>2, <2>4 DEF DiskInv, SaveInv, Exists
  <2>8. CleanInv(e)'
    BY <2>1 DEF DiskInv, CleanInv
  <2> QED
    BY <1>0, <2>5, <2>6, <2>7, <2>8 DEF DiskInv
<1>9. CASE Publish(e)
  <2>1. /\ step[e] = "publish" /\ content' = content /\ open' = open
        /\ snapshot' = snapshot /\ saved' = snapshot[e] /\ damaged' = FALSE
    BY <1>9 DEF Publish, Finish
  <2>2. /\ name'["main"] = name["tmp"] /\ name'["tmp"] = Nothing
        /\ name'["bak"] = name["bak"]
    BY <1>9, <1>0 DEF Publish, TypeOK
  <2>3. /\ Exists("tmp") /\ ~Exists("main")
        /\ content[name["tmp"]] = snapshot[e] /\ snapshot[e] \in Sessions
    BY <2>1, <1>0 DEF DiskInv, SaveInv, TypeOK
  <2>4. Exists("main")' /\ Content("main")' = saved'
    BY <2>1, <2>2, <2>3 DEF Content, Exists
  <2>5. StateFileIsLastSave' /\ SavedSessionOnDisk'
    BY <2>1, <2>4 DEF StateFileIsLastSave, SavedSessionOnDisk
  <2>6. DistinctNames'
    BY <2>2, <2>3 DEF DiskInv, DistinctNames, Exists
  <2>7. step'[e] \in {"ready", "open", "down"}
    BY <1>9, <1>0 DEF Publish, Finish, TypeOK
  <2>8. SaveInv(e)'
    BY <2>7 DEF SaveInv
  <2>9. CASE ~clean'
    BY <1>0, <2>5, <2>6, <2>8, <2>9 DEF DiskInv, CleanInv
  <2>10. CASE clean'
    <3>1. purpose[e] = "destructor" /\ saved = snapshot[e] /\ ~damaged
      BY <1>9, <2>10 DEF Publish
    <3>2. step'[e] = "down"
      BY <1>9, <1>0, <3>1 DEF Publish, Finish, TypeOK
    <3>3. saved # Nothing /\ saved \in Sessions
      BY <2>3, <3>1, ValuesAssumption, MaxEditsAssumption DEF Sessions
    <3>4. Content("bak") = saved
      BY <2>3, <3>1, <3>3 DEF DiskInv, SavedSessionOnDisk, Content
    <3>5. Exists("bak") /\ content[name["bak"]] = saved
      BY <3>3, <3>4 DEF Content
    <3>6. CleanInv(e)'
      BY <2>1, <2>2, <2>3, <2>4, <3>1, <3>2, <3>3, <3>5 DEF CleanInv, Exists
    <3> QED
      BY <1>0, <2>5, <2>6, <2>8, <3>6 DEF DiskInv
  <2> QED
    BY <2>9, <2>10
<1>10. CASE FailSave(e)
  <2>1. /\ Saving(e) /\ content' = content /\ UNCHANGED <<saved, damaged, clean>>
    BY <1>10 DEF FailSave
  <2>2. /\ name'["tmp"] = Nothing /\ name'["main"] = name["main"]
        /\ name'["bak"] = name["bak"]
    BY <1>10, <1>0 DEF FailSave, TypeOK
  <2>3. step'[e] \in {"ready", "open", "down"}
    BY <1>10, <1>0 DEF FailSave, Finish, TypeOK
  <2>4. Content("main")' = Content("main") /\ Content("bak")' = Content("bak")
    BY <2>1, <2>2 DEF Content, Exists
  <2>5. StateFileIsLastSave' /\ SavedSessionOnDisk'
    BY <2>1, <2>2, <2>4 DEF DiskInv, StateFileIsLastSave, SavedSessionOnDisk, Exists
  <2>6. DistinctNames'
    BY <2>2 DEF DiskInv, DistinctNames
  <2>7. SaveInv(e)'
    BY <2>3 DEF SaveInv
  <2>8. CleanInv(e)'
    BY <2>1 DEF DiskInv, CleanInv, Saving
  <2> QED
    BY <1>0, <2>5, <2>6, <2>7, <2>8 DEF DiskInv
<1>11. CASE Crash(e)
  <2>1. step[e] # "down" /\ step'[e] = "down" /\ clean' = clean
    BY <1>11, <1>0 DEF Crash, TypeOK
  <2>2. SaveInv(e)' /\ CleanInv(e)'
    BY <2>1 DEF SaveInv, DiskInv, CleanInv
  <2> QED
    BY <1>0, <1>11, <2>2, DiskUnchanged DEF Crash
<1>12. CASE Damage
  <2>1. /\ Exists("main") /\ name["main"] \in Inodes /\ step[e] = "down"
        /\ content' = [content EXCEPT ![name["main"]] = Torn]
        /\ damaged' = TRUE /\ UNCHANGED <<name, step, saved, clean>>
    BY <1>12, <1>0 DEF Damage, Exists, TypeOK
  <2>2. StateFileIsLastSave' /\ SavedSessionOnDisk'
    BY <2>1 DEF StateFileIsLastSave, SavedSessionOnDisk
  <2>3. SaveInv(e)'
    BY <2>1 DEF SaveInv
  <2>4. name["bak"] # name["main"]
    BY <2>1, ValuesAssumption DEF DiskInv, DistinctNames
  <2>5. CleanInv(e)'
    BY <2>1, <2>4, <1>0 DEF DiskInv, CleanInv, Exists, TypeOK
  <2>6. DistinctNames'
    BY <2>1 DEF DiskInv, DistinctNames
  <2> QED
    BY <1>0, <2>2, <2>3, <2>5, <2>6 DEF DiskInv
<1>13. CASE UNCHANGED vars
  <2>1. SaveInv(e)' /\ CleanInv(e)'
    BY <1>13 DEF vars, DiskInv, SaveInv, CleanInv, Exists
  <2> QED
    BY <1>0, <1>13, <2>1, DiskUnchanged DEF vars
<1> QED
  BY <1>1, <1>2, <1>3, <1>4, <1>5, <1>6, <1>7, <1>8, <1>9, <1>10, <1>11, <1>12,
     <1>13 DEF Next

\* It holds of every run.
LEMMA DiskInvariant ==
  ASSUME NEW e \in Engines, Engines = {e}
  PROVE  Spec => []DiskInv(e)
<1>1. Init => DiskInv(e)
  BY DiskInit
<1>2. DiskInv(e) /\ [Next]_vars => DiskInv(e)'
  BY DiskStep
<1> QED
  BY <1>1, <1>2, PTL DEF Spec

\* After a regular exit two files hold the session.
LEMMA CleanImplies ==
  ASSUME NEW e \in Engines, DiskInv(e)
  PROVE  CleanExitSurvivesDamage
<1> SUFFICES ASSUME clean PROVE Loaded = saved
  BY DEF CleanExitSurvivesDamage
<1>1. /\ saved \in Sessions /\ Torn \notin Sessions
      /\ Content("main") \in {saved, Torn} /\ Content("bak") = saved
  BY ValuesAssumption, MaxEditsAssumption DEF DiskInv, CleanInv, Content, Sessions
<1> QED
  BY <1>1 DEF Loaded, Importable

\* With one engine a restart never finds a torn or stale state file: a state file
\* that nobody damaged holds the session of the last completed save.
THEOREM StateFileIsSound ==
  ASSUME NEW e \in Engines, Engines = {e}
  PROVE  Spec => []StateFileIsLastSave
<1>1. DiskInv(e) => StateFileIsLastSave
  BY DEF DiskInv
<1> QED
  BY <1>1, DiskInvariant, PTL

\* With one engine the session of the last completed save stays complete on disk,
\* whatever crashes and failed saves follow.
THEOREM SessionIsNeverLost ==
  ASSUME NEW e \in Engines, Engines = {e}
  PROVE  Spec => []SavedSessionOnDisk
<1>1. DiskInv(e) => SavedSessionOnDisk
  BY DEF DiskInv
<1> QED
  BY <1>1, DiskInvariant, PTL

\* With one engine a regular exit leaves two copies: the next start restores the
\* session even if the state file was damaged meanwhile.
THEOREM CleanExitIsSafe ==
  ASSUME NEW e \in Engines, Engines = {e}
  PROVE  Spec => []CleanExitSurvivesDamage
<1>1. DiskInv(e) => CleanExitSurvivesDamage
  BY CleanImplies
<1> QED
  BY <1>1, DiskInvariant, PTL

-----------------------------------------------------------------------------
(* SessionDocument: trees of JSON                                          *)

\* A tree as the constructors make it, and what is known of a value.
Wood(t) == <<>> \in DOMAIN t /\ DOMAIN t \subseteq Seq(Branch) /\ t = [p \in DOMAIN t |-> t[p]]
Value(v) == Wood(v) /\ \A p \in DOMAIN v : v[p] = <<v[p][1], v[p][2]>> /\ v[p][1] \in DOMAIN KindOf

\* A path is a branch and what follows it.
LEMMA Paths ==
    ASSUME NEW b \in Branch, NEW p \in Seq(Branch)
    PROVE  /\ <<b>> \o p \in Seq(Branch) \ {<<>>}
           /\ (<<b>> \o p)[1] = b
           /\ Tail(<<b>> \o p) = p
  <1>1. <<b>> \in Seq(Branch) /\ Len(<<b>>) = 1 /\ <<b>>[1] = b
    OBVIOUS
  <1>2. /\ <<b>> \o p \in Seq(Branch) /\ Len(<<b>> \o p) = 1 + Len(p) /\ Len(p) \in Nat
        /\ \A i \in 1 .. 1 + Len(p) : (<<b>> \o p)[i] = IF i <= 1 THEN <<b>>[i] ELSE p[i - 1]
    BY <1>1, ConcatProperties
  <1> DEFINE q == <<b>> \o p
  <1> HIDE DEF q
  <1>3. q \in Seq(Branch) /\ Len(q) = 1 + Len(p) /\ q # <<>> /\ q[1] = b
    BY <1>1, <1>2 DEF q
  <1>4. Tail(q) \in Seq(Branch) /\ Len(Tail(q)) = Len(p)
        /\ \A i \in 1 .. Len(Tail(q)) : Tail(q)[i] = q[i + 1]
    BY <1>2, <1>3, HeadTailProperties
  <1>5. \A i \in 1 .. Len(p) : q[i + 1] = p[i]
    <2> SUFFICES ASSUME NEW i \in 1 .. Len(p) PROVE q[i + 1] = p[i]
      OBVIOUS
    <2>1. i + 1 \in 1 .. 1 + Len(p) /\ ~(i + 1 <= 1) /\ (i + 1) - 1 = i
      BY <1>2
    <2> QED BY <1>2, <2>1 DEF q
  <1>6. Tail(q) = p
    BY <1>4, <1>5, SeqEqual
  <1> QED BY <1>3, <1>6 DEF q

LEMMA PathIs ==
    ASSUME NEW q \in Seq(Branch), q # <<>>
    PROVE  q[1] \in Branch /\ Tail(q) \in Seq(Branch) /\ q = <<q[1]>> \o Tail(q)
           /\ Len(q) \in Nat \ {0}
  <1>1. Len(q) \in Nat \ {0} /\ Tail(q) \in Seq(Branch) /\ Len(Tail(q)) = Len(q) - 1
        /\ \A i \in 1 .. Len(Tail(q)) : Tail(q)[i] = q[i + 1]
    BY EmptySeq, HeadTailProperties
  <1>2. q[1] \in Branch
    BY <1>1, ElementOfSeq
  <1> DEFINE t == Tail(q)
             r == <<q[1]>> \o t
  <1>3. <<q[1]>> \in Seq(Branch) /\ Len(<<q[1]>>) = 1 /\ <<q[1]>>[1] = q[1]
    BY <1>2
  <1> HIDE DEF t
  <1>4. /\ r \in Seq(Branch) /\ Len(r) = 1 + Len(t)
        /\ \A i \in 1 .. 1 + Len(t) : r[i] = IF i <= 1 THEN <<q[1]>>[i] ELSE t[i - 1]
    BY <1>1, <1>3, ConcatProperties DEF t
  <1> HIDE DEF r
  <1>5. Len(r) = Len(q)
    BY <1>1, <1>4 DEF t
  <1>6. ASSUME NEW i \in 1 .. Len(q) PROVE q[i] = r[i]
    <2>1. CASE i = 1
      BY <1>1, <1>3, <1>4, <2>1 DEF t
    <2>2. CASE i # 1
      <3>1. i \in 1 .. 1 + Len(t) /\ ~(i <= 1) /\ i - 1 \in 1 .. Len(t) /\ (i - 1) + 1 = i
        BY <1>1, <2>2 DEF t
      <3>2. t[i - 1] = q[i]
        BY <1>1, <3>1 DEF t
      <3> QED BY <1>4, <3>1, <3>2
    <2> QED BY <2>1, <2>2
  <1>7. q = r
    BY <1>4, <1>5, <1>6, SeqEqual
  <1> QED BY <1>1, <1>2, <1>7 DEF r, t

\* A container has the trees it is made of.
LEMMA ContainerIs ==
    ASSUME NEW kind, NEW f, DOMAIN f \subseteq Branch, \A b \in DOMAIN f : Wood(f[b])
    PROVE  /\ Wood(Container(kind, f)) /\ Kind(Container(kind, f)) = kind
           /\ Branches(Container(kind, f)) = DOMAIN f
           /\ \A b \in DOMAIN f : Sub(Container(kind, f), b) = f[b]
  <1> DEFINE c == Container(kind, f)
             Below(b) == {<<b>> \o p : p \in DOMAIN f[b]}
             paths == {<<>>} \cup UNION {Below(b) : b \in DOMAIN f}
  <1>1. c = [p \in paths |-> IF p = <<>> THEN <<kind, None>> ELSE f[p[1]][Tail(p)]]
    BY DEF Container
  <1>2. DOMAIN c = paths
    BY <1>1
  <1>3. ASSUME NEW b \in DOMAIN f, NEW p \in DOMAIN f[b]
        PROVE  /\ <<b>> \o p \in Seq(Branch) \ {<<>>} /\ (<<b>> \o p)[1] = b /\ Tail(<<b>> \o p) = p
               /\ p \in Seq(Branch) /\ <<b>> \o p \in paths
    <2>1. b \in Branch /\ p \in Seq(Branch)
      BY DEF Wood
    <2>2. <<b>> \o p \in Below(b)
      OBVIOUS
    <2> QED BY <2>1, <2>2, Paths
  <1>4. ASSUME NEW q \in paths, q # <<>>
        PROVE  \E b \in DOMAIN f : \E p \in DOMAIN f[b] : q = <<b>> \o p
    BY <1>4
  <1> HIDE DEF paths, c
  <1>5. <<>> \in paths /\ paths \subseteq Seq(Branch)
    <2>1. <<>> \in paths
      BY DEF paths
    <2>2. ASSUME NEW q \in paths, q # <<>> PROVE q \in Seq(Branch)
      <3>1. PICK b \in DOMAIN f : \E p \in DOMAIN f[b] : q = <<b>> \o p
        BY <1>4, <2>2
      <3>2. PICK p \in DOMAIN f[b] : q = <<b>> \o p
        BY <3>1
      <3> QED BY <1>3, <3>2
    <2>3. <<>> \in Seq(Branch)
      OBVIOUS
    <2> QED BY <2>1, <2>2, <2>3
  <1>6. Wood(c)
    <2>1. c = [p \in DOMAIN c |-> c[p]]
      BY <1>1
    <2> QED BY <1>2, <1>5, <2>1 DEF Wood
  <1>7. c[<<>>] = <<kind, None>>
    BY <1>1, <1>5
  <1>8. Kind(c) = kind
    BY <1>7 DEF Kind
  <1>9. Branches(c) = DOMAIN f
    <2>1. \A b \in DOMAIN f : <<>> \in DOMAIN f[b]
      BY DEF Wood
    <2>2. ASSUME NEW b \in DOMAIN f PROVE b \in Branches(c)
      BY <1>2, <1>3, <2>1 DEF Branches
    <2>3. ASSUME NEW b \in Branches(c) PROVE b \in DOMAIN f
      <3>1. PICK q \in paths : q # <<>> /\ b = q[1]
        BY <1>2, <2>3 DEF Branches
      <3>2. PICK a \in DOMAIN f : \E p \in DOMAIN f[a] : q = <<a>> \o p
        BY <1>4, <3>1
      <3>3. PICK p \in DOMAIN f[a] : q = <<a>> \o p
        BY <3>2
      <3> QED BY <1>3, <3>1, <3>3
    <2> QED BY <2>2, <2>3
  <1>10. ASSUME NEW b \in DOMAIN f PROVE Sub(c, b) = f[b]
    <2> DEFINE below == {p \in DOMAIN c : p # <<>> /\ p[1] = b}
    <2>1. \A p \in DOMAIN f[b] : <<b>> \o p \in below /\ Tail(<<b>> \o p) = p
      BY <1>2, <1>3
    <2>2. \A q \in below : Tail(q) \in DOMAIN f[b]
      <3> SUFFICES ASSUME NEW q \in below PROVE Tail(q) \in DOMAIN f[b]
        OBVIOUS
      <3>1. q \in paths /\ q # <<>> /\ q[1] = b
        BY <1>2
      <3>2. PICK a \in DOMAIN f : \E p \in DOMAIN f[a] : q = <<a>> \o p
        BY <1>4, <3>1
      <3>3. PICK p \in DOMAIN f[a] : q = <<a>> \o p
        BY <3>2
      <3> QED BY <1>3, <3>1, <3>3
    <2>3. {Tail(q) : q \in below} = DOMAIN f[b]
      BY <2>1, <2>2
    <2>4. Sub(c, b) = [p \in DOMAIN f[b] |-> c[<<b>> \o p]]
      BY <2>3 DEF Sub
    <2>5. ASSUME NEW p \in DOMAIN f[b] PROVE c[<<b>> \o p] = f[b][p]
      BY <1>1, <1>3
    <2>6. Sub(c, b) = [p \in DOMAIN f[b] |-> f[b][p]]
      BY <2>4, <2>5
    <2> QED BY <2>6 DEF Wood
  <1> QED BY <1>6, <1>8, <1>9, <1>10 DEF c

LEMMA ObjectIs ==
    ASSUME NEW f, DOMAIN f \subseteq Texts, \A k \in DOMAIN f : Wood(f[k])
    PROVE  /\ Wood(Object(f)) /\ IsObject(Object(f)) /\ Kind(Object(f)) = "object"
           /\ KeysOf(Object(f)) = DOMAIN f
           /\ \A k : Has(Object(f), k) <=> k \in DOMAIN f
           /\ \A k, d : At(Object(f), k, d) = IF k \in DOMAIN f THEN f[k] ELSE d
  <1> DEFINE g == [b \in {Member(k) : k \in DOMAIN f} |-> f[b[1]]]
             o == Object(f)
  <1>1. DOMAIN g = {Member(k) : k \in DOMAIN f} /\ o = Container("object", g)
    BY DEF Object
  <1>2. \A k : Member(k)[1] = k
    BY DEF Member
  <1>3. \A k \in DOMAIN f : Member(k) \in DOMAIN g /\ g[Member(k)] = f[k] /\ Member(k) \in Branch
    BY <1>2 DEF Member, Branch
  <1>4. \A b \in DOMAIN g : b \in Branch /\ Wood(g[b])
    BY <1>1, <1>3
  <1> HIDE DEF g, o
  <1>5. /\ Wood(o) /\ Kind(o) = "object" /\ Branches(o) = DOMAIN g
        /\ \A b \in DOMAIN g : Sub(o, b) = g[b]
    BY <1>1, <1>4, ContainerIs
  <1>6. \A k : Has(o, k) <=> k \in DOMAIN f
    BY <1>1, <1>2, <1>5 DEF Has
  <1>7. ASSUME NEW k, NEW d
        PROVE  At(o, k, d) = IF k \in DOMAIN f THEN f[k] ELSE d
    BY <1>3, <1>5, <1>6 DEF At
  <1>8. KeysOf(o) = DOMAIN f
    <2>1. Branches(o) = {Member(k) : k \in DOMAIN f}
      BY <1>1, <1>5
    <2>2. KeysOf(o) = {Member(k)[1] : k \in DOMAIN f}
      BY <2>1 DEF KeysOf
    <2> QED BY <1>2, <2>2
  <1> QED BY <1>5, <1>6, <1>7, <1>8 DEF o, IsObject

LEMMA ArrayIs ==
    ASSUME NEW q, DOMAIN q \subseteq Nat, \A i \in DOMAIN q : Wood(q[i])
    PROVE  /\ Wood(Array(q)) /\ IsArray(Array(q)) /\ Kind(Array(q)) = "array"
           /\ ItemsOf(Array(q)) = DOMAIN q
           /\ Branches(Array(q)) = {Item(i) : i \in DOMAIN q}
           /\ \A i \in DOMAIN q : Sub(Array(q), Item(i)) = q[i]
  <1> DEFINE g == [b \in {Item(i) : i \in DOMAIN q} |-> q[b[2]]]
             o == Array(q)
  <1>1. DOMAIN g = {Item(i) : i \in DOMAIN q} /\ o = Container("array", g)
    BY DEF Array
  <1>2. \A i : Item(i)[2] = i
    BY DEF Item
  <1>3. \A i \in DOMAIN q : Item(i) \in DOMAIN g /\ g[Item(i)] = q[i] /\ Item(i) \in Branch
    <2>1. \A i \in DOMAIN q : Item(i) \in DOMAIN g /\ g[Item(i)] = q[i]
      BY <1>2
    <2>2. "" \in Texts
      BY TextsAssumption
    <2>3. ASSUME NEW i \in Nat PROVE Item(i) \in Branch
      BY <2>2, Zenon DEF Item, Branch
    <2> QED BY <2>1, <2>3
  <1>4. \A b \in DOMAIN g : b \in Branch /\ Wood(g[b])
    BY <1>1, <1>3
  <1> HIDE DEF g, o
  <1>5. /\ Wood(o) /\ Kind(o) = "array" /\ Branches(o) = DOMAIN g
        /\ \A b \in DOMAIN g : Sub(o, b) = g[b]
    BY <1>1, <1>4, ContainerIs
  <1>6. ItemsOf(o) = DOMAIN q
    <2>1. Branches(o) = {Item(i) : i \in DOMAIN q}
      BY <1>1, <1>5
    <2>2. ItemsOf(o) = {Item(i)[2] : i \in DOMAIN q}
      BY <2>1 DEF ItemsOf
    <2> QED BY <1>2, <2>2
  <1> QED BY <1>1, <1>3, <1>5, <1>6 DEF o, IsArray

LEMMA LeafIs ==
    ASSUME NEW kind, NEW x
    PROVE  Wood(Leaf(kind, x)) /\ Kind(Leaf(kind, x)) = kind /\ TextOf(Leaf(kind, x)) = x
  <1>1. DOMAIN Leaf(kind, x) = {<<>>} /\ Leaf(kind, x)[<<>>] = <<kind, x>> /\ <<>> \in Seq(Branch)
    BY DEF Leaf
  <1>2. Leaf(kind, x) = [p \in DOMAIN Leaf(kind, x) |-> Leaf(kind, x)[p]]
    BY DEF Leaf
  <1> QED BY <1>1, <1>2 DEF Wood, Kind, TextOf

\* A value read back is the value, except for what JSON cannot write.
LEMMA ValueIs ==
    ASSUME NEW v, Value(v)
    PROVE  Wood(AnyValueToJson(v)) /\ JsonToAnyValue(AnyValueToJson(v)) = Finite(v)
  <1> DEFINE j == AnyValueToJson(v)
  <1>1. /\ DOMAIN j = DOMAIN v
        /\ \A p \in DOMAIN v : j[p] = IF v[p] = NotFinite THEN NullNode ELSE <<KindOf[v[p][1]], v[p][2]>>
        /\ j = [p \in DOMAIN j |-> j[p]]
    BY DEF AnyValueToJson
  <1>2. Wood(j)
    <2> HIDE DEF j
    <2> QED BY <1>1 DEF Wood, Value
  <1>3. \A t \in DOMAIN KindOf : TypeOf[KindOf[t]] = t
    BY DEF KindOf, TypeOf
  <1>4. ASSUME NEW p \in DOMAIN v
        PROVE  <<TypeOf[j[p][1]], j[p][2]>> = IF v[p] = NotFinite THEN NullNode ELSE v[p]
    <2> HIDE DEF j
    <2>1. CASE v[p] = NotFinite
      <3>1. j[p] = NullNode
        BY <1>1, <2>1
      <3>2. TypeOf["null"] = "null"
        BY DEF TypeOf
      <3> QED BY <2>1, <3>1, <3>2 DEF NullNode
    <2>2. CASE v[p] # NotFinite
      <3>1. j[p][1] = KindOf[v[p][1]] /\ j[p][2] = v[p][2]
        BY <1>1, <2>2
      <3> QED BY <1>3, <2>2, <3>1 DEF Value
    <2> QED BY <2>1, <2>2
  <1>5. JsonToAnyValue(j) = [p \in DOMAIN v |-> <<TypeOf[j[p][1]], j[p][2]>>]
    BY <1>1 DEF JsonToAnyValue
  <1> HIDE DEF j
  <1>6. JsonToAnyValue(j) = Finite(v)
    BY <1>4, <1>5 DEF Finite
  <1> QED BY <1>2, <1>6 DEF j

-----------------------------------------------------------------------------
(* Sets                                                                    *)

\* The order of the natural numbers.
Less == OpToRel(<, Nat)

\* A set of natural numbers that is not empty has a smallest element.
LEMMA LeastIs ==
    ASSUME NEW A \in SUBSET Nat, A # {}
    PROVE  \E x \in A : \A y \in A : x <= y
  <1>1. IsWellFoundedOn(Less, Nat)
    BY NatLessThanWellFounded DEF OpToRel, Less
  <1>2. PICK x \in A : \A y \in A : <<y, x>> \notin Less
    BY <1>1, WFMin
  <1>3. \A y \in A : x <= y
    <2> SUFFICES ASSUME NEW y \in A PROVE x <= y
      OBVIOUS
    <2>1. x \in Nat /\ y \in Nat
      OBVIOUS
    <2>2. y < x => <<y, x>> \in Less
      BY <2>1 DEF Less, OpToRel
    <2> QED BY <1>2, <2>1, <2>2
  <1> QED BY <1>3

\* Induction up to n, by the smallest number outside of T.
LEMMA UpTo ==
    ASSUME NEW n \in Nat, NEW T, 0 \in T, \A i \in 0 .. n - 1 : i \in T => i + 1 \in T
    PROVE  0 .. n \subseteq T
  <1> DEFINE Rest == {i \in 0 .. n : i \notin T}
  <1>1. SUFFICES ASSUME Rest # {} PROVE FALSE
    OBVIOUS
  <1>2. Rest \in SUBSET Nat
    OBVIOUS
  <1>3. PICK x \in Rest : \A y \in Rest : x <= y
    BY <1>1, <1>2, LeastIs
  <1>4. x \in 1 .. n /\ x - 1 \in 0 .. n - 1 /\ ~(x <= x - 1) /\ (x - 1) + 1 = x
    BY <1>3
  <1>5. x - 1 \notin Rest
    BY <1>3, <1>4
  <1> QED BY <1>3, <1>4, <1>5

\* The values of a function on a finite set are finitely many.
LEMMA ImageFinite ==
    ASSUME NEW f, IsFiniteSet(DOMAIN f)
    PROVE  IsFiniteSet({f[x] : x \in DOMAIN f})
  <1> DEFINE S == DOMAIN f
             T == {f[x] : x \in S}
             g == [x \in S |-> f[x]]
  <1>1. g \in Surjection(S, T)
    BY DEF Surjection
  <1> HIDE DEF g
  <1> QED BY <1>1, FS_Surjection

\* A finite set of numbers that is not empty has a greatest element.
LEMMA GreatestIs ==
    ASSUME NEW A \in SUBSET Nat, IsFiniteSet(A), A # {}
    PROVE  Max(A) \in A
  <1>1. PICK n \in Nat : ExistsSurjection(1 .. n, A)
    BY FS_NatSurjection
  <1>2. PICK f \in [1 .. n -> A] : \A t \in A : \E i \in 1 .. n : f[i] = t
    BY <1>1 DEF ExistsSurjection, Surjection
  <1> DEFINE T == {k \in 0 .. n : \E m \in Nat : \A i \in 1 .. k : f[i] <= m}
  <1>3. 0 \in T
    OBVIOUS
  <1>4. ASSUME NEW k \in 0 .. n - 1, k \in T PROVE k + 1 \in T
    <2>1. PICK m \in Nat : \A i \in 1 .. k : f[i] <= m
      BY <1>4
    <2>2. k + 1 \in 1 .. n /\ f[k + 1] \in Nat
      <3>1. k + 1 \in 1 .. n
        OBVIOUS
      <3> QED BY <1>2, <3>1
    <2>3. m + f[k + 1] \in Nat
      BY <2>2
    <2>4. ASSUME NEW i \in 1 .. k + 1 PROVE f[i] <= m + f[k + 1]
      <3>1. i \in 1 .. n
        BY <2>2
      <3>2. f[i] \in Nat
        BY <1>2, <3>1
      <3>3. CASE i = k + 1
        BY <2>2, <3>3
      <3>4. CASE i # k + 1
        <4>1. f[i] <= m
          BY <2>1, <3>4
        <4> QED BY <2>2, <3>2, <4>1
      <3> QED BY <3>3, <3>4
    <2>5. k + 1 \in 0 .. n
      OBVIOUS
    <2> QED BY <2>3, <2>4, <2>5
  <1>5. 0 .. n \subseteq T
    <2> HIDE DEF T
    <2> QED BY <1>3, <1>4, UpTo
  <1>6. n \in 0 .. n
    OBVIOUS
  <1>7. PICK m \in Nat : \A i \in 1 .. n : f[i] <= m
    BY <1>5, <1>6
  <1>8. \A y \in A : y \in Nat /\ y <= m
    BY <1>2, <1>7
  <1> DEFINE B == {m - y : y \in A}
  <1>9. \A y \in A : m - y \in Nat
    BY <1>8
  <1>10. B \in SUBSET Nat /\ B # {}
    BY <1>9
  <1>11. PICK b \in B : \A c \in B : b <= c
    BY <1>10, LeastIs
  <1>12. PICK x \in A : b = m - x
    BY <1>11
  <1>13. \A y \in A : m - y \in B
    OBVIOUS
  <1>14. \A y \in A : m - x <= m - y
    BY <1>11, <1>12, <1>13
  <1>15. \A y \in A : x >= y
    BY <1>8, <1>14
  <1>16. \E z \in A : \A y \in A : z >= y
    BY <1>15
  <1> QED BY <1>16 DEF Max

\* SetToSeq has every element of a finite set at one place.
LEMMA SetToSeqIs ==
    ASSUME NEW S, IsFiniteSet(S)
    PROVE  /\ DOMAIN SetToSeq(S) \subseteq Nat
           /\ \A i \in DOMAIN SetToSeq(S) : SetToSeq(S)[i] \in S
           /\ \A i, j \in DOMAIN SetToSeq(S) : SetToSeq(S)[i] = SetToSeq(S)[j] => i = j
           /\ \A x \in S : \E i \in DOMAIN SetToSeq(S) : SetToSeq(S)[i] = x
  <1> DEFINE n == Cardinality(S)
             q == SetToSeq(S)
  <1>1. n \in Nat /\ ExistsBijection(1 .. n, S)
    BY FS_CardinalityType
  <1>2. \E f \in [1 .. n -> S] : IsInjective(f)
    BY <1>1 DEF ExistsBijection, Bijection, Injection
  <1>3. q \in [1 .. n -> S] /\ IsInjective(q)
    BY <1>2 DEF SetToSeq
  <1>4. Cardinality(1 .. n) = n /\ IsFiniteSet(1 .. n)
    BY <1>1, FS_CountingElements, FS_Interval
  <1> HIDE DEF n, q
  <1>5. q \in Injection(1 .. n, S)
    BY <1>3 DEF Injection
  <1>6. q \in Surjection(1 .. n, S)
    BY <1>4, <1>5, FS_Injection DEF n
  <1>7. DOMAIN q = 1 .. n
    BY <1>3
  <1> QED BY <1>1, <1>3, <1>6, <1>7 DEF IsInjective, Surjection, q

-----------------------------------------------------------------------------
(* What Export writes is accepted and read back                            *)

Map(f) == f = [k \in DOMAIN f |-> f[k]] /\ \A k \in DOMAIN f : Value(f[k])

\* Export's members and objects.
Plain(f) == Object([k \in DOMAIN f |-> AnyValueToJson(f[k])])
VariableObject(k, v) == [name |-> Text(k), type |-> Text(AnyValueTypeName(v)), value |-> AnyValueToJson(v)]
ParamsArray(params) == Array([i \in DOMAIN params |-> Text(params[i])])
FunctionObject(n, d) == [name |-> Text(n), type |-> Text("function"), params |-> ParamsArray(d.params),
                         expression |-> Text(d.expression)]
MathObject(s) == [variables |-> ArrayOf([k \in DOMAIN s.math |-> VariableObject(k, s.math[k])]),
                  functions |-> ArrayOf([n \in DOMAIN s.definitions |-> FunctionObject(n, s.definitions[n])])]

LEMMA TextIs == ASSUME NEW x PROVE Wood(Text(x)) /\ Kind(Text(x)) = "string" /\ TextOf(Text(x)) = x
  BY LeafIs DEF Text

\* A member that is a text.
LEMMA StringIs ==
    ASSUME NEW f, DOMAIN f \subseteq Texts, \A k \in DOMAIN f : Wood(f[k]),
           NEW key \in DOMAIN f, NEW x, f[key] = Text(x)
    PROVE  Kind(StringOf(Object(f), key)) = "string" /\ TextOf(StringOf(Object(f), key)) = x
  <1>1. StringOf(Object(f), key) = Text(x)
    BY ObjectIs DEF StringOf
  <1> QED BY <1>1, TextIs

LEMMA PlainIs ==
    ASSUME NEW f, Map(f), DOMAIN f \subseteq Texts
    PROVE  Wood(Plain(f)) /\ IsObject(Plain(f)) /\ Values(Plain(f)) = FiniteValues(f)
  <1> DEFINE g == [k \in DOMAIN f |-> AnyValueToJson(f[k])]
             o == Object(g)
  <1>1. DOMAIN g = DOMAIN f
    OBVIOUS
  <1>2. \A k \in DOMAIN f : g[k] = AnyValueToJson(f[k])
    OBVIOUS
  <1>3. \A k \in DOMAIN f : Wood(g[k]) /\ JsonToAnyValue(g[k]) = Finite(f[k])
    BY <1>2, ValueIs DEF Map
  <1> HIDE DEF g
  <1>4. /\ Wood(o) /\ IsObject(o) /\ KeysOf(o) = DOMAIN f
        /\ \A k, d : At(o, k, d) = IF k \in DOMAIN f THEN g[k] ELSE d
    BY <1>1, <1>3, ObjectIs
  <1> HIDE DEF o
  <1>5. \A k \in DOMAIN f : JsonToAnyValue(At(o, k, Null)) = Finite(f[k])
    BY <1>3, <1>4
  <1>6. Values(o) = [k \in DOMAIN f |-> JsonToAnyValue(At(o, k, Null))]
    BY <1>4 DEF Values
  <1>7. Values(o) = FiniteValues(f)
    BY <1>5, <1>6 DEF FiniteValues
  <1> QED BY <1>4, <1>7 DEF o, g, Plain

LEMMA KindOfValue == ASSUME NEW v, Value(v) PROVE Kind(v) # "" /\ Kind(v) \in DOMAIN KindOf
  <1>1. Kind(v) \in DOMAIN KindOf
    BY DEF Value, Wood, Kind
  <1>2. "" \notin DOMAIN KindOf
    BY DEF KindOf
  <1> QED BY <1>1, <1>2

\* An entry of math_state.variables.
LEMMA VariableIs ==
    ASSUME NEW k, k # "", NEW v, Value(v)
    PROVE  LET f == VariableObject(k, v)
           IN /\ DOMAIN f \subseteq Texts /\ \A key \in DOMAIN f : Wood(f[key])
              /\ "name" \in DOMAIN f /\ f["name"] = Text(k)
              /\ ParseMathVariable(Object(f)) = "ok"
              /\ JsonToAnyValue(At(Object(f), "value", Null)) = Finite(v)
  <1> DEFINE f == VariableObject(k, v)
             o == Object(f)
  <1>1. /\ DOMAIN f = {"name", "type", "value"} /\ f["name"] = Text(k)
        /\ f["type"] = Text(Kind(v)) /\ f["value"] = AnyValueToJson(v)
    BY DEF VariableObject, AnyValueTypeName
  <1> HIDE DEF f
  <1>2. DOMAIN f \subseteq Texts
    BY <1>1, TextsAssumption DEF Attributes
  <1>3. \A key \in DOMAIN f : Wood(f[key])
    <2>1. Wood(Text(k)) /\ Wood(Text(Kind(v))) /\ Wood(AnyValueToJson(v))
      BY TextIs, ValueIs
    <2> QED BY <1>1, <2>1
  <1>4. /\ IsObject(o) /\ \A key : Has(o, key) <=> key \in DOMAIN f
        /\ \A key, d : At(o, key, d) = IF key \in DOMAIN f THEN f[key] ELSE d
    BY <1>2, <1>3, ObjectIs
  <1>5. Kind(StringOf(o, "name")) = "string" /\ TextOf(StringOf(o, "name")) = k
    BY <1>1, <1>2, <1>3, StringIs
  <1>6. Kind(StringOf(o, "type")) = "string" /\ TextOf(StringOf(o, "type")) = Kind(v)
    BY <1>1, <1>2, <1>3, StringIs
  <1> HIDE DEF o
  <1>7. ~Mistyped(o, {"name", "type"})
    BY <1>5, <1>6 DEF Mistyped
  <1>8. Has(o, "value")
    BY <1>1, <1>4
  <1>9. ParseMathVariable(o) = "ok"
    BY <1>4, <1>5, <1>6, <1>7, <1>8, KindOfValue DEF ParseMathVariable
  <1>10. JsonToAnyValue(At(o, "value", Null)) = Finite(v)
    BY <1>1, <1>4, ValueIs
  <1> QED BY <1>1, <1>2, <1>3, <1>9, <1>10 DEF o, f

\* A function as DefineFunction and ImportSessionState store it.
DefinitionOK(d) ==
    /\ d = [params |-> d.params, expression |-> d.expression]
    /\ d.params = [i \in DOMAIN d.params |-> d.params[i]] /\ DOMAIN d.params \subseteq Nat
    /\ \A i \in DOMAIN d.params : d.params[i] # ""
    /\ CompileMathFunction(d.params, d.expression)

LEMMA ParamsIs ==
    ASSUME NEW params, params = [i \in DOMAIN params |-> params[i]], DOMAIN params \subseteq Nat
    PROVE  LET a == ParamsArray(params)
           IN /\ Wood(a) /\ IsArray(a)
              /\ [i \in ItemsOf(a) |-> TextOf(Sub(a, Item(i)))] = params
              /\ \A b \in Branches(a) : Kind(Sub(a, b)) = "string" /\
                    \E i \in DOMAIN params : TextOf(Sub(a, b)) = params[i]
  <1> DEFINE q == [i \in DOMAIN params |-> Text(params[i])]
             a == Array(q)
  <1>1. DOMAIN q = DOMAIN params /\ \A i \in DOMAIN params : q[i] = Text(params[i])
    OBVIOUS
  <1> HIDE DEF q
  <1>2. \A i \in DOMAIN q : Wood(q[i]) /\ Kind(q[i]) = "string" /\ TextOf(q[i]) = params[i]
    BY <1>1, TextIs
  <1>3. /\ Wood(a) /\ IsArray(a) /\ ItemsOf(a) = DOMAIN q
        /\ Branches(a) = {Item(i) : i \in DOMAIN q}
        /\ \A i \in DOMAIN q : Sub(a, Item(i)) = q[i]
    BY <1>1, <1>2, ArrayIs
  <1> HIDE DEF a
  <1>4. \A i \in DOMAIN params : TextOf(Sub(a, Item(i))) = params[i]
    BY <1>1, <1>2, <1>3
  <1>5. [i \in ItemsOf(a) |-> TextOf(Sub(a, Item(i)))] = [i \in DOMAIN params |-> params[i]]
    BY <1>1, <1>3, <1>4
  <1>6. ASSUME NEW b \in Branches(a)
        PROVE  Kind(Sub(a, b)) = "string" /\ \E i \in DOMAIN params : TextOf(Sub(a, b)) = params[i]
    <2>1. PICK i \in DOMAIN q : b = Item(i)
      BY <1>3
    <2> QED BY <1>1, <1>2, <1>3, <2>1
  <1>7. ParamsArray(params) = a
    BY DEF ParamsArray, a, q
  <1> QED BY <1>3, <1>5, <1>6, <1>7

\* An entry of math_state.functions.
LEMMA FunctionIs ==
    ASSUME NEW n, n # "", NEW d, DefinitionOK(d)
    PROVE  LET f == FunctionObject(n, d)
           IN /\ DOMAIN f \subseteq Texts /\ \A key \in DOMAIN f : Wood(f[key])
              /\ "name" \in DOMAIN f /\ f["name"] = Text(n)
              /\ ParseMathFunction(Object(f)) = "ok"
              /\ FunctionOf(Object(f)) = d
  <1> DEFINE f == FunctionObject(n, d)
             o == Object(f)
             a == ParamsArray(d.params)
  <1>1. /\ DOMAIN f = {"name", "type", "params", "expression"} /\ f["name"] = Text(n)
        /\ f["type"] = Text("function") /\ f["params"] = a /\ f["expression"] = Text(d.expression)
    BY DEF FunctionObject
  <1>2. /\ Wood(a) /\ IsArray(a)
        /\ [i \in ItemsOf(a) |-> TextOf(Sub(a, Item(i)))] = d.params
        /\ \A b \in Branches(a) : Kind(Sub(a, b)) = "string" /\
              \E i \in DOMAIN d.params : TextOf(Sub(a, b)) = d.params[i]
    BY ParamsIs DEF DefinitionOK
  <1>3. d.expression # ""
    BY NamesAssumption DEF DefinitionOK, CompileMathFunction
  <1> HIDE DEF f, a
  <1>4. DOMAIN f \subseteq Texts
    BY <1>1, TextsAssumption DEF Attributes
  <1>5. \A key \in DOMAIN f : Wood(f[key])
    BY <1>1, <1>2, TextIs
  <1>6. /\ IsObject(o) /\ \A key : Has(o, key) <=> key \in DOMAIN f
        /\ \A key, x : At(o, key, x) = IF key \in DOMAIN f THEN f[key] ELSE x
    BY <1>4, <1>5, ObjectIs
  <1>7. Kind(StringOf(o, "name")) = "string" /\ TextOf(StringOf(o, "name")) = n
    <2>1. "name" \in DOMAIN f /\ f["name"] = Text(n)
      BY <1>1
    <2> QED BY <1>4, <1>5, <2>1, StringIs
  <1>8. Kind(StringOf(o, "type")) = "string" /\ TextOf(StringOf(o, "type")) = "function"
    <2>1. "type" \in DOMAIN f /\ f["type"] = Text("function")
      BY <1>1
    <2> QED BY <1>4, <1>5, <2>1, StringIs
  <1>9. Kind(StringOf(o, "expression")) = "string" /\ TextOf(StringOf(o, "expression")) = d.expression
    <2>1. "expression" \in DOMAIN f /\ f["expression"] = Text(d.expression)
      BY <1>1
    <2> QED BY <1>4, <1>5, <2>1, StringIs
  <1> HIDE DEF o
  <1>10. ~Mistyped(o, {"name", "type", "expression"})
    BY <1>7, <1>8, <1>9 DEF Mistyped
  <1>11. Params(o) = a
    BY <1>1, <1>6 DEF Params
  <1>12. \A b \in Branches(a) : Kind(Sub(a, b)) = "string" /\ TextOf(Sub(a, b)) # ""
    <2>1. \A i \in DOMAIN d.params : d.params[i] # ""
      BY DEF DefinitionOK
    <2> QED BY <1>2, <2>1
  <1>13. ParseMathFunction(o) = "ok"
    BY <1>2, <1>3, <1>6, <1>7, <1>8, <1>9, <1>10, <1>11, <1>12 DEF ParseMathFunction
  <1>14. FunctionOf(o) = d
    BY <1>2, <1>9, <1>11 DEF FunctionOf, DefinitionOK
  <1> QED BY <1>1, <1>4, <1>5, <1>13, <1>14 DEF o, f

\* The array of some objects gives them back by their names.
LEMMA ArrayOfIs ==
    ASSUME NEW f, IsFiniteSet(DOMAIN f),
           \A n \in DOMAIN f : DOMAIN f[n] \subseteq Texts /\ \A k \in DOMAIN f[n] : Wood(f[n][k]),
           \A n \in DOMAIN f : "name" \in DOMAIN f[n] /\ f[n]["name"] = Text(n)
    PROVE  /\ Wood(ArrayOf(f)) /\ IsArray(ArrayOf(f))
           /\ \A i \in ItemsOf(ArrayOf(f)) : \E n \in DOMAIN f : Sub(ArrayOf(f), Item(i)) = Object(f[n])
           /\ ByName(ArrayOf(f)) = [n \in DOMAIN f |-> Object(f[n])]
  <1> DEFINE names == SetToSeq(DOMAIN f)
             q == [i \in DOMAIN names |-> Object(f[names[i]])]
             a == Array(q)
             Name(i) == TextOf(StringOf(Sub(a, Item(i)), "name"))
  <1>1. /\ DOMAIN names \subseteq Nat /\ \A i \in DOMAIN names : names[i] \in DOMAIN f
        /\ \A i, j \in DOMAIN names : names[i] = names[j] => i = j
        /\ \A x \in DOMAIN f : \E i \in DOMAIN names : names[i] = x
    BY SetToSeqIs
  <1> HIDE DEF names
  <1>2. DOMAIN q = DOMAIN names /\ \A i \in DOMAIN names : q[i] = Object(f[names[i]])
    OBVIOUS
  <1>3. ASSUME NEW n \in DOMAIN f
        PROVE  Wood(Object(f[n])) /\ TextOf(StringOf(Object(f[n]), "name")) = n
    BY ObjectIs, StringIs
  <1> HIDE DEF q
  <1>4. \A i \in DOMAIN q : Wood(q[i]) /\ TextOf(StringOf(q[i], "name")) = names[i]
    BY <1>1, <1>2, <1>3
  <1>5. /\ Wood(a) /\ IsArray(a) /\ ItemsOf(a) = DOMAIN q
        /\ \A i \in DOMAIN q : Sub(a, Item(i)) = q[i]
    BY <1>1, <1>2, <1>4, ArrayIs
  <1> HIDE DEF a
  <1>6. \A i \in DOMAIN names : Name(i) = names[i] /\ Sub(a, Item(i)) = Object(f[names[i]])
    BY <1>2, <1>4, <1>5
  <1>7. ItemsOf(a) = DOMAIN names
    BY <1>2, <1>5
  <1> HIDE DEF Name
  <1>8. {Name(i) : i \in ItemsOf(a)} = DOMAIN f
    <2>1. \A i \in ItemsOf(a) : Name(i) \in DOMAIN f
      BY <1>1, <1>6, <1>7
    <2>2. \A n \in DOMAIN f : \E i \in ItemsOf(a) : Name(i) = n
      BY <1>1, <1>6, <1>7
    <2> QED BY <2>1, <2>2
  <1>9. ASSUME NEW n \in DOMAIN f
        PROVE  Sub(a, Item(Max({i \in ItemsOf(a) : Name(i) = n}))) = Object(f[n])
    <2>1. PICK i \in DOMAIN names : names[i] = n
      BY <1>1
    <2>2. {j \in ItemsOf(a) : Name(j) = n} = {i}
      BY <1>1, <1>6, <1>7, <2>1
    <2>3. i \in Nat
      BY <1>1
    <2>4. Max({i}) = i
      BY <2>3 DEF Max
    <2> QED BY <1>6, <2>1, <2>2, <2>4
  <1>10. ByName(a) = [n \in {Name(i) : i \in ItemsOf(a)} |->
                        Sub(a, Item(Max({i \in ItemsOf(a) : Name(i) = n})))]
    BY DEF ByName, Name
  <1>11. ByName(a) = [n \in DOMAIN f |-> Object(f[n])]
    BY <1>8, <1>9, <1>10
  <1>12. ArrayOf(f) = a
    BY DEF ArrayOf, a, q, names
  <1>13. \A i \in ItemsOf(a) : \E n \in DOMAIN f : Sub(a, Item(i)) = Object(f[n])
    BY <1>1, <1>6, <1>7
  <1> QED BY <1>5, <1>11, <1>12, <1>13

\* A session as the commands and the documents make it.
SessionOK(s) ==
    /\ s = [persisted |-> s.persisted, globals |-> s.globals,
            math |-> s.math, definitions |-> s.definitions]
    /\ Map(s.persisted) /\ DOMAIN s.persisted \subseteq Texts
    /\ Map(s.globals) /\ DOMAIN s.globals \subseteq Texts
    /\ Map(s.math) /\ IsFiniteSet(DOMAIN s.math) /\ "" \notin DOMAIN s.math
    /\ s.definitions = [n \in DOMAIN s.definitions |-> s.definitions[n]]
    /\ IsFiniteSet(DOMAIN s.definitions) /\ "" \notin DOMAIN s.definitions
    /\ \A n \in DOMAIN s.definitions : DefinitionOK(s.definitions[n])

LEMMA FirstOk == ASSUME NEW r, \A i \in DOMAIN r : r[i] = "ok" PROVE FirstOf(r) = "ok"
  BY DEF FirstOf

LEMMA VariablesAre ==
    ASSUME NEW m, Map(m), IsFiniteSet(DOMAIN m), "" \notin DOMAIN m
    PROVE  LET a == ArrayOf([k \in DOMAIN m |-> VariableObject(k, m[k])])
           IN Wood(a) /\ ParseMathVariables(a) = "ok" /\ MathVariablesOf(a) = FiniteValues(m)
  <1> DEFINE f == [k \in DOMAIN m |-> VariableObject(k, m[k])]
             a == ArrayOf(f)
  <1>1. DOMAIN f = DOMAIN m /\ \A k \in DOMAIN m : f[k] = VariableObject(k, m[k])
    OBVIOUS
  <1>2. \A k \in DOMAIN m : k # "" /\ Value(m[k])
    BY DEF Map
  <1>3. ASSUME NEW k \in DOMAIN m
        PROVE  LET g == VariableObject(k, m[k])
               IN /\ DOMAIN g \subseteq Texts /\ \A key \in DOMAIN g : Wood(g[key])
                  /\ "name" \in DOMAIN g /\ g["name"] = Text(k)
                  /\ ParseMathVariable(Object(g)) = "ok"
                  /\ JsonToAnyValue(At(Object(g), "value", Null)) = Finite(m[k])
    BY <1>2, VariableIs
  <1> HIDE DEF f
  <1>4. /\ \A k \in DOMAIN f : DOMAIN f[k] \subseteq Texts /\ \A key \in DOMAIN f[k] : Wood(f[k][key])
        /\ \A k \in DOMAIN f : "name" \in DOMAIN f[k] /\ f[k]["name"] = Text(k)
    BY <1>1, <1>3
  <1>5. \A k \in DOMAIN f : /\ ParseMathVariable(Object(f[k])) = "ok"
                            /\ JsonToAnyValue(At(Object(f[k]), "value", Null)) = Finite(m[k])
    BY <1>1, <1>3
  <1>6. /\ Wood(a) /\ IsArray(a)
        /\ \A i \in ItemsOf(a) : \E n \in DOMAIN f : Sub(a, Item(i)) = Object(f[n])
        /\ ByName(a) = [n \in DOMAIN f |-> Object(f[n])]
    BY <1>1, <1>4, ArrayOfIs
  <1> HIDE DEF a
  <1>7. ParseMathVariables(a) = "ok"
    <2> DEFINE r == [i \in ItemsOf(a) |-> ParseMathVariable(Sub(a, Item(i)))]
    <2>1. \A i \in DOMAIN r : r[i] = "ok"
      BY <1>5, <1>6
    <2> HIDE DEF r
    <2>2. FirstOf(r) = "ok"
      BY <2>1, FirstOk
    <2> QED BY <1>6, <2>2 DEF ParseMathVariables, r
  <1>8. DOMAIN ByName(a) = DOMAIN m /\ \A n \in DOMAIN m : ByName(a)[n] = Object(f[n])
    BY <1>1, <1>6
  <1>9. MathVariablesOf(a) = [n \in DOMAIN m |-> JsonToAnyValue(At(ByName(a)[n], "value", Null))]
    BY <1>8 DEF MathVariablesOf
  <1>10. \A n \in DOMAIN m : JsonToAnyValue(At(ByName(a)[n], "value", Null)) = Finite(m[n])
    BY <1>1, <1>5, <1>8
  <1>11. MathVariablesOf(a) = FiniteValues(m)
    BY <1>9, <1>10 DEF FiniteValues
  <1> QED BY <1>6, <1>7, <1>11 DEF a, f

LEMMA FunctionsAre ==
    ASSUME NEW m, m = [n \in DOMAIN m |-> m[n]], IsFiniteSet(DOMAIN m), "" \notin DOMAIN m,
           \A n \in DOMAIN m : DefinitionOK(m[n])
    PROVE  LET a == ArrayOf([n \in DOMAIN m |-> FunctionObject(n, m[n])])
           IN Wood(a) /\ ParseMathFunctions(a) = "ok" /\ MathFunctionsOf(a) = m
  <1> DEFINE f == [n \in DOMAIN m |-> FunctionObject(n, m[n])]
             a == ArrayOf(f)
  <1>1. DOMAIN f = DOMAIN m /\ \A k \in DOMAIN m : f[k] = FunctionObject(k, m[k])
    OBVIOUS
  <1>2. \A k \in DOMAIN m : k # "" /\ DefinitionOK(m[k])
    OBVIOUS
  <1>3. ASSUME NEW k \in DOMAIN m
        PROVE  LET g == FunctionObject(k, m[k])
               IN /\ DOMAIN g \subseteq Texts /\ \A key \in DOMAIN g : Wood(g[key])
                  /\ "name" \in DOMAIN g /\ g["name"] = Text(k)
                  /\ ParseMathFunction(Object(g)) = "ok" /\ FunctionOf(Object(g)) = m[k]
    BY <1>2, FunctionIs
  <1> HIDE DEF f
  <1>4. /\ \A k \in DOMAIN f : DOMAIN f[k] \subseteq Texts /\ \A key \in DOMAIN f[k] : Wood(f[k][key])
        /\ \A k \in DOMAIN f : "name" \in DOMAIN f[k] /\ f[k]["name"] = Text(k)
    BY <1>1, <1>3
  <1>5. \A k \in DOMAIN f : ParseMathFunction(Object(f[k])) = "ok" /\ FunctionOf(Object(f[k])) = m[k]
    BY <1>1, <1>3
  <1>6. /\ Wood(a) /\ IsArray(a)
        /\ \A i \in ItemsOf(a) : \E n \in DOMAIN f : Sub(a, Item(i)) = Object(f[n])
        /\ ByName(a) = [n \in DOMAIN f |-> Object(f[n])]
    BY <1>1, <1>4, ArrayOfIs
  <1> HIDE DEF a
  <1>7. ParseMathFunctions(a) = "ok"
    <2> DEFINE r == [i \in ItemsOf(a) |-> ParseMathFunction(Sub(a, Item(i)))]
    <2>1. \A i \in DOMAIN r : r[i] = "ok"
      BY <1>5, <1>6
    <2> HIDE DEF r
    <2>2. FirstOf(r) = "ok"
      BY <2>1, FirstOk
    <2> QED BY <1>6, <2>2 DEF ParseMathFunctions, r
  <1>8. DOMAIN ByName(a) = DOMAIN m /\ \A n \in DOMAIN m : ByName(a)[n] = Object(f[n])
    BY <1>1, <1>6
  <1>9. MathFunctionsOf(a) = [n \in DOMAIN m |-> FunctionOf(ByName(a)[n])]
    BY <1>8 DEF MathFunctionsOf
  <1>10. \A n \in DOMAIN m : FunctionOf(ByName(a)[n]) = m[n]
    BY <1>1, <1>5, <1>8
  <1>11. MathFunctionsOf(a) = m
    BY <1>9, <1>10
  <1> QED BY <1>6, <1>7, <1>11 DEF a, f

\* The session that a document written from s gives back.
ReadBack(s) == [persisted |-> FiniteValues(s.persisted), globals |-> FiniteValues(s.globals),
                math |-> FiniteValues(s.math), definitions |-> s.definitions]

LEMMA IntegerIs == Wood(Integer(1)) /\ Wood(Integer(2))
  BY LeafIs DEF Integer

LEMMA ExportIs ==
    ASSUME NEW s, SessionOK(s)
    PROVE  Outcome(Export(s)) = "ok" /\ Imported(Export(s)) = ReadBack(s)
  <1> DEFINE variables == ArrayOf([k \in DOMAIN s.math |-> VariableObject(k, s.math[k])])
             functions == ArrayOf([n \in DOMAIN s.definitions |-> FunctionObject(n, s.definitions[n])])
             mathFields == [variables |-> variables, functions |-> functions]
             mathState == Object(mathFields)
             fields == [schema_version |-> Integer(2), persisted_variables |-> Plain(s.persisted),
                        global_variables |-> Plain(s.globals), math_state |-> mathState]
             root == Object(fields)
  <1>1. Export(s) = root
    BY DEF Export, Plain, VariableObject, FunctionObject, ParamsArray
  <1>2. /\ Wood(variables) /\ ParseMathVariables(variables) = "ok"
        /\ MathVariablesOf(variables) = FiniteValues(s.math)
    BY VariablesAre DEF SessionOK
  <1>3. /\ Wood(functions) /\ ParseMathFunctions(functions) = "ok"
        /\ MathFunctionsOf(functions) = s.definitions
    BY FunctionsAre DEF SessionOK
  <1> HIDE DEF variables, functions
  <1>4. /\ DOMAIN mathFields = {"variables", "functions"}
        /\ mathFields["variables"] = variables /\ mathFields["functions"] = functions
    OBVIOUS
  <1> HIDE DEF mathFields
  <1>5. DOMAIN mathFields \subseteq Texts /\ \A k \in DOMAIN mathFields : Wood(mathFields[k])
    BY <1>2, <1>3, <1>4, TextsAssumption DEF Attributes
  <1>6. /\ Wood(mathState) /\ IsObject(mathState)
        /\ At(mathState, "variables", EmptyArray) = variables
        /\ At(mathState, "functions", EmptyArray) = functions
    BY <1>4, <1>5, ObjectIs
  <1> HIDE DEF mathState
  <1>7. /\ DOMAIN fields = {"schema_version", "persisted_variables", "global_variables", "math_state"}
        /\ fields["schema_version"] = Integer(2) /\ fields["persisted_variables"] = Plain(s.persisted)
        /\ fields["global_variables"] = Plain(s.globals) /\ fields["math_state"] = mathState
    OBVIOUS
  <1>8. /\ Wood(Plain(s.persisted)) /\ IsObject(Plain(s.persisted))
        /\ Values(Plain(s.persisted)) = FiniteValues(s.persisted)
    BY PlainIs DEF SessionOK
  <1>9. /\ Wood(Plain(s.globals)) /\ IsObject(Plain(s.globals))
        /\ Values(Plain(s.globals)) = FiniteValues(s.globals)
    BY PlainIs DEF SessionOK
  <1> HIDE DEF fields
  <1>10. DOMAIN fields \subseteq Texts
    BY <1>7, TextsAssumption DEF Attributes
  <1>11. \A k \in DOMAIN fields : Wood(fields[k])
    BY <1>6, <1>7, <1>8, <1>9, IntegerIs
  <1>12. /\ IsObject(root) /\ \A k : Has(root, k) <=> k \in DOMAIN fields
         /\ \A k, d : At(root, k, d) = IF k \in DOMAIN fields THEN fields[k] ELSE d
    BY <1>10, <1>11, ObjectIs
  <1> HIDE DEF root
  <1>13. /\ Has(root, "schema_version") /\ At(root, "schema_version", Null) = Integer(2)
         /\ At(root, "persisted_variables", EmptyObject) = Plain(s.persisted)
         /\ At(root, "global_variables", EmptyObject) = Plain(s.globals)
         /\ At(root, "math_state", EmptyObject) = mathState
    BY <1>7, <1>12
  <1>14. CheckHeader(root)
    BY <1>6, <1>12, <1>13 DEF CheckHeader
  <1>15. Sections(root) = [persisted |-> Plain(s.persisted), globals |-> Plain(s.globals),
                           variables |-> variables, functions |-> functions]
    BY <1>6, <1>13 DEF Sections
  <1>16. Outcome(root) = "ok"
    <2> DEFINE r == <<Check(IsObject(Sections(root).persisted)), Check(IsObject(Sections(root).globals)),
                      ParseMathVariables(Sections(root).variables),
                      ParseMathFunctions(Sections(root).functions)>>
    <2>1. r = <<"ok", "ok", "ok", "ok">>
      BY <1>2, <1>3, <1>8, <1>9, <1>15 DEF Check
    <2>2. \A i \in DOMAIN r : r[i] = "ok"
      BY <2>1
    <2> HIDE DEF r
    <2>3. FirstOf(r) = "ok"
      BY <2>2, FirstOk
    <2>4. MathFunctionsOf(Sections(root).functions) = s.definitions
      BY <1>3, <1>15
    <2>5. \A n \in DOMAIN s.definitions :
             CompileMathFunction(s.definitions[n].params, s.definitions[n].expression)
      BY DEF SessionOK, DefinitionOK
    <2> QED BY <1>14, <2>3, <2>4, <2>5 DEF Outcome, Check, r
  <1>17. Imported(root) = ReadBack(s)
    BY <1>2, <1>3, <1>8, <1>9, <1>15 DEF Imported, ReadBack
  <1> QED BY <1>1, <1>16, <1>17

\* What is read back is again a session.
LEMMA FiniteIs == ASSUME NEW v, Value(v) PROVE Value(Finite(v))
  <1>1. DOMAIN Finite(v) = DOMAIN v /\ Finite(v) = [p \in DOMAIN Finite(v) |-> Finite(v)[p]]
    BY DEF Finite
  <1>2. ASSUME NEW p \in DOMAIN v
        PROVE  Finite(v)[p] = <<Finite(v)[p][1], Finite(v)[p][2]>> /\ Finite(v)[p][1] \in DOMAIN KindOf
    <2>1. Finite(v)[p] = IF v[p] = NotFinite THEN NullNode ELSE v[p]
      BY DEF Finite
    <2>2. "null" \in DOMAIN KindOf
      BY DEF KindOf
    <2>3. NullNode = <<NullNode[1], NullNode[2]>> /\ NullNode[1] = "null"
      BY DEF NullNode
    <2> QED BY <2>1, <2>2, <2>3 DEF Value
  <1> QED BY <1>1, <1>2 DEF Value, Wood

LEMMA FiniteMap == ASSUME NEW f, Map(f) PROVE Map(FiniteValues(f)) /\ DOMAIN FiniteValues(f) = DOMAIN f
  BY FiniteIs DEF Map, FiniteValues

LEMMA ReadBackIs == ASSUME NEW s, SessionOK(s) PROVE SessionOK(ReadBack(s))
  <1>1. /\ ReadBack(s).persisted = FiniteValues(s.persisted) /\ ReadBack(s).globals = FiniteValues(s.globals)
        /\ ReadBack(s).math = FiniteValues(s.math) /\ ReadBack(s).definitions = s.definitions
    BY DEF ReadBack
  <1>2. ReadBack(s) = [persisted |-> ReadBack(s).persisted, globals |-> ReadBack(s).globals,
                       math |-> ReadBack(s).math, definitions |-> ReadBack(s).definitions]
    BY DEF ReadBack
  <1>3. /\ Map(ReadBack(s).persisted) /\ DOMAIN ReadBack(s).persisted = DOMAIN s.persisted
        /\ Map(ReadBack(s).globals) /\ DOMAIN ReadBack(s).globals = DOMAIN s.globals
        /\ Map(ReadBack(s).math) /\ DOMAIN ReadBack(s).math = DOMAIN s.math
    BY <1>1, FiniteMap DEF SessionOK
  <1> QED BY <1>1, <1>2, <1>3 DEF SessionOK

-----------------------------------------------------------------------------
(* What Import accepts is a session                                        *)

\* The parent of a node further down, seen from the tree of the first branch.
LEMMA PrefixIs ==
    ASSUME NEW b \in Branch, NEW p \in Seq(Branch), NEW n \in 1 .. Len(p)
    PROVE  /\ SubSeq(p, 1, n - 1) \in Seq(Branch)
           /\ SubSeq(<<b>> \o p, 1, n) = <<b>> \o SubSeq(p, 1, n - 1)
           /\ n + 1 \in 1 .. Len(<<b>> \o p) /\ (<<b>> \o p)[n + 1] = p[n]
  <1> DEFINE q == <<b>> \o p
             r == SubSeq(p, 1, n - 1)
  <1>1. <<b>> \in Seq(Branch) /\ Len(<<b>>) = 1 /\ <<b>>[1] = b /\ Len(p) \in Nat
    OBVIOUS
  <1>2. /\ q \in Seq(Branch) /\ Len(q) = 1 + Len(p)
        /\ \A i \in 1 .. 1 + Len(p) : q[i] = IF i <= 1 THEN b ELSE p[i - 1]
    BY <1>1, ConcatProperties
  <1> HIDE DEF q
  <1>3. n \in Nat /\ n \in 1 .. Len(p) /\ n - 1 \in 0 .. Len(p) /\ n \in 0 .. Len(q) /\ n - 1 \in Nat
    BY <1>1, <1>2
  <1>4. r \in Seq(Branch) /\ Len(r) = n - 1 /\ \A i \in 1 .. n - 1 : r[i] = p[i]
    <2>1. \A i \in 1 .. n - 1 : i \in 1 .. Len(p)
      BY <1>1, <1>3
    <2>2. Len(r) = n - 1
      BY <1>3, SubSeqProperties
    <2>3. r \in Seq(Branch)
      BY <1>3, SubSeqProperties
    <2>4. \A i \in 1 .. n - 1 : r[i] = p[i]
      BY <1>3, SubSeqProperties
    <2> QED BY <2>2, <2>3, <2>4
  <1> HIDE DEF r
  <1>5. /\ <<b>> \o r \in Seq(Branch) /\ Len(<<b>> \o r) = n
        /\ \A i \in 1 .. n : (<<b>> \o r)[i] = IF i <= 1 THEN b ELSE r[i - 1]
    <2>1. /\ <<b>> \o r \in Seq(Branch) /\ Len(<<b>> \o r) = 1 + Len(r)
          /\ \A i \in 1 .. 1 + Len(r) : (<<b>> \o r)[i] = IF i <= 1 THEN <<b>>[i] ELSE r[i - 1]
      BY <1>1, <1>4, ConcatProperties
    <2>2. 1 + Len(r) = n
      BY <1>3, <1>4
    <2> QED BY <1>1, <2>1, <2>2
  <1>6. /\ SubSeq(q, 1, n) \in Seq(Branch) /\ Len(SubSeq(q, 1, n)) = n
        /\ \A i \in 1 .. n : SubSeq(q, 1, n)[i] = q[i]
    BY <1>2, <1>3, SubSeqProperties
  <1>7. ASSUME NEW i \in 1 .. n PROVE q[i] = (<<b>> \o r)[i]
    <2>1. i \in 1 .. 1 + Len(p)
      BY <1>1, <1>3
    <2>2. CASE i <= 1
      BY <1>2, <1>5, <2>1, <2>2
    <2>3. CASE ~(i <= 1)
      <3>1. i - 1 \in 1 .. n - 1
        BY <1>3, <2>3
      <3> QED BY <1>2, <1>4, <1>5, <2>1, <2>3, <3>1
    <2> QED BY <2>2, <2>3
  <1> DEFINE u == SubSeq(q, 1, n)
             w == <<b>> \o r
  <1>8. \A i \in 1 .. Len(u) : u[i] = w[i]
    BY <1>6, <1>7
  <1>9. u \in Seq(Branch) /\ w \in Seq(Branch) /\ Len(u) = Len(w)
    BY <1>5, <1>6
  <1> HIDE DEF u, w
  <1>10. u = w
    BY <1>8, <1>9, SeqEqual
  <1>11. n + 1 \in 1 .. Len(q) /\ n + 1 \in 1 .. 1 + Len(p) /\ ~(n + 1 <= 1) /\ (n + 1) - 1 = n
    BY <1>1, <1>2, <1>3
  <1>12. q[n + 1] = p[n]
    BY <1>2, <1>11
  <1> QED BY <1>4, <1>10, <1>11, <1>12 DEF u, w, q, r

\* One branch.
LEMMA OneBranch ==
    ASSUME NEW b \in Branch
    PROVE  <<b>> \o <<>> = <<b>> /\ SubSeq(<<b>>, 1, 0) = <<>>
  OBVIOUS

\* A tree without branches.
LEMMA LeafTree ==
    ASSUME NEW t, NEW kind \in DOMAIN TypeOf, NEW x, DOMAIN t = {<<>>}, t[<<>>] = <<kind, x>>
    PROVE  Tree(t)
  <1>1. IsFiniteSet({<<>>})
    BY FS_Singleton
  <1>2. <<>> \in Seq(Branch) /\ 1 .. Len(<<>>) = {}
    OBVIOUS
  <1> QED BY <1>1, <1>2 DEF Tree

LEMMA EmptyTrees == Tree(EmptyObject) /\ Tree(EmptyArray) /\ Tree(Null) /\ Tree(Text(""))
  <1>1. {"object", "array", "null", "string"} \subseteq DOMAIN TypeOf
    BY DEF TypeOf
  <1>2. ASSUME NEW kind, NEW f, DOMAIN f = {}
        PROVE  DOMAIN Container(kind, f) = {<<>>} /\ Container(kind, f)[<<>>] = <<kind, None>>
    BY <1>2 DEF Container
  <1>3. DOMAIN None = {}
    BY DEF None
  <1>4. Tree(EmptyObject)
    <2> DEFINE g == [b \in {Member(k) : k \in DOMAIN None} |-> None[b[1]]]
    <2>1. DOMAIN g = {}
      BY <1>3
    <2> HIDE DEF g
    <2>2. EmptyObject = Container("object", g)
      BY DEF EmptyObject, Object, g
    <2> QED BY <1>1, <1>2, <2>1, <2>2, LeafTree
  <1>5. Tree(EmptyArray)
    <2> DEFINE g == [b \in {Item(i) : i \in DOMAIN None} |-> None[b[2]]]
    <2>1. DOMAIN g = {}
      BY <1>3
    <2> HIDE DEF g
    <2>2. EmptyArray = Container("array", g)
      BY DEF EmptyArray, Array, g
    <2> QED BY <1>1, <1>2, <2>1, <2>2, LeafTree
  <1>6. ASSUME NEW kind, NEW x
        PROVE  DOMAIN Leaf(kind, x) = {<<>>} /\ Leaf(kind, x)[<<>>] = <<kind, x>>
    BY DEF Leaf
  <1>7. Tree(Null) /\ Tree(Text(""))
    BY <1>1, <1>6, LeafTree DEF Null, Text
  <1> QED BY <1>4, <1>5, <1>7

LEMMA SubTree ==
    ASSUME NEW j, Tree(j), NEW b \in Branches(j)
    PROVE  b \in Branch /\ Fits(b, Kind(j)) /\ Tree(Sub(j, b))
  <1> DEFINE below == {p \in DOMAIN j : p # <<>> /\ p[1] = b}
             D == {Tail(q) : q \in below}
             t == Sub(j, b)
  <1>1. PICK q \in DOMAIN j : q # <<>> /\ q[1] = b
    BY DEF Branches
  <1>2. q \in Seq(Branch)
    BY DEF Tree
  <1>3. b \in Branch /\ Len(q) \in Nat \ {0} /\ q = <<b>> \o Tail(q) /\ Tail(q) \in Seq(Branch)
    BY <1>1, <1>2, PathIs
  <1>4. \A n \in 1 .. Len(q) : SubSeq(q, 1, n - 1) \in DOMAIN j /\ Fits(q[n], j[SubSeq(q, 1, n - 1)][1])
    BY DEF Tree
  <1>5. SubSeq(q, 1, 0) = <<>>
    BY <1>2, SubSeqProperties
  <1>6. Fits(b, Kind(j))
    <2>1. 1 \in 1 .. Len(q) /\ 1 - 1 = 0
      BY <1>3
    <2>2. Fits(q[1], j[SubSeq(q, 1, 0)][1])
      BY <1>4, <2>1
    <2> QED BY <1>1, <1>5, <2>2 DEF Kind
  <1>7. <<b>> \in DOMAIN j
    <2> DEFINE r == Tail(q)
    <2>1. r \in Seq(Branch) /\ q = <<b>> \o r /\ Len(r) \in Nat
      BY <1>3
    <2> HIDE DEF r
    <2>2. CASE r = <<>>
      BY <1>3, <2>1, <2>2, OneBranch
    <2>3. CASE r # <<>>
      <3>1. 1 \in 1 .. Len(r) /\ 1 - 1 = 0
        BY <2>1, <2>3, EmptySeq
      <3>2. /\ SubSeq(<<b>> \o r, 1, 1) = <<b>> \o SubSeq(r, 1, 0)
            /\ 1 + 1 \in 1 .. Len(<<b>> \o r)
        BY <1>3, <2>1, <3>1, PrefixIs
      <3>3. SubSeq(r, 1, 0) = <<>>
        BY <2>1, SubSeqProperties
      <3>4. 2 \in 1 .. Len(q) /\ 2 - 1 = 1
        BY <2>1, <3>2
      <3>5. SubSeq(q, 1, 1) \in DOMAIN j
        BY <1>4, <3>4
      <3> QED BY <1>3, <2>1, <3>2, <3>3, <3>5, OneBranch
    <2> QED BY <2>2, <2>3
  <1>8. ASSUME NEW p \in D PROVE p \in Seq(Branch) /\ <<b>> \o p \in DOMAIN j
    <2>1. PICK a \in below : p = Tail(a)
      OBVIOUS
    <2>2. a \in DOMAIN j /\ a # <<>> /\ a[1] = b /\ a \in Seq(Branch)
      BY DEF Tree
    <2> QED BY <2>1, <2>2, PathIs
  <1>9. ASSUME NEW p \in Seq(Branch), <<b>> \o p \in DOMAIN j PROVE p \in D
    <2>1. <<b>> \o p # <<>> /\ (<<b>> \o p)[1] = b /\ Tail(<<b>> \o p) = p
      BY <1>3, Paths
    <2>2. <<b>> \o p \in below
      BY <1>9, <2>1
    <2> QED BY <2>1, <2>2
  <1>10. IsFiniteSet(D)
    <2> DEFINE f == [a \in below |-> Tail(a)]
    <2>1. IsFiniteSet(below)
      BY FS_Subset DEF Tree
    <2>2. DOMAIN f = below /\ {f[x] : x \in DOMAIN f} = D
      OBVIOUS
    <2> HIDE DEF f, below, D
    <2>3. IsFiniteSet({f[x] : x \in DOMAIN f})
      BY <2>1, <2>2, ImageFinite
    <2> QED BY <2>2, <2>3
  <1>11. t = [p \in D |-> j[<<b>> \o p]]
    BY DEF Sub
  <1> HIDE DEF D, t, below
  <1>12. DOMAIN t = D /\ \A p \in D : t[p] = j[<<b>> \o p]
    BY <1>11
  <1>13. <<>> \in D
    BY <1>3, <1>7, <1>9, OneBranch, EmptySeq
  <1>14. ASSUME NEW p \in D
         PROVE  t[p] = <<t[p][1], t[p][2]>> /\ t[p][1] \in DOMAIN TypeOf
    BY <1>8, <1>12 DEF Tree
  <1>15. ASSUME NEW p \in D, NEW n \in 1 .. Len(p)
         PROVE  SubSeq(p, 1, n - 1) \in D /\ Fits(p[n], t[SubSeq(p, 1, n - 1)][1])
    <2> DEFINE r == SubSeq(p, 1, n - 1)
               a == <<b>> \o p
    <2>1. p \in Seq(Branch) /\ a \in DOMAIN j
      BY <1>8
    <2>2. r \in Seq(Branch) /\ SubSeq(a, 1, n) = <<b>> \o r /\ n + 1 \in 1 .. Len(a) /\ a[n + 1] = p[n]
      BY <1>3, <2>1, PrefixIs
    <2>3. (n + 1) - 1 = n
      BY <2>1
    <2> HIDE DEF r, a
    <2>4. SubSeq(a, 1, n) \in DOMAIN j /\ Fits(a[n + 1], j[SubSeq(a, 1, n)][1])
      BY <2>1, <2>2, <2>3 DEF Tree
    <2>5. r \in D
      BY <1>9, <2>2, <2>4
    <2>6. Fits(p[n], t[r][1])
      BY <1>12, <2>2, <2>4, <2>5
    <2> QED BY <2>5, <2>6 DEF r
  <1>16. Tree(t)
    BY <1>8, <1>10, <1>12, <1>13, <1>14, <1>15 DEF Tree
  <1> QED BY <1>3, <1>6, <1>16 DEF t

LEMMA AtTree == ASSUME NEW j, Tree(j), NEW d, Tree(d), NEW key PROVE Tree(At(j, key, d))
  BY SubTree DEF At, Has

LEMMA ItemsAre ==
    ASSUME NEW j, Tree(j), IsArray(j)
    PROVE  /\ ItemsOf(j) \subseteq Nat /\ IsFiniteSet(ItemsOf(j))
           /\ \A i \in ItemsOf(j) : Item(i) \in Branches(j) /\ Tree(Sub(j, Item(i)))
  <1>1. ASSUME NEW b \in Branches(j)
        PROVE  b \in Branch /\ b = Item(b[2]) /\ Tree(Sub(j, b))
    BY SubTree DEF Fits, IsArray
  <1>2. ItemsOf(j) \subseteq Nat
    BY <1>1 DEF ItemsOf, Branch
  <1>3. ASSUME NEW i \in ItemsOf(j) PROVE Item(i) \in Branches(j) /\ Tree(Sub(j, Item(i)))
    <2>1. PICK b \in Branches(j) : i = b[2]
      BY DEF ItemsOf
    <2>2. b = Item(i) /\ Tree(Sub(j, b))
      BY <1>1, <2>1
    <2> QED BY <2>2
  <1>4. IsFiniteSet(ItemsOf(j))
    <2> DEFINE P == DOMAIN j \ {<<>>}
               f == [p \in P |-> p[1][2]]
    <2>1. IsFiniteSet(P)
      BY FS_Subset DEF Tree
    <2>2. DOMAIN f = P /\ {f[x] : x \in DOMAIN f} = ItemsOf(j)
      BY DEF ItemsOf, Branches
    <2> HIDE DEF f, P
    <2>3. IsFiniteSet({f[x] : x \in DOMAIN f})
      BY <2>1, <2>2, ImageFinite
    <2> QED BY <2>2, <2>3
  <1> QED BY <1>2, <1>3, <1>4

LEMMA ByNameIs ==
    ASSUME NEW j, Tree(j), IsArray(j)
    PROVE  /\ IsFiniteSet(DOMAIN ByName(j)) /\ ByName(j) = [n \in DOMAIN ByName(j) |-> ByName(j)[n]]
           /\ \A n \in DOMAIN ByName(j) : \E i \in ItemsOf(j) :
                 ByName(j)[n] = Sub(j, Item(i)) /\ n = TextOf(StringOf(Sub(j, Item(i)), "name"))
  <1> DEFINE Name(i) == TextOf(StringOf(Sub(j, Item(i)), "name"))
             items == ItemsOf(j)
             names == {Name(i) : i \in items}
             Of(n) == {i \in items : Name(i) = n}
  <1>1. items \subseteq Nat /\ IsFiniteSet(items)
    BY ItemsAre
  <1>2. ByName(j) = [n \in names |-> Sub(j, Item(Max(Of(n))))]
    BY DEF ByName
  <1>3. DOMAIN ByName(j) = names /\ ByName(j) = [n \in DOMAIN ByName(j) |-> ByName(j)[n]]
    BY <1>2
  <1>4. IsFiniteSet(names)
    <2> DEFINE f == [i \in items |-> Name(i)]
    <2>1. DOMAIN f = items /\ {f[x] : x \in DOMAIN f} = names
      OBVIOUS
    <2> HIDE DEF f, names, items
    <2>2. IsFiniteSet({f[x] : x \in DOMAIN f})
      BY <1>1, <2>1, ImageFinite
    <2> QED BY <2>1, <2>2
  <1>5. ASSUME NEW n \in names
        PROVE  \E i \in items : ByName(j)[n] = Sub(j, Item(i)) /\ n = Name(i)
    <2> DEFINE A == Of(n)
    <2>1. A \in SUBSET Nat /\ A # {} /\ A \subseteq items
      BY <1>1
    <2>2. IsFiniteSet(A)
      BY <1>1, <2>1, FS_Subset
    <2>3. ByName(j)[n] = Sub(j, Item(Max(A)))
      BY <1>2
    <2>4. \A i \in A : i \in items /\ n = Name(i)
      OBVIOUS
    <2> HIDE DEF A
    <2>5. Max(A) \in A
      BY <2>1, <2>2, GreatestIs
    <2> QED BY <2>3, <2>4, <2>5
  <1> QED BY <1>3, <1>4, <1>5

LEMMA FirstAll ==
    ASSUME NEW r, DOMAIN r \subseteq Nat, FirstOf(r) = "ok"
    PROVE  \A i \in DOMAIN r : r[i] = "ok"
  <1> DEFINE A == {i \in DOMAIN r : r[i] # "ok"}
  <1>1. SUFFICES ASSUME A # {} PROVE FALSE
    OBVIOUS
  <1>2. A \in SUBSET Nat
    OBVIOUS
  <1>3. PICK x \in A : \A y \in A : x <= y
    BY <1>1, <1>2, LeastIs
  <1>4. ASSUME NEW y \in DOMAIN r, y < x PROVE r[y] = "ok"
    <2>1. x \in Nat /\ y \in Nat
      BY <1>2
    <2> QED BY <1>3, <1>4, <2>1
  <1>5. \E i \in DOMAIN r : r[i] # "ok" /\ \A y \in DOMAIN r : y < i => r[y] = "ok"
    BY <1>4
  <1>6. \E i \in DOMAIN r : r[i] # "ok" /\ FirstOf(r) = r[i]
    BY <1>5 DEF FirstOf
  <1> QED BY <1>6

LEMMA ReadValue == ASSUME NEW j, Tree(j) PROVE Value(JsonToAnyValue(j))
  <1>1. /\ DOMAIN JsonToAnyValue(j) = DOMAIN j
        /\ \A p \in DOMAIN j : JsonToAnyValue(j)[p] = <<TypeOf[j[p][1]], j[p][2]>>
        /\ JsonToAnyValue(j) = [p \in DOMAIN JsonToAnyValue(j) |-> JsonToAnyValue(j)[p]]
    BY DEF JsonToAnyValue
  <1>2. \A kind \in DOMAIN TypeOf : TypeOf[kind] \in DOMAIN KindOf
    BY DEF TypeOf, KindOf
  <1> QED BY <1>1, <1>2 DEF Tree, Value, Wood

LEMMA MembersAre ==
    ASSUME NEW j, Tree(j), IsObject(j)
    PROVE  Map(Values(j)) /\ DOMAIN Values(j) \subseteq Texts
  <1>1. DOMAIN Values(j) = KeysOf(j) /\ Values(j) = [k \in DOMAIN Values(j) |-> Values(j)[k]]
    BY DEF Values
  <1>2. KeysOf(j) \subseteq Texts
    BY SubTree DEF KeysOf, Branch
  <1>3. ASSUME NEW k \in KeysOf(j) PROVE Value(Values(j)[k])
    <2>1. Tree(At(j, k, Null))
      BY EmptyTrees, AtTree
    <2>2. Values(j)[k] = JsonToAnyValue(At(j, k, Null))
      BY DEF Values
    <2> QED BY <2>1, <2>2, ReadValue
  <1> QED BY <1>1, <1>2, <1>3 DEF Map

LEMMA VariablesRead ==
    ASSUME NEW j, Tree(j), ParseMathVariables(j) = "ok"
    PROVE  /\ Map(MathVariablesOf(j)) /\ IsFiniteSet(DOMAIN MathVariablesOf(j))
           /\ "" \notin DOMAIN MathVariablesOf(j)
  <1> DEFINE r == [i \in ItemsOf(j) |-> ParseMathVariable(Sub(j, Item(i)))]
             names == DOMAIN ByName(j)
             m == MathVariablesOf(j)
  <1>1. IsArray(j) /\ FirstOf(r) = "ok"
    BY DEF ParseMathVariables
  <1>2. \A i \in ItemsOf(j) : ParseMathVariable(Sub(j, Item(i))) = "ok" /\ Tree(Sub(j, Item(i)))
    <2>1. DOMAIN r \subseteq Nat
      BY <1>1, ItemsAre
    <2>2. \A i \in ItemsOf(j) : i \in DOMAIN r /\ r[i] = ParseMathVariable(Sub(j, Item(i)))
      OBVIOUS
    <2> HIDE DEF r
    <2>3. \A i \in DOMAIN r : r[i] = "ok"
      BY <1>1, <2>1, FirstAll
    <2> QED BY <1>1, <2>2, <2>3, ItemsAre
  <1> HIDE DEF r
  <1>3. /\ IsFiniteSet(names)
        /\ \A n \in names : \E i \in ItemsOf(j) :
              ByName(j)[n] = Sub(j, Item(i)) /\ n = TextOf(StringOf(Sub(j, Item(i)), "name"))
    BY <1>1, ByNameIs
  <1>4. /\ DOMAIN m = names /\ m = [n \in DOMAIN m |-> m[n]]
        /\ \A n \in names : m[n] = JsonToAnyValue(At(ByName(j)[n], "value", Null))
    BY DEF MathVariablesOf
  <1> HIDE DEF m, names
  <1>5. ASSUME NEW n \in names PROVE n # "" /\ Value(m[n])
    <2>1. PICK i \in ItemsOf(j) : ByName(j)[n] = Sub(j, Item(i)) /\ n = TextOf(StringOf(Sub(j, Item(i)), "name"))
      BY <1>3
    <2> DEFINE item == Sub(j, Item(i))
    <2>2. ParseMathVariable(item) = "ok" /\ Tree(item)
      BY <1>2
    <2> HIDE DEF item
    <2>3. TextOf(StringOf(item, "name")) # ""
      BY <2>2 DEF ParseMathVariable
    <2>4. Tree(At(item, "value", Null))
      BY <2>2, EmptyTrees, AtTree
    <2>5. Value(JsonToAnyValue(At(item, "value", Null)))
      BY <2>4, ReadValue
    <2> QED BY <1>4, <2>1, <2>3, <2>5 DEF item
  <1>6. Map(m)
    BY <1>4, <1>5 DEF Map
  <1> QED BY <1>3, <1>4, <1>5, <1>6 DEF m

LEMMA FunctionRead ==
    ASSUME NEW item, Tree(item), ParseMathFunction(item) = "ok",
           CompileMathFunction(FunctionOf(item).params, FunctionOf(item).expression)
    PROVE  DefinitionOK(FunctionOf(item)) /\ TextOf(StringOf(item, "name")) # ""
  <1> DEFINE a == Params(item)
             d == FunctionOf(item)
             p == [i \in ItemsOf(a) |-> TextOf(Sub(a, Item(i)))]
  <1>1. /\ TextOf(StringOf(item, "name")) # "" /\ IsArray(a)
        /\ \A b \in Branches(a) : TextOf(Sub(a, b)) # ""
    BY DEF ParseMathFunction
  <1>2. Tree(a)
    BY EmptyTrees, AtTree DEF Params
  <1>3. ItemsOf(a) \subseteq Nat /\ \A i \in ItemsOf(a) : Item(i) \in Branches(a)
    BY <1>1, <1>2, ItemsAre
  <1>4. d = [params |-> p, expression |-> TextOf(StringOf(item, "expression"))]
    BY DEF FunctionOf
  <1>5. DOMAIN p \subseteq Nat /\ p = [i \in DOMAIN p |-> p[i]] /\ \A i \in DOMAIN p : p[i] # ""
    BY <1>1, <1>3
  <1> HIDE DEF p, d
  <1>6. d.params = p /\ d = [params |-> d.params, expression |-> d.expression]
    BY <1>4
  <1>7. CompileMathFunction(d.params, d.expression)
    BY DEF d
  <1>8. DefinitionOK(d)
    BY <1>5, <1>6, <1>7 DEF DefinitionOK
  <1> QED BY <1>1, <1>8 DEF d

LEMMA FunctionsRead ==
    ASSUME NEW j, Tree(j), ParseMathFunctions(j) = "ok",
           \A n \in DOMAIN MathFunctionsOf(j) :
              CompileMathFunction(MathFunctionsOf(j)[n].params, MathFunctionsOf(j)[n].expression)
    PROVE  /\ MathFunctionsOf(j) = [n \in DOMAIN MathFunctionsOf(j) |-> MathFunctionsOf(j)[n]]
           /\ IsFiniteSet(DOMAIN MathFunctionsOf(j)) /\ "" \notin DOMAIN MathFunctionsOf(j)
           /\ \A n \in DOMAIN MathFunctionsOf(j) : DefinitionOK(MathFunctionsOf(j)[n])
  <1> DEFINE r == [i \in ItemsOf(j) |-> ParseMathFunction(Sub(j, Item(i)))]
             names == DOMAIN ByName(j)
             m == MathFunctionsOf(j)
  <1>1. IsArray(j) /\ FirstOf(r) = "ok"
    BY DEF ParseMathFunctions
  <1>2. \A i \in ItemsOf(j) : ParseMathFunction(Sub(j, Item(i))) = "ok" /\ Tree(Sub(j, Item(i)))
    <2>1. DOMAIN r \subseteq Nat
      BY <1>1, ItemsAre
    <2>2. \A i \in ItemsOf(j) : i \in DOMAIN r /\ r[i] = ParseMathFunction(Sub(j, Item(i)))
      OBVIOUS
    <2> HIDE DEF r
    <2>3. \A i \in DOMAIN r : r[i] = "ok"
      BY <1>1, <2>1, FirstAll
    <2> QED BY <1>1, <2>2, <2>3, ItemsAre
  <1> HIDE DEF r
  <1>3. /\ IsFiniteSet(names)
        /\ \A n \in names : \E i \in ItemsOf(j) :
              ByName(j)[n] = Sub(j, Item(i)) /\ n = TextOf(StringOf(Sub(j, Item(i)), "name"))
    BY <1>1, ByNameIs
  <1>4. /\ DOMAIN m = names /\ m = [n \in DOMAIN m |-> m[n]]
        /\ \A n \in names : m[n] = FunctionOf(ByName(j)[n])
    BY DEF MathFunctionsOf
  <1>5. \A n \in DOMAIN m : CompileMathFunction(m[n].params, m[n].expression)
    OBVIOUS
  <1> HIDE DEF m, names
  <1>6. ASSUME NEW n \in names PROVE n # "" /\ DefinitionOK(m[n])
    <2>1. PICK i \in ItemsOf(j) : ByName(j)[n] = Sub(j, Item(i)) /\ n = TextOf(StringOf(Sub(j, Item(i)), "name"))
      BY <1>3
    <2> DEFINE item == Sub(j, Item(i))
    <2>2. ParseMathFunction(item) = "ok" /\ Tree(item)
      BY <1>2
    <2> HIDE DEF item
    <2>3. m[n] = FunctionOf(item)
      BY <1>4, <2>1 DEF item
    <2>4. CompileMathFunction(FunctionOf(item).params, FunctionOf(item).expression)
      BY <1>4, <1>5, <2>3
    <2>5. DefinitionOK(FunctionOf(item)) /\ TextOf(StringOf(item, "name")) # ""
      BY <2>2, <2>4, FunctionRead
    <2> QED BY <2>1, <2>3, <2>5 DEF item
  <1> QED BY <1>3, <1>4, <1>6 DEF m

LEMMA SectionTrees ==
    ASSUME NEW root, Tree(root)
    PROVE  /\ Tree(Sections(root).persisted) /\ Tree(Sections(root).globals)
           /\ Tree(Sections(root).variables) /\ Tree(Sections(root).functions)
  <1> DEFINE mathState == At(root, "math_state", EmptyObject)
  <1>1. Tree(mathState)
    BY EmptyTrees, AtTree
  <1> HIDE DEF mathState
  <1>2. Tree(At(mathState, "variables", EmptyArray)) /\ Tree(At(mathState, "functions", EmptyArray))
    BY <1>1, EmptyTrees, AtTree
  <1>3. Tree(At(root, "persisted_variables", EmptyObject)) /\ Tree(At(root, "global_variables", EmptyObject))
    BY EmptyTrees, AtTree
  <1>4. CASE Has(root, "schema_version")
    <2>1. /\ Sections(root).persisted = At(root, "persisted_variables", EmptyObject)
          /\ Sections(root).globals = At(root, "global_variables", EmptyObject)
          /\ Sections(root).variables = At(mathState, "variables", EmptyArray)
          /\ Sections(root).functions = At(mathState, "functions", EmptyArray)
      BY <1>4 DEF Sections, mathState
    <2> QED BY <1>2, <1>3, <2>1
  <1>5. CASE ~Has(root, "schema_version")
    <2>1. /\ Sections(root).persisted = root /\ Sections(root).globals = EmptyObject
          /\ Sections(root).variables = EmptyArray /\ Sections(root).functions = EmptyArray
      BY <1>5 DEF Sections
    <2> QED BY <2>1, EmptyTrees
  <1> QED BY <1>4, <1>5

LEMMA ImportIs ==
    ASSUME NEW root, Tree(root), Outcome(root) = "ok"
    PROVE  SessionOK(Imported(root))
  <1> DEFINE s == Sections(root)
             r == <<Check(IsObject(s.persisted)), Check(IsObject(s.globals)),
                    ParseMathVariables(s.variables), ParseMathFunctions(s.functions)>>
             defs == MathFunctionsOf(s.functions)
             new == Imported(root)
  <1>1. /\ FirstOf(r) = "ok"
        /\ Check(\A n \in DOMAIN defs : CompileMathFunction(defs[n].params, defs[n].expression)) = "ok"
    <2>1. CheckHeader(root)
      BY DEF Outcome
    <2>2. FirstOf(r) = "ok"
      BY <2>1 DEF Outcome
    <2>3. Outcome(root) = Check(\A n \in DOMAIN defs : CompileMathFunction(defs[n].params, defs[n].expression))
      BY <2>1, <2>2 DEF Outcome
    <2> QED BY <2>2, <2>3
  <1>2. \A n \in DOMAIN defs : CompileMathFunction(defs[n].params, defs[n].expression)
    BY <1>1 DEF Check
  <1>3. /\ Check(IsObject(s.persisted)) = "ok" /\ Check(IsObject(s.globals)) = "ok"
        /\ ParseMathVariables(s.variables) = "ok" /\ ParseMathFunctions(s.functions) = "ok"
    <2>1. DOMAIN r \subseteq Nat /\ {1, 2, 3, 4} \subseteq DOMAIN r
      OBVIOUS
    <2>2. /\ r[1] = Check(IsObject(s.persisted)) /\ r[2] = Check(IsObject(s.globals))
          /\ r[3] = ParseMathVariables(s.variables) /\ r[4] = ParseMathFunctions(s.functions)
      OBVIOUS
    <2> HIDE DEF r
    <2>3. \A i \in DOMAIN r : r[i] = "ok"
      BY <1>1, <2>1, FirstAll
    <2> QED BY <2>1, <2>2, <2>3
  <1>4. IsObject(s.persisted) /\ IsObject(s.globals)
    BY <1>3 DEF Check
  <1>5. Tree(s.persisted) /\ Tree(s.globals) /\ Tree(s.variables) /\ Tree(s.functions)
    BY SectionTrees
  <1>6. new = [persisted |-> Values(s.persisted), globals |-> Values(s.globals),
               math |-> MathVariablesOf(s.variables), definitions |-> defs]
    BY DEF Imported
  <1> HIDE DEF s, r
  <1>7. /\ Map(Values(s.persisted)) /\ DOMAIN Values(s.persisted) \subseteq Texts
        /\ Map(Values(s.globals)) /\ DOMAIN Values(s.globals) \subseteq Texts
    BY <1>4, <1>5, MembersAre
  <1>8. /\ Map(MathVariablesOf(s.variables)) /\ IsFiniteSet(DOMAIN MathVariablesOf(s.variables))
        /\ "" \notin DOMAIN MathVariablesOf(s.variables)
    BY <1>3, <1>5, VariablesRead
  <1>9. /\ defs = [n \in DOMAIN defs |-> defs[n]] /\ IsFiniteSet(DOMAIN defs)
        /\ "" \notin DOMAIN defs /\ \A n \in DOMAIN defs : DefinitionOK(defs[n])
    BY <1>2, <1>3, <1>5, FunctionsRead
  <1> HIDE DEF defs, new
  <1>10. /\ new.persisted = Values(s.persisted) /\ new.globals = Values(s.globals)
         /\ new.math = MathVariablesOf(s.variables) /\ new.definitions = defs
         /\ new = [persisted |-> new.persisted, globals |-> new.globals,
                   math |-> new.math, definitions |-> new.definitions]
    BY <1>6
  <1>11. SessionOK(new)
    BY <1>7, <1>8, <1>9, <1>10 DEF SessionOK
  <1> QED BY <1>11 DEF new

-----------------------------------------------------------------------------
(* The invariant                                                           *)

\* Between steps: the session can be saved and read back, and so can the one
\* that the file holds, if it is accepted at all; what /promote takes from the
\* frame may be kept.
DocumentInv ==
    /\ SessionOK(session)
    /\ Map(local) /\ DOMAIN local \subseteq Variables
    /\ Outcome(file) = "ok" => SessionOK(Imported(file))

LEMMA NoneIs == Map(None) /\ DOMAIN None = {}
  BY DEF None, Map

LEMMA NoSessionIs == SessionOK(NoSession)
  <1>1. DOMAIN None = {} /\ None = [k \in DOMAIN None |-> None[k]] /\ IsFiniteSet(DOMAIN None)
    BY FS_EmptySet DEF None
  <1>2. Map(None)
    BY <1>1 DEF Map
  <1>3. /\ NoSession.persisted = None /\ NoSession.globals = None
        /\ NoSession.math = None /\ NoSession.definitions = None
        /\ NoSession = [persisted |-> None, globals |-> None, math |-> None, definitions |-> None]
    BY DEF NoSession
  <1> QED BY <1>1, <1>2, <1>3 DEF SessionOK

LEMMA WithIs ==
    ASSUME NEW f, Map(f), NEW k, NEW v, Value(v)
    PROVE  Map(With(f, k, v)) /\ DOMAIN With(f, k, v) = DOMAIN f \cup {k}
  BY DEF Map, With

LEMMA LeafValue == ASSUME NEW type \in DOMAIN KindOf, NEW x PROVE Value(Leaf(type, x))
  <1>1. DOMAIN Leaf(type, x) = {<<>>} /\ Leaf(type, x)[<<>>] = <<type, x>>
    BY DEF Leaf
  <1> QED BY <1>1, LeafIs DEF Value

LEMMA TypesAre == {"string", "double", "bool"} \subseteq DOMAIN KindOf
  BY DEF KindOf

LEMMA SetValue == ASSUME NEW c, NEW v \in ParseSetValue(c) PROVE Value(v)
  <1>1. \E type \in {"string", "double", "bool"} : \E x : v = Leaf(type, x)
    BY DEF ParseSetValue, ParseNumber, ParseBoolean, Text
  <1> QED BY <1>1, TypesAre, LeafValue

\* A session with another part.
LEMMA SessionParts ==
    ASSUME NEW s, SessionOK(s), NEW x
    PROVE  /\ Map(x) /\ DOMAIN x \subseteq Texts => SessionOK([s EXCEPT !.persisted = x])
           /\ Map(x) /\ DOMAIN x \subseteq Texts => SessionOK([s EXCEPT !.globals = x])
           /\ Map(x) /\ IsFiniteSet(DOMAIN x) /\ "" \notin DOMAIN x => SessionOK([s EXCEPT !.math = x])
           /\ /\ x = [n \in DOMAIN x |-> x[n]] /\ IsFiniteSet(DOMAIN x) /\ "" \notin DOMAIN x
              /\ \A n \in DOMAIN x : DefinitionOK(x[n])
              => SessionOK([s EXCEPT !.definitions = x])
  <1>1. s = [persisted |-> s.persisted, globals |-> s.globals, math |-> s.math, definitions |-> s.definitions]
    BY DEF SessionOK
  <1>2. [s EXCEPT !.persisted = x] = [persisted |-> x, globals |-> s.globals, math |-> s.math,
                                      definitions |-> s.definitions]
    BY <1>1
  <1>3. [s EXCEPT !.globals = x] = [persisted |-> s.persisted, globals |-> x, math |-> s.math,
                                    definitions |-> s.definitions]
    BY <1>1
  <1>4. [s EXCEPT !.math = x] = [persisted |-> s.persisted, globals |-> s.globals, math |-> x,
                                 definitions |-> s.definitions]
    BY <1>1
  <1>5. [s EXCEPT !.definitions = x] = [persisted |-> s.persisted, globals |-> s.globals, math |-> s.math,
                                        definitions |-> x]
    BY <1>1
  <1>6. ASSUME Map(x), DOMAIN x \subseteq Texts PROVE SessionOK([s EXCEPT !.persisted = x])
    BY <1>2, <1>6 DEF SessionOK
  <1>7. ASSUME Map(x), DOMAIN x \subseteq Texts PROVE SessionOK([s EXCEPT !.globals = x])
    BY <1>3, <1>7 DEF SessionOK
  <1>8. ASSUME Map(x), IsFiniteSet(DOMAIN x), "" \notin DOMAIN x PROVE SessionOK([s EXCEPT !.math = x])
    BY <1>4, <1>8 DEF SessionOK
  <1>9. ASSUME x = [n \in DOMAIN x |-> x[n]], IsFiniteSet(DOMAIN x), "" \notin DOMAIN x,
               \A n \in DOMAIN x : DefinitionOK(x[n])
        PROVE  SessionOK([s EXCEPT !.definitions = x])
    BY <1>5, <1>9 DEF SessionOK
  <1> QED BY <1>6, <1>7, <1>8, <1>9

LEMMA SetStep == ASSUME DocumentInv, NEW k \in Variables, Set(k) PROVE SessionOK(session')
  <1>1. PICK c \in SetCommands : \E v \in ParseSetValue(c) :
           session' = [session EXCEPT !.globals = With(session.globals, k, v)]
    BY DEF Set
  <1>2. PICK v \in ParseSetValue(c) : session' = [session EXCEPT !.globals = With(session.globals, k, v)]
    BY <1>1
  <1> DEFINE x == With(session.globals, k, v)
  <1>3. Map(x) /\ DOMAIN x = DOMAIN session.globals \cup {k}
    BY SetValue, WithIs DEF DocumentInv, SessionOK
  <1>4. DOMAIN x \subseteq Texts
    BY <1>3, NamesAssumption DEF DocumentInv, SessionOK
  <1> HIDE DEF x
  <1>5. SessionOK([session EXCEPT !.globals = x])
    BY <1>3, <1>4, SessionParts DEF DocumentInv
  <1> QED BY <1>2, <1>5 DEF x

LEMMA AssignStep == ASSUME DocumentInv, NEW k \in Variables, Assign(k) PROVE SessionOK(session')
  <1>1. PICK r \in Results : session' = [session EXCEPT !.math = With(session.math, k, Leaf("double", r))]
    BY DEF Assign
  <1> DEFINE x == With(session.math, k, Leaf("double", r))
  <1>2. Value(Leaf("double", r))
    BY TypesAre, LeafValue
  <1>3. Map(x) /\ DOMAIN x = DOMAIN session.math \cup {k}
    BY <1>2, WithIs DEF DocumentInv, SessionOK
  <1>4. "" \notin DOMAIN x
    BY <1>3, NamesAssumption DEF DocumentInv, SessionOK
  <1>5. IsFiniteSet(DOMAIN x)
    BY <1>3, FS_AddElement DEF DocumentInv, SessionOK
  <1> HIDE DEF x
  <1>6. SessionOK([session EXCEPT !.math = x])
    BY <1>3, <1>4, <1>5, SessionParts DEF DocumentInv
  <1> QED BY <1>1, <1>6 DEF x

\* The commands of the math context leave what may be kept in its frame.
LEMMA LocalStep ==
    ASSUME DocumentInv, NEW k \in Variables, SetLocal(k) \/ Assign(k) \/ Promote(k)
    PROVE  Map(local') /\ DOMAIN local' \subseteq Variables
  <1>1. ASSUME NEW v, Value(v), local' = With(local, k, v)
        PROVE  Map(local') /\ DOMAIN local' \subseteq Variables
    <2>1. Map(local) /\ DOMAIN local \subseteq Variables
      BY DEF DocumentInv
    <2>2. Map(With(local, k, v)) /\ DOMAIN With(local, k, v) = DOMAIN local \cup {k}
      BY <1>1, <2>1, WithIs
    <2> QED BY <1>1, <2>1, <2>2
  <1>2. CASE SetLocal(k)
    <2>1. PICK c \in SetCommands : \E v \in ParseSetValue(c) : local' = With(local, k, v)
      BY <1>2 DEF SetLocal
    <2> QED BY <1>1, <2>1, SetValue
  <1>3. CASE Assign(k)
    <2>1. PICK r \in Results : local' = With(local, k, Leaf("double", r))
      BY <1>3 DEF Assign
    <2>2. Value(Leaf("double", r))
      BY TypesAre, LeafValue
    <2> QED BY <1>1, <2>1, <2>2
  <1>4. CASE Promote(k)
    <2>1. local' = [x \in DOMAIN local \ {k} |-> local[x]]
      BY <1>4 DEF Promote
    <2> QED BY <2>1 DEF DocumentInv, Map
  <1> QED BY <1>2, <1>3, <1>4

LEMMA PromoteStep == ASSUME DocumentInv, NEW k \in Variables, Promote(k) PROVE SessionOK(session')
  <1>1. k \in DOMAIN local /\ Value(local[k])
    BY DEF Promote, DocumentInv, Map
  <1> DEFINE x(f) == With(f, k, local[k])
  <1>2. ASSUME NEW f, Map(f), DOMAIN f \subseteq Texts PROVE Map(x(f)) /\ DOMAIN x(f) \subseteq Texts
    <2>1. Map(x(f)) /\ DOMAIN x(f) = DOMAIN f \cup {k}
      BY <1>1, <1>2, WithIs
    <2> HIDE DEF x
    <2> QED BY <1>2, <2>1, NamesAssumption
  <1>3. SessionOK([session EXCEPT !.globals = x(session.globals)])
    <2>1. Map(session.globals) /\ DOMAIN session.globals \subseteq Texts
      BY DEF DocumentInv, SessionOK
    <2> HIDE DEF x
    <2> QED BY <1>2, <2>1, SessionParts DEF DocumentInv
  <1>4. SessionOK([session EXCEPT !.persisted = x(session.persisted)])
    <2>1. Map(session.persisted) /\ DOMAIN session.persisted \subseteq Texts
      BY DEF DocumentInv, SessionOK
    <2> HIDE DEF x
    <2> QED BY <1>2, <2>1, SessionParts DEF DocumentInv
  <1>5. \/ session' = [session EXCEPT !.globals = x(session.globals)]
        \/ session' = [session EXCEPT !.persisted = x(session.persisted)]
        \/ session' = session
    BY DEF Promote
  <1> HIDE DEF x
  <1> QED BY <1>3, <1>4, <1>5 DEF DocumentInv

\* What a script or a custom command makes of the persisted variables.
Overlaid(f, w) == [k \in DOMAIN f \cup DOMAIN w |-> IF k \in DOMAIN w THEN w[k] ELSE f[k]]

LEMMA StoreIs ==
    ASSUME NEW w, StoreTexts(w)
    PROVE  session' = [session EXCEPT !.persisted = Overlaid(session.persisted, w)]
  BY DEF StoreTexts, Overlaid

LEMMA StoreStep == ASSUME DocumentInv, NEW w \in Stores, StoreTexts(w) PROVE SessionOK(session')
  <1> DEFINE f == session.persisted
             x == Overlaid(f, w)
  <1>1. Map(f) /\ DOMAIN f \subseteq Texts
    BY DEF DocumentInv, SessionOK
  <1>2. \A k \in DOMAIN w : Value(w[k])
    <2> SUFFICES ASSUME NEW k \in DOMAIN w PROVE Value(w[k])
      OBVIOUS
    <2> DEFINE type == w[k][<<>>][1]
               scalar == w[k][<<>>][2]
    <2>1. w[k] = [p \in {<<>>} |-> <<type, scalar>>] /\ type \in {"string", "bool", "int64"}
      BY StoresAssumption
    <2> HIDE DEF type, scalar
    <2>2. w[k] = Leaf(type, scalar) /\ type \in DOMAIN KindOf
      BY <2>1 DEF Leaf, KindOf
    <2> QED BY <2>2, LeafValue
  <1>3. DOMAIN w \subseteq Texts
    BY StoresAssumption
  <1> HIDE DEF f
  <1>4. Map(x) /\ DOMAIN x \subseteq Texts
    BY <1>1, <1>2, <1>3 DEF Overlaid, Map
  <1> HIDE DEF x
  <1>5. SessionOK([session EXCEPT !.persisted = x])
    BY <1>4, SessionParts DEF DocumentInv
  <1> QED BY <1>5, StoreIs DEF x, f

\* The two copies of the compiler agree: their tables have the same constants.
LEMMA CopiesAgree ==
    ASSUME NEW d \in Definitions, Compiles(d)
    PROVE  CompileMathFunction(d.params, d.expression)
  BY DEF Compiles, CompileMathFunction

LEMMA DefineStep == ASSUME DocumentInv, NEW d \in Definitions, DefineFunction(d) PROVE SessionOK(session')
  <1> DEFINE e == [params |-> d.params, expression |-> d.expression]
             x == With(session.definitions, d.name, e)
  <1>1. /\ session' = [session EXCEPT !.definitions = x]
        /\ \A i \in DOMAIN d.params : d.params[i] # ""
        /\ CompileMathFunction(d.params, d.expression)
    BY CopiesAgree DEF DefineFunction
  <1>2. e.params = d.params /\ e.expression = d.expression
    OBVIOUS
  <1>3. d.params \in Seq(Texts) /\ d.name # ""
    BY NamesAssumption
  <1>4. d.params = [i \in DOMAIN d.params |-> d.params[i]] /\ DOMAIN d.params \subseteq Nat
    <2> DEFINE p == d.params
    <2>1. p \in Seq(Texts)
      BY <1>3
    <2> HIDE DEF p
    <2>2. Len(p) \in Nat /\ DOMAIN p = 1 .. Len(p) /\ p \in [1 .. Len(p) -> Texts]
      BY <2>1
    <2>3. DOMAIN p \subseteq Nat /\ p = [i \in DOMAIN p |-> p[i]]
      BY <2>2
    <2> QED BY <2>3 DEF p
  <1>5. e = [params |-> e.params, expression |-> e.expression]
    OBVIOUS
  <1> HIDE DEF e
  <1>6. DefinitionOK(e)
    BY <1>1, <1>2, <1>4, <1>5 DEF DefinitionOK
  <1>7. /\ DOMAIN x = DOMAIN session.definitions \cup {d.name} /\ x = [n \in DOMAIN x |-> x[n]]
        /\ \A n \in DOMAIN x : x[n] = IF n = d.name THEN e ELSE session.definitions[n]
    BY DEF With
  <1> HIDE DEF x
  <1>8. \A n \in DOMAIN x : DefinitionOK(x[n])
    BY <1>6, <1>7 DEF DocumentInv, SessionOK
  <1>9. IsFiniteSet(DOMAIN x) /\ "" \notin DOMAIN x
    <2> DEFINE S == DOMAIN session.definitions
    <2>1. IsFiniteSet(S) /\ "" \notin S
      BY DEF DocumentInv, SessionOK
    <2>2. DOMAIN x = S \cup {d.name}
      BY <1>7
    <2> HIDE DEF S
    <2>3. IsFiniteSet(S \cup {d.name})
      BY <2>1, FS_AddElement
    <2> QED BY <1>3, <2>1, <2>2, <2>3
  <1>10. SessionOK([session EXCEPT !.definitions = x])
    BY <1>7, <1>8, <1>9, SessionParts DEF DocumentInv
  <1> QED BY <1>1, <1>10

\* What a settings_update makes of the persisted variables.
Settings(f, request) ==
    [k \in DOMAIN f \cup {KeyOf[g] : g \in Stored(request)} |->
        IF \E g \in Stored(request) : KeyOf[g] = k
        THEN Text(Trimmed[TextOf(request[CHOOSE g \in Stored(request) : KeyOf[g] = k])])
        ELSE f[k]]

LEMMA StoredIs == ASSUME NEW request PROVE Stored(request) \subseteq DOMAIN KeyOf
  <1>1. \A i \in DOMAIN Fields : Fields[i] \in DOMAIN KeyOf
    BY DEF Fields, KeyOf
  <1> QED BY <1>1 DEF Stored

LEMMA SettingsIs ==
    ASSUME NEW request, SettingsUpdate(request)
    PROVE  session' = [session EXCEPT !.persisted = Settings(session.persisted, request)]
  BY DEF SettingsUpdate, Settings

LEMMA SettingsStep ==
    ASSUME DocumentInv, NEW request \in Updates, SettingsUpdate(request) PROVE SessionOK(session')
  <1> DEFINE f == session.persisted
             x == Settings(f, request)
             keys == {KeyOf[g] : g \in Stored(request)}
  <1>1. Map(f) /\ DOMAIN f \subseteq Texts
    BY DEF DocumentInv, SessionOK
  <1>2. keys \subseteq Texts
    BY StoredIs, TextsAssumption
  <1> HIDE DEF f
  <1>3. /\ DOMAIN x = DOMAIN f \cup keys /\ x = [k \in DOMAIN x |-> x[k]]
        /\ \A k \in DOMAIN x : (\E t : x[k] = Text(t)) \/ (k \in DOMAIN f /\ x[k] = f[k])
    BY DEF Settings
  <1>4. \A t : Value(Text(t))
    BY TypesAre, LeafValue DEF Text
  <1> HIDE DEF x, keys
  <1>5. Map(x)
    BY <1>1, <1>3, <1>4 DEF Map
  <1>6. SessionOK([session EXCEPT !.persisted = x])
    BY <1>1, <1>2, <1>3, <1>5, SessionParts DEF DocumentInv
  <1> QED BY <1>6, SettingsIs DEF x, f

LEMMA ResetStep == ASSUME DocumentInv, ResetSession PROVE SessionOK(session')
  <1>1. SessionOK([session EXCEPT !.math = None])
    <2>1. Map(None) /\ IsFiniteSet(DOMAIN None) /\ "" \notin DOMAIN None
      <3>1. NoSession.math = None
        BY DEF NoSession
      <3> QED BY <3>1, NoSessionIs DEF SessionOK
    <2> QED BY <2>1, SessionParts DEF DocumentInv
  <1> DEFINE s == [session EXCEPT !.math = None]
  <1>2. SessionOK([s EXCEPT !.definitions = None])
    <2> HIDE DEF s
    <2>1. None = [n \in DOMAIN None |-> None[n]] /\ IsFiniteSet(DOMAIN None) /\ DOMAIN None = {}
      BY FS_EmptySet DEF None
    <2>2. SessionOK(s)
      BY <1>1 DEF s
    <2> QED BY <2>1, <2>2, SessionParts
  <1>3. session' = [s EXCEPT !.definitions = None]
    <2>1. session' = [session EXCEPT !.math = None, !.definitions = None]
      BY DEF ResetSession
    <2> QED BY <2>1
  <1> QED BY <1>2, <1>3

\* What is written from a session is accepted and gives a session.
LEMMA WrittenIs == ASSUME NEW s, SessionOK(s) PROVE SessionOK(Imported(Export(s)))
  BY ExportIs, ReadBackIs

LEMMA DocumentInitInv == DocumentInit => DocumentInv
  <1> SUFFICES ASSUME DocumentInit PROVE DocumentInv
    OBVIOUS
  <1>1. session = NoSession /\ file = Export(NoSession) /\ local = None
    BY DEF DocumentInit
  <1> QED BY <1>1, NoSessionIs, WrittenIs, NoneIs DEF DocumentInv

LEMMA DocumentNextInv == DocumentInv /\ [DocumentNext]_documentVars => DocumentInv'
  <1> SUFFICES ASSUME DocumentInv, [DocumentNext]_documentVars PROVE DocumentInv'
    OBVIOUS
  <1> DEFINE LocalOK == Map(local) /\ DOMAIN local \subseteq Variables
             FileOK == Outcome(file) = "ok" => SessionOK(Imported(file))
  <1>1. SessionOK(session) /\ LocalOK /\ FileOK
    BY DEF DocumentInv
  <1>2. SUFFICES SessionOK(session') /\ LocalOK' /\ FileOK'
    BY DEF DocumentInv
  <1>3. SessionOK(Imported(Export(session)))
    BY <1>1, WrittenIs
  <1>4. file' = file => FileOK'
    BY <1>1
  <1>5. local' = local \/ local' = None => LocalOK'
    BY <1>1, NoneIs
  <1>6. ASSUME NEW s, file' = Export(s), SessionOK(s) PROVE FileOK'
    BY <1>6, WrittenIs
  <1>7. CASE UNCHANGED documentVars
    BY <1>1, <1>4, <1>5, <1>7 DEF documentVars
  <1>8. ASSUME NEW k \in Variables, Set(k) \/ SetLocal(k) \/ Assign(k) \/ Promote(k)
        PROVE  SessionOK(session') /\ LocalOK' /\ FileOK'
    <2>1. SessionOK(session')
      BY <1>1, <1>8, SetStep, AssignStep, PromoteStep DEF SetLocal
    <2>2. LocalOK'
      BY <1>5, <1>8, LocalStep DEF Set, Keeps
    <2>3. file' = file
      BY <1>8 DEF Set, SetLocal, Assign, Promote, Keeps
    <2> QED BY <1>4, <2>1, <2>2, <2>3
  <1>9. ASSUME NEW k \in Variables, SetShared(k) \/ DeleteShared(k)
        PROVE  SessionOK(session') /\ LocalOK' /\ FileOK'
    BY <1>1, <1>4, <1>5, <1>9 DEF SetShared, DeleteShared
  <1>10. CASE EnterMath
    BY <1>1, <1>4, <1>5, <1>10 DEF EnterMath
  <1>11. ASSUME NEW d \in Definitions, DefineFunction(d) PROVE SessionOK(session') /\ LocalOK' /\ FileOK'
    BY <1>4, <1>5, <1>11, DefineStep DEF DefineFunction, Keeps
  <1>12. ASSUME NEW w \in Stores, StoreTexts(w) PROVE SessionOK(session') /\ LocalOK' /\ FileOK'
    BY <1>4, <1>5, <1>12, StoreStep DEF StoreTexts, Keeps
  <1>13. ASSUME NEW request \in Updates, SettingsUpdate(request)
         PROVE  SessionOK(session') /\ LocalOK' /\ FileOK'
    BY <1>4, <1>5, <1>13, SettingsStep DEF SettingsUpdate, Keeps
  <1>14. ASSUME NEW doc \in Edited \cup {file}, LoadDocument(doc)
         PROVE  SessionOK(session') /\ LocalOK' /\ FileOK'
    <2>1. LocalOK'
      BY <1>5, <1>14 DEF LoadDocument
    <2>2. CASE Outcome(doc) = "ok" /\ session' = Imported(doc) /\ file' = Export(Imported(doc))
      <3>1. SessionOK(Imported(doc))
        BY <1>1, <2>2, EditedAssumption, ImportIs
      <3> QED BY <1>6, <2>1, <2>2, <3>1
    <2>3. CASE UNCHANGED <<session, file>>
      BY <1>1, <1>4, <2>1, <2>3
    <2>4. CASE file' = Export(session) /\ UNCHANGED session
      BY <1>1, <1>6, <2>1, <2>4
    <2> QED BY <1>14, <2>2, <2>3, <2>4 DEF LoadDocument
  <1>15. CASE ResetSession
    BY <1>4, <1>5, <1>15, ResetStep DEF ResetSession
  <1>16. CASE SaveState \/ Exit
    BY <1>1, <1>5, <1>6, <1>16 DEF SaveState, Exit
  <1>17. CASE EditFile
    <2>1. session' = session /\ local' = local /\ file' \in Edited
      BY <1>17 DEF EditFile
    <2>2. Tree(file')
      BY <2>1, EditedAssumption
    <2> QED BY <1>1, <1>5, <2>1, <2>2, ImportIs
  <1>18. CASE Start
    BY <1>1, <1>4, <1>5, <1>18, NoSessionIs DEF Start
  <1> QED BY <1>2, <1>7, <1>8, <1>9, <1>10, <1>11, <1>12, <1>13, <1>14, <1>15, <1>16, <1>17, <1>18
          DEF DocumentNext

LEMMA DocumentInvariant == DocumentSpec => []DocumentInv
  <1>1. DocumentInit => DocumentInv
    BY DocumentInitInv
  <1>2. DocumentInv /\ [DocumentNext]_documentVars => DocumentInv'
    BY DocumentNextInv
  <1> QED BY <1>1, <1>2, PTL DEF DocumentSpec

\* Nothing a user can do makes a session whose document the next start rejects
\* or fails on: ExportSessionState and ImportSessionState agree on what a
\* document is, for every session that the commands, the requests and the
\* documents of other versions can make.
THEOREM ExportsAreAccepted == DocumentSpec => []ExportIsAccepted
  <1>1. DocumentInv => ExportIsAccepted
    BY ExportIs DEF DocumentInv, ExportIsAccepted
  <1> QED BY <1>1, DocumentInvariant, PTL

\* Saved and read back, every value of a session keeps its type and its content,
\* but for a double that JSON cannot write, and every function its parameters in
\* order: AnyValueToJson and JsonToAnyValue, whatever the values.
THEOREM SessionsSurviveTheRoundTrip == DocumentSpec => []RoundTripKeepsSession
  <1>1. DocumentInv => RoundTripKeepsSession
    <2> SUFFICES ASSUME DocumentInv PROVE RoundTripKeepsSession
      OBVIOUS
    <2>1. Imported(Export(session)) = ReadBack(session)
      BY ExportIs DEF DocumentInv
    <2> QED BY <2>1 DEF RoundTripKeepsSession, ReadBack
  <1> QED BY <1>1, DocumentInvariant, PTL

\* A step that gives one part of the session another value, keeping its names.
LEMMA OneChanged ==
    ASSUME NEW part \in Part, NEW x, session = [persisted |-> session.persisted, globals |-> session.globals,
                                                math |-> session.math, definitions |-> session.definitions],
           DOMAIN session[part] \subseteq DOMAIN x, session' = [session EXCEPT ![part] = x]
    PROVE  OnePart
  <1>1. Part = {"persisted", "globals", "math", "definitions"} /\ DOMAIN session = Part
    BY DEF Part
  <1>2. session'[part] = x /\ \A other \in Part \ {part} : session'[other] = session[other]
    BY <1>1
  <1> QED BY <1>2 DEF OnePart

\* A document is taken over as a whole or not at all: ImportSessionState parses
\* and compiles all of it before it touches the session.  Every other handler
\* adds to one part, or overwrites there, so that nothing goes, and no two parts
\* change, but by /reset, a start with nothing, or a whole accepted document.
THEOREM DocumentsAreAllOrNothing == DocumentSpec => DocumentsAreTakenWhole
  <1> DEFINE Whole == \/ session' = NoSession
                      \/ \E doc \in Edited \cup {file} : Outcome(doc) = "ok" /\ session' = Imported(doc)
             Step == \/ OnePart \/ Cleared
                     \/ session' = NoSession
                     \/ \E doc \in Edited \cup {file} :
                           Outcome(doc) = "ok" /\ session' = Imported(doc)
  <1>1. DocumentInv /\ [DocumentNext]_documentVars => [Step]_documentVars
    <2> SUFFICES ASSUME DocumentInv, DocumentNext PROVE Step
      OBVIOUS
    <2>1. session = [persisted |-> session.persisted, globals |-> session.globals,
                     math |-> session.math, definitions |-> session.definitions]
      BY DEF DocumentInv, SessionOK
    <2>2. session' = session => OnePart
      BY DEF OnePart, Part
    <2>3. ASSUME NEW part \in Part, NEW k, NEW v, session' = [session EXCEPT ![part] = With(session[part], k, v)]
          PROVE  OnePart
      <3>1. DOMAIN session[part] \subseteq DOMAIN With(session[part], k, v)
        BY DEF With
      <3> QED BY <2>1, <2>3, <3>1, OneChanged
    <2>4. {"persisted", "globals", "math", "definitions"} \subseteq Part
      BY DEF Part
    <2> HIDE DEF Whole
    <2> SUFFICES OnePart \/ Cleared \/ Whole
      BY DEF Whole
    <2> DEFINE Changed == OnePart \/ Cleared \/ Whole
    <2>5. ASSUME NEW k \in Variables, Set(k) PROVE Changed
      <3>1. \E v : session' = [session EXCEPT !.globals = With(session.globals, k, v)]
        BY <2>5 DEF Set
      <3> QED BY <2>3, <2>4, <3>1
    <2>6. ASSUME NEW k \in Variables, Assign(k) PROVE Changed
      <3>1. PICK r \in Results : session' = [session EXCEPT !.math = With(session.math, k, Leaf("double", r))]
        BY <2>6 DEF Assign
      <3> QED BY <2>3, <2>4, <3>1
    <2>7. ASSUME NEW k \in Variables, Promote(k) PROVE Changed
      <3>1. \/ session' = [session EXCEPT !.globals = With(session.globals, k, local[k])]
            \/ session' = [session EXCEPT !.persisted = With(session.persisted, k, local[k])]
            \/ session' = session
        BY <2>7 DEF Promote
      <3> QED BY <2>2, <2>3, <2>4, <3>1
    <2>8. ASSUME NEW d \in Definitions, DefineFunction(d) PROVE Changed
      <3> DEFINE e == [params |-> d.params, expression |-> d.expression]
      <3>1. session' = [session EXCEPT !.definitions = With(session.definitions, d.name, e)]
        BY <2>8 DEF DefineFunction
      <3> HIDE DEF e
      <3> QED BY <2>3, <2>4, <3>1
    <2>9. ASSUME NEW w \in Stores, StoreTexts(w) PROVE Changed
      <3>1. DOMAIN session.persisted \subseteq DOMAIN Overlaid(session.persisted, w)
        BY DEF Overlaid
      <3> QED BY <2>1, <2>4, <2>9, <3>1, StoreIs, OneChanged
    <2>10. ASSUME NEW request \in Updates, SettingsUpdate(request) PROVE Changed
      <3>1. DOMAIN session.persisted \subseteq DOMAIN Settings(session.persisted, request)
        BY DEF Settings
      <3> QED BY <2>1, <2>4, <2>10, <3>1, SettingsIs, OneChanged
    <2>11. ASSUME NEW doc \in Edited \cup {file}, LoadDocument(doc) PROVE Changed
      <3>1. session' = session \/ (Outcome(doc) = "ok" /\ session' = Imported(doc))
        BY <2>11 DEF LoadDocument
      <3>2. Outcome(doc) = "ok" /\ session' = Imported(doc) => Whole
        BY DEF Whole
      <3> QED BY <2>2, <3>1, <3>2
    <2>12. CASE ResetSession
      BY <2>12 DEF ResetSession, Cleared
    <2>13. ASSUME \/ \E k \in Variables : SetLocal(k) \/ SetShared(k) \/ DeleteShared(k)
                  \/ EnterMath \/ SaveState \/ Exit \/ EditFile
           PROVE  Changed
      <3>1. session' = session
        BY <2>13 DEF SetLocal, SetShared, DeleteShared, EnterMath, SaveState, Exit, EditFile
      <3> QED BY <2>2, <3>1
    <2>14. CASE Start
      <3>1. session' = NoSession \/ (Outcome(file) = "ok" /\ session' = Imported(file))
        BY <2>14 DEF Start
      <3> QED BY <3>1 DEF Whole
    <2> QED BY <2>5, <2>6, <2>7, <2>8, <2>9, <2>10, <2>11, <2>12, <2>13, <2>14 DEF DocumentNext
  <1>2. DocumentsAreTakenWhole <=> [][Step]_documentVars
    BY DEF DocumentsAreTakenWhole
  <1> HIDE DEF Step
  <1> QED BY <1>1, <1>2, DocumentInvariant, PTL DEF DocumentSpec
=============================================================================
