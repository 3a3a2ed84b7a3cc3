------------------------- MODULE RuntimeScopesProofs -------------------------
(***************************************************************************)
(* What RuntimeScopes promises about its stacks, for any languages, names, *)
(* bounds and values.  The inductive invariant ScopeInv joins the types to *)
(* two facts: the root context is "global", so that a command that pops is *)
(* never given the root, and every context has its own frame.              *)
(*                                                                         *)
(* Two invariants of their own stand on it: AnnouncedInv, that the context *)
(* last announced is the one that is active outside a load, and CacheInv,  *)
(* that a cached function is not older than the definition it came from.   *)
(***************************************************************************)
EXTENDS RuntimeScopes, SequenceTheorems, TLAPS

\* The two stacks: they fit each other and the root is at the bottom.
StackInv ==
    /\ contexts \in Seq(Contexts) /\ Len(contexts) \in 1 .. MaxDepth
    /\ contexts[1] = "global"
    /\ frames \in Seq(FrameRecords)
    /\ FramesStayAligned

DataInv ==
    /\ session \in [Variables -> Values] /\ globals \in [Variables -> Values]
    /\ math \in [Variables -> Values] /\ persisted \in [Variables -> Values]
    /\ globalFns \in [Functions -> 0 .. MaxWrites]
    /\ definitions \in [Functions -> 0 .. MaxWrites]
    /\ cache \in [Functions -> 0 .. MaxWrites]
    /\ writes \in 0 .. MaxWrites
    /\ exported \in Documents
    /\ announced \in Contexts /\ loading \in BOOLEAN

ScopeInv == StackInv /\ DataInv

\* The frames of the covered contexts, those that stay on the stack, are kept.
CoveredKept ==
    \A i \in 1 .. (Len(contexts) - 1) : i \in DOMAIN contexts' => FrameOf(i)' = FrameOf(i)

-----------------------------------------------------------------------------
(* The operations on the stacks.                                           *)

\* A fresh frame has the type of a frame.
LEMMA FrameType ==
    ASSUME NEW d \in 0 .. MaxDepth
    PROVE  Frame(d) \in FrameRecords /\ Frame(d).depth = d
  BY BoundsAssumption DEF Frame, FrameRecords, Unset, Undefined, Values, Numbers

\* PopContext, repeated, keeps the contexts below together with their frames.
LEMMA PopKeepsStacks ==
    ASSUME StackInv, NEW n \in 0 .. (Len(contexts) - 1), Pop(n)
    PROVE  StackInv' /\ CoveredKept
  <1>1. /\ contexts' \in Seq(Contexts)
        /\ Len(contexts') = Len(contexts) - n
        /\ \A i \in 1 .. (Len(contexts) - n) : contexts'[i] = contexts[i]
    BY BoundsAssumption DEF StackInv, Pop
  <1>2. /\ frames' \in Seq(FrameRecords)
        /\ Len(frames') = Len(frames) - n
        /\ \A i \in 1 .. (Len(frames) - n) : frames'[i] = frames[i]
    BY DEF StackInv, Pop, FramesStayAligned
  <1>3. FramesStayAligned' /\ \A i \in DOMAIN contexts' : FrameOf(i)' = FrameOf(i)
    <2>1. DOMAIN contexts' = 1 .. (Len(contexts) - n)
      BY <1>1
    <2>2. Len(frames) \in Nat /\ Len(contexts) \in Nat /\ Len(frames) >= Len(contexts)
      BY DEF StackInv, FramesStayAligned
    <2>3. Len(frames') >= Len(contexts')
      BY <1>1, <1>2, <2>2
    <2>4. ASSUME NEW i \in 1 .. (Len(contexts) - n)
          PROVE  FrameOf(i)'.depth = i /\ FrameOf(i)' = FrameOf(i)
      <3>1. Len(frames') - Len(contexts') + i = Len(frames) - Len(contexts) + i
        BY <1>1, <1>2, <2>2
      <3>2. Len(frames) - Len(contexts) + i \in 1 .. (Len(frames) - n)
        BY <2>2
      <3>3. FrameOf(i)' = FrameOf(i)
        BY <1>2, <3>1, <3>2 DEF FrameOf
      <3>4. i \in DOMAIN contexts
        BY <2>2 DEF StackInv
      <3> QED BY <3>3, <3>4 DEF StackInv, FramesStayAligned
    <2> QED BY <2>1, <2>3, <2>4 DEF FramesStayAligned
  <1> QED
    BY <1>1, <1>2, <1>3, BoundsAssumption DEF StackInv, CoveredKept

\* PushContext gives each new context a frame of its own.
LEMMA PushKeepsStacks ==
    ASSUME StackInv, NEW names \in Seq(Contexts), Push(names)
    PROVE  StackInv' /\ CoveredKept
  <1> DEFINE new == [i \in DOMAIN names |-> Frame(Len(contexts) + i)]
  <1>1. /\ contexts' \in Seq(Contexts)
        /\ Len(contexts') = Len(contexts) + Len(names)
        /\ \A i \in 1 .. Len(contexts) : contexts'[i] = contexts[i]
    BY DEF StackInv, Push
  <1>2. Len(contexts) + Len(names) <= MaxDepth
    BY DEF Push
  <1>3. \A i \in 1 .. Len(names) :
            Frame(Len(contexts) + i) \in FrameRecords
            /\ Frame(Len(contexts) + i).depth = Len(contexts) + i
    BY <1>2, FrameType, BoundsAssumption DEF StackInv
  <1>4. new \in Seq(FrameRecords) /\ Len(new) = Len(names)
    BY <1>3
  <1>5. \A i \in 1 .. Len(names) : new[i].depth = Len(contexts) + i
    BY <1>3
  <1>6. frames' = frames \o new
    BY DEF Push
  <1> HIDE DEF new
  <1>7. /\ frames' \in Seq(FrameRecords)
        /\ Len(frames') = Len(frames) + Len(names)
        /\ \A i \in 1 .. Len(frames) : frames'[i] = frames[i]
        /\ \A i \in 1 .. Len(names) : frames'[Len(frames) + i] = new[i]
    <2>1. frames \in Seq(FrameRecords)
      BY DEF StackInv
    <2>2. /\ frames' \in Seq(FrameRecords)
          /\ Len(frames') = Len(frames) + Len(new)
          /\ \A i \in 1 .. Len(frames) + Len(new) : frames'[i] =
                 IF i <= Len(frames) THEN frames[i] ELSE new[i - Len(frames)]
      BY <2>1, <1>4, <1>6, ConcatProperties
    <2>3. \A i \in 1 .. Len(frames) : frames'[i] = frames[i]
      BY <2>1, <2>2, <1>4
    <2>4. ASSUME NEW i \in 1 .. Len(names)
          PROVE  frames'[Len(frames) + i] = new[i]
      <3>1. /\ Len(frames) \in Nat /\ Len(frames) + i \in 1 .. Len(frames) + Len(new)
            /\ ~(Len(frames) + i <= Len(frames))
            /\ Len(frames) + i - Len(frames) = i
        BY <2>1, <2>4, <1>4
      <3> QED BY <2>2, <3>1
    <2> QED BY <1>4, <2>2, <2>3, <2>4
  <1>8. FramesStayAligned' /\ \A i \in 1 .. Len(contexts) : FrameOf(i)' = FrameOf(i)
    <2>1. Len(frames') >= Len(contexts')
      BY <1>1, <1>7 DEF StackInv, FramesStayAligned
    <2>2. DOMAIN contexts' = 1 .. Len(contexts') /\ DOMAIN contexts = 1 .. Len(contexts)
      BY <1>1 DEF StackInv
    <2>3. Len(frames) \in Nat /\ Len(contexts) \in Nat /\ Len(names) \in Nat
          /\ Len(frames) >= Len(contexts)
      BY DEF StackInv, FramesStayAligned
    <2>4. ASSUME NEW i \in 1 .. Len(contexts')
          PROVE  FrameOf(i)'.depth = i /\ (i <= Len(contexts) => FrameOf(i)' = FrameOf(i))
      <3>1. Len(frames') - Len(contexts') + i = Len(frames) - Len(contexts) + i
        BY <1>1, <1>7, <2>3
      <3>2. CASE i <= Len(contexts)
        <4>1. Len(frames) - Len(contexts) + i \in 1 .. Len(frames)
          BY <2>3, <3>2
        <4>2. FrameOf(i)' = FrameOf(i)
          BY <1>7, <3>1, <4>1 DEF FrameOf
        <4> QED BY <2>2, <2>3, <3>2, <4>2 DEF StackInv, FramesStayAligned
      <3>3. CASE i > Len(contexts)
        <4> DEFINE k == i - Len(contexts)
        <4>1. k \in 1 .. Len(names) /\ i = Len(contexts) + k
          BY <1>1, <2>3, <3>3
        <4> HIDE DEF k
        <4>2. Len(frames) - Len(contexts) + i = Len(frames) + k
          BY <2>3, <4>1
        <4>3. FrameOf(i)' = frames'[Len(frames) + k]
          BY <3>1, <4>2 DEF FrameOf
        <4> QED BY <1>7, <4>1, <4>3, <1>5, <3>3, <2>3
      <3> QED BY <1>1, <2>3, <3>2, <3>3
    <2>5. Len(contexts) <= Len(contexts')
      BY <1>1, <2>3
    <2> QED BY <2>1, <2>2, <2>3, <2>4, <2>5 DEF FramesStayAligned
  <1> QED
    BY <1>1, <1>2, <1>7, <1>8 DEF StackInv, CoveredKept

\* ResetSession and ImportSessionState leave the root with an empty frame.
LEMMA RootKeepsStacks ==
    ASSUME StackInv, ToRoot
    PROVE  StackInv'
  <1>1. contexts' \in Seq(Contexts) /\ Len(contexts') = 1 /\ contexts'[1] = "global"
    BY DEF StackInv, ToRoot
  <1>2. Frame(1) \in FrameRecords /\ Frame(1).depth = 1
    BY FrameType, BoundsAssumption
  <1>3. frames' \in Seq(FrameRecords) /\ Len(frames') = 1 /\ frames'[1].depth = 1
    BY <1>2 DEF ToRoot
  <1> QED
    BY <1>1, <1>3, BoundsAssumption DEF StackInv, FramesStayAligned, FrameOf

\* The local frame is there and has its type.
LEMMA LocalType ==
    ASSUME StackInv
    PROVE  /\ Local \in FrameRecords
           /\ Local.vars \in [Variables -> Values]
           /\ Local.fns \in [Functions -> 0 .. MaxWrites]
  <1>1. frames \in Seq(FrameRecords) /\ Len(frames) > 0
    BY DEF StackInv, FramesStayAligned
  <1>2. Local \in FrameRecords
    BY <1>1 DEF Local, Top
  <1> QED BY <1>2 DEF FrameRecords

\* A frame keeps its place when its contents change.
LEMMA LocalKeepsStacks ==
    ASSUME StackInv, UNCHANGED contexts,
           frames' \in Seq(FrameRecords), Len(frames') = Len(frames),
           \A i \in 1 .. Len(frames) : frames'[i].depth = frames[i].depth,
           \A i \in 1 .. (Len(frames) - 1) : frames'[i] = frames[i]
    PROVE  StackInv' /\ CoveredKept
  <1>1. StackInv'
    BY DEF StackInv, FramesStayAligned, FrameOf
  <1>2. ASSUME NEW i \in 1 .. (Len(contexts) - 1)
        PROVE  FrameOf(i)' = FrameOf(i)
    <2>1. Len(frames) - Len(contexts) + i \in 1 .. (Len(frames) - 1)
      BY DEF StackInv, FramesStayAligned
    <2> QED BY <2>1 DEF FrameOf
  <1> QED BY <1>1, <1>2 DEF CoveredKept

\* SetVariable in the local scope.
LEMMA SetLocalKeepsStacks ==
    ASSUME StackInv, NEW x \in Variables, NEW v \in Values, SetLocal(x, v),
           UNCHANGED contexts
    PROVE  StackInv' /\ CoveredKept
  <1>1. Len(frames) \in 1 .. Len(frames) /\ frames[Len(frames)] \in FrameRecords
    BY DEF StackInv, FramesStayAligned
  <1>2. [frames[Len(frames)] EXCEPT !.vars[x] = v] \in FrameRecords
        /\ [frames[Len(frames)] EXCEPT !.vars[x] = v].depth = frames[Len(frames)].depth
    BY <1>1 DEF FrameRecords
  <1>3. frames' = [frames EXCEPT ![Len(frames)] =
                       [frames[Len(frames)] EXCEPT !.vars[x] = v]]
    BY <1>1 DEF SetLocal
  <1>4. /\ frames' \in Seq(FrameRecords) /\ Len(frames') = Len(frames)
        /\ \A i \in 1 .. Len(frames) : frames'[i].depth = frames[i].depth
        /\ \A i \in 1 .. (Len(frames) - 1) : frames'[i] = frames[i]
    BY <1>1, <1>2, <1>3 DEF StackInv
  <1> QED BY <1>4, LocalKeepsStacks

\* The commands that leave both stacks alone.
LEMMA StacksUnchanged ==
    ASSUME StackInv, UNCHANGED stackVars
    PROVE  StackInv' /\ CoveredKept
  BY DEF StackInv, FramesStayAligned, FrameOf, CoveredKept, stackVars

-----------------------------------------------------------------------------
(* The session document.                                                   *)

\* An exported document is of its type.
LEMMA DocumentType ==
    ASSUME DataInv
    PROVE  Document \in Documents
  <1>1. ASSUME NEW s \in [Variables -> Values]
        PROVE  ToJson(s) \in [Variables -> Values]
    BY DEF ToJson, Values
  <1> QED
    BY <1>1 DEF DataInv, Document, Documents

\* An import leaves every scope in its type.
LEMMA ImportType ==
    ASSUME NEW doc \in Documents, Import(doc)
    PROVE  /\ session' \in [Variables -> Values] /\ globals' \in [Variables -> Values]
           /\ math' \in [Variables -> Values] /\ persisted' \in [Variables -> Values]
           /\ globalFns' \in [Functions -> 0 .. MaxWrites]
           /\ definitions' \in [Functions -> 0 .. MaxWrites]
           /\ cache' \in [Functions -> 0 .. MaxWrites]
  BY BoundsAssumption DEF Import, Documents, BumpRevision, Unset, Undefined, Values

\* The commands that only move between contexts keep the data.
LEMMA DataUnchanged ==
    ASSUME DataInv, UNCHANGED <<scopeVars, functionVars, writes, exported>>,
           announced' \in Contexts, loading' \in BOOLEAN
    PROVE  DataInv'
  BY DEF DataInv, scopeVars, functionVars

-----------------------------------------------------------------------------
(* One lemma for each command that needs more than a line.                 *)

\* Every stored value is one of the modelled ones.
LEMMA NewValueType ==
    ASSUME DataInv, Count, NEW v \in NewValue
    PROVE  v \in Values /\ writes + 1 \in Values /\ writes' \in 0 .. MaxWrites
           /\ writes + 1 \in 0 .. MaxWrites
  BY BoundsAssumption DEF DataInv, Count, NewValue, Values, Numbers

\* A switch pushes a context and its frame, or pops to one below.
LEMMA SwitchStep ==
    ASSUME ScopeInv, NEW c \in Contexts, SwitchContext(c)
    PROVE  ScopeInv' /\ CoveredKept
  <1>1. StackInv' /\ CoveredKept
    <2>1. CASE Pop(Len(contexts) - 1)
      BY <2>1, PopKeepsStacks DEF ScopeInv, StackInv
    <2>2. CASE Push(<<c>>)
      <3>1. <<c>> \in Seq(Contexts)
        OBVIOUS
      <3> QED BY <2>2, <3>1, PushKeepsStacks DEF ScopeInv
    <2> QED BY <2>1, <2>2 DEF SwitchContext
  <1>2. DataInv'
    BY DataUnchanged DEF ScopeInv, SwitchContext, Announce
  <1> QED BY <1>1, <1>2 DEF ScopeInv

\* A command that pops one context is not given in the root.
LEMMA OneDeep ==
    ASSUME StackInv, Context # "global"
    PROVE  1 \in 0 .. (Len(contexts) - 1) /\ contexts[Len(contexts) - 1] \in Contexts
  BY DEF StackInv, Context, Top

\* /back pops both stacks.
LEMMA BackStep ==
    ASSUME ScopeInv, Back
    PROVE  ScopeInv' /\ CoveredKept
  <1>1. 1 \in 0 .. (Len(contexts) - 1) /\ contexts[Len(contexts) - 1] \in Contexts
    BY OneDeep DEF ScopeInv, Back
  <1>2. StackInv' /\ CoveredKept
    BY <1>1, PopKeepsStacks DEF ScopeInv, Back
  <1>3. DataInv'
    BY <1>1, DataUnchanged DEF ScopeInv, Back, Announce
  <1> QED BY <1>2, <1>3 DEF ScopeInv

\* Leaving the editor pops both stacks.
LEMMA CloseEditorStep ==
    ASSUME ScopeInv, CloseEditor
    PROVE  ScopeInv' /\ CoveredKept
  <1>1. 1 \in 0 .. (Len(contexts) - 1)
    BY OneDeep DEF ScopeInv, CloseEditor
  <1>2. StackInv' /\ CoveredKept
    BY <1>1, PopKeepsStacks DEF ScopeInv, CloseEditor
  <1>3. DataInv'
    BY DataUnchanged DEF ScopeInv, CloseEditor, DataInv, tuiVars
  <1> QED BY <1>2, <1>3 DEF ScopeInv

\* The editor is pushed with a frame of its own.
LEMMA OpenEditorStep ==
    ASSUME ScopeInv, OpenEditor
    PROVE  ScopeInv' /\ CoveredKept
  <1>1. <<"script_editor">> \in Seq(Contexts)
    BY DEF Contexts
  <1>2. StackInv' /\ CoveredKept
    BY <1>1, PushKeepsStacks DEF ScopeInv, OpenEditor
  <1>3. DataInv'
    BY DataUnchanged DEF ScopeInv, OpenEditor, DataInv, tuiVars
  <1> QED BY <1>2, <1>3 DEF ScopeInv

\* What run_script pushes: the language, and after a success the context it came
\* from, which every context that reaches a language is reached from in turn.
LEMMA RunScriptPushes ==
    ASSUME ScopeInv, NEW l \in Languages, NEW ok \in BOOLEAN, RunScript(l, ok)
    PROVE  \E names \in Seq(Contexts) :
               /\ names # <<>> /\ Push(names) /\ Announce(Top(names))
               /\ ok => Top(names) = Context
  <1>1. Context \in Contexts /\ l \in Contexts
    BY DEF ScopeInv, StackInv, Context, Top, Contexts
  <1>2. l # Context
    BY DEF RunScript
  <1>3. Context \in ReachableFrom(l)
    BY LanguagesAssumption, <1>1 DEF RunScript, ReachableFrom, Contexts
  <1>4. CASE ok
    <2> DEFINE names == <<l>> \o <<Context>>
    <2>1. Push(names) /\ Announce(Top(names))
      BY <1>2, <1>3, <1>4 DEF RunScript
    <2>2. <<l>> \in Seq(Contexts) /\ <<Context>> \in Seq(Contexts)
      BY <1>1
    <2>3. names \in Seq(Contexts) /\ Len(names) = 2 /\ names[2] = Context
      BY <2>2, ConcatProperties
    <2> HIDE DEF names
    <2>4. names # <<>> /\ Top(names) = Context
      BY <2>3 DEF Top
    <2> QED BY <2>1, <2>3, <2>4
  <1>5. CASE ~ok
    <2>1. <<l>> \o <<>> = <<l>> /\ <<l>> # <<>> /\ <<l>> \in Seq(Contexts)
      BY <1>1
    <2>2. Push(<<l>>) /\ Announce(Top(<<l>>))
      BY <1>2, <1>5, <2>1 DEF RunScript
    <2> QED BY <1>5, <2>1, <2>2
  <1> QED BY <1>4, <1>5

\* A run_script request switches, runs and switches back.
LEMMA RunScriptStep ==
    ASSUME ScopeInv, NEW l \in Languages, NEW ok \in BOOLEAN, RunScript(l, ok)
    PROVE  ScopeInv' /\ CoveredKept
  <1>1. PICK names \in Seq(Contexts) :
            names # <<>> /\ Push(names) /\ Announce(Top(names))
    BY RunScriptPushes
  <1>2. StackInv' /\ CoveredKept
    BY <1>1, PushKeepsStacks DEF ScopeInv
  <1>3. Top(names) \in Contexts
    BY <1>1 DEF Top
  <1>4. DataInv'
    BY <1>1, <1>3, DataUnchanged DEF ScopeInv, RunScript, Announce
  <1> QED BY <1>2, <1>4 DEF ScopeInv

\* A scope with nothing in it is a scope.
LEMMA EmptyScopeType ==
    Unset \in [Variables -> Values] /\ Undefined \in [Functions -> 0 .. MaxWrites]
  BY BoundsAssumption DEF Unset, Undefined, Values

\* /reset pops to the root and empties the scopes.
LEMMA ResetStep ==
    ASSUME ScopeInv, Reset
    PROVE  ScopeInv'
  <1>1. StackInv'
    BY RootKeepsStacks DEF ScopeInv, Reset
  <1>2. announced' \in Contexts /\ loading' \in BOOLEAN
    BY DEF Reset, Announce, Contexts
  <1>3. DataInv'
    BY <1>2, EmptyScopeType DEF ScopeInv, DataInv, Reset, BumpRevision
  <1> QED BY <1>1, <1>3 DEF ScopeInv

\* An assignment changes the top frame.
LEMMA AssignStep ==
    ASSUME ScopeInv, NEW x \in Variables, Assign(x)
    PROVE  ScopeInv' /\ CoveredKept
  <1>1. PICK v \in NewValue : SetLocal(x, v) /\ math' = [math EXCEPT ![x] = v]
    BY DEF Assign
  <1>2. v \in Values /\ writes' \in 0 .. MaxWrites
    BY <1>1, NewValueType DEF ScopeInv, Assign
  <1>3. StackInv' /\ CoveredKept
    BY <1>1, <1>2, SetLocalKeepsStacks DEF ScopeInv, Assign
  <1>4. math' \in [Variables -> Values]
    BY <1>1, <1>2 DEF ScopeInv, DataInv
  <1>5. DataInv'
    BY <1>2, <1>4 DEF ScopeInv, DataInv, Assign, functionVars, tuiVars
  <1> QED BY <1>3, <1>5 DEF ScopeInv

\* /set changes one scope.
LEMMA SetStep ==
    ASSUME ScopeInv, NEW x \in Variables, Set(x)
    PROVE  ScopeInv' /\ CoveredKept
  <1>1. writes + 1 \in Values /\ writes' \in 0 .. MaxWrites
    BY NewValueType DEF ScopeInv, Set, NewValue
  <1>2. StackInv' /\ CoveredKept
    <2>1. CASE Context = "global"
      BY <2>1, StacksUnchanged DEF ScopeInv, Set, stackVars
    <2>2. CASE Context # "global"
      BY <1>1, <2>2, SetLocalKeepsStacks DEF ScopeInv, Set
    <2> QED BY <2>1, <2>2
  <1>3. globals' \in [Variables -> Values]
    BY <1>1 DEF ScopeInv, DataInv, Set
  <1>4. DataInv'
    BY <1>1, <1>3 DEF ScopeInv, DataInv, Set, functionVars, tuiVars
  <1> QED BY <1>2, <1>4 DEF ScopeInv

\* A promotion moves a value outwards.
LEMMA PromoteStep ==
    ASSUME ScopeInv, NEW x \in Variables,
           NEW scope \in {"session", "global", "persisted"}, Promote(x, scope)
    PROVE  ScopeInv' /\ CoveredKept
  <1>1. 0 \in Values
    BY DEF Values
  <1>2. StackInv' /\ CoveredKept
    BY <1>1, SetLocalKeepsStacks DEF ScopeInv, Promote, PromoteVariable
  <1>3. Local.vars[x] \in Values
    BY LocalType DEF ScopeInv
  <1>4. /\ session' \in [Variables -> Values] /\ globals' \in [Variables -> Values]
        /\ persisted' \in [Variables -> Values]
    BY <1>3 DEF ScopeInv, DataInv, Promote, PromoteVariable
  <1>5. DataInv'
    BY <1>4 DEF ScopeInv, DataInv, Promote, PromoteVariable, functionVars, tuiVars
  <1> QED BY <1>2, <1>5 DEF ScopeInv

\* /fn defines in the top frame or globally.
LEMMA DefineFunctionStep ==
    ASSUME ScopeInv, NEW f \in Functions, DefineFunction(f)
    PROVE  ScopeInv' /\ CoveredKept
  <1>1. writes + 1 \in 0 .. MaxWrites /\ writes' \in 0 .. MaxWrites
    BY NewValueType DEF ScopeInv, DefineFunction, NewValue
  <1>2. Len(frames) \in 1 .. Len(frames) /\ frames[Len(frames)] \in FrameRecords
    BY DEF ScopeInv, StackInv, FramesStayAligned
  <1> DEFINE new == [frames[Len(frames)] EXCEPT !.fns[f] = writes + 1]
  <1>3. new \in FrameRecords /\ new.depth = frames[Len(frames)].depth
    BY <1>1, <1>2 DEF FrameRecords
  <1>4. frames' = [frames EXCEPT ![Len(frames)] = new]
    BY <1>2 DEF DefineFunction
  <1>5. frames \in Seq(FrameRecords) /\ UNCHANGED contexts
    BY DEF ScopeInv, StackInv, DefineFunction
  <1> HIDE DEF new
  <1>6. /\ frames' \in Seq(FrameRecords) /\ Len(frames') = Len(frames)
        /\ \A i \in 1 .. Len(frames) : frames'[i].depth = frames[i].depth
        /\ \A i \in 1 .. (Len(frames) - 1) : frames'[i] = frames[i]
    BY <1>2, <1>3, <1>4, <1>5
  <1>7. StackInv' /\ CoveredKept
    BY <1>5, <1>6, LocalKeepsStacks DEF ScopeInv
  <1>8. definitions' \in [Functions -> 0 .. MaxWrites]
    BY <1>1 DEF ScopeInv, DataInv, DefineFunction
  <1>9. DataInv'
    BY <1>1, <1>8, EmptyScopeType
    DEF ScopeInv, DataInv, DefineFunction, BumpRevision, scopeVars, tuiVars
  <1> QED BY <1>7, <1>9 DEF ScopeInv

\* What GetFunction finds is a definition that was made.
LEMMA ResolvedType ==
    ASSUME ScopeInv, NEW f \in Functions
    PROVE  Resolved(f) \in 0 .. MaxWrites
  <1>1. Local.fns[f] \in 0 .. MaxWrites /\ globalFns[f] \in 0 .. MaxWrites
    BY LocalType DEF ScopeInv, DataInv
  <1> DEFINE s == <<Local.fns[f], globalFns[f]>>
  <1>2. \A i \in DOMAIN s : s[i] \in 0 .. MaxWrites
    BY <1>1
  <1>3. CASE \E i \in DOMAIN s : s[i] # 0
    <2>1. \E i \in DOMAIN s : s[i] # 0 /\ \A j \in 1 .. (i - 1) : s[j] = 0
      <3>1. CASE s[1] # 0
        <4>1. 1 \in DOMAIN s /\ \A j \in 1 .. (1 - 1) : s[j] = 0
          OBVIOUS
        <4> QED BY <3>1, <4>1
      <3>2. CASE s[1] = 0
        <4>1. 2 \in DOMAIN s /\ s[2] # 0 /\ \A j \in 1 .. (2 - 1) : s[j] = 0
          BY <1>3, <3>2
        <4> QED BY <4>1
      <3> QED BY <3>1, <3>2
    <2>2. PICK k \in DOMAIN s : FirstOf(s) = s[k]
      BY <1>3, <2>1 DEF FirstOf
    <2> QED BY <1>2, <2>2 DEF Resolved
  <1>4. CASE ~\E i \in DOMAIN s : s[i] # 0
    BY <1>4, BoundsAssumption DEF Resolved, FirstOf
  <1> QED BY <1>3, <1>4

\* An evaluation changes only the cache.
LEMMA EvaluateStep ==
    ASSUME ScopeInv, NEW f \in Functions, Evaluate(f)
    PROVE  ScopeInv' /\ CoveredKept
  <1>1. StackInv' /\ CoveredKept
    BY StacksUnchanged DEF ScopeInv, Evaluate
  <1>2. cache' \in [Functions -> 0 .. MaxWrites]
    BY ResolvedType DEF ScopeInv, DataInv, Evaluate
  <1>3. DataInv'
    BY <1>2 DEF ScopeInv, DataInv, Evaluate, scopeVars, tuiVars
  <1> QED BY <1>1, <1>3 DEF ScopeInv

\* A save changes nothing but the document.
LEMMA SaveStateStep ==
    ASSUME ScopeInv, SaveState
    PROVE  ScopeInv' /\ CoveredKept
  <1>1. StackInv' /\ CoveredKept
    BY StacksUnchanged DEF ScopeInv, SaveState
  <1>2. exported' \in Documents
    BY DocumentType DEF ScopeInv, SaveState
  <1>3. DataInv'
    BY <1>2 DEF ScopeInv, DataInv, SaveState, scopeVars, functionVars, tuiVars
  <1> QED BY <1>1, <1>3 DEF ScopeInv

\* A session load pops to the root before it imports.
LEMMA LoadStateStep ==
    ASSUME ScopeInv, LoadState
    PROVE  ScopeInv'
  <1>1. StackInv'
    BY RootKeepsStacks DEF ScopeInv, LoadState
  <1>2. Import(exported) /\ exported \in Documents
    BY DEF ScopeInv, DataInv, LoadState
  <1>3. DataInv'
    BY <1>2, ImportType DEF ScopeInv, DataInv, LoadState
  <1> QED BY <1>1, <1>3 DEF ScopeInv

\* A start with a session file has one frame more than it has contexts.
LEMMA RestartStep ==
    ASSUME ScopeInv, Restart
    PROVE  ScopeInv'
  <1>1. Frame(0) \in FrameRecords /\ Frame(1) \in FrameRecords /\ Frame(1).depth = 1
    BY FrameType, BoundsAssumption
  <1>2. frames' \in Seq(FrameRecords) /\ Len(frames') = 2 /\ frames'[2].depth = 1
    BY <1>1 DEF Restart
  <1>3. contexts' \in Seq(Contexts) /\ Len(contexts') = 1 /\ contexts'[1] = "global"
    BY DEF Restart, Contexts
  <1>4. StackInv'
    BY <1>2, <1>3, BoundsAssumption DEF StackInv, FramesStayAligned, FrameOf
  <1>5. Import(Document) /\ Document \in Documents
    BY DocumentType DEF ScopeInv, Restart
  <1>6. announced' \in Contexts /\ loading' \in BOOLEAN
    BY DEF Restart, Announce, Contexts
  <1>7. DataInv'
    BY <1>5, <1>6, ImportType DEF ScopeInv, DataInv, Restart
  <1> QED BY <1>4, <1>7 DEF ScopeInv

-----------------------------------------------------------------------------
(* The invariant and the theorems.                                         *)

\* Initially the root has the only frame.
LEMMA ScopeInit == Init => ScopeInv
  <1> SUFFICES ASSUME Init PROVE ScopeInv
    OBVIOUS
  <1>1. Frame(1) \in FrameRecords /\ Frame(1).depth = 1
    BY FrameType, BoundsAssumption
  <1>2. StackInv
    BY <1>1, BoundsAssumption DEF Init, StackInv, FramesStayAligned, FrameOf, Contexts
  <1>3. exported \in Documents
    BY EmptyScopeType DEF Init, Documents
  <1>4. announced \in Contexts /\ writes \in 0 .. MaxWrites
    BY BoundsAssumption DEF Init, Contexts
  <1>5. loading \in BOOLEAN
    BY Zenon DEF Init
  <1>6. DataInv
    BY <1>3, <1>4, <1>5, EmptyScopeType DEF Init, DataInv
  <1> QED BY <1>2, <1>6 DEF ScopeInv

\* A step keeps the invariant; and unless it resets, loads or restarts the
\* session it keeps the frames of the covered contexts.
LEMMA ScopeStep ==
    ASSUME ScopeInv, [Next]_vars
    PROVE  ScopeInv' /\ (Reset \/ LoadState \/ Restart \/ CoveredKept)
  <1>1. CASE \E c \in Contexts : SwitchContext(c)
    BY <1>1, SwitchStep
  <1>2. CASE \E l \in Languages : RunScript(l, TRUE) \/ RunScript(l, FALSE)
    BY <1>2, RunScriptStep
  <1>3. CASE \E x \in Variables : Assign(x) \/ Set(x)
    BY <1>3, AssignStep, SetStep
  <1>4. CASE \E x \in Variables, s \in {"session", "global", "persisted"} : Promote(x, s)
    BY <1>4, PromoteStep
  <1>5. CASE \E f \in Functions : DefineFunction(f) \/ Evaluate(f)
    BY <1>5, DefineFunctionStep, EvaluateStep
  <1>6. CASE Back \/ OpenEditor \/ CloseEditor \/ SaveState
    BY <1>6, BackStep, OpenEditorStep, CloseEditorStep, SaveStateStep
  <1>7. CASE Reset \/ LoadState \/ Restart
    BY <1>7, ResetStep, LoadStateStep, RestartStep
  <1>8. CASE UNCHANGED vars
    <2>1. StackInv' /\ CoveredKept
      BY <1>8, StacksUnchanged DEF ScopeInv, vars
    <2>2. DataInv'
      BY <1>8 DEF ScopeInv, DataInv, vars, scopeVars, functionVars, tuiVars
    <2> QED BY <2>1, <2>2 DEF ScopeInv
  <1> QED
    BY <1>1, <1>2, <1>3, <1>4, <1>5, <1>6, <1>7, <1>8 DEF Next

\* The inductive invariant holds of every run.
THEOREM ScopeInvariant == Spec => []ScopeInv
  <1>1. ScopeInv /\ [Next]_vars => ScopeInv'
    BY ScopeStep
  <1> QED BY ScopeInit, <1>1, PTL DEF Spec

\* Whatever the commands, the stacks and scopes of RuntimeState keep their
\* types and the stacks are never emptied.
THEOREM TypeCorrect == Spec => []TypeOK
  <1>1. ScopeInv => TypeOK
    BY DEF ScopeInv, StackInv, DataInv, TypeOK, FramesStayAligned
  <1> QED BY ScopeInvariant, <1>1, PTL

\* PushContext and PopContext, which keep contexts and local frames in two
\* containers, never let them slip: each context works in its own frame.
THEOREM FramesAligned == Spec => []FramesStayAligned
  <1>1. ScopeInv => FramesStayAligned
    BY DEF ScopeInv, StackInv
  <1> QED BY ScopeInvariant, <1>1, PTL

\* No command of a context reaches the locals of a context below it; only
\* /reset, a session load and a restart drop them.
THEOREM CoveredLocalsSurvive == Spec => LocalsSurviveNesting
  <1>1. ScopeInv /\ [Next]_vars =>
          [\/ Reset \/ LoadState \/ Restart
           \/ \A i \in 1 .. (Len(contexts) - 1) :
                  i \in DOMAIN contexts' => FrameOf(i)' = FrameOf(i)]_vars
    BY ScopeStep DEF CoveredKept
  <1> QED BY ScopeInvariant, <1>1, PTL DEF Spec, LocalsSurviveNesting

\* A run_script that succeeds ends in the context it was requested from.
THEOREM ScriptsComeBack == Spec => RunScriptComesBack
  <1>1. ScopeInv =>
          \A l \in Languages : RunScript(l, TRUE) => Top(contexts') = Context
    <2> SUFFICES ASSUME ScopeInv, NEW l \in Languages, RunScript(l, TRUE)
                 PROVE  Top(contexts') = Context
      OBVIOUS
    <2>1. PICK names \in Seq(Contexts) : names # <<>> /\ Push(names) /\ Top(names) = Context
      BY RunScriptPushes
    <2>2. contexts' = contexts \o names /\ contexts \in Seq(Contexts)
      BY <2>1 DEF Push, ScopeInv, StackInv
    <2>3. Len(names) > 0
      BY <2>1
    <2>4. Len(contexts') = Len(contexts) + Len(names)
          /\ contexts'[Len(contexts) + Len(names)] = names[Len(names)]
      BY <2>2, <2>3, ConcatProperties
    <2> QED BY <2>1, <2>4 DEF Top
  <1> QED BY ScopeInvariant, <1>1, PTL DEF Spec, RunScriptComesBack

-----------------------------------------------------------------------------
(* What the TUI shows and what an evaluation calls.  Both rest on where    *)
(* two contexts may stand: "math" and the editor are only ever on top, so  *)
(* that nothing is pushed over them and no pop leads back to them.         *)

TopInv ==
    \A i \in 1 .. (Len(contexts) - 1) : contexts[i] \notin {"math", "script_editor"}

AnnouncedInv ==
    loading = FALSE => announced = IF Context = "script_editor"
                                   THEN contexts[Len(contexts) - 1] ELSE Context

\* Definitions are numbered in order, so what is compiled in a revision is not
\* older than what the global map and the only math frame hold in it.
CacheInv ==
    /\ \A f \in Functions : /\ globalFns[f] <= writes /\ definitions[f] <= writes
                            /\ exported.functions[f] <= writes
                            /\ cache[f] # 0 => cache[f] >= globalFns[f]
    /\ Context = "math" => \A f \in Functions :
            /\ Local.fns[f] # 0 => Local.fns[f] >= globalFns[f]
            /\ cache[f] # 0 => cache[f] >= Local.fns[f]

\* What is on top after a push: the last name, with an empty frame.
LEMMA PushTop ==
    ASSUME StackInv, NEW names \in Seq(Contexts), names # <<>>, Push(names)
    PROVE  /\ Context' = Top(names) /\ Local'.fns = Undefined
           /\ Len(contexts') = Len(contexts) + Len(names)
           /\ \A i \in 1 .. Len(contexts) : contexts'[i] = contexts[i]
           /\ \A i \in 1 .. Len(names) : contexts'[Len(contexts) + i] = names[i]
  <1>1. /\ contexts \in Seq(Contexts) /\ Len(contexts) \in Nat
        /\ frames \in Seq(FrameRecords) /\ Len(names) \in Nat \ {0}
    BY EmptySeq DEF StackInv
  <1>2. /\ Len(contexts') = Len(contexts) + Len(names)
        /\ \A i \in 1 .. Len(contexts) + Len(names) : contexts'[i] =
               IF i <= Len(contexts) THEN contexts[i] ELSE names[i - Len(contexts)]
    BY <1>1, ConcatProperties DEF Push
  <1>3. ASSUME NEW i \in 1 .. Len(names)
        PROVE  contexts'[Len(contexts) + i] = names[i]
    <2>1. /\ Len(contexts) + i \in 1 .. Len(contexts) + Len(names)
          /\ ~(Len(contexts) + i <= Len(contexts))
          /\ Len(contexts) + i - Len(contexts) = i
      BY <1>1
    <2> QED BY <1>2, <2>1
  <1>4. Context' = Top(names)
    BY <1>1, <1>2, <1>3 DEF Context, Top
  <1>5. Local'.fns = Undefined
    <2> DEFINE new == [i \in DOMAIN names |-> Frame(Len(contexts) + i)]
    <2>1. new \in Seq({Frame(Len(contexts) + i) : i \in DOMAIN names}) /\ Len(new) = Len(names)
      BY <1>1
    <2>2. new[Len(names)].fns = Undefined
      BY <1>1 DEF Frame
    <2>3. frames' = frames \o new
      BY DEF Push
    <2> HIDE DEF new
    <2>4. frames \in Seq(FrameRecords \cup {Frame(Len(contexts) + i) : i \in DOMAIN names})
          /\ new \in Seq(FrameRecords \cup {Frame(Len(contexts) + i) : i \in DOMAIN names})
      BY <1>1, <2>1
    <2>5. /\ Len(frames') = Len(frames) + Len(new)
          /\ \A i \in 1 .. Len(frames) + Len(new) : frames'[i] =
                 IF i <= Len(frames) THEN frames[i] ELSE new[i - Len(frames)]
      BY <2>3, <2>4, ConcatProperties
    <2>6. /\ Len(frames) \in Nat /\ Len(frames) + Len(new) \in 1 .. Len(frames) + Len(new)
          /\ ~(Len(frames) + Len(new) <= Len(frames))
          /\ Len(frames) + Len(new) - Len(frames) = Len(names)
      BY <1>1, <2>1
    <2>7. frames'[Len(frames')] = new[Len(names)]
      BY <2>5, <2>6
    <2> QED BY <2>2, <2>7 DEF Local, Top
  <1> QED BY <1>1, <1>2, <1>3, <1>4, <1>5

\* What is on top after a pop.
LEMMA PopTop ==
    ASSUME StackInv, NEW n \in 0 .. (Len(contexts) - 1), Pop(n)
    PROVE  /\ Context' = contexts[Len(contexts) - n]
           /\ Len(contexts') = Len(contexts) - n /\ Len(contexts) - n \in 1 .. Len(contexts)
           /\ \A i \in 1 .. (Len(contexts) - n) : contexts'[i] = contexts[i]
  <1>1. /\ Len(contexts') = Len(contexts) - n
        /\ \A i \in 1 .. (Len(contexts) - n) : contexts'[i] = contexts[i]
    BY DEF StackInv, Pop
  <1>2. Len(contexts) - n \in 1 .. Len(contexts)
    BY DEF StackInv
  <1>3. Len(contexts) - n \in 1 .. (Len(contexts) - n)
    BY <1>2
  <1>4. contexts'[Len(contexts')] = contexts[Len(contexts) - n]
    BY <1>1, <1>3
  <1>5. Context' = contexts'[Len(contexts')]
    BY DEF Context, Top
  <1> QED BY <1>1, <1>2, <1>4, <1>5

\* The catalog's reachable lists: nothing leads out of the editor but the root,
\* nothing but the root out of math, and the editor is on no list.
LEMMA Reachable ==
    ASSUME NEW c
    PROVE  /\ "script_editor" \notin ReachableFrom(c)
           /\ ReachableFrom("math") = {"global", "math"}
           /\ ReachableFrom("script_editor") \cap Languages = {}
           /\ ReachableFrom("math") \cap Languages = {}
           /\ {"math", "script_editor", "global"} \cap Languages = {}
  <1>0. {"math", "script_editor", "global"} \cap Languages = {}
    BY LanguagesAssumption
  <1>1. "script_editor" \notin ReachableFrom(c)
    <2>1. CASE c = "math"
      BY <2>1, <1>0 DEF ReachableFrom
    <2>2. CASE c # "math" /\ c \in Languages \cup {"code"}
      BY <2>2, <1>0 DEF ReachableFrom
    <2>3. CASE c # "math" /\ c \notin Languages \cup {"code"}
      BY <2>3 DEF ReachableFrom
    <2> QED BY <2>1, <2>2, <2>3
  <1>2. ReachableFrom("math") = {"global", "math"}
    BY <1>0 DEF ReachableFrom
  <1>3. ReachableFrom("script_editor") = {"global", "code", "math"}
    BY <1>0 DEF ReachableFrom
  <1>4. ReachableFrom("script_editor") \cap Languages = {}
    BY <1>3, LanguagesAssumption
  <1>5. ReachableFrom("math") \cap Languages = {}
    BY <1>0, <1>2
  <1> QED BY <1>0, <1>1, <1>2, <1>4, <1>5

\* What an evaluation calls: the local definition, or else the global one.
LEMMA ResolvedIs ==
    ASSUME ScopeInv, NEW f \in Functions
    PROVE  Resolved(f) = IF Local.fns[f] # 0 THEN Local.fns[f] ELSE globalFns[f]
  <1> DEFINE s == <<Local.fns[f], globalFns[f]>>
  <1>1. DOMAIN s = {1, 2} /\ s[1] = Local.fns[f] /\ s[2] = globalFns[f]
    OBVIOUS
  <1> HIDE DEF s
  <1>2. Resolved(f) = FirstOf(s)
    BY DEF Resolved, s
  <1>3. CASE s[1] # 0
    <2>1. \A i \in DOMAIN s : (s[i] # 0 /\ \A j \in 1 .. (i - 1) : s[j] = 0) <=> i = 1
      BY <1>1, <1>3
    <2> QED BY <1>1, <1>2, <1>3, <2>1 DEF FirstOf
  <1>4. CASE s[1] = 0 /\ s[2] # 0
    <2>1. \A i \in DOMAIN s : (s[i] # 0 /\ \A j \in 1 .. (i - 1) : s[j] = 0) <=> i = 2
      BY <1>1, <1>4
    <2> QED BY <1>1, <1>2, <1>4, <2>1 DEF FirstOf
  <1>5. CASE s[1] = 0 /\ s[2] = 0
    BY <1>1, <1>2, <1>5 DEF FirstOf
  <1> QED BY <1>3, <1>4, <1>5

\* The commands that touch neither the stack of contexts nor the TUI.
LEMMA TopUnchanged ==
    ASSUME TopInv, AnnouncedInv, UNCHANGED <<contexts, tuiVars>>
    PROVE  TopInv' /\ AnnouncedInv'
  BY DEF TopInv, AnnouncedInv, Context, Top, tuiVars

\* A command that announces the context it leaves on top.
LEMMA AnnouncesTop ==
    ASSUME Announce(Context'), Context' # "script_editor"
    PROVE  AnnouncedInv'
  BY DEF Announce, AnnouncedInv

\* A switch is refused in math and in the editor, unless it leads to the root.
LEMMA SwitchTop ==
    ASSUME ScopeInv, TopInv, NEW c \in Contexts, SwitchContext(c)
    PROVE  /\ TopInv' /\ AnnouncedInv'
           /\ Context' = "math" => Local'.fns = Undefined
  <1>1. CASE c = "global" /\ Pop(Len(contexts) - 1) /\ Announce("global")
    <2>1. /\ Len(contexts) - 1 \in 0 .. (Len(contexts) - 1) /\ contexts[1] = "global"
          /\ Len(contexts) - (Len(contexts) - 1) = 1
      BY DEF ScopeInv, StackInv
    <2>2. Len(contexts') = 1 /\ Context' = "global"
      <3>1. StackInv /\ Pop(Len(contexts) - 1)
        BY <1>1 DEF ScopeInv
      <3>2. /\ Context' = contexts[Len(contexts) - (Len(contexts) - 1)]
            /\ Len(contexts') = Len(contexts) - (Len(contexts) - 1)
        BY <2>1, <3>1, PopTop
      <3> QED BY <2>1, <3>2
    <2>3. TopInv'
      BY <2>2 DEF TopInv
    <2> QED BY <1>1, <2>2, <2>3, AnnouncesTop
  <1>2. CASE c \in ReachableFrom(Context) \ {"global", Context} /\ Push(<<c>>) /\ Announce(c)
    <2>1. Context \notin {"math", "script_editor"} /\ c # "script_editor"
      BY <1>2, Reachable DEF SwitchContext
    <2>2. <<c>> \in Seq(Contexts) /\ <<c>> # <<>> /\ Len(<<c>>) = 1 /\ Top(<<c>>) = c
      BY DEF Top
    <2>3. /\ Context' = c /\ Local'.fns = Undefined /\ Len(contexts') = Len(contexts) + 1
          /\ \A i \in 1 .. Len(contexts) : contexts'[i] = contexts[i]
      BY <1>2, <2>2, PushTop DEF ScopeInv
    <2>4. TopInv'
      BY <2>1, <2>3 DEF TopInv, Context, Top, ScopeInv, StackInv
    <2> QED BY <1>2, <2>1, <2>3, <2>4, AnnouncesTop
  <1> QED BY <1>1, <1>2 DEF SwitchContext

\* /back announces the context it uncovers, which is neither math nor the editor.
LEMMA BackTop ==
    ASSUME ScopeInv, TopInv, Back
    PROVE  TopInv' /\ AnnouncedInv' /\ Context' # "math"
  <1>1. 1 \in 0 .. (Len(contexts) - 1)
    BY OneDeep DEF ScopeInv, Back
  <1>2. /\ Context' = contexts[Len(contexts) - 1] /\ Len(contexts') = Len(contexts) - 1
        /\ Len(contexts) - 1 \in 1 .. Len(contexts) /\ Len(contexts) \in Nat
        /\ \A i \in 1 .. (Len(contexts) - 1) : contexts'[i] = contexts[i]
    BY <1>1, PopTop DEF ScopeInv, StackInv, Back
  <1>3. Context' \notin {"math", "script_editor"} /\ TopInv'
    BY <1>2 DEF TopInv
  <1> QED BY <1>2, <1>3, AnnouncesTop DEF Back

\* The editor closes on the context that was announced last.
LEMMA CloseEditorTop ==
    ASSUME ScopeInv, TopInv, AnnouncedInv, CloseEditor
    PROVE  TopInv' /\ AnnouncedInv' /\ Context' # "math"
  <1>1. 1 \in 0 .. (Len(contexts) - 1)
    BY OneDeep DEF ScopeInv, CloseEditor
  <1>2. /\ Context' = contexts[Len(contexts) - 1] /\ Len(contexts') = Len(contexts) - 1
        /\ Len(contexts) - 1 \in 1 .. Len(contexts) /\ Len(contexts) \in Nat
        /\ \A i \in 1 .. (Len(contexts) - 1) : contexts'[i] = contexts[i]
    BY <1>1, PopTop DEF ScopeInv, StackInv, CloseEditor
  <1>3. Context' \notin {"math", "script_editor"} /\ TopInv'
    BY <1>2 DEF TopInv
  <1>4. AnnouncedInv'
    BY <1>2, <1>3 DEF AnnouncedInv, CloseEditor, tuiVars
  <1> QED BY <1>3, <1>4

\* The editor opens over a language context, which stays the announced one.
LEMMA OpenEditorTop ==
    ASSUME ScopeInv, TopInv, AnnouncedInv, OpenEditor
    PROVE  TopInv' /\ AnnouncedInv' /\ Context' # "math"
  <1>1. Context \notin {"math", "script_editor"}
    BY Reachable DEF OpenEditor
  <1>2. <<"script_editor">> \in Seq(Contexts) /\ <<"script_editor">> # <<>>
        /\ Len(<<"script_editor">>) = 1 /\ Top(<<"script_editor">>) = "script_editor"
    BY DEF Contexts, Top
  <1>3. /\ Context' = "script_editor" /\ Len(contexts') = Len(contexts) + 1
        /\ \A i \in 1 .. Len(contexts) : contexts'[i] = contexts[i]
        /\ Len(contexts) \in Nat \ {0}
    <2>1. StackInv /\ Push(<<"script_editor">>)
      BY DEF ScopeInv, OpenEditor
    <2>2. Len(contexts) \in Nat \ {0}
      BY <2>1 DEF StackInv
    <2> QED BY <1>2, <2>1, <2>2, PushTop
  <1>4. TopInv'
    BY <1>1, <1>3 DEF TopInv, Context, Top
  <1>5. AnnouncedInv'
    BY <1>1, <1>3 DEF AnnouncedInv, OpenEditor, tuiVars, Context, Top
  <1> QED BY <1>3, <1>4, <1>5

\* A run_script request comes from a context that reaches a language.
LEMMA RunScriptTop ==
    ASSUME ScopeInv, TopInv, NEW l \in Languages, NEW ok \in BOOLEAN, RunScript(l, ok)
    PROVE  TopInv' /\ AnnouncedInv' /\ Context' # "math"
  <1>1. Context \notin {"math", "script_editor"} /\ l \notin {"math", "script_editor"}
    BY Reachable DEF RunScript
  <1> DEFINE returned == IF ok /\ l # Context /\ Context \in ReachableFrom(l)
                         THEN <<Context>> ELSE <<>>
             names == <<l>> \o returned
  <1>2. Context \in Contexts /\ l \in Contexts
    BY DEF ScopeInv, StackInv, Context, Top, Contexts
  <1>3. Push(names) /\ Announce(Top(names))
    BY DEF RunScript
  <1>4. /\ names \in Seq(Contexts) /\ names # <<>> /\ Len(names) \in {1, 2}
        /\ \A i \in 1 .. Len(names) : names[i] \in {l, Context}
    <2>1. CASE returned = <<>>
      BY <1>2, <2>1
    <2>2. CASE returned = <<Context>>
      BY <1>2, <2>2
    <2> QED BY <2>1, <2>2
  <1> HIDE DEF names
  <1>5. /\ Context' = Top(names) /\ Len(contexts') = Len(contexts) + Len(names)
        /\ \A i \in 1 .. Len(contexts) : contexts'[i] = contexts[i]
        /\ \A i \in 1 .. Len(names) : contexts'[Len(contexts) + i] = names[i]
    BY <1>3, <1>4, PushTop DEF ScopeInv
  <1>6. Context' \in {l, Context}
    BY <1>4, <1>5 DEF Top
  <1>7. TopInv'
    <2> SUFFICES ASSUME NEW i \in 1 .. (Len(contexts') - 1)
                 PROVE  contexts'[i] \notin {"math", "script_editor"}
      BY DEF TopInv
    <2>0. Len(contexts) \in Nat \ {0}
      BY DEF ScopeInv, StackInv
    <2>1. CASE i < Len(contexts)
      BY <1>5, <2>0, <2>1 DEF TopInv
    <2>2. CASE i = Len(contexts)
      BY <1>1, <1>5, <2>0, <2>2 DEF Context, Top
    <2>3. CASE i > Len(contexts)
      <3>1. i = Len(contexts) + 1 /\ 1 \in 1 .. Len(names)
        BY <1>4, <1>5, <2>0, <2>3
      <3> QED BY <1>1, <1>4, <1>5, <3>1
    <2> QED BY <1>5, <1>4, <2>0, <2>1, <2>2, <2>3
  <1> QED BY <1>1, <1>3, <1>5, <1>6, <1>7, AnnouncesTop

\* At the root both facts are plain.
LEMMA RootTop ==
    ASSUME StackInv', Len(contexts') = 1
    PROVE  TopInv' /\ Context' = "global"
  BY DEF StackInv, TopInv, Context, Top

\* No command leaves math or the editor covered, and each leaves the announced
\* context on top.
LEMMA TopStep ==
    ASSUME ScopeInv, TopInv, AnnouncedInv, [Next]_vars
    PROVE  TopInv' /\ AnnouncedInv'
  <1>1. CASE \E c \in Contexts : SwitchContext(c)
    BY <1>1, SwitchTop
  <1>2. CASE \E l \in Languages : RunScript(l, TRUE) \/ RunScript(l, FALSE)
    BY <1>2, RunScriptTop
  <1>3. CASE \E x \in Variables : Assign(x) \/ Set(x)
    BY <1>3, TopUnchanged DEF Assign, Set
  <1>4. CASE \E x \in Variables, s \in {"session", "global", "persisted"} : Promote(x, s)
    BY <1>4, TopUnchanged DEF Promote
  <1>5. CASE \E f \in Functions : DefineFunction(f) \/ Evaluate(f)
    BY <1>5, TopUnchanged DEF DefineFunction, Evaluate, stackVars
  <1>6. CASE Back
    BY <1>6, BackTop
  <1>7. CASE OpenEditor
    BY <1>7, OpenEditorTop
  <1>8. CASE CloseEditor
    BY <1>8, CloseEditorTop
  <1>9. CASE SaveState
    BY <1>9, TopUnchanged DEF SaveState, stackVars
  <1>10. CASE Reset
    <2>1. StackInv' /\ Len(contexts') = 1
      BY <1>10, RootKeepsStacks DEF ScopeInv, StackInv, Reset, ToRoot
    <2>2. TopInv' /\ Context' = "global" /\ Announce("global")
      BY <1>10, <2>1, RootTop DEF Reset
    <2> QED BY <2>2, AnnouncesTop
  <1>11. CASE LoadState
    <2>1. StackInv' /\ Len(contexts') = 1
      BY <1>11, RootKeepsStacks DEF ScopeInv, StackInv, LoadState, ToRoot
    <2>2. TopInv' /\ loading' = TRUE
      BY <1>11, <2>1, RootTop DEF LoadState
    <2> QED BY <2>2 DEF AnnouncedInv
  <1>12. CASE Restart
    <2>1. StackInv' /\ Len(contexts') = 1
      BY <1>12, RestartStep DEF ScopeInv, StackInv, Restart
    <2>2. TopInv' /\ Context' = "global" /\ Announce("global")
      BY <1>12, <2>1, RootTop DEF Restart
    <2> QED BY <2>2, AnnouncesTop
  <1>13. CASE UNCHANGED vars
    BY <1>13, TopUnchanged DEF vars, stackVars
  <1> QED
    BY <1>1, <1>2, <1>3, <1>4, <1>5, <1>6, <1>7, <1>8, <1>9, <1>10, <1>11, <1>12, <1>13
    DEF Next

\* The local functions stay when a local variable changes.
LEMMA SetLocalKeepsFunctions ==
    ASSUME ScopeInv, NEW x \in Variables, NEW v, SetLocal(x, v)
    PROVE  Local'.fns = Local.fns
  <1>1. Len(frames) \in 1 .. Len(frames) /\ frames[Len(frames)] \in FrameRecords
        /\ frames \in Seq(FrameRecords)
    BY DEF ScopeInv, StackInv, FramesStayAligned
  <1>2. frames' = [frames EXCEPT ![Len(frames)] =
                       [frames[Len(frames)] EXCEPT !.vars[x] = v]]
    BY <1>1 DEF SetLocal
  <1>3. frames'[Len(frames)].fns = frames[Len(frames)].fns /\ Len(frames') = Len(frames)
    BY <1>1, <1>2 DEF FrameRecords
  <1> QED BY <1>3 DEF Local, Top

\* A step that compiles and defines nothing keeps what is compiled, wherever it
\* leaves the stack: in no math frame, in a new one, or in the same.
LEMMA CacheKept ==
    ASSUME ScopeInv, ScopeInv', CacheInv, UNCHANGED functionVars, writes' >= writes,
           UNCHANGED exported \/ exported' = Document,
           Context' = "math" => \/ Local'.fns = Undefined
                                \/ Context = "math" /\ Local'.fns = Local.fns
    PROVE  CacheInv'
  <1>1. /\ UNCHANGED <<globalFns, definitions, cache>>
        /\ \A f \in Functions : exported'.functions[f] <= writes
    BY DEF functionVars, CacheInv, Document
  <1>2. /\ writes \in Nat /\ writes' \in Nat
        /\ \A f \in Functions : /\ globalFns[f] \in Nat /\ definitions[f] \in Nat
                                /\ exported'.functions[f] \in Nat /\ cache[f] \in Nat
    BY BoundsAssumption DEF ScopeInv, DataInv, Documents
  <1>3. ASSUME NEW f \in Functions
        PROVE  /\ (globalFns[f] <= writes)' /\ (definitions[f] <= writes)'
               /\ (exported.functions[f] <= writes)'
               /\ (cache[f] # 0 => cache[f] >= globalFns[f])'
    BY <1>1, <1>2 DEF CacheInv
  <1>4. ASSUME NEW f \in Functions, Context' = "math"
        PROVE  /\ Local'.fns[f] # 0 => Local'.fns[f] >= globalFns'[f]
               /\ cache'[f] # 0 => cache'[f] >= Local'.fns[f]
    <2>1. CASE Local'.fns = Undefined
      BY <1>1, <1>2, <2>1 DEF Undefined
    <2>2. CASE Context = "math" /\ Local'.fns = Local.fns
      BY <1>1, <2>2 DEF CacheInv
    <2> QED BY <1>4, <2>1, <2>2
  <1> QED BY <1>3, <1>4 DEF CacheInv

\* A new revision with nothing compiled yet.
LEMMA CacheCleared ==
    ASSUME ScopeInv', BumpRevision, Context' # "math",
           \A f \in Functions : /\ globalFns'[f] <= writes' /\ definitions'[f] <= writes'
                                /\ exported'.functions[f] <= writes'
    PROVE  CacheInv'
BY DEF CacheInv, BumpRevision, Undefined

\* /fn starts a new revision, in which nothing is newer than the definition.
LEMMA DefineFunctionCache ==
    ASSUME ScopeInv, ScopeInv', CacheInv, NEW f \in Functions, DefineFunction(f)
    PROVE  CacheInv'
  <1>1. /\ Context = "math" /\ writes' = writes + 1 /\ cache' = Undefined
        /\ definitions' = [definitions EXCEPT ![f] = writes + 1]
        /\ UNCHANGED <<contexts, globalFns, exported>>
    BY DEF DefineFunction, Count, BumpRevision
  <1>2. /\ writes \in Nat
        /\ \A g \in Functions : /\ globalFns[g] \in Nat /\ definitions[g] \in Nat
                                /\ exported.functions[g] \in Nat
        /\ definitions \in [Functions -> 0 .. MaxWrites]
    BY BoundsAssumption DEF ScopeInv, DataInv, Documents
  <1>3. Local'.fns = [Local.fns EXCEPT ![f] = writes + 1]
    <2>1. Len(frames) \in 1 .. Len(frames) /\ frames[Len(frames)] \in FrameRecords
          /\ frames \in Seq(FrameRecords)
      BY DEF ScopeInv, StackInv, FramesStayAligned
    <2>2. frames' = [frames EXCEPT ![Len(frames)] =
                         [frames[Len(frames)] EXCEPT !.fns[f] = writes + 1]]
      BY <2>1 DEF DefineFunction
    <2>3. frames'[Len(frames)] = [frames[Len(frames)] EXCEPT !.fns[f] = writes + 1]
          /\ Len(frames') = Len(frames)
      BY <2>1, <2>2
    <2>4. [frames[Len(frames)] EXCEPT !.fns[f] = writes + 1].fns
              = [frames[Len(frames)].fns EXCEPT ![f] = writes + 1]
      BY <2>1 DEF FrameRecords
    <2> QED BY <2>3, <2>4 DEF Local, Top
  <1>4. \A g \in Functions : Local.fns[g] \in Nat
    BY LocalType, BoundsAssumption DEF ScopeInv
  <1>5. ASSUME NEW g \in Functions
        PROVE  /\ (globalFns[g] <= writes)' /\ (definitions[g] <= writes)'
               /\ (exported.functions[g] <= writes)' /\ cache'[g] = 0
    BY <1>1, <1>2 DEF CacheInv, Undefined
  <1>6. ASSUME NEW g \in Functions
        PROVE  Local'.fns[g] # 0 => Local'.fns[g] >= globalFns'[g]
    <2>1. Local.fns \in [Functions -> 0 .. MaxWrites]
      BY LocalType DEF ScopeInv
    <2>2. CASE g = f
      BY <1>1, <1>2, <1>3, <2>1, <2>2 DEF CacheInv
    <2>3. CASE g # f
      BY <1>1, <1>2, <1>3, <1>4, <2>1, <2>3 DEF CacheInv
    <2> QED BY <2>2, <2>3
  <1> QED BY <1>5, <1>6 DEF CacheInv

\* What "f(1)" compiles to is the definition in scope.
LEMMA EvaluateCache ==
    ASSUME ScopeInv, CacheInv, NEW f \in Functions, Evaluate(f)
    PROVE  CacheInv'
  <1>1. /\ Context = "math" /\ cache' = [cache EXCEPT ![f] = Resolved(f)]
        /\ UNCHANGED <<contexts, frames, globalFns, definitions, writes, exported>>
    BY DEF Evaluate, stackVars
  <1>2. /\ cache \in [Functions -> 0 .. MaxWrites]
        /\ \A g \in Functions : globalFns[g] \in Nat /\ Local.fns[g] \in Nat
    BY LocalType, BoundsAssumption DEF ScopeInv, DataInv
  <1>3. Resolved(f) = IF Local.fns[f] # 0 THEN Local.fns[f] ELSE globalFns[f]
    BY ResolvedIs
  <1>4. Context' = "math" /\ Local' = Local
    BY <1>1 DEF Context, Local, Top
  <1>5. ASSUME NEW g \in Functions
        PROVE  /\ cache'[g] # 0 => cache'[g] >= globalFns[g]
               /\ cache'[g] # 0 => cache'[g] >= Local.fns[g]
    <2>1. CASE g = f
      BY <1>1, <1>2, <1>3, <2>1 DEF CacheInv
    <2>2. CASE g # f
      BY <1>1, <1>2, <2>2 DEF CacheInv
    <2> QED BY <2>1, <2>2
  <1> QED BY <1>1, <1>4, <1>5 DEF CacheInv

\* No command leaves something compiled that is older than what is in scope.
LEMMA CacheStep ==
    ASSUME ScopeInv, TopInv, AnnouncedInv, CacheInv, [Next]_vars
    PROVE  CacheInv'
  <1>0. ScopeInv'
    BY ScopeStep
  <1>w. writes \in Nat
    BY BoundsAssumption DEF ScopeInv, DataInv
  <1>1. ASSUME NEW c \in Contexts, SwitchContext(c) PROVE CacheInv'
    <2>1. UNCHANGED <<functionVars, writes, exported>>
      BY <1>1 DEF SwitchContext
    <2>2. Context' = "math" => Local'.fns = Undefined
      BY <1>1, SwitchTop
    <2> QED BY <1>0, <1>w, <2>1, <2>2, CacheKept
  <1>2. ASSUME NEW l \in Languages, NEW ok \in BOOLEAN, RunScript(l, ok) PROVE CacheInv'
    <2>1. UNCHANGED <<functionVars, writes, exported>> /\ Context' # "math"
      BY <1>2, RunScriptTop DEF RunScript
    <2> QED BY <1>0, <1>w, <2>1, CacheKept
  <1>3. ASSUME NEW x \in Variables, Assign(x) PROVE CacheInv'
    <2>1. PICK v \in NewValue : SetLocal(x, v)
      BY <1>3 DEF Assign
    <2>2. UNCHANGED <<functionVars, exported, contexts>> /\ writes' >= writes
      BY <1>3, <1>w DEF Assign, Count
    <2>3. Local'.fns = Local.fns /\ Context' = Context
      BY <2>1, <2>2, SetLocalKeepsFunctions DEF Context, Top
    <2> QED BY <1>0, <2>2, <2>3, CacheKept
  <1>4. ASSUME NEW x \in Variables, Set(x) PROVE CacheInv'
    <2>1. UNCHANGED <<functionVars, exported, contexts>> /\ writes' >= writes
      BY <1>4, <1>w DEF Set, Count
    <2>2. Local'.fns = Local.fns /\ Context' = Context
      BY <1>4, <2>1, SetLocalKeepsFunctions DEF Set, Context, Local, Top
    <2> QED BY <1>0, <2>1, <2>2, CacheKept
  <1>5. ASSUME NEW x \in Variables, NEW s \in {"session", "global", "persisted"},
               Promote(x, s)
        PROVE  CacheInv'
    <2>1. UNCHANGED <<functionVars, exported, contexts, writes>>
      BY <1>5 DEF Promote
    <2>2. Local'.fns = Local.fns /\ Context' = Context
      BY <1>5, <2>1, SetLocalKeepsFunctions DEF Promote, PromoteVariable, Context, Top
    <2> QED BY <1>0, <1>w, <2>1, <2>2, CacheKept
  <1>6. CASE Back \/ OpenEditor \/ CloseEditor
    <2>1. UNCHANGED <<functionVars, writes, exported>> /\ Context' # "math"
      BY <1>6, BackTop, OpenEditorTop, CloseEditorTop DEF Back, OpenEditor, CloseEditor
    <2> QED BY <1>0, <1>w, <2>1, CacheKept
  <1>7. CASE SaveState
    <2>1. UNCHANGED <<functionVars, writes>> /\ exported' = Document
      BY <1>7 DEF SaveState
    <2>2. Local' = Local /\ Context' = Context
      BY <1>7 DEF SaveState, stackVars, Local, Context, Top
    <2> QED BY <1>0, <1>w, <2>1, <2>2, CacheKept
  <1>8. CASE Reset
    <2>1. BumpRevision /\ definitions' = Undefined /\ UNCHANGED <<globalFns, writes, exported>>
      BY <1>8 DEF Reset
    <2>2. Len(contexts') = 1
      BY <1>8 DEF ScopeInv, StackInv, Reset, ToRoot
    <2>3. Context' # "math"
      BY <1>0, <2>2, RootTop DEF ScopeInv
    <2> QED BY <1>0, <1>w, <2>1, <2>3, CacheCleared DEF CacheInv, Undefined
  <1>9. CASE LoadState
    <2>1. /\ BumpRevision /\ globalFns' = exported.functions
          /\ definitions' = exported.functions /\ UNCHANGED <<writes, exported>>
      BY <1>9 DEF LoadState, Import
    <2>2. Len(contexts') = 1
      BY <1>9 DEF ScopeInv, StackInv, LoadState, ToRoot
    <2>3. Context' # "math"
      BY <1>0, <2>2, RootTop DEF ScopeInv
    <2> QED BY <1>0, <2>1, <2>3, CacheCleared DEF CacheInv
  <1>10. CASE Restart
    <2>1. /\ BumpRevision /\ globalFns' = definitions
          /\ definitions' = definitions /\ UNCHANGED <<writes, exported>>
      BY <1>10 DEF Restart, Import, Document
    <2>2. Context' # "math"
      BY <1>10 DEF Restart, Context, Top
    <2> QED BY <1>0, <2>1, <2>2, CacheCleared DEF CacheInv
  <1>11. CASE UNCHANGED vars
    BY <1>11 DEF vars, stackVars, functionVars, CacheInv, Context, Local, Top
  <1> QED
    BY <1>1, <1>2, <1>3, <1>4, <1>5, <1>6, <1>7, <1>8, <1>9, <1>10, <1>11,
       DefineFunctionCache, EvaluateCache, <1>0
    DEF Next

\* A fresh engine has announced the root and compiled nothing.
LEMMA TopInit == Init => TopInv /\ AnnouncedInv /\ CacheInv
BY BoundsAssumption DEF Init, TopInv, AnnouncedInv, CacheInv, Context, Top, Undefined

\* The three facts hold of every run.
LEMMA TopInvariant == Spec => [](ScopeInv /\ TopInv /\ AnnouncedInv /\ CacheInv)
  <1>1. ScopeInv /\ TopInv /\ AnnouncedInv /\ CacheInv /\ [Next]_vars
          => (ScopeInv /\ TopInv /\ AnnouncedInv /\ CacheInv)'
    BY ScopeStep, TopStep, CacheStep
  <1> QED BY ScopeInit, TopInit, <1>1, PTL DEF Spec

\* The prompt is right: the context the TUI was last told of is the one the next
\* command is given to, whatever switches, scripts, editors and resets came before.
THEOREM PromptIsRight == Spec => []AnnouncedContextIsCurrent
  <1>1. AnnouncedInv => AnnouncedContextIsCurrent
    BY DEF AnnouncedInv, AnnouncedContextIsCurrent
  <1> QED BY TopInvariant, <1>1, PTL

\* Pushes and pops leave the function revision alone, and still no evaluation calls
\* an older definition than the one in scope.
THEOREM NoOutdatedEvaluation == Spec => []EvaluationNotOutdated
  <1>1. ScopeInv /\ CacheInv => EvaluationNotOutdated
    BY ResolvedIs DEF CacheInv, EvaluationNotOutdated
  <1> QED BY TopInvariant, <1>1, PTL
=============================================================================
