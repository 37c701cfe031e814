---------------------------- MODULE AlibsProofs ----------------------------
(***************************************************************************)
(* What alibs.cmd never does, and what it achieves, for any number of      *)
(* consoles, any config files and command lines, and any number of         *)
(* failures, interruptions and updates: its types, the cpu of its archives,*)
(* the undisturbed runs, and the archive as the list of puts it implements.*)
(***************************************************************************)
EXTENDS Alibs, SettingsTheorems, SequenceTheorems

\* The blocks of the loop body after its first `cd'.
InBody(s) == al[s].pc \in {"compile", "list", "arRead", "arWrite", "up"}

\* In the body the script is in the library's folder, or above it if the folder
\* could not be made: it has something to `cd ..' from.
BodyDepth == \A s \in Sessions : InBody(s) => al[s].cwd \in {2, 3}

TypeInv == TypeOK /\ BodyDepth

-----------------------------------------------------------------------------
\* The types of the operators.
LEMMA TargetLibsType ==
    ASSUME NEW var, NEW args \in Seq(Text)
    PROVE  TargetLibs(var, args) \in Seq(Text) /\ TargetLibs(var, args) # <<>>
<1> DEFINE n == IF Len(args) < 6 THEN Len(args) ELSE 6
<1>1. \A l \in Lib : l \in Text
  BY LibNames
<1>2. /\ <<"zlib", "png", "freetype">> \in Seq(Text)
      /\ <<"drm">> \in Seq(Text) /\ <<"jpeg">> \in Seq(Text)
      /\ <<"harfbuzz">> \in Seq(Text) /\ <<>> \in Seq(Text)
  BY <1>1 DEF Lib
<1>3. CASE args = <<>>
  BY <1>2, <1>3 DEF TargetLibs
<1>4. CASE args # <<>>
  <2>1. n \in 1 .. Len(args)
    BY <1>4
  <2>2. SubSeq(args, 1, n) \in Seq(Text) /\ Len(SubSeq(args, 1, n)) = n
    <3> HIDE DEF n
    <3>. QED
      BY <2>1, SubSeqProperties
  <2>3. SubSeq(args, 1, n) # <<>>
    BY <2>1, <2>2
  <2>. QED
    BY <1>4, <2>2, <2>3 DEF TargetLibs
<1>. QED
  BY <1>3, <1>4

LEMMA UnitsType ==
    ASSUME NEW l, NEW var
    PROVE  Units(l, var) \in SUBSET Text /\ (Units(l, var) # {} => l \in Lib)
<1>1. OptimizedUnits(l, var) \in SUBSET Text
  BY UnitNames DEF OptimizedUnits, CpuUnits
<1>. QED
  BY <1>1, CommonAssumption DEF Units

LEMMA LibFlagsType ==
    ASSUME NEW l, NEW e \in Env
    PROVE  LibFlags(l, e) \in SUBSET LibFlag
  BY DEF LibFlags, LibFlag, Env

LEMMA IdleFrameType == IdleFrame \in Frame
<1>1. EmptyEnv \in Env
  BY TextAssumption DEF EmptyEnv, Env, NoOut, OutName
<1>2. <<>> \in Seq(Text)
  OBVIOUS
<1>. QED
  BY <1>1, <1>2 DEF IdleFrame, Frame, AlibsPC

LEMMA ReplaceType ==
    ASSUME NEW S, NEW A \in SUBSET S, NEW new \in SUBSET S
    PROVE  Replace(A, new) \in SUBSET S
  BY DEF Replace

LEMMA CompiledType ==
    ASSUME TypeOK, NEW s \in Sessions, NEW u \in Compilable(s)
    PROVE  Compiled(s, u) \in Obj
<1>1. al[s].env \in Env /\ Out(s) \in OutName
  BY DEF TypeOK, Frame, Out, Env
<1>2. Current(s) \in Lib /\ u \in Text
  BY UnitsType DEF Compilable
<1>3. rev[Current(s)] \in Nat /\ Current(s) \in Text
  BY <1>2, LibNames DEF TypeOK
<1>4. LibFlags(Current(s), al[s].env) \in SUBSET LibFlag
  BY <1>1, LibFlagsType
<1>. QED
  BY <1>1, <1>2, <1>3, <1>4 DEF Compiled, Obj

LEMMA LoadedType ==
    ASSUME TypeOK, NEW s \in Sessions
    PROVE  /\ Loaded(s) \in Env
           /\ NameArgs(al[s].args) \in Seq(Text)
<1> DEFINE args == al[s].args
<1>1. args \in Seq(Text) /\ al[s].env \in Env
  BY DEF TypeOK, Frame
<1>2. ConfigArg(args) \in Text /\ ConfigArg(args) \in DOMAIN Versions
  BY VersionsAssumption DEF ConfigArg, NamesConfig, TypeOK
<1>3. cfg[ConfigArg(args)] \in ConfigFile
  BY <1>2 DEF TypeOK
<1>4. Loaded(s) \in Env
  BY <1>1, <1>2, <1>3, LoadSettingsType DEF Loaded
<1>5. NameArgs(args) \in Seq(Text)
  <2>1. CASE NamesConfig(args)
    <3>1. args # <<>>
      BY <2>1 DEF NamesConfig
    <3>2. Tail(args) \in Seq(Text)
      BY <1>1, <3>1
    <3>. QED
      BY <2>1, <3>2 DEF NameArgs
  <2>2. CASE ~NamesConfig(args)
    BY <1>1, <2>2 DEF NameArgs
  <2>. QED
    BY <2>1, <2>2
<1>. QED
  BY <1>4, <1>5

\* A step that only moves one console, to a frame of the right type.
LEMMA FrameStep ==
    ASSUME TypeInv, NEW s \in Sessions, NEW f \in Frame,
           f.pc \in {"compile", "list", "arRead", "arWrite", "up"} => f.cwd \in {2, 3},
           al' = [al EXCEPT ![s] = f]
    PROVE  al' \in [Sessions -> Frame] /\ BodyDepth'
  BY DEF TypeInv, TypeOK, BodyDepth, InBody
-----------------------------------------------------------------------------
\* Each action keeps the types.
LEMMA TypeInit == Init => TypeInv
<1> SUFFICES ASSUME Init PROVE TypeInv
  OBVIOUS
<1>1. al \in [Sessions -> Frame] /\ BodyDepth
  BY IdleFrameType DEF Init, BodyDepth, InBody, IdleFrame
<1>2. cfg \in [DOMAIN Versions -> ConfigFile]
  BY VersionsAssumption DEF Init
<1>. QED
  BY <1>1, <1>2 DEF Init, TypeInv, TypeOK

LEMMA TypeRun ==
    ASSUME TypeInv, NEW s \in Sessions, NEW args \in LibArgs, RunAlibs(s, args)
    PROVE  TypeInv'
<1> DEFINE f == [IdleFrame EXCEPT !.pc = "load", !.args = args]
<1>1. f \in Frame /\ f.pc = "load"
  BY IdleFrameType, ArgsAssumption DEF Frame, AlibsPC
<1>2. al' \in [Sessions -> Frame] /\ BodyDepth'
  BY <1>1, FrameStep DEF RunAlibs
<1>. QED
  BY <1>2 DEF RunAlibs, tree, TypeInv, TypeOK

LEMMA TypeLoad ==
    ASSUME TypeInv, NEW s \in Sessions, AlibsLoad(s)
    PROVE  TypeInv'
<1> DEFINE e == Loaded(s)
           T == TargetLibs(e.var, NameArgs(al[s].args))
<1>1. e \in Env /\ T \in Seq(Text)
  BY LoadedType, TargetLibsType DEF TypeInv
<1>2. \A t \in Sessions : al[t] \in Frame
  BY DEF TypeInv, TypeOK
<1>3. al'[s] \in Frame /\ al'[s].pc = "enter"
  <2>1. PICK b \in BOOLEAN :
          al'[s] = [al[s] EXCEPT !.pc = "enter", !.env = e, !.targets = T, !.calm = b]
    BY DEF AlibsLoad
  <2> HIDE DEF e, T
  <2>. QED
    BY <1>1, <1>2, <2>1 DEF Frame, AlibsPC
<1>4. ASSUME NEW t \in Sessions, t # s
      PROVE  al'[t] \in Frame /\ al'[t].pc = al[t].pc /\ al'[t].cwd = al[t].cwd
  <2>1. al'[t] \in {al[t], [al[t] EXCEPT !.calm = FALSE]}
    BY <1>4 DEF AlibsLoad
  <2> HIDE DEF e, T
  <2>. QED
    BY <1>2, <2>1 DEF Frame
<1>5. al' \in [Sessions -> Frame]
  <2>1. DOMAIN al' = Sessions /\ al' = [t \in Sessions |-> al'[t]]
    BY DEF AlibsLoad
  <2>. QED
    BY <1>3, <1>4, <2>1
<1>6. BodyDepth'
  BY <1>3, <1>4 DEF TypeInv, BodyDepth, InBody
<1>. QED
  BY <1>5, <1>6 DEF AlibsLoad, tree, TypeInv, TypeOK

LEMMA TypeGiveUp ==
    ASSUME TypeInv, NEW s \in Sessions, AlibsGiveUp(s)
    PROVE  TypeInv'
<1>1. al' \in [Sessions -> Frame] /\ BodyDepth'
  BY IdleFrameType, FrameStep DEF AlibsGiveUp, IdleFrame
<1>. QED
  BY <1>1 DEF AlibsGiveUp, tree, TypeInv, TypeOK

LEMMA TypeEnd ==
    ASSUME TypeInv, NEW s \in Sessions, AlibsEnd(s)
    PROVE  TypeInv'
<1>1. al' \in [Sessions -> Frame] /\ BodyDepth'
  BY IdleFrameType, FrameStep DEF AlibsEnd, IdleFrame
<1>. QED
  BY <1>1 DEF AlibsEnd, tree, TypeInv, TypeOK

LEMMA TypeInterrupt ==
    ASSUME TypeInv, NEW s \in Sessions, Interrupt(s)
    PROVE  TypeInv'
<1>1. al' \in [Sessions -> Frame] /\ BodyDepth'
  BY IdleFrameType, FrameStep DEF Interrupt, IdleFrame
<1>. QED
  BY <1>1 DEF Interrupt, Fault, tree, TypeInv, TypeOK

LEMMA TypeDone ==
    ASSUME TypeInv, NEW s \in Sessions, AlibsDone(s)
    PROVE  TypeInv'
<1> DEFINE f == [al[s] EXCEPT !.pc = "end"]
<1>1. al[s] \in Frame
  BY DEF TypeInv, TypeOK
<1>2. f \in Frame
  BY <1>1 DEF Frame, AlibsPC
<1>3. al' \in [Sessions -> Frame] /\ BodyDepth'
  BY <1>1, <1>2, FrameStep DEF AlibsDone, Frame, TypeInv, BodyDepth, InBody
<1>. QED
  BY <1>3 DEF AlibsDone, tree, TypeInv, TypeOK, NoFault

LEMMA TypeInvalid ==
    ASSUME TypeInv, NEW s \in Sessions, AlibsInvalid(s)
    PROVE  TypeInv'
<1> DEFINE f == [al[s] EXCEPT !.pc = "end"]
<1>1. al[s] \in Frame
  BY DEF TypeInv, TypeOK
<1>2. f \in Frame
  BY <1>1 DEF Frame, AlibsPC
<1>3. al' \in [Sessions -> Frame] /\ BodyDepth'
  BY <1>1, <1>2, FrameStep DEF AlibsInvalid, Frame, TypeInv, BodyDepth, InBody
<1>. QED
  BY <1>3 DEF AlibsInvalid, tree, TypeInv, TypeOK, NoFault

LEMMA TypeArRefuse ==
    ASSUME TypeInv, NEW s \in Sessions, AlibsArRefuse(s)
    PROVE  TypeInv'
<1> DEFINE f == [al[s] EXCEPT !.pc = "up"]
<1>1. al[s] \in Frame
  BY DEF TypeInv, TypeOK
<1>2. f \in Frame
  BY <1>1 DEF Frame, AlibsPC
<1>3. al' \in [Sessions -> Frame] /\ BodyDepth'
  BY <1>1, <1>2, FrameStep DEF AlibsArRefuse, Frame, TypeInv, BodyDepth, InBody
<1>. QED
  BY <1>3 DEF AlibsArRefuse, tree, TypeInv, TypeOK, NoFault

LEMMA TypeList ==
    ASSUME TypeInv, NEW s \in Sessions, AlibsList(s)
    PROVE  TypeInv'
<1> DEFINE f == [al[s] EXCEPT !.pc = "arRead", !.names = Listed(s)]
<1>1. al[s] \in Frame
  BY DEF TypeInv, TypeOK
<1>4. Listed(s) \in SUBSET Text
  BY DEF Listed, OfLib, TypeInv, TypeOK, Obj
<1>2. f \in Frame
  BY <1>1, <1>4 DEF Frame, AlibsPC
<1>3. al' \in [Sessions -> Frame] /\ BodyDepth'
  BY <1>1, <1>2, FrameStep DEF AlibsList, Frame, TypeInv, BodyDepth, InBody
<1>. QED
  BY <1>3 DEF AlibsList, tree, TypeInv, TypeOK, NoFault

LEMMA TypeArRead ==
    ASSUME TypeInv, NEW s \in Sessions, AlibsArRead(s)
    PROVE  TypeInv'
<1> DEFINE f == [al[s] EXCEPT !.pc = "arWrite",
                             !.mem = IF al[s].cwd = 3
                                     THEN Replace(InFolder(adeps, Out(s)), Given(s))
                                     ELSE {}]
<1>1. al[s] \in Frame
  BY DEF TypeInv, TypeOK
<1>4. Replace(InFolder(adeps, Out(s)), Given(s)) \in SUBSET Obj
  BY ReplaceType DEF InFolder, Given, OfLib, TypeInv, TypeOK
<1>2. f \in Frame
  BY <1>1, <1>4 DEF Frame, AlibsPC
<1>3. al' \in [Sessions -> Frame] /\ BodyDepth'
  BY <1>1, <1>2, FrameStep DEF AlibsArRead, Frame, TypeInv, BodyDepth, InBody
<1>. QED
  BY <1>3 DEF AlibsArRead, tree, TypeInv, TypeOK, NoFault

LEMMA TypeUp ==
    ASSUME TypeInv, NEW s \in Sessions, AlibsUp(s)
    PROVE  TypeInv'
<1> DEFINE f == [al[s] EXCEPT !.pc = "loop", !.cwd = al[s].cwd - 1,
                             !.at = al[s].at + 1, !.names = {}, !.mem = {}]
<1>1. al[s] \in Frame
  BY DEF TypeInv, TypeOK
<1>4. al[s].cwd - 1 \in 0 .. 3 /\ al[s].at + 1 \in Nat
  BY <1>1 DEF AlibsUp, TypeInv, BodyDepth, InBody, Frame
<1>2. f \in Frame
  BY <1>1, <1>4 DEF Frame, AlibsPC
<1>3. al' \in [Sessions -> Frame] /\ BodyDepth'
  <2>1. al' = [al EXCEPT ![s] = f]
    BY Zenon DEF AlibsUp
  <2>2. f.pc = "loop"
    BY <1>1 DEF Frame
  <2>. QED
    BY <1>2, <2>1, <2>2, FrameStep
<1>. QED
  BY <1>3 DEF AlibsUp, tree, TypeInv, TypeOK, NoFault

LEMMA TypeArWrite ==
    ASSUME TypeInv, NEW s \in Sessions, AlibsArWrite(s)
    PROVE  TypeInv'
<1> DEFINE f == [al[s] EXCEPT !.pc = "up"]
<1>1. al[s] \in Frame /\ Out(s) \in OutName
  BY DEF TypeInv, TypeOK, Out, Frame, Env
<1>2. f \in Frame
  BY <1>1 DEF Frame, AlibsPC
<1>3. al' \in [Sessions -> Frame] /\ BodyDepth'
  BY <1>1, <1>2, FrameStep DEF AlibsArWrite, Frame, TypeInv, BodyDepth, InBody
<1>4. adeps' \subseteq Obj /\ made' \subseteq OutName
  BY <1>1 DEF AlibsArWrite, Frame, TypeInv, TypeOK
<1>. QED
  BY <1>3, <1>4 DEF AlibsArWrite, TypeInv, TypeOK

LEMMA TypeEnter ==
    ASSUME TypeInv, NEW s \in Sessions, AlibsEnter(s)
    PROVE  TypeInv'
<1>1. al[s] \in Frame /\ Out(s) \in OutName
  BY DEF TypeInv, TypeOK, Out, Frame, Env
<1>2. \E f \in Frame : f.pc = "loop" /\ al' = [al EXCEPT ![s] = f]
  <2>1. [al[s] EXCEPT !.pc = "loop", !.cwd = 2] \in Frame
    <3>1. 2 \in 0 .. 3
      OBVIOUS
    <3>. QED
      BY <1>1, <3>1 DEF Frame, AlibsPC
  <2>2. [al[s] EXCEPT !.pc = "loop", !.calm = FALSE] \in Frame
    BY <1>1 DEF Frame, AlibsPC
  <2>. QED
    BY <1>1, <2>1, <2>2 DEF AlibsEnter, Frame
<1>3. al' \in [Sessions -> Frame] /\ BodyDepth'
  BY <1>2, FrameStep
<1>4. libsDir' \subseteq OutName /\ faults' \in Nat
  BY <1>1 DEF AlibsEnter, Fault, NoFault, TypeInv, TypeOK
<1>. QED
  BY <1>3, <1>4 DEF AlibsEnter, TypeInv, TypeOK

LEMMA TypePrepare ==
    ASSUME TypeInv, NEW s \in Sessions, AlibsPrepare(s)
    PROVE  TypeInv'
<1>1. al[s] \in Frame /\ al[s].cwd = 2
  BY DEF TypeInv, TypeOK, AlibsPrepare, FolderSeen
<1>2. \E f \in Frame : f.cwd \in {2, 3} /\ al' = [al EXCEPT ![s] = f]
  <2> DEFINE d == al[s].cwd + 1
             f == [al[s] EXCEPT !.pc = "compile", !.cwd = d]
             g == [al[s] EXCEPT !.pc = "compile", !.cwd = d, !.calm = FALSE]
             h == [al[s] EXCEPT !.pc = "compile", !.calm = FALSE]
  <2>1. d = 3 /\ d \in 0 .. 3
    BY <1>1
  <2>2. f \in Frame /\ f.cwd \in {2, 3}
    <3> HIDE DEF d
    <3>. QED
      BY <1>1, <2>1 DEF Frame, AlibsPC
  <2>3. g \in Frame /\ g.cwd \in {2, 3}
    <3> HIDE DEF d
    <3>. QED
      BY <1>1, <2>1 DEF Frame, AlibsPC
  <2>4. h \in Frame /\ h.cwd \in {2, 3}
    BY <1>1 DEF Frame, AlibsPC
  <2>5. al' \in {[al EXCEPT ![s] = f], [al EXCEPT ![s] = g], [al EXCEPT ![s] = h]}
    BY Zenon DEF AlibsPrepare
  <2> HIDE DEF f, g, h
  <2>. QED
    BY <2>2, <2>3, <2>4, <2>5
<1>3. al' \in [Sessions -> Frame] /\ BodyDepth'
  BY <1>2, FrameStep
<1>4. objs' \subseteq Obj /\ root' \subseteq RootFolder /\ faults' \in Nat
  BY DEF AlibsPrepare, RemoveFolder, Fault, NoFault, TypeInv, TypeOK
<1>. QED
  BY <1>3, <1>4 DEF AlibsPrepare, TypeInv, TypeOK

LEMMA TypeCompile ==
    ASSUME TypeInv, NEW s \in Sessions, AlibsCompile(s)
    PROVE  TypeInv'
<1>1. al[s] \in Frame /\ al[s].cwd \in {2, 3}
  BY DEF TypeInv, TypeOK, AlibsCompile, BodyDepth, InBody
<1>2. \E f \in Frame : f.cwd \in {2, 3} /\ al' = [al EXCEPT ![s] = f]
  <2>1. [al[s] EXCEPT !.pc = "list"] \in Frame
    BY <1>1 DEF Frame, AlibsPC
  <2>2. [al[s] EXCEPT !.pc = "list", !.calm = FALSE] \in Frame
    BY <1>1 DEF Frame, AlibsPC
  <2>. QED
    BY <1>1, <2>1, <2>2 DEF AlibsCompile, Frame
<1>3. al' \in [Sessions -> Frame] /\ BodyDepth'
  BY <1>2, FrameStep
<1>4. objs' \subseteq Obj
  <2>1. PICK good \in SUBSET Compilable(s) :
          objs' = Replace(objs, {Compiled(s, u) : u \in good})
    BY DEF AlibsCompile
  <2>2. {Compiled(s, u) : u \in good} \in SUBSET Obj
    BY CompiledType DEF TypeInv
  <2>. QED
    BY <2>1, <2>2, ReplaceType DEF TypeInv, TypeOK
<1>5. faults' \in Nat
  BY DEF AlibsCompile, Fault, NoFault, TypeInv, TypeOK
<1>. QED
  BY <1>3, <1>4, <1>5 DEF AlibsCompile, TypeInv, TypeOK

LEMMA TypeEdit ==
    ASSUME TypeInv, NEW c \in DOMAIN Versions, NEW f \in Versions[c], EditConfig(c, f)
    PROVE  TypeInv'
<1>1. f \in ConfigFile
  BY VersionsAssumption
<1>. QED
  BY <1>1 DEF EditConfig, TypeInv, TypeOK, BodyDepth, InBody

LEMMA TypeUpdate ==
    ASSUME TypeInv, NEW l \in Updated, UpdateSource(l)
    PROVE  TypeInv'
<1>1. \A t \in Sessions :
         al'[t] \in Frame /\ al'[t].pc = al[t].pc /\ al'[t].cwd = al[t].cwd
  BY DEF UpdateSource, TypeInv, TypeOK, Frame, Running
<1>2. al' \in [Sessions -> Frame] /\ BodyDepth'
  BY <1>1 DEF UpdateSource, TypeInv, BodyDepth, InBody
<1>3. rev' \in [Lib -> Nat] /\ updates' \in Nat
  BY BoundsAssumption DEF UpdateSource, TypeInv, TypeOK
<1>. QED
  BY <1>2, <1>3 DEF UpdateSource, TypeInv, TypeOK

LEMMA TypeStutter ==
    ASSUME TypeInv, UNCHANGED vars
    PROVE  TypeInv'
  BY DEF vars, tree, TypeInv, TypeOK, BodyDepth, InBody

LEMMA TypeStep == TypeInv /\ [Next]_vars => TypeInv'
<1> SUFFICES ASSUME TypeInv, [Next]_vars PROVE TypeInv'
  OBVIOUS
<1>1. CASE User
  BY <1>1, TypeInterrupt, TypeRun, TypeEdit, TypeUpdate DEF User
<1>2. ASSUME NEW s \in Sessions, AlibsStep(s) PROVE TypeInv'
  BY <1>2, TypeLoad, TypeGiveUp, TypeEnter, TypeDone, TypeInvalid, TypePrepare,
     TypeCompile, TypeList, TypeArRead, TypeArRefuse, TypeArWrite, TypeUp, TypeEnd
  DEF AlibsStep
<1>3. CASE UNCHANGED vars
  BY <1>3, TypeStutter
<1>. QED
  BY <1>1, <1>2, <1>3 DEF Next

LEMMA TypeInvHolds == Spec => []TypeInv
  BY TypeInit, TypeStep, PTL DEF Spec

\* The runs and the files have their types.
THEOREM TypeCorrect == Spec => []TypeOK
<1>1. TypeInv => TypeOK
  BY DEF TypeInv
<1>. QED
  BY TypeInvHolds, <1>1, PTL

-----------------------------------------------------------------------------
\* `rd' deletes only where the script is two folders down, so no source.
LEMMA SourcesStep ==
    ASSUME [Next]_vars
    PROVE  root' = root
<1>1. CASE User
  BY <1>1 DEF User, Interrupt, RunAlibs, EditConfig, UpdateSource, tree
<1>2. ASSUME NEW s \in Sessions, AlibsPrepare(s) PROVE root' = root
  BY <1>2 DEF AlibsPrepare, FolderSeen, RemoveFolder
<1>3. ASSUME NEW s \in Sessions, AlibsStep(s), ~AlibsPrepare(s) PROVE root' = root
  BY <1>3 DEF AlibsStep, AlibsLoad, AlibsGiveUp, AlibsEnter, AlibsDone, AlibsInvalid,
     AlibsCompile, AlibsList, AlibsArRead, AlibsArRefuse, AlibsArWrite, AlibsUp,
     AlibsEnd, tree
<1>4. CASE UNCHANGED vars
  BY <1>4 DEF vars, tree
<1>. QED
  BY <1>1, <1>2, <1>3, <1>4 DEF Next

\* Whichever step fails, is interrupted or meets another console's, the source
\* folders beside the scripts stay.
THEOREM SourcesStay == Spec => []SourcesKept
<1>1. Init => SourcesKept
  BY DEF Init, SourcesKept
<1>2. SourcesKept /\ [Next]_vars => SourcesKept'
  BY SourcesStep DEF SourcesKept
<1>. QED
  BY <1>1, <1>2, PTL DEF Spec
-----------------------------------------------------------------------------
(***************************************************************************)
(* No archive mixes the objects of two cpus, whatever happens to the config*)
(* files, the scripts and the archive.  The invariant behind it: the cpu is*)
(* part of the name of the folder an object is in, and a run that has      *)
(* loaded its settings works in a folder with their cpu in its name.       *)
(***************************************************************************)

\* An object is compiled for the cpu its folder is named after.
CpuOk(x) ==
    /\ \A c \in {"neon", "sse2"} : c \in x.flags <=> c = x.out.cpu
    /\ x.tu = "neon" => x.out.cpu = "neon"
    /\ x.tu = "nobs" => x.out.cpu # "neon"

EnvOk(e) ==
    /\ e.out.cpu = e.var["LIBAROMA_CPU"]
    /\ \A c \in {"neon", "sse2"} : c \in e.flags <=> c = e.var["LIBAROMA_CPU"]

FrameOk(f) ==
    /\ \A x \in f.mem : CpuOk(x)
    /\ f.pc \notin {"idle", "load"} => EnvOk(f.env)

CpuInv ==
    /\ \A x \in objs : CpuOk(x)
    /\ \A x \in adeps : CpuOk(x)
    /\ \A s \in Sessions : FrameOk(al[s])

\* The settings of a config that is complete agree with the folder.
LEMMA LoadedEnvOk ==
    ASSUME NEW e, NEW f, NEW arg, MustHave(LoadedVars(e.var, f, Len(f)))
    PROVE  EnvOk(LoadSettings(e, f, arg))
<1> DEFINE v == ResolvePlatform(LoadedVars(e.var, f, Len(f)))
<1>1. LoadSettings(e, f, arg) =
        [var |-> v, flags |-> GenericFlags(v), out |-> OutFolder(v, arg)]
  BY DEF LoadSettings, Finish
<1>2. OutFolder(v, arg).cpu = v["LIBAROMA_CPU"]
  BY DEF OutFolder
<1>3. \A c \in {"neon", "sse2"} : c \in GenericFlags(v) <=> c = v["LIBAROMA_CPU"]
  BY DEF GenericFlags
<1>. QED
  BY <1>1, <1>2, <1>3 DEF EnvOk

\* An incomplete one leaves a missing variable.
LEMMA LoadedIncomplete ==
    ASSUME NEW e, NEW f, NEW arg, MustHave(LoadSettings(e, f, arg).var)
    PROVE  MustHave(LoadedVars(e.var, f, Len(f)))
  BY DEF LoadSettings

LEMMA CompiledOk ==
    ASSUME TypeOK, NEW s \in Sessions, NEW u \in Compilable(s), EnvOk(al[s].env)
    PROVE  CpuOk(Compiled(s, u))
<1> DEFINE e == al[s].env
           l == Current(s)
           x == Compiled(s, u)
<1>1. x.out = e.out /\ x.tu = u /\ x.flags = LibFlags(l, e)
  BY DEF Compiled, Out
<1>2. \A c \in {"neon", "sse2"} : c \in LibFlags(l, e) <=> c \in e.flags
  BY DEF LibFlags
<1>3. u = "neon" => e.var["LIBAROMA_CPU"] = "neon"
  BY CommonAssumption DEF Compilable, Units, OptimizedUnits, CpuUnits
<1>4. u = "nobs" => e.var["LIBAROMA_CPU"] # "neon"
  BY CommonAssumption DEF Compilable, Units, OptimizedUnits, CpuUnits
<1>. QED
  BY <1>1, <1>2, <1>3, <1>4 DEF CpuOk, EnvOk

\* Steps that leave the settings and the archive in hand of every run alone.
Quiet ==
    \A t \in Sessions :
        /\ al'[t].mem \subseteq al[t].mem
        /\ al'[t].pc \notin {"idle", "load"} =>
              al[t].pc \notin {"idle", "load"} /\ al'[t].env = al[t].env

LEMMA QuietKeeps ==
    ASSUME CpuInv, Quiet
    PROVE  \A t \in Sessions : FrameOk(al'[t])
  BY DEF CpuInv, Quiet, FrameOk

\* A run goes on with the settings and the archive it has.
LEMMA GoesOnQuiet ==
    ASSUME TypeInv, NEW s \in Sessions, al[s].pc \notin {"idle", "load"}, NEW f,
           al' = [al EXCEPT ![s] = f], f.mem = al[s].mem, f.env = al[s].env
    PROVE  Quiet
  BY DEF Quiet, TypeInv, TypeOK

LEMMA UserQuiet ==
    ASSUME TypeInv, User
    PROVE  Quiet /\ objs' = objs /\ adeps' = adeps
<1>1. ASSUME NEW s \in Sessions, Interrupt(s) PROVE Quiet /\ objs' = objs /\ adeps' = adeps
  BY <1>1 DEF Interrupt, tree, Quiet, IdleFrame, TypeInv, TypeOK
<1>2. ASSUME NEW s \in Sessions, NEW args \in LibArgs, RunAlibs(s, args)
      PROVE  Quiet /\ objs' = objs /\ adeps' = adeps
  BY <1>2 DEF RunAlibs, tree, Quiet, IdleFrame, TypeInv, TypeOK
<1>3. ASSUME NEW c \in DOMAIN Versions, NEW f \in Versions[c], EditConfig(c, f)
      PROVE  Quiet /\ objs' = objs /\ adeps' = adeps
  BY <1>3 DEF EditConfig, Quiet
<1>4. ASSUME NEW l \in Updated, UpdateSource(l)
      PROVE  Quiet /\ objs' = objs /\ adeps' = adeps
  BY <1>4 DEF UpdateSource, Quiet, TypeInv, TypeOK, Frame
<1>. QED
  BY <1>1, <1>2, <1>3, <1>4 DEF User

LEMMA LoopQuiet ==
    ASSUME TypeInv, NEW s \in Sessions,
           \/ AlibsGiveUp(s) \/ AlibsEnter(s) \/ AlibsDone(s) \/ AlibsInvalid(s)
           \/ AlibsList(s) \/ AlibsArRefuse(s) \/ AlibsUp(s) \/ AlibsEnd(s)
    PROVE  Quiet /\ objs' = objs /\ adeps' = adeps
<1>1. \A t \in Sessions : al[t] \in Frame
  BY DEF TypeInv, TypeOK
<1>2. CASE AlibsGiveUp(s) \/ AlibsEnd(s)
  BY <1>1, <1>2 DEF AlibsGiveUp, AlibsEnd, tree, Quiet, IdleFrame, TypeInv, TypeOK
<1>3. CASE AlibsEnter(s)
  <2>1. CASE al' = [al EXCEPT ![s] = [al[s] EXCEPT !.pc = "loop", !.cwd = 2]]
    BY <1>1, <1>3, <2>1, GoesOnQuiet DEF AlibsEnter, Frame
  <2>2. CASE al' = [al EXCEPT ![s] = [al[s] EXCEPT !.pc = "loop", !.calm = FALSE]]
    BY <1>1, <1>3, <2>2, GoesOnQuiet DEF AlibsEnter, Frame
  <2>. QED
    BY <1>3, <2>1, <2>2 DEF AlibsEnter
<1>4. CASE AlibsDone(s) \/ AlibsInvalid(s)
  BY <1>1, <1>4, GoesOnQuiet DEF AlibsDone, AlibsInvalid, tree, Frame
<1>5. CASE AlibsList(s) \/ AlibsArRefuse(s)
  <2>1. CASE AlibsList(s)
    BY <1>1, <2>1, GoesOnQuiet DEF AlibsList, tree, Frame
  <2>2. CASE AlibsArRefuse(s)
    BY <1>1, <2>2, GoesOnQuiet DEF AlibsArRefuse, tree, Frame
  <2>. QED
    BY <1>5, <2>1, <2>2
<1>6. CASE AlibsUp(s)
  BY <1>1, <1>6 DEF AlibsUp, tree, Quiet, Frame, TypeInv, TypeOK
<1>. QED
  BY <1>2, <1>3, <1>4, <1>5, <1>6

LEMMA CpuLoad ==
    ASSUME TypeInv, CpuInv, NEW s \in Sessions, AlibsLoad(s)
    PROVE  CpuInv'
<1>1. EnvOk(Loaded(s))
  BY LoadedEnvOk, LoadedIncomplete DEF AlibsLoad, Loaded
<1>2. ASSUME NEW t \in Sessions PROVE FrameOk(al'[t])
  <2>1. al[t] \in Frame
    BY DEF TypeInv, TypeOK
  <2>2. /\ al'[t].mem = al[t].mem
        /\ t # s => al'[t].pc = al[t].pc /\ al'[t].env = al[t].env
        /\ t = s => al'[t].env = Loaded(s)
    BY <2>1 DEF AlibsLoad, Frame
  <2>. QED
    BY <1>1, <2>2 DEF CpuInv, FrameOk
<1>. QED
  BY <1>2 DEF AlibsLoad, tree, CpuInv

LEMMA CpuPrepare ==
    ASSUME TypeInv, CpuInv, NEW s \in Sessions, AlibsPrepare(s)
    PROVE  CpuInv'
<1>1. Quiet
  <2> DEFINE d == al[s].cwd + 1
             f == [al[s] EXCEPT !.pc = "compile", !.cwd = d]
             g == [al[s] EXCEPT !.pc = "compile", !.cwd = d, !.calm = FALSE]
             h == [al[s] EXCEPT !.pc = "compile", !.calm = FALSE]
  <2>1. al[s] \in Frame /\ al[s].pc \notin {"idle", "load"}
    BY DEF TypeInv, TypeOK, AlibsPrepare
  <2>2. al' \in {[al EXCEPT ![s] = f], [al EXCEPT ![s] = g], [al EXCEPT ![s] = h]}
    BY Zenon DEF AlibsPrepare
  <2>3. f.mem = al[s].mem /\ f.env = al[s].env
    BY <2>1 DEF Frame
  <2>4. g.mem = al[s].mem /\ g.env = al[s].env
    BY <2>1 DEF Frame
  <2>5. h.mem = al[s].mem /\ h.env = al[s].env
    BY <2>1 DEF Frame
  <2> HIDE DEF f, g, h
  <2>. QED
    BY <2>1, <2>2, <2>3, <2>4, <2>5, GoesOnQuiet
<1>2. objs' \subseteq objs /\ adeps' = adeps
  BY DEF AlibsPrepare, RemoveFolder
<1>. QED
  BY <1>1, <1>2, QuietKeeps DEF CpuInv

LEMMA CpuCompile ==
    ASSUME TypeInv, CpuInv, NEW s \in Sessions, AlibsCompile(s)
    PROVE  CpuInv'
<1>1. Quiet
  <2> DEFINE f == [al[s] EXCEPT !.pc = "list"]
             g == [al[s] EXCEPT !.pc = "list", !.calm = FALSE]
  <2>1. al[s] \in Frame /\ al[s].pc \notin {"idle", "load"}
    BY DEF TypeInv, TypeOK, AlibsCompile
  <2>2. al' \in {[al EXCEPT ![s] = f], [al EXCEPT ![s] = g]}
    BY DEF AlibsCompile
  <2>3. f.mem = al[s].mem /\ f.env = al[s].env
    BY <2>1 DEF Frame
  <2>4. g.mem = al[s].mem /\ g.env = al[s].env
    BY <2>1 DEF Frame
  <2> HIDE DEF f, g
  <2>. QED
    BY <2>1, <2>2, <2>3, <2>4, GoesOnQuiet
<1>2. EnvOk(al[s].env)
  BY DEF AlibsCompile, CpuInv, FrameOk
<1>3. PICK good \in SUBSET Compilable(s) :
        objs' = Replace(objs, {Compiled(s, u) : u \in good})
  BY DEF AlibsCompile
<1>4. \A u \in good : CpuOk(Compiled(s, u))
  BY <1>2, CompiledOk DEF TypeInv
<1>5. \A x \in objs' : CpuOk(x)
  BY <1>3, <1>4 DEF Replace, CpuInv
<1>. QED
  BY <1>1, <1>5, QuietKeeps DEF AlibsCompile, CpuInv

LEMMA CpuArRead ==
    ASSUME TypeInv, CpuInv, NEW s \in Sessions, AlibsArRead(s)
    PROVE  CpuInv'
<1> DEFINE new == Replace(InFolder(adeps, Out(s)), Given(s))
<1>1. \A x \in new : CpuOk(x)
  BY DEF Replace, InFolder, Given, OfLib, CpuInv
<1>2. ASSUME NEW t \in Sessions PROVE FrameOk(al'[t])
  <2>1. al[t] \in Frame /\ al \in [Sessions -> Frame]
    BY DEF TypeInv, TypeOK
  <2>2. t # s => al'[t] = al[t]
    BY <2>1 DEF AlibsArRead
  <2>3. t = s => /\ al'[t].mem \in {new, {}}
                 /\ al'[t].env = al[t].env
                 /\ al[t].pc = "arRead"
    BY <2>1 DEF AlibsArRead, Frame
  <2>. QED
    BY <1>1, <2>2, <2>3 DEF CpuInv, FrameOk
<1>. QED
  BY <1>2 DEF AlibsArRead, tree, CpuInv

LEMMA CpuArWrite ==
    ASSUME TypeInv, CpuInv, NEW s \in Sessions, AlibsArWrite(s)
    PROVE  CpuInv'
<1>1. Quiet
  <2>1. \A t \in Sessions : al[t] \in Frame
    BY DEF TypeInv, TypeOK
  <2>. QED
    BY <2>1 DEF AlibsArWrite, Quiet, Frame, TypeInv, TypeOK
<1>2. \A x \in adeps' : CpuOk(x)
  BY DEF AlibsArWrite, CpuInv, FrameOk
<1>. QED
  BY <1>1, <1>2, QuietKeeps DEF AlibsArWrite, CpuInv

LEMMA CpuStep == TypeInv /\ CpuInv /\ [Next]_vars => CpuInv'
<1> SUFFICES ASSUME TypeInv, CpuInv, [Next]_vars PROVE CpuInv'
  OBVIOUS
<1>1. ASSUME Quiet, objs' = objs, adeps' = adeps PROVE CpuInv'
  BY <1>1, QuietKeeps DEF CpuInv
<1>2. CASE User
  BY <1>1, <1>2, UserQuiet
<1>3. ASSUME NEW s \in Sessions, AlibsStep(s) PROVE CpuInv'
  BY <1>1, <1>3, LoopQuiet, CpuLoad, CpuPrepare, CpuCompile, CpuArRead, CpuArWrite
  DEF AlibsStep
<1>4. CASE UNCHANGED vars
  BY <1>4 DEF vars, tree, CpuInv
<1>. QED
  BY <1>2, <1>3, <1>4 DEF Next

\* The archive of a folder is for one cpu.
THEOREM ArchiveOneCpu == Spec => []OneCpuPerArchive
<1>1. Init => CpuInv
  BY DEF Init, CpuInv, FrameOk, IdleFrame
<1>2. CpuInv => OneCpuPerArchive
  BY DEF CpuInv, CpuOk, OneCpuPerArchive, SameCpu
<1>. QED
  BY <1>1, <1>2, TypeInvHolds, CpuStep, PTL DEF Spec
-----------------------------------------------------------------------------
(***************************************************************************)
(* The builds of one console implement the abstract archive, for any       *)
(* configs, command lines, failures, interruptions and updates.  Between   *)
(* the step in which ar reads the archive and the one in which it writes it*)
(* the invariant remembers what was read: nobody else is there to change   *)
(* it, which is where a second console would break the proof.              *)
(***************************************************************************)

Unique(A) == \A x, y \in A : SameFile(x, y) => x = y

\* The objects of the library that console s is building.
OfCurrent(s, G) ==
    \A y \in G : y.out = Out(s) /\ y.lib = Current(s) /\ y.lib \in Lib

\* The archive console s is about to write is the one on disk with the
\* objects G of one library put into it.
Staged(s, G) ==
    /\ Unique(G) /\ OfCurrent(s, G)
    /\ al[s].mem = Replace(InFolder(adeps, Out(s)), G)

StagedOk(s) == al[s].pc = "arWrite" /\ al[s].cwd = 3 => \E G : Staged(s, G)

FilesOk ==
    /\ Unique(objs) /\ Unique(adeps)
    /\ \A x \in objs : x.lib \in Lib

PutInv(s) == FilesOk /\ StagedOk(s)
-----------------------------------------------------------------------------
LEMMA UniqueReplace ==
    ASSUME NEW A, NEW N, Unique(A), Unique(N)
    PROVE  Unique(Replace(A, N))
  BY DEF Unique, Replace, SameFile

LEMMA UniqueCompiled ==
    ASSUME NEW s, NEW good
    PROVE  Unique({Compiled(s, u) : u \in good})
<1>1. \A u : Compiled(s, u).tu = u
  BY DEF Compiled
<1>. QED
  BY <1>1 DEF Unique, SameFile

\* A console that moves on with the archive on disk and in hand as they are,
\* or to a place where it has none in hand.
Idles(s) ==
    /\ objs' \subseteq objs /\ adeps' = adeps /\ made' = made
    /\ \/ al'[s].pc # "arWrite"
       \/ /\ al'[s].pc = al[s].pc /\ al'[s].cwd = al[s].cwd /\ al'[s].mem = al[s].mem
          /\ al'[s].env = al[s].env /\ al'[s].targets = al[s].targets
          /\ al'[s].at = al[s].at

LEMMA IdleKeeps ==
    ASSUME NEW s \in Sessions, PutInv(s), Idles(s)
    PROVE  PutInv(s)' /\ UNCHANGED <<adeps, made>>
<1>1. FilesOk'
  BY DEF PutInv, FilesOk, Unique, Idles
<1>2. CASE al'[s].pc # "arWrite"
  BY <1>1, <1>2 DEF PutInv, StagedOk, Idles
<1>3. CASE al'[s].pc = "arWrite"
  <2>1. Out(s)' = Out(s) /\ Current(s)' = Current(s) /\ al'[s].mem = al[s].mem
    BY <1>3 DEF Idles, Out, Current
  <2>2. ASSUME NEW G, Staged(s, G) PROVE Staged(s, G)'
    BY <2>1, <2>2 DEF Staged, OfCurrent, Idles
  <2>. QED
    BY <1>1, <1>3, <2>2 DEF PutInv, StagedOk, Idles
<1>. QED
  BY <1>2, <1>3 DEF Idles

LEMMA UserIdles ==
    ASSUME TypeInv, NEW s \in Sessions, Sessions = {s}, User
    PROVE  Idles(s)
<1>1. ASSUME Interrupt(s) PROVE Idles(s)
  BY <1>1 DEF Interrupt, tree, Idles, IdleFrame, TypeInv, TypeOK
<1>2. ASSUME NEW args \in LibArgs, RunAlibs(s, args) PROVE Idles(s)
  BY <1>2 DEF RunAlibs, tree, Idles, IdleFrame, TypeInv, TypeOK
<1>3. ASSUME NEW c \in DOMAIN Versions, NEW f \in Versions[c], EditConfig(c, f)
      PROVE  Idles(s)
  BY <1>3 DEF EditConfig, Idles
<1>4. ASSUME NEW l \in Updated, UpdateSource(l) PROVE Idles(s)
  BY <1>4 DEF UpdateSource, Idles, TypeInv, TypeOK, Frame
<1>. QED
  BY <1>1, <1>2, <1>3, <1>4 DEF User

LEMMA LoopIdles ==
    ASSUME TypeInv, NEW s \in Sessions,
           \/ AlibsLoad(s) \/ AlibsGiveUp(s) \/ AlibsEnter(s) \/ AlibsDone(s)
           \/ AlibsInvalid(s) \/ AlibsPrepare(s) \/ AlibsList(s)
           \/ AlibsArRefuse(s) \/ AlibsUp(s) \/ AlibsEnd(s)
    PROVE  Idles(s)
<1>0. \A t \in Sessions : al[t] \in Frame
  BY DEF TypeInv, TypeOK
<1>1. CASE AlibsLoad(s)
  BY <1>0, <1>1 DEF AlibsLoad, tree, Idles, Frame
<1>2. CASE AlibsGiveUp(s) \/ AlibsEnd(s)
  BY <1>2 DEF AlibsGiveUp, AlibsEnd, tree, Idles, IdleFrame, TypeInv, TypeOK
<1>3. CASE AlibsEnter(s)
  BY <1>0, <1>3 DEF AlibsEnter, Idles, Frame, TypeInv, TypeOK
<1>4. CASE AlibsDone(s) \/ AlibsInvalid(s)
  BY <1>0, <1>4 DEF AlibsDone, AlibsInvalid, tree, Idles, Frame, TypeInv, TypeOK
<1>5. CASE AlibsPrepare(s)
  <2>1. objs' \subseteq objs
    BY <1>5 DEF AlibsPrepare, RemoveFolder
  <2>2. al'[s].pc = "compile"
    <3>1. \/ al' = [al EXCEPT ![s] = [al[s] EXCEPT !.pc = "compile", !.cwd = al[s].cwd + 1]]
          \/ al' = [al EXCEPT ![s] = [al[s] EXCEPT !.pc = "compile",
                                         !.cwd = al[s].cwd + 1, !.calm = FALSE]]
          \/ al' = [al EXCEPT ![s] = [al[s] EXCEPT !.pc = "compile", !.calm = FALSE]]
      BY <1>5, Zenon DEF AlibsPrepare
    <3>2. CASE al' = [al EXCEPT ![s] = [al[s] EXCEPT !.pc = "compile", !.cwd = al[s].cwd + 1]]
      BY <1>0, <3>2 DEF Frame, TypeInv, TypeOK
    <3>3. CASE al' = [al EXCEPT ![s] = [al[s] EXCEPT !.pc = "compile",
                                          !.cwd = al[s].cwd + 1, !.calm = FALSE]]
      BY <1>0, <3>3 DEF Frame, TypeInv, TypeOK
    <3>4. CASE al' = [al EXCEPT ![s] = [al[s] EXCEPT !.pc = "compile", !.calm = FALSE]]
      BY <1>0, <3>4 DEF Frame, TypeInv, TypeOK
    <3>. QED
      BY <3>1, <3>2, <3>3, <3>4
  <2>. QED
    BY <1>5, <2>1, <2>2 DEF AlibsPrepare, Idles
<1>6. CASE AlibsList(s) \/ AlibsArRefuse(s) \/ AlibsUp(s)
  BY <1>0, <1>6 DEF AlibsList, AlibsArRefuse, AlibsUp, tree, Idles, Frame, TypeInv, TypeOK
<1>. QED
  BY <1>1, <1>2, <1>3, <1>4, <1>5, <1>6

LEMMA CompileKeeps ==
    ASSUME TypeInv, NEW s \in Sessions, PutInv(s), AlibsCompile(s)
    PROVE  PutInv(s)' /\ UNCHANGED <<adeps, made>>
<1>1. PICK good \in SUBSET Compilable(s) :
          objs' = Replace(objs, {Compiled(s, u) : u \in good})
  BY DEF AlibsCompile
<1>2. \A u \in good : Compiled(s, u).lib \in Lib
  BY UnitsType DEF Compilable, Compiled
<1>3. FilesOk'
  <2>1. Unique(objs)' /\ Unique(adeps)'
    BY <1>1, UniqueReplace, UniqueCompiled DEF PutInv, FilesOk, AlibsCompile, Unique
  <2>. QED
    BY <1>1, <1>2, <2>1 DEF PutInv, FilesOk, Replace
<1>4. al'[s].pc = "list"
  BY DEF AlibsCompile, TypeInv, TypeOK, Frame
<1>. QED
  BY <1>3, <1>4 DEF PutInv, StagedOk, AlibsCompile

LEMMA ArReadKeeps ==
    ASSUME TypeInv, NEW s \in Sessions, PutInv(s), AlibsArRead(s)
    PROVE  PutInv(s)' /\ UNCHANGED <<adeps, made>>
<1>1. PICK m : al' = [al EXCEPT ![s] = [@ EXCEPT !.pc = "arWrite", !.mem = m]]
               /\ m = IF al[s].cwd = 3
                      THEN Replace(InFolder(adeps, Out(s)), Given(s)) ELSE {}
  BY DEF AlibsArRead
<1>2. al[s] \in Frame
  BY DEF TypeInv, TypeOK
<1>3. al'[s].mem = m /\ al'[s].cwd = al[s].cwd
      /\ Out(s)' = Out(s) /\ Current(s)' = Current(s)
  BY <1>1, <1>2 DEF TypeInv, TypeOK, Out, Current, Frame
<1>4. FilesOk' /\ UNCHANGED <<adeps, made>>
  BY DEF PutInv, FilesOk, AlibsArRead, tree, Unique
<1>5. PICK G : G = Given(s)
  OBVIOUS
<1>6. Unique(G) /\ OfCurrent(s, G)
  BY <1>5 DEF PutInv, FilesOk, Unique, OfCurrent, Given, OfLib
<1>7. ASSUME al[s].cwd = 3 PROVE Staged(s, G)'
  <2>1. Unique(G)' /\ OfCurrent(s, G)'
    BY <1>3, <1>6 DEF OfCurrent, Unique
  <2>2. al'[s].mem = Replace(InFolder(adeps', Out(s)'), G)
    BY <1>1, <1>3, <1>4, <1>5, <1>7
  <2>. QED
    BY <2>1, <2>2 DEF Staged
<1>. QED
  BY <1>3, <1>4, <1>7 DEF PutInv, StagedOk

\* The step in which ar writes is a put of the current library.
LEMMA ArWritePuts ==
    ASSUME TypeInv, NEW s \in Sessions, PutInv(s), AlibsArWrite(s)
    PROVE  PutInv(s)' /\ [Puts!ArchiveNext]_(Puts!archive)
<1>1. al'[s].pc = "up"
  BY DEF AlibsArWrite, TypeInv, TypeOK, Frame
<1>2. CASE al[s].cwd # 3
  BY <1>1, <1>2 DEF AlibsArWrite, PutInv, FilesOk, StagedOk, Unique, Puts!archive
<1>3. CASE al[s].cwd = 3
  <2>1. PICK G : Staged(s, G)
    BY <1>3 DEF PutInv, StagedOk, AlibsArWrite
  <2>2. adeps' = Replace(adeps, G)
    BY <1>3, <2>1 DEF AlibsArWrite, Staged, OfCurrent, Replace, InFolder, SameFile
  <2>3. Unique(adeps)'
    BY <2>1, <2>2, UniqueReplace DEF PutInv, FilesOk, Staged, Unique
  <2>4. PutInv(s)'
    BY <1>1, <2>3 DEF PutInv, FilesOk, StagedOk, AlibsArWrite, Unique
  <2>5. made' = made \union {Out(s)}
    BY <1>3 DEF AlibsArWrite
  <2>6. PICK l \in Lib : \A y \in G : y.lib = l
    BY <2>1 DEF Staged, OfCurrent, Lib
  <2>7. \A x \in adeps \ adeps' :
            x.out = Out(s) /\ x.lib = l /\ \E y \in adeps' : SameFile(x, y)
    BY <2>1, <2>2, <2>6 DEF Staged, OfCurrent, Replace, SameFile
  <2>8. \A y \in adeps' \ adeps : y.out = Out(s) /\ y.lib = l
    BY <2>1, <2>2, <2>6 DEF Staged, OfCurrent, Replace
  <2>9. Puts!Put(Out(s), l)
    BY <2>3, <2>5, <2>7, <2>8 DEF Puts!Put, Puts!SameName, Unique, SameFile
  <2>. QED
    BY <2>4, <2>5, <2>9 DEF Puts!ArchiveNext
<1>. QED
  BY <1>2, <1>3

LEMMA PutStep ==
    ASSUME TypeInv, NEW s \in Sessions, Sessions = {s}, PutInv(s), [Next]_vars
    PROVE  PutInv(s)' /\ [Puts!ArchiveNext]_(Puts!archive)
<1>1. CASE User
  BY <1>1, UserIdles, IdleKeeps DEF Puts!archive
<1>2. CASE AlibsCompile(s)
  BY <1>2, CompileKeeps DEF Puts!archive
<1>3. CASE AlibsArRead(s)
  BY <1>3, ArReadKeeps DEF Puts!archive
<1>4. CASE AlibsArWrite(s)
  BY <1>4, ArWritePuts
<1>5. CASE \/ AlibsLoad(s) \/ AlibsGiveUp(s) \/ AlibsEnter(s) \/ AlibsDone(s)
           \/ AlibsInvalid(s) \/ AlibsPrepare(s) \/ AlibsList(s)
           \/ AlibsArRefuse(s) \/ AlibsUp(s) \/ AlibsEnd(s)
  BY <1>5, LoopIdles, IdleKeeps DEF Puts!archive
<1>6. CASE UNCHANGED vars
  <2>1. Idles(s)
    BY <1>6 DEF vars, tree, Idles
  <2>. QED
    BY <2>1, IdleKeeps DEF Puts!archive
<1>. QED
  BY <1>1, <1>2, <1>3, <1>4, <1>5, <1>6 DEF Next, AlibsStep

\* With one console, alibs.cmd implements the abstract archive: whatever fails
\* or is interrupted, an archive changes by one library at a time, has one
\* object of each name and keeps every name.
THEOREM PutsRefined ==
    ASSUME NEW s, Sessions = {s}
    PROVE  Spec => ArchiveSpecHolds
<1>1. Init => PutInv(s) /\ Puts!ArchiveInit
  <2>1. s \in Sessions
    OBVIOUS
  <2>. QED
    BY <2>1 DEF Init, PutInv, FilesOk, StagedOk, Unique, IdleFrame, Puts!ArchiveInit
<1>2. TypeInv /\ PutInv(s) /\ [Next]_vars => PutInv(s)' /\ [Puts!ArchiveNext]_(Puts!archive)
  BY PutStep
<1>. QED
  BY <1>1, <1>2, TypeInvHolds, PTL DEF Spec, ArchiveSpecHolds, Puts!ArchiveSpec
-----------------------------------------------------------------------------
(***************************************************************************)
(* What a run of alibs.cmd that nothing interferes with achieves, whatever *)
(* it finds in the out folder and whatever other consoles do elsewhere.    *)
(*                                                                         *)
(* The invariant follows one run block by block: what is in the library's  *)
(* folder, what is about to go into the archive, and which libraries are   *)
(* done.  Other consoles cannot undo it, for no undisturbed run shares its *)
(* folder with another one.                                                *)
(***************************************************************************)

\* What the compiler makes of the current library's units.
New(s) == {Compiled(s, u) : u \in Units(Current(s), al[s].env.var)}

\* The libraries behind the loop's position are right.
Past(s) == \A i \in DOMAIN al[s].targets : i < al[s].at => FreshLib(s, al[s].targets[i])

\* What an undisturbed run has achieved, block by block.
CalmRun(s) ==
    /\ al[s].targets # <<>>
    /\ InBody(s) => al[s].cwd = 3 /\ al[s].at \in DOMAIN al[s].targets
    /\ Past(s)
    /\ al[s].at > 1 => Out(s) \in made
    /\ al[s].pc = "compile" => OfLib(objs, Out(s), Current(s)) = {}
    /\ al[s].pc \in {"list", "arRead"} => OfLib(objs, Out(s), Current(s)) = New(s)
    /\ al[s].pc = "arRead" => al[s].names = Units(Current(s), al[s].env.var)
    /\ al[s].pc = "arWrite" => al[s].mem = Replace(InFolder(adeps, Out(s)), New(s))
    /\ al[s].pc = "up" => FreshLib(s, Current(s)) /\ Out(s) \in made

\* Runs that share a folder have disturbed each other.
Exclusive ==
    \A s, t \in Sessions :
        s # t /\ Running(s) /\ Running(t) /\ Out(s) = Out(t) => ~al[s].calm

\* The loop starts at the first name, and ar writes members of its folder.
Position(s) ==
    /\ al[s].at >= 1
    /\ al[s].pc = "load" => al[s].at = 1
    /\ al[s].pc = "arWrite" => \A x \in al[s].mem : x.out = Out(s)

CalmInv ==
    /\ Exclusive
    /\ \A s \in Sessions : Position(s)
    /\ \A s \in Sessions : Running(s) /\ al[s].calm => CalmRun(s)

Inv == TypeInv /\ CalmInv
-----------------------------------------------------------------------------
\* Facts about files.
LEMMA CompiledIs ==
    ASSUME NEW s, NEW u
    PROVE  /\ Compiled(s, u).out = Out(s) /\ Compiled(s, u).lib = Current(s)
           /\ Compiled(s, u).tu = u
  BY DEF Compiled

\* Adding a library's objects to an archive makes that library right ...
LEMMA ReplacedCurrent ==
    ASSUME NEW s, NEW A, NEW u \in Units(Current(s), al[s].env.var)
    PROVE  {x \in OfLib(Replace(A, New(s)), Out(s), Current(s)) : x.tu = u}
              = {Compiled(s, u)}
<1> DEFINE R == Replace(A, New(s))
<1>1. Compiled(s, u) \in OfLib(R, Out(s), Current(s)) /\ Compiled(s, u) \in New(s)
  BY CompiledIs DEF Replace, OfLib, New
<1>2. ASSUME NEW x \in R, x.out = Out(s), x.lib = Current(s), x.tu = u
      PROVE  x = Compiled(s, u)
  <2>1. SameFile(x, Compiled(s, u))
    BY <1>2, CompiledIs DEF SameFile
  <2>2. x \in New(s)
    BY <1>1, <1>2, <2>1 DEF Replace
  <2>. QED
    BY <1>2, <2>2, CompiledIs DEF New
<1>. QED
  BY <1>1, <1>2, CompiledIs DEF OfLib

\* ... and does nothing to another library.
LEMMA ReplacedOther ==
    ASSUME NEW s, NEW A, NEW l, l # Current(s)
    PROVE  OfLib(Replace(A, New(s)), Out(s), l) = OfLib(A, Out(s), l)
  BY CompiledIs DEF Replace, OfLib, New, SameFile

LEMMA OfLibInFolder ==
    ASSUME NEW A, NEW o, NEW l
    PROVE  OfLib(A, o, l) = OfLib(InFolder(A, o), o, l)
  BY DEF OfLib, InFolder

-----------------------------------------------------------------------------
\* A run that stays as it is keeps what it has achieved if the files of its
\* folder and the sources stay.
LEMMA Unmoved ==
    ASSUME NEW s \in Sessions, CalmRun(s),
           al'[s] = al[s], rev' = rev, made \subseteq made',
           InFolder(objs', Out(s)) = InFolder(objs, Out(s)),
           InFolder(adeps', Out(s)) = InFolder(adeps, Out(s))
    PROVE  CalmRun(s)'
<1>1. Out(s)' = Out(s) /\ Current(s)' = Current(s) /\ New(s)' = New(s)
  BY DEF Out, Current, New, Compiled
<1>2. \A l : /\ OfLib(objs', Out(s), l) = OfLib(objs, Out(s), l)
             /\ OfLib(adeps', Out(s), l) = OfLib(adeps, Out(s), l)
  BY OfLibInFolder
<1>3. \A l : FreshLib(s, l) <=> FreshLib(s, l)'
  BY <1>1, <1>2 DEF FreshLib, Fresh
<1>4. Past(s)'
  BY <1>3 DEF CalmRun, Past
<1>. QED
  BY <1>1, <1>2, <1>3, <1>4 DEF CalmRun, InBody

\* A step of console s: it touches the files of its own folder only, and does
\* not move the other runs.
Local(s) ==
    /\ rev' = rev /\ made \subseteq made'
    /\ \A o : o # Out(s) => /\ InFolder(objs', o) = InFolder(objs, o)
                           /\ InFolder(adeps', o) = InFolder(adeps, o)
    /\ \A t \in Sessions \ {s} : al'[t] = al[t]

LEMMA OthersKeep ==
    ASSUME CalmInv, NEW s \in Sessions, Running(s), Local(s), Running(s)' => Out(s)' = Out(s),
           Position(s)',
           Running(s)' /\ al'[s].calm => al[s].calm /\ CalmRun(s)'
    PROVE  CalmInv'
<1>1. \A t \in Sessions \ {s} : /\ Running(t)' = Running(t)
                              /\ Out(t)' = Out(t)
                              /\ al'[t].calm = al[t].calm
  BY DEF Local, Running, Out
<1>4. \A t \in Sessions \ {s} : Position(t)'
  BY <1>1 DEF CalmInv, Position, Local
<1>2. Exclusive'
  BY <1>1 DEF CalmInv, Exclusive
<1>3. ASSUME NEW t \in Sessions, t # s, Running(t), al[t].calm
      PROVE  CalmRun(t)'
  <2>1. Out(t) # Out(s)
    BY <1>3 DEF CalmInv, Exclusive
  <2>2. CalmRun(t)
    BY <1>3 DEF CalmInv
  <2>. QED
    BY <1>3, <2>1, <2>2, Unmoved DEF Local
<1>. QED
  BY <1>1, <1>2, <1>3, <1>4 DEF CalmInv

\* A step that moves a run to frame f and touches no file.
LEMMA FrameLocal ==
    ASSUME TypeInv, NEW s \in Sessions, NEW f, al' = [al EXCEPT ![s] = f],
           rev' = rev, made' = made, objs' = objs, adeps' = adeps
    PROVE  Local(s) /\ al'[s] = f
  BY DEF Local, TypeInv, TypeOK

\* A console that goes back to the prompt, or leaves it.
LEMMA Rests ==
    ASSUME TypeInv, CalmInv, NEW s \in Sessions, NEW f, al' = [al EXCEPT ![s] = f],
           f.pc \in {"idle", "load"}, f.at = 1,
           rev' = rev, made' = made, objs' = objs, adeps' = adeps
    PROVE  CalmInv'
<1>1. al'[s] = f /\ \A t \in Sessions \ {s} : al'[t] = al[t]
  BY DEF TypeInv, TypeOK
<1>2. ~Running(s)'
  BY <1>1 DEF Running
<1>3. \A t \in Sessions \ {s} : Running(t)' = Running(t) /\ Out(t)' = Out(t)
  BY <1>1 DEF Running, Out
<1>4. Exclusive'
  BY <1>1, <1>2, <1>3 DEF CalmInv, Exclusive
<1>5. ASSUME NEW t \in Sessions, t # s, Running(t), al[t].calm
      PROVE  CalmRun(t)'
  <2>1. CalmRun(t)
    BY <1>5 DEF CalmInv
  <2>. QED
    BY <1>1, <1>5, <2>1, Unmoved
<1>. QED
  BY <1>1, <1>2, <1>3, <1>4, <1>5 DEF CalmInv, Position

\* No console moves and no file of theirs changes.
LEMMA Stays ==
    ASSUME CalmInv, al' = al, rev' = rev, made' = made, objs' = objs, adeps' = adeps
    PROVE  CalmInv'
<1>1. \A t \in Sessions : Running(t)' = Running(t) /\ Out(t)' = Out(t)
  BY DEF Running, Out
<1>2. ASSUME NEW t \in Sessions, CalmRun(t) PROVE CalmRun(t)'
  BY <1>2, Unmoved
<1>. QED
  BY <1>1, <1>2 DEF CalmInv, Exclusive, Position

-----------------------------------------------------------------------------
\* Each action keeps the invariant.
LEMMA CalmLoad ==
    ASSUME Inv, NEW s \in Sessions, AlibsLoad(s)
    PROVE  CalmInv'
<1> DEFINE e == Loaded(s)
           T == TargetLibs(e.var, NameArgs(al[s].args))
           others == {t \in Sessions \ {s} : Running(t) /\ Out(t) = e.out}
<1>1. al[s] \in Frame /\ al[s].at = 1
  BY DEF AlibsLoad, Inv, CalmInv, Position, TypeInv, TypeOK
<1>2. T # <<>> /\ T \in Seq(Text)
  <2>1. NameArgs(al[s].args) \in Seq(Text)
    BY LoadedType DEF Inv, TypeInv
  <2>. QED
    BY <2>1, TargetLibsType
<1>3. /\ al'[s].pc = "enter" /\ al'[s].env = e /\ al'[s].targets = T
      /\ al'[s].at = 1
  BY <1>1 DEF AlibsLoad, Frame
<1>4. al'[s].calm => others = {}
  BY <1>1 DEF AlibsLoad, Frame
<1>5. \A t \in others : al'[t] = [al[t] EXCEPT !.calm = FALSE]
  BY DEF AlibsLoad
<1>6. \A t \in Sessions \ {s} : t \notin others => al'[t] = al[t]
  BY DEF AlibsLoad
<1>7. \A t \in Sessions \ {s} : /\ al'[t].env = al[t].env
                              /\ al'[t].at = al[t].at /\ al'[t].pc = al[t].pc
                              /\ al'[t].mem = al[t].mem
  <2>1. ASSUME NEW t \in others
        PROVE  /\ al'[t].env = al[t].env
               /\ al'[t].at = al[t].at /\ al'[t].pc = al[t].pc
               /\ al'[t].mem = al[t].mem
    <3>1. al[t] \in Frame
      BY DEF Inv, TypeInv, TypeOK
    <3>. QED
      BY <1>5, <3>1 DEF Frame
  <2> HIDE DEF others
  <2>. QED
    BY <1>6, <2>1
<1>8. ASSUME NEW t \in Sessions, t # s, al'[t].calm
       PROVE  al[t].calm /\ t \notin others
  <2>1. t \notin others
    <3>1. ASSUME t \in others PROVE ~al'[t].calm
      <4>1. al[t] \in Frame
        BY DEF Inv, TypeInv, TypeOK
      <4>. QED
        BY <1>5, <3>1, <4>1 DEF Frame
    <3>. QED
      BY <1>8, <3>1
  <2> HIDE DEF others
  <2>. QED
    BY <1>6, <1>8, <2>1
<1>9. \A t \in Sessions \ {s} : (Running(t)' <=> Running(t)) /\ Out(t)' = Out(t)
  BY <1>7 DEF Running, Out
<1>10. Running(s)' /\ Out(s)' = e.out
  BY <1>3 DEF Running, Out
<1>11. Exclusive'
  <2> SUFFICES ASSUME NEW a \in Sessions, NEW b \in Sessions, a # b,
                      Running(a)', Running(b)', Out(a)' = Out(b)', al'[a].calm
               PROVE  FALSE
    BY DEF Exclusive
  <2>1. CASE a = s
    <3>1. b \in others
      BY <1>9, <1>10, <2>1
    <3> HIDE DEF others
    <3>. QED
      BY <1>4, <2>1, <3>1
  <2>2. CASE b = s
    <3>1. a \in others
      BY <1>9, <1>10, <2>2
    <3> HIDE DEF others
    <3>. QED
      BY <1>8, <2>2, <3>1
  <2>3. CASE a # s /\ b # s
    <3> HIDE DEF others
    <3>1. Running(a) /\ Running(b) /\ Out(a) = Out(b) /\ al[a].calm
      BY <1>8, <1>9, <2>3
    <3>. QED
      BY <3>1 DEF Inv, CalmInv, Exclusive
  <2>. QED
    BY <2>1, <2>2, <2>3
<1>12. CalmRun(s)'
  <2> HIDE DEF T, others
  <2>1. \A i \in DOMAIN T : ~(i < 1)
    BY <1>2
  <2>2. Past(s)'
    BY <1>3, <2>1 DEF Past
  <2>. QED
    BY <1>2, <1>3, <2>2 DEF CalmRun, InBody
<1>13. ASSUME NEW t \in Sessions, t # s, Running(t)', al'[t].calm
       PROVE  CalmRun(t)'
  <2> HIDE DEF others
  <2>1. Running(t) /\ al[t].calm /\ t \notin others
    BY <1>8, <1>9, <1>13
  <2>2. CalmRun(t) /\ al'[t] = al[t]
    BY <1>6, <1>13, <2>1 DEF Inv, CalmInv
  <2>. QED
    BY <2>2, Unmoved DEF AlibsLoad, tree
<1>14. \A t \in Sessions : Position(t)'
  <2> HIDE DEF others, T
  <2>. QED
    BY <1>3, <1>7, <1>9 DEF Inv, CalmInv, Position
<1>. QED
  BY <1>11, <1>12, <1>13, <1>14 DEF CalmInv

LEMMA CalmRests ==
    ASSUME Inv, NEW s \in Sessions,
           AlibsGiveUp(s) \/ AlibsEnd(s) \/ Interrupt(s) \/ \E args \in LibArgs : RunAlibs(s, args)
    PROVE  CalmInv'
<1>1. IdleFrame.pc = "idle" /\ IdleFrame.at = 1
  BY DEF IdleFrame
<1>2. CASE AlibsGiveUp(s) \/ AlibsEnd(s) \/ Interrupt(s)
  BY <1>1, <1>2, Rests DEF AlibsGiveUp, AlibsEnd, Interrupt, tree, Inv
<1>3. ASSUME NEW args \in LibArgs, RunAlibs(s, args) PROVE CalmInv'
  <2> DEFINE f == [IdleFrame EXCEPT !.pc = "load", !.args = args]
  <2>1. f.pc = "load" /\ f.at = 1
    BY DEF IdleFrame
  <2>. QED
    BY <1>3, <2>1, Rests DEF RunAlibs, tree, Inv
<1>. QED
  BY <1>2, <1>3

\* Outside the body only the libraries behind the position count.
LEMMA Moved ==
    ASSUME NEW s \in Sessions, CalmRun(s),
           al'[s].pc \in {"enter", "loop", "end"}, al'[s].env = al[s].env,
           al'[s].at = al[s].at, al'[s].targets = al[s].targets,
           rev' = rev, made' = made, adeps' = adeps
    PROVE  CalmRun(s)'
<1>1. Out(s)' = Out(s)
  BY DEF Out
<1>2. \A l : FreshLib(s, l) <=> FreshLib(s, l)'
  BY <1>1 DEF FreshLib, Fresh
<1>3. Past(s)'
  BY <1>2 DEF CalmRun, Past
<1>. QED
  BY <1>1, <1>3 DEF CalmRun, InBody

\* A step of a running console that touches no file.
LEMMA FrameKeeps ==
    ASSUME Inv, NEW s \in Sessions, Running(s), NEW f, al' = [al EXCEPT ![s] = f],
           f.env = al[s].env, f.at >= 1, f.pc # "load",
           f.pc = "arWrite" => \A x \in f.mem : x.out = Out(s),
           rev' = rev, made' = made, objs' = objs, adeps' = adeps,
           f.calm => al[s].calm,
           f.calm /\ al'[s] = f /\ Out(s)' = Out(s) /\ CalmRun(s) => CalmRun(s)'
    PROVE  CalmInv'
<1>1. Local(s) /\ al'[s] = f
  BY FrameLocal DEF Inv
<1>2. Out(s)' = Out(s)
  BY <1>1 DEF Out
<1>3. al'[s].calm => al[s].calm /\ CalmRun(s)'
  BY <1>1, <1>2 DEF Inv, CalmInv
<1>4. Position(s)'
  BY <1>1, <1>2 DEF Position
<1>. QED
  BY <1>1, <1>2, <1>3, <1>4, OthersKeep DEF Inv

LEMMA CalmEnter ==
    ASSUME Inv, NEW s \in Sessions, AlibsEnter(s)
    PROVE  CalmInv'
<1>1. al[s] \in Frame /\ Position(s) /\ Running(s)
  BY DEF AlibsEnter, Running, Inv, TypeInv, TypeOK, CalmInv
<1>2. PICK f : /\ f \in {[al[s] EXCEPT !.pc = "loop", !.cwd = 2],
                        [al[s] EXCEPT !.pc = "loop", !.calm = FALSE]}
               /\ al' = [al EXCEPT ![s] = f]
  BY DEF AlibsEnter
<1>3. /\ f.pc = "loop" /\ f.env = al[s].env /\ f.at = al[s].at /\ f.targets = al[s].targets
  BY <1>1, <1>2 DEF Frame
<1>4. f.calm => al[s].calm
  BY <1>1, <1>2 DEF Frame
<1>5. ASSUME al'[s] = f, Out(s)' = Out(s), CalmRun(s)
      PROVE  CalmRun(s)'
  BY <1>3, <1>5, Moved DEF AlibsEnter
<1>. QED
  BY <1>1, <1>2, <1>3, <1>4, <1>5, FrameKeeps DEF AlibsEnter, Position

LEMMA CalmLoopEnds ==
    ASSUME Inv, NEW s \in Sessions, AlibsDone(s) \/ AlibsInvalid(s)
    PROVE  CalmInv'
<1>1. al[s] \in Frame /\ Position(s) /\ Running(s)
  BY DEF AlibsDone, AlibsInvalid, Running, Inv, TypeInv, TypeOK, CalmInv
<1> DEFINE f == [al[s] EXCEPT !.pc = "end"]
<1>2. al' = [al EXCEPT ![s] = f]
  BY DEF AlibsDone, AlibsInvalid
<1>3. /\ f.pc = "end" /\ f.env = al[s].env /\ f.at = al[s].at /\ f.targets = al[s].targets
  BY <1>1 DEF Frame
<1>4. f.calm => al[s].calm
  BY <1>1 DEF Frame
<1>5. rev' = rev /\ made' = made /\ objs' = objs /\ adeps' = adeps
  BY DEF AlibsDone, AlibsInvalid, tree
<1> HIDE DEF f
<1>6. ASSUME al'[s] = f, Out(s)' = Out(s), CalmRun(s)
      PROVE  CalmRun(s)'
  BY <1>3, <1>5, <1>6, Moved
<1>. QED
  BY <1>1, <1>2, <1>3, <1>4, <1>5, <1>6, FrameKeeps DEF Position

\* Preparing the folder of a library leaves it empty.
LEMMA CalmPrepare ==
    ASSUME Inv, NEW s \in Sessions, AlibsPrepare(s)
    PROVE  CalmInv'
<1>1. al[s] \in Frame /\ Position(s) /\ Running(s) /\ al[s].cwd = 2
  BY DEF AlibsPrepare, FolderSeen, Running, Inv, TypeInv, TypeOK, CalmInv
<1>2. PICK f : /\ f \in {[al[s] EXCEPT !.pc = "compile", !.cwd = al[s].cwd + 1],
                        [al[s] EXCEPT !.pc = "compile", !.cwd = al[s].cwd + 1, !.calm = FALSE],
                        [al[s] EXCEPT !.pc = "compile", !.calm = FALSE]}
               /\ al' = [al EXCEPT ![s] = f]
  BY Zenon DEF AlibsPrepare
<1>3. /\ f.pc = "compile" /\ f.env = al[s].env /\ f.at = al[s].at
      /\ f.targets = al[s].targets
  BY <1>1, <1>2 DEF Frame
<1>4. f.calm => al[s].calm /\ f.cwd = 3
  <2>1. al[s].cwd + 1 = 3
    BY <1>1
  <2>2. ASSUME f.calm PROVE f = [al[s] EXCEPT !.pc = "compile", !.cwd = 3]
    BY <1>1, <1>2, <2>1, <2>2 DEF Frame
  <2>. QED
    BY <1>1, <2>2 DEF Frame
<1>5. al'[s] = f /\ \A t \in Sessions \ {s} : al'[t] = al[t]
  BY <1>2 DEF Inv, TypeInv, TypeOK
<1>6. Out(s)' = Out(s) /\ Current(s)' = Current(s)
  BY <1>3, <1>5 DEF Out, Current
<1>7. \A o : o # Out(s) => InFolder(objs', o) = InFolder(objs, o)
  BY DEF AlibsPrepare, RemoveFolder, InFolder, OfLib
<1>8. Local(s)
  BY <1>5, <1>7 DEF AlibsPrepare, Local
<1>9. Position(s)'
  BY <1>1, <1>3, <1>5 DEF Position
<1>10. ASSUME f.calm PROVE CalmRun(s)'
  <2>1. OfLib(objs', Out(s), Current(s)) = {}
    <3>1. RemoveFolder(s)
      <4>1. ~([al[s] EXCEPT !.pc = "compile", !.calm = FALSE].calm)
        BY <1>1 DEF Frame
      <4>2. ~([al[s] EXCEPT !.pc = "compile", !.cwd = al[s].cwd + 1, !.calm = FALSE].calm)
        BY <1>1 DEF Frame
      <4>. QED
        BY <1>5, <1>10, <4>1, <4>2 DEF AlibsPrepare, Inv, TypeInv, TypeOK
    <3>. QED
      BY <1>1, <3>1 DEF RemoveFolder, OfLib
  <2>2. CalmRun(s)
    BY <1>1, <1>4, <1>10 DEF Inv, CalmInv
  <2>3. al[s].at \in DOMAIN al[s].targets
    BY <1>1 DEF AlibsPrepare, Position, Frame
  <2>4. \A l : FreshLib(s, l) <=> FreshLib(s, l)'
    BY <1>3, <1>5, <1>6 DEF AlibsPrepare, FreshLib, Fresh
  <2>5. Past(s)'
    BY <1>3, <1>5, <2>2, <2>4 DEF CalmRun, Past
  <2>. QED
    BY <1>3, <1>4, <1>5, <1>6, <1>10, <2>1, <2>2, <2>3, <2>5 DEF AlibsPrepare, CalmRun, InBody
<1>. QED
  BY <1>1, <1>4, <1>5, <1>6, <1>8, <1>9, <1>10, OthersKeep DEF Inv

\* Compiling an empty folder's units leaves exactly their objects there.
LEMMA CalmCompile ==
    ASSUME Inv, NEW s \in Sessions, AlibsCompile(s)
    PROVE  CalmInv'
<1>1. al[s] \in Frame /\ Position(s) /\ Running(s)
  BY DEF AlibsCompile, Running, Inv, TypeInv, TypeOK, CalmInv
<1>2. PICK good \in SUBSET Compilable(s) :
        /\ objs' = Replace(objs, {Compiled(s, u) : u \in good})
        /\ \/ good = Compilable(s) /\ al' = [al EXCEPT ![s] = [@ EXCEPT !.pc = "list"]]
           \/ al' = [al EXCEPT ![s] = [@ EXCEPT !.pc = "list", !.calm = FALSE]]
  BY DEF AlibsCompile
<1>3. PICK f : /\ \/ f = [al[s] EXCEPT !.pc = "list"] /\ good = Compilable(s)
                  \/ f = [al[s] EXCEPT !.pc = "list", !.calm = FALSE]
               /\ al' = [al EXCEPT ![s] = f]
  BY <1>2
<1>4. /\ f.pc = "list" /\ f.env = al[s].env /\ f.at = al[s].at
      /\ f.targets = al[s].targets /\ f.cwd = al[s].cwd
  BY <1>1, <1>3 DEF Frame
<1>5. f.calm => al[s].calm /\ good = Compilable(s)
  BY <1>1, <1>3 DEF Frame
<1>6. al'[s] = f /\ \A t \in Sessions \ {s} : al'[t] = al[t]
  BY <1>3 DEF Inv, TypeInv, TypeOK
<1>7. Out(s)' = Out(s) /\ Current(s)' = Current(s)
  BY <1>4, <1>6 DEF Out, Current
<1>8. \A o : o # Out(s) => InFolder(objs', o) = InFolder(objs, o)
  BY <1>2, CompiledIs DEF InFolder, Replace, SameFile
<1>9. Local(s)
  BY <1>6, <1>8 DEF AlibsCompile, Local
<1>10. Position(s)'
  BY <1>1, <1>4, <1>6 DEF Position
<1>11. ASSUME f.calm PROVE CalmRun(s)'
  <2>1. CalmRun(s) /\ al[s].cwd = 3 /\ OfLib(objs, Out(s), Current(s)) = {}
    BY <1>1, <1>5, <1>11 DEF Inv, CalmInv, CalmRun, InBody, AlibsCompile
  <2>2. objs' = Replace(objs, New(s))
    BY <1>2, <1>5, <1>11, <2>1 DEF Compilable, New
  <2>3. OfLib(objs', Out(s), Current(s)) = New(s)
    BY <2>1, <2>2, CompiledIs DEF OfLib, Replace, New
  <2>4. New(s)' = New(s)
    BY <1>4, <1>6, <1>7 DEF New, Compiled, AlibsCompile
  <2>5. \A l : FreshLib(s, l) <=> FreshLib(s, l)'
    BY <1>4, <1>6, <1>7 DEF AlibsCompile, FreshLib, Fresh
  <2>6. Past(s)'
    BY <1>4, <1>6, <2>1, <2>5 DEF CalmRun, Past
  <2>. QED
    BY <1>4, <1>6, <1>7, <2>1, <2>3, <2>4, <2>6 DEF AlibsCompile, CalmRun, InBody
<1>. QED
  BY <1>1, <1>5, <1>6, <1>7, <1>9, <1>10, <1>11, OthersKeep DEF Inv

\* Listing the folder names the library's units.
LEMMA CalmList ==
    ASSUME Inv, NEW s \in Sessions, AlibsList(s)
    PROVE  CalmInv'
<1>1. al[s] \in Frame /\ Position(s) /\ Running(s)
  BY DEF AlibsList, Running, Inv, TypeInv, TypeOK, CalmInv
<1> DEFINE f == [al[s] EXCEPT !.pc = "arRead", !.names = Listed(s)]
<1>2. al' = [al EXCEPT ![s] = f]
  BY DEF AlibsList
<1>3. /\ f.pc = "arRead" /\ f.env = al[s].env /\ f.at = al[s].at
      /\ f.targets = al[s].targets /\ f.cwd = al[s].cwd /\ f.names = Listed(s)
  BY <1>1 DEF Frame
<1>4. f.calm => al[s].calm
  BY <1>1 DEF Frame
<1>5. rev' = rev /\ made' = made /\ objs' = objs /\ adeps' = adeps
  BY DEF AlibsList, tree
<1> HIDE DEF f
<1>6. ASSUME al'[s] = f, Out(s)' = Out(s), CalmRun(s)
      PROVE  CalmRun(s)'
  <2>1. /\ al[s].cwd = 3 /\ al[s].at \in DOMAIN al[s].targets
        /\ OfLib(objs, Out(s), Current(s)) = New(s)
    BY <1>6 DEF CalmRun, InBody, AlibsList
  <2>2. Listed(s) = Units(Current(s), al[s].env.var)
    BY <2>1, CompiledIs DEF Listed, New
  <2>3. New(s)' = New(s) /\ Current(s)' = Current(s)
    BY <1>3, <1>5, <1>6 DEF New, Compiled, Current
  <2>4. \A l : FreshLib(s, l) <=> FreshLib(s, l)'
    BY <1>3, <1>5, <1>6 DEF FreshLib, Fresh
  <2>5. Past(s)'
    BY <1>3, <1>6, <2>4 DEF CalmRun, Past
  <2>. QED
    BY <1>3, <1>5, <1>6, <2>1, <2>2, <2>3, <2>5 DEF CalmRun, InBody
<1>. QED
  BY <1>1, <1>2, <1>3, <1>4, <1>5, <1>6, FrameKeeps DEF Position

\* ar reads all of the folder, and an archive of its own folder.
LEMMA CalmArRead ==
    ASSUME Inv, NEW s \in Sessions, AlibsArRead(s)
    PROVE  CalmInv'
<1>1. al[s] \in Frame /\ Position(s) /\ Running(s)
  BY DEF AlibsArRead, Running, Inv, TypeInv, TypeOK, CalmInv
<1> DEFINE m == IF al[s].cwd = 3
                THEN Replace(InFolder(adeps, Out(s)), Given(s))
                ELSE {}
           f == [al[s] EXCEPT !.pc = "arWrite", !.mem = m]
<1>2. al' = [al EXCEPT ![s] = f]
  BY DEF AlibsArRead
<1>3. /\ f.pc = "arWrite" /\ f.env = al[s].env /\ f.at = al[s].at
      /\ f.targets = al[s].targets /\ f.cwd = al[s].cwd /\ f.mem = m
  BY <1>1 DEF Frame
<1>4. f.calm => al[s].calm
  BY <1>1 DEF Frame
<1>5. rev' = rev /\ made' = made /\ objs' = objs /\ adeps' = adeps
  BY DEF AlibsArRead, tree
<1>6. \A x \in m : x.out = Out(s)
  BY DEF Replace, InFolder, Given, OfLib
<1> HIDE DEF f
<1>7. ASSUME al'[s] = f, Out(s)' = Out(s), CalmRun(s)
      PROVE  CalmRun(s)'
  <2>1. /\ al[s].cwd = 3 /\ al[s].at \in DOMAIN al[s].targets
        /\ OfLib(objs, Out(s), Current(s)) = New(s)
        /\ al[s].names = Units(Current(s), al[s].env.var)
    BY <1>7 DEF CalmRun, InBody, AlibsArRead
  <2>2. Given(s) = New(s)
    BY <2>1, CompiledIs DEF Given, New
  <2>3. m = Replace(InFolder(adeps, Out(s)), New(s))
    BY <2>1, <2>2
  <2> HIDE DEF m
  <2>4. New(s)' = New(s) /\ Current(s)' = Current(s)
    BY <1>3, <1>5, <1>7 DEF New, Compiled, Current
  <2>5. \A l : FreshLib(s, l) <=> FreshLib(s, l)'
    BY <1>3, <1>5, <1>7 DEF FreshLib, Fresh
  <2>6. Past(s)'
    BY <1>3, <1>7, <2>5 DEF CalmRun, Past
  <2>. QED
    BY <1>3, <1>5, <1>7, <2>1, <2>3, <2>4, <2>6 DEF CalmRun, InBody
<1> HIDE DEF m
<1>. QED
  BY <1>1, <1>2, <1>3, <1>4, <1>5, <1>6, <1>7, FrameKeeps DEF Position

\* An undisturbed run is never refused: the files ar was given are still there.
LEMMA CalmArRefuse ==
    ASSUME Inv, NEW s \in Sessions, AlibsArRefuse(s)
    PROVE  CalmInv'
<1>1. al[s] \in Frame /\ Position(s) /\ Running(s)
  BY DEF AlibsArRefuse, Running, Inv, TypeInv, TypeOK, CalmInv
<1> DEFINE f == [al[s] EXCEPT !.pc = "up"]
<1>2. al' = [al EXCEPT ![s] = f]
  BY DEF AlibsArRefuse
<1>3. f.pc = "up" /\ f.env = al[s].env /\ f.at = al[s].at
  BY <1>1 DEF Frame
<1>4. f.calm => al[s].calm
  BY <1>1 DEF Frame
<1>5. rev' = rev /\ made' = made /\ objs' = objs /\ adeps' = adeps
  BY DEF AlibsArRefuse, tree
<1>6. ~CalmRun(s)
  BY CompiledIs DEF CalmRun, AlibsArRefuse, Given, New
<1> HIDE DEF f
<1>. QED
  BY <1>1, <1>2, <1>3, <1>4, <1>5, <1>6, FrameKeeps DEF Position

\* Writing the archive makes the current library right in it and leaves the
\* others as they are.
LEMMA CalmArWrite ==
    ASSUME Inv, NEW s \in Sessions, AlibsArWrite(s)
    PROVE  CalmInv'
<1>1. al[s] \in Frame /\ Position(s) /\ Running(s)
  BY DEF AlibsArWrite, Running, Inv, TypeInv, TypeOK, CalmInv
<1> DEFINE f == [al[s] EXCEPT !.pc = "up"]
<1>2. al' = [al EXCEPT ![s] = f]
  BY DEF AlibsArWrite
<1>3. /\ f.pc = "up" /\ f.env = al[s].env /\ f.at = al[s].at
      /\ f.targets = al[s].targets /\ f.cwd = al[s].cwd
  BY <1>1 DEF Frame
<1>4. f.calm => al[s].calm
  BY <1>1 DEF Frame
<1> HIDE DEF f
<1>5. al'[s] = f /\ \A t \in Sessions \ {s} : al'[t] = al[t]
  BY <1>2 DEF Inv, TypeInv, TypeOK
<1>6. Out(s)' = Out(s) /\ Current(s)' = Current(s)
  BY <1>3, <1>5 DEF Out, Current
<1>7. \A x \in al[s].mem : x.out = Out(s)
  BY <1>1 DEF Position, AlibsArWrite
<1>8. /\ \A o : o # Out(s) => InFolder(adeps', o) = InFolder(adeps, o)
      /\ rev' = rev /\ objs' = objs /\ made \subseteq made'
  BY <1>7 DEF AlibsArWrite, InFolder
<1>9. Local(s)
  BY <1>5, <1>8 DEF Local
<1>10. Position(s)'
  BY <1>1, <1>3, <1>5 DEF Position
<1>11. ASSUME f.calm PROVE CalmRun(s)'
  <2>1. /\ CalmRun(s) /\ al[s].cwd = 3 /\ al[s].at \in DOMAIN al[s].targets
        /\ al[s].mem = Replace(InFolder(adeps, Out(s)), New(s))
    BY <1>1, <1>4, <1>11 DEF Inv, CalmInv, CalmRun, InBody, AlibsArWrite
  <2>2. \A l : OfLib(adeps', Out(s), l) = OfLib(al[s].mem, Out(s), l)
    BY <2>1 DEF AlibsArWrite, OfLib, InFolder
  <2>3. \A l : l # Current(s) => OfLib(adeps', Out(s), l) = OfLib(adeps, Out(s), l)
    BY <2>1, <2>2, ReplacedOther, OfLibInFolder
  <2>4. FreshLib(s, Current(s))'
    <3> SUFFICES ASSUME NEW u \in Units(Current(s), al[s].env.var)
                 PROVE  Fresh(s, Current(s), u)'
      BY <1>3, <1>5, <1>6 DEF FreshLib
    <3>1. {x \in OfLib(adeps', Out(s), Current(s)) : x.tu = u} = {Compiled(s, u)}
      BY <2>1, <2>2, ReplacedCurrent
    <3>. QED
      BY <1>3, <1>5, <1>6, <1>8, <3>1 DEF Fresh, Compiled
  <2>5. ASSUME NEW l, FreshLib(s, l) PROVE FreshLib(s, l)'
    <3>1. CASE l = Current(s)
      BY <1>6, <2>4, <3>1
    <3>2. CASE l # Current(s)
      BY <1>3, <1>5, <1>6, <1>8, <2>3, <2>5, <3>2 DEF FreshLib, Fresh
    <3>. QED
      BY <3>1, <3>2
  <2>6. Past(s)'
    BY <1>3, <1>5, <2>1, <2>5 DEF CalmRun, Past
  <2>7. Out(s) \in made'
    BY <2>1 DEF AlibsArWrite
  <2>. QED
    BY <1>3, <1>5, <1>6, <2>1, <2>4, <2>6, <2>7 DEF CalmRun, InBody
<1>. QED
  BY <1>1, <1>4, <1>5, <1>6, <1>9, <1>10, <1>11, OthersKeep DEF Inv

LEMMA CalmUp ==
    ASSUME Inv, NEW s \in Sessions, AlibsUp(s)
    PROVE  CalmInv'
<1>1. al[s] \in Frame /\ Position(s) /\ Running(s) /\ al[s].at \in Nat
  BY DEF AlibsUp, Running, Inv, TypeInv, TypeOK, CalmInv, Frame
<1> DEFINE n == al[s].at + 1
           d == al[s].cwd - 1
           f == [al[s] EXCEPT !.pc = "loop", !.cwd = d, !.at = n, !.names = {}, !.mem = {}]
<1>2. al' = [al EXCEPT ![s] = f]
  BY Zenon DEF AlibsUp
<1>3. /\ f.pc = "loop" /\ f.env = al[s].env /\ f.at = n /\ f.targets = al[s].targets
  <2> HIDE DEF n, d
  <2>. QED
    BY <1>1 DEF Frame
<1>4. f.calm => al[s].calm
  <2> HIDE DEF n, d
  <2>. QED
    BY <1>1 DEF Frame
<1>5. rev' = rev /\ made' = made /\ objs' = objs /\ adeps' = adeps
  BY DEF AlibsUp, tree
<1> HIDE DEF f
<1>6. ASSUME al'[s] = f, Out(s)' = Out(s), CalmRun(s)
      PROVE  CalmRun(s)'
  <2>1. FreshLib(s, Current(s)) /\ Out(s) \in made /\ Past(s)
    BY <1>6 DEF CalmRun, AlibsUp
  <2>2. \A l : FreshLib(s, l) <=> FreshLib(s, l)'
    BY <1>3, <1>5, <1>6 DEF FreshLib, Fresh
  <2>3. ASSUME NEW i \in DOMAIN al[s].targets, i < n
        PROVE  FreshLib(s, al[s].targets[i])
    <3>1. al[s].targets \in Seq(Text)
      BY <1>1 DEF Frame
    <3>2. i \in Nat
      BY <3>1
    <3>3. i < al[s].at \/ i = al[s].at
      BY <1>1, <2>3, <3>2
    <3>. QED
      BY <2>1, <3>3 DEF Past, Current
  <2>4. Past(s)'
    BY <1>3, <1>6, <2>2, <2>3 DEF Past
  <2>. QED
    BY <1>3, <1>5, <1>6, <2>1, <2>4 DEF CalmRun, InBody
<1>7. n >= 1
  BY <1>1
<1> HIDE DEF n
<1>. QED
  BY <1>1, <1>2, <1>3, <1>4, <1>5, <1>6, <1>7, FrameKeeps

\* New sources disturb every run.
LEMMA CalmUpdate ==
    ASSUME Inv, NEW l \in Updated, UpdateSource(l)
    PROVE  CalmInv'
<1>1. \A t \in Sessions : /\ al'[t].pc = al[t].pc /\ al'[t].env = al[t].env
                         /\ al'[t].at = al[t].at /\ al'[t].mem = al[t].mem
  BY DEF UpdateSource, Inv, TypeInv, TypeOK, Frame
<1>2. \A t \in Sessions : ~(Running(t)' /\ al'[t].calm)
  BY DEF UpdateSource, Inv, TypeInv, TypeOK, Frame, Running
<1>3. \A t \in Sessions : Position(t)'
  BY <1>1 DEF Inv, CalmInv, Position, Out
<1>. QED
  BY <1>2, <1>3 DEF CalmInv, Exclusive

LEMMA CalmInit == Init => CalmInv
  BY DEF Init, IdleFrame, CalmInv, Exclusive, Position, Running

LEMMA InvStep == Inv /\ [Next]_vars => Inv'
<1> SUFFICES ASSUME Inv, [Next]_vars PROVE CalmInv'
  BY TypeStep DEF Inv
<1>1. CASE User
  <2>1. ASSUME NEW c \in DOMAIN Versions, NEW f \in Versions[c], EditConfig(c, f)
        PROVE  CalmInv'
    BY <2>1, Stays DEF EditConfig, Inv
  <2>. QED
    BY <1>1, <2>1, CalmRests, CalmUpdate DEF User
<1>2. ASSUME NEW s \in Sessions, AlibsStep(s) PROVE CalmInv'
  BY <1>2, CalmLoad, CalmRests, CalmEnter, CalmLoopEnds, CalmPrepare, CalmCompile,
     CalmList, CalmArRead, CalmArRefuse, CalmArWrite, CalmUp
  DEF AlibsStep
<1>3. CASE UNCHANGED vars
  BY <1>3, Stays DEF vars, tree, Inv
<1>. QED
  BY <1>1, <1>2, <1>3 DEF Next

LEMMA InvHolds == Spec => []Inv
<1>1. Init => Inv
  BY TypeInit, CalmInit DEF Inv
<1>. QED
  BY <1>1, InvStep, PTL DEF Spec

-----------------------------------------------------------------------------
\* At the end of its loop an undisturbed run has all of its libraries behind it.
LEMMA InvRepairs == Inv => CalmRunRepairs
<1> SUFFICES ASSUME Inv, NEW s \in Sessions, al[s].pc = "end", al[s].calm,
                    al[s].at > Len(al[s].targets)
             PROVE  /\ Out(s) \in made
                    /\ \A i \in DOMAIN al[s].targets : FreshLib(s, al[s].targets[i])
  BY DEF CalmRunRepairs
<1>1. al[s].targets \in Seq(Text) /\ al[s].at \in Nat
  BY DEF Inv, TypeInv, TypeOK, Frame
<1>2. al[s].targets # <<>> /\ Past(s) /\ (al[s].at > 1 => Out(s) \in made)
  BY DEF Inv, CalmInv, CalmRun, Running
<1>3. Len(al[s].targets) >= 1 /\ al[s].at > 1
  BY <1>1, <1>2
<1>4. \A i \in DOMAIN al[s].targets : i < al[s].at
  BY <1>1
<1>. QED
  BY <1>2, <1>3, <1>4 DEF Past

\* A run of alibs.cmd that nothing interfered with leaves an archive with, for
\* every library it was to build, each object once, from the current sources
\* and with its settings, whatever was in the folder before.
THEOREM CalmRepairs == Spec => []CalmRunRepairs
  BY InvHolds, InvRepairs, PTL

\* A step of one console leaves the others where they are.
LEMMA OtherPc ==
    ASSUME TypeInv, NEW t \in Sessions, AlibsStep(t), NEW s \in Sessions, s # t
    PROVE  al'[s].pc = al[s].pc
<1>1. al[s] \in Frame
  BY DEF TypeInv, TypeOK
<1>2. CASE AlibsLoad(t)
  BY <1>1, <1>2 DEF AlibsLoad, Frame
<1>3. CASE AlibsPrepare(t)
  BY <1>3 DEF AlibsPrepare, TypeInv, TypeOK
<1>4. CASE AlibsGiveUp(t) \/ AlibsEnter(t) \/ AlibsDone(t) \/ AlibsInvalid(t) \/ AlibsEnd(t)
  BY <1>4 DEF AlibsGiveUp, AlibsEnter, AlibsDone, AlibsInvalid, AlibsEnd, TypeInv, TypeOK
<1>5. CASE AlibsCompile(t) \/ AlibsList(t) \/ AlibsArRead(t) \/ AlibsArRefuse(t)
  BY <1>5 DEF AlibsCompile, AlibsList, AlibsArRead, AlibsArRefuse, TypeInv, TypeOK
<1>6. CASE AlibsArWrite(t) \/ AlibsUp(t)
  BY <1>6 DEF AlibsArWrite, AlibsUp, TypeInv, TypeOK
<1>. QED
  BY <1>2, <1>3, <1>4, <1>5, <1>6 DEF AlibsStep

\* Only the run's own write takes it from there on, and that write replaces
\* members of the current library alone.
THEOREM MembersStay == Spec => MembersKept
<1> DEFINE Keeps(s) == al[s].pc = "arWrite" /\ al[s].calm /\ al'[s].pc = "up"
                       => \A x \in InFolder(adeps, Out(s)) : \E y \in adeps' : SameFile(x, y)
<1>1. Inv /\ [Next]_vars => [\A s \in Sessions : Keeps(s)]_vars
  <2> SUFFICES ASSUME Inv, Next, NEW s \in Sessions,
                      al[s].pc = "arWrite", al[s].calm, al'[s].pc = "up",
                      NEW x \in InFolder(adeps, Out(s))
               PROVE  \E y \in adeps' : SameFile(x, y)
    OBVIOUS
  <2>1. AlibsArWrite(s)
    <3>1. ~User
      <4>1. ASSUME NEW t \in Sessions,
                   Interrupt(t) \/ \E args \in LibArgs : RunAlibs(t, args)
            PROVE  al'[s].pc \in {al[s].pc, "idle", "load"}
        <5>1. IdleFrame.pc = "idle"
          BY DEF IdleFrame
        <5>2. \A args : [IdleFrame EXCEPT !.pc = "load", !.args = args].pc = "load"
          BY DEF IdleFrame
        <5>3. CASE Interrupt(t)
          BY <5>1, <5>3 DEF Interrupt, Inv, TypeInv, TypeOK
        <5>4. ASSUME NEW args \in LibArgs, RunAlibs(t, args)
              PROVE  al'[s].pc \in {al[s].pc, "load"}
          BY <5>2, <5>4 DEF RunAlibs, Inv, TypeInv, TypeOK
        <5>. QED
          BY <4>1, <5>3, <5>4
      <4>2. ASSUME NEW l, UpdateSource(l) PROVE al'[s].pc = al[s].pc
        BY <4>2 DEF UpdateSource, Inv, TypeInv, TypeOK, Frame
      <4>. QED
        BY <4>1, <4>2 DEF User, EditConfig
    <3>2. PICK t \in Sessions : AlibsStep(t)
      BY <3>1 DEF Next
    <3>3. t = s
      BY <3>2, OtherPc DEF Inv
    <3>. QED
      BY <3>2, <3>3 DEF AlibsStep, AlibsLoad, AlibsGiveUp, AlibsEnter, AlibsDone,
                        AlibsInvalid, AlibsPrepare, AlibsCompile, AlibsList, AlibsArRead,
                        AlibsArRefuse, AlibsUp, AlibsEnd
  <2>2. al[s].cwd = 3 /\ al[s].mem = Replace(InFolder(adeps, Out(s)), New(s))
    BY DEF Inv, CalmInv, CalmRun, InBody, Running
  <2>3. adeps' = (adeps \ InFolder(adeps, Out(s))) \union Replace(InFolder(adeps, Out(s)), New(s))
    BY <2>1, <2>2 DEF AlibsArWrite
  <2>. QED
    BY <2>3 DEF Replace, SameFile
<1>. QED
  BY InvHolds, <1>1, PTL DEF Spec, MembersKept
=============================================================================
