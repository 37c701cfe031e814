---------------------------- MODULE SetLdrProofs ----------------------------
(***************************************************************************)
(* _setldr.cmd does what LoadSettings says, for all config files and all   *)
(* environments it may be called in.                                       *)
(***************************************************************************)
EXTENDS SetLdr, SettingsTheorems

\* What the lines of the whole file make of the environment of the call.
Whole == LoadedVars(entry.var, file, Len(file))

\* How far the call has come, block by block.
Progress ==
    /\ ln # 0 => file = Files[arg]
    /\ pc # "idle" => ln # 0
    /\ pc = "read" => /\ var = LoadedVars(entry.var, file, ln - 1)
                      /\ flags = {"base"}
                      /\ out = entry.out
    /\ pc \in {"platform", "out"} => MustHave(Whole) /\ flags = GenericFlags(Whole)
    /\ pc = "platform" => var = Whole
    /\ pc = "out" => var = ResolvePlatform(Whole)
    /\ LoadsSettings

Inv == TypeOK /\ Progress

LEMMA EnvType ==
    env \in Env <=> /\ var \in [Key -> Text]
                    /\ flags \in SUBSET Flag
                    /\ out \in OutName
  BY DEF env, Env

LEMMA FlagsType ==
    ASSUME NEW v
    PROVE  GenericFlags(v) \in SUBSET Flag /\ "base" \in GenericFlags(v)
  BY DEF GenericFlags, Flag

\* The flags do not depend on the platform.
LEMMA FlagsOfResolved ==
    ASSUME NEW v \in [Key -> Text]
    PROVE  GenericFlags(ResolvePlatform(v)) = GenericFlags(v)
<1>1. \A k \in {"LIBAROMA_DEBUG", "LIBAROMA_WARNINGS", "LIBAROMA_CPU",
                "LIBAROMA_NOWINCONSOLE"} : ResolvePlatform(v)[k] = v[k]
  BY DEF ResolvePlatform, AndroidOnLinux, Key
<1>. QED
  BY <1>1 DEF GenericFlags

\* A line that is not ignored assigns what the definition of LoadedVars says.
LEMMA AssignedLine ==
    ASSUME NEW l \in Line, NEW k \in Key, var \in [Key -> Text], ~Ignored(l)
    PROVE  /\ Assigned(l) \in [Key -> Text]
           /\ Assigned(l)[k] = IF l.key.text = k THEN l.val.text ELSE var[k]
<1>1. TextOf(Trim(l.key)) = l.key.text /\ TextOf(Trim(l.val)) = l.val.text
  BY DEF TextOf, Trim, Line, Token
<1>2. l.val.text \in Text
  BY DEF Line, Token
<1>. QED
  BY <1>1, <1>2 DEF Assigned

LEMMA Start == Init => Inv
<1> SUFFICES ASSUME Init PROVE Inv
  OBVIOUS
<1>1. PICK e \in ConsoleEnvs : var = e.var /\ flags = e.flags /\ out = e.out /\ entry = e
  BY DEF Init
<1>2. entry \in Env /\ env \in Env
  BY <1>1, ConsoleAssumption DEF Env, env
<1>3. <<>> \in ConfigFile /\ Len(<<>>) = 0
  BY DEF ConfigFile
<1>4. TypeOK
  <2>1. pc = "idle" /\ arg = "" /\ file = <<>> /\ failed \in BOOLEAN
    BY DEF Init
  <2>2. ln \in 0 .. Len(file) + 1
    <3>1. ln = 0 /\ Len(file) = 0
      BY <1>3 DEF Init
    <3>. QED
      BY <3>1
  <2>. QED
    BY <1>2, <1>3, <2>1, <2>2, FilesAssumption DEF TypeOK
<1>5. Progress
  BY DEF Init, Progress, LoadsSettings, Returned
<1>. QED
  BY <1>4, <1>5 DEF Inv

LEMMA CallStep ==
    ASSUME Inv, NEW a \in DOMAIN Files, Call(a)
    PROVE  Inv'
<1>1. /\ Files[a] \in ConfigFile /\ Len(Files[a]) \in Nat
      /\ env \in Env
  <2>1. Files[a] \in ConfigFile
    BY FilesAssumption
  <2>2. Len(Files[a]) \in Nat
    BY <2>1 DEF ConfigFile
  <2>. QED
    BY <2>1, <2>2 DEF Inv, TypeOK
<1>2. TypeOK'
  <2>1. env' \in Env
    BY <1>1 DEF Call, Flag, env, Env
  <2>2. ln' \in 0 .. Len(file') + 1
    BY <1>1 DEF Call
  <2>3. entry' \in Env
    BY <1>1 DEF Call
  <2>. QED
    BY <1>1, <2>1, <2>2, <2>3 DEF Call, TypeOK
<1>3. var' = LoadedVars(entry'.var, file', ln' - 1)
  <2>1. entry'.var = var /\ ln' - 1 = 0 /\ var' = var /\ var \in [Key -> Text]
    BY <1>1 DEF Call, env, Env
  <2>. QED
    BY <2>1, NoLine
<1>4. out' = entry'.out
  BY DEF Call, env
<1>. QED
  BY <1>2, <1>3, <1>4 DEF Call, Inv, Progress, LoadsSettings, Returned

LEMMA SkipStep ==
    ASSUME Inv, SkipLine
    PROVE  Inv'
<1>1. /\ file \in ConfigFile /\ Len(file) \in Nat /\ ln \in 1 .. Len(file)
      /\ entry.var \in [Key -> Text]
  BY DEF SkipLine, Inv, TypeOK, Progress, ConfigFile, Env
<1>2. TypeOK'
  BY <1>1, EnvType DEF SkipLine, Inv, TypeOK, env
<1>3. LoadedVars(entry.var, file, ln) = LoadedVars(entry.var, file, ln - 1)
  <2>1. \A k \in Key : LoadedVars(entry.var, file, ln)[k] =
                       LoadedVars(entry.var, file, ln - 1)[k]
    <3> SUFFICES ASSUME NEW k \in Key
                 PROVE  LoadedVars(entry.var, file, ln)[k] =
                        LoadedVars(entry.var, file, ln - 1)[k]
      OBVIOUS
    <3>1. ~(~file[ln].comment /\ file[ln].key.text = k /\ file[ln].val.text # "")
      BY DEF SkipLine, Ignored
    <3>. QED
      BY <1>1, <3>1, NextLine
  <2>. QED
    BY <2>1 DEF LoadedVars
<1>4. ln' - 1 = ln
  BY <1>1 DEF SkipLine
<1>. QED
  BY <1>1, <1>2, <1>3, <1>4 DEF SkipLine, Inv, Progress, LoadsSettings, Returned

LEMMA SetStep ==
    ASSUME Inv, SetLine
    PROVE  Inv'
<1> DEFINE l == file[ln]
<1>1. /\ file \in ConfigFile /\ Len(file) \in Nat /\ ln \in 1 .. Len(file)
      /\ entry.var \in [Key -> Text] /\ var \in [Key -> Text]
  BY EnvType DEF SetLine, Inv, TypeOK, Progress, ConfigFile, Env
<1>2. l \in Line /\ ~Ignored(l) /\ var' = Assigned(l)
  BY <1>1 DEF SetLine, ConfigFile
<1>3. var' \in [Key -> Text]
  BY <1>1, <1>2, AssignedLine DEF Key
<1>4. TypeOK'
  BY <1>1, <1>3, EnvType DEF SetLine, Inv, TypeOK, env, Env
<1>5. var' = LoadedVars(entry.var, file, ln)
  <2>1. \A k \in Key : var'[k] = LoadedVars(entry.var, file, ln)[k]
    <3> SUFFICES ASSUME NEW k \in Key
                 PROVE  var'[k] = LoadedVars(entry.var, file, ln)[k]
      OBVIOUS
    <3>1. var'[k] = IF l.key.text = k THEN l.val.text ELSE var[k]
      BY <1>1, <1>2, AssignedLine
    <3>2. var[k] = LoadedVars(entry.var, file, ln - 1)[k]
      BY DEF SetLine, Inv, Progress
    <3>3. l.val.text # "" /\ ~l.comment
      BY <1>2 DEF Ignored
    <3>4. LoadedVars(entry.var, file, ln)[k] =
            IF ~l.comment /\ l.key.text = k /\ l.val.text # "" THEN l.val.text
            ELSE LoadedVars(entry.var, file, ln - 1)[k]
      BY <1>1, NextLine
    <3> HIDE DEF l
    <3>. QED
      BY <3>1, <3>2, <3>3, <3>4
  <2>2. LoadedVars(entry.var, file, ln) \in [Key -> Text]
    BY <1>1, LoadedVarsType
  <2>. QED
    BY <1>3, <2>1, <2>2
<1>6. ln' - 1 = ln
  BY <1>1 DEF SetLine
<1>. QED
  BY <1>1, <1>4, <1>5, <1>6 DEF SetLine, Inv, Progress, LoadsSettings, Returned

\* After the last line, the variables are those of the whole file.
LEMMA AllRead ==
    ASSUME Inv, pc = "read", ln > Len(file)
    PROVE  var = Whole
<1>1. Len(file) \in Nat /\ ln \in 0 .. Len(file) + 1
  BY DEF Inv, TypeOK, ConfigFile
<1>2. ln - 1 = Len(file)
  BY <1>1
<1>. QED
  BY <1>2 DEF Inv, Progress, Whole

LEMMA FailStep ==
    ASSUME Inv, Fail
    PROVE  Inv'
<1>1. var = Whole /\ ~MustHave(Whole)
  BY AllRead DEF Fail
<1>2. env' = LoadSettings(entry, file, arg)
  BY <1>1 DEF Fail, Inv, Progress, LoadSettings, Whole, env
<1>3. TypeOK'
  BY EnvType DEF Fail, Inv, TypeOK, env
<1>. QED
  BY <1>2, <1>3 DEF Fail, Inv, Progress, LoadsSettings, Returned

LEMMA SetFlagsStep ==
    ASSUME Inv, SetFlags
    PROVE  Inv'
<1>1. var = Whole /\ MustHave(Whole)
  BY AllRead DEF SetFlags
<1>2. flags' = GenericFlags(Whole)
  BY <1>1, FlagsType DEF SetFlags, Inv, Progress
<1>3. TypeOK'
  BY <1>2, FlagsType, EnvType DEF SetFlags, Inv, TypeOK, env, Env
<1>4. Whole' = Whole
  BY DEF SetFlags, Whole
<1>. QED
  BY <1>1, <1>2, <1>3, <1>4 DEF SetFlags, Inv, Progress, LoadsSettings, Returned

LEMMA SetPlatformStep ==
    ASSUME Inv, SetPlatform
    PROVE  Inv'
<1>1. var = Whole /\ var \in [Key -> Text]
  BY EnvType DEF SetPlatform, Inv, TypeOK, Progress
<1>2. var' \in [Key -> Text]
  BY <1>1, TextAssumption DEF SetPlatform, ResolvePlatform, AndroidOnLinux
<1>3. TypeOK'
  BY <1>2, EnvType DEF SetPlatform, Inv, TypeOK, env, Env
<1>4. Whole' = Whole
  BY DEF SetPlatform, Whole
<1>. QED
  BY <1>1, <1>3, <1>4 DEF SetPlatform, Inv, Progress, LoadsSettings, Returned

LEMMA SetOutStep ==
    ASSUME Inv, SetOut
    PROVE  Inv'
<1>1. var = ResolvePlatform(Whole) /\ MustHave(Whole) /\ flags = GenericFlags(Whole)
  BY DEF SetOut, Inv, Progress
<1>2. Whole \in [Key -> Text]
  <2>1. Len(file) \in 0 .. Len(file)
    BY DEF Inv, TypeOK, ConfigFile
  <2>. QED
    BY <2>1, LoadedVarsType DEF Inv, TypeOK, Env, Whole
<1>3. flags = GenericFlags(var)
  BY <1>1, <1>2, FlagsOfResolved
<1>4. env' = LoadSettings(entry, file, arg)
  <2>1. LoadSettings(entry, file, arg) = Finish(Whole, arg)
    BY <1>1 DEF LoadSettings, Whole
  <2>. QED
    BY <1>1, <1>3, <2>1 DEF SetOut, Finish, env
<1>5. TypeOK'
  <2>1. env' \in Env
    BY <1>4, LoadSettingsType, FilesAssumption DEF Inv, TypeOK
  <2>. QED
    BY <2>1 DEF SetOut, Inv, TypeOK
<1>. QED
  BY <1>4, <1>5 DEF SetOut, Inv, Progress, LoadsSettings, Returned

LEMMA Stutter ==
    ASSUME Inv, UNCHANGED vars
    PROVE  Inv'
  BY DEF vars, env, Inv, TypeOK, Progress, Whole, LoadsSettings, Returned

LEMMA InvHolds == Spec => []Inv
<1>1. Inv /\ [Next]_vars => Inv'
  <2> SUFFICES ASSUME Inv, [Next]_vars PROVE Inv'
    OBVIOUS
  <2>1. CASE \E a \in DOMAIN Files : Call(a)
    BY <2>1, CallStep
  <2>2. CASE Load
    BY <2>2, SkipStep, SetStep, FailStep, SetFlagsStep, SetPlatformStep, SetOutStep
    DEF Load
  <2>3. CASE UNCHANGED vars
    BY <2>3, Stutter
  <2>. QED
    BY <2>1, <2>2, <2>3 DEF Next
<1>. QED
  BY Start, <1>1, PTL DEF Spec

\* The loader's state has its type, for all config files and consoles.
THEOREM TypeCorrect == Spec => []TypeOK
<1>1. Inv => TypeOK
  BY DEF Inv
<1>. QED
  BY InvHolds, <1>1, PTL

\* Line by line, the script computes LoadSettings, whatever it inherits.
THEOREM LoaderCorrect == Spec => []LoadsSettings
<1>1. Inv => LoadsSettings
  BY DEF Inv, Progress
<1>. QED
  BY InvHolds, <1>1, PTL

\* Loading once more would change nothing, if no config file sets the variable
\* the loader derives.
THEOREM LoaderStable ==
    ASSUME \A c \in DOMAIN Files : LeavesDerived(Files[c])
    PROVE  Spec => []ReloadIsStable
<1>1. Inv => ReloadIsStable
  BY ReloadStable DEF Inv, TypeOK, Progress, LoadsSettings, ReloadIsStable, Returned
<1>. QED
  BY InvHolds, <1>1, PTL
=============================================================================
