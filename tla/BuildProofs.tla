---------------------------- MODULE BuildProofs ----------------------------
(***************************************************************************)
(* What the chain atest.cmd -> abuild.cmd -> alibs.cmd never does, and what*)
(* it achieves, for any number of consoles, any config files and command   *)
(* lines, and any number of failures, interruptions and updates.           *)
(***************************************************************************)
EXTENDS Build, AlibsProofs

-----------------------------------------------------------------------------
(***************************************************************************)
(* The types.  A script loads the config its argument names, so that the   *)
(* argument has to be a config's name, which is more than a text.          *)
(***************************************************************************)
ArgsNamed ==
    \A s \in Sessions : ab[s].arg \in DOMAIN Versions /\ tst[s].arg \in DOMAIN Versions

BuildTypeInv == BuildTypeOK /\ BodyDepth /\ ArgsNamed

\* Its parts: alibs.cmd's half (TypeInv), the runs of the two callers, the files.
AbType ==
    /\ ab \in [Sessions -> AbuildFrame]
    /\ \A s \in Sessions : ab[s].arg \in DOMAIN Versions

TstType ==
    /\ tst \in [Sessions -> AtestFrame]
    /\ \A s \in Sessions : tst[s].arg \in DOMAIN Versions

FilesType ==
    /\ aobjs \subseteq AromaObj /\ laroma \subseteq AromaObj
    /\ lmade \subseteq OutName /\ bins \subseteq Program

LEMMA BuildTypeParts == BuildTypeInv <=> TypeInv /\ AbType /\ TstType /\ FilesType
  BY DEF BuildTypeInv, BuildTypeOK, TypeInv, AbType, TstType, ArgsNamed, FilesType

LEMMA EmptyEnvType == EmptyEnv \in Env
  BY TextAssumption DEF EmptyEnv, Env, NoOut, OutName

LEMMA NoAbuildType == NoAbuild \in AbuildFrame /\ NoAbuild.arg \in DOMAIN Versions
  BY EmptyEnvType, TextAssumption, VersionsAssumption DEF NoAbuild, AbuildFrame, AbuildPC

LEMMA NoAtestType == NoAtest \in AtestFrame /\ NoAtest.arg \in DOMAIN Versions
  BY EmptyEnvType, TextAssumption, VersionsAssumption DEF NoAtest, AtestFrame, AtestPC

\* Disturbing runs changes nothing else about them.
LEMMA DisturbedAbuild ==
    ASSUME NEW F \in [Sessions -> AbuildFrame], NEW D,
           NEW G, G = Disturb(F, D)
    PROVE  /\ G \in [Sessions -> AbuildFrame]
           /\ \A t \in Sessions :
                /\ G[t].pc = F[t].pc /\ G[t].arg = F[t].arg /\ G[t].env = F[t].env
                /\ G[t].in = F[t].in /\ G[t].scratch = F[t].scratch
                /\ G[t].calm => F[t].calm /\ (t \in D => F[t].pc = "idle")
<1>1. ASSUME NEW t \in Sessions
      PROVE  /\ G[t] \in AbuildFrame
             /\ G[t].pc = F[t].pc /\ G[t].arg = F[t].arg /\ G[t].env = F[t].env
             /\ G[t].in = F[t].in /\ G[t].scratch = F[t].scratch
             /\ G[t].calm => F[t].calm /\ (t \in D => F[t].pc = "idle")
  <2>1. F[t] \in AbuildFrame
    OBVIOUS
  <2>2. CASE t \in D /\ F[t].pc # "idle"
    <3>1. G[t] = [F[t] EXCEPT !.calm = FALSE]
      BY <2>2 DEF Disturb
    <3>. QED
      BY <2>1, <2>2, <3>1 DEF AbuildFrame
  <2>3. CASE ~(t \in D /\ F[t].pc # "idle")
    BY <2>1, <2>3 DEF Disturb
  <2>. QED
    BY <2>2, <2>3
<1>2. G = [t \in Sessions |-> G[t]]
  BY DEF Disturb
<1>. QED
  BY <1>1, <1>2

LEMMA DisturbedAtest ==
    ASSUME NEW F \in [Sessions -> AtestFrame], NEW D,
           NEW G, G = Disturb(F, D)
    PROVE  /\ G \in [Sessions -> AtestFrame]
           /\ \A t \in Sessions :
                /\ G[t].pc = F[t].pc /\ G[t].arg = F[t].arg /\ G[t].env = F[t].env
                /\ G[t].app = F[t].app /\ G[t].linked = F[t].linked
                /\ G[t].scratch = F[t].scratch
                /\ G[t].calm => F[t].calm /\ (t \in D => F[t].pc = "idle")
<1>1. ASSUME NEW t \in Sessions
      PROVE  /\ G[t] \in AtestFrame
             /\ G[t].pc = F[t].pc /\ G[t].arg = F[t].arg /\ G[t].env = F[t].env
             /\ G[t].app = F[t].app /\ G[t].linked = F[t].linked
             /\ G[t].scratch = F[t].scratch
             /\ G[t].calm => F[t].calm /\ (t \in D => F[t].pc = "idle")
  <2>1. F[t] \in AtestFrame
    OBVIOUS
  <2>2. CASE t \in D /\ F[t].pc # "idle"
    <3>1. G[t] = [F[t] EXCEPT !.calm = FALSE]
      BY <2>2 DEF Disturb
    <3>. QED
      BY <2>1, <2>2, <3>1 DEF AtestFrame
  <2>3. CASE ~(t \in D /\ F[t].pc # "idle")
    BY <2>1, <2>3 DEF Disturb
  <2>. QED
    BY <2>2, <2>3
<1>2. G = [t \in Sessions |-> G[t]]
  BY DEF Disturb
<1>. QED
  BY <1>1, <1>2

\* The runs that a step leaves where they are; it may disturb them.
SameAb(t) ==
    /\ ab'[t].pc = ab[t].pc /\ ab'[t].arg = ab[t].arg /\ ab'[t].env = ab[t].env
    /\ ab'[t].in = ab[t].in /\ ab'[t].scratch = ab[t].scratch
    /\ ab'[t].calm => ab[t].calm

SameTst(t) ==
    /\ tst'[t].pc = tst[t].pc /\ tst'[t].arg = tst[t].arg /\ tst'[t].env = tst[t].env
    /\ tst'[t].linked = tst[t].linked /\ tst'[t].scratch = tst[t].scratch
    /\ tst'[t].calm => tst[t].calm

\* The run of console s is now at p, with the argument a, the environment e and
\* so on, and disturbed unless c; the others stay.
AbTo(s, p, a, e, i, k, c) ==
    /\ AbType'
    /\ ab'[s].pc = p /\ ab'[s].arg = a /\ ab'[s].env = e
    /\ ab'[s].in = i /\ ab'[s].scratch = k
    /\ ab'[s].calm => c
    /\ \A t \in Sessions \ {s} : SameAb(t)

TstTo(s, p, a, e, l, k, c) ==
    /\ TstType'
    /\ tst'[s].pc = p /\ tst'[s].arg = a /\ tst'[s].env = e
    /\ tst'[s].linked = l /\ tst'[s].scratch = k
    /\ tst'[s].calm => c
    /\ \A t \in Sessions \ {s} : SameTst(t)

AbStays == AbType' /\ \A t \in Sessions : SameAb(t)
TstStays == TstType' /\ \A t \in Sessions : SameTst(t)

LEMMA AbMoves ==
    ASSUME AbType, NEW s \in Sessions, NEW f \in AbuildFrame, f.arg \in DOMAIN Versions, NEW D,
           \/ ab' = [ab EXCEPT ![s] = f]
           \/ ab' = Disturb([ab EXCEPT ![s] = f], D)
    PROVE  AbTo(s, f.pc, f.arg, f.env, f.in, f.scratch, f.calm)
<1>1. PICK F : F = [ab EXCEPT ![s] = f]
  OBVIOUS
<1>2. /\ F \in [Sessions -> AbuildFrame]
      /\ F[s] = f /\ \A t \in Sessions \ {s} : F[t] = ab[t]
  BY <1>1 DEF AbType
<1>3. CASE ab' = F
  BY <1>2, <1>3 DEF AbTo, AbType, SameAb
<1>4. CASE ab' = Disturb(F, D)
  <2>1. /\ ab' \in [Sessions -> AbuildFrame]
        /\ \A t \in Sessions :
             /\ ab'[t].pc = F[t].pc /\ ab'[t].arg = F[t].arg /\ ab'[t].env = F[t].env
             /\ ab'[t].in = F[t].in /\ ab'[t].scratch = F[t].scratch
             /\ ab'[t].calm => F[t].calm
    BY <1>2, <1>4, DisturbedAbuild
  <2>. QED
    BY <1>2, <2>1 DEF AbTo, AbType, SameAb
<1>. QED
  BY <1>1, <1>3, <1>4

LEMMA TstMoves ==
    ASSUME TstType, NEW s \in Sessions, NEW f \in AtestFrame, f.arg \in DOMAIN Versions, NEW D,
           \/ tst' = [tst EXCEPT ![s] = f]
           \/ tst' = Disturb([tst EXCEPT ![s] = f], D)
    PROVE  TstTo(s, f.pc, f.arg, f.env, f.linked, f.scratch, f.calm)
<1>1. PICK F : F = [tst EXCEPT ![s] = f]
  OBVIOUS
<1>2. /\ F \in [Sessions -> AtestFrame]
      /\ F[s] = f /\ \A t \in Sessions \ {s} : F[t] = tst[t]
  BY <1>1 DEF TstType
<1>3. CASE tst' = F
  BY <1>2, <1>3 DEF TstTo, TstType, SameTst
<1>4. CASE tst' = Disturb(F, D)
  <2>1. /\ tst' \in [Sessions -> AtestFrame]
        /\ \A t \in Sessions :
             /\ tst'[t].pc = F[t].pc /\ tst'[t].arg = F[t].arg /\ tst'[t].env = F[t].env
             /\ tst'[t].linked = F[t].linked /\ tst'[t].scratch = F[t].scratch
             /\ tst'[t].calm => F[t].calm
    BY <1>2, <1>4, DisturbedAtest
  <2>. QED
    BY <1>2, <2>1 DEF TstTo, TstType, SameTst
<1>. QED
  BY <1>1, <1>3, <1>4

LEMMA AbRests ==
    ASSUME AbType, NEW D, ab' = ab \/ ab' = Disturb(ab, D)
    PROVE  AbStays
<1>1. CASE ab' = ab
  BY <1>1 DEF AbStays, AbType, SameAb
<1>2. CASE ab' = Disturb(ab, D)
  <2>1. /\ ab' \in [Sessions -> AbuildFrame]
        /\ \A t \in Sessions :
             /\ ab'[t].pc = ab[t].pc /\ ab'[t].arg = ab[t].arg /\ ab'[t].env = ab[t].env
             /\ ab'[t].in = ab[t].in /\ ab'[t].scratch = ab[t].scratch
             /\ ab'[t].calm => ab[t].calm
    BY <1>2, DisturbedAbuild DEF AbType
  <2>. QED
    BY <2>1 DEF AbStays, AbType, SameAb
<1>. QED
  BY <1>1, <1>2

LEMMA TstRests ==
    ASSUME TstType, NEW D, tst' = tst \/ tst' = Disturb(tst, D)
    PROVE  TstStays
<1>1. CASE tst' = tst
  BY <1>1 DEF TstStays, TstType, SameTst
<1>2. CASE tst' = Disturb(tst, D)
  <2>1. /\ tst' \in [Sessions -> AtestFrame]
        /\ \A t \in Sessions :
             /\ tst'[t].pc = tst[t].pc /\ tst'[t].arg = tst[t].arg /\ tst'[t].env = tst[t].env
             /\ tst'[t].linked = tst[t].linked /\ tst'[t].scratch = tst[t].scratch
             /\ tst'[t].calm => tst[t].calm
    BY <1>2, DisturbedAtest DEF TstType
  <2>. QED
    BY <2>1 DEF TstStays, TstType, SameTst
<1>. QED
  BY <1>1, <1>2

-----------------------------------------------------------------------------
(***************************************************************************)
(* What each action of the two callers does to the runs.                   *)
(***************************************************************************)
AbGoes(s, p) == AbTo(s, p, ab[s].arg, ab[s].env, ab[s].in, ab[s].scratch, ab[s].calm)
TstGoes(s, p) ==
    TstTo(s, p, tst[s].arg, tst[s].env, tst[s].linked, tst[s].scratch, tst[s].calm)

AbResets(s) == AbTo(s, "idle", "", EmptyEnv, FALSE, FALSE, TRUE)
TstResets(s) == TstTo(s, "idle", "", EmptyEnv, FALSE, FALSE, TRUE)

\* The settings that the runs of console s load.
AbLoaded(s) == LoadSettings(ab[s].env, cfg[ab[s].arg], ab[s].arg)
TstLoaded(s) == LoadSettings(tst[s].env, cfg[tst[s].arg], tst[s].arg)

LEMMA BuildLoadedType ==
    ASSUME BuildTypeInv, NEW s \in Sessions
    PROVE  AbLoaded(s) \in Env /\ TstLoaded(s) \in Env
<1>1. /\ ab[s].env \in Env /\ ab[s].arg \in DOMAIN Versions
      /\ tst[s].env \in Env /\ tst[s].arg \in DOMAIN Versions
  BY BuildTypeParts DEF AbType, TstType, AbuildFrame, AtestFrame
<1>2. /\ cfg[ab[s].arg] \in ConfigFile /\ ab[s].arg \in Text
      /\ cfg[tst[s].arg] \in ConfigFile /\ tst[s].arg \in Text
  BY <1>1, BuildTypeParts, VersionsAssumption DEF TypeInv, TypeOK
<1>. QED
  BY <1>1, <1>2, LoadSettingsType DEF AbLoaded, TstLoaded

LEMMA AbPc ==
    ASSUME AbType, NEW s \in Sessions, NEW p \in AbuildPC, ab' = [ab EXCEPT ![s].pc = p]
    PROVE  AbGoes(s, p)
<1>1. ab[s] \in AbuildFrame /\ ab[s].arg \in DOMAIN Versions
  BY DEF AbType
<1>2. PICK f : f = [ab[s] EXCEPT !.pc = p]
  OBVIOUS
<1>3. /\ f \in AbuildFrame /\ f.pc = p /\ f.arg = ab[s].arg /\ f.env = ab[s].env
      /\ f.in = ab[s].in /\ f.scratch = ab[s].scratch /\ f.calm = ab[s].calm
  BY <1>1, <1>2 DEF AbuildFrame
<1>4. ab' = [ab EXCEPT ![s] = f]
  BY <1>2
<1>. QED
  BY <1>1, <1>3, <1>4, AbMoves DEF AbGoes

LEMMA TstPc ==
    ASSUME TstType, NEW s \in Sessions, NEW p \in AtestPC, tst' = [tst EXCEPT ![s].pc = p]
    PROVE  TstGoes(s, p)
<1>1. tst[s] \in AtestFrame /\ tst[s].arg \in DOMAIN Versions
  BY DEF TstType
<1>2. PICK f : f = [tst[s] EXCEPT !.pc = p]
  OBVIOUS
<1>3. /\ f \in AtestFrame /\ f.pc = p /\ f.arg = tst[s].arg /\ f.env = tst[s].env
      /\ f.linked = tst[s].linked /\ f.scratch = tst[s].scratch /\ f.calm = tst[s].calm
  BY <1>1, <1>2 DEF AtestFrame
<1>4. tst' = [tst EXCEPT ![s] = f]
  BY <1>2
<1>. QED
  BY <1>1, <1>3, <1>4, TstMoves DEF TstGoes

LEMMA AbReset ==
    ASSUME AbType, NEW s \in Sessions, ab' = [ab EXCEPT ![s] = NoAbuild]
    PROVE  AbResets(s)
<1>1. /\ NoAbuild.pc = "idle" /\ NoAbuild.arg = "" /\ NoAbuild.env = EmptyEnv
      /\ NoAbuild.in = FALSE /\ NoAbuild.scratch = FALSE /\ NoAbuild.calm = TRUE
  BY DEF NoAbuild
<1>. QED
  BY <1>1, NoAbuildType, AbMoves DEF AbResets

LEMMA TstReset ==
    ASSUME TstType, NEW s \in Sessions, tst' = [tst EXCEPT ![s] = NoAtest]
    PROVE  TstResets(s)
<1>1. /\ NoAtest.pc = "idle" /\ NoAtest.arg = "" /\ NoAtest.env = EmptyEnv
      /\ NoAtest.linked = FALSE /\ NoAtest.scratch = FALSE /\ NoAtest.calm = TRUE
  BY DEF NoAtest
<1>. QED
  BY <1>1, NoAtestType, TstMoves DEF TstResets

LEMMA RunAbuildMoves ==
    ASSUME BuildTypeInv, NEW s \in Sessions, NEW c \in Configs, RunAbuild(s, c)
    PROVE  AbTo(s, "load", c, EmptyEnv, FALSE, FALSE, TRUE) /\ TstStays
<1>1. PICK f : f = [NoAbuild EXCEPT !.pc = "load", !.arg = c]
  OBVIOUS
<1>2. /\ f \in AbuildFrame /\ f.pc = "load" /\ f.arg = c /\ f.env = EmptyEnv
      /\ f.in = FALSE /\ f.scratch = FALSE /\ f.calm = TRUE
  BY <1>1, EmptyEnvType, ConfigsAssumption, VersionsAssumption
  DEF NoAbuild, AbuildFrame, AbuildPC
<1>3. ab' = [ab EXCEPT ![s] = f] /\ tst' = tst
  BY <1>1 DEF RunAbuild
<1>. QED
  BY <1>2, <1>3, AbMoves, TstRests, BuildTypeParts, ConfigsAssumption

LEMMA RunAtestMoves ==
    ASSUME BuildTypeInv, NEW s \in Sessions, NEW c \in Configs, NEW a \in Apps,
           RunAtest(s, c, a)
    PROVE  TstTo(s, "load", c, EmptyEnv, FALSE, FALSE, TRUE) /\ AbStays
<1>1. PICK f : f = [NoAtest EXCEPT !.pc = "load", !.arg = c, !.app = a]
  OBVIOUS
<1>2. /\ f \in AtestFrame /\ f.pc = "load" /\ f.arg = c /\ f.env = EmptyEnv
      /\ f.linked = FALSE /\ f.scratch = FALSE /\ f.calm = TRUE
  BY <1>1, EmptyEnvType, ConfigsAssumption, AppsAssumption, VersionsAssumption
  DEF NoAtest, AtestFrame, AtestPC
<1>3. tst' = [tst EXCEPT ![s] = f] /\ ab' = ab
  BY <1>1 DEF RunAtest
<1>. QED
  BY <1>2, <1>3, TstMoves, AbRests, BuildTypeParts, ConfigsAssumption

LEMMA AbuildLoadMoves ==
    ASSUME BuildTypeInv, NEW s \in Sessions, AbuildLoad(s)
    PROVE  /\ AbTo(s, "check", ab[s].arg, AbLoaded(s), ab[s].in, Scratch(AbLoaded(s).out),
                   Others(s, AbLoaded(s).out) = {})
           /\ TstStays
<1>1. PICK e : e = AbLoaded(s)
  OBVIOUS
<1>2. PICK D : D = Others(s, e.out)
  OBVIOUS
<1>3. PICK f : f = [ab[s] EXCEPT !.pc = "check", !.env = e, !.calm = (D = {}),
                              !.scratch = Scratch(e.out)]
  OBVIOUS
<1>4. ab[s] \in AbuildFrame /\ ab[s].arg \in DOMAIN Versions /\ e \in Env
  BY <1>1, BuildLoadedType, BuildTypeParts DEF AbType
<1>5. /\ f \in AbuildFrame /\ f.pc = "check" /\ f.arg = ab[s].arg /\ f.env = e
      /\ f.in = ab[s].in /\ f.scratch = Scratch(e.out) /\ f.calm = (D = {})
  BY <1>3, <1>4 DEF AbuildFrame, AbuildPC, Scratch
<1>6. /\ ab' = Disturb([ab EXCEPT ![s] = f], D)
      /\ tst' = Disturb(tst, IF D = {} THEN {} ELSE D \union {s})
  BY <1>1, <1>2, <1>3 DEF AbuildLoad, AbLoaded
<1>7. AbTo(s, f.pc, f.arg, f.env, f.in, f.scratch, f.calm)
  BY <1>4, <1>5, <1>6, AbMoves, BuildTypeParts
<1>8. TstStays
  BY <1>6, TstRests, BuildTypeParts
<1>. QED
  BY <1>1, <1>2, <1>5, <1>7, <1>8

LEMMA AtestLoadMoves ==
    ASSUME BuildTypeInv, NEW s \in Sessions, AtestLoad(s)
    PROVE  /\ TstTo(s, "check", tst[s].arg, TstLoaded(s), tst[s].linked,
                    Scratch(TstLoaded(s).out), Others(s, TstLoaded(s).out) = {})
           /\ AbStays
<1>1. PICK e : e = TstLoaded(s)
  OBVIOUS
<1>2. PICK D : D = Others(s, e.out)
  OBVIOUS
<1>3. PICK f : f = [tst[s] EXCEPT !.pc = "check", !.env = e, !.calm = (D = {}),
                               !.scratch = Scratch(e.out)]
  OBVIOUS
<1>4. tst[s] \in AtestFrame /\ tst[s].arg \in DOMAIN Versions /\ e \in Env
  BY <1>1, BuildLoadedType, BuildTypeParts DEF TstType
<1>5. /\ f \in AtestFrame /\ f.pc = "check" /\ f.arg = tst[s].arg /\ f.env = e
      /\ f.linked = tst[s].linked /\ f.scratch = Scratch(e.out) /\ f.calm = (D = {})
  BY <1>3, <1>4 DEF AtestFrame, AtestPC, Scratch
<1>6. tst' = Disturb([tst EXCEPT ![s] = f], D) /\ ab' = Disturb(ab, D)
  BY <1>1, <1>2, <1>3 DEF AtestLoad, TstLoaded
<1>7. TstTo(s, f.pc, f.arg, f.env, f.linked, f.scratch, f.calm)
  BY <1>4, <1>5, <1>6, TstMoves, BuildTypeParts
<1>8. AbStays
  BY <1>6, AbRests, BuildTypeParts
<1>. QED
  BY <1>1, <1>2, <1>5, <1>7, <1>8

LEMMA AbuildPrepareMoves ==
    ASSUME BuildTypeInv, NEW s \in Sessions, AbuildPrepare(s)
    PROVE  /\ TstStays
           /\ \E i \in BOOLEAN, c \in BOOLEAN :
                /\ AbTo(s, "compile", ab[s].arg, ab[s].env, i, ab[s].scratch, c)
                /\ c => i /\ ab[s].calm /\ aobjs' = aobjs \ InAroma(aobjs, AbuildOut(s))
<1> DEFINE f == [ab[s] EXCEPT !.pc = "compile", !.in = TRUE]
           g == [ab[s] EXCEPT !.pc = "compile", !.in = TRUE, !.calm = FALSE]
           h == [ab[s] EXCEPT !.pc = "compile", !.calm = FALSE]
           Kept(x) == /\ x \in AbuildFrame /\ x.pc = "compile" /\ x.arg = ab[s].arg
                      /\ x.env = ab[s].env /\ x.scratch = ab[s].scratch
                      /\ x.in \in BOOLEAN /\ x.calm \in BOOLEAN
<1>1. ab[s] \in AbuildFrame /\ ab[s].arg \in DOMAIN Versions
  BY BuildTypeParts DEF AbType
<1>2. Kept(f) /\ f.in = TRUE /\ f.calm = ab[s].calm
  BY <1>1 DEF AbuildFrame, AbuildPC
<1>3. Kept(g) /\ g.calm = FALSE
  BY <1>1 DEF AbuildFrame, AbuildPC
<1>4. Kept(h) /\ h.calm = FALSE
  BY <1>1 DEF AbuildFrame, AbuildPC
<1>5. \/ ab' = [ab EXCEPT ![s] = f] /\ aobjs' = aobjs \ InAroma(aobjs, AbuildOut(s))
      \/ ab' = [ab EXCEPT ![s] = g]
      \/ ab' = [ab EXCEPT ![s] = h]
  BY Zenon DEF AbuildPrepare
<1>6. TstStays
  BY TstRests, BuildTypeParts DEF AbuildPrepare
<1> HIDE DEF f, g, h
<1>7. CASE ab' = [ab EXCEPT ![s] = f] /\ aobjs' = aobjs \ InAroma(aobjs, AbuildOut(s))
  BY <1>1, <1>2, <1>6, <1>7, AbMoves, BuildTypeParts
<1>8. CASE ab' = [ab EXCEPT ![s] = g]
  BY <1>1, <1>3, <1>6, <1>8, AbMoves, BuildTypeParts
<1>9. CASE ab' = [ab EXCEPT ![s] = h]
  BY <1>1, <1>4, <1>6, <1>9, AbMoves, BuildTypeParts
<1>. QED
  BY <1>5, <1>7, <1>8, <1>9

LEMMA AbuildCompileMoves ==
    ASSUME BuildTypeInv, NEW s \in Sessions, AbuildCompile(s)
    PROVE  /\ TstStays
           /\ \E c \in BOOLEAN, good \in SUBSET AromaUnits(ab[s].env.var) :
                /\ AbTo(s, "archive", ab[s].arg, ab[s].env, ab[s].in, ab[s].scratch, c)
                /\ c => ab[s].calm /\ good = AromaUnits(ab[s].env.var)
                /\ aobjs' = IF ab[s].in
                            THEN AromaReplace(aobjs, {AromaCompiled(s, u) : u \in good})
                            ELSE aobjs
<1> DEFINE f == [ab[s] EXCEPT !.pc = "archive"]
           g == [ab[s] EXCEPT !.pc = "archive", !.calm = FALSE]
<1>1. ab[s] \in AbuildFrame /\ ab[s].arg \in DOMAIN Versions
  BY BuildTypeParts DEF AbType
<1>2. /\ f \in AbuildFrame /\ f.pc = "archive" /\ f.arg = ab[s].arg /\ f.env = ab[s].env
      /\ f.in = ab[s].in /\ f.scratch = ab[s].scratch /\ f.calm = ab[s].calm
      /\ f.calm \in BOOLEAN
  BY <1>1 DEF AbuildFrame, AbuildPC
<1>3. /\ g \in AbuildFrame /\ g.pc = "archive" /\ g.arg = ab[s].arg /\ g.env = ab[s].env
      /\ g.in = ab[s].in /\ g.scratch = ab[s].scratch /\ g.calm = FALSE
  BY <1>1 DEF AbuildFrame, AbuildPC
<1>4. PICK good \in SUBSET AromaUnits(ab[s].env.var) :
        /\ aobjs' = IF ab[s].in
                    THEN AromaReplace(aobjs, {AromaCompiled(s, u) : u \in good})
                    ELSE aobjs
        /\ \/ good = AromaUnits(ab[s].env.var) /\ ab' = [ab EXCEPT ![s] = f]
           \/ ab' = [ab EXCEPT ![s] = g]
  BY Zenon DEF AbuildCompile
<1>5. TstStays
  BY TstRests, BuildTypeParts DEF AbuildCompile
<1> HIDE DEF f, g
<1>6. \/ /\ good = AromaUnits(ab[s].env.var)
         /\ AbTo(s, "archive", ab[s].arg, ab[s].env, ab[s].in, ab[s].scratch, ab[s].calm)
      \/ AbTo(s, "archive", ab[s].arg, ab[s].env, ab[s].in, ab[s].scratch, FALSE)
  BY <1>1, <1>2, <1>3, <1>4, AbMoves, BuildTypeParts
<1>7. ab[s].calm \in BOOLEAN
  BY <1>1 DEF AbuildFrame
<1>. QED
  BY <1>4, <1>5, <1>6, <1>7

\* The other actions move one run, or two, to another block or to the prompt.
LEMMA AbuildMoves ==
    ASSUME BuildTypeInv, NEW s \in Sessions
    PROVE  /\ AbuildGiveUp(s) => AbResets(s) /\ TstStays
           /\ AbuildHasLibs(s) => AbGoes(s, "prepare") /\ TstStays
           /\ AbuildCallsAlibs(s) => AbGoes(s, "alibs") /\ TstStays
           /\ AbuildGoesOn(s) => AbGoes(s, "prepare") /\ TstStays
           /\ AbuildArchive(s) => AbGoes(s, "end") /\ TstStays
           /\ AbuildEnd(s) => AbResets(s) /\ TstStays
<1>1. AbType /\ TstType /\ {"prepare", "alibs", "end"} \subseteq AbuildPC
  BY BuildTypeParts DEF AbuildPC
<1>2. AbuildGiveUp(s) => AbResets(s) /\ TstStays
  BY <1>1, AbReset, TstRests DEF AbuildGiveUp
<1>3. AbuildHasLibs(s) => AbGoes(s, "prepare") /\ TstStays
  BY <1>1, AbPc, TstRests DEF AbuildHasLibs
<1>4. AbuildCallsAlibs(s) => AbGoes(s, "alibs") /\ TstStays
  BY <1>1, AbPc, TstRests DEF AbuildCallsAlibs
<1>5. AbuildGoesOn(s) => AbGoes(s, "prepare") /\ TstStays
  BY <1>1, AbPc, TstRests DEF AbuildGoesOn
<1>6. AbuildArchive(s) => AbGoes(s, "end") /\ TstStays
  BY <1>1, AbPc, TstRests DEF AbuildArchive
<1>7. AbuildEnd(s) => AbResets(s) /\ TstStays
  BY <1>1, AbReset, TstRests DEF AbuildEnd
<1>. QED
  BY <1>2, <1>3, <1>4, <1>5, <1>6, <1>7

LEMMA AtestMoves ==
    ASSUME BuildTypeInv, NEW s \in Sessions
    PROVE  /\ AtestHasAroma(s) => TstGoes(s, "link") /\ AbStays
           /\ AtestGoesOn(s) => TstGoes(s, "link") /\ AbStays
           /\ AtestEnd(s) => TstResets(s) /\ AbStays
           /\ AtestCallsAbuild(s) =>
                /\ TstGoes(s, "abuild")
                /\ AbTo(s, "load", "", tst[s].env, FALSE, FALSE, TRUE)
<1>1. AbType /\ TstType /\ {"link", "abuild"} \subseteq AtestPC
  BY BuildTypeParts DEF AtestPC
<1>2. AtestHasAroma(s) => TstGoes(s, "link") /\ AbStays
  BY <1>1, TstPc, AbRests DEF AtestHasAroma
<1>3. AtestGoesOn(s) => TstGoes(s, "link") /\ AbStays
  BY <1>1, TstPc, AbRests DEF AtestGoesOn
<1>4. AtestEnd(s) => TstResets(s) /\ AbStays
  BY <1>1, TstReset, AbRests DEF AtestEnd
<1>5. ASSUME AtestCallsAbuild(s)
      PROVE  AbTo(s, "load", "", tst[s].env, FALSE, FALSE, TRUE)
  <2>1. PICK f : f = [NoAbuild EXCEPT !.pc = "load", !.env = tst[s].env]
    OBVIOUS
  <2>2. tst[s].env \in Env
    BY <1>1 DEF TstType, AtestFrame
  <2>3. /\ f \in AbuildFrame /\ f.pc = "load" /\ f.arg = "" /\ f.env = tst[s].env
        /\ f.in = FALSE /\ f.scratch = FALSE /\ f.calm = TRUE
    BY <2>1, <2>2, NoAbuildType DEF NoAbuild, AbuildFrame, AbuildPC
  <2>4. ab' = [ab EXCEPT ![s] = f]
    BY <1>5, <2>1 DEF AtestCallsAbuild
  <2>. QED
    BY <1>1, <2>3, <2>4, AbMoves, VersionsAssumption
<1>6. AtestCallsAbuild(s) => TstGoes(s, "abuild")
  BY <1>1, TstPc DEF AtestCallsAbuild
<1>. QED
  BY <1>2, <1>3, <1>4, <1>5, <1>6

LEMMA AtestLinkMoves ==
    ASSUME BuildTypeInv, NEW s \in Sessions, AtestLink(s)
    PROVE  /\ AbStays
           /\ \E l \in BOOLEAN, c \in BOOLEAN :
                /\ TstTo(s, "end", tst[s].arg, tst[s].env, l, tst[s].scratch, c)
                /\ c => /\ tst[s].calm
                        /\ \/ l
                           \/ ~AllThere(tst[s].env) \/ ~MustHave(tst[s].env.var)
<1> DEFINE f == [tst[s] EXCEPT !.pc = "end", !.linked = TRUE]
           g == [tst[s] EXCEPT !.pc = "end"]
           h == [tst[s] EXCEPT !.pc = "end", !.calm = FALSE]
           Kept(x) == /\ x \in AtestFrame /\ x.pc = "end" /\ x.arg = tst[s].arg
                      /\ x.env = tst[s].env /\ x.scratch = tst[s].scratch
                      /\ x.linked \in BOOLEAN /\ x.calm \in BOOLEAN
<1>1. tst[s] \in AtestFrame /\ tst[s].arg \in DOMAIN Versions
  BY BuildTypeParts DEF TstType
<1>2. Kept(f) /\ f.linked = TRUE /\ f.calm = tst[s].calm
  BY <1>1 DEF AtestFrame, AtestPC
<1>3. Kept(g) /\ g.calm = tst[s].calm
  BY <1>1 DEF AtestFrame, AtestPC
<1>4. Kept(h) /\ h.calm = FALSE
  BY <1>1 DEF AtestFrame, AtestPC
<1>5. \/ tst' = [tst EXCEPT ![s] = f]
      \/ /\ tst' = [tst EXCEPT ![s] = g]
         /\ ~AllThere(tst[s].env) \/ ~MustHave(tst[s].env.var)
      \/ tst' = [tst EXCEPT ![s] = h]
  BY Zenon DEF AtestLink
<1>6. AbStays
  BY AbRests, BuildTypeParts DEF AtestLink
<1> HIDE DEF f, g, h
<1>7. CASE tst' = [tst EXCEPT ![s] = f]
  BY <1>1, <1>2, <1>6, <1>7, TstMoves, BuildTypeParts
<1>8. CASE /\ tst' = [tst EXCEPT ![s] = g]
           /\ ~AllThere(tst[s].env) \/ ~MustHave(tst[s].env.var)
  BY <1>1, <1>3, <1>6, <1>8, TstMoves, BuildTypeParts
<1>9. CASE tst' = [tst EXCEPT ![s] = h]
  BY <1>1, <1>4, <1>6, <1>9, TstMoves, BuildTypeParts
<1>. QED
  BY <1>5, <1>7, <1>8, <1>9

LEMMA InterruptMoves ==
    ASSUME BuildTypeInv, NEW s \in Sessions, BuildInterrupt(s)
    PROVE  AbResets(s) /\ TstResets(s)
  BY AbReset, TstReset, BuildTypeParts DEF BuildInterrupt

LEMMA OthersMove ==
    ASSUME BuildTypeInv,
           \/ \E s \in Sessions :
                \/ BuildAlibsStep(s)
                \/ \E args \in LibArgs : RunAlibs(s, args) /\ UNCHANGED <<ab, tst>>
           \/ BuildEdit
           \/ UNCHANGED buildVars
    PROVE  AbStays /\ TstStays
  BY AbRests, TstRests, BuildTypeParts DEF BuildAlibsStep, BuildEdit, buildVars

-----------------------------------------------------------------------------
(***************************************************************************)
(* alibs.cmd's half of the state changes as its own specification says, or *)
(* a console is sent to the prompt or to a new run of alibs.cmd.           *)
(***************************************************************************)
Restarts ==
    /\ UNCHANGED <<tree, updates>> /\ faults' \in Nat
    /\ \/ al' = al
       \/ \E s \in Sessions, f \in Frame :
             /\ al' = [al EXCEPT ![s] = f]
             /\ f.pc \in {"idle", "load"} /\ f.at = 1 /\ f.mem = {} /\ f.calm

LEMMA CalledFrame ==
    ASSUME BuildTypeInv, NEW s \in Sessions, AbuildCallsAlibs(s)
    PROVE  \E f \in Frame :
             /\ al' = [al EXCEPT ![s] = f]
             /\ f.pc = "load" /\ f.at = 1 /\ f.mem = {} /\ f.calm
             /\ f.env = ab[s].env
             /\ f.args = IF ab[s].arg = "" THEN <<>> ELSE <<ab[s].arg>>
<1> DEFINE args == IF ab[s].arg = "" THEN <<>> ELSE <<ab[s].arg>>
           f == [IdleFrame EXCEPT !.pc = "load", !.env = ab[s].env, !.args = args]
<1>1. ab[s].arg \in Text /\ ab[s].env \in Env
  BY BuildTypeParts DEF AbType, AbuildFrame
<1>2. args \in Seq(Text)
  <2>1. <<>> \in Seq(Text) /\ <<ab[s].arg>> \in Seq(Text)
    BY <1>1
  <2>. QED
    BY <2>1
<1>3. al' = [al EXCEPT ![s] = f]
  BY DEF AbuildCallsAlibs
<1> HIDE DEF args
<1>4. /\ f \in Frame /\ f.pc = "load" /\ f.at = 1 /\ f.mem = {} /\ f.calm
      /\ f.env = ab[s].env /\ f.args = args
  BY <1>1, <1>2, IdleFrameType DEF Frame, IdleFrame, AlibsPC
<1>. QED
  BY <1>3, <1>4 DEF args

LEMMA AlibsHalf ==
    ASSUME BuildTypeInv, [BuildNext]_buildVars
    PROVE  [Next]_vars \/ Restarts
<1>1. ASSUME NEW s \in Sessions, Command(s) PROVE [Next]_vars
  BY <1>1 DEF Command, RunAbuild, RunAtest, Next, User
<1>2. ASSUME NEW s \in Sessions, BuildInterrupt(s) PROVE Restarts
  <2>1. /\ IdleFrame.pc = "idle" /\ IdleFrame.at = 1 /\ IdleFrame.mem = {}
        /\ IdleFrame.calm
    BY DEF IdleFrame
  <2>2. UNCHANGED <<tree, updates>> /\ faults' \in Nat
    BY <1>2, BuildTypeParts DEF BuildInterrupt, Fault, TypeInv, TypeOK
  <2>3. al' = [al EXCEPT ![s] = IdleFrame]
    BY <1>2 DEF BuildInterrupt
  <2>. QED
    BY <2>1, <2>2, <2>3, IdleFrameType DEF Restarts
<1>3. ASSUME NEW s \in Sessions, BuildAlibsStep(s) PROVE Next
  BY <1>3 DEF BuildAlibsStep, Next
<1>4. ASSUME NEW s \in Sessions, AbuildStep(s) PROVE [Next]_vars \/ Restarts
  <2>1. CASE AbuildCallsAlibs(s)
    <3>1. \E f \in Frame :
             /\ al' = [al EXCEPT ![s] = f]
             /\ f.pc = "load" /\ f.at = 1 /\ f.mem = {} /\ f.calm
      BY <2>1, CalledFrame
    <3>2. UNCHANGED <<tree, updates>> /\ faults' \in Nat
      BY <2>1, BuildTypeParts DEF AbuildCallsAlibs, TypeInv, TypeOK
    <3>. QED
      BY <3>1, <3>2 DEF Restarts
  <2>2. CASE AbuildPrepare(s) \/ AbuildCompile(s)
    <3>1. faults \in Nat
      BY BuildTypeParts DEF TypeInv, TypeOK
    <3>2. NoFault \/ Fault
      BY <2>2, Zenon DEF AbuildPrepare, AbuildCompile
    <3>4. faults' \in Nat
      BY <3>1, <3>2 DEF Fault, NoFault
    <3>3. al' = al /\ tree' = tree /\ updates' = updates
      BY <2>2 DEF AbuildPrepare, AbuildCompile
    <3>. QED
      BY <3>3, <3>4 DEF Restarts
  <2>3. CASE \/ AbuildLoad(s) \/ AbuildGiveUp(s) \/ AbuildHasLibs(s) \/ AbuildGoesOn(s)
             \/ AbuildArchive(s) \/ AbuildEnd(s)
    BY <2>3 DEF AbuildLoad, AbuildGiveUp, AbuildHasLibs, AbuildGoesOn, AbuildArchive,
                AbuildEnd
  <2>. QED
    BY <1>4, <2>1, <2>2, <2>3 DEF AbuildStep
<1>5. ASSUME NEW s \in Sessions, AtestStep(s) PROVE [Next]_vars \/ Restarts
  <2>1. CASE AtestLink(s)
    BY <2>1, BuildTypeParts DEF AtestLink, Fault, NoFault, Restarts, TypeInv, TypeOK
  <2>2. CASE ~AtestLink(s)
    BY <1>5, <2>2 DEF AtestStep, AtestLoad, AtestHasAroma, AtestCallsAbuild, AtestGoesOn,
                     AtestEnd
  <2>. QED
    BY <2>1, <2>2
<1>6. CASE BuildEdit
  BY <1>6 DEF BuildEdit, Next, User
<1>7. CASE UNCHANGED buildVars
  BY <1>7 DEF buildVars
<1>. QED
  BY <1>1, <1>2, <1>3, <1>4, <1>5, <1>6, <1>7 DEF BuildNext, ScriptStep

LEMMA RestartType ==
    ASSUME TypeInv, Restarts
    PROVE  TypeInv'
<1>1. al' \in [Sessions -> Frame] /\ BodyDepth'
  BY FrameStep DEF Restarts, TypeInv, TypeOK, BodyDepth, InBody
<1>. QED
  BY <1>1 DEF Restarts, tree, TypeInv, TypeOK

LEMMA RestartCpu ==
    ASSUME TypeInv, CpuInv, Restarts
    PROVE  CpuInv'
<1>1. Quiet
  BY DEF Restarts, Quiet, TypeInv, TypeOK
<1>. QED
  BY <1>1, QuietKeeps DEF Restarts, tree, CpuInv

LEMMA RestartCalm ==
    ASSUME Inv, Restarts
    PROVE  CalmInv'
<1>1. rev' = rev /\ made' = made /\ objs' = objs /\ adeps' = adeps
  BY DEF Restarts, tree
<1>. QED
  BY <1>1, Rests, Stays DEF Restarts, Inv

\* Each step keeps the types, alibs.cmd's by its own lemmas.
LEMMA BuildFilesStep ==
    ASSUME BuildTypeInv, [BuildNext]_buildVars
    PROVE  FilesType'
<1>0. FilesType
  BY BuildTypeParts
<1>1. ASSUME NEW s \in Sessions PROVE Options(ab[s].env.var) \in SUBSET Option
  BY DEF Options, Option, Key
<1>2. ASSUME NEW s \in Sessions
      PROVE  /\ ab[s].env \in Env /\ AbuildOut(s) \in OutName
             /\ tst[s].env \in Env /\ AtestOut(s) \in OutName /\ tst[s].app \in Text
  BY BuildTypeParts DEF AbType, TstType, AbuildFrame, AtestFrame, AbuildOut, AtestOut, Env
<1>3. ASSUME NEW s \in Sessions, AbuildPrepare(s) PROVE FilesType'
  BY <1>0, <1>3 DEF AbuildPrepare, FilesType, InAroma
<1>4. ASSUME NEW s \in Sessions, AbuildCompile(s) PROVE FilesType'
  <2>1. PICK good \in SUBSET AromaUnits(ab[s].env.var) :
          aobjs' \in {AromaReplace(aobjs, {AromaCompiled(s, u) : u \in good}), aobjs}
    BY <1>4 DEF AbuildCompile
  <2>2. AromaUnits(ab[s].env.var) \subseteq Text
    <3>1. SourcePlatform(ab[s].env.var) \in Text
      BY <1>2, AromaUnitNames DEF SourcePlatform, Env, Key
    <3>. QED
      BY <3>1, AromaUnitNames DEF AromaUnits
  <2>3. ASSUME NEW u \in good PROVE AromaCompiled(s, u) \in AromaObj
    BY <1>1, <1>2, <2>2 DEF AromaCompiled, AromaObj, Env
  <2>4. AromaReplace(aobjs, {AromaCompiled(s, u) : u \in good}) \subseteq AromaObj
    BY <1>0, <2>3 DEF AromaReplace, FilesType
  <2>. QED
    BY <1>0, <1>4, <2>1, <2>4 DEF AbuildCompile, FilesType
<1>5. ASSUME NEW s \in Sessions, AbuildArchive(s) PROVE FilesType'
  BY <1>0, <1>2, <1>5 DEF AbuildArchive, AromaReplace, InAroma, FilesType
<1>6. ASSUME NEW s \in Sessions, AtestLink(s) PROVE FilesType'
  <2>1. LinkedProgram(s) \in Program
    BY <1>2 DEF LinkedProgram, Program, CpuOf
  <2>. QED
    BY <1>0, <1>6, <2>1 DEF AtestLink, aromaFiles, FilesType
<1>7. CASE UNCHANGED <<aromaFiles, bins>>
  BY <1>0, <1>7 DEF aromaFiles, FilesType
<1>8. ASSUME NEW s \in Sessions, AbuildStep(s) PROVE FilesType'
  BY <1>3, <1>4, <1>5, <1>7, <1>8 DEF AbuildStep, AbuildLoad, AbuildGiveUp, AbuildHasLibs,
     AbuildCallsAlibs, AbuildGoesOn, AbuildEnd
<1>9. ASSUME NEW s \in Sessions, AtestStep(s) PROVE FilesType'
  BY <1>6, <1>7, <1>9 DEF AtestStep, AtestLoad, AtestHasAroma, AtestCallsAbuild,
     AtestGoesOn, AtestEnd
<1>10. ASSUME NEW s \in Sessions,
              Command(s) \/ BuildInterrupt(s) \/ BuildAlibsStep(s)
       PROVE  FilesType'
  BY <1>7, <1>10 DEF Command, RunAbuild, RunAtest, BuildInterrupt, BuildAlibsStep
<1>11. CASE BuildEdit \/ UNCHANGED buildVars
  BY <1>7, <1>11 DEF BuildEdit, buildVars
<1>. QED
  BY <1>8, <1>9, <1>10, <1>11 DEF BuildNext, ScriptStep

LEMMA BuildRunsStep ==
    ASSUME BuildTypeInv, [BuildNext]_buildVars
    PROVE  AbType' /\ TstType'
<1>1. ASSUME NEW s \in Sessions, Command(s) PROVE AbType' /\ TstType'
  BY <1>1, RunAbuildMoves, RunAtestMoves, OthersMove
  DEF Command, AbTo, TstTo, AbStays, TstStays
<1>2. ASSUME NEW s \in Sessions, AbuildStep(s) PROVE AbType' /\ TstType'
  BY <1>2, AbuildLoadMoves, AbuildMoves, AbuildPrepareMoves, AbuildCompileMoves
  DEF AbuildStep, AbTo, AbGoes, AbResets, TstStays
<1>3. ASSUME NEW s \in Sessions, AtestStep(s) PROVE AbType' /\ TstType'
  BY <1>3, AtestLoadMoves, AtestMoves, AtestLinkMoves
  DEF AtestStep, AbTo, AbStays, TstTo, TstGoes, TstResets
<1>4. ASSUME NEW s \in Sessions, BuildInterrupt(s) PROVE AbType' /\ TstType'
  BY <1>4, InterruptMoves DEF AbTo, TstTo, AbResets, TstResets
<1>5. CASE (\E s \in Sessions : BuildAlibsStep(s)) \/ BuildEdit \/ UNCHANGED buildVars
  BY <1>5, OthersMove DEF AbStays, TstStays
<1>. QED
  BY <1>1, <1>2, <1>3, <1>4, <1>5 DEF BuildNext, ScriptStep

LEMMA BuildTypeInit == BuildInit => BuildTypeInv
<1> SUFFICES ASSUME BuildInit PROVE BuildTypeInv
  OBVIOUS
<1>1. TypeInv
  BY TypeInit DEF BuildInit
<1>2. AbType /\ TstType
  BY NoAbuildType, NoAtestType DEF BuildInit, AbType, TstType
<1>. QED
  BY <1>1, <1>2, BuildTypeParts DEF BuildInit, FilesType

LEMMA BuildTypeStep == BuildTypeInv /\ [BuildNext]_buildVars => BuildTypeInv'
<1> SUFFICES ASSUME BuildTypeInv, [BuildNext]_buildVars PROVE BuildTypeInv'
  OBVIOUS
<1>1. TypeInv'
  BY AlibsHalf, TypeStep, RestartType, BuildTypeParts
<1>2. AbType' /\ TstType' /\ FilesType'
  BY BuildRunsStep, BuildFilesStep
<1>. QED
  BY <1>1, <1>2 DEF BuildTypeInv, BuildTypeOK, TypeInv, AbType, TstType, ArgsNamed, FilesType

LEMMA BuildTypeInvHolds == BuildSpec => []BuildTypeInv
  BY BuildTypeInit, BuildTypeStep, PTL DEF BuildSpec

\* The runs of the three scripts and their files have their types.
THEOREM BuildTypeCorrect == BuildSpec => []BuildTypeOK
<1>1. BuildTypeInv => BuildTypeOK
  BY DEF BuildTypeInv
<1>. QED
  BY <1>1, BuildTypeInvHolds, PTL

-----------------------------------------------------------------------------
(***************************************************************************)
(* A step of one console leaves the runs of the others where they are.     *)
(***************************************************************************)
OwnStep(s) == Command(s) \/ BuildInterrupt(s) \/ ScriptStep(s)

SameAl(t) ==
    /\ al'[t].pc = al[t].pc /\ al'[t].args = al[t].args /\ al'[t].env = al[t].env
    /\ al'[t].targets = al[t].targets /\ al'[t].at = al[t].at /\ al'[t].cwd = al[t].cwd
    /\ al'[t].calm => al[t].calm

Same(t) == SameAl(t) /\ SameAb(t) /\ SameTst(t)

LEMMA AlSet ==
    ASSUME TypeInv, NEW s \in Sessions, NEW f, al' = [al EXCEPT ![s] = f]
    PROVE  al'[s] = f /\ \A t \in Sessions \ {s} : SameAl(t)
  BY DEF TypeInv, TypeOK, SameAl

LEMMA OthersAl ==
    ASSUME TypeInv, NEW s \in Sessions, AlibsStep(s), NEW t \in Sessions, t # s
    PROVE  SameAl(t)
<1>1. al[t] \in Frame
  BY DEF TypeInv, TypeOK
<1>2. CASE AlibsLoad(s)
  BY <1>1, <1>2 DEF AlibsLoad, Frame, SameAl
<1>3. CASE \/ AlibsGiveUp(s) \/ AlibsEnter(s) \/ AlibsDone(s) \/ AlibsInvalid(s)
           \/ AlibsEnd(s)
  BY <1>3 DEF AlibsGiveUp, AlibsEnter, AlibsDone, AlibsInvalid, AlibsEnd, TypeInv, TypeOK,
     SameAl
<1>4. CASE AlibsPrepare(s)
  BY <1>4 DEF AlibsPrepare, TypeInv, TypeOK, SameAl
<1>5. CASE AlibsCompile(s) \/ AlibsList(s) \/ AlibsArRead(s) \/ AlibsArRefuse(s)
  BY <1>5 DEF AlibsCompile, AlibsList, AlibsArRead, AlibsArRefuse, TypeInv, TypeOK, SameAl
<1>6. CASE AlibsArWrite(s) \/ AlibsUp(s)
  BY <1>6 DEF AlibsArWrite, AlibsUp, TypeInv, TypeOK, SameAl
<1>. QED
  BY <1>2, <1>3, <1>4, <1>5, <1>6 DEF AlibsStep

\* A running alibs.cmd keeps its settings and its targets until it ends.
GoesWith(s, f) ==
    /\ f.pc \notin {"idle", "load"} /\ f.env = al[s].env /\ f.targets = al[s].targets
    /\ f.calm => al[s].calm

LEMMA OwnAl ==
    ASSUME TypeInv, NEW s \in Sessions, Running(s), AlibsStep(s)
    PROVE  \/ al[s].pc = "end" /\ al' = [al EXCEPT ![s] = IdleFrame] /\ UNCHANGED tree
           \/ GoesWith(s, al'[s])
<1>1. al[s] \in Frame
  BY DEF TypeInv, TypeOK
<1>2. CASE AlibsLoad(s) \/ AlibsGiveUp(s)
  BY <1>2 DEF AlibsLoad, AlibsGiveUp, Running
<1>3. CASE AlibsEnter(s)
  <2> DEFINE f == [al[s] EXCEPT !.pc = "loop", !.cwd = 2]
             g == [al[s] EXCEPT !.pc = "loop", !.calm = FALSE]
  <2>1. GoesWith(s, f)
    BY <1>1 DEF Frame, GoesWith
  <2>2. GoesWith(s, g)
    BY <1>1 DEF Frame, GoesWith
  <2>3. al' \in {[al EXCEPT ![s] = f], [al EXCEPT ![s] = g]}
    BY <1>3, Zenon DEF AlibsEnter
  <2> HIDE DEF f, g
  <2>. QED
    BY <2>1, <2>2, <2>3, AlSet
<1>4. CASE AlibsPrepare(s)
  <2> DEFINE d == al[s].cwd + 1
             f == [al[s] EXCEPT !.pc = "compile", !.cwd = d]
             g == [al[s] EXCEPT !.pc = "compile", !.cwd = d, !.calm = FALSE]
             h == [al[s] EXCEPT !.pc = "compile", !.calm = FALSE]
  <2>1. GoesWith(s, f)
    BY <1>1 DEF Frame, GoesWith
  <2>2. GoesWith(s, g)
    BY <1>1 DEF Frame, GoesWith
  <2>3. GoesWith(s, h)
    BY <1>1 DEF Frame, GoesWith
  <2>4. al' \in {[al EXCEPT ![s] = f], [al EXCEPT ![s] = g], [al EXCEPT ![s] = h]}
    BY <1>4, Zenon DEF AlibsPrepare
  <2> HIDE DEF f, g, h
  <2>. QED
    BY <2>1, <2>2, <2>3, <2>4, AlSet
<1>5. CASE AlibsCompile(s)
  <2> DEFINE f == [al[s] EXCEPT !.pc = "list"]
             g == [al[s] EXCEPT !.pc = "list", !.calm = FALSE]
  <2>1. GoesWith(s, f)
    BY <1>1 DEF Frame, GoesWith
  <2>2. GoesWith(s, g)
    BY <1>1 DEF Frame, GoesWith
  <2>3. al' \in {[al EXCEPT ![s] = f], [al EXCEPT ![s] = g]}
    BY <1>5, Zenon DEF AlibsCompile
  <2> HIDE DEF f, g
  <2>. QED
    BY <2>1, <2>2, <2>3, AlSet
<1>6. CASE AlibsDone(s) \/ AlibsInvalid(s) \/ AlibsArRefuse(s) \/ AlibsArWrite(s)
  <2>1. PICK p \in {"end", "up"} : al' = [al EXCEPT ![s] = [al[s] EXCEPT !.pc = p]]
    BY <1>6 DEF AlibsDone, AlibsInvalid, AlibsArRefuse, AlibsArWrite
  <2>2. GoesWith(s, [al[s] EXCEPT !.pc = p])
    BY <1>1 DEF Frame, GoesWith
  <2>. QED
    BY <2>1, <2>2, AlSet
<1>7. CASE AlibsList(s)
  <2>1. al' = [al EXCEPT ![s] = [al[s] EXCEPT !.pc = "arRead", !.names = Listed(s)]]
    BY <1>7 DEF AlibsList
  <2>2. GoesWith(s, [al[s] EXCEPT !.pc = "arRead", !.names = Listed(s)])
    BY <1>1 DEF Frame, GoesWith
  <2>. QED
    BY <2>1, <2>2, AlSet
<1>8. CASE AlibsArRead(s)
  <2>1. PICK m : al' = [al EXCEPT ![s] = [al[s] EXCEPT !.pc = "arWrite", !.mem = m]]
    BY <1>8 DEF AlibsArRead
  <2>2. GoesWith(s, [al[s] EXCEPT !.pc = "arWrite", !.mem = m])
    BY <1>1 DEF Frame, GoesWith
  <2>. QED
    BY <2>1, <2>2, AlSet
<1>9. CASE AlibsUp(s)
  <2>1. PICK d, n : al' = [al EXCEPT ![s] =
                [al[s] EXCEPT !.pc = "loop", !.cwd = d, !.at = n, !.names = {}, !.mem = {}]]
    BY <1>9 DEF AlibsUp
  <2>2. GoesWith(s, [al[s] EXCEPT !.pc = "loop", !.cwd = d, !.at = n, !.names = {},
                                  !.mem = {}])
    BY <1>1 DEF Frame, GoesWith
  <2>. QED
    BY <2>1, <2>2, AlSet
<1>10. CASE AlibsEnd(s)
  BY <1>10 DEF AlibsEnd
<1>. QED
  BY <1>2, <1>3, <1>4, <1>5, <1>6, <1>7, <1>8, <1>9, <1>10 DEF AlibsStep

LEMMA OthersSame ==
    ASSUME BuildTypeInv, NEW s \in Sessions, OwnStep(s), NEW t \in Sessions, t # s
    PROVE  Same(t)
<1>1. ASSUME AbStays, TstStays PROVE SameAb(t) /\ SameTst(t)
  BY <1>1 DEF AbStays, TstStays
<1>2. ASSUME al' = al PROVE SameAl(t)
  BY <1>2 DEF SameAl
<1>3. CASE Command(s)
  <2>1. SameAb(t) /\ SameTst(t)
    BY <1>1, <1>3, RunAbuildMoves, RunAtestMoves, OthersMove
    DEF Command, AbTo, TstTo, AbStays, TstStays
  <2>2. SameAl(t)
    BY <1>2, <1>3, AlSet, BuildTypeParts DEF Command, RunAlibs, RunAbuild, RunAtest, vars
  <2>. QED
    BY <2>1, <2>2 DEF Same
<1>4. CASE BuildInterrupt(s)
  <2>1. SameAb(t) /\ SameTst(t)
    BY <1>4, InterruptMoves DEF AbResets, TstResets, AbTo, TstTo
  <2>. QED
    BY <1>4, <2>1, AlSet, BuildTypeParts DEF BuildInterrupt, Same
<1>5. CASE BuildAlibsStep(s)
  BY <1>1, <1>5, OthersMove, OthersAl, BuildTypeParts DEF BuildAlibsStep, Same
<1>6. CASE AbuildStep(s)
  <2>1. SameAb(t) /\ SameTst(t)
    BY <1>6, AbuildLoadMoves, AbuildMoves, AbuildPrepareMoves, AbuildCompileMoves
    DEF AbuildStep, AbTo, AbGoes, AbResets, TstStays
  <2>2. SameAl(t)
    BY <1>2, <1>6, AlSet, CalledFrame, BuildTypeParts
    DEF AbuildStep, AbuildLoad, AbuildGiveUp, AbuildHasLibs, AbuildGoesOn, AbuildPrepare,
        AbuildCompile, AbuildArchive, AbuildEnd, vars
  <2>. QED
    BY <2>1, <2>2 DEF Same
<1>7. CASE AtestStep(s)
  <2>1. SameAb(t) /\ SameTst(t)
    BY <1>7, AtestLoadMoves, AtestMoves, AtestLinkMoves
    DEF AtestStep, AbTo, AbStays, TstTo, TstGoes, TstResets
  <2>2. al' = al
    BY <1>7 DEF AtestStep, AtestLoad, AtestHasAroma, AtestCallsAbuild, AtestGoesOn,
                AtestLink, AtestEnd, vars
  <2>. QED
    BY <1>2, <2>1, <2>2 DEF Same
<1>. QED
  BY <1>3, <1>4, <1>5, <1>6, <1>7 DEF OwnStep, ScriptStep

LEMMA EditSame ==
    ASSUME BuildTypeInv, BuildEdit \/ UNCHANGED buildVars, NEW t \in Sessions
    PROVE  Same(t)
<1>1. SameAb(t) /\ SameTst(t)
  BY OthersMove DEF AbStays, TstStays
<1>2. al[t] \in Frame
  BY BuildTypeParts DEF TypeInv, TypeOK
<1>3. SameAl(t)
  BY <1>2 DEF BuildEdit, EditConfig, UpdateSource, buildVars, vars, SameAl, Frame
<1>. QED
  BY <1>1, <1>3 DEF Same

LEMMA BuildSteps == BuildNext <=> BuildEdit \/ \E s \in Sessions : OwnStep(s)
  BY DEF BuildNext, OwnStep
-----------------------------------------------------------------------------
(***************************************************************************)
(* The chain of calls: a script that waits for one it called has no other  *)
(* one running, and the config's name is passed on from abuild.cmd to      *)
(* alibs.cmd but not from atest.cmd to abuild.cmd.                         *)
(***************************************************************************)
Shape(s) ==
    /\ al[s].pc # "idle" => ab[s].pc = "alibs" \/ (ab[s].pc = "idle" /\ tst[s].pc = "idle")
    /\ ab[s].pc # "idle" => tst[s].pc \in {"idle", "abuild"}
    /\ tst[s].pc = "abuild" /\ ab[s].pc # "idle" => ab[s].arg = ""
    /\ ab[s].pc = "load" /\ ab[s].arg # "" => ab[s].env = EmptyEnv

LEMMA ShapeOwn ==
    ASSUME BuildTypeInv, NEW s \in Sessions, Shape(s), OwnStep(s)
    PROVE  Shape(s)'
<1>1. CASE Command(s)
  <2>1. CASE \E args \in LibArgs : RunAlibs(s, args) /\ UNCHANGED <<ab, tst>> /\ Prompt(s)
    BY <2>1 DEF Prompt, Shape
  <2>2. ASSUME NEW c \in Configs, RunAbuild(s, c) PROVE Shape(s)'
    BY <2>2, RunAbuildMoves DEF RunAbuild, Prompt, AbTo, TstStays, SameTst, vars, Shape
  <2>3. ASSUME NEW c \in Configs, NEW a \in Apps, RunAtest(s, c, a) PROVE Shape(s)'
    BY <2>3, RunAtestMoves DEF RunAtest, Prompt, TstTo, AbStays, SameAb, vars, Shape
  <2>. QED
    BY <1>1, <2>1, <2>2, <2>3 DEF Command
<1>2. CASE BuildInterrupt(s)
  <2>1. ab'[s].pc = "idle" /\ tst'[s].pc = "idle"
    BY <1>2, InterruptMoves DEF AbResets, TstResets, AbTo, TstTo
  <2>. QED
    BY <2>1 DEF Shape
<1>3. CASE BuildAlibsStep(s)
  <2>1. SameAb(s) /\ SameTst(s)
    BY <1>3, OthersMove DEF AbStays, TstStays
  <2>2. al[s].pc # "idle"
    BY <1>3 DEF BuildAlibsStep, AlibsStep, AlibsLoad, AlibsGiveUp, AlibsEnter, AlibsDone,
       AlibsInvalid, AlibsPrepare, AlibsCompile, AlibsList, AlibsArRead, AlibsArRefuse,
       AlibsArWrite, AlibsUp, AlibsEnd
  <2>. QED
    BY <2>1, <2>2 DEF SameAb, SameTst, Shape
<1>4. CASE AbuildStep(s)
  <2>1. CASE AbuildCallsAlibs(s)
    BY <2>1, AbuildMoves DEF AbuildCallsAlibs, AbGoes, AbTo, TstStays, SameTst, Shape
  <2>2. CASE AbuildLoad(s)
    BY <2>2, AbuildLoadMoves DEF AbuildLoad, AbTo, TstStays, SameTst, vars, Shape
  <2>3. CASE AbuildGiveUp(s) \/ AbuildEnd(s)
    BY <2>3, AbuildMoves
    DEF AbuildGiveUp, AbuildEnd, AbResets, AbTo, TstStays, SameTst, vars, Shape
  <2>4. CASE AbuildHasLibs(s) \/ AbuildGoesOn(s) \/ AbuildArchive(s)
    BY <2>4, AbuildMoves
    DEF AbuildHasLibs, AbuildGoesOn, AbuildArchive, AbGoes, AbTo, TstStays, SameTst, vars,
        Shape
  <2>5. CASE AbuildPrepare(s) \/ AbuildCompile(s)
    <3>1. /\ al' = al /\ ab[s].pc \in {"prepare", "compile"}
          /\ ab'[s].pc \in {"compile", "archive"} /\ ab'[s].arg = ab[s].arg
          /\ SameTst(s)
      BY <2>5, AbuildPrepareMoves, AbuildCompileMoves
      DEF AbuildPrepare, AbuildCompile, AbTo, TstStays
    <3>. QED
      BY <3>1 DEF SameTst, Shape
  <2>. QED
    BY <1>4, <2>1, <2>2, <2>3, <2>4, <2>5 DEF AbuildStep
<1>5. CASE AtestStep(s)
  <2>1. CASE AtestLoad(s)
    BY <2>1, AtestLoadMoves DEF AtestLoad, TstTo, AbStays, SameAb, vars, Shape
  <2>2. CASE AtestCallsAbuild(s)
    BY <2>2, AtestMoves DEF AtestCallsAbuild, TstGoes, TstTo, AbTo, vars, Shape
  <2>3. CASE AtestHasAroma(s) \/ AtestGoesOn(s) \/ AtestEnd(s)
    BY <2>3, AtestMoves
    DEF AtestHasAroma, AtestGoesOn, AtestEnd, TstGoes, TstResets, TstTo, AbStays, SameAb,
        vars, Shape
  <2>4. CASE AtestLink(s)
    <3>1. al' = al /\ tst[s].pc = "link" /\ tst'[s].pc = "end" /\ SameAb(s)
      BY <2>4, AtestLinkMoves DEF AtestLink, TstTo, AbStays
    <3>. QED
      BY <3>1 DEF SameAb, Shape
  <2>. QED
    BY <1>5, <2>1, <2>2, <2>3, <2>4 DEF AtestStep
<1>. QED
  BY <1>1, <1>2, <1>3, <1>4, <1>5 DEF OwnStep, ScriptStep

LEMMA ShapeSame ==
    ASSUME NEW t, Shape(t), Same(t)
    PROVE  Shape(t)'
  BY DEF Same, SameAl, SameAb, SameTst, Shape

LEMMA ShapeStep ==
    ASSUME BuildTypeInv, \A s \in Sessions : Shape(s), [BuildNext]_buildVars
    PROVE  \A s \in Sessions : Shape(s)'
  BY ShapeOwn, ShapeSame, OthersSame, EditSame, BuildSteps

-----------------------------------------------------------------------------
(***************************************************************************)
(* Whatever else happens, a run that has loaded its settings keeps them.   *)
(***************************************************************************)
PastLoad(f) == f.pc \notin {"idle", "load"}

\* Only loading its settings brings a run into a folder.
AbKeeps(s) ==
    PastLoad(ab'[s]) =>
        /\ PastLoad(ab[s]) /\ ab'[s].arg = ab[s].arg /\ ab'[s].env = ab[s].env
        /\ ab'[s].scratch = ab[s].scratch
        /\ ab'[s].calm => ab[s].calm

TstKeeps(s) ==
    PastLoad(tst'[s]) =>
        /\ PastLoad(tst[s]) /\ tst'[s].arg = tst[s].arg /\ tst'[s].env = tst[s].env
        /\ tst'[s].scratch = tst[s].scratch
        /\ tst'[s].calm => tst[s].calm

LEMMA SameKeeps ==
    ASSUME NEW t
    PROVE  (SameAb(t) => AbKeeps(t)) /\ (SameTst(t) => TstKeeps(t))
  BY DEF SameAb, SameTst, AbKeeps, TstKeeps, PastLoad

LEMMA AbOwn ==
    ASSUME BuildTypeInv, NEW s \in Sessions, OwnStep(s), ~AbuildLoad(s)
    PROVE  AbKeeps(s)
<1>1. ASSUME AbStays PROVE AbKeeps(s)
  BY <1>1, SameKeeps DEF AbStays
<1>2. ASSUME NEW p \in {"idle", "load"}, NEW a, NEW e, NEW i, NEW k, NEW c,
             AbTo(s, p, a, e, i, k, c)
      PROVE  AbKeeps(s)
  BY <1>2 DEF AbTo, AbKeeps, PastLoad
<1>3. ASSUME NEW p, NEW i, NEW c, PastLoad(ab[s]), c => ab[s].calm,
             AbTo(s, p, ab[s].arg, ab[s].env, i, ab[s].scratch, c)
      PROVE  AbKeeps(s)
  BY <1>3 DEF AbTo, AbKeeps
<1>4. CASE Command(s)
  BY <1>1, <1>2, <1>4, RunAbuildMoves, RunAtestMoves, OthersMove DEF Command
<1>5. CASE BuildInterrupt(s)
  BY <1>2, <1>5, InterruptMoves DEF AbResets
<1>6. CASE BuildAlibsStep(s)
  BY <1>1, <1>6, OthersMove
<1>7. CASE AbuildStep(s)
  <2>1. CASE AbuildGiveUp(s) \/ AbuildEnd(s)
    BY <1>2, <2>1, AbuildMoves DEF AbResets
  <2>2. CASE AbuildHasLibs(s) \/ AbuildCallsAlibs(s) \/ AbuildGoesOn(s) \/ AbuildArchive(s)
    <3>1. PastLoad(ab[s])
      BY <2>2 DEF AbuildHasLibs, AbuildCallsAlibs, AbuildGoesOn, AbuildArchive, PastLoad
    <3>. QED
      BY <1>3, <2>2, <3>1, AbuildMoves DEF AbGoes
  <2>3. CASE AbuildPrepare(s) \/ AbuildCompile(s)
    <3>1. PastLoad(ab[s])
      BY <2>3 DEF AbuildPrepare, AbuildCompile, PastLoad
    <3>. QED
      BY <1>3, <2>3, <3>1, AbuildPrepareMoves, AbuildCompileMoves
  <2>. QED
    BY <1>7, <2>1, <2>2, <2>3 DEF AbuildStep
<1>8. CASE AtestStep(s)
  BY <1>1, <1>2, <1>8, AtestLoadMoves, AtestMoves, AtestLinkMoves DEF AtestStep
<1>. QED
  BY <1>4, <1>5, <1>6, <1>7, <1>8 DEF OwnStep, ScriptStep

LEMMA TstOwn ==
    ASSUME BuildTypeInv, NEW s \in Sessions, OwnStep(s), ~AtestLoad(s)
    PROVE  TstKeeps(s)
<1>1. ASSUME TstStays PROVE TstKeeps(s)
  BY <1>1, SameKeeps DEF TstStays
<1>2. ASSUME NEW p \in {"idle", "load"}, NEW a, NEW e, NEW i, NEW k, NEW c,
             TstTo(s, p, a, e, i, k, c)
      PROVE  TstKeeps(s)
  BY <1>2 DEF TstTo, TstKeeps, PastLoad
<1>3. ASSUME NEW p, NEW i, NEW c, PastLoad(tst[s]), c => tst[s].calm,
             TstTo(s, p, tst[s].arg, tst[s].env, i, tst[s].scratch, c)
      PROVE  TstKeeps(s)
  BY <1>3 DEF TstTo, TstKeeps
<1>4. CASE Command(s)
  BY <1>1, <1>2, <1>4, RunAbuildMoves, RunAtestMoves, OthersMove DEF Command
<1>5. CASE BuildInterrupt(s)
  BY <1>2, <1>5, InterruptMoves DEF TstResets
<1>6. CASE BuildAlibsStep(s)
  BY <1>1, <1>6, OthersMove
<1>7. CASE AbuildStep(s)
  BY <1>1, <1>7, AbuildLoadMoves, AbuildMoves, AbuildPrepareMoves, AbuildCompileMoves
  DEF AbuildStep
<1>8. CASE AtestStep(s)
  <2>1. CASE AtestEnd(s)
    BY <1>2, <2>1, AtestMoves DEF TstResets
  <2>2. CASE AtestHasAroma(s) \/ AtestGoesOn(s) \/ AtestCallsAbuild(s)
    <3>1. PastLoad(tst[s])
      BY <2>2 DEF AtestHasAroma, AtestGoesOn, AtestCallsAbuild, PastLoad
    <3>2. TstGoes(s, tst'[s].pc)
      BY <2>2, AtestMoves DEF TstGoes, TstTo
    <3>. QED
      BY <3>1, <3>2 DEF TstGoes, TstTo, TstKeeps
  <2>3. CASE AtestLink(s)
    <3>1. PastLoad(tst[s])
      BY <2>3 DEF AtestLink, PastLoad
    <3>. QED
      BY <1>3, <2>3, <3>1, AtestLinkMoves
  <2>. QED
    BY <1>8, <2>1, <2>2, <2>3 DEF AtestStep
<1>. QED
  BY <1>4, <1>5, <1>6, <1>7, <1>8 DEF OwnStep, ScriptStep

\* The user's edits aside, no step changes a config file or a source, and edits
\* disturb every run.
LEMMA CfgStays ==
    ASSUME NEW s, OwnStep(s)
    PROVE  cfg' = cfg /\ rev' = rev
<1>1. CASE Command(s) \/ BuildInterrupt(s)
  BY <1>1 DEF Command, RunAlibs, RunAbuild, RunAtest, BuildInterrupt, vars, tree
<1>2. CASE BuildAlibsStep(s)
  BY <1>2 DEF BuildAlibsStep, AlibsStep, AlibsLoad, AlibsGiveUp, AlibsEnter, AlibsDone,
     AlibsInvalid, AlibsPrepare, AlibsCompile, AlibsList, AlibsArRead, AlibsArRefuse,
     AlibsArWrite, AlibsUp, AlibsEnd, tree
<1>3. CASE AbuildStep(s)
  BY <1>3 DEF AbuildStep, AbuildLoad, AbuildGiveUp, AbuildHasLibs, AbuildCallsAlibs,
     AbuildGoesOn, AbuildPrepare, AbuildCompile, AbuildArchive, AbuildEnd, vars, tree
<1>4. CASE AtestStep(s)
  BY <1>4 DEF AtestStep, AtestLoad, AtestHasAroma, AtestCallsAbuild, AtestGoesOn,
     AtestLink, AtestEnd, vars, tree
<1>. QED
  BY <1>1, <1>2, <1>3, <1>4 DEF OwnStep, ScriptStep

LEMMA EditDisturbs ==
    ASSUME BuildTypeInv, BuildEdit, NEW t \in Sessions
    PROVE  /\ ab'[t].pc # "idle" => ~ab'[t].calm
           /\ tst'[t].pc # "idle" => ~tst'[t].calm
<1>1. ab' = Disturb(ab, Sessions) /\ tst' = Disturb(tst, Sessions)
  BY DEF BuildEdit
<1>2. /\ ab'[t].pc = ab[t].pc /\ (ab'[t].calm => ab[t].pc = "idle")
      /\ tst'[t].pc = tst[t].pc /\ (tst'[t].calm => tst[t].pc = "idle")
  BY <1>1, DisturbedAbuild, DisturbedAtest, BuildTypeParts DEF AbType, TstType
<1>. QED
  BY <1>2

\* While the nested alibs.cmd runs, only it moves in its console.
LEMMA AtAlibs ==
    ASSUME BuildTypeInv, NEW s \in Sessions, Shape(s), OwnStep(s), ab'[s].pc = "alibs"
    PROVE  AbuildCallsAlibs(s) \/ (BuildAlibsStep(s) /\ ab[s].pc = "alibs")
<1>1. CASE Command(s)
  BY <1>1, RunAbuildMoves, RunAtestMoves, OthersMove
  DEF Command, Prompt, AbTo, AbStays, SameAb, RunAtest
<1>2. CASE BuildInterrupt(s)
  BY <1>2, InterruptMoves DEF AbResets, AbTo
<1>3. CASE BuildAlibsStep(s)
  BY <1>3, OthersMove DEF AbStays, SameAb
<1>4. CASE AbuildStep(s)
  BY <1>4, AbuildLoadMoves, AbuildMoves, AbuildPrepareMoves, AbuildCompileMoves
  DEF AbuildStep, AbGoes, AbResets, AbTo
<1>5. CASE AtestStep(s)
  <2>1. ab[s].pc = "alibs" => ~(AtestLoad(s) \/ AtestHasAroma(s) \/ AtestGoesOn(s)
                                \/ AtestLink(s) \/ AtestEnd(s))
    BY DEF Shape, AtestLoad, AtestHasAroma, AtestGoesOn, AtestLink, AtestEnd
  <2>2. AbStays \/ ab'[s].pc = "load"
    BY <1>5, AtestLoadMoves, AtestMoves, AtestLinkMoves DEF AtestStep, AbTo
  <2>3. AtestCallsAbuild(s) => ab'[s].pc = "load"
    BY AtestMoves DEF AbTo
  <2>. QED
    BY <1>5, <2>1, <2>2, <2>3 DEF AtestStep, AbStays, SameAb
<1>. QED
  BY <1>1, <1>2, <1>3, <1>4, <1>5 DEF OwnStep, ScriptStep

-----------------------------------------------------------------------------
(***************************************************************************)
(* What is linked into a program is for one cpu: that of the folder's name.*)
(* The out folder carries it from the settings of the run that compiled an *)
(* object to those of the run that links it.                               *)
(***************************************************************************)
FlagsOk(x) == \A c \in {"neon", "sse2"} : c \in x.flags <=> c = x.out.cpu

FolderCpu(o) == {c \in {"neon", "sse2"} : c = o.cpu}

AromaCpu == \A x \in aobjs \union laroma : FlagsOk(x)

\* atest.cmd goes on with settings that are incomplete, but links nothing then.
EnvsOk ==
    \A s \in Sessions :
        /\ PastLoad(ab[s]) => EnvOk(ab[s].env)
        /\ PastLoad(tst[s]) /\ MustHave(tst[s].env.var) => EnvOk(tst[s].env)

ProgramsOk == \A p \in bins : \A c \in p.cpus : c = FolderCpu(p.out)

BuildCpuInv == CpuInv /\ AromaCpu /\ EnvsOk /\ ProgramsOk

LEMMA CpuOfFolder ==
    ASSUME NEW x, FlagsOk(x)
    PROVE  CpuOf(x) = FolderCpu(x.out)
  BY DEF FlagsOk, CpuOf, FolderCpu

LEMMA EnvFlags ==
    ASSUME NEW e, EnvOk(e)
    PROVE  CpuOf(e) = FolderCpu(e.out)
  BY DEF EnvOk, CpuOf, FolderCpu

LEMMA EnvsOwn ==
    ASSUME BuildTypeInv, EnvsOk, NEW s \in Sessions, OwnStep(s)
    PROVE  /\ PastLoad(ab'[s]) => EnvOk(ab'[s].env)
           /\ PastLoad(tst'[s]) /\ MustHave(tst'[s].env.var) => EnvOk(tst'[s].env)
<1>1. ASSUME PastLoad(ab'[s]) PROVE EnvOk(ab'[s].env)
  <2>1. CASE AbuildLoad(s)
    <3>1. EnvOk(AbLoaded(s))
      BY <2>1, LoadedEnvOk, LoadedIncomplete DEF AbuildLoad, AbLoaded
    <3>. QED
      BY <2>1, <3>1, AbuildLoadMoves DEF AbTo
  <2>2. CASE ~AbuildLoad(s)
    BY <1>1, <2>2, AbOwn DEF AbKeeps, EnvsOk
  <2>. QED
    BY <2>1, <2>2
<1>2. ASSUME PastLoad(tst'[s]), MustHave(tst'[s].env.var) PROVE EnvOk(tst'[s].env)
  <2>1. CASE AtestLoad(s)
    <3>1. MustHave(TstLoaded(s).var) => EnvOk(TstLoaded(s))
      BY LoadedEnvOk, LoadedIncomplete DEF TstLoaded
    <3>. QED
      BY <1>2, <2>1, <3>1, AtestLoadMoves DEF TstTo
  <2>2. CASE ~AtestLoad(s)
    BY <1>2, <2>2, TstOwn DEF TstKeeps, EnvsOk
  <2>. QED
    BY <2>1, <2>2
<1>. QED
  BY <1>1, <1>2

LEMMA EnvsStep ==
    ASSUME BuildTypeInv, EnvsOk, [BuildNext]_buildVars
    PROVE  EnvsOk'
<1>1. ASSUME NEW t \in Sessions, Same(t)
      PROVE  /\ PastLoad(ab'[t]) => EnvOk(ab'[t].env)
             /\ PastLoad(tst'[t]) /\ MustHave(tst'[t].env.var) => EnvOk(tst'[t].env)
  BY <1>1 DEF Same, SameAb, SameTst, PastLoad, EnvsOk
<1>2. ASSUME NEW s \in Sessions, OwnStep(s) PROVE EnvsOk'
  BY <1>1, <1>2, EnvsOwn, OthersSame DEF EnvsOk
<1>3. ASSUME BuildEdit \/ UNCHANGED buildVars PROVE EnvsOk'
  BY <1>1, <1>3, EditSame DEF EnvsOk
<1>. QED
  BY <1>2, <1>3, BuildSteps

LEMMA AromaCpuStep ==
    ASSUME BuildTypeInv, AromaCpu, EnvsOk, [BuildNext]_buildVars
    PROVE  AromaCpu'
<1>1. CASE UNCHANGED aromaFiles
  BY <1>1 DEF aromaFiles, AromaCpu
<1>2. ASSUME NEW s \in Sessions, AbuildStep(s) PROVE AromaCpu'
  <2>1. CASE AbuildPrepare(s)
    BY <2>1 DEF AbuildPrepare, AromaCpu
  <2>2. CASE AbuildCompile(s)
    <3>1. \A u : FlagsOk(AromaCompiled(s, u))
      BY <2>2 DEF EnvsOk, EnvOk, AbuildCompile, PastLoad, FlagsOk, AromaCompiled, AbuildOut
    <3>2. PICK good \in SUBSET AromaUnits(ab[s].env.var) :
            aobjs' \in {AromaReplace(aobjs, {AromaCompiled(s, u) : u \in good}), aobjs}
      BY <2>2 DEF AbuildCompile
    <3>. QED
      BY <2>2, <3>1, <3>2 DEF AbuildCompile, AromaReplace, AromaCpu
  <2>3. CASE AbuildArchive(s)
    BY <2>3 DEF AbuildArchive, AromaReplace, InAroma, AromaCpu
  <2>. QED
    BY <1>1, <1>2, <2>1, <2>2, <2>3 DEF AbuildStep, AbuildLoad, AbuildGiveUp, AbuildHasLibs,
       AbuildCallsAlibs, AbuildGoesOn, AbuildEnd
<1>3. ASSUME NEW s \in Sessions, AtestStep(s) PROVE AromaCpu'
  BY <1>1, <1>3 DEF AtestStep, AtestLoad, AtestHasAroma, AtestCallsAbuild, AtestGoesOn,
     AtestLink, AtestEnd
<1>4. ASSUME NEW s \in Sessions, Command(s) \/ BuildInterrupt(s) \/ BuildAlibsStep(s)
      PROVE  AromaCpu'
  BY <1>1, <1>4 DEF Command, RunAbuild, RunAtest, BuildInterrupt, BuildAlibsStep
<1>5. CASE BuildEdit \/ UNCHANGED buildVars
  BY <1>1, <1>5 DEF BuildEdit, buildVars
<1>. QED
  BY <1>2, <1>3, <1>4, <1>5 DEF BuildNext, ScriptStep

LEMMA ProgramsStep ==
    ASSUME BuildTypeInv, BuildCpuInv, [BuildNext]_buildVars
    PROVE  ProgramsOk'
<1>1. CASE UNCHANGED bins
  BY <1>1 DEF BuildCpuInv, ProgramsOk
<1>2. ASSUME NEW s \in Sessions, AtestStep(s) PROVE ProgramsOk'
  <2>1. CASE AtestLink(s)
    <3>1. ASSUME MustHave(tst[s].env.var)
          PROVE  \A c \in LinkedProgram(s).cpus : c = FolderCpu(LinkedProgram(s).out)
      <4>1. EnvOk(tst[s].env)
        BY <2>1, <3>1 DEF BuildCpuInv, EnvsOk, PastLoad, AtestLink
      <4>2. \A x \in InAroma(laroma, AtestOut(s)) : FlagsOk(x) /\ x.out = AtestOut(s)
        BY DEF BuildCpuInv, AromaCpu, InAroma
      <4>3. \A x \in InFolder(adeps, AtestOut(s)) : FlagsOk(x) /\ x.out = AtestOut(s)
        BY DEF BuildCpuInv, CpuInv, CpuOk, FlagsOk, InFolder
      <4>4. \A x \in InAroma(laroma, AtestOut(s)) \union InFolder(adeps, AtestOut(s))
                       \union {tst[s].env} : CpuOf(x) = FolderCpu(AtestOut(s))
        BY <4>1, <4>2, <4>3, CpuOfFolder, EnvFlags DEF AtestOut
      <4>. QED
        BY <4>4 DEF LinkedProgram
    <3>2. \/ bins' \subseteq bins
          \/ MustHave(tst[s].env.var) /\ bins' \subseteq bins \union {LinkedProgram(s)}
      BY <2>1 DEF AtestLink
    <3>. QED
      BY <3>1, <3>2 DEF BuildCpuInv, ProgramsOk
  <2>. QED
    BY <1>1, <1>2, <2>1 DEF AtestStep, AtestLoad, AtestHasAroma, AtestCallsAbuild,
       AtestGoesOn, AtestEnd
<1>3. ASSUME NEW s \in Sessions, AbuildStep(s) PROVE ProgramsOk'
  BY <1>1, <1>3 DEF AbuildStep, AbuildLoad, AbuildGiveUp, AbuildHasLibs, AbuildCallsAlibs,
     AbuildGoesOn, AbuildPrepare, AbuildCompile, AbuildArchive, AbuildEnd
<1>4. ASSUME NEW s \in Sessions, Command(s) \/ BuildInterrupt(s) \/ BuildAlibsStep(s)
      PROVE  ProgramsOk'
  BY <1>1, <1>4 DEF Command, RunAbuild, RunAtest, BuildInterrupt, BuildAlibsStep
<1>5. CASE BuildEdit \/ UNCHANGED buildVars
  BY <1>1, <1>5 DEF BuildEdit, buildVars
<1>. QED
  BY <1>2, <1>3, <1>4, <1>5 DEF BuildNext, ScriptStep

LEMMA BuildCpuInit == BuildInit => BuildCpuInv
<1>1. BuildInit => CpuInv
  BY DEF BuildInit, Init, CpuInv, FrameOk, IdleFrame
<1>2. BuildInit => EnvsOk
  <2>1. NoAbuild.pc = "idle" /\ NoAtest.pc = "idle"
    BY DEF NoAbuild, NoAtest
  <2>2. BuildInit => \A s \in Sessions : ab[s] = NoAbuild /\ tst[s] = NoAtest
    BY DEF BuildInit
  <2>. QED
    BY <2>1, <2>2 DEF EnvsOk, PastLoad
<1>. QED
  BY <1>1, <1>2 DEF BuildInit, BuildCpuInv, AromaCpu, ProgramsOk

LEMMA BuildCpuStep == BuildTypeInv /\ BuildCpuInv /\ [BuildNext]_buildVars => BuildCpuInv'
<1> SUFFICES ASSUME BuildTypeInv, BuildCpuInv, [BuildNext]_buildVars
             PROVE  BuildCpuInv'
  OBVIOUS
<1>1. CpuInv'
  BY AlibsHalf, CpuStep, RestartCpu, BuildTypeParts DEF BuildCpuInv
<1>. QED
  BY <1>1, AromaCpuStep, EnvsStep, ProgramsStep DEF BuildCpuInv

\* A program is for one cpu, whatever happened to the configs, the archives and
\* the scripts between the compilation of its parts.
THEOREM ProgramForOneCpu == BuildSpec => []ProgramOneCpu
<1>1. BuildCpuInv => ProgramOneCpu
  BY DEF BuildCpuInv, ProgramsOk, ProgramOneCpu
<1>. QED
  BY <1>1, BuildCpuInit, BuildCpuStep, BuildTypeInvHolds, PTL DEF BuildSpec

-----------------------------------------------------------------------------
(***************************************************************************)
(* The settings of a run that nothing has disturbed are those its config   *)
(* still gives: loading it again, in the environment they make, changes    *)
(* nothing, so the scripts of a chain agree on them.                       *)
(***************************************************************************)
CfgKnown == \A c \in DOMAIN Versions : cfg[c] \in Versions[c]

\* No config file sets the variable that _setldr.cmd derives.
FilesLeaveDerived == \A c \in DOMAIN Versions : \A f \in Versions[c] : LeavesDerived(f)

AbSettled(s) ==
    PastLoad(ab[s]) /\ ab[s].calm =>
        /\ MustHave(ab[s].env.var)
        /\ AbLoaded(s) = ab[s].env
        /\ ab[s].arg # "" => cfg[ab[s].arg] # <<>>

TstSettled(s) == PastLoad(tst[s]) /\ tst[s].calm => TstLoaded(s) = tst[s].env

\* What the alibs.cmd that abuild.cmd calls has been given, and makes of it.
Callee(s) ==
    ab[s].pc = "alibs" /\ ab[s].calm =>
        /\ al[s].pc = "load" =>
              /\ al[s].env = ab[s].env
              /\ al[s].args = IF ab[s].arg = "" THEN <<>> ELSE <<ab[s].arg>>
        /\ Running(s) =>
              /\ al[s].env = ab[s].env
              /\ al[s].targets = TargetLibs(ab[s].env.var, <<>>)

SettledInv ==
    /\ CfgKnown
    /\ \A s \in Sessions : Shape(s) /\ AbSettled(s) /\ TstSettled(s) /\ Callee(s)

LEMMA CfgKnownStep ==
    ASSUME BuildTypeInv, CfgKnown, [BuildNext]_buildVars
    PROVE  CfgKnown'
<1>1. CASE UNCHANGED cfg
  BY <1>1 DEF CfgKnown
<1>2. ASSUME NEW c \in DOMAIN Versions, NEW f \in Versions[c], EditConfig(c, f)
      PROVE  CfgKnown'
  BY <1>2, BuildTypeParts DEF EditConfig, CfgKnown, TypeInv, TypeOK
<1>. QED
  BY <1>1, <1>2, CfgStays, BuildSteps DEF BuildEdit, UpdateSource, buildVars, vars, tree

\* A config that does not exist does not make settings from nothing.
LEMMA NoFileIncomplete ==
    ASSUME NEW arg
    PROVE  ~MustHave(LoadSettings(EmptyEnv, <<>>, arg).var)
<1>1. Setters(<<>>, 0, "LIBAROMA_SOURCE") = {}
  BY DEF Setters
<1>2. LoadedVars(EmptyEnv.var, <<>>, 0)["LIBAROMA_SOURCE"] = ""
  BY <1>1 DEF LoadedVars, Key, EmptyEnv
<1>3. ~MustHave(LoadedVars(EmptyEnv.var, <<>>, 0))
  BY <1>2 DEF MustHave
<1>. QED
  BY <1>3 DEF LoadSettings

LEMMA AbSettledOwn ==
    ASSUME FilesLeaveDerived, BuildTypeInv, CfgKnown, NEW s \in Sessions, Shape(s),
           AbSettled(s), OwnStep(s)
    PROVE  AbSettled(s)'
<1>1. cfg' = cfg
  BY CfgStays
<1>2. CASE AbuildLoad(s)
  <2>1. /\ ab'[s].arg = ab[s].arg /\ ab'[s].env = AbLoaded(s)
    BY <1>2, AbuildLoadMoves DEF AbTo
  <2>2. ab[s].env \in Env /\ ab[s].arg \in DOMAIN Versions
    BY BuildTypeParts DEF AbType, AbuildFrame
  <2>3. cfg[ab[s].arg] \in Versions[ab[s].arg] /\ cfg[ab[s].arg] \in ConfigFile
    BY <2>2, VersionsAssumption DEF CfgKnown
  <2>4. LoadSettings(AbLoaded(s), cfg[ab[s].arg], ab[s].arg) = AbLoaded(s)
    BY <2>2, <2>3, ReloadStable DEF AbLoaded, FilesLeaveDerived
  <2>5. MustHave(AbLoaded(s).var)
    BY <1>2 DEF AbuildLoad, AbLoaded
  <2>6. ASSUME ab[s].arg # "" PROVE cfg[ab[s].arg] # <<>>
    <3>1. ab[s].env = EmptyEnv
      BY <1>2, <2>6 DEF Shape, AbuildLoad
    <3>. QED
      BY <2>5, <3>1, NoFileIncomplete DEF AbLoaded
  <2>. QED
    BY <1>1, <2>1, <2>4, <2>5, <2>6 DEF AbSettled, AbLoaded
<1>3. CASE ~AbuildLoad(s)
  BY <1>1, <1>3, AbOwn DEF AbKeeps, AbSettled, AbLoaded, PastLoad
<1>. QED
  BY <1>2, <1>3

LEMMA TstSettledOwn ==
    ASSUME FilesLeaveDerived, BuildTypeInv, CfgKnown, NEW s \in Sessions,
           TstSettled(s), OwnStep(s)
    PROVE  TstSettled(s)'
<1>1. cfg' = cfg
  BY CfgStays
<1>2. CASE AtestLoad(s)
  <2>1. /\ tst'[s].arg = tst[s].arg /\ tst'[s].env = TstLoaded(s)
    BY <1>2, AtestLoadMoves DEF TstTo
  <2>2. tst[s].env \in Env /\ tst[s].arg \in DOMAIN Versions
    BY BuildTypeParts DEF TstType, AtestFrame
  <2>3. cfg[tst[s].arg] \in Versions[tst[s].arg] /\ cfg[tst[s].arg] \in ConfigFile
    BY <2>2, VersionsAssumption DEF CfgKnown
  <2>4. LoadSettings(TstLoaded(s), cfg[tst[s].arg], tst[s].arg) = TstLoaded(s)
    BY <2>2, <2>3, ReloadStable DEF TstLoaded, FilesLeaveDerived
  <2>. QED
    BY <1>1, <2>1, <2>4 DEF TstSettled, TstLoaded
<1>3. CASE ~AtestLoad(s)
  BY <1>1, <1>3, TstOwn DEF TstKeeps, TstSettled, TstLoaded, PastLoad
<1>. QED
  BY <1>2, <1>3

\* abuild.cmd passes on its environment and its argument, which alibs.cmd takes
\* for the config's name and not for a library's.
LEMMA CalleeLoads ==
    ASSUME BuildTypeInv, NEW s \in Sessions, AbSettled(s), Callee(s),
           ab[s].pc = "alibs", ab[s].calm, al[s].pc = "load"
    PROVE  Loaded(s) = ab[s].env /\ NameArgs(al[s].args) = <<>>
<1>1. /\ al[s].env = ab[s].env
      /\ al[s].args = IF ab[s].arg = "" THEN <<>> ELSE <<ab[s].arg>>
  BY DEF Callee
<1>2. AbLoaded(s) = ab[s].env /\ (ab[s].arg # "" => cfg[ab[s].arg] # <<>>)
  BY DEF AbSettled, PastLoad
<1>3. ab[s].arg \in DOMAIN cfg
  BY BuildTypeParts DEF AbType, TypeInv, TypeOK
<1>4. CASE ab[s].arg = ""
  BY <1>1, <1>2, <1>4 DEF Loaded, AbLoaded, ConfigArg, NameArgs, NamesConfig
<1>5. CASE ab[s].arg # ""
  <2>1. al[s].args = <<ab[s].arg>>
    BY <1>1, <1>5
  <2>2. al[s].args # <<>> /\ Head(al[s].args) = ab[s].arg /\ Tail(al[s].args) = <<>>
    BY <2>1
  <2>3. NamesConfig(al[s].args)
    BY <1>2, <1>3, <1>5, <2>2 DEF NamesConfig
  <2>. QED
    BY <1>1, <1>2, <2>2, <2>3 DEF Loaded, AbLoaded, ConfigArg, NameArgs
<1>. QED
  BY <1>4, <1>5

LEMMA CalleeOwn ==
    ASSUME BuildTypeInv, NEW s \in Sessions, Shape(s), AbSettled(s), Callee(s), OwnStep(s)
    PROVE  Callee(s)'
<1> SUFFICES ASSUME ab'[s].pc = "alibs", ab'[s].calm PROVE Callee(s)'
  BY DEF Callee
<1>1. CASE AbuildCallsAlibs(s)
  <2>1. /\ al'[s].pc = "load" /\ al'[s].env = ab[s].env
        /\ al'[s].args = IF ab[s].arg = "" THEN <<>> ELSE <<ab[s].arg>>
    BY <1>1, CalledFrame, AlSet, BuildTypeParts
  <2>2. ab'[s].env = ab[s].env /\ ab'[s].arg = ab[s].arg
    BY <1>1, AbuildMoves DEF AbGoes, AbTo
  <2>. QED
    BY <2>1, <2>2 DEF Callee, Running
<1>2. CASE BuildAlibsStep(s) /\ ab[s].pc = "alibs"
  <2>1. ab'[s].env = ab[s].env /\ ab'[s].arg = ab[s].arg /\ ab[s].calm
    BY <1>2, OthersMove DEF AbStays, SameAb
  <2>2. AlibsStep(s)
    BY <1>2 DEF BuildAlibsStep
  <2>3. IdleFrame.pc = "idle"
    BY DEF IdleFrame
  <2>4. CASE AlibsLoad(s)
    <3>1. /\ al'[s].pc = "enter" /\ al'[s].env = Loaded(s)
          /\ al'[s].targets = TargetLibs(Loaded(s).var, NameArgs(al[s].args))
      <4>1. al[s] \in Frame
        BY BuildTypeParts DEF TypeInv, TypeOK
      <4>. QED
        BY <2>4, <4>1 DEF AlibsLoad, Frame
    <3>2. Loaded(s) = ab[s].env /\ NameArgs(al[s].args) = <<>>
      BY <1>2, <2>1, <2>4, CalleeLoads DEF AlibsLoad
    <3>. QED
      BY <2>1, <3>1, <3>2 DEF Callee, Running
  <2>5. CASE AlibsGiveUp(s)
    BY <2>3, <2>5, AlSet, BuildTypeParts DEF AlibsGiveUp, Callee, Running
  <2>6. CASE Running(s)
    <3>1. \/ al' = [al EXCEPT ![s] = IdleFrame]
          \/ GoesWith(s, al'[s])
      BY <2>2, <2>6, OwnAl, BuildTypeParts
    <3>2. CASE al' = [al EXCEPT ![s] = IdleFrame]
      BY <2>3, <3>2, AlSet, BuildTypeParts DEF Callee, Running
    <3>3. CASE GoesWith(s, al'[s])
      BY <1>2, <2>1, <2>6, <3>3 DEF GoesWith, Callee, Running
    <3>. QED
      BY <3>1, <3>2, <3>3
  <2>7. AlibsLoad(s) \/ AlibsGiveUp(s) \/ Running(s)
    BY <2>2 DEF AlibsStep, AlibsEnter, AlibsDone, AlibsInvalid, AlibsPrepare, AlibsCompile,
       AlibsList, AlibsArRead, AlibsArRefuse, AlibsArWrite, AlibsUp, AlibsEnd, Running
  <2>. QED
    BY <2>4, <2>5, <2>6, <2>7
<1>. QED
  BY <1>1, <1>2, AtAlibs

LEMMA SettledSame ==
    ASSUME NEW t, Same(t), cfg' = cfg, AbSettled(t), TstSettled(t), Callee(t)
    PROVE  AbSettled(t)' /\ TstSettled(t)' /\ Callee(t)'
<1>1. AbSettled(t)'
  BY DEF Same, SameAb, AbSettled, AbLoaded, PastLoad
<1>2. TstSettled(t)'
  BY DEF Same, SameTst, TstSettled, TstLoaded, PastLoad
<1>3. Callee(t)'
  BY DEF Same, SameAb, SameAl, Callee, Running
<1>. QED
  BY <1>1, <1>2, <1>3

LEMMA SettledStep ==
    ASSUME FilesLeaveDerived, BuildTypeInv, SettledInv, [BuildNext]_buildVars
    PROVE  SettledInv'
<1>1. CfgKnown' /\ \A s \in Sessions : Shape(s)'
  BY CfgKnownStep, ShapeStep DEF SettledInv
<1>2. ASSUME NEW s \in Sessions, OwnStep(s), NEW t \in Sessions
      PROVE  AbSettled(t)' /\ TstSettled(t)' /\ Callee(t)'
  <2>1. CASE t = s
    BY <1>2, <2>1, AbSettledOwn, TstSettledOwn, CalleeOwn DEF SettledInv
  <2>2. CASE t # s
    BY <1>2, <2>2, OthersSame, CfgStays, SettledSame DEF SettledInv
  <2>. QED
    BY <2>1, <2>2
<1>3. ASSUME BuildEdit, NEW t \in Sessions
      PROVE  AbSettled(t)' /\ TstSettled(t)' /\ Callee(t)'
  BY <1>3, EditDisturbs DEF AbSettled, TstSettled, Callee, PastLoad
<1>4. ASSUME UNCHANGED buildVars, NEW t \in Sessions
      PROVE  AbSettled(t)' /\ TstSettled(t)' /\ Callee(t)'
  <2>1. cfg' = cfg
    BY <1>4 DEF buildVars, vars, tree
  <2>. QED
    BY <1>4, <2>1, EditSame, SettledSame DEF SettledInv
<1>. QED
  BY <1>1, <1>2, <1>3, <1>4, BuildSteps DEF SettledInv

LEMMA SettledInit == BuildInit => SettledInv
<1> SUFFICES ASSUME BuildInit PROVE SettledInv
  OBVIOUS
<1>1. \A s \in Sessions : al[s].pc = "idle" /\ ab[s].pc = "idle" /\ tst[s].pc = "idle"
  BY DEF BuildInit, Init, IdleFrame, NoAbuild, NoAtest
<1>2. CfgKnown
  BY DEF BuildInit, Init, CfgKnown
<1>. QED
  BY <1>1, <1>2 DEF SettledInv, Shape, AbSettled, TstSettled, Callee, PastLoad

\* Unless a config file sets the derived variable, the alibs.cmd that an
\* undisturbed abuild.cmd called has the settings of its caller.
THEOREM CalleesAgree ==
    ASSUME FilesLeaveDerived
    PROVE  BuildSpec => []CalleeAgrees
<1>1. BuildTypeInv /\ SettledInv /\ [BuildNext]_buildVars => SettledInv'
  BY SettledStep
<1>2. SettledInv => CalleeAgrees
  BY DEF SettledInv, Callee, CalleeAgrees
<1>. QED
  BY <1>1, <1>2, SettledInit, BuildTypeInvHolds, PTL DEF BuildSpec
-----------------------------------------------------------------------------
(***************************************************************************)
(* What a chain of scripts that nothing disturbs achieves: abuild.cmd makes*)
(* the archive of libaroma right, and atest.cmd, from scratch, links its   *)
(* program.  For any number of consoles, any config files and command lines*)
(* and any failures, interruptions and updates elsewhere.                  *)
(*                                                                         *)
(* An undisturbed run has its folder to itself, so what it has put there is*)
(* there when it, or the script that called it, looks again.               *)
(***************************************************************************)

(***************************************************************************)
(* An undisturbed run of abuild.cmd or atest.cmd has its folder to itself: *)
(* a script that starts to use a folder disturbs those that use it, and    *)
(* itself.                                                                 *)
(***************************************************************************)
Alone(s) ==
    \A t \in Sessions \ {s}, o \in OutName :
        /\ PastLoad(ab[s]) /\ ab[s].calm /\ ab[s].env.out = o => ~Uses(t, o)
        /\ PastLoad(tst[s]) /\ tst[s].calm /\ tst[s].env.out = o => ~Uses(t, o)

LEMMA UsesSame ==
    ASSUME NEW t, Same(t), NEW x
    PROVE  Uses(t, x)' <=> Uses(t, x)
  BY DEF Same, SameAl, SameAb, SameTst, Uses, Running, Out

LEMMA AlUse ==
    ASSUME TypeInv, NEW s \in Sessions, AlibsStep(s), ~AlibsLoad(s), NEW x,
           Running(s)', Out(s)' = x
    PROVE  Running(s) /\ Out(s) = x
<1>0. IdleFrame.pc = "idle"
  BY DEF IdleFrame
<1>1. CASE AlibsGiveUp(s)
  BY <1>0, <1>1, AlSet DEF AlibsGiveUp, Running
<1>2. CASE Running(s)
  <2>1. CASE al' = [al EXCEPT ![s] = IdleFrame]
    BY <1>0, <2>1, AlSet DEF Running
  <2>. QED
    BY <1>2, <2>1, OwnAl DEF GoesWith, Running, Out
<1>3. AlibsGiveUp(s) \/ Running(s)
  BY DEF AlibsStep, AlibsEnter, AlibsDone, AlibsInvalid, AlibsPrepare, AlibsCompile,
     AlibsList, AlibsArRead, AlibsArRefuse, AlibsArWrite, AlibsUp, AlibsEnd, Running
<1>. QED
  BY <1>1, <1>2, <1>3

\* The alibs.cmd of console s starts to use a folder when it loads its settings.
LEMMA AlUses ==
    ASSUME BuildTypeInv, NEW s \in Sessions, OwnStep(s), NEW x, Running(s)', Out(s)' = x
    PROVE  (Running(s) /\ Out(s) = x) \/ (BuildAlibsStep(s) /\ AlibsLoad(s))
<1>1. CASE al' = al
  BY <1>1 DEF Running, Out
<1>2. ASSUME NEW f, al' = [al EXCEPT ![s] = f], f.pc \in {"idle", "load"}
      PROVE  ~Running(s)'
  BY <1>2, AlSet, BuildTypeParts DEF Running
<1>3. CASE Command(s)
  <2>1. \A args : [IdleFrame EXCEPT !.pc = "load", !.args = args].pc = "load"
    BY DEF IdleFrame
  <2>. QED
    BY <1>1, <1>2, <1>3, <2>1 DEF Command, RunAlibs, RunAbuild, RunAtest, vars
<1>4. CASE BuildInterrupt(s)
  <2>1. IdleFrame.pc = "idle"
    BY DEF IdleFrame
  <2>. QED
    BY <1>2, <1>4, <2>1 DEF BuildInterrupt
<1>5. CASE BuildAlibsStep(s)
  BY <1>5, AlUse, BuildTypeParts DEF BuildAlibsStep
<1>6. CASE AbuildStep(s)
  <2>1. CASE AbuildCallsAlibs(s)
    BY <1>2, <2>1, CalledFrame
  <2>. QED
    BY <1>1, <1>6, <2>1 DEF AbuildStep, AbuildLoad, AbuildGiveUp, AbuildHasLibs,
       AbuildGoesOn, AbuildPrepare, AbuildCompile, AbuildArchive, AbuildEnd, vars
<1>7. CASE AtestStep(s)
  BY <1>1, <1>7 DEF AtestStep, AtestLoad, AtestHasAroma, AtestCallsAbuild, AtestGoesOn,
     AtestLink, AtestEnd, vars
<1>. QED
  BY <1>3, <1>4, <1>5, <1>6, <1>7 DEF OwnStep, ScriptStep

\* A step in which no script loads its settings.
LEMMA NoLoad ==
    ASSUME BuildTypeInv, NEW s \in Sessions, OwnStep(s), \A t \in Sessions : Alone(t),
           ~AbuildLoad(s), ~AtestLoad(s), ~(BuildAlibsStep(s) /\ AlibsLoad(s))
    PROVE  \A t \in Sessions : Alone(t)'
<1>1. \A x : Uses(s, x)' => Uses(s, x)
  BY AlUses, AbOwn, TstOwn DEF Uses, AbKeeps, TstKeeps, PastLoad
<1>2. \A t \in Sessions : \A x : Uses(t, x)' => Uses(t, x)
  BY <1>1, OthersSame, UsesSame
<1>3. \A t \in Sessions : AbKeeps(t) /\ TstKeeps(t)
  BY AbOwn, TstOwn, OthersSame, SameKeeps DEF Same
<1>. QED
  BY <1>2, <1>3 DEF Alone, AbKeeps, TstKeeps, PastLoad

\* A step in which console s starts to use folder o.
LEMMA OneLoad ==
    ASSUME BuildTypeInv, NEW s \in Sessions, OwnStep(s), \A t \in Sessions : Alone(t),
           NEW o,
           \A x : Uses(s, x)' => Uses(s, x) \/ x = o,
           \A t \in Others(s, o) :
               /\ PastLoad(ab'[t]) => ~ab'[t].calm
               /\ PastLoad(tst'[t]) => ~tst'[t].calm,
           \/ AbKeeps(s)
           \/ ab'[s].env.out = o /\ (ab'[s].calm => Others(s, o) = {}),
           \/ TstKeeps(s)
           \/ tst'[s].env.out = o /\ (tst'[s].calm => Others(s, o) = {})
    PROVE  \A t \in Sessions : Alone(t)'
<1>1. ASSUME NEW t \in Sessions, t # s PROVE Alone(t)'
  <2>1. AbKeeps(t) /\ TstKeeps(t) /\ Same(t)
    BY <1>1, OthersSame, SameKeeps DEF Same
  <2>2. ASSUME NEW u \in Sessions, u # t, NEW x, Uses(u, x)'
        PROVE  Uses(u, x) \/ (u = s /\ x = o)
    BY <2>2, OthersSame, UsesSame
  <2>3. ASSUME PastLoad(ab'[t]), ab'[t].calm, ab'[t].env.out = o PROVE FALSE
    <3>1. Uses(t, o)'
      BY <2>3 DEF Uses, PastLoad
    <3>2. t \in Others(s, o)
      BY <1>1, <2>1, <3>1, UsesSame DEF Others
    <3>. QED
      BY <2>3, <3>2
  <2>4. ASSUME PastLoad(tst'[t]), tst'[t].calm, tst'[t].env.out = o PROVE FALSE
    <3>1. Uses(t, o)'
      BY <2>4 DEF Uses, PastLoad
    <3>2. t \in Others(s, o)
      BY <1>1, <2>1, <3>1, UsesSame DEF Others
    <3>. QED
      BY <2>4, <3>2
  <2>5. ASSUME NEW u \in Sessions \ {t}, NEW x \in OutName, PastLoad(ab'[t]), ab'[t].calm,
               ab'[t].env.out = x
        PROVE  ~Uses(u, x)'
    BY <2>1, <2>2, <2>3, <2>5 DEF Alone, AbKeeps
  <2>6. ASSUME NEW u \in Sessions \ {t}, NEW x \in OutName, PastLoad(tst'[t]), tst'[t].calm,
               tst'[t].env.out = x
        PROVE  ~Uses(u, x)'
    BY <2>1, <2>2, <2>4, <2>6 DEF Alone, TstKeeps
  <2>. QED
    BY <2>5, <2>6 DEF Alone
<1>2. Alone(s)'
  <2>1. ASSUME NEW u \in Sessions \ {s}, NEW x, Uses(u, x)'
        PROVE  Uses(u, x) /\ (x = o => Others(s, o) # {})
    BY <2>1, OthersSame, UsesSame DEF Others
  <2>2. ASSUME NEW u \in Sessions \ {s}, NEW x \in OutName, PastLoad(ab'[s]), ab'[s].calm,
               ab'[s].env.out = x
        PROVE  ~Uses(u, x)'
    BY <2>1, <2>2 DEF Alone, AbKeeps
  <2>3. ASSUME NEW u \in Sessions \ {s}, NEW x \in OutName, PastLoad(tst'[s]), tst'[s].calm,
               tst'[s].env.out = x
        PROVE  ~Uses(u, x)'
    BY <2>1, <2>3 DEF Alone, TstKeeps
  <2>. QED
    BY <2>2, <2>3 DEF Alone
<1>. QED
  BY <1>1, <1>2

-----------------------------------------------------------------------------
LEMMA DisturbedRun ==
    ASSUME NEW F, NEW D, NEW G, G = Disturb(F, D), NEW t \in Sessions, t \in D,
           F[t] \in AbuildFrame \/ F[t] \in AtestFrame
    PROVE  PastLoad(G[t]) => ~G[t].calm
<1>1. CASE F[t].pc = "idle"
  BY <1>1 DEF Disturb, PastLoad
<1>2. CASE F[t].pc # "idle"
  <2>1. G[t] = [F[t] EXCEPT !.calm = FALSE]
    BY <1>2 DEF Disturb
  <2>2. ~([F[t] EXCEPT !.calm = FALSE].calm)
    BY DEF AbuildFrame, AtestFrame
  <2>. QED
    BY <2>1, <2>2
<1>. QED
  BY <1>1, <1>2

LEMMA AloneAbuild ==
    ASSUME BuildTypeInv, NEW s \in Sessions, AbuildLoad(s), \A t \in Sessions : Alone(t)
    PROVE  \A t \in Sessions : Alone(t)'
<1> DEFINE o == AbLoaded(s).out
<1>1. /\ ab'[s].env.out = o /\ (ab'[s].calm => Others(s, o) = {})
      /\ TstStays
  BY AbuildLoadMoves DEF AbTo
<1>2. PICK f, E : /\ ab' = Disturb([ab EXCEPT ![s] = f], Others(s, o))
                  /\ tst' = Disturb(tst, E)
                  /\ Others(s, o) # {} => E = Others(s, o) \union {s}
  BY DEF AbuildLoad, AbLoaded
<1>3. \A t \in Sessions : ab[t] \in AbuildFrame /\ tst[t] \in AtestFrame
  BY BuildTypeParts DEF AbType, TstType
<1>4. AbType
  BY BuildTypeParts
<1> HIDE DEF o
<1>5. ASSUME NEW t \in Others(s, o)
      PROVE  /\ PastLoad(ab'[t]) => ~ab'[t].calm
             /\ PastLoad(tst'[t]) => ~tst'[t].calm
  <2>1. t \in Sessions /\ t # s /\ t \in E
    BY <1>2, <1>5 DEF Others
  <2>2. [ab EXCEPT ![s] = f][t] = ab[t]
    BY <1>4, <2>1 DEF AbType
  <2>. QED
    BY <1>2, <1>3, <1>5, <2>1, <2>2, DisturbedRun
<1>6. al' = al
  BY DEF AbuildLoad, vars
<1>7. SameTst(s)
  BY <1>1 DEF TstStays
<1>8. \A x : Uses(s, x)' => Uses(s, x) \/ x = o
  BY <1>1, <1>6, <1>7 DEF Uses, Running, Out, SameTst
<1>9. TstKeeps(s) /\ OwnStep(s)
  BY <1>7, SameKeeps DEF OwnStep, ScriptStep, AbuildStep
<1>. QED
  BY <1>1, <1>5, <1>8, <1>9, OneLoad

LEMMA AloneAtest ==
    ASSUME BuildTypeInv, NEW s \in Sessions, AtestLoad(s), \A t \in Sessions : Alone(t)
    PROVE  \A t \in Sessions : Alone(t)'
<1> DEFINE o == TstLoaded(s).out
<1>1. /\ tst'[s].env.out = o /\ (tst'[s].calm => Others(s, o) = {})
      /\ AbStays
  BY AtestLoadMoves DEF TstTo
<1>2. PICK f : /\ tst' = Disturb([tst EXCEPT ![s] = f], Others(s, o))
               /\ ab' = Disturb(ab, Others(s, o))
  BY DEF AtestLoad, TstLoaded
<1>3. \A t \in Sessions : ab[t] \in AbuildFrame /\ tst[t] \in AtestFrame
  BY BuildTypeParts DEF AbType, TstType
<1>4. TstType
  BY BuildTypeParts
<1> HIDE DEF o
<1>5. ASSUME NEW t \in Others(s, o)
      PROVE  /\ PastLoad(ab'[t]) => ~ab'[t].calm
             /\ PastLoad(tst'[t]) => ~tst'[t].calm
  <2>1. t \in Sessions /\ t # s
    BY <1>5 DEF Others
  <2>2. [tst EXCEPT ![s] = f][t] = tst[t]
    BY <1>4, <2>1 DEF TstType
  <2>. QED
    BY <1>2, <1>3, <1>5, <2>1, <2>2, DisturbedRun
<1>6. al' = al
  BY DEF AtestLoad, vars
<1>7. SameAb(s)
  BY <1>1 DEF AbStays
<1>8. \A x : Uses(s, x)' => Uses(s, x) \/ x = o
  BY <1>1, <1>6, <1>7 DEF Uses, Running, Out, SameAb
<1>9. AbKeeps(s) /\ OwnStep(s)
  BY <1>7, SameKeeps DEF OwnStep, ScriptStep, AtestStep
<1>. QED
  BY <1>1, <1>5, <1>8, <1>9, OneLoad

LEMMA AloneAlibs ==
    ASSUME BuildTypeInv, NEW s \in Sessions, BuildAlibsStep(s), AlibsLoad(s),
           \A t \in Sessions : Alone(t)
    PROVE  \A t \in Sessions : Alone(t)'
<1> DEFINE o == al'[s].env.out
<1>1. AbStays /\ TstStays
  BY OthersMove
<1>2. al[s].pc = "load" /\ al'[s].pc = "enter"
  <2>1. al[s] \in Frame
    BY BuildTypeParts DEF TypeInv, TypeOK
  <2>. QED
    BY <2>1 DEF AlibsLoad, Frame
<1>3. PICK D : Others(s, o) \subseteq D /\ ab' = Disturb(ab, D) /\ tst' = Disturb(tst, D)
  BY <1>2 DEF BuildAlibsStep
<1>4. \A t \in Sessions : ab[t] \in AbuildFrame /\ tst[t] \in AtestFrame
  BY BuildTypeParts DEF AbType, TstType
<1>5. Running(s)' => Out(s)' = o
  BY DEF Out
<1> HIDE DEF o
<1>6. ASSUME NEW t \in Others(s, o)
      PROVE  /\ PastLoad(ab'[t]) => ~ab'[t].calm
             /\ PastLoad(tst'[t]) => ~tst'[t].calm
  BY <1>3, <1>4, <1>6, DisturbedRun DEF Others
<1>7. SameAb(s) /\ SameTst(s)
  BY <1>1 DEF AbStays, TstStays
<1>8. \A x : Uses(s, x)' => Uses(s, x) \/ x = o
  BY <1>5, <1>7 DEF Uses, SameAb, SameTst
<1>9. AbKeeps(s) /\ TstKeeps(s) /\ OwnStep(s)
  BY <1>7, SameKeeps DEF OwnStep, ScriptStep
<1>. QED
  BY <1>6, <1>8, <1>9, OneLoad

LEMMA AloneStep ==
    ASSUME BuildTypeInv, \A t \in Sessions : Alone(t), [BuildNext]_buildVars
    PROVE  \A t \in Sessions : Alone(t)'
<1>1. ASSUME NEW s \in Sessions, OwnStep(s) PROVE \A t \in Sessions : Alone(t)'
  BY <1>1, NoLoad, AloneAbuild, AloneAtest, AloneAlibs
<1>2. ASSUME BuildEdit \/ UNCHANGED buildVars PROVE \A t \in Sessions : Alone(t)'
  <2>1. \A t \in Sessions : Same(t)
    BY <1>2, EditSame
  <2>2. \A t \in Sessions : \A x : Uses(t, x)' => Uses(t, x)
    BY <2>1, UsesSame
  <2>. QED
    BY <2>1, <2>2 DEF Alone, Same, SameAb, SameTst, PastLoad
<1>. QED
  BY <1>1, <1>2, BuildSteps

-----------------------------------------------------------------------------
(***************************************************************************)
(* The archives and objects of a folder change only in steps of consoles   *)
(* whose runs have loaded it, so that an undisturbed run finds what it has *)
(* left there.                                                             *)
(***************************************************************************)
LibsKept(o) == InFolder(adeps', o) = InFolder(adeps, o) /\ (o \in made' <=> o \in made)

AromaKept(o) ==
    /\ InAroma(aobjs', o) = InAroma(aobjs, o)
    /\ InAroma(laroma', o) = InAroma(laroma, o)
    /\ o \in lmade' <=> o \in lmade

FilesKept(o) == LibsKept(o) /\ AromaKept(o)

LEMMA FilesStill ==
    ASSUME UNCHANGED <<adeps, made, aromaFiles>>
    PROVE  \A o : FilesKept(o)
  BY DEF aromaFiles, FilesKept, LibsKept, AromaKept

LEMMA LibsOwned ==
    ASSUME CalmInv, NEW s \in Sessions, AlibsStep(s), NEW o, ~(Running(s) /\ Out(s) = o)
    PROVE  LibsKept(o)
<1>1. CASE AlibsArWrite(s)
  <2>1. Out(s) # o /\ al[s].pc = "arWrite"
    BY <1>1 DEF AlibsArWrite, Running
  <2>2. \A x \in al[s].mem : x.out = Out(s)
    BY <2>1 DEF CalmInv, Position
  <2>. QED
    BY <1>1, <2>1, <2>2 DEF AlibsArWrite, InFolder, LibsKept
<1>2. CASE ~AlibsArWrite(s)
  <2>1. adeps' = adeps /\ made' = made
    BY <1>2 DEF AlibsStep, AlibsLoad, AlibsGiveUp, AlibsEnter, AlibsDone, AlibsInvalid,
       AlibsPrepare, AlibsCompile, AlibsList, AlibsArRead, AlibsArRefuse, AlibsUp, AlibsEnd,
       tree
  <2>. QED
    BY <2>1 DEF LibsKept
<1>. QED
  BY <1>1, <1>2

LEMMA AromaOwned ==
    ASSUME NEW s \in Sessions, AbuildStep(s), NEW o,
           ~(ab[s].pc \notin {"idle", "load"} /\ AbuildOut(s) = o)
    PROVE  FilesKept(o)
<1>0. ASSUME UNCHANGED tree PROVE LibsKept(o)
  BY <1>0 DEF tree, LibsKept
<1>1. CASE AbuildPrepare(s)
  <2>1. AbuildOut(s) # o /\ UNCHANGED <<tree, laroma, lmade>>
    BY <1>1 DEF AbuildPrepare
  <2>2. aobjs' \in {aobjs, aobjs \ InAroma(aobjs, AbuildOut(s))}
    BY <1>1 DEF AbuildPrepare
  <2>. QED
    BY <1>0, <2>1, <2>2 DEF InAroma, AromaKept, FilesKept
<1>2. CASE AbuildCompile(s)
  <2>1. AbuildOut(s) # o /\ UNCHANGED <<tree, laroma, lmade>>
    BY <1>2 DEF AbuildCompile
  <2>2. PICK good : aobjs' \in {aobjs, AromaReplace(aobjs, {AromaCompiled(s, u) : u \in good})}
    BY <1>2 DEF AbuildCompile
  <2>3. InAroma(aobjs', o) = InAroma(aobjs, o)
    BY <2>1, <2>2 DEF InAroma, AromaReplace, AromaCompiled, SameAromaFile
  <2>. QED
    BY <1>0, <2>1, <2>3 DEF AromaKept, FilesKept
<1>3. CASE AbuildArchive(s)
  <2>1. AbuildOut(s) # o /\ UNCHANGED <<tree, aobjs>>
    BY <1>3 DEF AbuildArchive, vars
  <2>2. \/ UNCHANGED <<laroma, lmade>>
        \/ /\ laroma' = AromaReplace(laroma, InAroma(aobjs, AbuildOut(s)))
           /\ lmade' = lmade \union {AbuildOut(s)}
    BY <1>3 DEF AbuildArchive
  <2>. QED
    BY <1>0, <2>1, <2>2 DEF InAroma, AromaReplace, SameAromaFile, AromaKept, FilesKept
<1>4. CASE AbuildCallsAlibs(s)
  BY <1>0, <1>4 DEF AbuildCallsAlibs, aromaFiles, AromaKept, FilesKept
<1>5. CASE \/ AbuildLoad(s) \/ AbuildGiveUp(s) \/ AbuildHasLibs(s) \/ AbuildGoesOn(s)
           \/ AbuildEnd(s)
  BY <1>0, <1>5 DEF AbuildLoad, AbuildGiveUp, AbuildHasLibs, AbuildGoesOn, AbuildEnd, vars,
     aromaFiles, AromaKept, FilesKept
<1>. QED
  BY <1>1, <1>2, <1>3, <1>4, <1>5 DEF AbuildStep

LEMMA FilesOwned ==
    ASSUME CalmInv, NEW s \in Sessions, OwnStep(s), NEW o, ~Uses(s, o)
    PROVE  FilesKept(o)
<1>1. CASE Command(s) \/ BuildInterrupt(s) \/ AtestStep(s)
  <2>1. UNCHANGED <<adeps, made, aromaFiles>>
    BY <1>1 DEF Command, RunAlibs, RunAbuild, RunAtest, BuildInterrupt, AtestStep, AtestLoad,
       AtestHasAroma, AtestCallsAbuild, AtestGoesOn, AtestLink, AtestEnd, vars, tree
  <2>. QED
    BY <2>1, FilesStill
<1>2. CASE BuildAlibsStep(s)
  BY <1>2, LibsOwned DEF BuildAlibsStep, Uses, aromaFiles, AromaKept, FilesKept
<1>3. CASE AbuildStep(s)
  BY <1>3, AromaOwned DEF Uses, AbuildOut
<1>. QED
  BY <1>1, <1>2, <1>3 DEF OwnStep, ScriptStep

\* What other consoles do, and what the user edits, leaves the folder of an
\* undisturbed run alone.
LEMMA FolderKept ==
    ASSUME BuildTypeInv, CalmInv, NEW s \in Sessions, OwnStep(s), NEW t \in Sessions, t # s,
           Alone(t)
    PROVE  /\ PastLoad(ab[t]) /\ ab[t].calm => FilesKept(ab[t].env.out)
           /\ PastLoad(tst[t]) /\ tst[t].calm => FilesKept(tst[t].env.out)
<1>1. ab[t].env.out \in OutName /\ tst[t].env.out \in OutName
  BY BuildTypeParts DEF AbType, TstType, AbuildFrame, AtestFrame, Env
<1>. QED
  BY <1>1, FilesOwned DEF Alone

-----------------------------------------------------------------------------
(***************************************************************************)
(* abuild.cmd from its empty folder to its archive.                        *)
(***************************************************************************)
AromaNew(s) == {AromaCompiled(s, u) : u \in AromaUnits(ab[s].env.var)}

AromaRight(s) ==
    /\ AbuildOut(s) \in lmade
    /\ \A u \in AromaUnits(ab[s].env.var) :
          {x \in InAroma(laroma, AbuildOut(s)) : x.tu = u} = {AromaCompiled(s, u)}

Repairs(s) ==
    ab[s].calm =>
        /\ ab[s].pc = "compile" => ab[s].in /\ InAroma(aobjs, AbuildOut(s)) = {}
        /\ ab[s].pc = "archive" => ab[s].in /\ InAroma(aobjs, AbuildOut(s)) = AromaNew(s)
        /\ ab[s].pc = "end" => AromaRight(s)

LEMMA RepairsSame ==
    ASSUME NEW t, SameAb(t), PastLoad(ab[t]) /\ ab[t].calm => AromaKept(AbuildOut(t)),
           Repairs(t)
    PROVE  Repairs(t)'
<1> SUFFICES ASSUME ab'[t].calm, PastLoad(ab[t]) PROVE Repairs(t)'
  BY DEF SameAb, Repairs, PastLoad
<1>1. /\ AbuildOut(t)' = AbuildOut(t) /\ AromaNew(t)' = AromaNew(t)
      /\ \A u : AromaCompiled(t, u)' = AromaCompiled(t, u)
  BY DEF SameAb, AbuildOut, AromaNew, AromaCompiled
<1>2. ab[t].calm /\ AromaKept(AbuildOut(t)) /\ SameAb(t)
  BY DEF SameAb
<1>3. AromaRight(t) => AromaRight(t)'
  BY <1>1, <1>2 DEF SameAb, AromaKept, AromaRight
<1>. QED
  BY <1>1, <1>2, <1>3 DEF SameAb, AromaKept, Repairs

LEMMA RepairsPrepare ==
    ASSUME BuildTypeInv, NEW s \in Sessions, AbuildPrepare(s)
    PROVE  Repairs(s)'
<1>1. PICK i \in BOOLEAN, c \in BOOLEAN :
        /\ AbTo(s, "compile", ab[s].arg, ab[s].env, i, ab[s].scratch, c)
        /\ c => i /\ ab[s].calm /\ aobjs' = aobjs \ InAroma(aobjs, AbuildOut(s))
  BY AbuildPrepareMoves
<1>2. AbuildOut(s)' = AbuildOut(s) /\ ab'[s].pc = "compile"
  BY <1>1 DEF AbTo, AbuildOut
<1>. QED
  BY <1>1, <1>2 DEF AbTo, InAroma, Repairs

LEMMA RepairsCompile ==
    ASSUME BuildTypeInv, NEW s \in Sessions, Repairs(s), AbuildCompile(s)
    PROVE  Repairs(s)'
<1>1. PICK c \in BOOLEAN, good \in SUBSET AromaUnits(ab[s].env.var) :
        /\ AbTo(s, "archive", ab[s].arg, ab[s].env, ab[s].in, ab[s].scratch, c)
        /\ c => ab[s].calm /\ good = AromaUnits(ab[s].env.var)
        /\ aobjs' = IF ab[s].in
                    THEN AromaReplace(aobjs, {AromaCompiled(s, u) : u \in good})
                    ELSE aobjs
  BY AbuildCompileMoves
<1>2. /\ AbuildOut(s)' = AbuildOut(s) /\ AromaNew(s)' = AromaNew(s)
      /\ ab'[s].pc = "archive" /\ ab'[s].in = ab[s].in
  BY <1>1 DEF AbTo, AbuildOut, AromaNew, AromaCompiled
<1>3. ASSUME ab'[s].calm
      PROVE  ab[s].in /\ InAroma(aobjs', AbuildOut(s)) = AromaNew(s)
  <2>1. /\ ab[s].calm /\ ab[s].in /\ InAroma(aobjs, AbuildOut(s)) = {}
        /\ aobjs' = AromaReplace(aobjs, AromaNew(s))
    BY <1>1, <1>3 DEF AbTo, AbuildCompile, Repairs, AromaNew
  <2>2. \A x \in AromaNew(s) : x.out = AbuildOut(s)
    BY DEF AromaNew, AromaCompiled
  <2>. QED
    BY <2>1, <2>2 DEF InAroma, AromaReplace
<1>. QED
  BY <1>2, <1>3 DEF Repairs

LEMMA RepairsArchive ==
    ASSUME BuildTypeInv, NEW s \in Sessions, Repairs(s), AbuildArchive(s)
    PROVE  Repairs(s)'
<1>1. AbGoes(s, "end")
  BY AbuildMoves
<1>2. /\ AbuildOut(s)' = AbuildOut(s) /\ ab'[s].env = ab[s].env /\ ab'[s].pc = "end"
      /\ \A u : AromaCompiled(s, u)' = AromaCompiled(s, u)
  BY <1>1 DEF AbGoes, AbTo, AbuildOut, AromaCompiled
<1>3. ASSUME ab'[s].calm PROVE AromaRight(s)'
  <2>1. /\ AbuildOut(s) \in lmade'
        /\ laroma' = AromaReplace(laroma, AromaNew(s))
    BY <1>1, <1>3 DEF AbGoes, AbTo, AbuildArchive, Repairs
  <2>2. ASSUME NEW u \in AromaUnits(ab[s].env.var)
        PROVE  {x \in InAroma(laroma', AbuildOut(s)) : x.tu = u} = {AromaCompiled(s, u)}
    <3>1. AromaCompiled(s, u) \in AromaNew(s)
      BY DEF AromaNew
    <3>2. AromaCompiled(s, u).out = AbuildOut(s) /\ AromaCompiled(s, u).tu = u
      BY DEF AromaCompiled
    <3>3. ASSUME NEW x \in laroma', x.out = AbuildOut(s), x.tu = u
          PROVE  x = AromaCompiled(s, u)
      <4>1. x \in AromaNew(s)
        BY <2>1, <3>1, <3>2, <3>3 DEF AromaReplace, SameAromaFile
      <4>. QED
        BY <3>3, <4>1 DEF AromaNew, AromaCompiled
    <3>. QED
      BY <2>1, <3>1, <3>2, <3>3 DEF InAroma, AromaReplace
  <2>. QED
    BY <1>2, <2>1, <2>2 DEF AromaRight
<1>. QED
  BY <1>2, <1>3 DEF Repairs

LEMMA RepairsOwn ==
    ASSUME BuildTypeInv, NEW s \in Sessions, Repairs(s), OwnStep(s)
    PROVE  Repairs(s)'
<1>1. ASSUME ab'[s].pc \notin {"compile", "archive", "end"} PROVE Repairs(s)'
  BY <1>1 DEF Repairs
<1>2. ASSUME SameAb(s), UNCHANGED aromaFiles PROVE Repairs(s)'
  BY <1>2, RepairsSame DEF aromaFiles, AromaKept
<1>3. CASE Command(s)
  <2>1. SameAb(s) \/ ab'[s].pc = "load"
    BY <1>3, RunAbuildMoves, RunAtestMoves, OthersMove DEF Command, AbTo, AbStays
  <2>2. UNCHANGED aromaFiles
    BY <1>3 DEF Command, RunAbuild, RunAtest
  <2>. QED
    BY <1>1, <1>2, <2>1, <2>2
<1>4. CASE BuildInterrupt(s)
  BY <1>1, <1>4, InterruptMoves DEF AbResets, AbTo
<1>5. CASE BuildAlibsStep(s)
  BY <1>2, <1>5, OthersMove DEF BuildAlibsStep, AbStays
<1>6. CASE AbuildStep(s)
  <2>1. CASE \/ AbuildLoad(s) \/ AbuildGiveUp(s) \/ AbuildHasLibs(s) \/ AbuildCallsAlibs(s)
             \/ AbuildGoesOn(s) \/ AbuildEnd(s)
    BY <1>1, <2>1, AbuildLoadMoves, AbuildMoves DEF AbGoes, AbResets, AbTo
  <2>. QED
    BY <1>6, <2>1, RepairsPrepare, RepairsCompile, RepairsArchive DEF AbuildStep
<1>7. CASE AtestStep(s)
  <2>1. AbStays \/ ab'[s].pc = "load"
    BY <1>7, AtestLoadMoves, AtestMoves, AtestLinkMoves DEF AtestStep, AbTo
  <2>2. UNCHANGED aromaFiles
    BY <1>7 DEF AtestStep, AtestLoad, AtestHasAroma, AtestCallsAbuild, AtestGoesOn,
       AtestLink, AtestEnd
  <2>. QED
    BY <1>1, <1>2, <2>1, <2>2 DEF AbStays
<1>. QED
  BY <1>3, <1>4, <1>5, <1>6, <1>7 DEF OwnStep, ScriptStep

RepairInv == CalmInv /\ \A s \in Sessions : Alone(s) /\ Repairs(s)

LEMMA BuildCalmStep ==
    ASSUME BuildTypeInv, CalmInv, [BuildNext]_buildVars
    PROVE  CalmInv'
  BY AlibsHalf, InvStep, RestartCalm, BuildTypeParts DEF Inv

LEMMA RepairStep ==
    ASSUME BuildTypeInv, RepairInv, [BuildNext]_buildVars
    PROVE  RepairInv'
<1>1. CalmInv' /\ \A s \in Sessions : Alone(s)'
  BY BuildCalmStep, AloneStep DEF RepairInv
<1>2. ASSUME NEW s \in Sessions, OwnStep(s), NEW t \in Sessions PROVE Repairs(t)'
  <2>1. CASE t = s
    BY <1>2, <2>1, RepairsOwn DEF RepairInv
  <2>2. CASE t # s
    <3>1. PastLoad(ab[t]) /\ ab[t].calm => AromaKept(AbuildOut(t))
      BY <1>2, <2>2, FolderKept DEF RepairInv, FilesKept, AbuildOut
    <3>. QED
      BY <1>2, <2>2, <3>1, OthersSame, RepairsSame DEF RepairInv, Same
  <2>. QED
    BY <2>1, <2>2
<1>3. ASSUME BuildEdit \/ UNCHANGED buildVars, NEW t \in Sessions PROVE Repairs(t)'
  <2>1. UNCHANGED aromaFiles
    BY <1>3 DEF BuildEdit, buildVars
  <2>2. Same(t)
    BY <1>3, EditSame
  <2>. QED
    BY <2>1, <2>2, RepairsSame DEF RepairInv, Same, aromaFiles, AromaKept
<1>. QED
  BY <1>1, <1>2, <1>3, BuildSteps DEF RepairInv

LEMMA RepairInit == BuildInit => RepairInv
<1> SUFFICES ASSUME BuildInit PROVE RepairInv
  OBVIOUS
<1>1. \A s \in Sessions : ab[s].pc = "idle" /\ tst[s].pc = "idle"
  BY DEF BuildInit, NoAbuild, NoAtest
<1>2. CalmInv
  BY CalmInit DEF BuildInit
<1>. QED
  BY <1>1, <1>2 DEF RepairInv, Alone, Repairs, PastLoad

\* Whatever an earlier build left, an undisturbed abuild.cmd leaves each unit of
\* libaroma once in its archive, compiled with the settings it loaded.
THEOREM AbuildIsRight == BuildSpec => []AbuildRepairs
<1>1. BuildTypeInv /\ RepairInv /\ [BuildNext]_buildVars => RepairInv'
  BY RepairStep
<1>2. RepairInv => AbuildRepairs
  BY DEF RepairInv, Repairs, AromaRight, AbuildRepairs
<1>. QED
  BY <1>1, <1>2, RepairInit, BuildTypeInvHolds, PTL DEF BuildSpec

-----------------------------------------------------------------------------
(***************************************************************************)
(* An undisturbed alibs.cmd with valid names gets to the end of its loop.  *)
(***************************************************************************)
LoopOk(s) ==
    al[s].calm =>
        /\ al[s].pc = "loop" => al[s].cwd = 2
        /\ al[s].pc = "end" /\ (\A i \in DOMAIN al[s].targets : al[s].targets[i] \in Lib) =>
              al[s].at > Len(al[s].targets)

LEMMA LoopEnter ==
    ASSUME TypeInv, NEW s \in Sessions, AlibsEnter(s)
    PROVE  LoopOk(s)'
<1> DEFINE f == [al[s] EXCEPT !.pc = "loop", !.cwd = 2]
           g == [al[s] EXCEPT !.pc = "loop", !.calm = FALSE]
<1>1. al[s] \in Frame
  BY DEF TypeInv, TypeOK
<1>2. f.pc = "loop" /\ f.cwd = 2
  BY <1>1 DEF Frame
<1>3. ~g.calm
  BY <1>1 DEF Frame
<1>4. al' \in {[al EXCEPT ![s] = f], [al EXCEPT ![s] = g]}
  BY Zenon DEF AlibsEnter
<1> HIDE DEF f, g
<1>. QED
  BY <1>2, <1>3, <1>4, AlSet DEF LoopOk

LEMMA LoopEnds ==
    ASSUME Inv, SourcesKept, NEW s \in Sessions, LoopOk(s), AlibsDone(s) \/ AlibsInvalid(s)
    PROVE  LoopOk(s)'
<1> DEFINE f == [al[s] EXCEPT !.pc = "end"]
<1>1. al[s] \in Frame /\ al[s].at >= 1
  BY DEF Inv, TypeInv, TypeOK, CalmInv, Position
<1>2. /\ f.pc = "end" /\ f.targets = al[s].targets /\ f.at = al[s].at
      /\ f.calm = al[s].calm
  BY <1>1 DEF Frame
<1>3. al' = [al EXCEPT ![s] = f]
  BY DEF AlibsDone, AlibsInvalid
<1> HIDE DEF f
<1>4. al'[s] = f
  BY <1>3, AlSet DEF Inv
<1>5. CASE AlibsDone(s)
  BY <1>2, <1>4, <1>5 DEF AlibsDone, LoopOk
<1>6. CASE AlibsInvalid(s) /\ al[s].calm
  <2>1. al[s].cwd = 2 /\ al[s].at <= Len(al[s].targets) /\ ~FolderSeen(s)
    BY <1>6 DEF AlibsInvalid, LoopOk
  <2>2. al[s].targets[al[s].at] \notin Lib
    BY <2>1 DEF FolderSeen, Current, SourcesKept, RootFolder
  <2>3. al[s].at \in DOMAIN al[s].targets
    BY <1>1, <2>1 DEF Frame
  <2>. QED
    BY <1>2, <1>4, <2>2, <2>3 DEF LoopOk
<1>. QED
  BY <1>2, <1>4, <1>5, <1>6 DEF LoopOk

LEMMA LoopUp ==
    ASSUME Inv, NEW s \in Sessions, AlibsUp(s)
    PROVE  LoopOk(s)'
<1> DEFINE d == al[s].cwd - 1
           n == al[s].at + 1
           f == [al[s] EXCEPT !.pc = "loop", !.cwd = d, !.at = n, !.names = {}, !.mem = {}]
<1>1. al[s] \in Frame /\ al[s].pc = "up"
  BY DEF AlibsUp, Inv, TypeInv, TypeOK
<1>2. al[s].calm => al[s].cwd = 3
  BY <1>1 DEF Inv, CalmInv, CalmRun, Running, InBody
<1>3. al' = [al EXCEPT ![s] = f]
  BY Zenon DEF AlibsUp
<1>4. al[s].calm => d = 2
  BY <1>2
<1> HIDE DEF d, n
<1>5. f.pc = "loop" /\ f.cwd = d /\ f.calm = al[s].calm
  BY <1>1 DEF Frame
<1> HIDE DEF f
<1>. QED
  BY <1>3, <1>4, <1>5, AlSet DEF Inv, LoopOk

LEMMA LoopAlibs ==
    ASSUME Inv, SourcesKept, NEW s \in Sessions, LoopOk(s), AlibsStep(s)
    PROVE  LoopOk(s)'
<1>1. al[s] \in Frame /\ TypeInv
  BY DEF Inv, TypeInv, TypeOK
<1>2. ASSUME NEW f, al' = [al EXCEPT ![s] = f], f.pc \notin {"loop", "end"}
      PROVE  LoopOk(s)'
  BY <1>1, <1>2, AlSet DEF LoopOk
<1>3. IdleFrame.pc = "idle"
  BY DEF IdleFrame
<1>4. CASE AlibsLoad(s)
  BY <1>1, <1>4 DEF AlibsLoad, Frame, LoopOk
<1>5. CASE AlibsGiveUp(s) \/ AlibsEnd(s)
  BY <1>2, <1>3, <1>5 DEF AlibsGiveUp, AlibsEnd
<1>6. CASE AlibsPrepare(s)
  <2>1. PICK d : al' \in {[al EXCEPT ![s] = [al[s] EXCEPT !.pc = "compile", !.cwd = d]],
                          [al EXCEPT ![s] = [al[s] EXCEPT !.pc = "compile", !.cwd = d,
                                                          !.calm = FALSE]],
                          [al EXCEPT ![s] = [al[s] EXCEPT !.pc = "compile", !.calm = FALSE]]}
    BY <1>6, Zenon DEF AlibsPrepare
  <2>2. /\ [al[s] EXCEPT !.pc = "compile", !.cwd = d].pc = "compile"
        /\ [al[s] EXCEPT !.pc = "compile", !.cwd = d, !.calm = FALSE].pc = "compile"
        /\ [al[s] EXCEPT !.pc = "compile", !.calm = FALSE].pc = "compile"
    BY <1>1 DEF Frame
  <2>. QED
    BY <1>2, <2>1, <2>2
<1>7. CASE AlibsCompile(s)
  <2>1. al' \in {[al EXCEPT ![s] = [al[s] EXCEPT !.pc = "list"]],
                 [al EXCEPT ![s] = [al[s] EXCEPT !.pc = "list", !.calm = FALSE]]}
    BY <1>7, Zenon DEF AlibsCompile
  <2>2. /\ [al[s] EXCEPT !.pc = "list"].pc = "list"
        /\ [al[s] EXCEPT !.pc = "list", !.calm = FALSE].pc = "list"
    BY <1>1 DEF Frame
  <2>. QED
    BY <1>2, <2>1, <2>2
<1>8. CASE AlibsList(s) \/ AlibsArRead(s)
  <2>1. PICK n, m : al' \in {[al EXCEPT ![s] = [al[s] EXCEPT !.pc = "arRead", !.names = n]],
                             [al EXCEPT ![s] = [al[s] EXCEPT !.pc = "arWrite", !.mem = m]]}
    BY <1>8 DEF AlibsList, AlibsArRead
  <2>2. /\ [al[s] EXCEPT !.pc = "arRead", !.names = n].pc = "arRead"
        /\ [al[s] EXCEPT !.pc = "arWrite", !.mem = m].pc = "arWrite"
    BY <1>1 DEF Frame
  <2>. QED
    BY <1>2, <2>1, <2>2
<1>9. CASE AlibsArRefuse(s) \/ AlibsArWrite(s)
  <2>1. [al[s] EXCEPT !.pc = "up"].pc = "up"
    BY <1>1 DEF Frame
  <2>. QED
    BY <1>2, <1>9, <2>1 DEF AlibsArRefuse, AlibsArWrite
<1>. QED
  BY <1>1, <1>4, <1>5, <1>6, <1>7, <1>8, <1>9, LoopEnter, LoopEnds, LoopUp DEF AlibsStep

LEMMA LoopOwn ==
    ASSUME BuildTypeInv, CalmInv, SourcesKept, NEW s \in Sessions, LoopOk(s), OwnStep(s)
    PROVE  LoopOk(s)'
<1>1. CASE al' = al
  BY <1>1 DEF LoopOk
<1>2. ASSUME NEW f, al' = [al EXCEPT ![s] = f], f.pc \in {"idle", "load"} PROVE LoopOk(s)'
  BY <1>2, AlSet, BuildTypeParts DEF LoopOk
<1>3. CASE Command(s) \/ BuildInterrupt(s)
  <2>1. /\ IdleFrame.pc = "idle"
        /\ \A args : [IdleFrame EXCEPT !.pc = "load", !.args = args].pc = "load"
    BY DEF IdleFrame
  <2>. QED
    BY <1>1, <1>2, <1>3, <2>1
    DEF Command, RunAlibs, RunAbuild, RunAtest, BuildInterrupt, vars
<1>4. CASE BuildAlibsStep(s)
  BY <1>4, LoopAlibs, BuildTypeParts DEF BuildAlibsStep, Inv
<1>5. CASE AbuildCallsAlibs(s)
  BY <1>2, <1>5, CalledFrame
<1>6. CASE AbuildStep(s) /\ ~AbuildCallsAlibs(s)
  BY <1>1, <1>6 DEF AbuildStep, AbuildLoad, AbuildGiveUp, AbuildHasLibs, AbuildGoesOn,
     AbuildPrepare, AbuildCompile, AbuildArchive, AbuildEnd, vars
<1>7. CASE AtestStep(s)
  BY <1>1, <1>7 DEF AtestStep, AtestLoad, AtestHasAroma, AtestCallsAbuild, AtestGoesOn,
     AtestLink, AtestEnd, vars
<1>. QED
  BY <1>3, <1>4, <1>5, <1>6, <1>7 DEF OwnStep, ScriptStep

LEMMA LoopSame ==
    ASSUME NEW t, SameAl(t), LoopOk(t)
    PROVE  LoopOk(t)'
  BY DEF SameAl, LoopOk

LoopInv == SourcesKept /\ \A s \in Sessions : LoopOk(s)

LEMMA LoopStep ==
    ASSUME BuildTypeInv, CalmInv, LoopInv, [BuildNext]_buildVars
    PROVE  LoopInv'
<1>1. SourcesKept'
  BY AlibsHalf, SourcesStep DEF Restarts, tree, LoopInv, SourcesKept
<1>2. \A s \in Sessions : LoopOk(s)'
  BY BuildSteps, LoopOwn, LoopSame, OthersSame, EditSame DEF LoopInv, Same
<1>. QED
  BY <1>1, <1>2 DEF LoopInv

-----------------------------------------------------------------------------
(***************************************************************************)
(* The alibs.cmd that an undisturbed abuild.cmd has called is undisturbed, *)
(* and when it has ended, the libraries that the settings ask for are in   *)
(* the archive.                                                            *)
(***************************************************************************)
LibsThere(e) ==
    /\ e.out \in made
    /\ \A l \in DefaultLibs(e.var) :
          Units(l, e.var) \subseteq {x.tu : x \in OfLib(adeps, e.out, l)}

CalleeDone(s) ==
    ab[s].pc = "alibs" /\ ab[s].calm =>
        /\ al[s].calm
        /\ al[s].pc = "idle" => LibsThere(ab[s].env)

LEMMA DefaultTargets ==
    ASSUME NEW var
    PROVE  \A i \in DOMAIN TargetLibs(var, <<>>) : TargetLibs(var, <<>>)[i] \in Lib
<1>1. /\ "zlib" \in Lib /\ "png" \in Lib /\ "freetype" \in Lib
      /\ "drm" \in Lib /\ "jpeg" \in Lib /\ "harfbuzz" \in Lib
  BY DEF Lib
<1>2. /\ <<"zlib", "png", "freetype">> \in Seq(Lib)
      /\ <<"drm">> \in Seq(Lib) /\ <<"jpeg">> \in Seq(Lib)
      /\ <<"harfbuzz">> \in Seq(Lib) /\ <<>> \in Seq(Lib)
  BY <1>1
<1>3. TargetLibs(var, <<>>) \in Seq(Lib)
  BY <1>2 DEF TargetLibs
<1>. QED
  BY <1>3

LEMMA CalleeFills ==
    ASSUME Inv, NEW s \in Sessions, LoopOk(s), al[s].pc = "end", al[s].calm,
           al[s].targets = TargetLibs(al[s].env.var, <<>>)
    PROVE  LibsThere(al[s].env)
<1>1. al[s].at > Len(al[s].targets)
  BY DefaultTargets DEF LoopOk
<1>2. /\ Out(s) \in made
      /\ \A i \in DOMAIN al[s].targets : FreshLib(s, al[s].targets[i])
  BY <1>1, InvRepairs DEF CalmRunRepairs
<1>3. ASSUME NEW l \in DefaultLibs(al[s].env.var), NEW u \in Units(l, al[s].env.var)
      PROVE  \E x \in OfLib(adeps, Out(s), l) : x.tu = u
  <2>1. FreshLib(s, l)
    BY <1>2, <1>3 DEF DefaultLibs
  <2>. QED
    BY <2>1 DEF FreshLib, Fresh
<1>. QED
  BY <1>2, <1>3 DEF LibsThere, Out

-----------------------------------------------------------------------------
LEMMA LibsThereKept ==
    ASSUME NEW e, LibsThere(e), LibsKept(e.out)
    PROVE  /\ e.out \in made'
           /\ \A l \in DefaultLibs(e.var) :
                 Units(l, e.var) \subseteq {x.tu : x \in OfLib(adeps', e.out, l)}
<1>1. \A l : OfLib(adeps', e.out, l) = OfLib(adeps, e.out, l)
  BY OfLibInFolder DEF LibsKept
<1>. QED
  BY <1>1 DEF LibsThere, LibsKept

LEMMA DoneOwn ==
    ASSUME BuildTypeInv, CalmInv, NEW s \in Sessions, Shape(s), AbSettled(s), Callee(s),
           LoopOk(s), CalleeDone(s), OwnStep(s)
    PROVE  CalleeDone(s)'
<1> SUFFICES ASSUME ab'[s].pc = "alibs", ab'[s].calm PROVE CalleeDone(s)'
  BY DEF CalleeDone
<1>1. CASE AbuildCallsAlibs(s)
  <2>1. PICK f : al' = [al EXCEPT ![s] = f] /\ f.pc = "load" /\ f.calm
    BY <1>1, CalledFrame
  <2>. QED
    BY <2>1, AlSet, BuildTypeParts DEF CalleeDone
<1>2. CASE BuildAlibsStep(s) /\ ab[s].pc = "alibs"
  <2>1. ab'[s].env = ab[s].env /\ ab[s].calm
    BY <1>2, OthersMove DEF AbStays, SameAb
  <2>2. al'[s].calm
    <3>1. PICK D : {t \in Sessions : ~al'[t].calm} \subseteq D /\ ab' = Disturb(ab, D)
      BY <1>2 DEF BuildAlibsStep
    <3>2. ab[s] \in AbuildFrame /\ PastLoad(ab'[s])
      BY BuildTypeParts DEF AbType, PastLoad
    <3>. QED
      BY <3>1, <3>2, DisturbedRun
  <2>3. AlibsStep(s)
    BY <1>2 DEF BuildAlibsStep
  <2>4. ASSUME al'[s].pc = "idle" PROVE LibsThere(ab[s].env) /\ UNCHANGED tree
    <3>1. CASE AlibsLoad(s)
      <4>1. al[s] \in Frame
        BY BuildTypeParts DEF TypeInv, TypeOK
      <4>. QED
        BY <2>4, <3>1, <4>1 DEF AlibsLoad, Frame
    <3>2. ~AlibsGiveUp(s)
      BY <1>2, <2>1, CalleeLoads DEF AlibsGiveUp, AbSettled, PastLoad
    <3>3. CASE Running(s)
      <4>1. al[s].pc = "end" /\ UNCHANGED tree
        BY <2>3, <2>4, <3>3, OwnAl, BuildTypeParts DEF GoesWith
      <4>2. /\ al[s].env = ab[s].env /\ al[s].targets = TargetLibs(ab[s].env.var, <<>>)
            /\ al[s].calm
        BY <1>2, <2>1, <3>3 DEF Callee, CalleeDone
      <4>. QED
        BY <4>1, <4>2, CalleeFills, BuildTypeParts DEF Inv
    <3>4. AlibsLoad(s) \/ AlibsGiveUp(s) \/ Running(s)
      BY <2>3 DEF AlibsStep, AlibsEnter, AlibsDone, AlibsInvalid, AlibsPrepare, AlibsCompile,
         AlibsList, AlibsArRead, AlibsArRefuse, AlibsArWrite, AlibsUp, AlibsEnd, Running
    <3>. QED
      BY <3>1, <3>2, <3>3, <3>4
  <2>. QED
    BY <2>1, <2>2, <2>4 DEF CalleeDone, LibsThere, tree
<1>. QED
  BY <1>1, <1>2, AtAlibs

\* Another console's step moves this one's alibs.cmd only by disturbing it, and
\* its callers with it.
LEMMA DoneOther ==
    ASSUME BuildTypeInv, NEW s \in Sessions, OwnStep(s), NEW t \in Sessions, t # s,
           CalleeDone(t), PastLoad(ab[t]) /\ ab[t].calm => LibsKept(ab[t].env.out)
    PROVE  CalleeDone(t)'
<1> SUFFICES ASSUME ab'[t].pc = "alibs", ab'[t].calm PROVE CalleeDone(t)'
  BY DEF CalleeDone
<1>1. Same(t)
  BY OthersSame
<1>2. /\ ab[t].pc = "alibs" /\ ab[t].calm /\ ab'[t].env = ab[t].env
      /\ al'[t].pc = al[t].pc
  BY <1>1 DEF Same, SameAb, SameAl
<1>3. al'[t].calm
  <2>1. CASE BuildAlibsStep(s)
    <3>1. PICK D : {u \in Sessions : ~al'[u].calm} \subseteq D /\ ab' = Disturb(ab, D)
      BY <2>1 DEF BuildAlibsStep
    <3>2. ab[t] \in AbuildFrame /\ PastLoad(ab'[t])
      BY BuildTypeParts DEF AbType, PastLoad
    <3>. QED
      BY <3>1, <3>2, DisturbedRun
  <2>2. CASE ~BuildAlibsStep(s)
    <3>1. al' = al \/ \E f : al' = [al EXCEPT ![s] = f]
      BY <2>2 DEF OwnStep, ScriptStep, Command, RunAlibs, RunAbuild, RunAtest, BuildInterrupt,
         AbuildStep, AbuildLoad, AbuildGiveUp, AbuildHasLibs, AbuildCallsAlibs, AbuildGoesOn,
         AbuildPrepare, AbuildCompile, AbuildArchive, AbuildEnd, AtestStep, AtestLoad,
         AtestHasAroma, AtestCallsAbuild, AtestGoesOn, AtestLink, AtestEnd, vars
    <3>2. al'[t] = al[t]
      BY <3>1, BuildTypeParts DEF TypeInv, TypeOK
    <3>. QED
      BY <1>2, <3>2 DEF CalleeDone
  <2>. QED
    BY <2>1, <2>2
<1>4. ASSUME al'[t].pc = "idle" PROVE LibsThere(ab[t].env)'
  <2>1. LibsThere(ab[t].env) /\ LibsKept(ab[t].env.out)
    BY <1>2, <1>4 DEF CalleeDone, PastLoad
  <2>. QED
    BY <1>2, <2>1, LibsThereKept DEF LibsThere
<1>. QED
  BY <1>2, <1>3, <1>4 DEF CalleeDone

-----------------------------------------------------------------------------
(***************************************************************************)
(* From a folder without archives.  abuild.cmd has the libraries in it when*)
(* it goes on, and atest.cmd all that it links.                            *)
(***************************************************************************)
ScratchLibs(s) ==
    ab[s].calm /\ ab[s].scratch =>
        /\ ab[s].pc = "check" => Scratch(AbuildOut(s))
        /\ ab[s].pc \in {"prepare", "compile", "archive", "end"} => LibsThere(ab[s].env)

LEMMA ScratchLibsSame ==
    ASSUME NEW t, SameAb(t), PastLoad(ab[t]) /\ ab[t].calm => FilesKept(AbuildOut(t)),
           ScratchLibs(t)
    PROVE  ScratchLibs(t)'
<1> SUFFICES ASSUME ab'[t].calm, ab'[t].scratch, PastLoad(ab[t]) PROVE ScratchLibs(t)'
  BY DEF SameAb, ScratchLibs, PastLoad
<1>1. ab[t].calm /\ ab[t].scratch /\ ab'[t].env = ab[t].env /\ ab'[t].pc = ab[t].pc
  BY DEF SameAb
<1>2. AbuildOut(t) = ab[t].env.out /\ AbuildOut(t)' = AbuildOut(t)
  BY <1>1 DEF AbuildOut
<1>3. FilesKept(ab[t].env.out)
  BY <1>1, <1>2
<1>4. ab[t].pc = "check" => Scratch(AbuildOut(t))'
  BY <1>1, <1>2, <1>3 DEF ScratchLibs, Scratch, FilesKept, LibsKept, AromaKept
<1>5. LibsThere(ab[t].env) => LibsThere(ab[t].env)'
  BY <1>1, <1>3, LibsThereKept DEF FilesKept, LibsThere
<1>. QED
  BY <1>1, <1>4, <1>5 DEF ScratchLibs

LEMMA ScratchLibsAbuild ==
    ASSUME BuildTypeInv, NEW s \in Sessions, CalleeDone(s), ScratchLibs(s), AbuildStep(s)
    PROVE  ScratchLibs(s)'
<1>1. CASE AbuildLoad(s)
  <2>1. /\ ab'[s].pc = "check" /\ ab'[s].env = AbLoaded(s)
        /\ ab'[s].scratch = Scratch(AbLoaded(s).out)
    BY <1>1, AbuildLoadMoves DEF AbTo
  <2>2. made' = made /\ lmade' = lmade
    BY <1>1 DEF AbuildLoad, vars, tree, aromaFiles
  <2>. QED
    BY <2>1, <2>2 DEF ScratchLibs, Scratch, AbuildOut
<1>2. CASE AbuildGiveUp(s) \/ AbuildEnd(s) \/ AbuildCallsAlibs(s)
  BY <1>2, AbuildMoves DEF AbResets, AbGoes, AbTo, ScratchLibs
<1>3. CASE AbuildHasLibs(s)
  BY <1>3, AbuildMoves DEF AbuildHasLibs, AbGoes, AbTo, ScratchLibs, Scratch
<1>4. CASE AbuildGoesOn(s)
  <2>1. AbGoes(s, "prepare") /\ ab[s].pc = "alibs" /\ al[s].pc = "idle" /\ UNCHANGED tree
    BY <1>4, AbuildMoves DEF AbuildGoesOn, vars
  <2>. QED
    BY <2>1 DEF AbGoes, AbTo, tree, CalleeDone, LibsThere, ScratchLibs
<1>5. CASE AbuildPrepare(s) \/ AbuildCompile(s) \/ AbuildArchive(s)
  <2>1. /\ ab[s].pc \in {"prepare", "compile", "archive"} /\ UNCHANGED tree
        /\ ab'[s].pc \in {"compile", "archive", "end"} /\ ab'[s].env = ab[s].env
        /\ ab'[s].scratch = ab[s].scratch /\ (ab'[s].calm => ab[s].calm)
    BY <1>5, AbuildPrepareMoves, AbuildCompileMoves, AbuildMoves
    DEF AbuildPrepare, AbuildCompile, AbuildArchive, AbGoes, AbTo, vars
  <2>. QED
    BY <2>1 DEF tree, LibsThere, ScratchLibs
<1>. QED
  BY <1>1, <1>2, <1>3, <1>4, <1>5 DEF AbuildStep

LEMMA ScratchLibsOwn ==
    ASSUME BuildTypeInv, NEW s \in Sessions, Shape(s), CalleeDone(s), ScratchLibs(s),
           OwnStep(s)
    PROVE  ScratchLibs(s)'
<1>1. ASSUME ab'[s].pc \in {"idle", "load", "alibs"} PROVE ScratchLibs(s)'
  BY <1>1 DEF ScratchLibs
<1>2. ASSUME SameAb(s), UNCHANGED <<adeps, made, aromaFiles>> PROVE ScratchLibs(s)'
  BY <1>2, FilesStill, ScratchLibsSame
<1>3. CASE Command(s) \/ BuildInterrupt(s)
  <2>1. SameAb(s) \/ ab'[s].pc \in {"idle", "load"}
    BY <1>3, RunAbuildMoves, RunAtestMoves, OthersMove, InterruptMoves
    DEF Command, AbTo, AbStays, AbResets
  <2>2. UNCHANGED <<adeps, made, aromaFiles>>
    BY <1>3 DEF Command, RunAlibs, RunAbuild, RunAtest, BuildInterrupt, vars, tree
  <2>. QED
    BY <1>1, <1>2, <2>1, <2>2
<1>4. CASE BuildAlibsStep(s)
  <2>1. SameAb(s)
    BY <1>4, OthersMove DEF AbStays
  <2>2. al[s].pc # "idle"
    BY <1>4 DEF BuildAlibsStep, AlibsStep, AlibsLoad, AlibsGiveUp, AlibsEnter, AlibsDone,
       AlibsInvalid, AlibsPrepare, AlibsCompile, AlibsList, AlibsArRead, AlibsArRefuse,
       AlibsArWrite, AlibsUp, AlibsEnd
  <2>. QED
    BY <1>1, <2>1, <2>2 DEF Shape, SameAb
<1>5. CASE AbuildStep(s)
  BY <1>5, ScratchLibsAbuild
<1>6. CASE AtestStep(s)
  <2>1. AbStays \/ ab'[s].pc = "load"
    BY <1>6, AtestLoadMoves, AtestMoves, AtestLinkMoves DEF AtestStep, AbTo
  <2>2. UNCHANGED <<adeps, made, aromaFiles>>
    BY <1>6 DEF AtestStep, AtestLoad, AtestHasAroma, AtestCallsAbuild, AtestGoesOn,
       AtestLink, AtestEnd, vars, tree
  <2>. QED
    BY <1>1, <1>2, <2>1, <2>2 DEF AbStays
<1>. QED
  BY <1>3, <1>4, <1>5, <1>6 DEF OwnStep, ScriptStep

-----------------------------------------------------------------------------
Hopeful(s) ==
    tst[s].calm /\ tst[s].scratch /\ MustHave(tst[s].env.var) /\ tst[s].arg = ""

\* What atest.cmd may still count on.
Waits(s) ==
    /\ ab[s].pc = "load" => ab[s].env = tst[s].env /\ Scratch(AtestOut(s))
    /\ PastLoad(ab[s]) => ab[s].env = tst[s].env /\ ab[s].scratch
    /\ ab[s].pc = "idle" => AllThere(tst[s].env)

Hope(s) ==
    Hopeful(s) =>
        /\ tst[s].pc = "check" => Scratch(AtestOut(s))
        /\ tst[s].pc = "abuild" => Waits(s)
        /\ tst[s].pc = "link" => AllThere(tst[s].env)
        /\ tst[s].pc = "end" => tst[s].linked

LEMMA AllThereKept ==
    ASSUME NEW t, AllThere(tst[t].env), FilesKept(tst[t].env.out),
           tst'[t].env = tst[t].env
    PROVE  AllThere(tst[t].env)'
<1>1. \A l : OfLib(adeps', tst[t].env.out, l) = OfLib(adeps, tst[t].env.out, l)
  BY OfLibInFolder DEF FilesKept, LibsKept
<1>. QED
  BY <1>1 DEF AllThere, ArchivesThere, FilesKept, LibsKept, AromaKept

LEMMA HopeSame ==
    ASSUME NEW t, SameAb(t), SameTst(t), Hope(t),
           PastLoad(tst[t]) /\ tst[t].calm => FilesKept(tst[t].env.out)
    PROVE  Hope(t)'
<1> SUFFICES ASSUME Hopeful(t)', PastLoad(tst[t]) PROVE Hope(t)'
  BY DEF SameTst, Hope, PastLoad
<1>1. /\ tst'[t].env = tst[t].env /\ tst'[t].pc = tst[t].pc /\ tst'[t].linked = tst[t].linked
      /\ ab'[t].env = ab[t].env /\ ab'[t].pc = ab[t].pc /\ ab'[t].scratch = ab[t].scratch
  BY DEF SameAb, SameTst
<1>2. Hopeful(t) /\ FilesKept(tst[t].env.out)
  BY DEF SameTst, Hopeful
<1>3. Scratch(AtestOut(t)) => Scratch(AtestOut(t))'
  BY <1>1, <1>2 DEF Scratch, AtestOut, FilesKept, LibsKept, AromaKept
<1>4. AllThere(tst[t].env) => AllThere(tst[t].env)'
  BY <1>1, <1>2, AllThereKept
<1>5. Waits(t) => Waits(t)'
  BY <1>1, <1>3, <1>4 DEF Waits, PastLoad
<1>. QED
  BY <1>1, <1>2, <1>3, <1>4, <1>5 DEF Hope

\* What abuild.cmd leaves when it ends is all that atest.cmd links.
LEMMA HopeFulfilled ==
    ASSUME NEW s, Repairs(s), ScratchLibs(s), ab[s].pc = "end", ab[s].calm, ab[s].scratch
    PROVE  AllThere(ab[s].env)
<1>1. AromaRight(s) /\ LibsThere(ab[s].env)
  BY DEF Repairs, ScratchLibs
<1>2. \A u \in AromaUnits(ab[s].env.var) :
         AromaCompiled(s, u) \in InAroma(laroma, ab[s].env.out) /\ AromaCompiled(s, u).tu = u
  BY <1>1 DEF AromaRight, AromaCompiled, AbuildOut
<1>. QED
  BY <1>1, <1>2 DEF AllThere, ArchivesThere, AromaRight, LibsThere, AbuildOut

LEMMA HopeAbuild ==
    ASSUME BuildTypeInv, NEW s \in Sessions, Shape(s), TstSettled(s), Repairs(s),
           ScratchLibs(s), Hope(s), AbuildStep(s)
    PROVE  Hope(s)'
<1>1. ab[s].pc # "idle"
  BY DEF AbuildStep, AbuildLoad, AbuildGiveUp, AbuildHasLibs, AbuildCallsAlibs,
     AbuildGoesOn, AbuildPrepare, AbuildCompile, AbuildArchive, AbuildEnd
<1>2. TstStays
  BY AbuildLoadMoves, AbuildMoves, AbuildPrepareMoves, AbuildCompileMoves DEF AbuildStep
<1>3. SameTst(s) /\ tst[s].pc \in {"idle", "abuild"}
  BY <1>1, <1>2 DEF TstStays, Shape
<1> SUFFICES ASSUME tst[s].pc = "abuild", Hopeful(s)' PROVE Waits(s)'
  BY <1>3 DEF SameTst, Hope
<1>4. Hopeful(s) /\ tst'[s].env = tst[s].env /\ ab[s].arg = ""
  BY <1>1, <1>3 DEF SameTst, Hopeful, Shape
<1>5. Waits(s)
  BY <1>4 DEF Hope
<1>6. TstLoaded(s) = tst[s].env
  BY <1>4 DEF TstSettled, PastLoad, Hopeful
<1>7. ab[s].pc = "load" => AbLoaded(s) = tst[s].env
  BY <1>4, <1>5, <1>6 DEF Waits, AbLoaded, TstLoaded, Hopeful
<1>8. CASE AbuildLoad(s)
  <2>1. /\ ab'[s].pc = "check" /\ ab'[s].env = AbLoaded(s)
        /\ ab'[s].scratch = Scratch(AbLoaded(s).out)
    BY <1>8, AbuildLoadMoves DEF AbTo
  <2>2. AbLoaded(s) = tst[s].env /\ Scratch(AtestOut(s))
    BY <1>5, <1>7, <1>8 DEF AbuildLoad, Waits
  <2>. QED
    BY <1>4, <2>1, <2>2 DEF Waits, AtestOut, PastLoad
<1>9. ~AbuildGiveUp(s)
  BY <1>4, <1>7 DEF AbuildGiveUp, AbLoaded, Hopeful
<1>10. CASE AbuildEnd(s)
  <2>1. ab[s].calm
    <3>1. CASE ~ab[s].calm
      <4>1. tst' = Disturb(tst, {s}) /\ tst[s] \in AtestFrame /\ PastLoad(tst'[s])
        BY <1>3, <1>10, <3>1, BuildTypeParts DEF AbuildEnd, TstType, SameTst, PastLoad
      <4>. QED
        BY <4>1, DisturbedRun DEF Hopeful
    <3>. QED
      BY <3>1
  <2>2. ab[s].env = tst[s].env /\ ab[s].scratch /\ ab[s].pc = "end"
    BY <1>5, <1>10 DEF AbuildEnd, Waits, PastLoad
  <2>3. AllThere(tst[s].env)
    BY <2>1, <2>2, HopeFulfilled
  <2>4. UNCHANGED <<adeps, made, aromaFiles>> /\ ab'[s].pc = "idle"
    BY <1>10, AbuildMoves DEF AbuildEnd, vars, tree, AbResets, AbTo
  <2>5. AllThere(tst[s].env)'
    BY <1>4, <2>3, <2>4, FilesStill, AllThereKept
  <2>. QED
    BY <2>4, <2>5 DEF Waits, PastLoad
<1>11. CASE ~AbuildLoad(s) /\ ~AbuildGiveUp(s) /\ ~AbuildEnd(s)
  <2>1. /\ PastLoad(ab[s]) /\ PastLoad(ab'[s])
        /\ ab'[s].env = ab[s].env /\ ab'[s].scratch = ab[s].scratch
    BY <1>11, AbuildMoves, AbuildPrepareMoves, AbuildCompileMoves
    DEF AbuildStep, AbuildHasLibs, AbuildCallsAlibs, AbuildGoesOn, AbuildPrepare,
        AbuildCompile, AbuildArchive, AbGoes, AbTo, PastLoad
  <2>. QED
    BY <1>4, <1>5, <2>1 DEF Waits, PastLoad
<1>. QED
  BY <1>8, <1>9, <1>10, <1>11

LEMMA HopeAtest ==
    ASSUME BuildTypeInv, NEW s \in Sessions, Shape(s), Hope(s), AtestStep(s)
    PROVE  Hope(s)'
<1>1. UNCHANGED <<adeps, made, aromaFiles>>
  BY DEF AtestStep, AtestLoad, AtestHasAroma, AtestCallsAbuild, AtestGoesOn, AtestLink,
     AtestEnd, vars, tree
<1>2. CASE AtestLoad(s)
  <2>1. /\ tst'[s].pc = "check" /\ tst'[s].env = TstLoaded(s)
        /\ tst'[s].scratch = Scratch(TstLoaded(s).out)
    BY <1>2, AtestLoadMoves DEF TstTo
  <2>. QED
    BY <1>1, <2>1 DEF Hope, Hopeful, Scratch, AtestOut, aromaFiles
<1>3. CASE AtestHasAroma(s)
  <2>1. TstGoes(s, "link") /\ tst[s].pc = "check" /\ ~Scratch(AtestOut(s))
    BY <1>3, AtestMoves DEF AtestHasAroma, Scratch
  <2>2. Hopeful(s)' => Hopeful(s)
    BY <2>1 DEF TstGoes, TstTo, Hopeful
  <2>. QED
    BY <2>1, <2>2 DEF Hope
<1>4. CASE AtestCallsAbuild(s)
  <2>1. /\ TstGoes(s, "abuild") /\ tst[s].pc = "check"
        /\ AbTo(s, "load", "", tst[s].env, FALSE, FALSE, TRUE)
    BY <1>4, AtestMoves DEF AtestCallsAbuild
  <2>2. /\ Hopeful(s)' => Hopeful(s)
        /\ tst'[s].pc = "abuild" /\ tst'[s].env = tst[s].env
        /\ ab'[s].pc = "load" /\ ab'[s].env = tst[s].env
    BY <2>1 DEF TstGoes, TstTo, AbTo, Hopeful
  <2>3. Hopeful(s) => Scratch(AtestOut(s))'
    BY <1>1, <2>1, <2>2 DEF Hope, Scratch, AtestOut, aromaFiles
  <2>. QED
    BY <2>2, <2>3 DEF Hope, Waits, PastLoad
<1>5. CASE AtestGoesOn(s)
  <2>1. TstGoes(s, "link") /\ tst[s].pc = "abuild" /\ ab[s].pc = "idle"
    BY <1>5, AtestMoves DEF AtestGoesOn
  <2>2. (Hopeful(s)' => Hopeful(s)) /\ tst'[s].pc = "link" /\ tst'[s].env = tst[s].env
    BY <2>1 DEF TstGoes, TstTo, Hopeful
  <2>3. Hopeful(s) => AllThere(tst[s].env)'
    BY <1>1, <2>1, <2>2, FilesStill, AllThereKept DEF Hope, Waits
  <2>. QED
    BY <2>2, <2>3 DEF Hope
<1>6. CASE AtestLink(s)
  <2>1. PICK l \in BOOLEAN, c \in BOOLEAN :
          /\ TstTo(s, "end", tst[s].arg, tst[s].env, l, tst[s].scratch, c)
          /\ c => /\ tst[s].calm
                  /\ \/ l
                     \/ ~AllThere(tst[s].env) \/ ~MustHave(tst[s].env.var)
    BY <1>6, AtestLinkMoves
  <2>2. tst[s].pc = "link"
    BY <1>6 DEF AtestLink
  <2>3. tst'[s].pc = "end" /\ tst'[s].linked = l /\ (Hopeful(s)' => Hopeful(s) /\ c)
    BY <2>1 DEF TstTo, Hopeful
  <2>. QED
    BY <2>1, <2>2, <2>3 DEF Hope, Hopeful
<1>7. CASE AtestEnd(s)
  BY <1>7, AtestMoves DEF TstResets, TstTo, Hope
<1>. QED
  BY <1>2, <1>3, <1>4, <1>5, <1>6, <1>7 DEF AtestStep

LEMMA HopeOwn ==
    ASSUME BuildTypeInv, NEW s \in Sessions, Shape(s), TstSettled(s), Repairs(s),
           ScratchLibs(s), Hope(s), OwnStep(s)
    PROVE  Hope(s)'
<1>1. CASE Command(s) \/ BuildInterrupt(s)
  <2>1. tst'[s].pc \in {"idle", "load"}
    BY <1>1, RunAbuildMoves, RunAtestMoves, OthersMove, InterruptMoves
    DEF Command, Prompt, RunAbuild, TstTo, TstStays, SameTst, TstResets
  <2>. QED
    BY <2>1 DEF Hope
<1>2. CASE BuildAlibsStep(s)
  <2>1. SameAb(s) /\ SameTst(s)
    BY <1>2, OthersMove DEF AbStays, TstStays
  <2>2. al[s].pc # "idle"
    BY <1>2 DEF BuildAlibsStep, AlibsStep, AlibsLoad, AlibsGiveUp, AlibsEnter, AlibsDone,
       AlibsInvalid, AlibsPrepare, AlibsCompile, AlibsList, AlibsArRead, AlibsArRefuse,
       AlibsArWrite, AlibsUp, AlibsEnd
  <2>3. tst[s].pc = "idle" \/ (tst[s].pc = "abuild" /\ ab[s].pc = "alibs")
    BY <2>2 DEF Shape
  <2>4. CASE tst[s].pc = "idle"
    BY <2>1, <2>4 DEF SameTst, Hope
  <2>5. CASE tst[s].pc = "abuild" /\ ab[s].pc = "alibs"
    BY <2>1, <2>5 DEF SameAb, SameTst, Hope, Hopeful, Waits, PastLoad
  <2>. QED
    BY <2>3, <2>4, <2>5
<1>. QED
  BY <1>1, <1>2, HopeAbuild, HopeAtest DEF OwnStep, ScriptStep

-----------------------------------------------------------------------------
ChainInv ==
    /\ SettledInv /\ RepairInv /\ LoopInv
    /\ \A s \in Sessions : CalleeDone(s) /\ ScratchLibs(s) /\ Hope(s)

LEMMA ChainStep ==
    ASSUME FilesLeaveDerived, BuildTypeInv, ChainInv, [BuildNext]_buildVars
    PROVE  ChainInv'
<1>0. CalmInv
  BY DEF ChainInv, RepairInv
<1>1. SettledInv' /\ RepairInv' /\ LoopInv'
  BY <1>0, SettledStep, RepairStep, LoopStep DEF ChainInv
<1>2. ASSUME NEW t \in Sessions
      PROVE  /\ Shape(t) /\ AbSettled(t) /\ TstSettled(t) /\ Callee(t) /\ LoopOk(t)
             /\ Alone(t) /\ Repairs(t) /\ CalleeDone(t) /\ ScratchLibs(t) /\ Hope(t)
  BY <1>2 DEF ChainInv, SettledInv, RepairInv, LoopInv
<1>3. ASSUME NEW s \in Sessions, OwnStep(s), NEW t \in Sessions
      PROVE  CalleeDone(t)' /\ ScratchLibs(t)' /\ Hope(t)'
  <2>1. CASE t = s
    BY <1>0, <1>2, <1>3, <2>1, DoneOwn, ScratchLibsOwn, HopeOwn
  <2>2. CASE t # s
    <3>1. /\ PastLoad(ab[t]) /\ ab[t].calm => FilesKept(ab[t].env.out)
          /\ PastLoad(tst[t]) /\ tst[t].calm => FilesKept(tst[t].env.out)
      BY <1>0, <1>2, <1>3, <2>2, FolderKept
    <3>2. SameAb(t) /\ SameTst(t)
      BY <1>3, <2>2, OthersSame DEF Same
    <3>3. CalleeDone(t)'
      BY <1>2, <1>3, <2>2, <3>1, DoneOther DEF FilesKept
    <3>. QED
      BY <1>2, <3>1, <3>2, <3>3, ScratchLibsSame, HopeSame DEF AbuildOut
  <2>. QED
    BY <2>1, <2>2
<1>4. ASSUME BuildEdit, NEW t \in Sessions
      PROVE  CalleeDone(t)' /\ ScratchLibs(t)' /\ Hope(t)'
  <2>1. (ab'[t].pc # "idle" => ~ab'[t].calm) /\ (tst'[t].pc # "idle" => ~tst'[t].calm)
    BY <1>4, EditDisturbs
  <2>. QED
    BY <2>1 DEF CalleeDone, ScratchLibs, Hope, Hopeful
<1>5. ASSUME UNCHANGED buildVars, NEW t \in Sessions
      PROVE  CalleeDone(t)' /\ ScratchLibs(t)' /\ Hope(t)'
  <2>1. UNCHANGED <<adeps, made, aromaFiles>> /\ al' = al /\ ab' = ab /\ tst' = tst
    BY <1>5 DEF buildVars, vars, tree
  <2>2. SameAb(t) /\ SameTst(t)
    BY <2>1 DEF SameAb, SameTst
  <2>3. ScratchLibs(t)' /\ Hope(t)'
    BY <1>2, <2>1, <2>2, FilesStill, ScratchLibsSame, HopeSame
  <2>. QED
    BY <1>2, <2>1, <2>3 DEF CalleeDone, LibsThere
<1>. QED
  BY <1>1, <1>3, <1>4, <1>5, BuildSteps DEF ChainInv

LEMMA ChainInit == BuildInit => ChainInv
<1> SUFFICES ASSUME BuildInit PROVE ChainInv
  OBVIOUS
<1>1. \A s \in Sessions : al[s].pc = "idle" /\ ab[s].pc = "idle" /\ tst[s].pc = "idle"
  BY DEF BuildInit, Init, IdleFrame, NoAbuild, NoAtest
<1>2. LoopInv
  BY <1>1 DEF BuildInit, Init, LoopInv, LoopOk, SourcesKept
<1>3. SettledInv /\ RepairInv
  BY SettledInit, RepairInit
<1>. QED
  BY <1>1, <1>2, <1>3 DEF ChainInv, CalleeDone, ScratchLibs, Hope

\* Unless a config file sets the derived variable, an undisturbed atest.cmd
\* without a config's name links its program from scratch, whatever its config
\* file asks for: the scripts it calls put all the archives it needs where it
\* looks for them.
THEOREM DefaultLinks ==
    ASSUME FilesLeaveDerived
    PROVE  BuildSpec => []DefaultConfigLinks
<1>1. BuildTypeInv /\ ChainInv /\ [BuildNext]_buildVars => ChainInv'
  BY ChainStep
<1>2. ChainInv => DefaultConfigLinks
  BY DEF ChainInv, Hope, Hopeful, DefaultConfigLinks, ScratchLinks
<1>. QED
  BY <1>1, <1>2, ChainInit, BuildTypeInvHolds, PTL DEF BuildSpec
=============================================================================
