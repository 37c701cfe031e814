------------------------------- MODULE Build -------------------------------
(***************************************************************************)
(* abuild.cmd, which builds libaroma, and atest.cmd, which builds a program*)
(* with it, on top of alibs.cmd.  Each script starts the next one when a   *)
(* file it needs is missing, in its own environment, and waits for it:     *)
(* atest -> abuild -> alibs.  A console runs one command at a time.        *)
(***************************************************************************)
EXTENDS Alibs

CONSTANTS Apps,       \* the names of the folders with the programs' sources
          Configs     \* the config names given on command lines, "" for none

ASSUME AppsAssumption == Apps \subseteq Text
ASSUME ConfigsAssumption == Configs \subseteq DOMAIN Versions

VARIABLES
    ab, tst,   \* ab[s], tst[s]: the runs of abuild.cmd and atest.cmd
    aobjs,     \* the objects in the <out>\aroma folders
    laroma,    \* the members of the libaroma.a archives
    lmade,     \* the out folders that have a libaroma.a
    bins       \* the programs

aromaFiles == <<aobjs, laroma, lmade>>
buildVars == <<vars, ab, tst, aromaFiles, bins>>

-----------------------------------------------------------------------------
\* The optional features a libaroma object was compiled with.  Every define of
\* abuild.cmd that is not in LA_GENERIC_CFLAGS stands for one of them.
Option == Key \union {"sdl2"}

\* Faulty variant: the values of the variables instead of their names.
OptionValues(var) == {var[k] : k \in Key}

Options(var) ==
    {k \in {"LIBAROMA_JPEG", "LIBAROMA_DRM", "LIBAROMA_HARFBUZZ",
            "LIBAROMA_DEBUG", "LIBAROMA_MEMDEBUG"} : var[k] = "yes"}
    \union {k \in {"LIBAROMA_SVG", "LIBAROMA_ZIP", "LIBAROMA_OPENMP"} : var[k] # "no"}
    \union {k \in {"LIBAROMA_PLATFORM_ANDROID"} : var[k] # ""}
    \union {k \in {"sdl2"} : var["LIBAROMA_PLATFORM"] = "sdl2"}

\* SDL2 builds use the sources of SDL.
SourcePlatform(var) ==
    IF var["LIBAROMA_PLATFORM"] = "sdl2" THEN "sdl" ELSE var["LIBAROMA_PLATFORM"]

\* The sources of libaroma, those that every build compiles as one unit.
AromaUnits(var) ==
    {"main", SourcePlatform(var)}
    \union {u \in {"memtrack"} : var["LIBAROMA_MEMDEBUG"] = "yes"}
    \union {u \in {"minzip"} : var["LIBAROMA_ZIP"] # "no"}

ASSUME AromaUnitNames == {"main", "sdl", "memtrack", "minzip"} \subseteq Text

AromaObj == [out : OutName, tu : Text, flags : SUBSET Flag, options : SUBSET Option]

\* A program, and the cpus of what was linked into it.
Program == [out : OutName, app : Text, cpus : SUBSET SUBSET {"neon", "sse2"}]

CpuOf(x) == x.flags \intersect {"neon", "sse2"}

AbuildPC == {"idle", "load", "check", "alibs", "prepare", "compile", "archive", "end"}
AtestPC  == {"idle", "load", "check", "abuild", "link", "end"}

\* in: whether the script is in <out>\aroma.  scratch: history, whether the
\* folder had none of the two archives when the script looked.
AbuildFrame == [pc : AbuildPC, arg : Text, env : Env, in : BOOLEAN,
                calm : BOOLEAN, scratch : BOOLEAN]
AtestFrame == [pc : AtestPC, arg : Text, app : Text, env : Env, linked : BOOLEAN,
               calm : BOOLEAN, scratch : BOOLEAN]

NoAbuild == [pc |-> "idle", arg |-> "", env |-> EmptyEnv, in |-> FALSE,
             calm |-> TRUE, scratch |-> FALSE]
NoAtest == [pc |-> "idle", arg |-> "", app |-> "", env |-> EmptyEnv, linked |-> FALSE,
            calm |-> TRUE, scratch |-> FALSE]

BuildInit ==
    /\ Init
    /\ ab = [s \in Sessions |-> NoAbuild]
    /\ tst = [s \in Sessions |-> NoAtest]
    /\ aobjs = {} /\ laroma = {} /\ lmade = {} /\ bins = {}

Prompt(s) == al[s].pc = "idle" /\ ab[s].pc = "idle" /\ tst[s].pc = "idle"

Scratch(o) == o \notin made /\ o \notin lmade

\* Whether a run of console t has loaded folder o.
Uses(t, o) ==
    \/ Running(t) /\ Out(t) = o
    \/ ab[t].pc \notin {"idle", "load"} /\ ab[t].env.out = o
    \/ tst[t].pc \notin {"idle", "load"} /\ tst[t].env.out = o

Others(s, o) == {t \in Sessions \ {s} : Uses(t, o)}

\* The runs of the consoles in D are disturbed.
Disturb(frames, D) ==
    [t \in Sessions |->
        IF t \in D /\ frames[t].pc # "idle"
        THEN [frames[t] EXCEPT !.calm = FALSE]
        ELSE frames[t]]

-----------------------------------------------------------------------------
\* abuild.cmd [config]
RunAbuild(s, c) ==
    /\ Prompt(s)
    /\ ab' = [ab EXCEPT ![s] = [NoAbuild EXCEPT !.pc = "load", !.arg = c]]
    /\ UNCHANGED <<vars, tst, aromaFiles, bins>>

AbuildLoad(s) ==
    LET e == LoadSettings(ab[s].env, cfg[ab[s].arg], ab[s].arg)
        D == Others(s, e.out)
    IN  /\ ab[s].pc = "load"
        /\ MustHave(e.var)
        /\ ab' = Disturb([ab EXCEPT ![s] =
                     [@ EXCEPT !.pc = "check", !.env = e, !.calm = (D = {}),
                               !.scratch = Scratch(e.out)]], D)
        /\ tst' = Disturb(tst, IF D = {} THEN {} ELSE D \union {s})
        /\ UNCHANGED <<vars, aromaFiles, bins>>

AbuildGiveUp(s) ==
    /\ ab[s].pc = "load"
    /\ ~MustHave(LoadSettings(ab[s].env, cfg[ab[s].arg], ab[s].arg).var)
    /\ ab' = [ab EXCEPT ![s] = NoAbuild]
    /\ UNCHANGED <<vars, tst, aromaFiles, bins>>

AbuildOut(s) == ab[s].env.out

\* The libraries are there if the archive is.
AbuildHasLibs(s) ==
    /\ ab[s].pc = "check"
    /\ AbuildOut(s) \in made
    /\ ab' = [ab EXCEPT ![s].pc = "prepare"]
    /\ UNCHANGED <<vars, tst, aromaFiles, bins>>

\* call alibs.cmd %1, in this environment.
AbuildCallsAlibs(s) ==
    /\ ab[s].pc = "check"
    /\ AbuildOut(s) \notin made
    /\ al' = [al EXCEPT ![s] =
                 [IdleFrame EXCEPT !.pc = "load", !.env = ab[s].env,
                     !.args = IF ab[s].arg = "" THEN <<>> ELSE <<ab[s].arg>>]]
    /\ ab' = [ab EXCEPT ![s].pc = "alibs"]
    /\ UNCHANGED <<tree, faults, updates, tst, aromaFiles, bins>>

\* Faulty variant: it waits for the archive.
AbuildAwaitsLibs(s) ==
    /\ ab[s].pc = "alibs"
    /\ al[s].pc = "idle"
    /\ AbuildOut(s) \in made
    /\ ab' = [ab EXCEPT ![s].pc = "prepare"]
    /\ UNCHANGED <<vars, tst, aromaFiles, bins>>

AbuildGoesOn(s) ==
    /\ ab[s].pc = "alibs"
    /\ al[s].pc = "idle"
    /\ ab' = [ab EXCEPT ![s].pc = "prepare"]
    /\ UNCHANGED <<vars, tst, aromaFiles, bins>>

\* Faulty variant: one aroma folder for all configs.
InAnyAroma(A, o) == A
InAroma(A, o) == {x \in A : x.out = o}

\* rd, mkdir, cd <out>\aroma.  The old folder may stay, or the new one may not
\* come to be; then the script is still in the atools folder.
AbuildPrepare(s) ==
    /\ ab[s].pc = "prepare"
    /\ \/ /\ NoFault
          /\ aobjs' = aobjs \ InAroma(aobjs, AbuildOut(s))
          /\ ab' = [ab EXCEPT ![s] = [@ EXCEPT !.pc = "compile", !.in = TRUE]]
       \/ /\ Fault
          /\ aobjs' = aobjs
          /\ ab' = [ab EXCEPT ![s] = [@ EXCEPT !.pc = "compile", !.in = TRUE, !.calm = FALSE]]
       \/ /\ Fault
          /\ aobjs' = aobjs \ InAroma(aobjs, AbuildOut(s))
          /\ ab' = [ab EXCEPT ![s] = [@ EXCEPT !.pc = "compile", !.calm = FALSE]]
    /\ UNCHANGED <<al, tree, updates, tst, laroma, lmade, bins>>

AromaCompiled(s, u) ==
    [out |-> AbuildOut(s), tu |-> u, flags |-> ab[s].env.flags,
     options |-> Options(ab[s].env.var)]

SameAromaFile(x, y) == x.out = y.out /\ x.tu = y.tu
\* Faulty variant: what is there stays.
AromaKeep(A, new) == A \union {y \in new : \A x \in A : ~SameAromaFile(x, y)}
AromaReplace(A, new) == {x \in A : \A y \in new : ~SameAromaFile(x, y)} \union new

AbuildCompile(s) ==
    /\ ab[s].pc = "compile"
    /\ \E good \in SUBSET AromaUnits(ab[s].env.var) :
          /\ aobjs' = IF ab[s].in
                      THEN AromaReplace(aobjs, {AromaCompiled(s, u) : u \in good})
                      ELSE aobjs
          /\ \/ /\ good = AromaUnits(ab[s].env.var)
                /\ NoFault
                /\ ab' = [ab EXCEPT ![s].pc = "archive"]
             \/ /\ good # AromaUnits(ab[s].env.var)
                /\ Fault
                /\ ab' = [ab EXCEPT ![s] = [@ EXCEPT !.pc = "archive", !.calm = FALSE]]
    /\ UNCHANGED <<al, tree, updates, tst, laroma, lmade, bins>>

\* dir *.o, and ar ..\libaroma.a, taken as one step.
AbuildArchive(s) ==
    /\ ab[s].pc = "archive"
    /\ IF ab[s].in
       THEN /\ laroma' = AromaReplace(laroma, InAroma(aobjs, AbuildOut(s)))
            /\ lmade' = lmade \union {AbuildOut(s)}
       ELSE UNCHANGED <<laroma, lmade>>
    /\ ab' = [ab EXCEPT ![s].pc = "end"]
    /\ UNCHANGED <<vars, tst, aobjs, bins>>

\* endlocal; what disturbed this run disturbed the atest.cmd that called it.
AbuildEnd(s) ==
    /\ ab[s].pc = "end"
    /\ ab' = [ab EXCEPT ![s] = NoAbuild]
    /\ tst' = Disturb(tst, IF ab[s].calm THEN {} ELSE {s})
    /\ UNCHANGED <<vars, aromaFiles, bins>>
-----------------------------------------------------------------------------
\* atest.cmd [config] folder
RunAtest(s, c, a) ==
    /\ Prompt(s)
    /\ tst' = [tst EXCEPT ![s] = [NoAtest EXCEPT !.pc = "load", !.arg = c, !.app = a]]
    /\ UNCHANGED <<vars, ab, aromaFiles, bins>>

\* atest.cmd does not look whether the settings are complete.
AtestLoad(s) ==
    LET e == LoadSettings(tst[s].env, cfg[tst[s].arg], tst[s].arg)
        D == Others(s, e.out)
    IN  /\ tst[s].pc = "load"
        /\ tst' = Disturb([tst EXCEPT ![s] =
                      [@ EXCEPT !.pc = "check", !.env = e, !.calm = (D = {}),
                                !.scratch = Scratch(e.out)]], D)
        /\ ab' = Disturb(ab, D)
        /\ UNCHANGED <<vars, aromaFiles, bins>>

AtestOut(s) == tst[s].env.out

AtestHasAroma(s) ==
    /\ tst[s].pc = "check"
    /\ AtestOut(s) \in lmade
    /\ tst' = [tst EXCEPT ![s].pc = "link"]
    /\ UNCHANGED <<vars, ab, aromaFiles, bins>>

\* call abuild.cmd, in this environment, but without the config name.
AtestCallsAbuild(s) ==
    /\ tst[s].pc = "check"
    /\ AtestOut(s) \notin lmade
    /\ ab' = [ab EXCEPT ![s] = [NoAbuild EXCEPT !.pc = "load", !.env = tst[s].env]]
    /\ tst' = [tst EXCEPT ![s].pc = "abuild"]
    /\ UNCHANGED <<vars, aromaFiles, bins>>

\* Faulty variant: atest.cmd starts abuild.cmd and does not wait for it.
AtestGoesOnAtOnce(s) ==
    /\ tst[s].pc = "abuild"
    /\ tst' = [tst EXCEPT ![s].pc = "link"]
    /\ UNCHANGED <<vars, ab, aromaFiles, bins>>

AtestGoesOn(s) ==
    /\ tst[s].pc = "abuild"
    /\ ab[s].pc = "idle"
    /\ tst' = [tst EXCEPT ![s].pc = "link"]
    /\ UNCHANGED <<vars, ab, aromaFiles, bins>>

DefaultLibs(var) ==
    LET t == TargetLibs(var, <<>>) IN {t[i] : i \in DOMAIN t}

\* An archive that is missing makes the link fail; whether a missing member
\* does depends on what the program uses.
ArchivesThere(o) == o \in made /\ o \in lmade
AllThere(e) ==
    /\ ArchivesThere(e.out)
    /\ AromaUnits(e.var) \subseteq {x.tu : x \in InAroma(laroma, e.out)}
    /\ \A l \in DefaultLibs(e.var) :
          Units(l, e.var) \subseteq {x.tu : x \in OfLib(adeps, e.out, l)}

\* Everything but the compiler's own files comes from the out folder.
LinkedProgram(s) ==
    [out |-> AtestOut(s), app |-> tst[s].app,
     cpus |-> {CpuOf(x) : x \in InAroma(laroma, AtestOut(s)) \union
                                InFolder(adeps, AtestOut(s)) \union {tst[s].env}}]

\* gcc: a failed link leaves no program, a failed compilation the old one.
AtestLink(s) ==
    LET old == {p \in bins : p.out = AtestOut(s) /\ p.app = tst[s].app}
    IN  /\ tst[s].pc = "link"
        /\ \/ /\ MustHave(tst[s].env.var)
              /\ ArchivesThere(AtestOut(s))
              /\ bins' = (bins \ old) \union {LinkedProgram(s)}
              /\ tst' = [tst EXCEPT ![s] = [@ EXCEPT !.pc = "end", !.linked = TRUE]]
              /\ NoFault
           \/ /\ bins' \in {bins, bins \ old}
              /\ tst' = [tst EXCEPT ![s].pc = "end"]
              /\ ~AllThere(tst[s].env) \/ ~MustHave(tst[s].env.var)
              /\ NoFault
           \/ /\ bins' \in {bins, bins \ old}
              /\ tst' = [tst EXCEPT ![s] = [@ EXCEPT !.pc = "end", !.calm = FALSE]]
              /\ Fault
    /\ UNCHANGED <<al, tree, updates, ab, aromaFiles>>

AtestEnd(s) ==
    /\ tst[s].pc = "end"
    /\ tst' = [tst EXCEPT ![s] = NoAtest]
    /\ UNCHANGED <<vars, ab, aromaFiles, bins>>
-----------------------------------------------------------------------------
\* alibs.cmd, called or run by itself.  What disturbs it disturbs its callers,
\* and so does another console's run that starts to use their folder.
BuildAlibsStep(s) ==
    LET D == {t \in Sessions : ~al'[t].calm}
             \union (IF al[s].pc = "load" /\ al'[s].pc = "enter"
                     THEN Others(s, al'[s].env.out) ELSE {})
    IN  /\ AlibsStep(s)
        /\ ab' = Disturb(ab, D)
        /\ tst' = Disturb(tst, D)
        /\ UNCHANGED <<aromaFiles, bins>>

AbuildStep(s) ==
    \/ AbuildLoad(s) \/ AbuildGiveUp(s) \/ AbuildHasLibs(s) \/ AbuildCallsAlibs(s)
    \/ AbuildGoesOn(s) \/ AbuildPrepare(s) \/ AbuildCompile(s) \/ AbuildArchive(s)
    \/ AbuildEnd(s)

AtestStep(s) ==
    \/ AtestLoad(s) \/ AtestHasAroma(s) \/ AtestCallsAbuild(s) \/ AtestGoesOn(s)
    \/ AtestLink(s) \/ AtestEnd(s)

ScriptStep(s) == BuildAlibsStep(s) \/ AbuildStep(s) \/ AtestStep(s)

\* At the prompt, any of the three scripts.
Command(s) ==
    \/ /\ Prompt(s)
       /\ \E args \in LibArgs : RunAlibs(s, args)
       /\ UNCHANGED <<ab, tst, aromaFiles, bins>>
    \/ \E c \in Configs : RunAbuild(s, c)
    \/ \E c \in Configs, a \in Apps : RunAtest(s, c, a)

\* Ctrl-C ends the whole chain of scripts.
BuildInterrupt(s) ==
    /\ ~Prompt(s)
    /\ Fault
    /\ al' = [al EXCEPT ![s] = IdleFrame]
    /\ ab' = [ab EXCEPT ![s] = NoAbuild]
    /\ tst' = [tst EXCEPT ![s] = NoAtest]
    /\ UNCHANGED <<tree, updates, aromaFiles, bins>>

\* Editing a config or a library while scripts run disturbs them all.
BuildEdit ==
    /\ \/ \E c \in DOMAIN Versions : \E f \in Versions[c] : EditConfig(c, f)
       \/ \E l \in Updated : UpdateSource(l)
    /\ ab' = Disturb(ab, Sessions)
    /\ tst' = Disturb(tst, Sessions)
    /\ UNCHANGED <<aromaFiles, bins>>

BuildNext ==
    \/ \E s \in Sessions : Command(s) \/ BuildInterrupt(s) \/ ScriptStep(s)
    \/ BuildEdit

BuildSpec == BuildInit /\ [][BuildNext]_buildVars

\* As for alibs.cmd: scripts run on by themselves.
FairBuildSpec == BuildSpec /\ \A s \in Sessions : WF_buildVars(ScriptStep(s))
-----------------------------------------------------------------------------
\* Type correctness of the runs of abuild.cmd and atest.cmd and of their files.
BuildTypeOK ==
    /\ TypeOK
    /\ ab \in [Sessions -> AbuildFrame]
    /\ tst \in [Sessions -> AtestFrame]
    /\ aobjs \subseteq AromaObj
    /\ laroma \subseteq AromaObj
    /\ lmade \subseteq OutName
    /\ bins \subseteq Program

\* abuild.cmd and the alibs.cmd it calls load the same config, the second in
\* the environment of the first.  They agree on every variable, the flags and
\* the folder, though android has become linux in between; otherwise the
\* libraries would be built where abuild.cmd does not look for them.
CalleeAgrees ==
    \A s \in Sessions :
        ab[s].pc = "alibs" /\ ab[s].calm /\ Running(s) => al[s].env = ab[s].env

\* Whatever an earlier build left in <out>\aroma and in libaroma.a, an
\* undisturbed abuild.cmd leaves every unit of libaroma there once, compiled
\* with the settings it loaded.
AbuildRepairs ==
    \A s \in Sessions :
        ab[s].pc = "end" /\ ab[s].calm
        => /\ AbuildOut(s) \in lmade
           /\ \A u \in AromaUnits(ab[s].env.var) :
                 {x \in InAroma(laroma, AbuildOut(s)) : x.tu = u} = {AromaCompiled(s, u)}

\* What the three scripts put together in one program is for one cpu, although
\* they load their settings one after the other, the config may change between
\* that, and each trusts the archives it finds.
ProgramOneCpu == \A p \in bins : \A c, d \in p.cpus : c = d

\* From scratch and undisturbed, `atest.cmd <folder>' builds the libraries and
\* libaroma through the scripts it calls, finds them and links the program.
ScratchLinks(s) ==
    tst[s].pc = "end" /\ tst[s].calm /\ tst[s].scratch /\ MustHave(tst[s].env.var)
    => tst[s].linked

DefaultConfigLinks == \A s \in Sessions : tst[s].arg = "" => ScratchLinks(s)

\* "pass it's <configname> as the first argument in any build script"
\* (README.md:21): the program links with a custom config as well.
CustomConfigLinks == \A s \in Sessions : ScratchLinks(s)

\* "To build libaroma run abuild.cmd, if you didn't build libraries it will do
\* so automatically" (README.md:11): each library the settings ask for has
\* some objects in the archive when an undisturbed abuild.cmd ends.
AbuildHasItsLibs ==
    \A s \in Sessions :
        ab[s].pc = "end" /\ ab[s].calm
        => \A l \in DefaultLibs(ab[s].env.var) :
              Units(l, ab[s].env.var) \subseteq {x.tu : x \in OfLib(adeps, AbuildOut(s), l)}

\* A command comes back to the prompt: no script of a chain waits for another
\* for ever.
BuildsEnd == \A s \in Sessions : ~Prompt(s) ~> Prompt(s)
=============================================================================
