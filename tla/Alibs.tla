------------------------------- MODULE Alibs -------------------------------
(***************************************************************************)
(* alibs.cmd: it builds the libraries one after the other, each in a folder*)
(* of its own under <out>\libs, and puts their objects into                *)
(* <out>\libadeps.a.  No step looks at the exit code of the one before it, *)
(* the paths are relative to the folder the script believes to be in, and  *)
(* any number of consoles may run it, in the same out folder or not.       *)
(*                                                                         *)
(* An archive, or the object folders, of all out folders together are one  *)
(* set of objects, each with the folder it is in.                          *)
(***************************************************************************)
EXTENDS DepLibs, FiniteSets

CONSTANTS
    Sessions,    \* the consoles
    Versions,    \* config name -> the contents its file may have
    LibArgs,     \* the command lines, %1 %2 ...
    MaxFaults,   \* bound: failures and interruptions in a behaviour
    MaxUpdates,  \* bound: updates of library sources in a behaviour
    Updated      \* bound: the libraries whose sources may be updated

ASSUME VersionsAssumption ==
    /\ DOMAIN Versions \subseteq Text
    /\ "" \in DOMAIN Versions
    /\ \A c \in DOMAIN Versions :
          Versions[c] # {} /\ Versions[c] \subseteq ConfigFile

ASSUME ArgsAssumption == LibArgs \subseteq Seq(Text)
ASSUME BoundsAssumption == 
    MaxFaults \in Nat /\ MaxUpdates \in Nat /\ Updated \subseteq Lib

VARIABLES
    al,       \* al[s]: the run of alibs.cmd in console s
    cfg,      \* cfg[c]: the lines of a config file, <<>> if there is none
    rev,      \* rev[l]: the revision of the sources of library l
    root,     \* the source folders beside the scripts
    libsDir,  \* the out folders that have a libs\ in them
    objs,     \* the objects in the library folders
    adeps,    \* the members of the libadeps.a archives
    made,     \* the out folders that have a libadeps.a
    faults, updates

tree == <<cfg, rev, root, libsDir, objs, adeps, made>>
vars == <<al, tree, faults, updates>>

-----------------------------------------------------------------------------
\* An object file: where it is, what it was compiled from and how.
Obj == [out : OutName, lib : Text, tu : Text, rev : Nat, flags : SUBSET LibFlag]

\* Faulty variant: the library folders are not below the out folder.
OfLibAnywhere(A, o, l) == {x \in A : x.lib = l}

InFolder(A, o) == {x \in A : x.out = o}
OfLib(A, o, l) == {x \in A : x.out = o /\ x.lib = l}

SameFile(x, y) == x.out = y.out /\ x.lib = y.lib /\ x.tu = y.tu

\* Faulty variants: the archive is made anew, or appended to.
Recreate(A, new) == new
KeepOld(A, new) == A \union {y \in new : \A x \in A : ~SameFile(x, y)}

\* What the compiler and `ar -r' do with files that are there already.  An
\* archive tells members apart by name; no two libraries share one.
Replace(A, new) == {x \in A : \A y \in new : ~SameFile(x, y)} \union new

AlibsPC == {"idle", "load", "enter", "loop", "compile", "list",
            "arRead", "arWrite", "up", "end"}

\* A run of the script.  cwd counts the folders between the current one and the
\* atools folder: 0 atools, 1 <out>, 2 <out>\libs, 3 <out>\libs\<lib>.
Frame == [pc      : AlibsPC,
          args    : Seq(Text),
          env     : Env,
          cwd     : 0 .. 3,
          targets : Seq(Text),      \* TARGET_LIBS
          at      : Nat,              \* the position of %%i in it
          names   : SUBSET Text,    \* lib_objs
          mem     : SUBSET Obj,       \* the archive `ar' is about to write
          calm    : BOOLEAN]          \* history: nothing interfered with this run

IdleFrame == [pc |-> "idle", args |-> <<>>, env |-> EmptyEnv, cwd |-> 0,
              targets |-> <<>>, at |-> 1, names |-> {}, mem |-> {}, calm |-> TRUE]

Init ==
    /\ al = [s \in Sessions |-> IdleFrame]
    /\ cfg \in [DOMAIN Versions -> UNION {Versions[c] : c \in DOMAIN Versions}]
    /\ \A c \in DOMAIN Versions : cfg[c] \in Versions[c]
    /\ rev = [l \in Lib |-> 0]
    /\ root = RootFolder
    /\ libsDir = {} /\ objs = {} /\ adeps = {} /\ made = {}
    /\ faults = 0 /\ updates = 0

-----------------------------------------------------------------------------
\* A step that went wrong, of a run that goes on regardless.
Fault == faults < MaxFaults /\ faults' = faults + 1
NoFault == UNCHANGED faults

Running(s) == al[s].pc \notin {"idle", "load"}
Out(s) == al[s].env.out
Current(s) == al[s].targets[al[s].at]

RunAlibs(s, args) ==
    /\ al[s].pc = "idle"
    /\ al' = [al EXCEPT ![s] = [IdleFrame EXCEPT !.pc = "load", !.args = args]]
    /\ UNCHANGED <<tree, faults, updates>>

\* The first argument is a config name if there is such a config file.
NamesConfig(args) ==
    /\ args # <<>>
    /\ Head(args) # ""
    /\ Head(args) \in DOMAIN cfg
    /\ cfg[Head(args)] # <<>>

ConfigArg(args) == IF NamesConfig(args) THEN Head(args) ELSE ""
NameArgs(args)  == IF NamesConfig(args) THEN Tail(args) ELSE args

Loaded(s) ==
    LET c == ConfigArg(al[s].args) IN LoadSettings(al[s].env, cfg[c], c)

\* From here on the run works in its out folder, so it and the others that do
\* are no longer undisturbed.
AlibsLoad(s) ==
    LET e == Loaded(s)
        others == {t \in Sessions \ {s} : Running(t) /\ Out(t) = e.out}
    IN  /\ al[s].pc = "load"
        /\ MustHave(e.var)
        /\ al' = [t \in Sessions |->
                    IF t = s
                    THEN [al[s] EXCEPT !.pc = "enter", !.env = e,
                            !.targets = TargetLibs(e.var, NameArgs(al[s].args)),
                            !.calm = (others = {})]
                    ELSE IF t \in others THEN [al[t] EXCEPT !.calm = FALSE]
                    ELSE al[t]]
        /\ UNCHANGED <<tree, faults, updates>>

AlibsGiveUp(s) ==
    /\ al[s].pc = "load"
    /\ ~MustHave(Loaded(s).var)
    /\ al' = [al EXCEPT ![s] = IdleFrame]
    /\ UNCHANGED <<tree, faults, updates>>

\* Make <out>\libs unless it is there, and go there: `cd' stays where it is if
\* the folder could not be made.
AlibsEnter(s) ==
    /\ al[s].pc = "enter"
    /\ \/ /\ NoFault
          /\ libsDir' = libsDir \union {Out(s)}
          /\ al' = [al EXCEPT ![s] = [@ EXCEPT !.pc = "loop", !.cwd = 2]]
       \/ /\ Fault
          /\ Out(s) \notin libsDir
          /\ al' = [al EXCEPT ![s] = [@ EXCEPT !.pc = "loop", !.calm = FALSE]]
          /\ UNCHANGED libsDir
    /\ UNCHANGED <<cfg, rev, root, objs, adeps, made, updates>>

-----------------------------------------------------------------------------
\* Faulty variant: the test looks in the atools folder from wherever it is.
FolderInRoot(s) == Current(s) \in root

\* `if not exist ..\..\%%i\' holds only two folders below atools.
FolderSeen(s) == al[s].cwd = 2 /\ Current(s) \in root

AlibsDone(s) ==
    /\ al[s].pc = "loop"
    /\ al[s].at > Len(al[s].targets)
    /\ al' = [al EXCEPT ![s] = [@ EXCEPT !.pc = "end"]]
    /\ UNCHANGED <<tree, faults, updates>>

\* An invalid name ends the whole loop.
AlibsInvalid(s) ==
    /\ al[s].pc = "loop"
    /\ al[s].at <= Len(al[s].targets)
    /\ ~FolderSeen(s)
    /\ al' = [al EXCEPT ![s] = [@ EXCEPT !.pc = "end"]]
    /\ UNCHANGED <<tree, faults, updates>>

\* rd /s /q %%i: in the atools folder, it would delete the sources.
RemoveFolder(s) ==
    /\ objs' = IF al[s].cwd = 2 THEN objs \ OfLib(objs, Out(s), Current(s)) ELSE objs
    /\ root' = IF al[s].cwd = 0 THEN root \ {Current(s)} ELSE root

\* rd, mkdir %%i, cd %%i.  A file in use keeps the old folder as it is; a mkdir
\* that fails leaves the script in the folder above.
AlibsPrepare(s) ==
    /\ al[s].pc = "loop"
    /\ al[s].at <= Len(al[s].targets)
    /\ FolderSeen(s)
    /\ \/ /\ NoFault
          /\ RemoveFolder(s)
          /\ al' = [al EXCEPT ![s] = [@ EXCEPT !.pc = "compile", !.cwd = al[s].cwd + 1]]
       \/ /\ Fault
          /\ UNCHANGED <<objs, root>>
          /\ al' = [al EXCEPT ![s] = [@ EXCEPT !.pc = "compile",
                                               !.cwd = al[s].cwd + 1, !.calm = FALSE]]
       \/ /\ Fault
          /\ RemoveFolder(s)
          /\ al' = [al EXCEPT ![s] = [@ EXCEPT !.pc = "compile", !.calm = FALSE]]
    /\ UNCHANGED <<cfg, rev, libsDir, adeps, made, updates>>

\* The object gcc makes of unit u; it finds the sources from <out>\libs\<lib>.
Compiled(s, u) == [out |-> Out(s), lib |-> Current(s), tu |-> u,
                   rev |-> rev[Current(s)], flags |-> LibFlags(Current(s), al[s].env)]

Compilable(s) == IF al[s].cwd = 3 THEN Units(Current(s), al[s].env.var) ELSE {}

\* call :%%i -- gcc goes on with the next source after one that fails.
AlibsCompile(s) ==
    /\ al[s].pc = "compile"
    /\ \E good \in SUBSET Compilable(s) :
          /\ objs' = Replace(objs, {Compiled(s, u) : u \in good})
          /\ \/ /\ good = Compilable(s)
                /\ NoFault
                /\ al' = [al EXCEPT ![s] = [@ EXCEPT !.pc = "list"]]
             \/ /\ good # Compilable(s)
                /\ Fault
                /\ al' = [al EXCEPT ![s] = [@ EXCEPT !.pc = "list", !.calm = FALSE]]
    /\ UNCHANGED <<cfg, rev, root, libsDir, adeps, made, updates>>

\* lib_objs: whatever objects are in the current folder.
Listed(s) ==
    IF al[s].cwd = 3 THEN {x.tu : x \in OfLib(objs, Out(s), Current(s))} ELSE {}

AlibsList(s) ==
    /\ al[s].pc = "list"
    /\ al' = [al EXCEPT ![s] = [@ EXCEPT !.pc = "arRead", !.names = Listed(s)]]
    /\ UNCHANGED <<tree, faults, updates>>

Given(s) == {x \in OfLib(objs, Out(s), Current(s)) : x.tu \in al[s].names}

\* ar reads the archive and the objects it is given ...
AlibsArRead(s) ==
    /\ al[s].pc = "arRead"
    /\ al[s].names \subseteq {x.tu : x \in Given(s)}
    /\ al' = [al EXCEPT ![s] =
                [@ EXCEPT !.pc = "arWrite",
                          !.mem = IF al[s].cwd = 3
                                  THEN Replace(InFolder(adeps, Out(s)), Given(s))
                                  ELSE {}]]
    /\ UNCHANGED <<tree, faults, updates>>

\* ... but leaves the archive alone if one of them has gone ...
AlibsArRefuse(s) ==
    /\ al[s].pc = "arRead"
    /\ ~(al[s].names \subseteq {x.tu : x \in Given(s)})
    /\ al' = [al EXCEPT ![s] = [@ EXCEPT !.pc = "up"]]
    /\ UNCHANGED <<tree, faults, updates>>

\* ... and writes ..\..\libadeps.a, creating it if need be, even empty.  From
\* a folder above, that is a file in the atools folder which nothing reads.
AlibsArWrite(s) ==
    /\ al[s].pc = "arWrite"
    /\ IF al[s].cwd = 3
       THEN /\ adeps' = (adeps \ InFolder(adeps, Out(s))) \union al[s].mem
            /\ made' = made \union {Out(s)}
       ELSE UNCHANGED <<adeps, made>>
    /\ al' = [al EXCEPT ![s] = [@ EXCEPT !.pc = "up"]]
    /\ UNCHANGED <<cfg, rev, root, libsDir, objs, faults, updates>>

\* Faulty variant: up to the atools folder.
AlibsUpToRoot(s) ==
    /\ al[s].pc = "up"
    /\ al' = [al EXCEPT ![s] = [@ EXCEPT !.pc = "loop", !.cwd = al[s].cwd - 3,
                                         !.at = al[s].at + 1, !.names = {}, !.mem = {}]]
    /\ UNCHANGED <<tree, faults, updates>>

\* cd .., on to the next name.
AlibsUp(s) ==
    /\ al[s].pc = "up"
    /\ al' = [al EXCEPT ![s] = [@ EXCEPT !.pc = "loop", !.cwd = al[s].cwd - 1,
                                         !.at = al[s].at + 1, !.names = {}, !.mem = {}]]
    /\ UNCHANGED <<tree, faults, updates>>

\* endlocal gives the caller its folder and environment back.
AlibsEnd(s) ==
    /\ al[s].pc = "end"
    /\ al' = [al EXCEPT ![s] = IdleFrame]
    /\ UNCHANGED <<tree, faults, updates>>

-----------------------------------------------------------------------------
\* The user: Ctrl-C or a closed console, ...
Interrupt(s) ==
    /\ al[s].pc # "idle"
    /\ Fault
    /\ al' = [al EXCEPT ![s] = IdleFrame]
    /\ UNCHANGED <<tree, updates>>

\* ... another content of a config file, ...
EditConfig(c, f) ==
    /\ cfg' = [cfg EXCEPT ![c] = f]
    /\ UNCHANGED <<al, rev, root, libsDir, objs, adeps, made, faults, updates>>

\* ... or new sources of a library, perhaps while it is being built.
UpdateSource(l) ==
    /\ updates < MaxUpdates
    /\ updates' = updates + 1
    /\ rev' = [rev EXCEPT ![l] = @ + 1]
    /\ al' = [t \in Sessions |-> [al[t] EXCEPT !.calm = @ /\ ~Running(t)]]
    /\ UNCHANGED <<cfg, root, libsDir, objs, adeps, made, faults>>

AlibsStep(s) ==
    \/ AlibsLoad(s) \/ AlibsGiveUp(s) \/ AlibsEnter(s)
    \/ AlibsDone(s) \/ AlibsInvalid(s) \/ AlibsPrepare(s)
    \/ AlibsCompile(s) \/ AlibsList(s)
    \/ AlibsArRead(s) \/ AlibsArRefuse(s) \/ AlibsArWrite(s)
    \/ AlibsUp(s) \/ AlibsEnd(s)

User ==
    \/ \E s \in Sessions : Interrupt(s) \/ \E args \in LibArgs : RunAlibs(s, args)
    \/ \E c \in DOMAIN Versions : \E f \in Versions[c] : EditConfig(c, f)
    \/ \E l \in Updated : UpdateSource(l)

Next == User \/ \E s \in Sessions : AlibsStep(s)

Spec == Init /\ [][Next]_vars

-----------------------------------------------------------------------------
\* Type correctness of the runs and of the files they leave.
TypeOK ==
    /\ al \in [Sessions -> Frame]
    /\ cfg \in [DOMAIN Versions -> ConfigFile]
    /\ rev \in [Lib -> Nat]
    /\ root \subseteq RootFolder
    /\ libsDir \subseteq OutName
    /\ objs \subseteq Obj
    /\ adeps \subseteq Obj
    /\ made \subseteq OutName
    /\ faults \in Nat /\ updates \in Nat

\* `rd /s /q %%i' is relative, and the folders it is meant to delete have the
\* names of the source folders.  Whichever mkdir fails, whoever interrupts the
\* script or runs it at the same time, the sources stay: the existence test
\* before it, made for invalid names, also keeps the rd out of the atools folder.
SourcesKept == root = RootFolder

\* Objects for different cpus do not link: the calling convention differs, and
\* jpeg would get two memory managers.  No archive ever mixes them, although
\* `ar -r' never removes a member, config files change between and during runs,
\* and several configs may build in one folder.
SameCpu(x, y) ==
    /\ \A c \in {"neon", "sse2"} : c \in x.flags <=> c \in y.flags
    /\ ~(x.tu = "neon" /\ y.tu = "nobs")

OneCpuPerArchive == \A x, y \in adeps : x.out = y.out => SameCpu(x, y)

Fresh(s, l, u) ==
    {x \in OfLib(adeps, Out(s), l) : x.tu = u} =
        {[out |-> Out(s), lib |-> l, tu |-> u,
          rev |-> rev[l], flags |-> LibFlags(l, al[s].env)]}

FreshLib(s, l) == \A u \in Units(l, al[s].env.var) : Fresh(s, l, u)

\* Whatever earlier runs left -- half-made folders, an archive of other settings
\* or older sources, members of failed compilations -- a run that nothing
\* interferes with makes the archive right: for every library it was to build,
\* each object is there once, from the current sources and with its settings.
\* Runs in other out folders may go on meanwhile.
CalmRunRepairs ==
    \A s \in Sessions :
        /\ al[s].pc = "end"
        /\ al[s].calm
        /\ al[s].at > Len(al[s].targets)
        => /\ Out(s) \in made
           /\ \A i \in DOMAIN al[s].targets : FreshLib(s, al[s].targets[i])

\* Building one library never costs the archive a member of another: when an
\* undisturbed run writes the archive, every member is still there, old or new.
MembersKept ==
    [][\A s \in Sessions :
          al[s].pc = "arWrite" /\ al[s].calm /\ al'[s].pc = "up"
          => \A x \in InFolder(adeps, Out(s)) : \E y \in adeps' : SameFile(x, y)]_vars

\* One console's builds, with all their failures and interruptions, are puts of
\* single libraries into archives, though alibs.cmd reads the archive in one
\* step, writes it in another and stages the objects in folders that runs with
\* other settings share.  Two consoles in one folder lose each other's puts.
Puts == INSTANCE Archive WITH members <- adeps, exist <- made, Library <- Lib
ArchiveSpecHolds == Puts!ArchiveSpec
=============================================================================
