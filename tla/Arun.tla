-------------------------------- MODULE Arun --------------------------------
(***************************************************************************)
(* arun.cmd: it runs a program of the out folder, on Windows if there is an*)
(* .exe of that name, else on the device behind adb.  Every console pushes *)
(* to the same two files of the device, /tmp/test and /tmp/gdb, and nobody *)
(* looks whether a push or a chmod worked.                                 *)
(***************************************************************************)
EXTENDS Settings, FiniteSets

CONSTANTS
    Consoles,
    Cfg,         \* config name -> lines, "" for config.txt
    Apps,        \* the names given on command lines
    Debuggers,   \* the values of LIBAROMA_GDB that are files
    MaxFaults,   \* bound: adb commands that fail
    MaxBuilds    \* bound: programs that get built

ASSUME ArunAssumption ==
    /\ DOMAIN Cfg \subseteq Text /\ "" \in DOMAIN Cfg
    /\ \A c \in DOMAIN Cfg : Cfg[c] \in ConfigFile
    /\ Apps \subseteq Text /\ Debuggers \subseteq Text
    /\ MaxFaults \in Nat /\ MaxBuilds \in Nat

VARIABLES
    run,     \* run[s]: the run of arun.cmd in console s
    bin,     \* the programs in the out folders
    dev,     \* what is in /tmp/test and /tmp/gdb of the device
    faults, builds

vars == <<run, bin, dev, faults, builds>>

\* A program file; rev is the number of the build that made it.
Program == [out : OutName, app : Text, exe : BOOLEAN, rev : Nat]

ArunPC == {"idle", "load", "find", "pushGdb", "chmodGdb", "push", "chmod", "start", "end"}

\* did: history, what the run started.  calm: history, nothing interfered.
Frame == [pc : ArunPC, cfg : Text, app : Text, env : Env, win : BOOLEAN,
          gdb : BOOLEAN, calm : BOOLEAN, did : SUBSET Program]

Idle == [pc |-> "idle", cfg |-> "", app |-> "", env |-> EmptyEnv, win |-> FALSE,
         gdb |-> FALSE, calm |-> TRUE, did |-> {}]

\* The device: at most one program in /tmp/test; whether it and the debugger
\* may be executed.
Device == [test : {P \in SUBSET Program : Cardinality(P) <= 1}, x : BOOLEAN, gdbX : BOOLEAN]

Init ==
    /\ run = [s \in Consoles |-> Idle]
    /\ bin = {}
    /\ dev = [test |-> {}, x |-> FALSE, gdbX |-> FALSE]
    /\ faults = 0 /\ builds = 0

Fault == faults < MaxFaults /\ faults' = faults + 1
Var(s, k) == run[s].env.var[k]
Named(s) == {p \in bin : p.out = run[s].env.out /\ p.app = run[s].app}
Exe(s) == {p \in Named(s) : p.exe}
Plain(s) == {p \in Named(s) : ~p.exe}
-----------------------------------------------------------------------------
Arun(s, c, a) ==
    /\ run[s].pc = "idle"
    /\ run' = [run EXCEPT ![s] = [Idle EXCEPT !.pc = "load", !.cfg = c, !.app = a]]
    /\ UNCHANGED <<bin, dev, faults, builds>>

\* Load the config the first parameter names, or config.txt.
Load(s) ==
    LET e == LoadSettings(EmptyEnv, Cfg[run[s].cfg], run[s].cfg)
    IN  /\ run[s].pc = "load"
        /\ run' = [run EXCEPT ![s] = IF MustHave(e.var)
                                     THEN [@ EXCEPT !.pc = "find", !.env = e] ELSE Idle]
        /\ UNCHANGED <<bin, dev, faults, builds>>

\* USE_GDB: only the device's branch looks whether the debugger is there.
UseGdb(s) ==
    /\ Var(s, "LIBAROMA_DEBUG") = "yes"
    /\ Var(s, "LIBAROMA_GDB") # ""
    /\ Exe(s) = {} => Var(s, "LIBAROMA_GDB") \in Debuggers

\* Give up without a program; prefer the .exe.
Find(s) ==
    /\ run[s].pc = "find"
    /\ run' = [run EXCEPT ![s] =
                 IF Named(s) = {} THEN Idle
                 ELSE [@ EXCEPT !.win = Exe(s) # {}, !.gdb = UseGdb(s),
                                !.pc = IF Exe(s) # {} THEN "start"
                                       ELSE IF UseGdb(s) THEN "pushGdb" ELSE "push"]]
    /\ UNCHANGED <<bin, dev, faults, builds>>

\* One adb command, and the next whether or not it worked.  A console that
\* writes to the device disturbs the others that are using it.
Adb(s, at, next, new) ==
    /\ run[s].pc = at
    /\ \/ /\ dev' = new
          /\ run' = [t \in Consoles |->
                       IF t = s THEN [run[t] EXCEPT !.pc = next]
                       ELSE [run[t] EXCEPT !.calm = @ /\ run[t].pc \in {"idle", "load", "find"}]]
          /\ UNCHANGED faults
       \/ /\ Fault
          /\ UNCHANGED dev
          /\ run' = [run EXCEPT ![s] = [@ EXCEPT !.pc = next, !.calm = FALSE]]
    /\ UNCHANGED <<bin, builds>>

\* Faulty variant: the debugger is left as it was pushed.
ChmodNothing(s) == Adb(s, "chmodGdb", "push", dev)

\* adb push makes a new file, which nobody may execute yet.
PushGdb(s) == Adb(s, "pushGdb", "chmodGdb", [dev EXCEPT !.gdbX = FALSE])
ChmodGdb(s) == Adb(s, "chmodGdb", "push", [dev EXCEPT !.gdbX = TRUE])
Push(s) ==
    Adb(s, "push", "chmod",
        IF Plain(s) = {} THEN dev ELSE [dev EXCEPT !.test = Plain(s), !.x = FALSE])
Chmod(s) == Adb(s, "chmod", "start", [dev EXCEPT !.x = dev.test # {}])

\* What gets started, under a debugger or not; a debugger or program that is
\* not there only prints a message.
Started(s) ==
    IF run[s].win
    THEN {p \in Exe(s) : run[s].gdb => Var(s, "LIBAROMA_GDB") \in Debuggers}
    ELSE {p \in dev.test : dev.x /\ (run[s].gdb => dev.gdbX)}

Start(s) ==
    /\ run[s].pc = "start"
    /\ run' = [run EXCEPT ![s] = [@ EXCEPT !.pc = "end", !.did = Started(s)]]
    /\ UNCHANGED <<bin, dev, faults, builds>>

End(s) ==
    /\ run[s].pc = "end"
    /\ run' = [run EXCEPT ![s] = Idle]
    /\ UNCHANGED <<bin, dev, faults, builds>>

\* Faulty variant: a new program is put beside the old one.
BuiltBeside(o, a, x) ==
    /\ builds < MaxBuilds
    /\ builds' = builds + 1
    /\ bin' = bin \union {[out |-> o, app |-> a, exe |-> x, rev |-> builds]}
    /\ UNCHANGED <<run, dev, faults>>

\* atest.cmd makes a program, an .exe or not as the compiler of the config
\* has it, perhaps while arun.cmd is running.
Built(o, a, x) ==
    /\ builds < MaxBuilds
    /\ builds' = builds + 1
    /\ bin' = {p \in bin : <<p.out, p.app, p.exe>> # <<o, a, x>>}
              \union {[out |-> o, app |-> a, exe |-> x, rev |-> builds]}
    /\ run' = [t \in Consoles |->
                 [run[t] EXCEPT !.calm = @ /\ run[t].pc \in {"idle", "load", "find"}]]
    /\ UNCHANGED <<dev, faults>>

OutOf(c) == LoadSettings(EmptyEnv, Cfg[c], c).out

Next ==
    \/ \E s \in Consoles :
          \/ \E c \in DOMAIN Cfg, a \in Apps : Arun(s, c, a)
          \/ Load(s) \/ Find(s) \/ PushGdb(s) \/ ChmodGdb(s) \/ Push(s) \/ Chmod(s)
          \/ Start(s) \/ End(s)
    \/ \E c \in DOMAIN Cfg, a \in Apps, x \in BOOLEAN : Built(OutOf(c), a, x)

Spec == Init /\ [][Next]_vars
-----------------------------------------------------------------------------
\* Type correctness of the runs, the programs and the device.
TypeOK ==
    /\ run \in [Consoles -> Frame]
    /\ bin \subseteq Program
    /\ dev \in Device
    /\ faults \in 0 .. MaxFaults /\ builds \in 0 .. MaxBuilds

\* Whatever program, executable or not, the pushes of earlier runs and of other
\* consoles left in /tmp/test and /tmp/gdb, a run that nothing interferes with
\* starts the program it was asked for, as it is in its out folder.  The only
\* excuse is a Windows debugger that is configured but not there.
CalmRunStarts ==
    \A s \in Consoles :
        run[s].pc = "end" /\ run[s].calm
        => \/ run[s].did = IF Exe(s) # {} THEN Exe(s) ELSE Plain(s)
           \/ Exe(s) # {} /\ run[s].gdb /\ Var(s, "LIBAROMA_GDB") \notin Debuggers

=============================================================================
