-------------------------- MODULE ProgramsProofs --------------------------
(***************************************************************************)
(* What the programs that wait for a device, the kernel, a message or      *)
(* their data do, for any number of consoles, config files, programs and   *)
(* faults, pictures of any size, and streams and windows of any length.    *)
(***************************************************************************)
EXTENDS Programs, SettingsTheorems, FiniteSetTheorems, SequenceTheorems, WellFoundedInduction
-----------------------------------------------------------------------------
(***************************************************************************)
(* arun.cmd.  The types: the device holds one program at most, as an out   *)
(* folder has one file of each name.                                       *)
(***************************************************************************)
OneFile == \A p, q \in bin : p.out = q.out /\ p.app = q.app /\ p.exe = q.exe => p = q

ConfigsNamed == \A s \in Consoles : run[s].cfg \in DOMAIN Cfg

TypeInv == TypeOK /\ OneFile /\ ConfigsNamed

AtMostOne == {P \in SUBSET Program : Cardinality(P) <= 1}

LEMMA EmptyEnvIsEnv == EmptyEnv \in Env
  BY TextAssumption DEF EmptyEnv, Env, NoOut, OutName

LEMMA IdleIsFrame == Idle \in Frame /\ Idle.cfg \in DOMAIN Cfg
  BY EmptyEnvIsEnv, TextAssumption, ArunAssumption DEF Idle, Frame, ArunPC

LEMMA SettingsOfConfig ==
    ASSUME NEW c \in DOMAIN Cfg
    PROVE  LoadSettings(EmptyEnv, Cfg[c], c) \in Env
  BY EmptyEnvIsEnv, LoadSettingsType, ArunAssumption

LEMMA FewPrograms ==
    ASSUME NEW P \in SUBSET Program, \A p, q \in P : p = q
    PROVE  P \in AtMostOne
<1>1. CASE P = {}
  BY <1>1, FS_EmptySet DEF AtMostOne
<1>2. CASE P # {}
  <2>1. PICK p \in P : P = {p}
    BY <1>2
  <2>. QED
    BY <2>1, FS_Singleton DEF AtMostOne
<1>. QED
  BY <1>1, <1>2

\* What is pushed to /tmp/test is one program.
LEMMA PlainIsOne ==
    ASSUME TypeInv, NEW s \in Consoles
    PROVE  Plain(s) \in AtMostOne
<1>1. Plain(s) \in SUBSET Program
  BY DEF TypeInv, TypeOK, Plain, Named
<1>2. \A p, q \in Plain(s) : p = q
  <2> SUFFICES ASSUME NEW p \in Plain(s), NEW q \in Plain(s)
               PROVE  p = q
    OBVIOUS
  <2>1. p \in bin /\ q \in bin /\ p.out = q.out /\ p.app = q.app /\ ~p.exe /\ ~q.exe
    BY DEF Plain, Named
  <2>2. p.exe \in BOOLEAN /\ q.exe \in BOOLEAN
    BY <2>1 DEF TypeInv, TypeOK, Program
  <2>. QED
    BY <2>1, <2>2 DEF TypeInv, OneFile
<1>. QED
  BY <1>1, <1>2, FewPrograms

LEMMA Bounds == MaxFaults \in Nat /\ MaxBuilds \in Nat
  BY ArunAssumption

LEMMA InitTypes == ASSUME Init PROVE TypeInv
<1>1. {} \in AtMostOne
  BY FewPrograms
<1>2. dev \in Device
  BY <1>1 DEF Init, Device, AtMostOne
<1>3. run \in [Consoles -> Frame] /\ ConfigsNamed
  BY IdleIsFrame DEF Init, ConfigsNamed
<1>4. faults \in 0 .. MaxFaults /\ builds \in 0 .. MaxBuilds
  BY Bounds DEF Init
<1>. QED
  BY <1>2, <1>3, <1>4 DEF Init, TypeInv, TypeOK, OneFile

\* One console goes on, and the rest stays.
LEMMA RunTypes ==
    ASSUME TypeInv, NEW s \in Consoles, NEW f \in Frame, f.cfg \in DOMAIN Cfg,
           run' = [run EXCEPT ![s] = f], UNCHANGED <<bin, dev, faults, builds>>
    PROVE  TypeInv'
  BY DEF TypeInv, TypeOK, OneFile, ConfigsNamed

LEMMA AdbTypes ==
    ASSUME TypeInv, NEW s \in Consoles, NEW at, NEW next \in ArunPC, NEW new \in Device,
           Adb(s, at, next, new)
    PROVE  TypeInv'
<1>1. run' \in [Consoles -> Frame] /\ \A t \in Consoles : run'[t].cfg = run[t].cfg
  <2>1. \A t \in Consoles : run[t] \in Frame
    BY DEF TypeInv, TypeOK
  <2>2. CASE run' = [t \in Consoles |->
                       IF t = s THEN [run[t] EXCEPT !.pc = next]
                       ELSE [run[t] EXCEPT !.calm = @ /\ run[t].pc \in {"idle", "load", "find"}]]
    <3>1. \A t \in Consoles : run'[t] \in Frame /\ run'[t].cfg = run[t].cfg
      BY <2>1, <2>2 DEF Frame
    <3>. QED
      BY <2>2, <3>1
  <2>3. CASE run' = [run EXCEPT ![s] = [@ EXCEPT !.pc = next, !.calm = FALSE]]
    BY <2>1, <2>3 DEF Frame, TypeInv, TypeOK
  <2>. QED
    BY <2>2, <2>3, Zenon DEF Adb
<1>2. dev' \in Device /\ bin' = bin /\ builds' = builds
  BY DEF Adb, TypeInv, TypeOK
<1>3. faults' \in 0 .. MaxFaults
  <2>1. faults' = faults \/ (faults < MaxFaults /\ faults' = faults + 1)
    BY Zenon DEF Adb, Fault
  <2>2. faults \in 0 .. MaxFaults
    BY DEF TypeInv, TypeOK
  <2>. QED
    BY <2>1, <2>2, Bounds
<1>. QED
  BY <1>1, <1>2, <1>3 DEF TypeInv, TypeOK, OneFile, ConfigsNamed

LEMMA BuiltTypes ==
    ASSUME TypeInv, NEW c \in DOMAIN Cfg, NEW a \in Apps, NEW x \in BOOLEAN,
           Built(OutOf(c), a, x)
    PROVE  TypeInv'
<1> DEFINE o == OutOf(c)
           new == [out |-> o, app |-> a, exe |-> x, rev |-> builds]
<1>1. o \in OutName
  BY SettingsOfConfig DEF OutOf, Env
<1>2. builds \in Nat /\ builds' \in 0 .. MaxBuilds
  <2>1. builds < MaxBuilds /\ builds' = builds + 1
    BY DEF Built
  <2>2. builds \in 0 .. MaxBuilds
    BY DEF TypeInv, TypeOK
  <2>. QED
    BY <2>1, <2>2, Bounds
<1>3. new \in Program
  BY <1>1, <1>2, ArunAssumption DEF Program
<1> HIDE DEF o
<1>4. bin' = {p \in bin : <<p.out, p.app, p.exe>> # <<o, a, x>>} \union {new}
  BY DEF Built, o
<1>5. bin' \subseteq Program /\ OneFile'
  BY <1>3, <1>4 DEF TypeInv, TypeOK, OneFile
<1>6. run' \in [Consoles -> Frame] /\ ConfigsNamed'
  <2>1. \A t \in Consoles : run[t] \in Frame /\ run[t].cfg \in DOMAIN Cfg
    BY DEF TypeInv, TypeOK, ConfigsNamed
  <2>2. run' = [t \in Consoles |->
                  [run[t] EXCEPT !.calm = @ /\ run[t].pc \in {"idle", "load", "find"}]]
    BY DEF Built
  <2>3. \A t \in Consoles : run'[t] \in Frame /\ run'[t].cfg = run[t].cfg
    BY <2>1, <2>2 DEF Frame
  <2>. QED
    BY <2>1, <2>2, <2>3 DEF ConfigsNamed
<1>. QED
  BY <1>2, <1>5, <1>6 DEF Built, TypeInv, TypeOK

LEMMA NextTypes == ASSUME TypeInv, [Next]_vars PROVE TypeInv'
<1>0. \A s \in Consoles : run[s] \in Frame /\ run[s].cfg \in DOMAIN Cfg
  BY DEF TypeInv, TypeOK, ConfigsNamed
<1>1. ASSUME NEW s \in Consoles, NEW c \in DOMAIN Cfg, NEW a \in Apps, Arun(s, c, a)
      PROVE  TypeInv'
  <2>1. [Idle EXCEPT !.pc = "load", !.cfg = c, !.app = a] \in Frame
    BY IdleIsFrame, ArunAssumption DEF Frame, ArunPC
  <2>2. [Idle EXCEPT !.pc = "load", !.cfg = c, !.app = a].cfg = c
    BY IdleIsFrame DEF Frame
  <2>. QED
    BY <1>1, <2>1, <2>2, RunTypes DEF Arun
<1>2. ASSUME NEW s \in Consoles, Load(s)
      PROVE  TypeInv'
  <2> DEFINE e == LoadSettings(EmptyEnv, Cfg[run[s].cfg], run[s].cfg)
             f == IF MustHave(e.var) THEN [run[s] EXCEPT !.pc = "find", !.env = e] ELSE Idle
  <2>1. e \in Env
    BY <1>0, SettingsOfConfig
  <2>2. run' = [run EXCEPT ![s] = f] /\ UNCHANGED <<bin, dev, faults, builds>>
    BY <1>2 DEF Load
  <2> HIDE DEF e
  <2>3. f \in Frame /\ f.cfg \in DOMAIN Cfg
    BY <1>0, <2>1, IdleIsFrame DEF Frame, ArunPC
  <2>. QED
    BY <2>2, <2>3, RunTypes
<1>3. ASSUME NEW s \in Consoles, Find(s)
      PROVE  TypeInv'
  <2> DEFINE f == IF Named(s) = {} THEN Idle
                  ELSE [run[s] EXCEPT !.win = Exe(s) # {}, !.gdb = UseGdb(s),
                                      !.pc = IF Exe(s) # {} THEN "start"
                                             ELSE IF UseGdb(s) THEN "pushGdb" ELSE "push"]
  <2>1. run' = [run EXCEPT ![s] = f] /\ UNCHANGED <<bin, dev, faults, builds>>
    BY <1>3 DEF Find
  <2>2. UseGdb(s) \in BOOLEAN
    BY DEF UseGdb
  <2>3. f \in Frame /\ f.cfg \in DOMAIN Cfg
    BY <1>0, <2>2, IdleIsFrame DEF Frame, ArunPC
  <2>. QED
    BY <2>1, <2>3, RunTypes
<1>4. dev \in Device /\ \A s \in Consoles : Plain(s) \in AtMostOne
  BY PlainIsOne DEF TypeInv, TypeOK
<1>5. ASSUME NEW s \in Consoles, PushGdb(s) \/ ChmodGdb(s) \/ Push(s) \/ Chmod(s)
      PROVE  TypeInv'
  <2>1. CASE PushGdb(s)
    <3>1. [dev EXCEPT !.gdbX = FALSE] \in Device
      BY <1>4 DEF Device
    <3>. QED
      BY <2>1, <3>1, AdbTypes DEF PushGdb, ArunPC
  <2>2. CASE ChmodGdb(s)
    <3>1. [dev EXCEPT !.gdbX = TRUE] \in Device
      BY <1>4 DEF Device
    <3>. QED
      BY <2>2, <3>1, AdbTypes DEF ChmodGdb, ArunPC
  <2>3. CASE Push(s)
    <3>1. (IF Plain(s) = {} THEN dev ELSE [dev EXCEPT !.test = Plain(s), !.x = FALSE])
            \in Device
      BY <1>4 DEF Device, AtMostOne
    <3>. QED
      BY <2>3, <3>1, AdbTypes DEF Push, ArunPC
  <2>4. CASE Chmod(s)
    <3>1. [dev EXCEPT !.x = dev.test # {}] \in Device
      BY <1>4 DEF Device
    <3>. QED
      BY <2>4, <3>1, AdbTypes DEF Chmod, ArunPC
  <2>. QED
    BY <1>5, <2>1, <2>2, <2>3, <2>4
<1>6. ASSUME NEW s \in Consoles, Start(s)
      PROVE  TypeInv'
  <2>1. Started(s) \in SUBSET Program
    <3>1. dev.test \subseteq Program
      BY <1>4 DEF Device
    <3>2. Exe(s) \subseteq Program
      BY DEF Exe, Named, TypeInv, TypeOK
    <3>. QED
      BY <3>1, <3>2 DEF Started
  <2>2. [run[s] EXCEPT !.pc = "end", !.did = Started(s)] \in Frame
    BY <1>0, <2>1 DEF Frame, ArunPC
  <2>3. [run[s] EXCEPT !.pc = "end", !.did = Started(s)].cfg \in DOMAIN Cfg
    BY <1>0 DEF Frame
  <2>. QED
    BY <1>6, <2>2, <2>3, RunTypes DEF Start
<1>7. ASSUME NEW s \in Consoles, End(s)
      PROVE  TypeInv'
  BY <1>7, IdleIsFrame, RunTypes DEF End
<1>8. CASE UNCHANGED vars
  BY <1>8 DEF vars, TypeInv, TypeOK, OneFile, ConfigsNamed
<1>. QED
  BY <1>1, <1>2, <1>3, <1>5, <1>6, <1>7, <1>8, BuiltTypes DEF Next

\* The runs, the programs in the out folders and the device keep their types: no more
\* than one program is ever in /tmp/test.
THEOREM ArunTypes == Spec => []TypeOK
<1>1. Spec => []TypeInv
  BY InitTypes, NextTypes, PTL DEF Spec
<1>2. TypeInv => TypeOK
  BY DEF TypeInv
<1>. QED
  BY <1>1, <1>2, PTL
-----------------------------------------------------------------------------
(***************************************************************************)
(* A run that nothing interferes with knows at every step what is on the   *)
(* device: it has put it there itself, since a console that writes to the  *)
(* device disturbs all others that are past looking for their program.     *)
(***************************************************************************)
Using(s) == run[s].pc \notin {"idle", "load", "find"}

Asked(s) ==
    \/ run[s].did = IF Exe(s) # {} THEN Exe(s) ELSE Plain(s)
    \/ Exe(s) # {} /\ run[s].gdb /\ Var(s, "LIBAROMA_GDB") \notin Debuggers

\* What it knows, command by command.
OnWay(s) ==
    /\ run[s].pc # "end" => (run[s].win <=> Exe(s) # {})
    /\ run[s].pc \in {"pushGdb", "chmodGdb", "push", "chmod"} => ~run[s].win /\ Plain(s) # {}
    /\ run[s].pc \in {"push", "chmod", "start"} /\ ~run[s].win /\ run[s].gdb => dev.gdbX
    /\ run[s].pc \in {"chmod", "start"} /\ ~run[s].win => dev.test = Plain(s)
    /\ run[s].pc = "start" /\ ~run[s].win => dev.x
    /\ run[s].pc = "end" => Asked(s)

Calm(s) == Using(s) /\ run[s].calm => OnWay(s)
CalmInv == \A s \in Consoles : Calm(s)

LEMMA Undisturbed ==
    ASSUME NEW t, Calm(t), run'[t] = run[t], UNCHANGED <<bin, dev>>
    PROVE  Calm(t)'
<1>1. Exe(t)' = Exe(t) /\ Plain(t)' = Plain(t)
  BY DEF Exe, Plain, Named
<1>. QED
  BY <1>1 DEF Calm, Using, OnWay, Asked, Var

LEMMA OneGoesOn ==
    ASSUME TypeInv, CalmInv, NEW s \in Consoles, NEW f, run' = [run EXCEPT ![s] = f],
           UNCHANGED <<bin, dev>>, Calm(s)'
    PROVE  CalmInv'
<1> SUFFICES ASSUME NEW t \in Consoles
             PROVE  Calm(t)'
  BY DEF CalmInv
<1>1. CASE t = s
  BY <1>1
<1>2. CASE t # s
  BY <1>2, Undisturbed DEF CalmInv, TypeInv, TypeOK
<1>. QED
  BY <1>1, <1>2

\* A command that works disturbs the others, one that fails its own run.
LEMMA AdbCalm ==
    ASSUME TypeInv, CalmInv, NEW s \in Consoles, NEW at, NEW next, NEW new,
           next \in {"chmodGdb", "push", "chmod", "start"},
           Adb(s, at, next, new),
           dev' = new /\ run'[s] = [run[s] EXCEPT !.pc = next] => Calm(s)'
    PROVE  CalmInv'
<1>1. bin' = bin
  BY DEF Adb
<1>2. CASE dev' = new /\ run' = [t \in Consoles |->
                       IF t = s THEN [run[t] EXCEPT !.pc = next]
                       ELSE [run[t] EXCEPT !.calm = @ /\ run[t].pc \in {"idle", "load", "find"}]]
  <2> SUFFICES ASSUME NEW t \in Consoles, t # s
               PROVE  Calm(t)'
    BY <1>2 DEF CalmInv
  <2>1. run[t] \in Frame
    BY DEF TypeInv, TypeOK
  <2>2. run'[t].pc = run[t].pc /\ (run'[t].calm => ~Using(t))
    BY <1>2, <2>1 DEF Frame, Using
  <2>. QED
    BY <2>2 DEF Calm, Using
<1>3. CASE dev' = dev /\ run' = [run EXCEPT ![s] = [@ EXCEPT !.pc = next, !.calm = FALSE]]
  <2>1. run[s] \in Frame
    BY DEF TypeInv, TypeOK
  <2>2. ~run'[s].calm
    BY <1>3, <2>1 DEF Frame, TypeInv, TypeOK
  <2>3. Calm(s)'
    BY <2>2 DEF Calm
  <2>. QED
    BY <1>1, <1>3, <2>3, OneGoesOn
<1>. QED
  BY <1>2, <1>3, Zenon DEF Adb

LEMMA BuiltCalm ==
    ASSUME TypeInv, CalmInv, NEW o, NEW a, NEW x, Built(o, a, x)
    PROVE  CalmInv'
<1> SUFFICES ASSUME NEW t \in Consoles
             PROVE  Calm(t)'
  BY DEF CalmInv
<1>1. run[t] \in Frame
  BY DEF TypeInv, TypeOK
<1>2. run'[t] = [run[t] EXCEPT !.calm = @ /\ run[t].pc \in {"idle", "load", "find"}]
  BY DEF Built
<1>3. run'[t].pc = run[t].pc /\ (run'[t].calm => ~Using(t))
  BY <1>1, <1>2 DEF Frame, Using
<1>. QED
  BY <1>3 DEF Calm, Using

\* The programs of a console are where they were.
LEMMA SameFiles ==
    ASSUME NEW s, bin' = bin, run'[s].env = run[s].env, run'[s].app = run[s].app
    PROVE  Named(s)' = Named(s) /\ Exe(s)' = Exe(s) /\ Plain(s)' = Plain(s)
  BY DEF Exe, Plain, Named

LEMMA FindCalm ==
    ASSUME TypeInv, CalmInv, NEW s \in Consoles, Find(s)
    PROVE  CalmInv'
<1> DEFINE f == IF Named(s) = {} THEN Idle
                ELSE [run[s] EXCEPT !.win = Exe(s) # {}, !.gdb = UseGdb(s),
                                    !.pc = IF Exe(s) # {} THEN "start"
                                           ELSE IF UseGdb(s) THEN "pushGdb" ELSE "push"]
<1>1. run' = [run EXCEPT ![s] = f] /\ UNCHANGED <<bin, dev>>
  BY DEF Find
<1>2. run[s] \in Frame /\ run'[s] = f
  BY <1>1 DEF TypeInv, TypeOK
<1>3. CASE Named(s) = {}
  <2>0. Idle.pc = "idle"
    BY DEF Idle
  <2>1. run'[s].pc = "idle"
    BY <1>2, <1>3, <2>0
  <2>2. Calm(s)'
    BY <2>1 DEF Calm, Using
  <2>. QED
    BY <1>1, <2>2, OneGoesOn
<1>4. CASE Named(s) # {}
  <2>1. /\ run'[s].env = run[s].env /\ run'[s].app = run[s].app
        /\ run'[s].win = (Exe(s) # {}) /\ run'[s].gdb = UseGdb(s)
        /\ run'[s].pc = IF Exe(s) # {} THEN "start"
                        ELSE IF UseGdb(s) THEN "pushGdb" ELSE "push"
    BY <1>2, <1>4 DEF Frame
  <2>2. Exe(s)' = Exe(s) /\ Plain(s)' = Plain(s)
    BY <1>1, <2>1, SameFiles
  <2>3. Exe(s) = {} => Plain(s) # {}
    BY <1>4 DEF Exe, Plain
  <2>4. OnWay(s)'
    BY <2>1, <2>2, <2>3 DEF OnWay
  <2>. QED
    BY <1>1, <2>4, OneGoesOn DEF Calm
<1>. QED
  BY <1>3, <1>4

LEMMA GoesTo ==
    ASSUME NEW s \in Consoles, run[s] \in Frame, NEW next, bin' = bin,
           run'[s] = [run[s] EXCEPT !.pc = next]
    PROVE  /\ run'[s].pc = next /\ run'[s].calm = run[s].calm
           /\ run'[s].win = run[s].win /\ run'[s].gdb = run[s].gdb
           /\ Exe(s)' = Exe(s) /\ Plain(s)' = Plain(s)
<1>1. /\ run'[s].pc = next /\ run'[s].calm = run[s].calm
      /\ run'[s].win = run[s].win /\ run'[s].gdb = run[s].gdb
      /\ run'[s].env = run[s].env /\ run'[s].app = run[s].app
  BY DEF Frame
<1>. QED
  BY <1>1, SameFiles

LEMMA DeviceCalm ==
    ASSUME TypeInv, CalmInv, NEW s \in Consoles,
           PushGdb(s) \/ ChmodGdb(s) \/ Push(s) \/ Chmod(s)
    PROVE  CalmInv'
<1>0. run[s] \in Frame /\ Calm(s) /\ dev \in Device
  BY DEF TypeInv, TypeOK, CalmInv
<1>2. CASE PushGdb(s)
  <2>1. Adb(s, "pushGdb", "chmodGdb", [dev EXCEPT !.gdbX = FALSE])
    BY <1>2 DEF PushGdb
  <2>2. run[s].pc = "pushGdb" /\ bin' = bin
    BY <2>1 DEF Adb
  <2>3. ASSUME run'[s] = [run[s] EXCEPT !.pc = "chmodGdb"]
        PROVE  Calm(s)'
    <3>1. /\ run'[s].pc = "chmodGdb" /\ run'[s].calm = run[s].calm
          /\ run'[s].win = run[s].win
          /\ Exe(s)' = Exe(s) /\ Plain(s)' = Plain(s)
      BY <1>0, <2>2, <2>3, GoesTo
    <3>. QED
      BY <1>0, <2>2, <3>1 DEF Calm, Using, OnWay
  <2>. QED
    BY <2>1, <2>3, AdbCalm
<1>3. CASE ChmodGdb(s)
  <2>1. Adb(s, "chmodGdb", "push", [dev EXCEPT !.gdbX = TRUE])
    BY <1>3 DEF ChmodGdb
  <2>2. run[s].pc = "chmodGdb" /\ bin' = bin
    BY <2>1 DEF Adb
  <2>3. ASSUME run'[s] = [run[s] EXCEPT !.pc = "push"], dev' = [dev EXCEPT !.gdbX = TRUE]
        PROVE  Calm(s)'
    <3>1. dev'.gdbX
      BY <1>0, <2>3 DEF Device
    <3>2. /\ run'[s].pc = "push" /\ run'[s].calm = run[s].calm
          /\ run'[s].win = run[s].win /\ run'[s].gdb = run[s].gdb
          /\ Exe(s)' = Exe(s) /\ Plain(s)' = Plain(s)
      BY <1>0, <2>2, <2>3, GoesTo
    <3>. QED
      BY <1>0, <2>2, <3>1, <3>2 DEF Calm, Using, OnWay
  <2>. QED
    BY <2>1, <2>3, AdbCalm
<1>4. CASE Push(s)
  <2> DEFINE new == IF Plain(s) = {} THEN dev ELSE [dev EXCEPT !.test = Plain(s), !.x = FALSE]
  <2>1. Adb(s, "push", "chmod", new)
    BY <1>4 DEF Push
  <2>2. run[s].pc = "push" /\ bin' = bin
    BY <2>1 DEF Adb
  <2>3. ASSUME run'[s] = [run[s] EXCEPT !.pc = "chmod"], dev' = new
        PROVE  Calm(s)'
    <3>1. Plain(s) # {} => dev'.test = Plain(s) /\ dev'.gdbX = dev.gdbX
      BY <1>0, <2>3 DEF Device
    <3>2. /\ run'[s].pc = "chmod" /\ run'[s].calm = run[s].calm
          /\ run'[s].win = run[s].win /\ run'[s].gdb = run[s].gdb
          /\ Exe(s)' = Exe(s) /\ Plain(s)' = Plain(s)
      BY <1>0, <2>2, <2>3, GoesTo
    <3>. QED
      BY <1>0, <2>2, <3>1, <3>2 DEF Calm, Using, OnWay
  <2>. QED
    BY <2>1, <2>3, AdbCalm
<1>5. CASE Chmod(s)
  <2> DEFINE new == [dev EXCEPT !.x = dev.test # {}]
  <2>1. Adb(s, "chmod", "start", new)
    BY <1>5 DEF Chmod
  <2>2. run[s].pc = "chmod" /\ bin' = bin
    BY <2>1 DEF Adb
  <2>3. ASSUME run'[s] = [run[s] EXCEPT !.pc = "start"], dev' = new
        PROVE  Calm(s)'
    <3>1. dev'.test = dev.test /\ dev'.gdbX = dev.gdbX /\ (dev.test # {} => dev'.x)
      BY <1>0, <2>3 DEF Device
    <3>2. /\ run'[s].pc = "start" /\ run'[s].calm = run[s].calm
          /\ run'[s].win = run[s].win /\ run'[s].gdb = run[s].gdb
          /\ Exe(s)' = Exe(s) /\ Plain(s)' = Plain(s)
      BY <1>0, <2>2, <2>3, GoesTo
    <3>. QED
      BY <1>0, <2>2, <3>1, <3>2 DEF Calm, Using, OnWay
  <2>. QED
    BY <2>1, <2>3, AdbCalm
<1>. QED
  BY <1>2, <1>3, <1>4, <1>5

LEMMA StartCalm ==
    ASSUME TypeInv, CalmInv, NEW s \in Consoles, Start(s)
    PROVE  CalmInv'
<1>0. run[s] \in Frame /\ Calm(s) /\ run[s].pc = "start"
  BY DEF Start, TypeInv, TypeOK, CalmInv
<1>1. /\ run' = [run EXCEPT ![s] = [run[s] EXCEPT !.pc = "end", !.did = Started(s)]]
      /\ UNCHANGED <<bin, dev>>
  BY DEF Start
<1>2. run'[s] = [run[s] EXCEPT !.pc = "end", !.did = Started(s)]
  BY <1>1 DEF TypeInv, TypeOK
<1>3. /\ run'[s].pc = "end" /\ run'[s].did = Started(s)
      /\ run'[s].calm = run[s].calm /\ run'[s].gdb = run[s].gdb
      /\ run'[s].env = run[s].env /\ run'[s].app = run[s].app
  BY <1>0, <1>2 DEF Frame
<1>4. Exe(s)' = Exe(s) /\ Plain(s)' = Plain(s)
  BY <1>1, <1>3, SameFiles
<1>5. ASSUME OnWay(s)
      PROVE  Asked(s)'
  <2>1. CASE run[s].win
    <3>1. Exe(s) # {}
      BY <1>0, <1>5, <2>1 DEF OnWay
    <3>2. Started(s) = {p \in Exe(s) : run[s].gdb => Var(s, "LIBAROMA_GDB") \in Debuggers}
      BY <2>1 DEF Started
    <3>. QED
      BY <1>3, <1>4, <3>1, <3>2 DEF Asked, Var
  <2>2. CASE ~run[s].win
    <3>1. Exe(s) = {} /\ dev.test = Plain(s) /\ dev.x /\ (run[s].gdb => dev.gdbX)
      BY <1>0, <1>5, <2>2 DEF OnWay
    <3>2. Started(s) = Plain(s)
      BY <2>2, <3>1 DEF Started
    <3>. QED
      BY <1>3, <1>4, <3>1, <3>2 DEF Asked
  <2>. QED
    BY <2>1, <2>2
<1>6. Calm(s)'
  BY <1>0, <1>3, <1>5 DEF Calm, Using, OnWay
<1>. QED
  BY <1>1, <1>6, OneGoesOn

\* A run that does not use the device yet, or no more, knows nothing.
LEMMA NotUsing ==
    ASSUME TypeInv, CalmInv, NEW s \in Consoles, NEW f,
           f.pc = "idle" \/ f.pc = "load" \/ f.pc = "find",
           run' = [run EXCEPT ![s] = f], UNCHANGED <<bin, dev>>
    PROVE  CalmInv'
<1>1. run'[s] = f
  BY DEF TypeInv, TypeOK
<1>2. Calm(s)'
  BY <1>1 DEF Calm, Using
<1>. QED
  BY <1>2, OneGoesOn

LEMMA NextCalm == ASSUME TypeInv, CalmInv, [Next]_vars PROVE CalmInv'
<1>2. ASSUME NEW s \in Consoles, NEW c, NEW a, Arun(s, c, a)
      PROVE  CalmInv'
  <2> DEFINE f == [Idle EXCEPT !.pc = "load", !.cfg = c, !.app = a]
  <2>1. f.pc = "idle" \/ f.pc = "load" \/ f.pc = "find"
    BY IdleIsFrame DEF Frame
  <2>2. run' = [run EXCEPT ![s] = f] /\ UNCHANGED <<bin, dev>>
    BY <1>2 DEF Arun
  <2> HIDE DEF f
  <2>. QED
    BY <2>1, <2>2, NotUsing
<1>3. ASSUME NEW s \in Consoles, Load(s)
      PROVE  CalmInv'
  <2> DEFINE e == LoadSettings(EmptyEnv, Cfg[run[s].cfg], run[s].cfg)
             f == IF MustHave(e.var) THEN [run[s] EXCEPT !.pc = "find", !.env = e] ELSE Idle
  <2>1. run' = [run EXCEPT ![s] = f] /\ UNCHANGED <<bin, dev>>
    BY <1>3 DEF Load
  <2> HIDE DEF e
  <2>2. Idle.pc = "idle" /\ run[s] \in Frame
    BY DEF Idle, TypeInv, TypeOK
  <2>3. f.pc = "idle" \/ f.pc = "load" \/ f.pc = "find"
    BY <2>2 DEF Frame
  <2> HIDE DEF f
  <2>. QED
    BY <2>1, <2>3, NotUsing
<1>4. ASSUME NEW s \in Consoles, End(s)
      PROVE  CalmInv'
  <2>1. Idle.pc = "idle"
    BY DEF Idle
  <2>2. run' = [run EXCEPT ![s] = Idle] /\ UNCHANGED <<bin, dev>>
    BY <1>4 DEF End
  <2>. QED
    BY <2>1, <2>2, NotUsing
<1>5. CASE UNCHANGED vars
  <2>1. UNCHANGED <<run, bin, dev>>
    BY <1>5 DEF vars
  <2>. QED
    BY <2>1, Undisturbed DEF CalmInv
<1>. QED
  BY <1>2, <1>3, <1>4, <1>5, FindCalm, DeviceCalm, StartCalm, BuiltCalm DEF Next

\* Whatever earlier runs and other consoles have left in /tmp/test and /tmp/gdb, a run
\* of arun.cmd that nothing interferes with starts the program it was asked for.
THEOREM ArunStarts == Spec => []CalmRunStarts
<1>1. Init => CalmInv
  <2>1. Idle.pc = "idle"
    BY DEF Idle
  <2>. QED
    BY <2>1 DEF Init, CalmInv, Calm, Using
<1>2. TypeInv /\ CalmInv /\ [Next]_vars => CalmInv'
  BY NextCalm
<1>3. CalmInv => CalmRunStarts
  BY DEF CalmInv, Calm, Using, OnWay, Asked, CalmRunStarts
<1>4. Spec => []TypeInv
  BY InitTypes, NextTypes, PTL DEF Spec
<1>. QED
  BY <1>1, <1>2, <1>3, <1>4, PTL DEF Spec
-----------------------------------------------------------------------------
(***************************************************************************)
(* The queries of libdrm.                                                  *)
(***************************************************************************)
\* The blocks that a query has in use are those its struct points to.  A pointer to a
\* block that was freed is only there after a retry that goes on with the old struct.
Dangles == \E k \in K : ptr[k] = "freed"
HeapInv ==
    /\ pc \in {"idle", "count", "alloc"} => past.live = 0 /\ Heap = {}
    /\ pc \in {"fill", "check", "free"} => past.live = Cardinality(Heap)
    /\ pc = "count" => ~Dangles
    /\ pc = "alloc" /\ Dangles => ~ask.fresh /\ past.again
    /\ pc \in {"fill", "check", "free"} /\ Dangles => ~ask.fresh /\ past.excuse
    /\ FreedOnce

\* What the kernel has filled in is what it had, unless a list has grown.
ListsInv ==
    /\ pc \in {"count", "alloc", "fill", "check"} => result = Null
    /\ pc = "fill" => \A k \in K : ptr[k] = "stack" => count[k] = 0
    /\ pc = "check" /\ ~Grew => got = past.seen
    /\ ResultIsSnapshot

Passed == [seen : [K -> SUBSET Ids], again : BOOLEAN, live : Nat, twice : BOOLEAN, excuse : BOOLEAN]
QueryTypes ==
    /\ ask \in Kinds
    /\ kern \in [K -> SUBSET Ids] /\ plugs \in 0 .. MaxPlugs[ask]
    /\ pc \in {"idle", "count", "alloc", "fill", "check", "free"}
    /\ count \in [K -> 0 .. Cardinality(Ids)]
    /\ ptr \in [K -> {"null", "heap", "stack", "freed"}]
    /\ past \in Passed

QueryInv == QueryTypes /\ HeapInv /\ ListsInv

LEMMA KIs == ASSUME ask \in Kinds PROVE K = 1 .. Len(ask.lists) /\ Len(ask.lists) \in Nat
<1>1. ask.lists \in Seq(STRING)
  BY QueryAssumption DEF QueryKind
<1>. QED
  BY <1>1 DEF K

\* Some of the lists.
LEMMA SomeLists ==
    ASSUME ask \in Kinds, NEW S \in SUBSET K
    PROVE  IsFiniteSet(S) /\ Cardinality(S) \in 0 .. Len(ask.lists)
<1>1. K = 1 .. Len(ask.lists) /\ Len(ask.lists) \in Nat
  BY KIs
<1>2. IsFiniteSet(K) /\ Cardinality(K) = Len(ask.lists)
  <2>1. Cardinality(1 .. Len(ask.lists)) = IF 1 > Len(ask.lists) THEN 0 ELSE Len(ask.lists) - 1 + 1
    BY <1>1, FS_Interval
  <2>2. IsFiniteSet(1 .. Len(ask.lists))
    BY <1>1, FS_Interval
  <2>. QED
    BY <1>1, <2>1, <2>2
<1>3. IsFiniteSet(S) /\ Cardinality(S) <= Cardinality(K)
  BY <1>2, FS_Subset
<1>4. Cardinality(S) \in Nat
  BY <1>3, FS_CardinalityType
<1>. QED
  BY <1>1, <1>2, <1>3, <1>4

LEMMA SizeIs ==
    ASSUME NEW l \in [K -> SUBSET Ids]
    PROVE  /\ Size(l) \in [K -> 0 .. Cardinality(Ids)]
           /\ \A k \in K : Size(l)[k] = Cardinality(l[k])
<1>1. ASSUME NEW k \in K PROVE Cardinality(l[k]) \in 0 .. Cardinality(Ids)
  <2>1. IsFiniteSet(l[k]) /\ Cardinality(l[k]) <= Cardinality(Ids)
    BY QueryAssumption, FS_Subset
  <2>2. Cardinality(l[k]) \in Nat /\ Cardinality(Ids) \in Nat
    BY <2>1, QueryAssumption, FS_CardinalityType
  <2>. QED
    BY <2>1, <2>2
<1>. QED
  BY <1>1 DEF Size

LEMMA NothingIs ==
    ASSUME ask \in Kinds
    PROVE  Nothing \in [K -> SUBSET Ids] /\ Size(Nothing) \in [K -> 0 .. Cardinality(Ids)] /\ NoPast \in Passed
<1>1. Nothing \in [K -> SUBSET Ids]
  BY DEF Nothing
<1>. QED
  BY <1>1, SizeIs DEF NoPast, Passed

LEMMA HeapSmall == ASSUME QueryTypes, HeapInv PROVE past.live \in 0 .. Len(ask.lists)
<1>1. Cardinality(Heap) \in 0 .. Len(ask.lists)
  BY SomeLists DEF QueryTypes, Heap
<1>2. Len(ask.lists) \in Nat
  BY KIs DEF QueryTypes
<1>. QED
  BY <1>1, <1>2 DEF QueryTypes, HeapInv

LEMMA QueryTypesOK == ASSUME QueryInv PROVE QueryTypeOK
  BY HeapSmall DEF QueryInv, QueryTypes, QueryTypeOK

LEMMA HotplugStep == ASSUME QueryInv, Hotplug PROVE QueryInv'
<1>1. MaxPlugs[ask] \in Nat
  BY QueryAssumption DEF QueryInv, QueryTypes
<1>2. plugs' \in 0 .. MaxPlugs[ask]'
  BY <1>1 DEF Hotplug, QueryInv, QueryTypes
<1>3. QueryTypes'
  BY <1>2 DEF Hotplug, QueryInv, QueryTypes, K, Passed
<1>. QED
  BY <1>3 DEF Hotplug, QueryInv, HeapInv, ListsInv, K, Heap, Dangles, Grew, Now, Size, FreedOnce,
              ResultIsSnapshot

LEMMA QueryStep == ASSUME QueryInv, Query PROVE QueryInv'
<1>1. ask \in Kinds /\ ask' = ask /\ K' = K
  BY DEF Query, QueryInv, QueryTypes, K
<1>2. QueryTypes'
  BY <1>1, NothingIs DEF Query, QueryInv, QueryTypes, Passed
<1>3. Heap' = {} /\ ~Dangles'
  BY <1>1 DEF Query, Heap, Dangles
<1>. QED
  BY <1>1, <1>2, <1>3 DEF Query, QueryInv, HeapInv, ListsInv, FreedOnce, ResultIsSnapshot, NoPast

LEMMA CountStep == ASSUME QueryInv, Count PROVE QueryInv'
<1>1. K' = K /\ UNCHANGED <<ask, kern, plugs, ptr, got, result, past>> /\ pc = "count"
      /\ (pc' = "alloc" \/ pc' = "idle")
  BY DEF Count, K
<1>2. count' \in [K -> 0 .. Cardinality(Ids)]
  BY SizeIs DEF Count, QueryInv, QueryTypes
<1>3. QueryTypes'
  BY <1>1, <1>2 DEF QueryInv, QueryTypes, Passed
<1>4. Heap' = Heap /\ Dangles' = Dangles
  BY <1>1 DEF Heap, Dangles
<1>. QED
  BY <1>1, <1>3, <1>4 DEF QueryInv, HeapInv, ListsInv, FreedOnce, ResultIsSnapshot

LEMMA AllocStep == ASSUME QueryInv, Alloc PROVE QueryInv'
<1>1. K' = K /\ UNCHANGED <<ask, kern, plugs, count, got, result>> /\ pc = "alloc" /\ ask \in Kinds
  BY DEF Alloc, K, QueryInv, QueryTypes
<1>2. K = 1 .. Len(ask.lists) /\ Len(ask.lists) \in Nat
  BY <1>1, KIs
<1>3. Heap = {} /\ past.live = 0 /\ (Dangles => ~ask.fresh /\ past.again) /\ FreedOnce
  BY <1>1 DEF QueryInv, HeapInv
<1>4. /\ ptr \in [K -> {"null", "heap", "stack", "freed"}] /\ count \in [K -> 0 .. Cardinality(Ids)]
      /\ past \in Passed /\ past.excuse \in BOOLEAN /\ past.again \in BOOLEAN
  BY DEF QueryInv, QueryTypes, Passed
<1>5. CASE /\ pc' = "fill"
           /\ ptr' = Allocated(Len(ask.lists) + 1)
           /\ past' = [past EXCEPT !.live = past.live + Cardinality({j \in K : count[j] > 0}),
                                   !.excuse = past.excuse \/ (past.again /\ \E j \in K : count[j] = 0)]
  <2>1. ASSUME NEW k \in K
        PROVE  ptr'[k] = IF count[k] > 0 THEN "heap"
                         ELSE IF ask.lists[k] \in ask.onStack THEN "stack" ELSE ptr[k]
    <3>1. ~(k >= Len(ask.lists) + 1)
      BY <1>2
    <3>. QED
      BY <1>5, <3>1 DEF Allocated
  <2>2. ptr' \in [K -> {"null", "heap", "stack", "freed"}]
    BY <1>4, <1>5, <2>1 DEF Allocated
  <2>3. Heap' = {j \in K : count[j] > 0}
    BY <1>1, <1>3, <1>4, <2>1 DEF Heap
  <2>4. Cardinality(Heap') \in Nat
    BY <1>1, <2>3, SomeLists
  <2>5. past' \in Passed /\ past'.live = Cardinality(Heap') /\ past'.twice = past.twice
        /\ past'.seen = past.seen
        /\ past'.excuse = (past.excuse \/ (past.again /\ \E j \in K : count[j] = 0))
    <3> DEFINE e == past.excuse \/ (past.again /\ \E j \in K : count[j] = 0)
    <3>1. 0 + Cardinality(Heap') = Cardinality(Heap') /\ e \in BOOLEAN
      BY <1>4, <2>4
    <3>2. past' = [past EXCEPT !.live = Cardinality(Heap'), !.excuse = e]
      BY <1>3, <1>5, <2>3, <3>1
    <3> HIDE DEF e
    <3>3. past' \in Passed /\ past'.live = Cardinality(Heap') /\ past'.twice = past.twice
          /\ past'.seen = past.seen /\ past'.excuse = e
      BY <1>4, <2>4, <3>1, <3>2 DEF Passed
    <3>. QED
      BY <3>3 DEF e
  <2>6. Dangles' => ~ask.fresh /\ past'.excuse
    <3>1. SUFFICES ASSUME NEW k \in K, ptr'[k] = "freed" PROVE ~ask.fresh /\ past'.excuse
      BY <1>1 DEF Dangles
    <3>2. count[k] = 0 /\ ptr[k] = "freed"
      BY <1>4, <2>1, <3>1
    <3>. QED
      BY <1>3, <2>5, <3>2 DEF Dangles
  <2>7. \A k \in K : ptr'[k] = "stack" => count[k] = 0
    BY <1>4, <2>1
  <2>8. QueryTypes'
    BY <1>1, <1>5, <2>2, <2>5 DEF QueryInv, QueryTypes, Passed
  <2>9. HeapInv'
    BY <1>1, <1>3, <1>5, <2>5, <2>6 DEF HeapInv, FreedOnce
  <2>10. ListsInv'
    BY <1>1, <1>5, <2>5, <2>7 DEF QueryInv, ListsInv, ResultIsSnapshot
  <2>. QED
    BY <2>8, <2>9, <2>10 DEF QueryInv
<1>6. ASSUME NEW k \in K, count[k] > 0, pc' = "free",
             ptr' = [Allocated(k) EXCEPT ![k] = "null"],
             past' = [past EXCEPT !.live = past.live + Cardinality({j \in 1 .. (k - 1) : count[j] > 0}),
                                  !.excuse = past.excuse \/ past.again]
      PROVE  QueryInv'
  <2>1. ASSUME NEW j \in K
        PROVE  ptr'[j] = IF j = k THEN "null" ELSE IF j > k THEN ptr[j]
                         ELSE IF count[j] > 0 THEN "heap"
                         ELSE IF ask.lists[j] \in ask.onStack THEN "stack" ELSE ptr[j]
    <3>1. j # k => (j >= k <=> j > k)
      BY <1>2
    <3>. QED
      BY <1>6, <3>1 DEF Allocated
  <2>2. ptr' \in [K -> {"null", "heap", "stack", "freed"}]
    BY <1>4, <1>6, <2>1 DEF Allocated
  <2>3. Heap' = {j \in 1 .. (k - 1) : count[j] > 0}
    <3>1. \A j \in K : j \in 1 .. (k - 1) <=> ~(j = k) /\ ~(j > k)
      BY <1>2
    <3>2. \A j \in 1 .. (k - 1) : j \in K
      BY <1>2
    <3>3. \A j \in K : ptr'[j] = "heap" <=> ~(j = k) /\ ~(j > k) /\ count[j] > 0
      BY <1>3, <1>4, <2>1 DEF Heap
    <3>. QED
      BY <1>1, <3>1, <3>2, <3>3 DEF Heap
  <2>4. Cardinality(Heap') \in Nat
    <3>1. Heap' \in SUBSET K
      BY <1>1 DEF Heap
    <3>. QED
      BY <1>1, <3>1, SomeLists
  <2>5. past' \in Passed /\ past'.live = Cardinality(Heap') /\ past'.twice = past.twice
        /\ past'.seen = past.seen /\ past'.excuse = (past.excuse \/ past.again)
    <3> DEFINE e == past.excuse \/ past.again
    <3>1. 0 + Cardinality(Heap') = Cardinality(Heap') /\ e \in BOOLEAN
      BY <1>4, <2>4
    <3>2. past' = [past EXCEPT !.live = Cardinality(Heap'), !.excuse = e]
      BY <1>3, <1>6, <2>3, <3>1
    <3> HIDE DEF e
    <3>3. past' \in Passed /\ past'.live = Cardinality(Heap') /\ past'.twice = past.twice
          /\ past'.seen = past.seen /\ past'.excuse = e
      BY <1>4, <2>4, <3>1, <3>2 DEF Passed
    <3>. QED
      BY <3>3 DEF e
  <2>6. Dangles' => ~ask.fresh /\ past'.excuse
    <3>1. SUFFICES ASSUME NEW j \in K, ptr'[j] = "freed" PROVE ~ask.fresh /\ past'.excuse
      BY <1>1 DEF Dangles
    <3>2. ptr[j] = "freed"
      BY <1>4, <2>1, <3>1
    <3>. QED
      BY <1>3, <2>5, <3>2 DEF Dangles
  <2>7. QueryTypes'
    BY <1>1, <1>6, <2>2, <2>5 DEF QueryInv, QueryTypes, Passed
  <2>8. HeapInv'
    BY <1>1, <1>3, <1>6, <2>5, <2>6 DEF HeapInv, FreedOnce
  <2>9. ListsInv'
    BY <1>1, <1>6, <2>5 DEF QueryInv, ListsInv, ResultIsSnapshot
  <2>. QED
    BY <2>7, <2>8, <2>9 DEF QueryInv
<1>. QED
  BY <1>5, <1>6 DEF Alloc

LEMMA FillStep == ASSUME QueryInv, Fill PROVE QueryInv'
<1>1. K' = K /\ UNCHANGED <<ask, kern, plugs, count, ptr, result>> /\ pc = "fill"
  BY DEF Fill, K
<1>2. Heap' = Heap /\ Dangles' = Dangles
  BY <1>1 DEF Heap, Dangles
<1>3. past \in Passed /\ kern \in [K -> SUBSET Ids] /\ count \in [K -> 0 .. Cardinality(Ids)]
      /\ Cardinality(Ids) \in Nat
  BY QueryAssumption, FS_CardinalityType DEF QueryInv, QueryTypes
<1>4. CASE /\ pc' = "check" /\ past' = [past EXCEPT !.seen = kern]
           /\ got' = [k \in K |-> IF Cardinality(kern[k]) <= Room(k) THEN kern[k] ELSE Junk]
  <2>1. past' \in Passed /\ past'.seen = kern /\ past'.live = past.live /\ past'.again = past.again
        /\ past'.twice = past.twice /\ past'.excuse = past.excuse
    BY <1>3, <1>4 DEF Passed
  <2>2. ASSUME ~Grew' PROVE got' = past'.seen
    <3>1. ASSUME NEW k \in K PROVE Cardinality(kern[k]) <= Room(k)
      <4>1. ~(count[k] < Now'[k])
        BY <1>1, <2>2 DEF Grew
      <4>2. Now'[k] = Cardinality(kern[k]) /\ Now'[k] \in 0 .. Cardinality(Ids)
        BY <1>1, <1>3, <2>1, SizeIs DEF Now, Size
      <4>3. ptr[k] = "stack" => count[k] = 0
        BY <1>1 DEF QueryInv, ListsInv
      <4>. QED
        BY <1>3, <4>1, <4>2, <4>3 DEF Room
    <3>. QED
      BY <1>3, <1>4, <2>1, <3>1
  <2>3. QueryTypes'
    BY <1>1, <1>4, <2>1 DEF QueryInv, QueryTypes, Passed
  <2>4. HeapInv'
    BY <1>1, <1>2, <1>4, <2>1 DEF QueryInv, HeapInv, FreedOnce
  <2>5. ListsInv'
    BY <1>1, <1>4, <2>1, <2>2 DEF QueryInv, ListsInv, ResultIsSnapshot
  <2>. QED
    BY <2>3, <2>4, <2>5 DEF QueryInv
<1>5. CASE pc' = "free" /\ UNCHANGED <<got, past>>
  <2>1. QueryTypes'
    BY <1>1, <1>5 DEF QueryInv, QueryTypes, Passed
  <2>2. HeapInv'
    BY <1>1, <1>2, <1>5 DEF QueryInv, HeapInv, FreedOnce
  <2>3. ListsInv'
    BY <1>1, <1>5 DEF QueryInv, ListsInv, ResultIsSnapshot
  <2>. QED
    BY <2>1, <2>2, <2>3 DEF QueryInv
<1>. QED
  BY <1>4, <1>5 DEF Fill

\* What drmFree of all the pointers leaves.
AllFreed(again) ==
    /\ past' \in Passed
    /\ past'.live = 0 /\ past'.again = again /\ past'.excuse = past.excuse
    /\ past'.seen = past.seen
    /\ past'.twice => ~ask.fresh /\ past.excuse

LEMMA AllIsFreed ==
    ASSUME QueryInv, pc \in {"check", "free"}, NEW again \in BOOLEAN, FreeAll(again)
    PROVE  AllFreed(again)
<1>1. past \in Passed /\ past.live = Cardinality(Heap) /\ past.live \in Nat
  BY DEF QueryInv, QueryTypes, HeapInv, Passed
<1>2. past.live - Cardinality(Heap) = 0
  BY <1>1
<1>3. past' = [past EXCEPT !.again = again, !.live = 0, !.twice = past.twice \/ Dangles]
  BY <1>2 DEF FreeAll, Dangles
<1>4. past' \in Passed /\ past'.live = 0 /\ past'.again = again /\ past'.excuse = past.excuse
      /\ past'.seen = past.seen /\ past'.twice = (past.twice \/ Dangles)
  BY <1>1, <1>3 DEF Passed
<1>. QED
  BY <1>4 DEF AllFreed, QueryInv, HeapInv, FreedOnce

LEMMA DanglingIs ==
    ASSUME QueryTypes
    PROVE  /\ Dangling \in [K -> {"null", "heap", "stack", "freed"}]
           /\ \A k \in K : Dangling[k] # "heap"
  BY DEF QueryTypes, Dangling

LEMMA RetryStep == ASSUME QueryInv, Retry PROVE QueryInv'
<1>1. K' = K /\ UNCHANGED <<ask, kern, plugs, got, result>> /\ pc = "check" /\ ask \in Kinds
  BY DEF Retry, K, QueryInv, QueryTypes
<1>2. pc' = (IF ask.fresh THEN "count" ELSE "alloc") /\ count' = Now
      /\ ptr' = (IF ask.fresh THEN [k \in K |-> "null"] ELSE Dangling)
  BY DEF Retry
<1>3. AllFreed(TRUE)
  BY <1>1, AllIsFreed DEF Retry
<1>4. ptr' \in [K -> {"null", "heap", "stack", "freed"}] /\ Heap' = {} /\ (ask.fresh => ~Dangles')
  BY <1>1, <1>2, DanglingIs DEF QueryInv, Heap, Dangles
<1>5. count' \in [K -> 0 .. Cardinality(Ids)]
  BY <1>2, SizeIs DEF Now, QueryInv, QueryTypes, Passed
<1>6. QueryTypes'
  BY <1>1, <1>2, <1>3, <1>4, <1>5 DEF QueryInv, QueryTypes, Passed, AllFreed
<1>7. HeapInv'
  BY <1>1, <1>2, <1>3, <1>4 DEF HeapInv, FreedOnce, AllFreed
<1>8. ListsInv'
  BY <1>1, <1>2 DEF QueryInv, ListsInv, ResultIsSnapshot
<1>. QED
  BY <1>6, <1>7, <1>8 DEF QueryInv

LEMMA BuildStep == ASSUME QueryInv, Build PROVE QueryInv'
<1>1. K' = K /\ UNCHANGED <<ask, kern, plugs, count, ptr, got, past>> /\ pc = "check" /\ pc' = "free"
  BY DEF Build, K
<1>2. Heap' = Heap /\ Dangles' = Dangles
  BY <1>1 DEF Heap, Dangles
<1>3. QueryTypes'
  BY <1>1 DEF QueryInv, QueryTypes, Passed
<1>4. HeapInv'
  BY <1>1, <1>2 DEF QueryInv, HeapInv, FreedOnce
<1>5. ListsInv'
  BY <1>1 DEF Build, QueryInv, ListsInv, ResultIsSnapshot
<1>. QED
  BY <1>3, <1>4, <1>5 DEF QueryInv

LEMMA FreeStep == ASSUME QueryInv, Free PROVE QueryInv'
<1>1. K' = K /\ UNCHANGED <<ask, kern, plugs, count, got, result>> /\ pc = "free" /\ pc' = "idle"
      /\ ptr' = Dangling
  BY DEF Free, K
<1>2. AllFreed(FALSE)
  BY <1>1, AllIsFreed DEF Free
<1>3. ptr' \in [K -> {"null", "heap", "stack", "freed"}] /\ Heap' = {}
  BY <1>1, DanglingIs DEF QueryInv, Heap
<1>4. QueryTypes'
  BY <1>1, <1>2, <1>3 DEF QueryInv, QueryTypes, Passed, AllFreed
<1>5. HeapInv'
  BY <1>1, <1>2, <1>3 DEF HeapInv, FreedOnce, AllFreed
<1>6. ListsInv'
  BY <1>1, <1>2 DEF QueryInv, ListsInv, ResultIsSnapshot, AllFreed
<1>. QED
  BY <1>4, <1>5, <1>6 DEF QueryInv

LEMMA QueryInitIs == ASSUME QueryInit PROVE QueryInv
<1>1. ask \in Kinds /\ MaxPlugs[ask] \in Nat
  BY QueryAssumption DEF QueryInit
<1>2. QueryTypes
  BY <1>1, NothingIs DEF QueryInit, QueryTypes
<1>3. Heap = {}
  BY DEF QueryInit, Heap
<1>. QED
  BY <1>2, <1>3 DEF QueryInit, QueryInv, HeapInv, ListsInv, FreedOnce, ResultIsSnapshot, NoPast

LEMMA QueryKeeps == ASSUME QueryInv, [QueryNext]_queryVars PROVE QueryInv'
<1>1. CASE UNCHANGED queryVars
  BY <1>1 DEF queryVars, QueryInv, QueryTypes, HeapInv, ListsInv, K, Heap, Dangles, Grew, Now,
              Size, FreedOnce, ResultIsSnapshot, Passed
<1>. QED
  BY <1>1, QueryStep, HotplugStep, CountStep, AllocStep, FillStep, RetryStep, BuildStep, FreeStep,
     Zenon DEF QueryNext, Step

LEMMA QueryInvHolds == QuerySpec => []QueryInv
<1>1. QueryInit => QueryInv
  BY QueryInitIs
<1>2. QueryInv /\ [QueryNext]_queryVars => QueryInv'
  BY QueryKeeps
<1>. QED
  BY <1>1, <1>2, PTL DEF QuerySpec

\* Whatever lists a query has and whatever the kernel does meanwhile, its counts, its
\* pointers and the blocks it has in use stay within its lists.
THEOREM QueryTypeCorrect == QuerySpec => []QueryTypeOK
  BY QueryTypesOK, QueryInvHolds, PTL

\* drmModeGetResources, drmModeGetConnector and their like return NULL or lists that the
\* kernel had all at once, for any number of lists and however often they change between
\* the ioctls.
THEOREM ResultsAreSnapshots == QuerySpec => []ResultIsSnapshot
<1>1. QueryInv => ResultIsSnapshot
  BY DEF QueryInv, ListsInv
<1>. QED
  BY <1>1, QueryInvHolds, PTL

\* A query frees whatever it allocated on each of its ways out, and nothing twice; but a
\* connector's retries may free a block again whose list has become empty, or for which
\* there was no memory.
THEOREM QueriesClean == QuerySpec => []HeapIsClean
<1>1. QueryInv => HeapIsClean
  BY DEF QueryInv, HeapInv, HeapIsClean, NothingLeaks
<1>. QED
  BY <1>1, QueryInvHolds, PTL
-----------------------------------------------------------------------------
(***************************************************************************)
(* Sequences of anything, and the least of some numbers.                   *)
(***************************************************************************)
\* Some sequence, whatever is in it.
IsSq(s) == \E S : s \in Seq(S)

LEMMA Tabled ==
    ASSUME NEW n \in Nat, NEW s, s = [j \in 1 .. n |-> s[j]] PROVE IsSq(s) /\ Len(s) = n
<1> DEFINE S == {s[j] : j \in 1 .. n}
<1>1. s \in [1 .. n -> S]
  OBVIOUS
<1> HIDE DEF S
<1>2. s \in Seq(S) /\ Len(s) = n
  BY <1>1
<1>. QED
  BY <1>2 DEF IsSq

LEMMA Joined ==
    ASSUME NEW s, IsSq(s), NEW t, IsSq(t)
    PROVE  /\ IsSq(s \o t) /\ Len(s) \in Nat /\ Len(t) \in Nat /\ Len(s \o t) = Len(s) + Len(t)
           /\ \A i \in 1 .. Len(s) + Len(t) : (s \o t)[i] = IF i <= Len(s) THEN s[i] ELSE t[i - Len(s)]
<1>1. PICK S, T : s \in Seq(S) /\ t \in Seq(T)
  BY DEF IsSq
<1> DEFINE U == S \union T
<1>2. s \in Seq(U) /\ t \in Seq(U)
  BY <1>1
<1> HIDE DEF U
<1>3. s \o t \in Seq(U) /\ Len(s \o t) = Len(s) + Len(t)
      /\ \A i \in 1 .. Len(s) + Len(t) : (s \o t)[i] = IF i <= Len(s) THEN s[i] ELSE t[i - Len(s)]
  BY <1>2, ConcatProperties
<1>. QED
  BY <1>2, <1>3, LenProperties DEF IsSq

\* The least of some numbers.
LEMMA LeastOfTwo ==
    ASSUME NEW a \in Int, NEW b \in Int
    PROVE  Unpack!Min({a, b}) \in {a, b} /\ Unpack!Min({a, b}) <= a /\ Unpack!Min({a, b}) <= b
<1>1. \E x \in {a, b} : \A y \in {a, b} : x <= y
  OBVIOUS
<1>. QED
  BY <1>1 DEF Unpack!Min

LEMMA LeastOfThree ==
    ASSUME NEW a \in Int, NEW b \in Int, NEW c \in Int
    PROVE  /\ Rows!Min({a, b, c}) \in {a, b, c} /\ Rows!Min({a, b, c}) <= a
           /\ Rows!Min({a, b, c}) <= b /\ Rows!Min({a, b, c}) <= c
<1>1. \E x \in {a, b, c} : \A y \in {a, b, c} : x <= y
  OBVIOUS
<1>. QED
  BY <1>1 DEF Rows!Min
-----------------------------------------------------------------------------
(***************************************************************************)
(* The test program.                                                       *)
(***************************************************************************)
\* The window is live from its opening to its end, and without a control before that.
AppInv ==
    /\ App!TypeOK /\ App!WindowFreed
    /\ stmt \in {"start", "window", "ctl"} => ~ctl
    /\ stmt = "end" => win # "live" \/ ~ctl

LEMMA AppInitIs == ASSUME App!Init PROVE AppInv
<1>1. <<>> \in Seq(App!Msg) /\ 0 \in 0 .. MaxPosts
  BY ProgramsAssumption
<1>. QED
  BY <1>1 DEF App!Init, AppInv, App!TypeOK, App!WindowFreed

LEMMA AppMainKeeps == ASSUME AppInv, App!Main PROVE AppInv'
<1>1. CASE App!Start
  BY <1>1 DEF App!Start, AppInv, App!TypeOK, App!WindowFreed
<1>2. CASE App!OpenWindow
  BY <1>2 DEF App!OpenWindow, AppInv, App!TypeOK, App!WindowFreed
<1>3. CASE App!AddProgress
  <2>1. stmt = "ctl" /\ UNCHANGED <<aroma, win, onpool, msg, queue, posts>>
    BY <1>3 DEF App!AddProgress
  <2>2. CASE stmt' = "show" /\ ctl' = TRUE
    BY <2>1, <2>2 DEF AppInv, App!TypeOK, App!WindowFreed
  <2>3. CASE stmt' = "end" /\ ctl' = ctl
    BY <2>1, <2>3 DEF AppInv, App!TypeOK, App!WindowFreed
  <2>. QED
    BY <1>3, <2>2, <2>3 DEF App!AddProgress
<1>4. CASE App!Show
  BY <1>4 DEF App!Show, AppInv, App!TypeOK, App!WindowFreed
<1>5. CASE App!Pool
  <2>1. queue # <<>> => Head(queue) \in App!Msg /\ Tail(queue) \in Seq(App!Msg)
    BY DEF AppInv, App!TypeOK
  <2>. QED
    BY <1>5, <2>1 DEF App!Pool, AppInv, App!TypeOK, App!WindowFreed
<1>6. CASE App!Test
  BY <1>6 DEF App!Test, AppInv, App!TypeOK, App!WindowFreed
<1>7. CASE App!Free
  BY <1>7 DEF App!Free, AppInv, App!TypeOK, App!WindowFreed
<1>8. CASE App!End
  BY <1>8 DEF App!End, AppInv, App!TypeOK, App!WindowFreed
<1>. QED
  BY <1>1, <1>2, <1>3, <1>4, <1>5, <1>6, <1>7, <1>8 DEF App!Main

LEMMA AppKeeps == ASSUME AppInv, App!Next \/ UNCHANGED appVars PROVE AppInv'
<1>1. CASE App!Main
  BY <1>1, AppMainKeeps
<1>2. ASSUME NEW m \in App!Msg, App!Post(m) PROVE AppInv'
  <2>1. Append(queue, m) \in Seq(App!Msg) /\ posts + 1 \in 0 .. MaxPosts
    BY <1>2, ProgramsAssumption DEF App!Post, AppInv, App!TypeOK
  <2>. QED
    BY <1>2, <2>1 DEF App!Post, AppInv, App!TypeOK, App!WindowFreed
<1>3. CASE App!LeavePool
  BY <1>3 DEF App!LeavePool, AppInv, App!TypeOK, App!WindowFreed
<1>4. CASE UNCHANGED appVars
  BY <1>4 DEF appVars, AppInv, App!TypeOK, App!WindowFreed
<1>. QED
  BY <1>1, <1>2, <1>3, <1>4 DEF App!Next
-----------------------------------------------------------------------------
(***************************************************************************)
(* libjpeg's rows: the sizes of a picture.                                 *)
(***************************************************************************)
LEMMA MostOfFew ==
    ASSUME NEW S \in SUBSET (1 .. 4), S # {}
    PROVE  Rows!Max(S) \in S
<1>1. \E x \in S : \A y \in S : x >= y
  <2>1. CASE 4 \in S
    BY <2>1
  <2>2. CASE 4 \notin S /\ 3 \in S
    BY <2>2
  <2>3. CASE 4 \notin S /\ 3 \notin S /\ 2 \in S
    BY <2>3
  <2>4. CASE 4 \notin S /\ 3 \notin S /\ 2 \notin S
    <3>1. \A y \in S : y = 1
      BY <2>4
    <3>2. 1 \in S
      BY <3>1
    <3>. QED
      BY <3>1, <3>2
  <2>. QED
    BY <2>1, <2>2, <2>3, <2>4
<1>. QED
  BY <1>1 DEF Rows!Max

LEMMA Sizes ==
    ASSUME NEW p \in Images
    PROVE  /\ Rows!MaxV(p) \in 1 .. 4 /\ Rows!Lines(p) \in Nat /\ Rows!TotalRows(p) \in Nat
           /\ p.M \in {1, 2, 4, 8}
<1>1. p.height \in Nat /\ p.v \in Seq(1 .. 4) /\ p.v # <<>> /\ p.M \in {1, 2, 4, 8}
  BY ProgramsAssumption
<1> DEFINE v == p.v
           S == Rows!Range(v)
<1>2. S \subseteq 1 .. 4 /\ S # {}
  <2> HIDE DEF v
  <2>1. v \in Seq(1 .. 4) /\ v # <<>>
    BY <1>1 DEF v
  <2>2. 1 \in DOMAIN v /\ \A i \in DOMAIN v : v[i] \in 1 .. 4
    BY <2>1
  <2>. QED
    BY <2>2 DEF Rows!Range
<1>3. Rows!Max(S) \in S
  <2> HIDE DEF S
  <2>. QED
    BY <1>2, MostOfFew
<1>4. Rows!MaxV(p) = Rows!Max(S)
  BY DEF Rows!MaxV
<1>5. Rows!MaxV(p) \in 1 .. 4
  <2> HIDE DEF S
  <2>. QED
    BY <1>2, <1>3, <1>4
<1>6. Rows!Lines(p) \in Nat
  BY <1>1 DEF Rows!Lines, Rows!DivUp, Rows!DCTSIZE
<1>7. Rows!TotalRows(p) \in Nat
  <2> DEFINE m == Rows!MaxV(p)
             h == p.height
  <2> HIDE DEF m, h
  <2>1. m \in {1, 2, 3, 4} /\ h \in Nat
    BY <1>1, <1>5 DEF m, h
  <2>2. (h + m * 8 - 1) \div (m * 8) \in Nat
    <3>1. CASE m = 1
      BY <2>1, <3>1
    <3>2. CASE m = 2
      BY <2>1, <3>2
    <3>3. CASE m = 3
      BY <2>1, <3>3
    <3>4. CASE m = 4
      BY <2>1, <3>4
    <3>. QED
      BY <2>1, <3>1, <3>2, <3>3, <3>4
  <2>. QED
    BY <2>2 DEF m, h, Rows!TotalRows, Rows!DivUp, Rows!DCTSIZE
<1>. QED
  BY <1>1, <1>5, <1>6, <1>7

\* The rows of the first component that are in the last iMCU row are no more than its
\* workspace has groups.
LEMMA BottomFits ==
    ASSUME NEW p \in Images
    PROVE  (Rows!RowsLeft(p, 1) - 1) \div Rows!Group(p, 1) + 1 \in 0 .. p.M + 2
<1> DEFINE v == p.v[1]
           m == Rows!MaxV(p)
           M == p.M
           s == Rows!Scaled(p, 1)
           S == {x \in {M, 2 * M, 4 * M, 8 * M} : x = M \/ (x <= 8 /\ v * x <= m * M)}
           r == Rows!RowsLeft(p, 1)
           R == Rows!Rows(p, 1)
           h == p.height
<1>1. p.v \in Seq(1 .. 4) /\ p.v # <<>> /\ h \in Nat
  BY ProgramsAssumption
<1>2. v \in 1 .. 4
  BY <1>1
<1>3. m \in 1 .. 4 /\ M \in {1, 2, 4, 8}
  BY Sizes
<1>4. s = Rows!Max(S)
  BY DEF Rows!Scaled, Rows!DCTSIZE
<1>5. s \in S
  <2>1. M \in S /\ S \subseteq {M, 2 * M, 4 * M, 8 * M}
    BY <1>3
  <2>2. \E x \in S : \A y \in S : x >= y
    <3> HIDE DEF S, M
    <3>1. CASE 8 * M \in S
      BY <1>3, <2>1, <3>1
    <3>2. CASE 8 * M \notin S /\ 4 * M \in S
      BY <1>3, <2>1, <3>2
    <3>3. CASE 8 * M \notin S /\ 4 * M \notin S /\ 2 * M \in S
      BY <1>3, <2>1, <3>3
    <3>4. CASE 8 * M \notin S /\ 4 * M \notin S /\ 2 * M \notin S
      BY <1>3, <2>1, <3>4
    <3>. QED
      BY <3>1, <3>2, <3>3, <3>4
  <2> HIDE DEF S, s
  <2>. QED
    BY <1>4, <2>2 DEF Rows!Max
<1> DEFINE H == v * s
<1>6. Rows!Group(p, 1) = H \div M /\ Rows!Height(p, 1) = H
  BY DEF Rows!Group, Rows!Height
<1>7. s \in {M, 2 * M, 4 * M, 8 * M}
  BY <1>5
<1>8. PICK k \in {1, 2, 4, 8} : s = k * M
  <2> HIDE DEF M, s
  <2>. QED
    BY <1>3, <1>7
<1> DEFINE g == v * k
<1> HIDE DEF v, m, M, s, h, R, r
<1>9. g \in 1 .. 32 /\ H = g * M /\ H \in Nat \ {0}
  BY <1>2, <1>3, <1>8
<1>10. H \div M = g
  <2> HIDE DEF g, H
  <2>. QED
    BY <1>3, <1>9
<1>11. R \in Int
  <2>1. R = (h * H + m * 8 - 1) \div (m * 8)
    BY <1>6 DEF R, h, m, Rows!Rows, Rows!DivUp, Rows!DCTSIZE
  <2>2. h * H \in Int
    BY <1>1, <1>9
  <2> DEFINE y == h * H
  <2> HIDE DEF y
  <2>. QED
    BY <1>3, <2>1, <2>2 DEF y
<1>12. r = IF R % H = 0 THEN H ELSE R % H
  BY <1>6 DEF r, R, Rows!RowsLeft
<1> HIDE DEF g, H
<1>13. r \in 1 .. H
  BY <1>9, <1>11, <1>12
<1>14. (r - 1) \div g \in 0 .. M - 1
  <2> DEFINE q == (r - 1) \div g
  <2>1. q \in Nat /\ g * q <= r - 1
    BY <1>9, <1>13
  <2> HIDE DEF q
  <2>2. g * q < g * M
    BY <1>3, <1>9, <1>13, <2>1
  <2>3. q < M
    BY <1>3, <1>9, <2>1, <2>2
  <2>. QED
    BY <1>3, <2>1, <2>3 DEF q
<1>. QED
  BY <1>3, <1>6, <1>10, <1>14 DEF M, r

(***************************************************************************)
(* The steps of a call.                                                    *)
(***************************************************************************)
RowFields ==
    {"img", "mem", "xbuf", "whichptr", "state", "icount", "full", "ctr", "avail", "color",
     "next_row_out", "togo", "spare", "imcu", "scanline", "lines", "suspended", "passes"}

\* What is counted, in and between calls.
Counted(e) ==
    /\ DOMAIN e = RowFields /\ e.img \in Images
    /\ e.ctr \in Nat /\ e.avail \in 0 .. e.img.M + 2
    /\ e.next_row_out \in 0 .. Rows!MaxV(e.img)
    /\ e.imcu \in 0 .. Rows!TotalRows(e.img) /\ e.icount = e.imcu
    /\ e.full \in BOOLEAN /\ e.suspended \in BOOLEAN
    /\ e.state \in {"prepare", "process", "postponed"}
    /\ e.scanline \in Nat /\ e.togo \in Nat

\* In a call the lines it will return have not been counted by the application yet.
InCall(e, max) ==
    /\ Counted(e) /\ IsSq(e.lines) /\ Len(e.lines) <= max
    /\ e.scanline + Len(e.lines) + e.togo = Rows!Lines(e.img)

\* A row group that waits for the next iMCU row is not the last in the list.
Waits(e) == Rows!Context(e.img) /\ e.state = "postponed" => e.ctr < e.avail

RowsRight(e) ==
    /\ Counted(e) /\ e.scanline + e.togo = Rows!Lines(e.img)
    /\ e.ctr <= Rows!Groups(e.img) /\ Waits(e)

RowsInv == RowsRight(d)

\* One row group at most is done by an upsampler, and what it does not count stays.
Upsamples(e, f) ==
    /\ DOMAIN f = DOMAIN e
    /\ \A x \in RowFields \ {"color", "next_row_out", "lines", "togo", "ctr", "spare"} : f[x] = e[x]
    /\ f.ctr \in {e.ctr, e.ctr + 1}

LEMMA SepIs ==
    ASSUME NEW max \in Nat, NEW e, InCall(e, max)
    PROVE  InCall(Rows!SepUpsample(e, max), max) /\ Upsamples(e, Rows!SepUpsample(e, max))
<1> DEFINE V == Rows!MaxV(e.img)
           col == Rows!Upsampled(e)
           zero == 0
           f == IF e.next_row_out < V THEN e ELSE [e EXCEPT !.color = col, !.next_row_out = zero]
           n == Rows!Min({V - f.next_row_out, f.togo, max - Len(e.lines)})
           new == [j \in 1 .. n |-> Rows!Line(f, f.next_row_out + j - 1)]
           L == f.lines \o new
           t == f.togo - n
           r == f.next_row_out + n
           k == IF r >= V THEN f.ctr + 1 ELSE f.ctr
           g == [f EXCEPT !.lines = L, !.togo = t, !.next_row_out = r, !.ctr = k]
<1>1. Rows!SepUpsample(e, max) = g
  BY DEF Rows!SepUpsample
<1>2. /\ Counted(e) /\ IsSq(e.lines) /\ Len(e.lines) <= max /\ V \in 1 .. 4
      /\ e.scanline + Len(e.lines) + e.togo = Rows!Lines(e.img) /\ e.togo \in Nat
      /\ DOMAIN e = RowFields /\ e.ctr \in Nat /\ e.next_row_out \in 0 .. V
  BY Sizes DEF InCall, Counted
<1>3. Len(e.lines) \in Nat
  BY <1>2, Joined
<1>4. /\ DOMAIN f = RowFields /\ f.next_row_out \in 0 .. V
      /\ \A x \in RowFields \ {"color", "next_row_out"} : f[x] = e[x]
  <2> HIDE DEF col, zero, V
  <2>1. zero \in 0 .. V
    BY <1>2 DEF zero
  <2>. QED
    BY <1>2, <2>1 DEF RowFields
<1>5. f.lines = e.lines /\ f.togo = e.togo /\ f.ctr = e.ctr
  BY <1>4 DEF RowFields
<1> HIDE DEF f
<1>6. n \in Nat /\ n <= e.togo /\ n <= max - Len(e.lines) /\ r \in 0 .. V
  <2> DEFINE a == V - f.next_row_out
             b == f.togo
             c == max - Len(e.lines)
  <2>1. a \in Nat /\ b \in Nat /\ c \in Nat
    BY <1>2, <1>3, <1>4, <1>5
  <2> HIDE DEF a, b, c
  <2>2. n \in {a, b, c} /\ n <= a /\ n <= b /\ n <= c
    <3> DEFINE m == Rows!Min({a, b, c})
    <3>a. a \in Int /\ b \in Int /\ c \in Int
      BY <2>1
    <3>1. m \in {a, b, c} /\ m <= a /\ m <= b /\ m <= c
      BY <3>a, LeastOfThree, Zenon
    <3>2. n = Rows!Min({a, b, c})
      BY DEF a, b, c
    <3>. QED
      BY <3>1, <3>2
  <2> HIDE DEF n
  <2>3. n \in Nat /\ n <= a /\ n <= b /\ n <= c
    BY <2>1, <2>2
  <2>. QED
    BY <1>2, <1>4, <1>5, <2>3 DEF a, b, c
<1>7. IsSq(new) /\ Len(new) = n
  <2> HIDE DEF n
  <2>1. new = [j \in 1 .. n |-> new[j]]
    OBVIOUS
  <2> HIDE DEF new
  <2>. QED
    BY <1>6, <2>1, Tabled
<1>8. IsSq(L) /\ Len(L) = Len(e.lines) + n
  <2> HIDE DEF new, n
  <2> DEFINE s == e.lines
  <2>1. IsSq(s)
    BY <1>2
  <2> HIDE DEF s
  <2>2. IsSq(s \o new) /\ Len(s \o new) = Len(s) + Len(new)
    BY <2>1, <1>7, Joined
  <2>3. L = s \o new
    BY <1>5 DEF s
  <2>. QED
    BY <2>2, <2>3, <1>7 DEF s
<1>9. t = e.togo - n /\ k \in {e.ctr, e.ctr + 1}
  BY <1>5
<1> HIDE DEF L, t, r, k, n, V
<1>10. /\ DOMAIN g = RowFields /\ g.lines = L /\ g.togo = t /\ g.next_row_out = r /\ g.ctr = k
       /\ \A x \in RowFields \ {"lines", "togo", "next_row_out", "ctr"} : g[x] = f[x]
  BY <1>4 DEF RowFields
<1>11. \A x \in RowFields \ {"color", "next_row_out", "lines", "togo", "ctr", "spare"} : g[x] = e[x]
  BY <1>4, <1>10
<1> HIDE DEF g
<1>12. Upsamples(e, g)
  BY <1>2, <1>9, <1>10, <1>11 DEF Upsamples
<1>13. /\ g.img = e.img /\ g.avail = e.avail /\ g.imcu = e.imcu /\ g.icount = e.icount
       /\ g.full = e.full /\ g.suspended = e.suspended /\ g.state = e.state
       /\ g.scanline = e.scanline
  BY <1>11 DEF RowFields
<1>14. t \in Nat /\ k \in Nat
  BY <1>2, <1>6, <1>9
<1>15. Counted(g)
  BY <1>2, <1>6, <1>10, <1>13, <1>14 DEF Counted, V
<1>16. Len(L) <= max /\ e.scanline + Len(L) + t = Rows!Lines(e.img)
  <2> DEFINE x == Len(e.lines)
             y == e.scanline
             w == e.togo
             l == Rows!Lines(e.img)
             ll == Len(L)
  <2>1. x \in Nat /\ y \in Nat /\ w \in Nat /\ y + x + w = l /\ ll = x + n /\ t = w - n /\ n <= max - x
    BY <1>2, <1>3, <1>6, <1>8, <1>9 DEF Counted
  <2> HIDE DEF x, y, w, l, ll
  <2>2. ll <= max /\ y + ll + t = l
    BY <1>6, <2>1
  <2>. QED
    BY <2>2 DEF y, l, ll
<1>17. InCall(g, max)
  BY <1>8, <1>10, <1>13, <1>15, <1>16 DEF InCall
<1>. QED
  BY <1>1, <1>12, <1>17

LEMMA MergedIs ==
    ASSUME NEW max \in Nat \ {0}, NEW e, InCall(e, max), e.lines = <<>>, e.togo > 0
    PROVE  InCall(Rows!MergedUpsample(e, max), max) /\ Upsamples(e, Rows!MergedUpsample(e, max))
<1> DEFINE g == Rows!MergedUpsample(e, max)
           p == e.img
           Two(i) == [c \in DOMAIN p.v |->
                        <<Rows!Row(e, 0, c, e.ctr * Rows!Group(p, c) + Rows!Reads(p, c, i)[1])>>]
           n == Rows!Min({2, e.togo, max - Len(e.lines)})
           one == Append(e.lines, e.spare)
           none == <<>>
           more == e.lines \o [j \in 1 .. n |-> Two(j - 1)]
           kept == IF n > 1 THEN <<>> ELSE Two(1)
           next == e.ctr + 1
           k == IF n > 1 THEN next ELSE e.ctr
           t1 == e.togo - 1
           tn == e.togo - n
           g1 == [e EXCEPT !.lines = one, !.spare = none, !.togo = t1, !.ctr = next]
           gn == [e EXCEPT !.lines = more, !.spare = kept, !.togo = tn, !.ctr = k]
<1>1. g = IF e.spare # <<>> THEN g1 ELSE gn
  BY DEF Rows!MergedUpsample
<1>2. /\ Counted(e) /\ e.scanline + e.togo = Rows!Lines(e.img) /\ e.togo \in Nat \ {0}
      /\ DOMAIN e = RowFields /\ e.ctr \in Nat /\ e.scanline \in Nat
  BY DEF InCall, Counted
<1>3. n \in 1 .. max /\ n <= e.togo
  <2> DEFINE a == 2
             b == e.togo
             c == max - Len(e.lines)
             m == Rows!Min({a, b, c})
  <2>1. a \in Nat \ {0} /\ b \in Nat \ {0} /\ c = max
    BY <1>2
  <2> HIDE DEF a, b, c
  <2>2. a \in Int /\ b \in Int /\ c \in Int
    BY <2>1
  <2>3. m \in {a, b, c} /\ m <= a /\ m <= b /\ m <= c
    BY <2>2, LeastOfThree, Zenon
  <2>4. n = m
    BY DEF a, b, c
  <2> HIDE DEF m, n
  <2>. QED
    BY <2>1, <2>3, <2>4 DEF b
<1>4. IsSq(one) /\ Len(one) = 1
  <2>1. one = <<e.spare>>
    OBVIOUS
  <2> DEFINE x == e.spare
  <2> HIDE DEF x
  <2>2. <<x>> \in Seq({x}) /\ Len(<<x>>) = 1
    OBVIOUS
  <2>. QED
    BY <2>1, <2>2 DEF x, IsSq
<1>5. IsSq(more) /\ Len(more) = n
  <2> DEFINE new == [j \in 1 .. n |-> Two(j - 1)]
  <2> HIDE DEF n, Two
  <2>1. new = [j \in 1 .. n |-> new[j]]
    OBVIOUS
  <2>2. more = <<>> \o new
    OBVIOUS
  <2> HIDE DEF new
  <2>3. IsSq(new) /\ Len(new) = n
    BY <1>3, <2>1, Tabled
  <2>4. PICK S : new \in Seq(S)
    BY <2>3 DEF IsSq
  <2>5. <<>> \o new = new
    BY <2>4
  <2>. QED
    BY <2>2, <2>3, <2>5
<1> DEFINE f == g
<1>6. CASE e.spare # <<>>
  <2>1. g = g1
    BY <1>1, <1>6
  <2>2. t1 \in Nat /\ next \in Nat /\ e.scanline + 1 + t1 = Rows!Lines(e.img)
    <3> DEFINE x == e.scanline
               w == e.togo
               l == Rows!Lines(e.img)
    <3>1. x \in Nat /\ w \in Nat \ {0} /\ x + w = l
      BY <1>2
    <3> HIDE DEF x, w, l
    <3>2. w - 1 \in Nat /\ x + 1 + (w - 1) = l
      BY <3>1
    <3>. QED
      BY <1>2, <3>2 DEF x, w, l
  <2> HIDE DEF one, t1, none, next, g
  <2>3. /\ DOMAIN g1 = RowFields /\ g1.lines = one /\ g1.togo = t1 /\ g1.ctr = next
        /\ \A x \in RowFields \ {"lines", "spare", "togo", "ctr"} : g1[x] = e[x]
    BY <1>2 DEF RowFields
  <2> HIDE DEF g1
  <2>4. Upsamples(e, g1)
    BY <1>2, <2>3 DEF Upsamples, next
  <2>5. /\ g1.img = e.img /\ g1.avail = e.avail /\ g1.imcu = e.imcu /\ g1.icount = e.icount
        /\ g1.full = e.full /\ g1.suspended = e.suspended /\ g1.state = e.state
        /\ g1.scanline = e.scanline /\ g1.next_row_out = e.next_row_out
    BY <2>3 DEF RowFields
  <2>6. Counted(g1)
    BY <1>2, <2>2, <2>3, <2>5 DEF Counted
  <2>7. InCall(g1, max)
    <3>1. IsSq(g1.lines) /\ Len(g1.lines) = 1 /\ 1 <= max
      BY <1>4, <2>3
    <3>2. g1.scanline + 1 + g1.togo = Rows!Lines(g1.img)
      BY <2>2, <2>3, <2>5
    <3> HIDE DEF g1
    <3>. QED
      BY <2>6, <3>1, <3>2 DEF InCall
  <2>. QED
    BY <2>1, <2>4, <2>7 DEF g
<1>7. CASE e.spare = <<>>
  <2>1. g = gn
    BY <1>1, <1>7
  <2>2. tn \in Nat /\ k \in {e.ctr, e.ctr + 1} /\ k \in Nat /\ e.scanline + n + tn = Rows!Lines(e.img)
    <3> DEFINE x == e.scanline
               w == e.togo
               l == Rows!Lines(e.img)
    <3>1. x \in Nat /\ w \in Nat \ {0} /\ x + w = l /\ n <= w
      BY <1>2, <1>3
    <3> HIDE DEF x, w, l, n
    <3>2. w - n \in Nat /\ x + n + (w - n) = l
      BY <1>3, <3>1
    <3>. QED
      BY <1>2, <3>2 DEF x, w, l
  <2> HIDE DEF more, kept, tn, k, g, n
  <2>3. /\ DOMAIN gn = RowFields /\ gn.lines = more /\ gn.togo = tn /\ gn.ctr = k
        /\ \A x \in RowFields \ {"lines", "spare", "togo", "ctr"} : gn[x] = e[x]
    BY <1>2 DEF RowFields
  <2> HIDE DEF gn
  <2>4. Upsamples(e, gn)
    BY <1>2, <2>2, <2>3 DEF Upsamples
  <2>5. /\ gn.img = e.img /\ gn.avail = e.avail /\ gn.imcu = e.imcu /\ gn.icount = e.icount
        /\ gn.full = e.full /\ gn.suspended = e.suspended /\ gn.state = e.state
        /\ gn.scanline = e.scanline /\ gn.next_row_out = e.next_row_out
    BY <2>3 DEF RowFields
  <2>6. Counted(gn)
    BY <1>2, <2>2, <2>3, <2>5 DEF Counted
  <2>7. InCall(gn, max)
    BY <1>3, <1>5, <2>2, <2>3, <2>5, <2>6 DEF InCall
  <2>. QED
    BY <2>1, <2>4, <2>7 DEF g
<1>. QED
  BY <1>6, <1>7

LEMMA PostIs ==
    ASSUME NEW max \in Nat \ {0}, NEW e, InCall(e, max),
           Rows!Context(e.img) \/ (e.lines = <<>> /\ e.togo > 0)
    PROVE  InCall(Rows!PostProcess(e, max), max) /\ Upsamples(e, Rows!PostProcess(e, max))
<1>1. CASE Rows!Merged(e.img)
  <2>1. ~Rows!Context(e.img)
    BY <1>1 DEF Rows!Merged, Rows!Context, Rows!Fancy
  <2>2. Rows!PostProcess(e, max) = Rows!MergedUpsample(e, max)
    BY <1>1 DEF Rows!PostProcess
  <2>3. e.lines = <<>> /\ e.togo > 0
    BY <2>1
  <2>. QED
    BY <2>2, <2>3, MergedIs
<1>2. CASE ~Rows!Merged(e.img)
  <2>1. Rows!PostProcess(e, max) = Rows!SepUpsample(e, max)
    BY <1>2 DEF Rows!PostProcess
  <2>2. max \in Nat
    OBVIOUS
  <2>. QED
    BY <2>1, <2>2, SepIs
<1>. QED
  BY <1>1, <1>2

\* After the main controller: what the application has been given is as it was counted.
Handed(e, f, max) ==
    /\ InCall(f, max) /\ f.img = e.img /\ f.ctr <= Rows!Groups(f.img) /\ Waits(f)

LEMMA GroupsAre ==
    ASSUME NEW p \in Images
    PROVE  p.M <= Rows!Groups(p) /\ (Rows!Context(p) => Rows!Groups(p) = p.M + 2 /\ p.M > 1)
<1>1. p.M \in {1, 2, 4, 8}
  BY Sizes
<1>. QED
  BY <1>1 DEF Rows!Groups, Rows!Context, Rows!Fancy

LEMMA SimpleIs ==
    ASSUME NEW max \in Nat \ {0}, NEW e, InCall(e, max), e.lines = <<>>, e.togo > 0,
           ~Rows!Context(e.img)
    PROVE  Handed(e, Rows!SimpleMain(e, max), max)
<1> DEFINE f == Rows!PostProcess(e, max)
<1>1. InCall(f, max) /\ Upsamples(e, f)
  BY PostIs
<1>2. f.img = e.img
  BY <1>1 DEF Upsamples, RowFields
<1>3. f.img \in Images /\ f.ctr \in Nat /\ DOMAIN f = RowFields
  BY <1>1 DEF InCall, Counted
<1>4. f.img.M \in {1, 2, 4, 8} /\ f.img.M <= Rows!Groups(f.img)
  BY <1>3, Sizes, GroupsAre
<1>5. CASE f.ctr >= e.img.M
  <2> DEFINE zero == 0
             no == FALSE
             g == [f EXCEPT !.full = no, !.ctr = zero]
  <2>1. Rows!SimpleMain(e, max) = g
    BY <1>5 DEF Rows!SimpleMain
  <2>2. zero \in Nat /\ zero <= Rows!Groups(f.img) /\ no \in BOOLEAN
    BY <1>4 DEF Rows!Groups
  <2> HIDE DEF f, zero, no
  <2>3. /\ DOMAIN g = RowFields /\ g.full = no /\ g.ctr = zero
        /\ g.img = f.img /\ g.avail = f.avail /\ g.imcu = f.imcu /\ g.icount = f.icount
        /\ g.suspended = f.suspended /\ g.state = f.state /\ g.togo = f.togo /\ g.lines = f.lines
        /\ g.scanline = f.scanline /\ g.next_row_out = f.next_row_out
    BY <1>3 DEF RowFields
  <2> HIDE DEF g
  <2>4. Counted(g)
    BY <1>1, <2>2, <2>3 DEF InCall, Counted
  <2>5. InCall(g, max)
    BY <1>1, <2>3, <2>4 DEF InCall
  <2>6. Waits(g)
    BY <1>2, <2>3 DEF Waits
  <2>. QED
    BY <1>2, <2>1, <2>2, <2>3, <2>5, <2>6 DEF Handed
<1>6. CASE f.ctr < e.img.M
  <2>1. Rows!SimpleMain(e, max) = f
    BY <1>2, <1>3, <1>4, <1>6 DEF Rows!SimpleMain
  <2> HIDE DEF f
  <2>2. f.ctr <= Rows!Groups(f.img)
    <3> DEFINE a == f.ctr
               b == f.img.M
               c == Rows!Groups(f.img)
    <3>1. a < b /\ b <= c /\ a \in Nat /\ b \in Nat /\ c \in Int
      BY <1>2, <1>3, <1>4, <1>6 DEF Rows!Groups
    <3> HIDE DEF a, b, c
    <3>2. a <= c
      BY <3>1
    <3>. QED
      BY <3>2 DEF a, c
  <2>. QED
    BY <1>1, <1>2, <2>1, <2>2 DEF Handed, Waits
<1>7. f.ctr >= e.img.M \/ f.ctr < e.img.M
  BY <1>2, <1>3, <1>4
<1>. QED
  BY <1>5, <1>6, <1>7

LEMMA ProcessIs ==
    ASSUME NEW max \in Nat \ {0}, NEW e, InCall(e, max), Rows!Context(e.img)
    PROVE  Handed(e, Rows!ProcessIMCU(e, max), max)
<1> DEFINE f == Rows!PostProcess(e, max)
<1>1. InCall(f, max) /\ Upsamples(e, f)
  BY PostIs
<1>2. f.img = e.img
  BY <1>1 DEF Upsamples, RowFields
<1>3. f.img \in Images /\ f.ctr \in Nat /\ f.avail \in 0 .. f.img.M + 2 /\ DOMAIN f = RowFields
  BY <1>1 DEF InCall, Counted
<1>4. f.img.M \in {1, 2, 4, 8} /\ Rows!Groups(f.img) = f.img.M + 2 /\ e.img.M = f.img.M
  BY <1>2, <1>3, Sizes, GroupsAre
<1>5. CASE f.ctr < f.avail
  <2>1. Rows!ProcessIMCU(e, max) = f
    BY <1>5 DEF Rows!ProcessIMCU
  <2> HIDE DEF f
  <2>2. f.ctr <= Rows!Groups(f.img)
    BY <1>3, <1>4, <1>5
  <2>. QED
    BY <1>1, <1>2, <1>5, <2>1, <2>2 DEF Handed, Waits
<1>6. CASE ~(f.ctr < f.avail)
  <2> DEFINE M == e.img.M
             list == IF f.icount = 1 THEN Rows!SetWraparoundPointers(f) ELSE f.xbuf
             other == 1 - f.whichptr
             no == FALSE
             at == M + 1
             end == M + 2
             st == "postponed"
             g == [f EXCEPT !.xbuf = list, !.whichptr = other, !.full = no,
                            !.ctr = at, !.avail = end, !.state = st]
  <2>1. Rows!ProcessIMCU(e, max) = g
    BY <1>6 DEF Rows!ProcessIMCU
  <2>2. /\ at \in Nat /\ end \in 0 .. f.img.M + 2 /\ at < end /\ no \in BOOLEAN
        /\ at <= Rows!Groups(f.img) /\ st \in {"prepare", "process", "postponed"}
    BY <1>4
  <2> HIDE DEF f, M, list, other, no, at, end, st
  <2>3. /\ DOMAIN g = RowFields /\ g.full = no /\ g.ctr = at /\ g.avail = end /\ g.state = st
        /\ g.img = f.img /\ g.imcu = f.imcu /\ g.icount = f.icount
        /\ g.suspended = f.suspended /\ g.togo = f.togo /\ g.lines = f.lines
        /\ g.scanline = f.scanline /\ g.next_row_out = f.next_row_out
    BY <1>3 DEF RowFields
  <2> HIDE DEF g
  <2>4. Counted(g)
    BY <1>1, <2>2, <2>3 DEF InCall, Counted
  <2>5. InCall(g, max)
    BY <1>1, <2>3, <2>4 DEF InCall
  <2>6. Waits(g)
    BY <2>2, <2>3 DEF Waits
  <2>. QED
    BY <1>2, <2>1, <2>2, <2>3, <2>5, <2>6 DEF Handed
<1>. QED
  BY <1>5, <1>6

LEMMA PrepareIs ==
    ASSUME NEW max \in Nat \ {0}, NEW e, InCall(e, max), Rows!Context(e.img)
    PROVE  InCall(Rows!PrepareForIMCU(e), max) /\ Rows!PrepareForIMCU(e).img = e.img
<1>1. /\ DOMAIN e = RowFields /\ e.img \in Images /\ e.img.M \in {1, 2, 4, 8} /\ e.img.M > 1
  BY Sizes, GroupsAre DEF InCall, Counted
<1> DEFINE zero == 0
           n == e.img.M - 1
           st == "process"
           f == [e EXCEPT !.ctr = zero, !.avail = n, !.state = st]
           w == f.whichptr
           left == (Rows!RowsLeft(f.img, 1) - 1) \div Rows!Group(f.img, 1) + 1
<1>2. zero \in Nat /\ n \in 0 .. e.img.M + 2 /\ st \in {"prepare", "process", "postponed"}
  BY <1>1
<1>3. /\ DOMAIN f = RowFields /\ f.ctr = zero /\ f.avail = n /\ f.state = st
      /\ f.img = e.img /\ f.imcu = e.imcu /\ f.icount = e.icount
      /\ f.full = e.full /\ f.suspended = e.suspended /\ f.togo = e.togo /\ f.lines = e.lines
      /\ f.scanline = e.scanline /\ f.next_row_out = e.next_row_out
  <2> HIDE DEF zero, n, st
  <2>. QED
    BY <1>1 DEF RowFields
<1>4. Rows!PrepareForIMCU(e) = IF f.icount = Rows!TotalRows(f.img) THEN Rows!SetBottomPointers(f) ELSE f
  BY DEF Rows!PrepareForIMCU
<1> HIDE DEF f
<1>5. InCall(f, max)
  <2>1. Counted(f)
    BY <1>2, <1>3 DEF InCall, Counted
  <2>. QED
    BY <1>3, <2>1 DEF InCall
<1>6. CASE f.icount = Rows!TotalRows(f.img)
  <2> DEFINE g == Rows!SetBottomPointers(f)
  <2>1. PICK x : g = [f EXCEPT !.avail = left, !.xbuf = x]
    BY DEF Rows!SetBottomPointers
  <2>2. left \in 0 .. e.img.M + 2
    BY <1>1, <1>3, BottomFits
  <2> HIDE DEF left, g
  <2>3. /\ DOMAIN g = RowFields /\ g.ctr = f.ctr /\ g.avail = left /\ g.state = f.state
        /\ g.img = f.img /\ g.imcu = f.imcu /\ g.icount = f.icount
        /\ g.full = f.full /\ g.suspended = f.suspended /\ g.togo = f.togo /\ g.lines = f.lines
        /\ g.scanline = f.scanline /\ g.next_row_out = f.next_row_out
    BY <1>3, <2>1 DEF RowFields
  <2>4. Counted(g)
    BY <1>3, <1>5, <2>2, <2>3 DEF InCall, Counted
  <2>5. InCall(g, max)
    BY <1>5, <2>3, <2>4 DEF InCall
  <2>. QED
    BY <1>3, <1>4, <1>6, <2>3, <2>5 DEF g
<1>7. CASE f.icount # Rows!TotalRows(f.img)
  BY <1>3, <1>4, <1>5, <1>7
<1>. QED
  BY <1>6, <1>7

LEMMA PostponedIs ==
    ASSUME NEW max \in Nat \ {0}, NEW e, InCall(e, max), Rows!Context(e.img), e.ctr < e.avail
    PROVE  Handed(e, Rows!PostponedRow(e, max), max)
<1> DEFINE f == Rows!PostProcess(e, max)
<1>1. InCall(f, max) /\ Upsamples(e, f)
  BY PostIs
<1>2. f.img = e.img /\ f.avail = e.avail
  BY <1>1 DEF Upsamples, RowFields
<1>3. f.img \in Images /\ f.ctr \in Nat /\ f.avail \in 0 .. f.img.M + 2 /\ DOMAIN f = RowFields
  BY <1>1 DEF InCall, Counted
<1>4. f.img.M \in {1, 2, 4, 8} /\ Rows!Groups(f.img) = f.img.M + 2 /\ Rows!Context(f.img)
  BY <1>2, <1>3, Sizes, GroupsAre
<1>5. f.ctr <= f.avail
  <2>1. f.ctr \in {e.ctr, e.ctr + 1} /\ e.ctr \in Nat /\ e.avail \in Nat
    BY <1>1 DEF Upsamples, InCall, Counted
  <2> DEFINE a == f.ctr
             b == e.ctr
             c == e.avail
  <2>2. a \in {b, b + 1} /\ b \in Nat /\ c \in Nat /\ b < c
    BY <2>1
  <2> HIDE DEF a, b, c
  <2>3. a <= c
    BY <2>2
  <2>. QED
    BY <1>2, <2>3 DEF a, c
<1>6. f.ctr <= Rows!Groups(f.img)
  <2> HIDE DEF f
  <2>. QED
    BY <1>3, <1>4, <1>5
<1> HIDE DEF f
<1>7. CASE f.ctr < f.avail
  <2>1. Rows!PostponedRow(e, max) = f
    BY <1>7 DEF Rows!PostponedRow, f
  <2>. QED
    BY <1>1, <1>2, <1>6, <1>7, <2>1 DEF Handed, Waits
<1>8. CASE ~(f.ctr < f.avail) /\ Len(f.lines) >= max
  <2> DEFINE st == "prepare"
             g == [f EXCEPT !.state = st]
  <2>1. Rows!PostponedRow(e, max) = g
    BY <1>8 DEF Rows!PostponedRow, f
  <2>2. st \in {"prepare", "process", "postponed"} /\ st # "postponed"
    OBVIOUS
  <2> HIDE DEF st
  <2>3. /\ DOMAIN g = RowFields /\ g.ctr = f.ctr /\ g.avail = f.avail /\ g.state = st
        /\ g.img = f.img /\ g.imcu = f.imcu /\ g.icount = f.icount
        /\ g.full = f.full /\ g.suspended = f.suspended /\ g.togo = f.togo /\ g.lines = f.lines
        /\ g.scanline = f.scanline /\ g.next_row_out = f.next_row_out
    BY <1>3 DEF RowFields
  <2> HIDE DEF g
  <2>4. Counted(g)
    BY <1>1, <2>2, <2>3 DEF InCall, Counted
  <2>5. InCall(g, max)
    BY <1>1, <2>3, <2>4 DEF InCall
  <2>6. Waits(g)
    BY <2>2, <2>3 DEF Waits
  <2>. QED
    BY <1>2, <1>6, <2>1, <2>3, <2>5, <2>6 DEF Handed
<1>9. CASE ~(f.ctr < f.avail) /\ ~(Len(f.lines) >= max)
  <2> DEFINE g == Rows!PrepareForIMCU(f)
  <2>1. Rows!PostponedRow(e, max) = Rows!ProcessIMCU(g, max)
    BY <1>9 DEF Rows!PostponedRow, f
  <2>2. InCall(g, max) /\ g.img = f.img
    BY <1>1, <1>4, PrepareIs
  <2> HIDE DEF g
  <2>3. Handed(g, Rows!ProcessIMCU(g, max), max)
    BY <1>4, <2>2, ProcessIs
  <2>. QED
    BY <1>2, <2>1, <2>2, <2>3 DEF Handed
<1>. QED
  BY <1>7, <1>8, <1>9

LEMMA ProcessDataIs ==
    ASSUME NEW max \in Nat \ {0}, NEW e, InCall(e, max), e.lines = <<>>, e.togo > 0, Waits(e)
    PROVE  Handed(e, Rows!ProcessData(e, max), max)
<1>1. CASE ~Rows!Context(e.img)
  <2>1. Rows!ProcessData(e, max) = Rows!SimpleMain(e, max)
    BY <1>1 DEF Rows!ProcessData
  <2>. QED
    BY <1>1, <2>1, SimpleIs
<1>2. CASE Rows!Context(e.img)
  <2>1. Rows!ProcessData(e, max) = Rows!ContextMain(e, max)
    BY <1>2 DEF Rows!ProcessData
  <2>2. e.state \in {"prepare", "process", "postponed"}
    BY DEF InCall, Counted
  <2>3. CASE e.state = "postponed"
    <3>1. Rows!ContextMain(e, max) = Rows!PostponedRow(e, max) /\ e.ctr < e.avail
      BY <1>2, <2>3 DEF Rows!ContextMain, Waits
    <3>. QED
      BY <1>2, <2>1, <3>1, PostponedIs
  <2>4. CASE e.state = "prepare"
    <3> DEFINE g == Rows!PrepareForIMCU(e)
    <3>1. Rows!ContextMain(e, max) = Rows!ProcessIMCU(g, max)
      BY <2>4 DEF Rows!ContextMain
    <3>2. InCall(g, max) /\ g.img = e.img
      BY <1>2, PrepareIs
    <3> HIDE DEF g
    <3>3. Handed(g, Rows!ProcessIMCU(g, max), max)
      BY <1>2, <3>2, ProcessIs
    <3>. QED
      BY <2>1, <3>1, <3>2, <3>3 DEF Handed
  <2>5. CASE e.state = "process"
    <3>1. Rows!ContextMain(e, max) = Rows!ProcessIMCU(e, max)
      BY <2>5 DEF Rows!ContextMain
    <3>. QED
      BY <1>2, <2>1, <3>1, ProcessIs
  <2>. QED
    BY <2>2, <2>3, <2>4, <2>5
<1>. QED
  BY <1>1, <1>2

LEMMA StartIs ==
    ASSUME NEW e, DOMAIN e = RowFields, e.img \in Images, e.avail \in 0 .. e.img.M + 2
    PROVE  RowsRight(Rows!StartPass(e))
<1> DEFINE p == e.img
           xb == IF Rows!Context(p) THEN Rows!MakeFunnyPointers(e) ELSE e.xbuf
           zero == 0
           no == FALSE
           st == "prepare"
           V == Rows!MaxV(p)
           L == Rows!Lines(p)
           none == <<>>
           n == e.passes + 1
           g == [e EXCEPT !.xbuf = xb, !.whichptr = zero, !.state = st, !.icount = zero,
                          !.full = no, !.ctr = zero, !.next_row_out = V, !.togo = L,
                          !.spare = none, !.imcu = zero, !.scanline = zero, !.lines = none,
                          !.suspended = no, !.passes = n]
<1>1. Rows!StartPass(e) = g
  BY DEF Rows!StartPass
<1>2. /\ V \in 0 .. V /\ L \in Nat /\ no \in BOOLEAN /\ zero \in 0 .. Rows!TotalRows(p)
      /\ st \in {"prepare", "process", "postponed"} /\ zero \in Nat /\ zero <= Rows!Groups(p)
      /\ zero + L = L /\ st # "postponed"
  BY Sizes DEF Rows!Groups
<1> HIDE DEF xb, zero, no, st, V, L, none, n
<1>3. /\ DOMAIN g = RowFields /\ g.img = p /\ g.avail = e.avail /\ g.ctr = zero /\ g.full = no
      /\ g.imcu = zero /\ g.icount = zero /\ g.suspended = no /\ g.state = st /\ g.togo = L
      /\ g.scanline = zero /\ g.next_row_out = V
  BY DEF RowFields
<1> HIDE DEF g
<1>4. Counted(g)
  BY <1>2, <1>3 DEF Counted, V
<1>5. g.scanline + g.togo = Rows!Lines(g.img) /\ g.ctr <= Rows!Groups(g.img) /\ Waits(g)
  BY <1>2, <1>3 DEF L, Waits
<1>. QED
  BY <1>1, <1>4, <1>5 DEF RowsRight

LEMMA RowsInitIs == ASSUME Rows!Init PROVE RowsInv
<1>1. PICK p \in Images : d = Rows!StartPass(Rows!New(p))
  BY DEF Rows!Init
<1> DEFINE e == Rows!New(p)
<1>2. DOMAIN e = RowFields /\ e.img = p /\ e.avail = 0
  BY DEF Rows!New, RowFields
<1>3. e.avail \in 0 .. e.img.M + 2
  BY <1>2, Sizes
<1>. QED
  BY <1>1, <1>2, <1>3, StartIs DEF RowsInv

\* The application adds what it was given to what it has.
LEMMA ReadIs ==
    ASSUME NEW f, NEW e, NEW max, Handed(e, f, max)
    PROVE  RowsRight([f EXCEPT !.scanline = @ + Len(f.lines)])
<1> DEFINE n == f.scanline + Len(f.lines)
           g == [f EXCEPT !.scanline = n]
<1>1. /\ Counted(f) /\ f.ctr <= Rows!Groups(f.img) /\ Waits(f) /\ DOMAIN f = RowFields
      /\ n + f.togo = Rows!Lines(f.img)
  BY DEF Handed, InCall, Counted
<1>2. n \in Nat
  <2>1. f.scanline \in Nat /\ Len(f.lines) \in Nat
    BY Joined DEF Handed, InCall, Counted
  <2>. QED
    BY <2>1
<1> HIDE DEF n
<1>3. /\ DOMAIN g = RowFields /\ g.ctr = f.ctr /\ g.avail = f.avail /\ g.state = f.state
      /\ g.img = f.img /\ g.imcu = f.imcu /\ g.icount = f.icount
      /\ g.full = f.full /\ g.suspended = f.suspended /\ g.togo = f.togo
      /\ g.scanline = n /\ g.next_row_out = f.next_row_out
  BY <1>1 DEF RowFields
<1> HIDE DEF g
<1>4. Counted(g)
  BY <1>1, <1>2, <1>3 DEF Counted
<1>5. g.scanline + g.togo = Rows!Lines(g.img) /\ g.ctr <= Rows!Groups(g.img) /\ Waits(g)
  BY <1>1, <1>3 DEF Waits
<1>6. RowsRight(g)
  BY <1>4, <1>5 DEF RowsRight
<1>. QED
  BY <1>6 DEF g, n

LEMMA FillIs ==
    ASSUME NEW max \in Nat \ {0}, NEW e, InCall(e, max), Waits(e), e.imcu < Rows!TotalRows(e.img),
           e.lines = <<>>, e.togo > 0
    PROVE  LET f == Rows!Filled(e)
           IN  InCall(f, max) /\ Waits(f) /\ f.lines = <<>> /\ f.togo > 0
<1> DEFINE m == Rows!Decoded(e)
           i == e.imcu + 1
           j == e.icount + 1
           yes == TRUE
           g == [e EXCEPT !.mem = m, !.imcu = i, !.full = yes, !.icount = j]
<1>1. Rows!Filled(e) = g
  BY DEF Rows!Filled
<1>2. DOMAIN e = RowFields /\ Counted(e)
  BY DEF InCall, Counted
<1>3. i \in 0 .. Rows!TotalRows(e.img) /\ i = j /\ yes \in BOOLEAN
  BY <1>2, Sizes DEF Counted
<1> HIDE DEF m, i, j, yes
<1>4. /\ DOMAIN g = RowFields /\ g.ctr = e.ctr /\ g.avail = e.avail /\ g.state = e.state
      /\ g.img = e.img /\ g.imcu = i /\ g.icount = j /\ g.lines = e.lines
      /\ g.full = yes /\ g.suspended = e.suspended /\ g.togo = e.togo
      /\ g.scanline = e.scanline /\ g.next_row_out = e.next_row_out
  BY <1>2 DEF RowFields
<1> HIDE DEF g
<1>5. Counted(g)
  BY <1>2, <1>3, <1>4 DEF Counted
<1>6. InCall(g, max)
  BY <1>4, <1>5 DEF InCall
<1>7. Waits(g) /\ g.lines = <<>> /\ g.togo > 0
  BY <1>4 DEF Waits
<1>. QED
  BY <1>1, <1>6, <1>7

LEMMA SuspendIs ==
    ASSUME NEW max \in Nat \ {0}, NEW e, InCall(e, max), Waits(e), e.ctr <= Rows!Groups(e.img),
           NEW f \in Rows!Suspended(e)
    PROVE  Handed(e, f, max)
<1> DEFINE yes == TRUE
<1>1. PICK m : f = [e EXCEPT !.suspended = yes, !.mem = m]
  BY DEF Rows!Suspended
<1>2. DOMAIN e = RowFields /\ Counted(e)
  BY DEF InCall, Counted
<1>3. yes \in BOOLEAN
  OBVIOUS
<1> HIDE DEF yes
<1>4. /\ DOMAIN f = RowFields /\ f.ctr = e.ctr /\ f.avail = e.avail /\ f.state = e.state
      /\ f.img = e.img /\ f.imcu = e.imcu /\ f.icount = e.icount /\ f.lines = e.lines
      /\ f.full = e.full /\ f.suspended = yes /\ f.togo = e.togo
      /\ f.scanline = e.scanline /\ f.next_row_out = e.next_row_out
  BY <1>1, <1>2 DEF RowFields
<1>5. Counted(f)
  BY <1>2, <1>3, <1>4 DEF Counted
<1>6. InCall(f, max)
  BY <1>4, <1>5 DEF InCall
<1>. QED
  BY <1>4, <1>6 DEF Waits, Handed

\* What a call starts from.
LEMMA CallIs ==
    ASSUME NEW max \in Nat \ {0}, NEW e, RowsRight(e), e.scanline < Rows!Lines(e.img)
    PROVE  LET f == [e EXCEPT !.lines = <<>>, !.suspended = FALSE]
           IN  /\ InCall(f, max) /\ Waits(f) /\ f.lines = <<>> /\ f.togo > 0
               /\ f.ctr <= Rows!Groups(f.img)
<1> DEFINE none == <<>>
           no == FALSE
           f == [e EXCEPT !.lines = none, !.suspended = no]
<1>1. DOMAIN e = RowFields /\ Counted(e) /\ e.scanline + e.togo = Rows!Lines(e.img)
  BY DEF RowsRight, Counted
<1>2. IsSq(none) /\ Len(none) = 0 /\ no \in BOOLEAN /\ none = <<>>
  <2>1. <<>> \in Seq({})
    OBVIOUS
  <2>. QED
    BY <2>1 DEF IsSq
<1>3. e.togo > 0 /\ e.scanline + 0 + e.togo = Rows!Lines(e.img)
  <2> DEFINE x == e.scanline
             w == e.togo
             l == Rows!Lines(e.img)
  <2>1. x \in Nat /\ w \in Nat /\ x + w = l /\ x < l
    BY <1>1 DEF Counted
  <2> HIDE DEF x, w, l
  <2>2. w > 0 /\ x + 0 + w = l
    BY <2>1
  <2>. QED
    BY <2>2 DEF x, w, l
<1> HIDE DEF none, no
<1>4. /\ DOMAIN f = RowFields /\ f.ctr = e.ctr /\ f.avail = e.avail /\ f.state = e.state
      /\ f.img = e.img /\ f.imcu = e.imcu /\ f.icount = e.icount /\ f.lines = none
      /\ f.full = e.full /\ f.suspended = no /\ f.togo = e.togo
      /\ f.scanline = e.scanline /\ f.next_row_out = e.next_row_out
  BY <1>1 DEF RowFields
<1> HIDE DEF f
<1>5. Counted(f)
  BY <1>1, <1>2, <1>4 DEF Counted
<1>6. InCall(f, max)
  <2>1. IsSq(f.lines) /\ Len(f.lines) = 0 /\ 0 <= max
    BY <1>2, <1>4
  <2>2. f.scanline + 0 + f.togo = Rows!Lines(f.img)
    BY <1>3, <1>4
  <2>. QED
    BY <1>5, <2>1, <2>2 DEF InCall
<1>7. Waits(f) /\ f.lines = <<>> /\ f.togo > 0 /\ f.ctr <= Rows!Groups(f.img)
  BY <1>2, <1>3, <1>4 DEF RowsRight, Waits
<1>. QED
  BY <1>6, <1>7 DEF f, none, no

LEMMA ReadKeeps ==
    ASSUME RowsInv, NEW max \in 1 .. MaxLines, Rows!ReadScanlines(max) PROVE RowsInv'
<1> DEFINE e == [d EXCEPT !.lines = <<>>, !.suspended = FALSE]
           ready == IF e.full THEN {e}
                    ELSE IF e.imcu < Rows!TotalRows(e.img) THEN {Rows!Filled(e)} ELSE {}
           done == {Rows!ProcessData(f, max) : f \in ready}
                     \union (IF e.full THEN {} ELSE Rows!Suspended(e))
<1>1. d.scanline < Rows!Lines(d.img)
      /\ \E f \in done : d' = [f EXCEPT !.scanline = @ + Len(f.lines)]
  BY DEF Rows!ReadScanlines
<1>2. max \in Nat \ {0}
  OBVIOUS
<1>3. /\ InCall(e, max) /\ Waits(e) /\ e.lines = <<>> /\ e.togo > 0
      /\ e.ctr <= Rows!Groups(e.img)
  BY <1>1, <1>2, CallIs DEF RowsInv
<1>4. PICK f \in done : d' = [f EXCEPT !.scanline = @ + Len(f.lines)]
  BY <1>1
<1> HIDE DEF e
<1>5. \E x : Handed(x, f, max)
  <2>1. ASSUME NEW g \in ready, f = Rows!ProcessData(g, max) PROVE Handed(g, f, max)
    <3>1. InCall(g, max) /\ Waits(g) /\ g.lines = <<>> /\ g.togo > 0
      <4>1. CASE e.full
        BY <1>3, <4>1
      <4>2. CASE ~e.full /\ e.imcu < Rows!TotalRows(e.img)
        <5>1. g = Rows!Filled(e)
          BY <4>2
        <5>. QED
          BY <1>2, <1>3, <4>2, <5>1, FillIs
      <4>. QED
        BY <4>1, <4>2
    <3> HIDE DEF ready
    <3>. QED
      BY <1>2, <2>1, <3>1, ProcessDataIs
  <2>2. ASSUME f \in Rows!Suspended(e) PROVE Handed(e, f, max)
    BY <1>2, <1>3, <2>2, SuspendIs
  <2> HIDE DEF ready
  <2>3. (\E g \in ready : f = Rows!ProcessData(g, max)) \/ f \in Rows!Suspended(e)
    OBVIOUS
  <2>. QED
    BY <2>1, <2>2, <2>3
<1>6. RowsRight([f EXCEPT !.scanline = @ + Len(f.lines)])
  BY <1>5, ReadIs
<1> DEFINE g == [f EXCEPT !.scanline = @ + Len(f.lines)]
<1> HIDE DEF g
<1>7. RowsRight(g) /\ d' = g
  BY <1>4, <1>6 DEF g
<1>. QED
  BY <1>7 DEF RowsInv, RowsRight, Counted, Waits

LEMMA RowsKeeps == ASSUME RowsInv, Rows!Next \/ UNCHANGED d PROVE RowsInv'
<1>1. ASSUME NEW max \in 1 .. MaxLines, Rows!ReadScanlines(max) PROVE RowsInv'
  BY <1>1, ReadKeeps
<1>2. CASE Rows!StartOutput
  <2>1. d' = Rows!StartPass(d)
    BY <1>2 DEF Rows!StartOutput
  <2>2. DOMAIN d = RowFields /\ d.img \in Images /\ d.avail \in 0 .. d.img.M + 2
    BY DEF RowsInv, RowsRight, Counted
  <2>3. RowsRight(Rows!StartPass(d))
    BY <2>2, StartIs
  <2> DEFINE g == Rows!StartPass(d)
  <2> HIDE DEF g
  <2>4. RowsRight(g) /\ d' = g
    BY <2>1, <2>3 DEF g
  <2>. QED
    BY <2>4 DEF RowsInv, RowsRight, Counted, Waits
<1>3. CASE UNCHANGED d
  BY <1>3 DEF RowsInv, RowsRight, Counted, Waits
<1>. QED
  BY <1>1, <1>2, <1>3 DEF Rows!Next

LEMMA RowsTypes == ASSUME RowsInv PROVE Rows!TypeOK
<1>1. d.img \in Images /\ d.img.M \in {1, 2, 4, 8}
  BY Sizes DEF RowsInv, RowsRight, Counted
<1>2. d.ctr \in 0 .. Rows!Groups(d.img)
  BY <1>1 DEF RowsInv, RowsRight, Counted, Rows!Groups
<1>. QED
  BY <1>1, <1>2 DEF RowsInv, RowsRight, Counted, Rows!TypeOK
-----------------------------------------------------------------------------
(***************************************************************************)
(* zlib's window.  It holds the end of a text when going on from its       *)
(* oldest byte gives that end.                                             *)
(***************************************************************************)
Ends(w, next, have, t, len) ==
    /\ have = IF len < WSize THEN len ELSE WSize
    /\ \A j \in 1 .. have : w[Unpack!Place(next, have, j)] = t[len - have + j]

Turned(next, have) ==
    /\ next \in 0 .. WSize - 1 /\ have \in 0 .. WSize
    /\ have < WSize => have = next

\* The text goes on by some bytes.
Goes(t, len, b, n, u) == \A i \in 1 .. len + n : u[i] = IF i <= len THEN t[i] ELSE b[i - len]

LEMMA WSizeIs == WSize \in Nat /\ WSize > 0
  BY ProgramsAssumption

LEMMA AllNew ==
    ASSUME NEW w, NEW t, NEW len \in Nat, NEW b, NEW n \in Nat, NEW u, n >= WSize,
           Goes(t, len, b, n, u), \A i \in 0 .. WSize - 1 : w[i] = b[n - WSize + i + 1]
    PROVE  Turned(0, WSize) /\ Ends(w, 0, WSize, u, len + n)
<1>1. Turned(0, WSize)
  BY WSizeIs DEF Turned
<1>2. WSize = IF len + n < WSize THEN len + n ELSE WSize
  BY WSizeIs
<1>3. ASSUME NEW j \in 1 .. WSize
      PROVE  w[Unpack!Place(0, WSize, j)] = u[(len + n) - WSize + j]
  <2>1. Unpack!Place(0, WSize, j) = j - 1 /\ j - 1 \in 0 .. WSize - 1
    BY WSizeIs DEF Unpack!Place
  <2>2. w[j - 1] = b[n - WSize + (j - 1) + 1] /\ n - WSize + (j - 1) + 1 = n - WSize + j
    BY <2>1, WSizeIs
  <2> DEFINE i == (len + n) - WSize + j
  <2>3. i \in 1 .. len + n /\ ~(i <= len) /\ i - len = n - WSize + j
    BY WSizeIs
  <2> HIDE DEF i
  <2>4. u[i] = b[n - WSize + j]
    BY <2>3 DEF Goes
  <2>. QED
    BY <2>1, <2>2, <2>4 DEF i
<1>4. Ends(w, 0, WSize, u, len + n)
  BY <1>2, <1>3 DEF Ends
<1>. QED
  BY <1>1, <1>4

\* The bytes fill the window to its end, and go on from its start.
Around(v, w, b, next, dist, rest) ==
    \A i \in 0 .. WSize - 1 :
      w[i] = IF i < rest THEN b[dist + i + 1]
             ELSE IF i \in next .. next + dist - 1 THEN b[i - next + 1] ELSE v[i]

LEMMA AroundNew ==
    ASSUME NEW v, NEW w, NEW next, NEW have, NEW t, NEW len \in Nat, NEW b, NEW n \in Nat, NEW u,
           NEW dist \in Nat, NEW rest \in Nat,
           n < WSize, Goes(t, len, b, n, u), Turned(next, have), Ends(v, next, have, t, len),
           dist = WSize - next, rest = n - dist, rest > 0, Around(v, w, b, next, dist, rest)
    PROVE  Turned(rest, WSize) /\ Ends(w, rest, WSize, u, len + n)
<1> DEFINE W == WSize
<1>1. /\ next \in 0 .. W - 1 /\ have \in 0 .. W /\ (have < W => have = next)
      /\ have = IF len < W THEN len ELSE W
  BY DEF Turned, Ends
<1>2. W \in Nat /\ W > 0
  BY WSizeIs
<1>3. rest \in 0 .. W - 1 /\ len + n >= W /\ rest < next
  BY <1>1, <1>2
<1>a. \A i \in 0 .. W - 1 :
        w[i] = IF i < rest THEN b[dist + i + 1]
               ELSE IF i \in next .. next + dist - 1 THEN b[i - next + 1] ELSE v[i]
  BY DEF Around
<1>4. ASSUME NEW j \in 1 .. W
      PROVE  w[Unpack!Place(rest, W, j)] = u[len + n - W + j]
  <2> DEFINE p == Unpack!Place(rest, W, j)
             i == len + n - W + j
  <2>1. i \in 1 .. len + n
    BY <1>2, <1>3
  <2>2. CASE j > W - rest
    <3>1. p = j - 1 - W + rest /\ p \in 0 .. W - 1 /\ p < rest
      BY <1>2, <1>3, <2>2 DEF Unpack!Place
    <3>2. ~(i <= len) /\ i - len = dist + p + 1
      BY <1>1, <1>2, <1>3, <2>2, <3>1
    <3> HIDE DEF p, i
    <3>3. w[p] = b[dist + p + 1]
      BY <3>1, <1>a
    <3>4. u[i] = b[i - len]
      BY <2>1, <3>2 DEF Goes
    <3>. QED
      BY <3>2, <3>3, <3>4 DEF p, i
  <2>3. CASE j <= W - rest
    <3>1. p = rest + j - 1 /\ p \in 0 .. W - 1 /\ ~(p < rest)
      BY <1>2, <1>3, <2>3 DEF Unpack!Place
    <3>2. CASE p >= next
      <4>1. p \in next .. next + dist - 1
        BY <1>1, <1>2, <3>1, <3>2
      <4>2. ~(i <= len) /\ i - len = p - next + 1
        BY <1>1, <1>2, <1>3, <3>1, <3>2
      <4> HIDE DEF p, i
      <4>3. w[p] = b[p - next + 1]
        BY <3>1, <4>1, <1>a
      <4>4. u[i] = b[i - len]
        BY <2>1, <4>2 DEF Goes
      <4>. QED
        BY <4>2, <4>3, <4>4 DEF p, i
    <3>3. CASE p < next
      <4>1. p \notin next .. next + dist - 1
        <5> HIDE DEF p
        <5>. QED
          BY <1>1, <1>2, <3>1, <3>3
      <4>2. i <= len
        BY <1>1, <1>2, <1>3, <3>1, <3>3
      <4> DEFINE k == IF have < W THEN p + 1 ELSE p + 1 + W - next
      <4>3. k \in 1 .. have /\ Unpack!Place(next, have, k) = p /\ len - have + k = i
        BY <1>1, <1>2, <1>3, <3>1, <3>3 DEF Unpack!Place
      <4> HIDE DEF p, i, k
      <4>4. v[Unpack!Place(next, have, k)] = t[len - have + k]
        BY <4>3 DEF Ends
      <4>5. v[p] = t[i]
        BY <4>3, <4>4
      <4>6. w[p] = v[p]
        BY <3>1, <4>1, <1>a
      <4>7. u[i] = t[i]
        BY <2>1, <4>2 DEF Goes
      <4>. QED
        BY <4>5, <4>6, <4>7 DEF p, i
    <3>. QED
      BY <1>1, <3>1, <3>2, <3>3
  <2>. QED
    BY <1>2, <1>3, <2>2, <2>3
<1>5. W = IF len + n < W THEN len + n ELSE W
  BY <1>2, <1>3
<1>. QED
  BY <1>2, <1>3, <1>4, <1>5 DEF Turned, Ends

\* The place after the last byte that was put in.
After(next, n) == IF next + n = WSize THEN 0 ELSE next + n

LEMMA BehindNew ==
    ASSUME NEW v, NEW w, NEW next, NEW have, NEW t, NEW len \in Nat, NEW b, NEW n \in Nat, NEW u,
           n < WSize, Goes(t, len, b, n, u), Turned(next, have), Ends(v, next, have, t, len),
           n <= WSize - next,
           \A i \in 0 .. WSize - 1 :
             w[i] = IF i \in next .. next + n - 1 THEN b[i - next + 1] ELSE v[i]
    PROVE  LET more == IF have = WSize THEN WSize ELSE have + n
           IN  Turned(After(next, n), more) /\ Ends(w, After(next, n), more, u, len + n)
<1> DEFINE W == WSize
           more == IF have = W THEN W ELSE have + n
           to == After(next, n)
<1>1. /\ next \in 0 .. W - 1 /\ have \in 0 .. W /\ (have < W => have = next)
      /\ have = IF len < W THEN len ELSE W
  BY DEF Turned, Ends
<1>2. W \in Nat /\ W > 0
  BY WSizeIs
<1>3. /\ to \in 0 .. W - 1 /\ more \in 0 .. W /\ (more < W => more = to)
      /\ more = IF len + n < W THEN len + n ELSE W
      /\ (have = W => len >= W) /\ (have < W => have = len)
  BY <1>1, <1>2 DEF After
<1>4. ASSUME NEW j \in 1 .. more
      PROVE  w[Unpack!Place(to, more, j)] = u[len + n - more + j]
  <2> DEFINE p == Unpack!Place(to, more, j)
             i == len + n - more + j
  <2>1. i \in 1 .. len + n
    BY <1>1, <1>2, <1>3
  <2>2. CASE j > more - n
    <3>1. p = next + j - 1 - (more - n) /\ p \in 0 .. W - 1 /\ p \in next .. next + n - 1
      BY <1>1, <1>2, <1>3, <2>2 DEF Unpack!Place, After
    <3>2. ~(i <= len) /\ i - len = p - next + 1
      BY <1>1, <1>2, <1>3, <2>2, <3>1
    <3> HIDE DEF p, i
    <3>3. w[p] = b[p - next + 1]
      BY <3>1
    <3>4. u[i] = b[i - len]
      BY <2>1, <3>2 DEF Goes
    <3>. QED
      BY <3>2, <3>3, <3>4 DEF p, i
  <2>3. CASE j <= more - n
    <3> DEFINE k == have - (more - n) + j
    <3>1. /\ p \in 0 .. W - 1 /\ p \notin next .. next + n - 1 /\ i <= len
          /\ k \in 1 .. have /\ Unpack!Place(next, have, k) = p /\ len - have + k = i
      <4>2. CASE have < W
        <5>1. more = have + n /\ have = len
          BY <1>1, <1>2, <1>3, <4>2
        <5>2. i <= len /\ k \in 1 .. have /\ len - have + k = i
          BY <1>1, <1>2, <2>3, <4>2, <5>1
        <5>. QED
          BY <1>1, <1>2, <1>3, <2>3, <4>2, <5>2 DEF Unpack!Place, After
      <4>3. CASE have = W
        <5>1. more = W /\ len >= W
          BY <1>1, <1>2, <1>3, <4>3
        <5>2. i <= len /\ k \in 1 .. have /\ len - have + k = i
          BY <1>1, <1>2, <2>3, <4>3, <5>1
        <5>. QED
          BY <1>1, <1>2, <1>3, <2>3, <4>3, <5>2 DEF Unpack!Place, After
      <4>. QED
        BY <1>1, <1>2, <4>2, <4>3
    <3> HIDE DEF p, i, k
    <3>2. v[Unpack!Place(next, have, k)] = t[len - have + k]
      BY <3>1 DEF Ends
    <3>3. v[p] = t[i]
      BY <3>1, <3>2
    <3>4. w[p] = v[p]
      BY <3>1
    <3>5. u[i] = t[i]
      BY <2>1, <3>1 DEF Goes
    <3>. QED
      BY <3>3, <3>4, <3>5 DEF p, i
  <2>. QED
    BY <1>1, <1>2, <1>3, <2>2, <2>3
<1>5. Turned(to, more)
  BY <1>3 DEF Turned
<1>6. Ends(w, to, more, u, len + n)
  BY <1>3, <1>4 DEF Ends
<1>. QED
  BY <1>5, <1>6

ZFields ==
    {"stream", "at", "mode", "last", "havedict", "length", "offset", "window", "allocated",
     "wsize", "whave", "wnext", "check", "past", "buf", "inside", "have", "in", "left", "out",
     "flush", "ret", "stuck", "resets"}

WindowFields == {"window", "wsize", "whave", "wnext", "allocated"}

Shaped(e) ==
    /\ DOMAIN e = ZFields /\ DOMAIN e.window = 0 .. WSize - 1
    /\ Turned(e.wnext, e.whave) /\ e.wsize \in {0, WSize}

Holds(e, t) == Ends(e.window, e.wnext, e.whave, t, Len(t))

\* Only the window changes.
Rewinds(e, f) == \A x \in ZFields \ WindowFields : f[x] = e[x]

LEMMA UpdateHolds ==
    ASSUME NEW e, Shaped(e), NEW t, IsSq(t), NEW bytes, IsSq(bytes), Holds(e, t)
    PROVE  LET f == Unpack!UpdateWindow(e, bytes)
           IN  Shaped(f) /\ Rewinds(e, f) /\ Holds(f, t \o bytes)
<1> DEFINE n == Len(bytes)
           W == WSize
           dist == Unpack!Min({W - e.wnext, n})
           rest == n - dist
           yes == TRUE
           f == [e EXCEPT !.wsize = W, !.allocated = yes]
           old == e.window
           next == e.wnext
           have == e.whave
           len == Len(t)
           u == t \o bytes
           w0 == [i \in DOMAIN old |-> bytes[n - W + i + 1]]
           zero == 0
           g0 == [f EXCEPT !.window = w0, !.wnext = zero, !.whave = W]
           w1 == [i \in DOMAIN old |->
                    IF i < rest THEN bytes[dist + i + 1]
                    ELSE IF i \in next .. next + dist - 1 THEN bytes[i - next + 1]
                    ELSE old[i]]
           n1 == IF rest > 0 THEN rest ELSE IF next + dist = W THEN 0 ELSE next + dist
           h1 == IF rest > 0 \/ have = W THEN W ELSE have + dist
           g1 == [f EXCEPT !.window = w1, !.wnext = n1, !.whave = h1]
<1>1. /\ DOMAIN e = ZFields /\ DOMAIN old = 0 .. W - 1 /\ Turned(next, have)
      /\ Ends(old, next, have, t, len)
  BY DEF Shaped, Holds
<1>2. W \in Nat /\ W > 0 /\ next \in 0 .. W - 1 /\ have \in 0 .. W
  BY <1>1, WSizeIs DEF Turned
<1>3. len \in Nat /\ n \in Nat /\ Len(u) = len + n /\ Goes(t, len, bytes, n, u)
  BY Joined DEF Goes
<1>4. /\ DOMAIN f = ZFields /\ f.wsize = W /\ f.window = old /\ f.wnext = next /\ f.whave = have
      /\ \A x \in ZFields \ WindowFields : f[x] = e[x]
  <2> HIDE DEF W, yes
  <2>. QED
    BY <1>1 DEF ZFields, WindowFields
<1>5. Unpack!UpdateWindow(e, bytes) = IF n >= W THEN g0 ELSE g1
  <2>1. Unpack!UpdateWindow(e, bytes) =
          IF n >= W THEN [f EXCEPT !.window = [i \in DOMAIN f.window |-> bytes[n - W + i + 1]],
                                   !.wnext = 0, !.whave = W]
          ELSE [f EXCEPT !.window = [i \in DOMAIN f.window |->
                            IF i < rest THEN bytes[dist + i + 1]
                            ELSE IF i \in next .. next + dist - 1 THEN bytes[i - next + 1]
                            ELSE f.window[i]],
                         !.wnext = IF rest > 0 THEN rest
                                   ELSE IF f.wnext + dist = W THEN 0 ELSE f.wnext + dist,
                         !.whave = IF rest > 0 \/ f.whave = W THEN W ELSE f.whave + dist]
    BY DEF Unpack!UpdateWindow
  <2> HIDE DEF f, dist, n, W
  <2>. QED
    BY <1>4, <2>1
<1>6. CASE n >= W
  <2>1. \A i \in 0 .. W - 1 : w0[i] = bytes[n - W + i + 1]
    BY <1>1
  <2>2. DOMAIN w0 = 0 .. W - 1
    BY <1>1
  <2> HIDE DEF f, w0, zero, n, len, u, W
  <2>3. Turned(zero, W) /\ Ends(w0, zero, W, u, len + n)
    BY <1>2, <1>3, <1>6, <2>1, AllNew DEF zero, W
  <2>4. /\ DOMAIN g0 = ZFields /\ g0.window = w0 /\ g0.wnext = zero /\ g0.whave = W
        /\ \A x \in ZFields \ {"window", "wnext", "whave"} : g0[x] = f[x]
    BY <1>4 DEF ZFields
  <2> HIDE DEF g0
  <2>5. g0.wsize = W /\ \A x \in ZFields \ WindowFields : g0[x] = e[x]
    BY <1>4, <2>4 DEF ZFields, WindowFields
  <2>6. Shaped(g0) /\ Rewinds(e, g0) /\ Holds(g0, u)
    BY <1>3, <2>2, <2>3, <2>4, <2>5 DEF Shaped, Rewinds, Holds, W
  <2>. QED
    BY <1>5, <1>6, <2>6 DEF u
<1>7. CASE n < W
  <2>1. dist \in Nat /\ dist \in {W - next, n} /\ dist <= W - next /\ dist <= n /\ rest \in Nat
    <3> DEFINE a == W - next
               m == Unpack!Min({a, n})
    <3>1. a \in Nat /\ a \in Int /\ n \in Int
      BY <1>2, <1>3
    <3> HIDE DEF a, n
    <3>2. m \in {a, n} /\ m <= a /\ m <= n
      BY <3>1, LeastOfTwo, Zenon
    <3>3. dist = m
      BY DEF a, n
    <3> HIDE DEF m, dist
    <3>. QED
      BY <1>3, <3>1, <3>2, <3>3 DEF a
  <2>2. DOMAIN w1 = 0 .. W - 1
    BY <1>1
  <2>3. \A i \in 0 .. W - 1 :
          w1[i] = IF i < rest THEN bytes[dist + i + 1]
                  ELSE IF i \in next .. next + dist - 1 THEN bytes[i - next + 1] ELSE old[i]
    BY <1>1
  <2> HIDE DEF f, w1, n, len, u, W, dist, next, have, old
  <2>4. Turned(n1, h1) /\ Ends(w1, n1, h1, u, len + n)
    <3>1. CASE rest > 0
      <4>1. dist = W - next
        BY <1>3, <2>1, <3>1
      <4>2. n1 = rest /\ h1 = W
        BY <3>1
      <4> DEFINE r == rest
      <4>3. r \in Nat /\ r > 0 /\ r = n - dist
        BY <2>1, <3>1
      <4>4. Around(old, w1, bytes, next, dist, r)
        BY <2>3 DEF Around, W
      <4> HIDE DEF r
      <4>5. Turned(r, W) /\ Ends(w1, r, W, u, len + n)
        <5>1. dist \in Nat /\ n < W
          BY <1>7, <2>1
        <5>. QED
          BY <1>1, <1>3, <4>1, <4>3, <4>4, <5>1, AroundNew, Zenon DEF W
      <4>. QED
        BY <4>2, <4>5 DEF r
    <3>2. CASE ~(rest > 0)
      <4>1. dist = n /\ n <= W - next
        BY <1>3, <2>1, <3>2
      <4>2. n1 = After(next, n) /\ h1 = IF have = W THEN W ELSE have + n
        BY <3>2, <4>1 DEF After, W
      <4>3. \A i \in 0 .. W - 1 :
              w1[i] = IF i \in next .. next + n - 1 THEN bytes[i - next + 1] ELSE old[i]
        <5> TAKE i \in 0 .. W - 1
        <5>1. ~(i < rest)
          BY <1>2, <1>3, <2>1, <3>2
        <5> HIDE DEF rest
        <5>. QED
          BY <2>3, <4>1, <5>1
      <4> DEFINE h == IF have = W THEN W ELSE have + n
      <4>4. Turned(After(next, n), h) /\ Ends(w1, After(next, n), h, u, len + n)
        BY <1>1, <1>3, <1>7, <4>1, <4>3, BehindNew DEF W
      <4>. QED
        BY <4>2, <4>4
    <3>. QED
      BY <3>1, <3>2
  <2> HIDE DEF n1, h1
  <2>5. /\ DOMAIN g1 = ZFields /\ g1.window = w1 /\ g1.wnext = n1 /\ g1.whave = h1
        /\ \A x \in ZFields \ {"window", "wnext", "whave"} : g1[x] = f[x]
    BY <1>4 DEF ZFields
  <2> HIDE DEF g1
  <2>6. g1.wsize = W /\ \A x \in ZFields \ WindowFields : g1[x] = e[x]
    BY <1>4, <2>5 DEF ZFields, WindowFields
  <2>7. Shaped(g1) /\ Rewinds(e, g1) /\ Holds(g1, u)
    BY <1>3, <2>2, <2>4, <2>5, <2>6 DEF Shaped, Rewinds, Holds, W
  <2>8. ~(n >= W)
    BY <1>2, <1>3, <1>7
  <2>. QED
    BY <1>5, <2>7, <2>8 DEF u
<1>. QED
  BY <1>2, <1>3, <1>6, <1>7

\* Whatever the window holds, it stays in shape.
LEMMA UpdateShapes ==
    ASSUME NEW e, Shaped(e), NEW bytes, IsSq(bytes)
    PROVE  LET f == Unpack!UpdateWindow(e, bytes) IN Shaped(f) /\ Rewinds(e, f)
<1> DEFINE have == e.whave
           t == [j \in 1 .. have |-> e.window[Unpack!Place(e.wnext, have, j)]]
<1>1. have \in 0 .. WSize /\ WSize \in Nat /\ Turned(e.wnext, have)
  BY WSizeIs DEF Shaped, Turned
<1>2. IsSq(t) /\ Len(t) = have
  <2>1. t = [j \in 1 .. have |-> t[j]] /\ have \in Nat
    BY <1>1
  <2> HIDE DEF t, have
  <2>. QED
    BY <2>1, Tabled
<1>3. \A j \in 1 .. have : e.window[Unpack!Place(e.wnext, have, j)] = t[have - have + j]
  <2> TAKE j \in 1 .. have
  <2>1. have - have + j = j
    BY <1>1
  <2>. QED
    BY <2>1
<1>4. Holds(e, t)
  <2> HIDE DEF t
  <2>1. have = IF Len(t) < WSize THEN Len(t) ELSE WSize
    BY <1>1, <1>2
  <2>2. \A j \in 1 .. have : e.window[Unpack!Place(e.wnext, have, j)] = t[Len(t) - have + j]
    BY <1>2, <1>3
  <2>. QED
    BY <2>1, <2>2 DEF Holds, Ends
<1> HIDE DEF t
<1>. QED
  BY <1>2, <1>4, UpdateHolds

LEMMA JoinEmpty == ASSUME NEW s, IsSq(s) PROVE s \o <<>> = s /\ <<>> \o s = s
<1>1. PICK S : s \in Seq(S)
  BY DEF IsSq
<1>. QED
  BY <1>1, ConcatEmptySeq

LEMMA JoinAssoc ==
    ASSUME NEW r, IsSq(r), NEW s, IsSq(s), NEW t, IsSq(t) PROVE (r \o s) \o t = r \o (s \o t)
<1>1. PICK R, S, T : r \in Seq(R) /\ s \in Seq(S) /\ t \in Seq(T)
  BY DEF IsSq
<1> DEFINE U == R \union S \union T
<1>2. r \in Seq(U) /\ s \in Seq(U) /\ t \in Seq(U)
  BY <1>1
<1> HIDE DEF U
<1>. QED
  BY <1>2, ConcatAssociative

LEMMA NoneIs == IsSq(<<>>) /\ Len(<<>>) = 0
<1>1. <<>> \in Seq({})
  OBVIOUS
<1>. QED
  BY <1>1 DEF IsSq

\* The end of a sequence, which may be all of it.
LEMMA EndIs ==
    ASSUME NEW s, IsSq(s), NEW n \in Nat, n <= Len(s)
    PROVE  LET t == SubSeq(s, Len(s) - n + 1, Len(s))
           IN  /\ IsSq(t) /\ Len(t) = n /\ (n = Len(s) => t = s)
               /\ t = [i \in 1 .. n |-> s[Len(s) - n + i]]
<1> DEFINE l == Len(s)
           m == l - n + 1
           t == SubSeq(s, m, l)
<1>1. PICK S : s \in Seq(S)
  BY DEF IsSq
<1>2. l \in Nat /\ m \in Int /\ m >= 1 /\ l - m + 1 = n /\ m + 1 - 1 = m
  BY <1>1
<1>3. t = [i \in 1 .. n |-> s[l - n + i]]
  <2>1. t = [i \in 1 .. (l - m + 1) |-> s[i + m - 1]]
    BY <1>1, <1>2
  <2>2. \A i \in 1 .. n : i + m - 1 = l - n + i
    BY <1>2
  <2> HIDE DEF l, t, m
  <2>. QED
    BY <1>2, <2>1, <2>2
<1>4. IsSq(t) /\ Len(t) = n
  <2>1. t = [i \in 1 .. n |-> t[i]]
    BY <1>3
  <2> HIDE DEF t
  <2>. QED
    BY <2>1, Tabled
<1>5. n = l => t = s
  <2> HAVE n = l
  <2>1. \A i \in 1 .. n : l - n + i = i
    BY <1>2
  <2>2. s = [i \in 1 .. l |-> s[i]]
    BY <1>1
  <2> HIDE DEF t, l
  <2>. QED
    BY <1>3, <2>1, <2>2
<1>. QED
  BY <1>3, <1>4, <1>5

LEMMA LeastOfThings ==
    ASSUME NEW a \in Int, NEW b \in Int, NEW c \in Int
    PROVE  /\ Unpack!Min({a, b, c}) \in {a, b, c} /\ Unpack!Min({a, b, c}) <= a
           /\ Unpack!Min({a, b, c}) <= b /\ Unpack!Min({a, b, c}) <= c
<1>1. \E x \in {a, b, c} : \A y \in {a, b, c} : x <= y
  OBVIOUS
<1>. QED
  BY <1>1 DEF Unpack!Min
-----------------------------------------------------------------------------
(***************************************************************************)
(* A stream, in and between calls.                                         *)
(***************************************************************************)
\* The modes in which there may be more text to come.
OnModes ==
    {"HEAD", "DICT", "TYPE", "TYPEDO", "STORED", "COPY", "LEN", "DIST", "LIT", "MATCH"}

\* The dictionary and all that was put out in earlier calls.
Before(e) == (IF e.havedict THEN e.stream.dict ELSE <<>>) \o e.past
SoFar(e) == Before(e) \o (IF e.inside THEN <<>> ELSE e.buf)

\* There is no text before the header is over, and a dictionary is asked for but once.
Starts(e) == e.mode = "HEAD" \/ (e.mode = "DICT" /\ ~e.havedict)

StreamRight(e) ==
    /\ Shaped(e)
    /\ e.stream \in Streams /\ e.at \in Nat \ {0} /\ e.have \in Nat
    /\ e.at + e.have <= Len(e.stream.units) + 1
    /\ e.left \in Nat /\ e.out \in Nat /\ e.left <= e.out /\ e.out - e.left <= Len(e.buf)
    /\ IsSq(e.past) /\ IsSq(e.buf) /\ e.length \in Nat /\ e.offset \in Nat
    /\ e.inside \in BOOLEAN /\ e.havedict \in BOOLEAN
    /\ e.inside /\ e.mode \notin {"DONE", "BAD"} => e.out - e.left = Len(e.buf)
    /\ Starts(e) => ~e.havedict /\ e.past = <<>> /\ e.buf = <<>>
    /\ e.mode \in OnModes => Holds(e, SoFar(e))

StreamInv == StreamRight(z)

LEMMA StreamIs ==
    ASSUME NEW s \in Streams
    PROVE  /\ s.units \in Seq(Unpack!Unit) /\ Len(s.units) \in Nat
           /\ IsSq(s.dict) /\ IsSq(<<>>)
<1>1. s.units \in Seq(Unpack!Unit) /\ s.dict \in Seq(Nat)
  BY ProgramsAssumption
<1>. QED
  BY <1>1, NoneIs, LenProperties DEF IsSq

LEMMA UnitIs ==
    ASSUME NEW s \in Streams, NEW i \in 1 .. Len(s.units)
    PROVE  LET u == s.units[i]
           IN  /\ u[1] \in {"size", "byte", "lit", "length", "distance"} => u[2] \in Nat
               /\ u[1] = "length" => u[2] <= MaxMatch
<1> DEFINE U == s.units
           u == U[i]
<1>1. U \in Seq(Unpack!Unit)
  BY StreamIs
<1>2. u \in Unpack!Unit
  BY <1>1
<1>3. u \in Unpack!Range(U)
  BY <1>1 DEF Unpack!Range
<1>4. u[1] = "length" => u[2] <= MaxMatch
  BY <1>3, ProgramsAssumption
<1> HIDE DEF u
<1>5. u[1] \in {"size", "byte", "lit", "length", "distance"} => u[2] \in Nat
  <2>1. CASE u \in {"head", "codes", "stored", "wrong"} \X BOOLEAN
    <3>1. u[1] \in {"head", "codes", "stored", "wrong"}
      BY <2>1
    <3>. QED
      BY <3>1
  <2>2. CASE u \in {"size", "byte", "lit"} \X Nat
    BY <2>2
  <2>3. CASE u \in {"length", "distance"} \X (Nat \ {0})
    BY <2>3
  <2>4. CASE u = <<"end">> \/ u = <<"check">>
    BY <2>4
  <2>. QED
    BY <1>2, <2>1, <2>2, <2>3, <2>4 DEF Unpack!Unit
<1>. QED
  BY <1>4, <1>5 DEF u

LEMMA BeforeIs ==
    ASSUME NEW e, StreamRight(e)
    PROVE  /\ IsSq(Before(e)) /\ IsSq(SoFar(e))
           /\ e.inside => SoFar(e) = Before(e)
           /\ ~e.inside => SoFar(e) = Before(e) \o e.buf
<1> DEFINE D == IF e.havedict THEN e.stream.dict ELSE <<>>
<1>1. IsSq(D) /\ IsSq(e.past) /\ IsSq(e.buf) /\ IsSq(<<>>) /\ e.inside \in BOOLEAN
  BY StreamIs, NoneIs DEF StreamRight
<1>2. Before(e) = D \o e.past
  BY DEF Before
<1> HIDE DEF D
<1>3. IsSq(Before(e))
  BY <1>1, <1>2, Joined
<1>4. CASE e.inside
  <2>1. SoFar(e) = Before(e) \o <<>>
    BY <1>4 DEF SoFar
  <2>. QED
    BY <1>3, <1>4, <2>1, JoinEmpty
<1>5. CASE ~e.inside
  <2>1. SoFar(e) = Before(e) \o e.buf
    BY <1>5 DEF SoFar
  <2>. QED
    BY <1>1, <1>3, <1>5, <2>1, Joined
<1>. QED
  BY <1>1, <1>3, <1>4, <1>5

\* A step within a call: units are taken, and what is put out takes room.
CallFields == {"at", "have", "mode", "last", "length", "offset", "buf", "left"}

Moves(e, f) ==
    /\ DOMAIN f = ZFields /\ \A x \in ZFields \ CallFields : f[x] = e[x]
    /\ f.at \in Nat \ {0} /\ f.have \in Nat /\ f.at + f.have = e.at + e.have
    /\ f.length \in Nat /\ f.offset \in Nat
    /\ IsSq(f.buf) /\ f.left \in Nat /\ f.left + Len(f.buf) = e.left + Len(e.buf)
    /\ f.mode # "HEAD" /\ (f.mode = "DICT" => e.mode = "HEAD" /\ f.buf = e.buf)

LEMMA MovesKeep ==
    ASSUME NEW e, StreamRight(e), e.inside, e.mode \in OnModes, NEW f, Moves(e, f)
    PROVE  StreamRight(f)
<1>1. /\ f.stream = e.stream /\ f.window = e.window /\ f.wsize = e.wsize /\ f.whave = e.whave
      /\ f.wnext = e.wnext /\ f.past = e.past /\ f.inside = e.inside /\ f.havedict = e.havedict
      /\ f.out = e.out
  BY DEF Moves, ZFields, CallFields
<1>2. Shaped(f)
  BY <1>1 DEF StreamRight, Shaped, Moves
<1>3. f.at + f.have <= Len(f.stream.units) + 1
  BY <1>1 DEF StreamRight, Moves
<1>4. f.left <= f.out /\ f.out - f.left = Len(f.buf) /\ f.out - f.left <= Len(f.buf)
  <2> DEFINE l == f.left
             n == Len(f.buf)
             l0 == e.left
             n0 == Len(e.buf)
             o == e.out
  <2>1. e.mode \notin {"DONE", "BAD"}
    BY DEF OnModes
  <2>2. o - l0 = n0 /\ l + n = l0 + n0 /\ l \in Nat /\ l0 \in Nat /\ o \in Nat
    BY <2>1 DEF StreamRight, Moves
  <2>3. n \in Nat /\ n0 \in Nat
    BY Joined DEF StreamRight, Moves
  <2> HIDE DEF l, n, l0, n0, o
  <2>4. l <= o /\ o - l = n /\ o - l <= n
    BY <2>2, <2>3
  <2>. QED
    BY <1>1, <2>4 DEF l, n, o
<1>5. Starts(f) => ~f.havedict /\ f.past = <<>> /\ f.buf = <<>>
  <2> HAVE Starts(f)
  <2>1. f.mode = "DICT" /\ ~f.havedict /\ e.mode = "HEAD" /\ f.buf = e.buf
    BY DEF Starts, Moves
  <2>2. Starts(e)
    BY <2>1 DEF Starts
  <2>. QED
    BY <1>1, <2>1, <2>2 DEF StreamRight
<1>6. Holds(f, SoFar(f))
  <2>1. Holds(e, SoFar(e))
    BY DEF StreamRight
  <2>2. SoFar(f) = SoFar(e)
    BY <1>1 DEF SoFar, Before
  <2>. QED
    BY <1>1, <2>1, <2>2 DEF Holds
<1>. QED
  BY <1>1, <1>2, <1>3, <1>4, <1>5, <1>6 DEF StreamRight, Moves

\* A step that puts nothing out.
Quiets(e, f, n) ==
    /\ DOMAIN f = ZFields /\ f.at = e.at + n /\ f.have = e.have - n
    /\ \A x \in ZFields \ {"at", "have", "mode", "last", "length", "offset"} : f[x] = e[x]
    /\ f.length \in Nat /\ f.offset \in Nat
    /\ f.mode # "HEAD" /\ (f.mode = "DICT" => e.mode = "HEAD")

LEMMA QuietKeeps ==
    ASSUME NEW e, StreamRight(e), e.inside, e.mode \in OnModes, NEW n \in Nat, n <= e.have,
           NEW f, Quiets(e, f, n)
    PROVE  StreamRight(f)
<1>1. f.buf = e.buf /\ f.left = e.left /\ \A x \in ZFields \ CallFields : f[x] = e[x]
  BY DEF Quiets, ZFields, CallFields
<1>2. f.at \in Nat \ {0} /\ f.have \in Nat /\ f.at + f.have = e.at + e.have
  <2> DEFINE a == e.at
             h == e.have
  <2>1. a \in Nat \ {0} /\ h \in Nat /\ n <= h /\ f.at = a + n /\ f.have = h - n
    BY DEF StreamRight, Quiets
  <2> HIDE DEF a, h
  <2>2. a + n \in Nat \ {0} /\ h - n \in Nat /\ (a + n) + (h - n) = a + h
    BY <2>1
  <2>. QED
    BY <2>1, <2>2 DEF a, h
<1>3. Moves(e, f)
  BY <1>1, <1>2 DEF Quiets, Moves, StreamRight
<1>. QED
  BY <1>3, MovesKeep

\* Taking units, and setting what a case of the switch sets.
LEMMA TookIs ==
    ASSUME NEW e, StreamRight(e), NEW n \in Nat
    PROVE  LET g == Unpack!Took(e, n)
           IN  /\ DOMAIN g = ZFields /\ g.at = e.at + n /\ g.have = e.have - n
               /\ \A x \in ZFields \ {"at", "have"} : g[x] = e[x]
<1> DEFINE a == e.at + n
           h == e.have - n
           g == [e EXCEPT !.at = a, !.have = h]
<1>1. DOMAIN e = ZFields
  BY DEF StreamRight, Shaped
<1> HIDE DEF a, h
<1>2. DOMAIN g = ZFields /\ g.at = a /\ g.have = h /\ \A x \in ZFields \ {"at", "have"} : g[x] = e[x]
  BY <1>1 DEF ZFields
<1>3. Unpack!Took(e, n) = g
  BY DEF Unpack!Took, a, h
<1>. QED
  BY <1>2, <1>3 DEF a, h

LEMMA PutIs ==
    ASSUME NEW e, DOMAIN e = ZFields, NEW b
    PROVE  LET g == Unpack!Put(e, b)
           IN  /\ DOMAIN g = ZFields /\ g.buf = e.buf \o b /\ g.left = e.left - Len(b)
               /\ \A x \in ZFields \ {"buf", "left"} : g[x] = e[x]
<1> DEFINE u == e.buf \o b
           l == e.left - Len(b)
           g == [e EXCEPT !.buf = u, !.left = l]
<1> HIDE DEF u, l
<1>1. DOMAIN g = ZFields /\ g.buf = u /\ g.left = l /\ \A x \in ZFields \ {"buf", "left"} : g[x] = e[x]
  BY DEF ZFields
<1>2. Unpack!Put(e, b) = g
  BY DEF Unpack!Put, u, l
<1>. QED
  BY <1>1, <1>2 DEF u, l

\* Whatever is set, a step with its mode m, length l and offset o that took n units is quiet.
LEMMA SetIs ==
    ASSUME NEW e, StreamRight(e), NEW n \in Nat, NEW g, DOMAIN g = ZFields, g.at = e.at + n,
           g.have = e.have - n, \A x \in ZFields \ {"at", "have"} : g[x] = e[x],
           NEW m, m # "HEAD", m = "DICT" => e.mode = "HEAD"
    PROVE  /\ Quiets(e, [g EXCEPT !.mode = m], n)
           /\ \A y : Quiets(e, [g EXCEPT !.last = y, !.mode = m], n)
           /\ \A l \in Nat : Quiets(e, [g EXCEPT !.length = l, !.mode = m], n)
           /\ \A o \in Nat : Quiets(e, [g EXCEPT !.offset = o, !.mode = m], n)
<1>1. g.length \in Nat /\ g.offset \in Nat
  BY DEF StreamRight, ZFields
<1>2. Quiets(e, [g EXCEPT !.mode = m], n)
  <2> DEFINE f == [g EXCEPT !.mode = m]
  <2>1. DOMAIN f = ZFields /\ f.mode = m /\ \A x \in ZFields \ {"mode"} : f[x] = g[x]
    BY DEF ZFields
  <2> HIDE DEF f
  <2>2. /\ f.at = g.at /\ f.have = g.have /\ f.length = g.length /\ f.offset = g.offset
        /\ \A x \in ZFields \ {"at", "have", "mode", "last", "length", "offset"} : f[x] = e[x]
    BY <2>1 DEF ZFields
  <2>3. Quiets(e, f, n)
    BY <1>1, <2>1, <2>2 DEF Quiets
  <2>. QED
    BY <2>3 DEF f
<1>3. ASSUME NEW y PROVE Quiets(e, [g EXCEPT !.last = y, !.mode = m], n)
  <2> DEFINE f == [g EXCEPT !.last = y, !.mode = m]
  <2>1. DOMAIN f = ZFields /\ f.mode = m /\ \A x \in ZFields \ {"mode", "last"} : f[x] = g[x]
    BY DEF ZFields
  <2> HIDE DEF f
  <2>2. /\ f.at = g.at /\ f.have = g.have /\ f.length = g.length /\ f.offset = g.offset
        /\ \A x \in ZFields \ {"at", "have", "mode", "last", "length", "offset"} : f[x] = e[x]
    BY <2>1 DEF ZFields
  <2>3. Quiets(e, f, n)
    BY <1>1, <2>1, <2>2 DEF Quiets
  <2>. QED
    BY <2>3 DEF f
<1>4. ASSUME NEW l \in Nat PROVE Quiets(e, [g EXCEPT !.length = l, !.mode = m], n)
  <2> DEFINE f == [g EXCEPT !.length = l, !.mode = m]
  <2>1. DOMAIN f = ZFields /\ f.mode = m /\ f.length = l /\ \A x \in ZFields \ {"mode", "length"} : f[x] = g[x]
    BY DEF ZFields
  <2> HIDE DEF f
  <2>2. /\ f.at = g.at /\ f.have = g.have /\ f.length \in Nat /\ f.offset = g.offset
        /\ \A x \in ZFields \ {"at", "have", "mode", "last", "length", "offset"} : f[x] = e[x]
    BY <2>1 DEF ZFields
  <2>3. Quiets(e, f, n)
    BY <1>1, <2>1, <2>2 DEF Quiets
  <2>. QED
    BY <2>3 DEF f
<1>5. ASSUME NEW o \in Nat PROVE Quiets(e, [g EXCEPT !.offset = o, !.mode = m], n)
  <2> DEFINE f == [g EXCEPT !.offset = o, !.mode = m]
  <2>1. DOMAIN f = ZFields /\ f.mode = m /\ f.offset = o /\ \A x \in ZFields \ {"mode", "offset"} : f[x] = g[x]
    BY DEF ZFields
  <2> HIDE DEF f
  <2>2. /\ f.at = g.at /\ f.have = g.have /\ f.length = g.length /\ f.offset \in Nat
        /\ \A x \in ZFields \ {"at", "have", "mode", "last", "length", "offset"} : f[x] = e[x]
    BY <2>1 DEF ZFields
  <2>3. Quiets(e, f, n)
    BY <1>1, <2>1, <2>2 DEF Quiets
  <2>. QED
    BY <2>3 DEF f
<1>. QED
  BY <1>2, <1>3, <1>4, <1>5

LEMMA TakenKeep ==
    ASSUME NEW e, StreamRight(e), e.inside, e.mode \in OnModes, NEW n \in Nat, n <= e.have,
           NEW m, m # "HEAD", m = "DICT" => e.mode = "HEAD",
           NEW y, NEW l \in Nat, NEW o \in Nat
    PROVE  /\ StreamRight([Unpack!Took(e, n) EXCEPT !.mode = m])
           /\ StreamRight([Unpack!Took(e, n) EXCEPT !.last = y, !.mode = m])
           /\ StreamRight([Unpack!Took(e, n) EXCEPT !.length = l, !.mode = m])
           /\ StreamRight([Unpack!Took(e, n) EXCEPT !.offset = o, !.mode = m])
<1> DEFINE g == Unpack!Took(e, n)
<1>1. /\ DOMAIN g = ZFields /\ g.at = e.at + n /\ g.have = e.have - n
      /\ \A x \in ZFields \ {"at", "have"} : g[x] = e[x]
  BY TookIs
<1> HIDE DEF g
<1>2. /\ Quiets(e, [g EXCEPT !.mode = m], n)
      /\ Quiets(e, [g EXCEPT !.last = y, !.mode = m], n)
      /\ Quiets(e, [g EXCEPT !.length = l, !.mode = m], n)
      /\ Quiets(e, [g EXCEPT !.offset = o, !.mode = m], n)
  BY <1>1, SetIs
<1>3. /\ StreamRight([g EXCEPT !.mode = m])
      /\ StreamRight([g EXCEPT !.last = y, !.mode = m])
      /\ StreamRight([g EXCEPT !.length = l, !.mode = m])
      /\ StreamRight([g EXCEPT !.offset = o, !.mode = m])
  BY <1>2, QuietKeeps
<1>. QED
  BY <1>3 DEF g

LEMMA ModeKeeps ==
    ASSUME NEW e, StreamRight(e), e.inside, e.mode \in OnModes, NEW m, m \notin {"HEAD", "DICT"}
    PROVE  StreamRight([e EXCEPT !.mode = m])
<1> DEFINE zero == 0
<1>1. /\ DOMAIN e = ZFields /\ e.at = e.at + zero /\ e.have = e.have - zero /\ zero \in Nat
      /\ zero <= e.have
  BY DEF StreamRight, Shaped
<1> HIDE DEF zero
<1>2. Quiets(e, [e EXCEPT !.mode = m], zero)
  BY <1>1, SetIs
<1>. QED
  BY <1>1, <1>2, QuietKeeps

\* A case of the switch goes on with the input or the room that it has.
LEMMA CaseIs ==
    ASSUME NEW m \in OnModes, Unpack!Case(m)
    PROVE  /\ z.inside /\ z.mode = m /\ z.mode \in OnModes /\ ~Unpack!Stops(z)
  BY DEF Unpack!Case

LEMMA HasUnit ==
    ASSUME StreamInv, z.have # 0
    PROVE  /\ 1 <= z.have /\ z.stream \in Streams /\ z.at \in 1 .. Len(z.stream.units)
           /\ (Unpack!Kind(z) \in {"size", "byte", "lit", "length", "distance"} => Unpack!Value(z) \in Nat)
           /\ (Unpack!Kind(z) = "length" => Unpack!Value(z) <= MaxMatch)
<1> DEFINE s == z.stream
           i == z.at
           h == z.have
           l == Len(s.units)
<1>1. s \in Streams /\ i \in Nat \ {0} /\ h \in Nat /\ h # 0 /\ i + h <= l + 1
  BY DEF StreamInv, StreamRight
<1>2. l \in Nat
  BY <1>1, StreamIs
<1> HIDE DEF i, h, l
<1>3. 1 <= h /\ i \in 1 .. l
  BY <1>1, <1>2
<1> HIDE DEF s
<1> DEFINE u == s.units[i]
<1>4. /\ u[1] \in {"size", "byte", "lit", "length", "distance"} => u[2] \in Nat
      /\ u[1] = "length" => u[2] <= MaxMatch
  BY <1>1, <1>3, UnitIs DEF l
<1>5. Unpack!Kind(z) = u[1] /\ Unpack!Value(z) = u[2]
  BY DEF Unpack!Kind, Unpack!Value, s, i
<1> HIDE DEF u
<1>. QED
  BY <1>1, <1>3, <1>4, <1>5 DEF s, i, h, l

LEMMA HeaderKeeps == ASSUME StreamInv, Unpack!Header PROVE StreamRight(z')
<1>1. z.inside /\ z.mode = "HEAD" /\ z.mode \in OnModes /\ z.have # 0
  BY CaseIs DEF Unpack!Header, Unpack!Stops, OnModes
<1> DEFINE m == IF Unpack!Kind(z) # "head" THEN "BAD" ELSE IF Unpack!Value(z) THEN "DICT" ELSE "TYPE"
<1>2. m # "HEAD" /\ z' = [Unpack!Took(z, 1) EXCEPT !.mode = m]
  BY DEF Unpack!Header
<1>3. 1 <= z.have /\ 1 \in Nat /\ 0 \in Nat
  BY <1>1, HasUnit
<1> HIDE DEF m
<1>. QED
  BY <1>1, <1>2, <1>3, TakenKeep DEF StreamInv

LEMMA DictKeeps == ASSUME StreamInv, Unpack!Dict PROVE StreamRight(z')
<1> DEFINE m == "TYPE"
<1>1. z.inside /\ z.mode \in OnModes /\ m \notin {"HEAD", "DICT"} /\ z' = [z EXCEPT !.mode = m]
  BY CaseIs DEF Unpack!Dict, OnModes
<1> HIDE DEF m
<1>. QED
  BY <1>1, ModeKeeps DEF StreamInv

LEMMA TypeKeeps == ASSUME StreamInv, Unpack!Type PROVE StreamRight(z')
<1> DEFINE m == "TYPEDO"
<1>1. z.inside /\ z.mode \in OnModes /\ m \notin {"HEAD", "DICT"} /\ z' = [z EXCEPT !.mode = m]
  BY CaseIs DEF Unpack!Type, OnModes
<1> HIDE DEF m
<1>. QED
  BY <1>1, ModeKeeps DEF StreamInv

LEMMA TypeDoKeeps == ASSUME StreamInv, Unpack!TypeDo PROVE StreamRight(z')
<1>1. z.inside /\ z.mode = "TYPEDO" /\ z.mode \in OnModes /\ (~z.last => z.have # 0)
  BY CaseIs DEF Unpack!TypeDo, Unpack!Stops, OnModes
<1>2. CASE z.last
  <2> DEFINE m == "CHECK"
  <2>1. m \notin {"HEAD", "DICT"} /\ z' = [z EXCEPT !.mode = m]
    BY <1>2 DEF Unpack!TypeDo
  <2> HIDE DEF m
  <2>. QED
    BY <1>1, <2>1, ModeKeeps DEF StreamInv
<1>3. CASE ~z.last
  <2> DEFINE m == CASE Unpack!Kind(z) = "stored" -> "STORED"
                    [] Unpack!Kind(z) = "codes" -> "LEN"
                    [] OTHER -> "BAD"
             y == Unpack!Value(z)
  <2>1. m # "HEAD" /\ m # "DICT" /\ z' = [Unpack!Took(z, 1) EXCEPT !.last = y, !.mode = m]
    BY <1>3 DEF Unpack!TypeDo
  <2>2. 1 <= z.have /\ 1 \in Nat /\ 0 \in Nat
    BY <1>1, <1>3, HasUnit
  <2> HIDE DEF m, y
  <2>. QED
    BY <1>1, <2>1, <2>2, TakenKeep DEF StreamInv
<1>. QED
  BY <1>2, <1>3

LEMMA StoredKeeps == ASSUME StreamInv, Unpack!Stored PROVE StreamRight(z')
<1>1. z.inside /\ z.mode = "STORED" /\ z.mode \in OnModes /\ z.have # 0
  BY CaseIs DEF Unpack!Stored, Unpack!Stops, OnModes
<1>2. 1 <= z.have /\ 1 \in Nat /\ 0 \in Nat /\ (Unpack!Kind(z) = "size" => Unpack!Value(z) \in Nat)
  BY <1>1, HasUnit
<1>3. CASE Unpack!Kind(z) = "size"
  <2> DEFINE m == "COPY"
             l == Unpack!Value(z)
  <2>1. m # "HEAD" /\ m # "DICT" /\ l \in Nat /\ z' = [Unpack!Took(z, 1) EXCEPT !.length = l, !.mode = m]
    BY <1>2, <1>3 DEF Unpack!Stored
  <2> HIDE DEF m, l
  <2>. QED
    BY <1>1, <1>2, <2>1, TakenKeep DEF StreamInv
<1>4. CASE Unpack!Kind(z) # "size"
  <2> DEFINE m == "BAD"
  <2>1. m # "HEAD" /\ m # "DICT" /\ z' = [Unpack!Took(z, 1) EXCEPT !.mode = m]
    BY <1>4 DEF Unpack!Stored
  <2> HIDE DEF m
  <2>. QED
    BY <1>1, <1>2, <2>1, TakenKeep DEF StreamInv
<1>. QED
  BY <1>3, <1>4

LEMMA LenKeeps == ASSUME StreamInv, Unpack!Len_ PROVE StreamRight(z')
<1>1. z.inside /\ z.mode = "LEN" /\ z.mode \in OnModes /\ z.have # 0
  BY CaseIs DEF Unpack!Len_, Unpack!Stops, OnModes
<1> DEFINE k == Unpack!Kind(z)
           l == Unpack!Value(z)
<1>2. 1 <= z.have /\ 1 \in Nat /\ 0 \in Nat /\ (k \in {"lit", "length"} => l \in Nat)
  BY <1>1, HasUnit
<1>3. CASE k \in {"lit", "length"}
  <2> DEFINE m == IF k = "lit" THEN "LIT" ELSE "DIST"
  <2>1. m # "HEAD" /\ m # "DICT" /\ l \in Nat /\ z' = [Unpack!Took(z, 1) EXCEPT !.length = l, !.mode = m]
    BY <1>2, <1>3 DEF Unpack!Len_
  <2> HIDE DEF m, l
  <2>. QED
    BY <1>1, <1>2, <2>1, TakenKeep DEF StreamInv
<1>4. CASE k \notin {"lit", "length"}
  <2> DEFINE m == IF k = "end" THEN "TYPE" ELSE "BAD"
  <2>1. m # "HEAD" /\ m # "DICT" /\ z' = [Unpack!Took(z, 1) EXCEPT !.mode = m]
    BY <1>4 DEF Unpack!Len_
  <2> HIDE DEF m
  <2>. QED
    BY <1>1, <1>2, <2>1, TakenKeep DEF StreamInv
<1>. QED
  BY <1>3, <1>4

LEMMA DistKeeps == ASSUME StreamInv, Unpack!Dist PROVE StreamRight(z')
<1>1. z.inside /\ z.mode = "DIST" /\ z.mode \in OnModes /\ z.have # 0
  BY CaseIs DEF Unpack!Dist, Unpack!Stops, OnModes
<1>2. 1 <= z.have /\ 1 \in Nat /\ 0 \in Nat /\ (Unpack!Kind(z) = "distance" => Unpack!Value(z) \in Nat)
  BY <1>1, HasUnit
<1>3. CASE Unpack!Kind(z) = "distance"
  <2> DEFINE m == "MATCH"
             o == Unpack!Value(z)
  <2>1. m # "HEAD" /\ m # "DICT" /\ o \in Nat /\ z' = [Unpack!Took(z, 1) EXCEPT !.offset = o, !.mode = m]
    BY <1>2, <1>3 DEF Unpack!Dist
  <2> HIDE DEF m, o
  <2>. QED
    BY <1>1, <1>2, <2>1, TakenKeep DEF StreamInv
<1>4. CASE Unpack!Kind(z) # "distance"
  <2> DEFINE m == "BAD"
  <2>1. m # "HEAD" /\ m # "DICT" /\ z' = [Unpack!Took(z, 1) EXCEPT !.mode = m]
    BY <1>4 DEF Unpack!Dist
  <2> HIDE DEF m
  <2>. QED
    BY <1>1, <1>2, <2>1, TakenKeep DEF StreamInv
<1>. QED
  BY <1>3, <1>4

\* A step that takes n units and puts bytes out for which there is room.
Gives(e, f, n, b) ==
    /\ DOMAIN f = ZFields /\ f.at = e.at + n /\ f.have = e.have - n
    /\ f.buf = e.buf \o b /\ f.left = e.left - Len(b)
    /\ \A x \in ZFields \ CallFields : f[x] = e[x]
    /\ f.length \in Nat /\ f.offset \in Nat /\ f.mode \notin {"HEAD", "DICT"}

LEMMA GivesKeep ==
    ASSUME NEW e, StreamRight(e), e.inside, e.mode \in OnModes, NEW n \in Nat, n <= e.have,
           NEW b, IsSq(b), Len(b) <= e.left, NEW f, Gives(e, f, n, b)
    PROVE  StreamRight(f)
<1>1. f.at \in Nat \ {0} /\ f.have \in Nat /\ f.at + f.have = e.at + e.have
  <2> DEFINE a == e.at
             h == e.have
  <2>1. a \in Nat \ {0} /\ h \in Nat /\ n <= h /\ f.at = a + n /\ f.have = h - n
    BY DEF StreamRight, Gives
  <2> HIDE DEF a, h
  <2>2. a + n \in Nat \ {0} /\ h - n \in Nat /\ (a + n) + (h - n) = a + h
    BY <2>1
  <2>. QED
    BY <2>1, <2>2 DEF a, h
<1>2. IsSq(f.buf) /\ f.left \in Nat /\ f.left + Len(f.buf) = e.left + Len(e.buf)
  <2> DEFINE s == e.buf
             k == Len(s)
             n1 == Len(b)
             l == e.left
  <2>1. IsSq(s) /\ l \in Nat /\ n1 <= l
    BY DEF StreamRight
  <2> HIDE DEF s
  <2>2. IsSq(s \o b) /\ k \in Nat /\ n1 \in Nat /\ Len(s \o b) = k + n1
    BY <2>1, Joined
  <2>3. f.buf = s \o b /\ f.left = l - n1
    BY DEF Gives, s
  <2> HIDE DEF k, n1, l
  <2>4. l - n1 \in Nat /\ (l - n1) + (k + n1) = l + k
    BY <2>1, <2>2
  <2>. QED
    BY <2>2, <2>3, <2>4 DEF s, k, l
<1>3. Moves(e, f)
  BY <1>1, <1>2 DEF Gives, Moves
<1>. QED
  BY <1>3, MovesKeep

\* Bytes that are put out after units were taken.
LEMMA GivenIs ==
    ASSUME NEW e, StreamRight(e), NEW n \in Nat, NEW b, e.mode \notin {"HEAD", "DICT"},
           NEW l \in Nat
    PROVE  LET f == Unpack!Put(Unpack!Took(e, n), b)
           IN  /\ Gives(e, f, n, b) /\ Gives(e, [f EXCEPT !.length = l], n, b) /\ f.length = e.length
<1> DEFINE g == Unpack!Took(e, n)
           f == Unpack!Put(g, b)
<1>1. /\ DOMAIN g = ZFields /\ g.at = e.at + n /\ g.have = e.have - n
      /\ \A x \in ZFields \ {"at", "have"} : g[x] = e[x]
  BY TookIs
<1> HIDE DEF g
<1>2. /\ DOMAIN f = ZFields /\ f.buf = g.buf \o b /\ f.left = g.left - Len(b)
      /\ \A x \in ZFields \ {"buf", "left"} : f[x] = g[x]
  BY <1>1, PutIs
<1> HIDE DEF f
<1>3. /\ g.buf = e.buf /\ g.left = e.left /\ f.at = g.at /\ f.have = g.have
      /\ f.length = e.length /\ f.offset = e.offset /\ f.mode = e.mode
      /\ \A x \in ZFields \ CallFields : f[x] = e[x]
  BY <1>1, <1>2 DEF ZFields, CallFields
<1>4. e.length \in Nat /\ e.offset \in Nat
  BY DEF StreamRight
<1>5. Gives(e, f, n, b)
  BY <1>1, <1>2, <1>3, <1>4 DEF Gives
<1> DEFINE h == [f EXCEPT !.length = l]
<1>6. DOMAIN h = ZFields /\ h.length = l /\ \A x \in ZFields \ {"length"} : h[x] = f[x]
  BY <1>2 DEF ZFields
<1> HIDE DEF h
<1>7. /\ h.at = f.at /\ h.have = f.have /\ h.buf = f.buf /\ h.left = f.left /\ h.offset = f.offset
      /\ h.mode = f.mode /\ \A x \in ZFields \ CallFields : h[x] = f[x]
  BY <1>6 DEF ZFields, CallFields
<1>8. Gives(e, h, n, b)
  BY <1>5, <1>6, <1>7 DEF Gives
<1>. QED
  BY <1>3, <1>5, <1>8 DEF f, g, h

LEMMA PutIsGiven ==
    ASSUME NEW e, StreamRight(e), NEW b, NEW l \in Nat, NEW m, m \notin {"HEAD", "DICT"}
    PROVE  LET f == Unpack!Put(e, b)
           IN  /\ Gives(e, [f EXCEPT !.mode = m], 0, b)
               /\ Gives(e, [f EXCEPT !.length = l, !.mode = m], 0, b)
               /\ f.length = e.length /\ f.mode = e.mode
<1> DEFINE f == Unpack!Put(e, b)
           zero == 0
<1>0. DOMAIN e = ZFields /\ e.length \in Nat /\ e.offset \in Nat
  BY DEF StreamRight, Shaped
<1>1. /\ DOMAIN f = ZFields /\ f.buf = e.buf \o b /\ f.left = e.left - Len(b)
      /\ \A x \in ZFields \ {"buf", "left"} : f[x] = e[x]
  BY <1>0, PutIs
<1>2. e.at = e.at + zero /\ e.have = e.have - zero
  BY DEF StreamRight
<1> HIDE DEF f, zero
<1>3. f.length = e.length /\ f.mode = e.mode
  BY <1>1 DEF ZFields
<1>4. Gives(e, [f EXCEPT !.mode = m], zero, b)
  <2> DEFINE h == [f EXCEPT !.mode = m]
  <2>1. DOMAIN h = ZFields /\ h.mode = m /\ \A x \in ZFields \ {"mode"} : h[x] = f[x]
    BY <1>1 DEF ZFields
  <2> HIDE DEF h
  <2>2. /\ h.at = e.at /\ h.have = e.have /\ h.buf = f.buf /\ h.left = f.left
        /\ h.length = e.length /\ h.offset = e.offset /\ \A x \in ZFields \ CallFields : h[x] = e[x]
    BY <1>1, <2>1 DEF ZFields, CallFields
  <2>3. Gives(e, h, zero, b)
    BY <1>0, <1>1, <1>2, <2>1, <2>2 DEF Gives
  <2>. QED
    BY <2>3 DEF h
<1>5. Gives(e, [f EXCEPT !.length = l, !.mode = m], zero, b)
  <2> DEFINE h == [f EXCEPT !.length = l, !.mode = m]
  <2>1. DOMAIN h = ZFields /\ h.mode = m /\ h.length = l /\ \A x \in ZFields \ {"mode", "length"} : h[x] = f[x]
    BY <1>1 DEF ZFields
  <2> HIDE DEF h
  <2>2. /\ h.at = e.at /\ h.have = e.have /\ h.buf = f.buf /\ h.left = f.left
        /\ h.offset = e.offset /\ \A x \in ZFields \ CallFields : h[x] = e[x]
    BY <1>1, <2>1 DEF ZFields, CallFields
  <2>3. Gives(e, h, zero, b)
    BY <1>0, <1>1, <1>2, <2>1, <2>2 DEF Gives
  <2>. QED
    BY <2>3 DEF h
<1>. QED
  BY <1>3, <1>4, <1>5 DEF f, zero

LEMMA OneByte == ASSUME NEW v PROVE IsSq(<<v>>) /\ Len(<<v>>) = 1
<1>1. <<v>> \in Seq({v}) /\ Len(<<v>>) = 1
  OBVIOUS
<1>. QED
  BY <1>1 DEF IsSq

LEMMA CopyKeeps == ASSUME StreamInv, Unpack!Copy PROVE StreamRight(z')
<1>1. /\ z.inside /\ z.mode = "COPY" /\ z.mode \in OnModes /\ z.length \in Nat /\ z.have \in Nat
      /\ z.left \in Nat
  BY CaseIs DEF Unpack!Copy, OnModes, StreamInv, StreamRight
<1> DEFINE n == Unpack!Min({z.length, z.have, z.left})
           b == [j \in 1 .. n |-> z.stream.units[z.at + j - 1][2]]
<1>2. n \in Nat /\ n <= z.length /\ n <= z.have /\ n <= z.left
  <2> DEFINE x == z.length
             y == z.have
             w == z.left
             m == Unpack!Min({x, y, w})
  <2>1. x \in Nat /\ y \in Nat /\ w \in Nat
    BY <1>1
  <2> HIDE DEF x, y, w
  <2>2. x \in Int /\ y \in Int /\ w \in Int
    BY <2>1
  <2>3. m \in {x, y, w} /\ m <= x /\ m <= y /\ m <= w
    BY <2>2, LeastOfThings, Zenon
  <2> HIDE DEF m
  <2>4. m \in Nat
    BY <2>1, <2>3
  <2>5. n = m
    BY DEF m, x, y, w
  <2>. QED
    BY <2>3, <2>4, <2>5 DEF x, y, w
<1>3. CASE n = 0
  <2> DEFINE m == "TYPE"
  <2>1. m \notin {"HEAD", "DICT"} /\ z' = [z EXCEPT !.mode = m]
    BY <1>3 DEF Unpack!Copy
  <2> HIDE DEF m
  <2>. QED
    BY <1>1, <2>1, ModeKeeps DEF StreamInv
<1>4. CASE n # 0
  <2> DEFINE f == Unpack!Put(Unpack!Took(z, n), b)
  <2>1. z' = [f EXCEPT !.length = f.length - n]
    BY <1>4 DEF Unpack!Copy
  <2> DEFINE l == z.length - n
  <2>2. l \in Nat
    BY <1>1, <1>2
  <2>3. IsSq(b) /\ Len(b) = n
    <3> HIDE DEF n
    <3>1. b = [j \in 1 .. n |-> b[j]]
      OBVIOUS
    <3> HIDE DEF b
    <3>. QED
      BY <1>2, <3>1, Tabled
  <2>4. z.mode \notin {"HEAD", "DICT"}
    BY <1>1
  <2> HIDE DEF n, b, l, f
  <2>5. Gives(z, [f EXCEPT !.length = l], n, b) /\ f.length = z.length
    BY <1>2, <2>2, <2>4, GivenIs DEF StreamInv, f
  <2> DEFINE g == [f EXCEPT !.length = l]
  <2> HIDE DEF g
  <2>6. Gives(z, g, n, b) /\ z' = g
    BY <2>1, <2>5 DEF g, l
  <2>7. StreamRight(g)
    BY <1>1, <1>2, <2>3, <2>6, GivesKeep DEF StreamInv
  <2>. QED
    BY <2>6, <2>7
<1>. QED
  BY <1>3, <1>4

LEMMA LitKeeps == ASSUME StreamInv, Unpack!Lit PROVE StreamRight(z')
<1>1. z.inside /\ z.mode = "LIT" /\ z.mode \in OnModes /\ z.left # 0 /\ z.left \in Nat /\ z.have \in Nat
  BY CaseIs DEF Unpack!Lit, Unpack!Stops, OnModes, StreamInv, StreamRight
<1> DEFINE b == <<z.length>>
           m == "LEN"
           g == [Unpack!Put(z, b) EXCEPT !.mode = m]
<1>2. z' = g /\ m \notin {"HEAD", "DICT"}
  BY DEF Unpack!Lit
<1>3. IsSq(b) /\ Len(b) <= z.left /\ 0 <= z.have /\ 0 \in Nat
  BY <1>1, OneByte
<1> HIDE DEF b, m
<1>4. Gives(z, g, 0, b)
  BY <1>2, <1>3, PutIsGiven DEF StreamInv
<1> HIDE DEF g
<1>5. StreamRight(g)
  BY <1>1, <1>3, <1>4, GivesKeep DEF StreamInv
<1>. QED
  BY <1>2, <1>5

LEMMA MatchKeeps == ASSUME StreamInv, Unpack!Match PROVE StreamRight(z')
<1>1. /\ z.inside /\ z.mode = "MATCH" /\ z.mode \in OnModes /\ z.left \in Nat /\ z.have \in Nat
      /\ z.length \in Nat /\ z.offset \in Nat /\ z.out \in Nat /\ z.wnext \in Nat
  BY CaseIs, WSizeIs DEF Unpack!Match, OnModes, StreamInv, StreamRight, Shaped, Turned
<1> DEFINE op == Unpack!Beyond(z, z.offset)
           piece == IF op > z.wnext THEN op - z.wnext ELSE op
           n == Unpack!Min({z.length, z.left} \union IF op > 0 THEN {piece} ELSE {})
           b == IF op > 0 THEN [j \in 1 .. n |-> z.window[Unpack!From(z, op) + j - 1]]
                ELSE Unpack!Repeated(z.buf, z.offset, n)
           f == Unpack!Put(z, b)
           l == z.length - n
           m == IF z.length = n THEN "LEN" ELSE "MATCH"
           g == [f EXCEPT !.length = l, !.mode = m]
<1>2. op \in Int
  BY <1>1 DEF Unpack!Beyond, Unpack!Wrote
<1>3. n \in Nat /\ n <= z.length /\ n <= z.left
  <2> DEFINE x == z.length
             y == z.left
  <2>1. x \in Nat /\ y \in Nat /\ x \in Int /\ y \in Int
    BY <1>1
  <2> HIDE DEF op
  <2>2. CASE op > 0
    <3> DEFINE k == Unpack!Min({x, y, piece})
    <3>1. piece \in Nat /\ piece \in Int
      BY <1>1, <1>2, <2>2
    <3> HIDE DEF piece, x, y
    <3>2. k \in {x, y, piece} /\ k <= x /\ k <= y
      BY <2>1, <3>1, LeastOfThings, Zenon
    <3> HIDE DEF k
    <3>3. k \in Nat
      BY <2>1, <3>1, <3>2
    <3>4. {x, y} \union {piece} = {x, y, piece}
      OBVIOUS
    <3>5. n = k
      BY <2>2, <3>4 DEF k, x, y
    <3>. QED
      BY <3>2, <3>3, <3>5 DEF x, y
  <2>3. CASE ~(op > 0)
    <3> DEFINE k == Unpack!Min({x, y})
    <3> HIDE DEF x, y
    <3>2. k \in {x, y} /\ k <= x /\ k <= y
      BY <2>1, LeastOfTwo, Zenon
    <3> HIDE DEF k
    <3>3. k \in Nat
      BY <2>1, <3>2
    <3>4. {x, y} \union {} = {x, y}
      OBVIOUS
    <3>5. n = k
      BY <2>3, <3>4 DEF k, x, y
    <3>. QED
      BY <3>2, <3>3, <3>5 DEF x, y
  <2>. QED
    BY <2>2, <2>3
<1>4. IsSq(b) /\ Len(b) <= z.left /\ 0 <= z.have /\ 0 \in Nat
  <2> HIDE DEF n, op
  <2>1. b = [j \in 1 .. n |-> b[j]]
    BY DEF Unpack!Repeated
  <2> HIDE DEF b
  <2>2. IsSq(b) /\ Len(b) = n
    BY <1>3, <2>1, Tabled
  <2>. QED
    BY <1>1, <1>3, <2>2
<1>5. l \in Nat /\ m \notin {"HEAD", "DICT"}
  BY <1>1, <1>3
<1>6. CASE Unpack!Invalid(z, z.offset)
  <2> DEFINE bad == "BAD"
  <2>1. bad \notin {"HEAD", "DICT"} /\ z' = [z EXCEPT !.mode = bad]
    BY <1>6 DEF Unpack!Match
  <2> HIDE DEF bad
  <2>. QED
    BY <1>1, <2>1, ModeKeeps DEF StreamInv
<1>7. CASE ~Unpack!Invalid(z, z.offset)
  <2>1. z' = [f EXCEPT !.length = f.length - n,
                       !.mode = IF z.length = n THEN "LEN" ELSE f.mode]
    BY <1>7 DEF Unpack!Match
  <2>2. f.length = z.length /\ f.mode = z.mode
    <3> HIDE DEF b
    <3>. QED
      BY <1>1, <1>5, PutIsGiven DEF StreamInv
  <2>3. z' = g
    <3> HIDE DEF f, n
    <3>. QED
      BY <1>1, <2>1, <2>2
  <2> HIDE DEF b, l, m
  <2>4. Gives(z, g, 0, b)
    BY <1>5, PutIsGiven DEF StreamInv
  <2> HIDE DEF g
  <2>5. StreamRight(g)
    BY <1>1, <1>4, <2>4, GivesKeep DEF StreamInv
  <2>. QED
    BY <2>3, <2>5
<1>. QED
  BY <1>6, <1>7

LEMMA FastMatchIs ==
    ASSUME NEW e, NEW dist, NEW n \in Nat
    PROVE  LET b == Unpack!FastMatch(e, dist, n) IN IsSq(b) /\ Len(b) = n
<1> DEFINE b == Unpack!FastMatch(e, dist, n)
<1>1. b = [j \in 1 .. n |-> b[j]]
  BY DEF Unpack!FastMatch
<1> HIDE DEF b
<1>2. IsSq(b) /\ Len(b) = n
  BY <1>1, Tabled
<1>. QED
  BY <1>2 DEF b

\* inflate_fast is only entered with the input and the room that any symbol takes.
LEMMA FastKeeps == ASSUME StreamInv, Unpack!Fast PROVE StreamRight(z')
<1>1. /\ z.inside /\ z.mode = "LEN" /\ z.mode \in OnModes /\ z.left \in Nat /\ z.have \in Nat
      /\ z.mode \notin {"HEAD", "DICT"}
  BY CaseIs DEF Unpack!Fast, OnModes, StreamInv, StreamRight
<1>2. 2 <= z.have /\ 1 <= z.have /\ z.have # 0 /\ MaxMatch <= z.left /\ MaxMatch \in Nat /\ z.left # 0
  BY <1>1, ProgramsAssumption DEF Unpack!Fast, Unpack!Quick
<1> DEFINE k == Unpack!Kind(z)
           v == Unpack!Value(z)
<1>3. (k \in {"lit", "length"} => v \in Nat) /\ (k = "length" => v <= MaxMatch)
  BY <1>2, HasUnit
<1>4. CASE k = "lit"
  <2> DEFINE b == <<v>>
             g == Unpack!Put(Unpack!Took(z, 1), b)
  <2>1. z' = g
    BY <1>4 DEF Unpack!Fast
  <2>2. IsSq(b) /\ Len(b) <= z.left
    BY <1>1, <1>2, OneByte
  <2> HIDE DEF b
  <2>3. Gives(z, g, 1, b)
    BY <1>1, GivenIs DEF StreamInv
  <2> HIDE DEF g
  <2>4. StreamRight(g)
    BY <1>1, <1>2, <2>2, <2>3, GivesKeep DEF StreamInv
  <2>. QED
    BY <2>1, <2>4
<1>5. CASE k = "length"
  <2> DEFINE dist == Unpack!Value(Unpack!Took(z, 1))
             wrong == Unpack!Kind(Unpack!Took(z, 1)) # "distance" \/ Unpack!Invalid(z, dist)
             b == Unpack!FastMatch(z, dist, v)
             m == "BAD"
             g == IF wrong THEN [Unpack!Took(z, 2) EXCEPT !.mode = m]
                  ELSE Unpack!Put(Unpack!Took(z, 2), b)
  <2>1. z' = g
    BY <1>5 DEF Unpack!Fast, Unpack!FastLength
  <2>2. CASE wrong
    <3>1. z' = [Unpack!Took(z, 2) EXCEPT !.mode = m] /\ m # "HEAD" /\ m # "DICT"
      BY <2>1, <2>2
    <3> HIDE DEF m, g
    <3>. QED
      BY <1>1, <1>2, <3>1, TakenKeep DEF StreamInv
  <2>3. CASE ~wrong
    <3> HIDE DEF wrong
    <3> DEFINE f == Unpack!Put(Unpack!Took(z, 2), b)
    <3>1. z' = f
      BY <2>1, <2>3
    <3>2. IsSq(b) /\ Len(b) = v /\ v \in Nat /\ v <= MaxMatch
      <4> HIDE DEF v, dist
      <4>. QED
        BY <1>3, <1>5, FastMatchIs
    <3> HIDE DEF b, v, g
    <3>3. Len(b) <= z.left
      BY <1>1, <1>2, <3>2
    <3>4. Gives(z, f, 2, b)
      BY <1>1, GivenIs DEF StreamInv
    <3> HIDE DEF f
    <3>5. StreamRight(f)
      BY <1>1, <1>2, <3>2, <3>3, <3>4, GivesKeep DEF StreamInv
    <3>. QED
      BY <3>1, <3>5
  <2>. QED
    BY <2>2, <2>3
<1>6. CASE k \notin {"lit", "length"}
  <2> DEFINE m == IF k = "end" THEN "TYPE" ELSE "BAD"
  <2>1. m # "HEAD" /\ m # "DICT" /\ z' = [Unpack!Took(z, 1) EXCEPT !.mode = m]
    BY <1>6 DEF Unpack!Fast
  <2> HIDE DEF m
  <2>. QED
    BY <1>1, <1>2, <2>1, TakenKeep DEF StreamInv
<1>. QED
  BY <1>4, <1>5, <1>6

\* The check value ends the stream, or shows that it is wrong.
LEMMA CheckKeeps == ASSUME StreamInv, Unpack!Check PROVE StreamRight(z')
<1>1. z.inside /\ z.mode = "CHECK" /\ z.have # 0 /\ z.have \in Nat
  BY DEF Unpack!Check, Unpack!Case, Unpack!Stops, StreamInv, StreamRight
<1> DEFINE sum == z.check \o Unpack!Written(z)
           right == z.stream.right /\ sum = Unpack!WholeText(z.stream)
           m == IF right THEN "DONE" ELSE "BAD"
           o == z.left
           g == Unpack!Took(z, 1)
           f == [g EXCEPT !.check = sum, !.out = o, !.mode = m]
<1>2. z' = f
  BY DEF Unpack!Check
<1>3. m \in {"DONE", "BAD"}
  OBVIOUS
<1>4. /\ DOMAIN g = ZFields /\ g.at = z.at + 1 /\ g.have = z.have - 1
      /\ \A x \in ZFields \ {"at", "have"} : g[x] = z[x]
  BY TookIs DEF StreamInv
<1> HIDE DEF g, sum, o, m
<1>5. /\ DOMAIN f = ZFields /\ f.mode = m /\ f.out = o
      /\ \A x \in ZFields \ {"check", "out", "mode"} : f[x] = g[x]
  BY <1>4 DEF ZFields
<1> HIDE DEF f
<1>6. /\ f.at = z.at + 1 /\ f.have = z.have - 1 /\ f.left = z.left /\ f.stream = z.stream
      /\ f.buf = z.buf /\ f.past = z.past /\ f.length = z.length /\ f.offset = z.offset
      /\ f.inside = z.inside /\ f.havedict = z.havedict /\ f.window = z.window
      /\ f.wnext = z.wnext /\ f.whave = z.whave /\ f.wsize = z.wsize
  BY <1>4, <1>5 DEF ZFields
<1>7. /\ f.at \in Nat \ {0} /\ f.have \in Nat /\ f.at + f.have <= Len(f.stream.units) + 1
  <2> DEFINE a == z.at
             h == z.have
             k == Len(z.stream.units)
  <2>1. a \in Nat \ {0} /\ h \in Nat /\ h # 0 /\ a + h <= k + 1
    BY <1>1 DEF StreamInv, StreamRight
  <2>2. k \in Nat
    BY StreamIs DEF StreamInv, StreamRight
  <2> HIDE DEF a, h, k
  <2>3. a + 1 \in Nat \ {0} /\ h - 1 \in Nat /\ (a + 1) + (h - 1) <= k + 1
    BY <2>1, <2>2
  <2>. QED
    BY <1>6, <2>3 DEF a, h, k
<1>8. f.left \in Nat /\ f.out \in Nat /\ f.left <= f.out /\ f.out - f.left <= Len(f.buf)
  <2>1. z.left \in Nat /\ IsSq(z.buf)
    BY DEF StreamInv, StreamRight
  <2>2. Len(z.buf) \in Nat
    BY <2>1, Joined
  <2>. QED
    BY <1>5, <1>6, <2>1, <2>2 DEF o
<1>9. Shaped(f)
  BY <1>5, <1>6 DEF StreamInv, StreamRight, Shaped
<1>10. f.mode \in {"DONE", "BAD"} /\ f.mode \notin OnModes /\ ~Starts(f)
  BY <1>3, <1>5 DEF OnModes, Starts
<1>11. StreamRight(f)
  BY <1>6, <1>7, <1>8, <1>9, <1>10 DEF StreamInv, StreamRight
<1>. QED
  BY <1>2, <1>11

\* Between calls: what is kept of a call, and what is not.
Left(e, f) ==
    /\ DOMAIN f = ZFields
    /\ \A x \in ZFields \ {"inside", "have", "in", "left", "out", "flush", "check", "ret", "stuck"} : f[x] = e[x]
    /\ f.inside = FALSE /\ f.have = 0 /\ f.left = 0 /\ f.out = 0

\* Then the window, if it is kept, holds the end of all text so far.
LEMMA LeftKeeps ==
    ASSUME NEW e, StreamRight(e), e.inside, NEW g, Left(e, g), NEW f, Shaped(f), Rewinds(g, f),
           e.mode \in OnModes => Holds(f, Before(e) \o e.buf)
    PROVE  StreamRight(f)
<1>1. /\ g.stream = e.stream /\ g.at = e.at /\ g.mode = e.mode /\ g.past = e.past /\ g.buf = e.buf
      /\ g.length = e.length /\ g.offset = e.offset /\ g.havedict = e.havedict
      /\ g.inside = FALSE /\ g.have = 0 /\ g.left = 0 /\ g.out = 0
  BY DEF Left, ZFields
<1>2. /\ f.stream = g.stream /\ f.at = g.at /\ f.mode = g.mode /\ f.past = g.past /\ f.buf = g.buf
      /\ f.length = g.length /\ f.offset = g.offset /\ f.havedict = g.havedict
      /\ f.inside = g.inside /\ f.have = g.have /\ f.left = g.left /\ f.out = g.out
  BY DEF Rewinds, ZFields, WindowFields
<1>3. /\ f.stream = e.stream /\ f.at = e.at /\ f.mode = e.mode /\ f.past = e.past /\ f.buf = e.buf
      /\ f.length = e.length /\ f.offset = e.offset /\ f.havedict = e.havedict
      /\ f.inside = FALSE /\ f.have = 0 /\ f.left = 0 /\ f.out = 0
  BY <1>1, <1>2
<1>4. f.at + f.have <= Len(f.stream.units) + 1
  <2> DEFINE a == e.at
             h == e.have
             k == Len(e.stream.units)
  <2>1. a \in Nat /\ h \in Nat /\ a + h <= k + 1
    BY DEF StreamRight
  <2>2. k \in Nat
    BY StreamIs DEF StreamRight
  <2> HIDE DEF a, h, k
  <2>3. a + 0 <= k + 1
    BY <2>1, <2>2
  <2>. QED
    BY <1>3, <2>3 DEF a, k
<1>5. Len(f.buf) \in Nat /\ f.out - f.left <= Len(f.buf)
  <2>1. Len(e.buf) \in Nat
    BY Joined DEF StreamRight
  <2>. QED
    BY <1>3, <2>1
<1>6. Starts(f) => ~f.havedict /\ f.past = <<>> /\ f.buf = <<>>
  BY <1>3 DEF StreamRight, Starts
<1>7. f.mode \in OnModes => Holds(f, SoFar(f))
  <2>1. SoFar(f) = Before(e) \o e.buf
    BY <1>3 DEF SoFar, Before
  <2>. QED
    BY <1>3, <2>1
<1>8. /\ f.have \in Nat /\ f.left \in Nat /\ f.out \in Nat /\ f.left <= f.out
      /\ f.inside \in BOOLEAN /\ ~f.inside
  <2>1. f.have \in Nat /\ f.left \in Nat /\ f.out \in Nat /\ f.left <= f.out
    BY <1>3
  <2>2. f.inside = FALSE
    BY <1>3
  <2>3. f.inside \in BOOLEAN
    BY <2>2
  <2>4. ~f.inside
    BY <2>2
  <2>. QED
    BY <2>1, <2>3, <2>4
<1>9. /\ f.stream \in Streams /\ f.at \in Nat \ {0} /\ IsSq(f.past) /\ IsSq(f.buf)
      /\ f.length \in Nat /\ f.offset \in Nat /\ f.havedict \in BOOLEAN
  BY <1>3 DEF StreamRight
<1>. QED
  BY <1>4, <1>5, <1>6, <1>7, <1>8, <1>9 DEF StreamRight

\* A stream that is out of memory keeps its place only.
LEMMA MemoryIs ==
    ASSUME NEW e, StreamRight(e), NEW f, Shaped(f), f.mode = "MEM", ~f.inside, f.inside \in BOOLEAN,
           \A x \in ZFields \ {"inside", "have", "in", "left", "out", "flush", "mode"} : f[x] = e[x],
           \/ f.have = 0 /\ f.left = 0 /\ f.out = 0
           \/ f.have = e.have /\ f.left = e.left /\ f.out = e.out
    PROVE  StreamRight(f)
<1>1. /\ f.stream = e.stream /\ f.at = e.at /\ f.past = e.past /\ f.buf = e.buf
      /\ f.length = e.length /\ f.offset = e.offset /\ f.havedict = e.havedict
  BY DEF ZFields
<1>2. Len(e.buf) \in Nat /\ Len(e.stream.units) \in Nat
  BY Joined, StreamIs DEF StreamRight
<1>3. f.mode \notin OnModes /\ ~Starts(f)
  BY DEF OnModes, Starts
<1>4. f.at + f.have <= Len(f.stream.units) + 1 /\ f.have \in Nat
  <2> DEFINE a == e.at
             h == e.have
             k == Len(e.stream.units)
  <2>1. a \in Nat /\ h \in Nat /\ a + h <= k + 1 /\ k \in Nat
    BY <1>2 DEF StreamRight
  <2>2. f.at = a /\ Len(f.stream.units) = k /\ f.have \in {0, h}
    BY <1>1
  <2> HIDE DEF a, h, k
  <2>3. a + 0 <= k + 1
    BY <2>1
  <2>. QED
    BY <2>1, <2>2, <2>3
<1>5. f.left \in Nat /\ f.out \in Nat /\ f.left <= f.out /\ f.out - f.left <= Len(f.buf)
  <2>1. CASE f.left = 0 /\ f.out = 0
    BY <1>1, <1>2, <2>1
  <2>2. CASE f.left = e.left /\ f.out = e.out
    BY <1>1, <2>2 DEF StreamRight
  <2>. QED
    BY <2>1, <2>2
<1>6. /\ f.stream \in Streams /\ f.at \in Nat \ {0} /\ IsSq(f.past) /\ IsSq(f.buf)
      /\ f.length \in Nat /\ f.offset \in Nat /\ f.havedict \in BOOLEAN
  BY <1>1 DEF StreamRight
<1>. QED
  BY <1>3, <1>4, <1>5, <1>6 DEF StreamRight

\* What a call put out is the end of the buffer, and all of it if there is more to come.
LEMMA WrittenIs ==
    ASSUME NEW e, StreamRight(e)
    PROVE  /\ IsSq(Unpack!Written(e)) /\ Unpack!Wrote(e) \in Nat
           /\ (e.inside /\ e.mode \in OnModes =>
                 Unpack!Written(e) = e.buf /\ Unpack!Wrote(e) = Len(e.buf))
<1> DEFINE n == Unpack!Wrote(e)
           s == e.buf
           w == Unpack!Written(e)
<1>1. n = e.out - e.left
  BY DEF Unpack!Wrote
<1>2. n \in Nat /\ n <= Len(s) /\ IsSq(s)
  BY <1>1 DEF StreamRight
<1>3. w = SubSeq(s, Len(s) - n + 1, Len(s))
  BY DEF Unpack!Written
<1>4. e.inside /\ e.mode \in OnModes => n = Len(s)
  BY <1>1 DEF StreamRight, OnModes
<1> HIDE DEF n, s, w
<1>5. IsSq(w) /\ (n = Len(s) => w = s)
  BY <1>2, <1>3, EndIs
<1>. QED
  BY <1>2, <1>4, <1>5 DEF n, s, w

LEMMA ReturnKeeps == ASSUME StreamInv, Unpack!Return PROVE StreamRight(z')
<1> DEFINE e == z
           kept == e.wsize > 0 \/ (Unpack!Wrote(e) > 0 /\ e.mode # "BAD"
                                   /\ (e.mode \notin {"CHECK", "DONE"} \/ e.flush # "finish"))
           no == FALSE
           zero == 0
           flush == "no"
           still == e.have = e.in /\ e.left = e.out
           gone == [e EXCEPT !.inside = no, !.have = zero, !.in = zero, !.left = zero,
                             !.out = zero, !.flush = flush]
           c == gone.check \o Unpack!Written(e)
           r == CASE e.mode = "DONE" -> "end"
                  [] e.mode = "BAD" -> "data"
                  [] still \/ e.flush = "finish" -> "buf"
                  [] OTHER -> "ok"
           k == still /\ e.in > 0 /\ e.out > 0 /\ e.mode \notin {"DONE", "BAD", "TYPE"}
           back == [gone EXCEPT !.check = c, !.ret = r, !.stuck = k]
           m == "MEM"
           none == [gone EXCEPT !.mode = m]
           upd == Unpack!UpdateWindow(back, Unpack!Written(e))
           before == Before(e)
<1>1. /\ z.inside /\ StreamRight(e) /\ Shaped(e)
      /\ z' \in IF kept THEN Unpack!Updates(back, Unpack!Written(e), none) ELSE {back}
  BY DEF Unpack!Return, Unpack!Leave, StreamInv, StreamRight
<1>2. no = FALSE /\ zero = 0
  OBVIOUS
<1> HIDE DEF e, no, zero, flush, c, r, k
<1>3. /\ DOMAIN gone = ZFields /\ gone.inside = no /\ gone.have = zero /\ gone.left = zero
      /\ gone.out = zero
      /\ \A x \in ZFields \ {"inside", "have", "in", "left", "out", "flush"} : gone[x] = e[x]
  BY <1>1 DEF Shaped, ZFields
<1> HIDE DEF gone
<1>4. DOMAIN back = ZFields /\ \A x \in ZFields \ {"check", "ret", "stuck"} : back[x] = gone[x]
  BY <1>3 DEF ZFields
<1> HIDE DEF back
<1>5. /\ back.inside = no /\ back.have = zero /\ back.left = zero /\ back.out = zero
      /\ back.window = e.window /\ back.wnext = e.wnext /\ back.whave = e.whave
      /\ back.wsize = e.wsize
      /\ \A x \in ZFields \ {"inside", "have", "in", "left", "out", "flush", "check", "ret", "stuck"} :
           back[x] = e[x]
  BY <1>3, <1>4 DEF ZFields
<1>6. Left(e, back) /\ Shaped(back)
  BY <1>1, <1>2, <1>4, <1>5 DEF Left, Shaped
<1>7. /\ IsSq(Unpack!Written(e)) /\ Unpack!Wrote(e) \in Nat /\ IsSq(before)
      /\ (e.mode \in OnModes =>
            Unpack!Written(e) = e.buf /\ Unpack!Wrote(e) = Len(e.buf) /\ Holds(back, before))
  <2>1. e.inside
    BY <1>1 DEF e
  <2>2. SoFar(e) = before /\ IsSq(before)
    BY <1>1, <2>1, BeforeIs
  <2>3. e.mode \in OnModes => Holds(e, before)
    BY <1>1, <2>2 DEF StreamRight
  <2> HIDE DEF before
  <2>4. e.mode \in OnModes => Holds(back, before)
    BY <1>5, <2>3 DEF Holds
  <2>. QED
    BY <1>1, <2>1, <2>2, <2>4, WrittenIs
<1> HIDE DEF before
<1>8. CASE z' = upd
  <2> DEFINE b == Unpack!Written(e)
  <2> HIDE DEF b
  <2>1. IsSq(b)
    BY <1>7 DEF b
  <2>2. upd = Unpack!UpdateWindow(back, b)
    BY DEF b
  <2> HIDE DEF upd
  <2>3. Shaped(upd) /\ Rewinds(back, upd)
    BY <1>6, <2>1, <2>2, UpdateShapes
  <2>4. e.mode \in OnModes => Holds(upd, before \o e.buf)
    <3> HAVE e.mode \in OnModes
    <3>1. b = e.buf /\ Holds(back, before) /\ IsSq(before)
      BY <1>7 DEF b
    <3>2. Holds(upd, before \o b)
      BY <1>6, <2>1, <2>2, <3>1, UpdateHolds
    <3>. QED
      BY <3>1, <3>2
  <2>5. StreamRight(upd)
    BY <1>1, <1>6, <2>3, <2>4, LeftKeeps DEF before, e
  <2>. QED
    BY <1>8, <2>5
<1>9. CASE z' = none
  <2>1. m = "MEM"
    OBVIOUS
  <2> HIDE DEF m
  <2>2. DOMAIN none = ZFields /\ none.mode = m /\ \A x \in ZFields \ {"mode"} : none[x] = gone[x]
    BY <1>3 DEF ZFields
  <2> HIDE DEF none
  <2>3. /\ none.inside = no /\ none.have = zero /\ none.left = zero /\ none.out = zero
        /\ none.window = e.window /\ none.wnext = e.wnext /\ none.whave = e.whave
        /\ none.wsize = e.wsize
        /\ \A x \in ZFields \ {"inside", "have", "in", "left", "out", "flush", "mode"} : none[x] = e[x]
    BY <1>3, <2>2 DEF ZFields
  <2>4. Shaped(none)
    BY <1>1, <2>2, <2>3 DEF Shaped
  <2>5. StreamRight(none)
    <3>1. none.mode = "MEM" /\ none.have = 0 /\ none.left = 0 /\ none.out = 0
      BY <1>2, <2>1, <2>2, <2>3
    <3>2. none.inside = FALSE
      BY <1>2, <2>3
    <3>3. none.inside \in BOOLEAN
      BY <3>2
    <3>4. ~none.inside
      BY <3>2
    <3>. QED
      BY <1>1, <2>3, <2>4, <3>1, <3>3, <3>4, MemoryIs
  <2>. QED
    BY <1>9, <2>5
<1>10. CASE ~kept /\ z' = back
  <2>1. Rewinds(back, back)
    BY DEF Rewinds
  <2>2. e.mode \in OnModes => Holds(back, before \o e.buf)
    <3> HAVE e.mode \in OnModes
    <3>1. ~(Unpack!Wrote(e) > 0)
      BY <1>10 DEF OnModes
    <3>2. Len(e.buf) = 0 /\ IsSq(e.buf)
      BY <1>1, <1>7, <3>1 DEF StreamRight
    <3>3. e.buf = <<>>
      BY <3>2 DEF IsSq
    <3>4. before \o e.buf = before
      BY <1>7, <3>3, JoinEmpty
    <3>. QED
      BY <1>7, <3>4
  <2>3. StreamRight(back)
    BY <1>1, <1>6, <2>1, <2>2, LeftKeeps DEF before, e
  <2>. QED
    BY <1>10, <2>3
<1>11. z' = upd \/ z' = none \/ (~kept /\ z' = back)
  <2> HIDE DEF kept, upd, none
  <2>1. kept => z' \in {Unpack!UpdateWindow(back, Unpack!Written(e)), none}
    BY <1>1 DEF Unpack!Updates
  <2>2. ~kept => z' = back
    BY <1>1
  <2>. QED
    BY <2>1, <2>2 DEF upd
<1>. QED
  BY <1>8, <1>9, <1>10, <1>11

\* A new call: what the last one put out is text of earlier calls now.
LEMMA InflateKeeps ==
    ASSUME StreamInv, NEW h \in 0 .. MaxIn, NEW r \in 0 .. MaxRoom, NEW fl,
           Unpack!Inflate(h, r, fl)
    PROVE  StreamRight(z')
<1> DEFINE e == z
           yes == TRUE
           u == e.past \o e.buf
           none == <<>>
           ok == "ok"
           m == IF e.mode = "TYPE" THEN "TYPEDO" ELSE e.mode
           f == [e EXCEPT !.inside = yes, !.past = u, !.buf = none, !.ret = ok, !.have = h, !.in = h,
                          !.left = r, !.out = r, !.flush = fl, !.mode = m]
           D == IF e.havedict THEN e.stream.dict ELSE <<>>
           P == e.past
           B == e.buf
<1>1. /\ ~e.inside /\ e.mode # "MEM" /\ h <= Len(e.stream.units) - e.at + 1 /\ z' = f
      /\ StreamRight(e) /\ Shaped(e)
  BY DEF Unpack!Inflate, StreamInv, StreamRight
<1>2. yes = TRUE /\ none = <<>> /\ h \in Nat /\ r \in Nat
  OBVIOUS
<1>3. IsSq(P) /\ IsSq(B) /\ IsSq(D) /\ IsSq(none) /\ Len(none) = 0 /\ e.stream \in Streams
  BY <1>1, StreamIs, NoneIs DEF StreamRight
<1>4. m = e.mode \/ (m = "TYPEDO" /\ e.mode = "TYPE")
  OBVIOUS
<1> HIDE DEF e, yes, u, none, ok, m
<1>5. /\ DOMAIN f = ZFields /\ f.inside = yes /\ f.past = u /\ f.buf = none /\ f.have = h
      /\ f.left = r /\ f.out = r /\ f.mode = m
      /\ \A x \in ZFields \ {"inside", "past", "buf", "ret", "have", "in", "left", "out", "flush", "mode"} :
           f[x] = e[x]
  BY <1>1 DEF Shaped, ZFields
<1> HIDE DEF f
<1>6. /\ f.stream = e.stream /\ f.at = e.at /\ f.length = e.length /\ f.offset = e.offset
      /\ f.havedict = e.havedict /\ f.window = e.window /\ f.wnext = e.wnext
      /\ f.whave = e.whave /\ f.wsize = e.wsize
  BY <1>5 DEF ZFields
<1>7. Shaped(f)
  BY <1>1, <1>5, <1>6 DEF Shaped
<1>8. f.at + f.have <= Len(f.stream.units) + 1 /\ f.at \in Nat \ {0}
  <2> DEFINE a == e.at
             k == Len(e.stream.units)
  <2>1. a \in Nat \ {0} /\ k \in Nat /\ h <= k - a + 1
    BY <1>1, <1>3, StreamIs DEF StreamRight
  <2> HIDE DEF a, k
  <2>2. a + h <= k + 1
    BY <1>2, <2>1
  <2>. QED
    BY <1>5, <1>6, <2>1, <2>2 DEF a, k
<1>9. /\ f.left <= f.out /\ f.out - f.left = Len(f.buf) /\ f.out - f.left <= Len(f.buf)
      /\ f.have \in Nat /\ f.left \in Nat /\ f.out \in Nat
  <2>1. r <= r /\ r - r = 0
    OBVIOUS
  <2>. QED
    BY <1>2, <1>3, <1>5, <2>1
<1>10. f.inside \in BOOLEAN /\ f.inside
  BY <1>2, <1>5
<1>11. IsSq(f.past) /\ IsSq(f.buf)
  <2> HIDE DEF P, B
  <2>1. IsSq(P \o B)
    BY <1>3, Joined
  <2>. QED
    BY <1>3, <1>5, <2>1 DEF u, P, B
<1>12. Starts(f) => ~f.havedict /\ f.past = <<>> /\ f.buf = <<>>
  <2> HAVE Starts(f)
  <2>1. Starts(e)
    BY <1>4, <1>5, <1>6 DEF Starts
  <2>2. ~e.havedict /\ e.past = <<>> /\ e.buf = <<>>
    BY <1>1, <2>1 DEF StreamRight
  <2>3. u = <<>> \o <<>>
    BY <2>2 DEF u
  <2>4. u = <<>>
    BY <2>3, NoneIs, JoinEmpty
  <2>. QED
    BY <1>2, <1>5, <1>6, <2>2, <2>4
<1>13. f.mode \in OnModes => Holds(f, SoFar(f))
  <2> HAVE f.mode \in OnModes
  <2>1. e.mode \in OnModes
    BY <1>4, <1>5 DEF OnModes
  <2>2. Holds(e, SoFar(e))
    BY <1>1, <2>1 DEF StreamRight
  <2>3. SoFar(e) = (D \o P) \o B
    BY <1>1 DEF SoFar, Before
  <2>4. SoFar(f) = (D \o u) \o <<>>
    BY <1>5, <1>6, <1>10 DEF SoFar, Before
  <2>5. u = P \o B
    BY DEF u
  <2> HIDE DEF D, P, B
  <2>6. IsSq(u)
    BY <1>3, <2>5, Joined
  <2>7. IsSq(D \o u)
    BY <1>3, <2>6, Joined
  <2>8. SoFar(f) = D \o u
    BY <2>4, <2>7, JoinEmpty
  <2>9. (D \o P) \o B = D \o (P \o B)
    BY <1>3, JoinAssoc
  <2>10. SoFar(f) = SoFar(e)
    BY <2>3, <2>5, <2>8, <2>9
  <2>. QED
    BY <1>6, <2>2, <2>10 DEF Holds
<1>14. f.stream \in Streams /\ f.length \in Nat /\ f.offset \in Nat /\ f.havedict \in BOOLEAN
  BY <1>1, <1>6 DEF StreamRight
<1>15. StreamRight(f)
  BY <1>7, <1>8, <1>9, <1>10, <1>11, <1>12, <1>13, <1>14 DEF StreamRight
<1>. QED
  BY <1>1, <1>15

\* The call that asks for a dictionary has put nothing out.
LEMMA NeedDictKeeps == ASSUME StreamInv, Unpack!NeedDict PROVE StreamRight(z')
<1> DEFINE e == z
           no == FALSE
           zero == 0
           flush == "no"
           dict == "dict"
           f == [e EXCEPT !.inside = no, !.have = zero, !.in = zero, !.left = zero, !.out = zero,
                          !.flush = flush, !.ret = dict]
<1>1. /\ e.inside /\ e.mode = "DICT" /\ ~e.havedict /\ z' = f /\ StreamRight(e) /\ Shaped(e)
  BY DEF Unpack!NeedDict, StreamInv, StreamRight
<1>2. no = FALSE /\ zero = 0
  OBVIOUS
<1> HIDE DEF e, no, zero, flush, dict
<1>3. /\ DOMAIN f = ZFields /\ f.inside = no /\ f.have = zero /\ f.left = zero /\ f.out = zero
      /\ \A x \in ZFields \ {"inside", "have", "in", "left", "out", "flush", "ret"} : f[x] = e[x]
  BY <1>1 DEF Shaped, ZFields
<1> HIDE DEF f
<1>4. /\ f.window = e.window /\ f.wnext = e.wnext /\ f.whave = e.whave /\ f.wsize = e.wsize
      /\ \A x \in ZFields \ {"inside", "have", "in", "left", "out", "flush", "check", "ret", "stuck"} :
           f[x] = e[x]
  BY <1>3 DEF ZFields
<1>5. Left(e, f) /\ Shaped(f) /\ Rewinds(f, f)
  BY <1>1, <1>2, <1>3, <1>4 DEF Left, Shaped, Rewinds
<1>6. Holds(f, Before(e) \o e.buf)
  <2>1. Starts(e) /\ e.mode \in OnModes
    BY <1>1 DEF Starts, OnModes
  <2>2. e.buf = <<>> /\ IsSq(Before(e)) /\ SoFar(e) = Before(e) /\ Holds(e, SoFar(e))
    BY <1>1, <2>1, BeforeIs DEF StreamRight
  <2>3. Before(e) \o e.buf = Before(e)
    BY <2>2, JoinEmpty
  <2>4. Holds(e, Before(e) \o e.buf)
    BY <2>2, <2>3
  <2>. QED
    BY <1>4, <2>4 DEF Holds
<1>7. StreamRight(f)
  BY <1>1, <1>5, <1>6, LeftKeeps
<1>. QED
  BY <1>1, <1>7

LEMMA ResetIs ==
    ASSUME NEW s \in Streams, NEW f, DOMAIN f = ZFields, DOMAIN f.window = 0 .. WSize - 1,
           f.stream = s, f.at = 1, f.mode = "HEAD", f.havedict = FALSE, f.length = 0, f.offset = 0,
           f.wsize = 0, f.whave = 0, f.wnext = 0, f.past = <<>>, f.buf = <<>>, f.inside = FALSE,
           f.have = 0, f.left = 0, f.out = 0
    PROVE  StreamRight(f)
<1>1. ~f.inside /\ ~f.havedict /\ f.inside \in BOOLEAN /\ f.havedict \in BOOLEAN
  OBVIOUS
<1>2. Turned(f.wnext, f.whave)
  BY WSizeIs DEF Turned
<1>3. Shaped(f)
  BY <1>2 DEF Shaped
<1>4. IsSq(f.past) /\ IsSq(f.buf) /\ Len(f.buf) = 0 /\ Len(s.units) \in Nat
  BY NoneIs, StreamIs
<1>5. f.at + f.have <= Len(f.stream.units) + 1
  BY <1>4
<1>6. Holds(f, SoFar(f))
  <2>1. SoFar(f) = (<<>> \o <<>>) \o <<>>
    BY <1>1 DEF SoFar, Before
  <2>2. SoFar(f) = <<>>
    BY <2>1, NoneIs, JoinEmpty
  <2>3. f.whave = IF 0 < WSize THEN 0 ELSE WSize
    BY WSizeIs
  <2>4. \A j \in 1 .. f.whave : FALSE
    OBVIOUS
  <2>5. Len(SoFar(f)) = 0
    BY <2>2, NoneIs
  <2>6. Ends(f.window, f.wnext, f.whave, SoFar(f), Len(SoFar(f)))
    BY <2>3, <2>4, <2>5 DEF Ends
  <2>. QED
    BY <2>6 DEF Holds
<1>7. f.left \in Nat /\ f.out \in Nat /\ f.have \in Nat /\ f.left <= f.out /\ f.out - f.left <= Len(f.buf)
  BY <1>4
<1>. QED
  BY <1>1, <1>3, <1>4, <1>5, <1>6, <1>7 DEF StreamRight

LEMMA StreamInitIs == ASSUME Unpack!Init PROVE StreamInv
<1>1. PICK s \in Streams : z = Unpack!Reset(s)
  BY DEF Unpack!Init
<1>2. /\ DOMAIN z = ZFields /\ DOMAIN z.window = 0 .. WSize - 1
      /\ z.stream = s /\ z.at = 1 /\ z.mode = "HEAD" /\ z.havedict = FALSE /\ z.length = 0
      /\ z.offset = 0 /\ z.wsize = 0 /\ z.whave = 0 /\ z.wnext = 0 /\ z.past = <<>> /\ z.buf = <<>>
      /\ z.inside = FALSE /\ z.have = 0 /\ z.left = 0 /\ z.out = 0
  BY <1>1 DEF Unpack!Reset, ZFields
<1>. QED
  BY <1>2, ResetIs DEF StreamInv

LEMMA InflateResetKeeps == ASSUME StreamInv, Unpack!InflateReset PROVE StreamRight(z')
<1> DEFINE s == z.stream
           w == z.window
           a == z.allocated
           n == z.resets + 1
           g == Unpack!Reset(s)
           f == [g EXCEPT !.window = w, !.allocated = a, !.resets = n]
<1>1. z' = f /\ s \in Streams /\ DOMAIN w = 0 .. WSize - 1
  BY DEF Unpack!InflateReset, StreamInv, StreamRight, Shaped
<1>2. /\ DOMAIN g = ZFields
      /\ g.stream = s /\ g.at = 1 /\ g.mode = "HEAD" /\ g.havedict = FALSE /\ g.length = 0
      /\ g.offset = 0 /\ g.wsize = 0 /\ g.whave = 0 /\ g.wnext = 0 /\ g.past = <<>> /\ g.buf = <<>>
      /\ g.inside = FALSE /\ g.have = 0 /\ g.left = 0 /\ g.out = 0
  BY DEF Unpack!Reset, ZFields
<1> HIDE DEF s, w, a, n, g
<1>3. /\ DOMAIN f = ZFields /\ f.window = w
      /\ \A x \in ZFields \ {"window", "allocated", "resets"} : f[x] = g[x]
  BY <1>2 DEF ZFields
<1> HIDE DEF f
<1>4. /\ f.stream = g.stream /\ f.at = g.at /\ f.mode = g.mode /\ f.havedict = g.havedict
      /\ f.length = g.length /\ f.offset = g.offset /\ f.wsize = g.wsize /\ f.whave = g.whave
      /\ f.wnext = g.wnext /\ f.past = g.past /\ f.buf = g.buf /\ f.inside = g.inside
      /\ f.have = g.have /\ f.left = g.left /\ f.out = g.out
  BY <1>3 DEF ZFields
<1>5. StreamRight(f)
  BY <1>1, <1>2, <1>3, <1>4, ResetIs
<1>. QED
  BY <1>1, <1>5

LEMMA SetDictionaryKeeps == ASSUME StreamInv, Unpack!SetDictionary PROVE StreamRight(z')
<1> DEFINE e == z
           D == e.stream.dict
           yes == TRUE
           m == "MEM"
           g == [e EXCEPT !.havedict = yes]
           none == [e EXCEPT !.mode = m]
           upd == Unpack!UpdateWindow(g, D)
<1>1. /\ ~e.inside /\ e.mode = "DICT" /\ ~e.havedict /\ StreamRight(e) /\ Shaped(e)
      /\ z' \in Unpack!Updates(g, D, none)
  BY DEF Unpack!SetDictionary, StreamInv, StreamRight
<1>2. yes = TRUE /\ m = "MEM"
  OBVIOUS
<1>3. IsSq(D) /\ e.past = <<>> /\ e.buf = <<>> /\ Holds(e, SoFar(e))
  <2>1. Starts(e) /\ e.mode \in OnModes
    BY <1>1 DEF Starts, OnModes
  <2>. QED
    BY <1>1, <2>1, StreamIs DEF StreamRight
<1> HIDE DEF e, yes, m, D
<1>4. /\ DOMAIN g = ZFields /\ g.havedict = yes /\ \A x \in ZFields \ {"havedict"} : g[x] = e[x]
  BY <1>1 DEF Shaped, ZFields
<1>5. /\ DOMAIN none = ZFields /\ none.mode = m /\ \A x \in ZFields \ {"mode"} : none[x] = e[x]
  BY <1>1 DEF Shaped, ZFields
<1> HIDE DEF g, none, upd
<1>6. z' = upd \/ z' = none
  BY <1>1 DEF Unpack!Updates, upd
<1>7. CASE z' = none
  <2>1. /\ none.window = e.window /\ none.wnext = e.wnext /\ none.whave = e.whave
        /\ none.wsize = e.wsize /\ none.inside = e.inside /\ none.have = e.have
        /\ none.left = e.left /\ none.out = e.out
        /\ \A x \in ZFields \ {"inside", "have", "in", "left", "out", "flush", "mode"} : none[x] = e[x]
    BY <1>5 DEF ZFields
  <2>2. Shaped(none) /\ ~none.inside /\ none.inside \in BOOLEAN
    BY <1>1, <1>5, <2>1 DEF Shaped, StreamRight
  <2>3. StreamRight(none)
    BY <1>1, <1>2, <1>5, <2>1, <2>2, MemoryIs
  <2>. QED
    BY <1>7, <2>3
<1>8. CASE z' = upd
  <2>1. /\ g.stream = e.stream /\ g.at = e.at /\ g.mode = e.mode /\ g.past = e.past
        /\ g.buf = e.buf /\ g.length = e.length /\ g.offset = e.offset /\ g.inside = e.inside
        /\ g.have = e.have /\ g.left = e.left /\ g.out = e.out /\ g.window = e.window
        /\ g.wnext = e.wnext /\ g.whave = e.whave /\ g.wsize = e.wsize
    BY <1>4 DEF ZFields
  <2>2. Shaped(g)
    BY <1>1, <1>4, <2>1 DEF Shaped
  <2> DEFINE nil == <<>>
  <2>3. IsSq(nil) /\ Len(nil) = 0 /\ nil \o D = D
    BY <1>3, NoneIs, JoinEmpty
  <2>4. Holds(g, nil)
    <3>1. SoFar(e) = (<<>> \o <<>>) \o <<>>
      BY <1>1, <1>3 DEF SoFar, Before
    <3>2. SoFar(e) = nil
      BY <3>1, NoneIs, JoinEmpty
    <3> HIDE DEF nil
    <3>. QED
      BY <1>3, <2>1, <3>2 DEF Holds
  <2> HIDE DEF nil
  <2>5. Shaped(upd) /\ Rewinds(g, upd) /\ Holds(upd, nil \o D)
    BY <1>3, <2>2, <2>3, <2>4, UpdateHolds DEF upd
  <2>6. /\ upd.stream = g.stream /\ upd.at = g.at /\ upd.mode = g.mode /\ upd.past = g.past
        /\ upd.buf = g.buf /\ upd.length = g.length /\ upd.offset = g.offset
        /\ upd.inside = g.inside /\ upd.have = g.have /\ upd.left = g.left /\ upd.out = g.out
        /\ upd.havedict = g.havedict
    BY <2>5 DEF Rewinds, ZFields, WindowFields
  <2>7. upd.havedict = TRUE /\ upd.havedict \in BOOLEAN /\ ~Starts(upd)
    <3>1. upd.havedict = TRUE
      BY <1>2, <1>4, <2>6
    <3>2. upd.mode = "DICT"
      BY <1>1, <2>1, <2>6
    <3>. QED
      BY <3>1, <3>2 DEF Starts
  <2>8. Holds(upd, SoFar(upd))
    <3>1. upd.stream.dict = D /\ upd.past = <<>> /\ upd.buf = <<>> /\ ~upd.inside
      BY <1>1, <1>3, <2>1, <2>6 DEF D
    <3>2. SoFar(upd) = (D \o <<>>) \o <<>>
      BY <2>7, <3>1 DEF SoFar, Before
    <3>3. SoFar(upd) = D
      BY <1>3, <3>2, JoinEmpty
    <3>. QED
      BY <2>3, <2>5, <3>3
  <2>9. /\ upd.stream \in Streams /\ upd.at \in Nat \ {0} /\ upd.have \in Nat
        /\ upd.at + upd.have <= Len(upd.stream.units) + 1
        /\ upd.left \in Nat /\ upd.out \in Nat /\ upd.left <= upd.out
        /\ upd.out - upd.left <= Len(upd.buf)
        /\ IsSq(upd.past) /\ IsSq(upd.buf) /\ upd.length \in Nat /\ upd.offset \in Nat
        /\ upd.inside \in BOOLEAN /\ ~upd.inside
    BY <1>1, <2>1, <2>6 DEF StreamRight
  <2>10. StreamRight(upd)
    BY <2>5, <2>7, <2>8, <2>9 DEF StreamRight
  <2>. QED
    BY <1>8, <2>10
<1>. QED
  BY <1>6, <1>7, <1>8

LEMMA StreamKeeps == ASSUME StreamInv, Unpack!Next \/ UNCHANGED z PROVE StreamInv'
<1>1. StreamRight(z')
  <2>1. ASSUME NEW h \in 0 .. MaxIn, NEW r \in 0 .. MaxRoom, NEW fl \in {"no", "block", "finish"},
               Unpack!Inflate(h, r, fl)
        PROVE  StreamRight(z')
    BY <2>1, InflateKeeps
  <2>2. CASE Unpack!InflateReset
    BY <2>2, InflateResetKeeps
  <2>3. CASE Unpack!SetDictionary
    BY <2>3, SetDictionaryKeeps
  <2>4. CASE Unpack!Return
    BY <2>4, ReturnKeeps
  <2>5. CASE Unpack!NeedDict
    BY <2>5, NeedDictKeeps
  <2>6. CASE Unpack!Header
    BY <2>6, HeaderKeeps
  <2>7. CASE Unpack!Dict
    BY <2>7, DictKeeps
  <2>8. CASE Unpack!Type
    BY <2>8, TypeKeeps
  <2>9. CASE Unpack!TypeDo
    BY <2>9, TypeDoKeeps
  <2>10. CASE Unpack!Stored
    BY <2>10, StoredKeeps
  <2>11. CASE Unpack!Copy
    BY <2>11, CopyKeeps
  <2>12. CASE Unpack!Fast
    BY <2>12, FastKeeps
  <2>13. CASE Unpack!Len_
    BY <2>13, LenKeeps
  <2>14. CASE Unpack!Dist
    BY <2>14, DistKeeps
  <2>15. CASE Unpack!Lit
    BY <2>15, LitKeeps
  <2>16. CASE Unpack!Match
    BY <2>16, MatchKeeps
  <2>17. CASE Unpack!Check
    BY <2>17, CheckKeeps
  <2>18. CASE UNCHANGED z
    BY <2>18 DEF StreamInv
  <2>. QED
    BY <2>1, <2>2, <2>3, <2>4, <2>5, <2>6, <2>7, <2>8, <2>9, <2>10, <2>11, <2>12, <2>13, <2>14,
       <2>15, <2>16, <2>17, <2>18 DEF Unpack!Next
<1>. QED
  BY <1>1 DEF StreamInv, StreamRight, Shaped, Starts, Turned, Holds, Ends, SoFar, Before,
              Unpack!Place

\* What the window holds, from its oldest byte on, is the end of the text.
LEMMA WindowIs ==
    ASSUME NEW e, Shaped(e), NEW t, IsSq(t), Holds(e, t)
    PROVE  e.whave = Unpack!Min({WSize, Len(t)}) /\ Unpack!Window(e) = Unpack!EndOf(t, e.whave)
<1> DEFINE n == e.whave
           l == Len(t)
           least == Unpack!Min({WSize, l})
           w == [j \in 1 .. n |-> e.window[Unpack!Place(e.wnext, n, j)]]
<1>1. l \in Nat /\ WSize \in Nat /\ n = (IF l < WSize THEN l ELSE WSize)
      /\ \A j \in 1 .. n : e.window[Unpack!Place(e.wnext, n, j)] = t[l - n + j]
  BY Joined, WSizeIs DEF Holds, Ends
<1>2. n \in Nat /\ n <= l
  BY <1>1
<1>3. n = least
  <2> HIDE DEF l
  <2>1. WSize \in Int /\ l \in Int
    BY <1>1
  <2>2. least \in {WSize, l} /\ least <= WSize /\ least <= l
    BY <2>1, LeastOfTwo, Zenon
  <2> HIDE DEF least, n
  <2>. QED
    BY <1>1, <2>2
<1>4. w = [j \in 1 .. n |-> t[l - n + j]]
  BY <1>1
<1>5. Unpack!EndOf(t, n) = [j \in 1 .. n |-> t[l - n + j]]
  <2> DEFINE k == n
  <2> HIDE DEF k
  <2>1. k \in Nat /\ k <= Len(t)
    BY <1>2 DEF k
  <2>2. SubSeq(t, Len(t) - k + 1, Len(t)) = [j \in 1 .. k |-> t[Len(t) - k + j]]
    BY <2>1, EndIs
  <2>. QED
    BY <2>2 DEF Unpack!EndOf, k
<1>6. Unpack!Window(e) = w
  BY DEF Unpack!Window
<1>. QED
  BY <1>3, <1>4, <1>5, <1>6

LEMMA StreamTypes == ASSUME StreamInv PROVE Unpack!TypeOK
<1>1. /\ z.stream \in Streams /\ z.wnext \in 0 .. WSize - 1 /\ z.whave \in 0 .. WSize
      /\ z.wsize \in {0, WSize} /\ (z.whave < WSize => z.whave = z.wnext)
      /\ z.have \in Nat /\ z.left \in Nat
  BY DEF StreamInv, StreamRight, Shaped, Turned
<1>2. z.at \in 1 .. Len(z.stream.units) + 1
  <2> DEFINE a == z.at
             h == z.have
             k == Len(z.stream.units)
  <2>1. a \in Nat \ {0} /\ h \in Nat /\ a + h <= k + 1
    BY DEF StreamInv, StreamRight
  <2>2. k \in Nat
    BY <1>1, StreamIs
  <2> HIDE DEF a, h, k
  <2>3. a \in 1 .. k + 1
    BY <2>1, <2>2
  <2>. QED
    BY <2>3 DEF a, k
<1>3. z.have >= 0 /\ z.left >= 0
  BY <1>1
<1>4. Len(z.buf) >= Unpack!Wrote(z)
  <2>1. IsSq(z.buf) /\ z.out - z.left <= Len(z.buf) /\ z.out \in Nat /\ z.left \in Nat
    BY DEF StreamInv, StreamRight
  <2>2. Len(z.buf) \in Nat
    BY <2>1, Joined
  <2> DEFINE k == Len(z.buf)
             n == z.out - z.left
  <2>3. k \in Nat /\ n \in Int /\ n <= k
    BY <2>1, <2>2
  <2> HIDE DEF k, n
  <2>4. k >= n
    BY <2>3
  <2>. QED
    BY <2>4 DEF Unpack!Wrote, k, n
<1>5. ASSUME z.mode \in {"TYPE", "TYPEDO", "COPY", "LEN", "DIST", "LIT", "MATCH"}
      PROVE  LET t == (IF z.havedict THEN z.stream.dict ELSE <<>>)
                        \o z.past \o (IF z.inside THEN <<>> ELSE z.buf)
             IN  z.whave = Unpack!Min({WSize, Len(t)}) /\ Unpack!Window(z) = Unpack!EndOf(t, z.whave)
  <2>1. z.mode \in OnModes
    BY <1>5 DEF OnModes
  <2>2. Shaped(z) /\ Holds(z, SoFar(z)) /\ IsSq(SoFar(z))
    BY <2>1, BeforeIs DEF StreamInv, StreamRight
  <2> DEFINE t == SoFar(z)
  <2> HIDE DEF t
  <2>3. z.whave = Unpack!Min({WSize, Len(t)}) /\ Unpack!Window(z) = Unpack!EndOf(t, z.whave)
    BY <2>2, WindowIs DEF t
  <2>. QED
    BY <2>3 DEF t, SoFar, Before
<1>. QED
  BY <1>1, <1>2, <1>3, <1>4, <1>5 DEF Unpack!TypeOK
-----------------------------------------------------------------------------
(***************************************************************************)
(* What the reference decoder makes of a stream, unit by unit.             *)
(***************************************************************************)
LEMMA LeastElement ==
    ASSUME NEW S \in SUBSET Nat, S # {}
    PROVE  \E m \in S : \A k \in S : m <= k
<1>1. \E m \in S : \A k \in S : ~ (<<k, m>> \in OpToRel(<, Nat))
  BY NatLessThanWellFounded, WFMin
<1>2. \A k, m \in S : ~ (<<k, m>> \in OpToRel(<, Nat)) => m <= k
  BY DEF OpToRel
<1>. QED
  BY <1>1, <1>2

LEMMA Upwards ==
    ASSUME NEW n \in Nat, NEW P, 0 \in P, \A k \in 1 .. n : k - 1 \in P => k \in P
    PROVE  \A k \in 0 .. n : k \in P
<1> DEFINE S == {k \in 0 .. n : k \notin P}
<1>1. S \in SUBSET Nat
  OBVIOUS
<1> SUFFICES ASSUME S # {} PROVE FALSE
  OBVIOUS
<1>2. PICK k \in S : \A j \in S : k <= j
  <2> HIDE DEF S
  <2>. QED
    BY <1>1, LeastElement
<1>3. k # 0
  BY <1>2
<1>4. k \in 1 .. n /\ k - 1 \in 0 .. n /\ k - 1 \notin S
  BY <1>2, <1>3
<1>. QED
  BY <1>2, <1>4

Stage(s, i) == Unpack!Decoded(s)[i]
Outset == [next |-> "head", dict |-> <<>>, text |-> <<>>, n |-> 0, last |-> FALSE]

\* A function that decodes the first n units.
Stages(f, s, n) ==
    f = [i \in 0 .. n |-> IF i = 0 THEN Outset ELSE Unpack!Decode(s, f[i - 1], s.units[i])]

LEMMA HasStages == ASSUME NEW n \in Nat, NEW s PROVE \E f : Stages(f, s, n)
<1> DEFINE P == {k \in 0 .. n : \E f : Stages(f, s, k)}
<1>1. 0 \in P
  <2>1. Stages([i \in 0 .. 0 |-> Outset], s, 0)
    BY DEF Stages
  <2>. QED
    BY <2>1
<1>2. ASSUME NEW k \in 1 .. n, k - 1 \in P PROVE k \in P
  <2>1. PICK f : Stages(f, s, k - 1)
    BY <1>2
  <2> DEFINE e == [i \in 0 .. k |-> IF i < k THEN f[i] ELSE Unpack!Decode(s, f[k - 1], s.units[k])]
  <2>2. ASSUME NEW i \in 0 .. k
        PROVE  e[i] = IF i = 0 THEN Outset ELSE Unpack!Decode(s, e[i - 1], s.units[i])
    <3>1. i # 0 => i - 1 \in 0 .. k /\ i - 1 < k
      OBVIOUS
    <3>2. i < k => f[i] = IF i = 0 THEN Outset ELSE Unpack!Decode(s, f[i - 1], s.units[i])
      <4>1. f = [j \in 0 .. k - 1 |-> IF j = 0 THEN Outset ELSE Unpack!Decode(s, f[j - 1], s.units[j])]
        BY <2>1 DEF Stages
      <4>2. i < k => i \in 0 .. k - 1
        OBVIOUS
      <4>. QED
        BY <4>1, <4>2
    <3>3. k # 0
      OBVIOUS
    <3>. QED
      BY <3>1, <3>2, <3>3
  <2>3. e = [i \in 0 .. k |-> e[i]]
    OBVIOUS
  <2> HIDE DEF e
  <2>4. Stages(e, s, k)
    BY <2>2, <2>3 DEF Stages
  <2>. QED
    BY <2>4
<1> HIDE DEF P
<1>3. \A k \in 0 .. n : k \in P
  BY <1>1, <1>2, Upwards
<1>. QED
  BY <1>3 DEF P

LEMMA StagesAre ==
    ASSUME NEW s, Len(s.units) \in Nat
    PROVE  /\ Stage(s, 0) = Outset
           /\ \A i \in 1 .. Len(s.units) :
                Stage(s, i) = Unpack!Decode(s, Stage(s, i - 1), s.units[i])
<1> DEFINE n == Len(s.units)
           f == Unpack!Decoded(s)
<1>1. \E g : Stages(g, s, n)
  BY HasStages
<1>2. f = CHOOSE g : Stages(g, s, n)
  BY DEF Unpack!Decoded, Stages, Outset
<1>3. Stages(f, s, n)
  BY <1>1, <1>2
<1> HIDE DEF f
<1>4. \A i \in 0 .. n : f[i] = IF i = 0 THEN Outset ELSE Unpack!Decode(s, f[i - 1], s.units[i])
  BY <1>3 DEF Stages
<1>5. \A i \in 1 .. n : i \in 0 .. n /\ i # 0
  OBVIOUS
<1>. QED
  BY <1>4, <1>5 DEF Stage, f

\* The fields of a stage, and what a unit does to them.
StageFields == {"next", "dict", "text", "n", "last"}
Changes(r, f, X) == DOMAIN f = StageFields /\ \A x \in StageFields \ X : f[x] = r[x]

LEMMA DecodeHead ==
    ASSUME NEW s, NEW r, DOMAIN r = StageFields, NEW u, r.next = "head", u[1] = "head"
    PROVE  LET f == Unpack!Decode(s, r, u)
           IN  /\ Changes(r, f, {"next", "dict"})
               /\ f.next = "block"
               /\ f.dict = (IF u[2] THEN s.dict ELSE <<>>)
<1> DEFINE f == Unpack!Decode(s, r, u)
           v1 == "block"
           v2 == IF u[2] THEN s.dict ELSE <<>>
<1>1. f = [r EXCEPT !.next = v1, !.dict = v2]
  BY DEF Unpack!Decode
<1> HIDE DEF f, v1, v2
<1>2. Changes(r, f, {"next", "dict"}) /\ f.next = v1 /\ f.dict = v2
  BY <1>1 DEF Changes, StageFields
<1>. QED
  BY <1>2 DEF f, v1, v2

LEMMA DecodeBlock ==
    ASSUME NEW s, NEW r, DOMAIN r = StageFields, NEW u, r.next = "block",
           u[1] \in {"stored", "codes"}
    PROVE  LET f == Unpack!Decode(s, r, u)
           IN  /\ Changes(r, f, {"next", "last"})
               /\ f.next = (IF u[1] = "stored" THEN "size" ELSE "code")
               /\ f.last = u[2]
<1> DEFINE f == Unpack!Decode(s, r, u)
           v1 == IF u[1] = "stored" THEN "size" ELSE "code"
           v2 == u[2]
<1>1. f = [r EXCEPT !.next = v1, !.last = v2]
  BY DEF Unpack!Decode
<1> HIDE DEF f, v1, v2
<1>2. Changes(r, f, {"next", "last"}) /\ f.next = v1 /\ f.last = v2
  BY <1>1 DEF Changes, StageFields
<1>. QED
  BY <1>2 DEF f, v1, v2

LEMMA DecodeSize ==
    ASSUME NEW s, NEW r, DOMAIN r = StageFields, NEW u, r.next = "size", u[1] = "size"
    PROVE  LET f == Unpack!Decode(s, r, u)
           IN  /\ Changes(r, f, {"next", "n"})
               /\ f.next = (IF u[2] = 0 THEN Unpack!After(r) ELSE "byte")
               /\ f.n = u[2]
<1> DEFINE f == Unpack!Decode(s, r, u)
           v1 == IF u[2] = 0 THEN Unpack!After(r) ELSE "byte"
           v2 == u[2]
<1>1. f = [r EXCEPT !.next = v1, !.n = v2]
  BY DEF Unpack!Decode
<1> HIDE DEF f, v1, v2
<1>2. Changes(r, f, {"next", "n"}) /\ f.next = v1 /\ f.n = v2
  BY <1>1 DEF Changes, StageFields
<1>. QED
  BY <1>2 DEF f, v1, v2

LEMMA DecodeByte ==
    ASSUME NEW s, NEW r, DOMAIN r = StageFields, NEW u, r.next = "byte"
    PROVE  LET f == Unpack!Decode(s, r, u)
           IN  /\ Changes(r, f, {"next", "n", "text"})
               /\ f.next = (IF r.n = 1 THEN Unpack!After(r) ELSE "byte")
               /\ f.n = r.n - 1
               /\ f.text = Append(r.text, u[2])
<1> DEFINE f == Unpack!Decode(s, r, u)
           v1 == IF r.n = 1 THEN Unpack!After(r) ELSE "byte"
           v2 == r.n - 1
           v3 == Append(r.text, u[2])
<1>1. f = [r EXCEPT !.next = v1, !.n = v2, !.text = v3]
  BY DEF Unpack!Decode
<1> HIDE DEF f, v1, v2, v3
<1>2. Changes(r, f, {"next", "n", "text"}) /\ f.next = v1 /\ f.n = v2 /\ f.text = v3
  BY <1>1 DEF Changes, StageFields
<1>. QED
  BY <1>2 DEF f, v1, v2, v3

LEMMA DecodeLit ==
    ASSUME NEW s, NEW r, DOMAIN r = StageFields, NEW u, r.next = "code", u[1] = "lit"
    PROVE  LET f == Unpack!Decode(s, r, u)
           IN  /\ Changes(r, f, {"text"})
               /\ f.text = Append(r.text, u[2])
<1> DEFINE f == Unpack!Decode(s, r, u)
           v1 == Append(r.text, u[2])
<1>1. f = [r EXCEPT !.text = v1]
  BY DEF Unpack!Decode
<1> HIDE DEF f, v1
<1>2. Changes(r, f, {"text"}) /\ f.text = v1
  BY <1>1 DEF Changes, StageFields
<1>. QED
  BY <1>2 DEF f, v1

LEMMA DecodeLength ==
    ASSUME NEW s, NEW r, DOMAIN r = StageFields, NEW u, r.next = "code", u[1] = "length"
    PROVE  LET f == Unpack!Decode(s, r, u)
           IN  /\ Changes(r, f, {"next", "n"})
               /\ f.next = "distance"
               /\ f.n = u[2]
<1> DEFINE f == Unpack!Decode(s, r, u)
           v1 == "distance"
           v2 == u[2]
<1>1. f = [r EXCEPT !.next = v1, !.n = v2]
  BY DEF Unpack!Decode
<1> HIDE DEF f, v1, v2
<1>2. Changes(r, f, {"next", "n"}) /\ f.next = v1 /\ f.n = v2
  BY <1>1 DEF Changes, StageFields
<1>. QED
  BY <1>2 DEF f, v1, v2

LEMMA DecodeEnd ==
    ASSUME NEW s, NEW r, DOMAIN r = StageFields, NEW u, r.next = "code", u[1] = "end"
    PROVE  LET f == Unpack!Decode(s, r, u)
           IN  /\ Changes(r, f, {"next"})
               /\ f.next = Unpack!After(r)
<1> DEFINE f == Unpack!Decode(s, r, u)
           v1 == Unpack!After(r)
<1>1. f = [r EXCEPT !.next = v1]
  BY DEF Unpack!Decode
<1> HIDE DEF f, v1
<1>2. Changes(r, f, {"next"}) /\ f.next = v1
  BY <1>1 DEF Changes, StageFields
<1>. QED
  BY <1>2 DEF f, v1

LEMMA DecodeMatch ==
    ASSUME NEW s, NEW r, DOMAIN r = StageFields, NEW u, r.next = "distance", u[1] = "distance",
           u[2] <= Len(r.dict \o r.text)
    PROVE  LET f == Unpack!Decode(s, r, u)
           IN  /\ Changes(r, f, {"next", "text"})
               /\ f.next = "code"
               /\ f.text = r.text \o Unpack!Repeated(r.dict \o r.text, u[2], r.n)
<1> DEFINE f == Unpack!Decode(s, r, u)
           v1 == "code"
           v2 == r.text \o Unpack!Repeated(r.dict \o r.text, u[2], r.n)
<1>1. f = [r EXCEPT !.next = v1, !.text = v2]
  BY DEF Unpack!Decode
<1> HIDE DEF f, v1, v2
<1>2. Changes(r, f, {"next", "text"}) /\ f.next = v1 /\ f.text = v2
  BY <1>1 DEF Changes, StageFields
<1>. QED
  BY <1>2 DEF f, v1, v2

LEMMA DecodeCheck ==
    ASSUME NEW s, NEW r, DOMAIN r = StageFields, NEW u, r.next = "check", s.right
    PROVE  LET f == Unpack!Decode(s, r, u)
           IN  /\ Changes(r, f, {"next"})
               /\ f.next = "done"
<1> DEFINE f == Unpack!Decode(s, r, u)
           v1 == "done"
<1>1. f = [r EXCEPT !.next = v1]
  BY DEF Unpack!Decode
<1> HIDE DEF f, v1
<1>2. Changes(r, f, {"next"}) /\ f.next = v1
  BY <1>1 DEF Changes, StageFields
<1>. QED
  BY <1>2 DEF f, v1

LEMMA DecodeWrong ==
    ASSUME NEW s, NEW r, DOMAIN r = StageFields, NEW u,
           \/ r.next = "head" /\ u[1] # "head"
           \/ r.next = "block" /\ u[1] \notin {"stored", "codes"}
           \/ r.next = "size" /\ u[1] # "size"
           \/ r.next = "code" /\ u[1] \notin {"lit", "length", "end"}
           \/ r.next = "distance" /\ ~(u[1] = "distance" /\ u[2] <= Len(r.dict \o r.text))
           \/ r.next = "check" /\ ~s.right
           \/ r.next = "bad"
    PROVE  LET f == Unpack!Decode(s, r, u) IN Changes(r, f, {"next"}) /\ f.next = "bad"
<1> DEFINE f == Unpack!Decode(s, r, u)
           v == "bad"
<1>1. f = [r EXCEPT !.next = v]
  BY DEF Unpack!Decode
<1> HIDE DEF f, v
<1>2. Changes(r, f, {"next"}) /\ f.next = v
  BY <1>1 DEF Changes, StageFields
<1>. QED
  BY <1>2 DEF f, v

LEMMA DecodeDone ==
    ASSUME NEW s, NEW r, r.next = "done", NEW u PROVE Unpack!Decode(s, r, u) = r
  BY DEF Unpack!Decode

\* One sequence starts with another.
Begins(x, y) == Len(x) <= Len(y) /\ \A i \in 1 .. Len(x) : x[i] = y[i]

LEMMA AppendIs ==
    ASSUME NEW x, IsSq(x), NEW v
    PROVE  Append(x, v) = x \o <<v>> /\ IsSq(Append(x, v)) /\ Len(Append(x, v)) = Len(x) + 1
<1>1. PICK S : x \in Seq(S)
  BY DEF IsSq
<1> DEFINE T == S \union {v}
<1>2. x \in Seq(T) /\ v \in T
  BY <1>1
<1> HIDE DEF T
<1>3. Append(x, v) = x \o <<v>>
  BY <1>2
<1>4. IsSq(x \o <<v>>) /\ Len(x \o <<v>>) = Len(x) + Len(<<v>>)
  BY OneByte, Joined
<1>. QED
  BY <1>3, <1>4, OneByte

LEMMA BeginsJoined ==
    ASSUME NEW x, IsSq(x), NEW y, IsSq(y) PROVE Begins(x, x \o y)
<1>1. /\ Len(x) \in Nat /\ Len(y) \in Nat /\ Len(x \o y) = Len(x) + Len(y)
      /\ \A i \in 1 .. Len(x) + Len(y) : (x \o y)[i] = IF i <= Len(x) THEN x[i] ELSE y[i - Len(x)]
  BY Joined
<1> DEFINE m == Len(x)
           n == Len(y)
           w == x \o y
<1> HIDE DEF m, n, w
<1>2. /\ m \in Nat /\ n \in Nat /\ Len(w) = m + n
      /\ \A i \in 1 .. m + n : w[i] = IF i <= m THEN x[i] ELSE y[i - m]
  BY <1>1 DEF m, n, w
<1>3. m <= Len(w) /\ \A i \in 1 .. m : x[i] = w[i]
  BY <1>2
<1>. QED
  BY <1>3 DEF Begins, m, w

LEMMA BeginsSelf == ASSUME NEW x, IsSq(x) PROVE Begins(x, x)
<1>1. Len(x) \in Nat
  BY Joined
<1>. QED
  BY <1>1 DEF Begins

LEMMA BeginsOn ==
    ASSUME NEW x, IsSq(x), NEW y, IsSq(y), NEW w, IsSq(w), Begins(x, y), Begins(y, w)
    PROVE  Begins(x, w)
<1> DEFINE k == Len(x)
           m == Len(y)
           n == Len(w)
<1>1. k \in Nat /\ m \in Nat /\ n \in Nat
  BY Joined
<1>2. k <= m /\ m <= n /\ (\A i \in 1 .. k : x[i] = y[i]) /\ (\A i \in 1 .. m : y[i] = w[i])
  BY DEF Begins
<1> HIDE DEF k, m, n
<1>3. k <= n /\ \A i \in 1 .. k : x[i] = w[i]
  BY <1>1, <1>2
<1>. QED
  BY <1>3 DEF Begins, k, n

\* What holds of every stage.
StageRight(s, r) ==
    /\ DOMAIN r = StageFields /\ r.dict \in {<<>>, s.dict} /\ IsSq(r.text) /\ r.n \in Nat
    /\ r.next \in {"head", "block", "size", "byte", "code", "distance", "check", "done", "bad"}
    /\ r.next = "byte" => r.n # 0

\* A unit makes the text longer, unless it was over.
Grows(r, f) ==
    Begins(r.text, f.text) /\ (r.next \in {"bad", "done"} => f.next = r.next /\ f.text = r.text)

LEMMA RepeatedIs ==
    ASSUME NEW t, NEW dist, NEW n \in Nat
    PROVE  IsSq(Unpack!Repeated(t, dist, n)) /\ Len(Unpack!Repeated(t, dist, n)) = n
<1> DEFINE b == Unpack!Repeated(t, dist, n)
<1>1. b = [j \in 1 .. n |-> b[j]]
  BY DEF Unpack!Repeated
<1> HIDE DEF b
<1>2. IsSq(b) /\ Len(b) = n
  BY <1>1, Tabled
<1>. QED
  BY <1>2 DEF b

LEMMA DecodeKeeps ==
    ASSUME NEW s \in Streams, NEW i \in 1 .. Len(s.units), NEW r, StageRight(s, r)
    PROVE  LET f == Unpack!Decode(s, r, s.units[i]) IN StageRight(s, f) /\ Grows(r, f)
<1> DEFINE u == s.units[i]
           f == Unpack!Decode(s, r, u)
<1>1. u[1] \in {"size", "length"} => u[2] \in Nat
  <2>1. u[1] \in {"size", "byte", "lit", "length", "distance"} => u[2] \in Nat
    BY UnitIs
  <2> HIDE DEF u
  <2>. QED
    BY <2>1
<1>2. DOMAIN r = StageFields /\ IsSq(r.text) /\ r.n \in Nat /\ r.dict \in {<<>>, s.dict}
  BY DEF StageRight
<1>3. Begins(r.text, r.text) /\ \A v : IsSq(Append(r.text, v)) /\ Begins(r.text, Append(r.text, v))
  <2>1. ASSUME NEW v PROVE IsSq(Append(r.text, v)) /\ Begins(r.text, Append(r.text, v))
    <3> DEFINE t == r.text
               b == <<v>>
    <3>1. IsSq(t) /\ IsSq(b) /\ Append(t, v) = t \o b /\ IsSq(Append(t, v))
      BY <1>2, OneByte, AppendIs
    <3> HIDE DEF t, b
    <3>2. Begins(t, t \o b)
      BY <3>1, BeginsJoined
    <3>. QED
      BY <3>1, <3>2 DEF t
  <2>. QED
    BY <1>2, <2>1, BeginsSelf
<1>4. Unpack!After(r) \in {"check", "block"}
  BY DEF Unpack!After
<1> HIDE DEF u, f
<1>5. CASE r.next = "head" /\ u[1] = "head"
  <2>1. Changes(r, f, {"next", "dict"}) /\ f.next = "block" /\ f.dict \in {<<>>, s.dict}
    BY <1>2, <1>5, DecodeHead DEF f
  <2>2. f.text = r.text /\ f.n = r.n /\ DOMAIN f = StageFields
    BY <2>1 DEF Changes, StageFields
  <2>. QED
    BY <1>2, <1>3, <1>5, <2>1, <2>2 DEF StageRight, Grows, u, f
<1>6. CASE r.next = "block" /\ u[1] \in {"stored", "codes"}
  <2>1. Changes(r, f, {"next", "last"}) /\ f.next \in {"size", "code"}
    BY <1>2, <1>6, DecodeBlock DEF f
  <2>2. f.text = r.text /\ f.n = r.n /\ f.dict = r.dict /\ DOMAIN f = StageFields
    BY <2>1 DEF Changes, StageFields
  <2>. QED
    BY <1>2, <1>3, <1>6, <2>1, <2>2 DEF StageRight, Grows, u, f
<1>7. CASE r.next = "size" /\ u[1] = "size"
  <2>1. Changes(r, f, {"next", "n"}) /\ f.n = u[2] /\ f.n \in Nat
        /\ f.next = IF u[2] = 0 THEN Unpack!After(r) ELSE "byte"
    BY <1>1, <1>2, <1>7, DecodeSize DEF f
  <2>2. f.text = r.text /\ f.dict = r.dict /\ DOMAIN f = StageFields
    BY <2>1 DEF Changes, StageFields
  <2>3. f.next \in {"check", "block", "byte"} /\ (f.next = "byte" => f.n # 0)
    BY <1>4, <2>1
  <2>. QED
    BY <1>2, <1>3, <1>7, <2>1, <2>2, <2>3 DEF StageRight, Grows, u, f
<1>8. CASE r.next = "byte"
  <2>1. Changes(r, f, {"next", "n", "text"}) /\ f.n = r.n - 1
        /\ f.next = (IF r.n = 1 THEN Unpack!After(r) ELSE "byte") /\ f.text = Append(r.text, u[2])
    BY <1>2, <1>8, DecodeByte DEF f
  <2>2. f.dict = r.dict /\ DOMAIN f = StageFields
    BY <2>1 DEF Changes, StageFields
  <2>3. f.n \in Nat /\ f.next \in {"check", "block", "byte"} /\ (f.next = "byte" => f.n # 0)
    <3> DEFINE n == r.n
               a == Unpack!After(r)
    <3>1. n \in Nat /\ n # 0 /\ a \in {"check", "block"} /\ f.n = n - 1
          /\ f.next = (IF n = 1 THEN a ELSE "byte")
      BY <1>2, <1>4, <1>8, <2>1 DEF StageRight
    <3> HIDE DEF n, a
    <3>. QED
      BY <3>1
  <2>4. IsSq(f.text) /\ Begins(r.text, f.text)
    BY <1>3, <2>1
  <2>. QED
    BY <1>2, <1>8, <2>1, <2>2, <2>3, <2>4 DEF StageRight, Grows, u, f
<1>9. CASE r.next = "code" /\ u[1] = "lit"
  <2>1. Changes(r, f, {"text"}) /\ f.text = Append(r.text, u[2])
    BY <1>2, <1>9, DecodeLit DEF f
  <2>2. f.dict = r.dict /\ f.n = r.n /\ f.next = r.next /\ DOMAIN f = StageFields
    BY <2>1 DEF Changes, StageFields
  <2>4. IsSq(f.text) /\ Begins(r.text, f.text)
    BY <1>3, <2>1
  <2>. QED
    BY <1>2, <1>9, <2>1, <2>2, <2>4 DEF StageRight, Grows, u, f
<1>10. CASE r.next = "code" /\ u[1] = "length"
  <2>1. Changes(r, f, {"next", "n"}) /\ f.next = "distance" /\ f.n \in Nat
    BY <1>1, <1>2, <1>10, DecodeLength DEF f
  <2>2. f.dict = r.dict /\ f.text = r.text /\ DOMAIN f = StageFields
    BY <2>1 DEF Changes, StageFields
  <2>. QED
    BY <1>2, <1>3, <1>10, <2>1, <2>2 DEF StageRight, Grows, u, f
<1>11. CASE r.next = "code" /\ u[1] = "end"
  <2>1. Changes(r, f, {"next"}) /\ f.next \in {"check", "block"}
    BY <1>2, <1>4, <1>11, DecodeEnd DEF f
  <2>2. f.dict = r.dict /\ f.text = r.text /\ f.n = r.n /\ DOMAIN f = StageFields
    BY <2>1 DEF Changes, StageFields
  <2>. QED
    BY <1>2, <1>3, <1>11, <2>1, <2>2 DEF StageRight, Grows, u, f
<1>12. CASE r.next = "distance" /\ u[1] = "distance" /\ u[2] <= Len(r.dict \o r.text)
  <2> DEFINE b == Unpack!Repeated(r.dict \o r.text, u[2], r.n)
  <2>1. Changes(r, f, {"next", "text"}) /\ f.next = "code" /\ f.text = r.text \o b
    BY <1>2, <1>12, DecodeMatch DEF f
  <2>2. f.dict = r.dict /\ f.n = r.n /\ DOMAIN f = StageFields
    BY <2>1 DEF Changes, StageFields
  <2>3. IsSq(b)
    BY <1>2, RepeatedIs
  <2> HIDE DEF b
  <2>4. IsSq(f.text) /\ Begins(r.text, f.text)
    BY <1>2, <2>1, <2>3, Joined, BeginsJoined
  <2>. QED
    BY <1>2, <1>12, <2>1, <2>2, <2>4 DEF StageRight, Grows, u, f
<1>13. CASE r.next = "check" /\ s.right
  <2>1. Changes(r, f, {"next"}) /\ f.next = "done"
    BY <1>2, <1>13, DecodeCheck DEF f
  <2>2. f.dict = r.dict /\ f.text = r.text /\ f.n = r.n /\ DOMAIN f = StageFields
    BY <2>1 DEF Changes, StageFields
  <2>. QED
    BY <1>2, <1>3, <1>13, <2>1, <2>2 DEF StageRight, Grows, u, f
<1>14. CASE r.next = "done"
  <2>1. f = r
    BY <1>14, DecodeDone DEF f
  <2>. QED
    BY <1>3, <2>1 DEF StageRight, Grows, u, f
<1>15. CASE \/ r.next = "head" /\ u[1] # "head"
            \/ r.next = "block" /\ u[1] \notin {"stored", "codes"}
            \/ r.next = "size" /\ u[1] # "size"
            \/ r.next = "code" /\ u[1] \notin {"lit", "length", "end"}
            \/ r.next = "distance" /\ ~(u[1] = "distance" /\ u[2] <= Len(r.dict \o r.text))
            \/ r.next = "check" /\ ~s.right
            \/ r.next = "bad"
  <2>1. Changes(r, f, {"next"}) /\ f.next = "bad"
    BY <1>2, <1>15, DecodeWrong, Zenon DEF f
  <2>2. f.dict = r.dict /\ f.text = r.text /\ f.n = r.n /\ DOMAIN f = StageFields
    BY <2>1 DEF Changes, StageFields
  <2>3. r.next # "done"
    BY <1>15
  <2>. QED
    BY <1>2, <1>3, <2>1, <2>2, <2>3 DEF StageRight, Grows, u, f
<1>. QED
  BY <1>5, <1>6, <1>7, <1>8, <1>9, <1>10, <1>11, <1>12, <1>13, <1>14, <1>15 DEF StageRight

LEMMA StagesRight ==
    ASSUME NEW s \in Streams
    PROVE  \A i \in 0 .. Len(s.units) : StageRight(s, Stage(s, i))
<1> DEFINE n == Len(s.units)
           P == {i \in 0 .. n : StageRight(s, Stage(s, i))}
<1>1. n \in Nat
  BY StreamIs
<1>2. 0 \in P
  <2>1. Stage(s, 0) = Outset
    BY <1>1, StagesAre
  <2>2. StageRight(s, Outset)
    <3>1. DOMAIN Outset = StageFields /\ Outset.next = "head" /\ Outset.dict = <<>>
          /\ Outset.text = <<>> /\ Outset.n = 0
      BY DEF Outset, StageFields
    <3>. QED
      BY <3>1, NoneIs DEF StageRight
  <2>. QED
    BY <1>1, <2>1, <2>2
<1>3. ASSUME NEW k \in 1 .. n, k - 1 \in P PROVE k \in P
  <2>1. StageRight(s, Stage(s, k - 1))
    BY <1>3
  <2>2. Stage(s, k) = Unpack!Decode(s, Stage(s, k - 1), s.units[k])
    BY <1>1, StagesAre
  <2>3. StageRight(s, Stage(s, k))
    BY <2>1, <2>2, DecodeKeeps
  <2>. QED
    BY <1>1, <2>3
<1> HIDE DEF P
<1>4. \A k \in 0 .. n : k \in P
  BY <1>1, <1>2, <1>3, Upwards
<1>. QED
  BY <1>4 DEF P

\* The text of a stage is the start of all text, and is all of it once it is over.
LEMMA StagesGrow ==
    ASSUME NEW s \in Streams, NEW i \in 0 .. Len(s.units)
    PROVE  Grows(Stage(s, i), Stage(s, Len(s.units)))
<1> DEFINE n == Len(s.units)
           m == n - i
           P == {k \in 0 .. m : Grows(Stage(s, i), Stage(s, i + k))}
<1>1. n \in Nat /\ m \in Nat
  BY StreamIs
<1>2. \A k \in 0 .. m : i + k \in 0 .. n
  BY <1>1
<1>3. 0 \in P
  <2>1. IsSq(Stage(s, i).text)
    BY StagesRight DEF StageRight
  <2>2. Grows(Stage(s, i), Stage(s, i)) /\ i + 0 = i
    BY <2>1, BeginsSelf DEF Grows
  <2>. QED
    BY <1>1, <2>2
<1>4. ASSUME NEW k \in 1 .. m, k - 1 \in P PROVE k \in P
  <2> DEFINE j == i + (k - 1)
             a == Stage(s, i)
             b == Stage(s, j)
             c == Stage(s, i + k)
  <2>1. j \in 0 .. n /\ i + k \in 1 .. n /\ j = (i + k) - 1
    BY <1>1
  <2>2. Grows(a, b)
    BY <1>4
  <2>3. c = Unpack!Decode(s, Stage(s, (i + k) - 1), s.units[i + k])
    BY <1>1, <2>1, StagesAre
  <2> HIDE DEF j
  <2>4. StageRight(s, a) /\ StageRight(s, b) /\ StageRight(s, c)
    BY <1>1, <2>1, StagesRight
  <2>5. Grows(b, c)
    BY <2>1, <2>3, <2>4, DecodeKeeps
  <2> HIDE DEF a, b, c
  <2>6. Begins(a.text, c.text)
    BY <2>2, <2>4, <2>5, BeginsOn DEF Grows, StageRight
  <2>7. Grows(a, c)
    BY <2>2, <2>5, <2>6 DEF Grows
  <2>. QED
    BY <1>1, <2>7 DEF a, c
<1> HIDE DEF P
<1>5. \A k \in 0 .. m : k \in P
  BY <1>1, <1>3, <1>4, Upwards
<1>6. m \in P /\ i + m = n
  BY <1>1, <1>5
<1>. QED
  BY <1>6 DEF P
-----------------------------------------------------------------------------
(***************************************************************************)
(* Matches.  Whether a match is copied byte by byte, piece by piece or all *)
(* at once, each of its bytes is the one a distance before it.             *)
(***************************************************************************)
LEMMA Grown ==
    ASSUME NEW dist \in Nat, dist # 0, NEW x \in Nat, x # 0 PROVE dist * x >= dist
  OBVIOUS

LEMMA OneRemainder ==
    ASSUME NEW dist \in Nat, dist # 0, NEW a \in Int, NEW b \in Int, NEW x \in 0 .. dist - 1,
           NEW y \in 0 .. dist - 1, dist * a + x = dist * b + y
    PROVE  x = y
<1>1. dist * (a - b) = y - x /\ dist * (b - a) = x - y
  <2>1. dist * a - dist * b = dist * (a - b) /\ dist * b - dist * a = dist * (b - a)
    OBVIOUS
  <2>. QED
    BY <2>1
<1>2. CASE a > b
  <2>1. dist * (a - b) >= dist
    BY <1>2, Grown
  <2>. QED
    BY <1>1, <2>1
<1>3. CASE b > a
  <2>1. dist * (b - a) >= dist
    BY <1>3, Grown
  <2>. QED
    BY <1>1, <2>1
<1>4. CASE a = b
  BY <1>1, <1>4
<1>. QED
  BY <1>2, <1>3, <1>4

LEMMA Remainders ==
    ASSUME NEW j \in Nat, NEW dist \in Nat, dist # 0
    PROVE  j % dist \in 0 .. dist - 1 /\ (j < dist => j % dist = j) /\ (j + dist) % dist = j % dist
<1>0. dist > 0
  OBVIOUS
<1>1. j = dist * (j \div dist) + (j % dist) /\ j \div dist \in Int /\ j % dist \in 0 .. dist - 1
  BY <1>0
<1>2. j + dist = dist * ((j + dist) \div dist) + ((j + dist) % dist) /\ (j + dist) \div dist \in Int
      /\ (j + dist) % dist \in 0 .. dist - 1
  BY <1>0
<1> DEFINE q == j \div dist
           x == j % dist
           p == (j + dist) \div dist
           y == (j + dist) % dist
<1>3. /\ q \in Int /\ q + 1 \in Int /\ p \in Int /\ x \in 0 .. dist - 1 /\ y \in 0 .. dist - 1
      /\ j = dist * q + x /\ j + dist = dist * p + y
  BY <1>1, <1>2
<1> HIDE DEF q, x, p, y
<1>4. dist * q + dist = dist * (q + 1)
  BY <1>3
<1>5. dist * (q + 1) + x = dist * p + y
  BY <1>3, <1>4
<1>6. x = y
  BY <1>3, <1>5, OneRemainder
<1>7. j < dist => j % dist = j
  BY <1>0
<1>. QED
  BY <1>1, <1>6, <1>7 DEF x, y

\* From place m on, w repeats what is a distance before.
Copies(w, m, n, dist) == \A j \in 1 .. n : w[m + j] = w[(m + j) - dist]

LEMMA CopiesAgree ==
    ASSUME NEW m \in Nat, NEW n \in Nat, NEW dist \in 1 .. m, NEW v, NEW w,
           \A i \in 1 .. m : v[i] = w[i], Copies(v, m, n, dist), Copies(w, m, n, dist)
    PROVE  \A j \in 1 .. n : v[m + j] = w[m + j]
<1> DEFINE S == {j \in 1 .. n : v[m + j] # w[m + j]}
<1> SUFFICES ASSUME S # {} PROVE FALSE
  OBVIOUS
<1>1. S \in SUBSET Nat
  OBVIOUS
<1>2. PICK j \in S : \A k \in S : j <= k
  <2> HIDE DEF S
  <2>. QED
    BY <1>1, LeastElement
<1>3. j \in 1 .. n /\ v[m + j] # w[m + j]
  OBVIOUS
<1>4. v[m + j] = v[(m + j) - dist] /\ w[m + j] = w[(m + j) - dist]
  BY <1>3 DEF Copies
<1> DEFINE k == (m + j) - dist
<1>5. v[k] = w[k]
  <2>1. CASE j <= dist
    <3>1. k \in 1 .. m
      BY <1>3, <2>1
    <3> HIDE DEF k
    <3>. QED
      BY <3>1
  <2>2. CASE ~(j <= dist)
    <3>1. j - dist \in 1 .. n /\ j - dist < j /\ m + (j - dist) = k
      BY <1>3, <2>2
    <3>2. j - dist \notin S
      <4> DEFINE i == j - dist
      <4>1. i \in Nat /\ j \in Nat /\ i < j
        BY <1>3, <3>1
      <4> HIDE DEF i, S
      <4>2. ~(j <= i)
        BY <4>1
      <4>. QED
        BY <1>2, <4>2 DEF i
    <3>. QED
      BY <3>1, <3>2
  <2>. QED
    BY <2>1, <2>2
<1>. QED
  BY <1>3, <1>4, <1>5

LEMMA JoinedIs ==
    ASSUME NEW s, IsSq(s), NEW t, IsSq(t)
    PROVE  s \o t = [i \in 1 .. Len(s) + Len(t) |-> IF i <= Len(s) THEN s[i] ELSE t[i - Len(s)]]
<1> DEFINE w == s \o t
<1>1. IsSq(w) /\ Len(w) = Len(s) + Len(t)
      /\ \A i \in 1 .. Len(s) + Len(t) : w[i] = IF i <= Len(s) THEN s[i] ELSE t[i - Len(s)]
  BY Joined
<1> HIDE DEF w
<1>2. PICK S : w \in Seq(S)
  BY <1>1 DEF IsSq
<1>3. w = [i \in 1 .. Len(w) |-> w[i]]
  BY <1>2
<1>. QED
  BY <1>1, <1>3 DEF w

\* What is repeated, byte by byte.
LEMMA RepeatedAt ==
    ASSUME NEW t, IsSq(t), NEW dist \in 1 .. Len(t), NEW n \in Nat, NEW j \in 1 .. n
    PROVE  LET b == Unpack!Repeated(t, dist, n)
           IN  /\ j <= dist => b[j] = t[(Len(t) - dist) + j]
               /\ ~(j <= dist) => b[j] = b[j - dist]
<1> DEFINE b == Unpack!Repeated(t, dist, n)
           l == Len(t)
<1>0. l \in Nat /\ dist \in Nat /\ dist # 0 /\ dist <= l
  BY Joined
<1>1. \A i \in 1 .. n : b[i] = t[((l - dist) + 1) + ((i - 1) % dist)]
  BY DEF Unpack!Repeated
<1> HIDE DEF b, l
<1>2. CASE j <= dist
  <2>1. j - 1 \in Nat /\ j - 1 < dist
    BY <1>0, <1>2
  <2>2. (j - 1) % dist = j - 1
    BY <1>0, <2>1, Remainders
  <2>3. ((l - dist) + 1) + (j - 1) = (l - dist) + j
    BY <1>0
  <2>. QED
    BY <1>1, <1>2, <2>2, <2>3 DEF b, l
<1>3. CASE ~(j <= dist)
  <2> DEFINE i == (j - dist) - 1
  <2>1. i \in Nat /\ i + dist = j - 1 /\ j - dist \in 1 .. n /\ (j - dist) - 1 = i
    BY <1>0, <1>3
  <2> HIDE DEF i
  <2>2. (i + dist) % dist = i % dist
    BY <1>0, <2>1, Remainders
  <2>3. b[j] = t[((l - dist) + 1) + (i % dist)] /\ b[j - dist] = t[((l - dist) + 1) + (i % dist)]
    BY <1>1, <2>1, <2>2
  <2>. QED
    BY <1>3, <2>3 DEF b
<1>. QED
  BY <1>2, <1>3

LEMMA RepeatedCopies ==
    ASSUME NEW t, IsSq(t), NEW dist \in 1 .. Len(t), NEW n \in Nat
    PROVE  Copies(t \o Unpack!Repeated(t, dist, n), Len(t), n, dist)
<1> DEFINE b == Unpack!Repeated(t, dist, n)
           w == t \o b
           l == Len(t)
<1>1. IsSq(b) /\ Len(b) = n
  BY RepeatedIs
<1>2. l \in Nat /\ \A i \in 1 .. l + n : w[i] = IF i <= l THEN t[i] ELSE b[i - l]
  <2> HIDE DEF b
  <2>. QED
    BY <1>1, Joined
<1>3. \A j \in 1 .. n : (j <= dist => b[j] = t[(l - dist) + j]) /\ (~(j <= dist) => b[j] = b[j - dist])
  BY RepeatedAt
<1>4. dist \in 1 .. l
  OBVIOUS
<1> HIDE DEF b, w, l
<1>5. ASSUME NEW j \in 1 .. n PROVE w[l + j] = w[(l + j) - dist]
  <2>1. l + j \in 1 .. l + n /\ ~(l + j <= l) /\ (l + j) - l = j
    BY <1>2
  <2>2. w[l + j] = b[j]
    BY <1>2, <2>1
  <2>3. CASE j <= dist
    <3>1. (l + j) - dist \in 1 .. l + n /\ (l + j) - dist <= l /\ (l + j) - dist = (l - dist) + j
      BY <1>2, <1>4, <2>3
    <3>2. w[(l + j) - dist] = t[(l - dist) + j]
      BY <1>2, <3>1
    <3>. QED
      BY <1>3, <2>2, <2>3, <3>2
  <2>4. CASE ~(j <= dist)
    <3>1. (l + j) - dist \in 1 .. l + n /\ ~((l + j) - dist <= l) /\ ((l + j) - dist) - l = j - dist
      BY <1>2, <1>4, <2>4
    <3>2. w[(l + j) - dist] = b[j - dist]
      BY <1>2, <3>1
    <3>. QED
      BY <1>3, <2>2, <2>4, <3>2
  <2>. QED
    BY <2>3, <2>4
<1>. QED
  BY <1>5 DEF Copies, w, b, l

\* A part of a match first, then the rest of it.
LEMMA RepeatedOn ==
    ASSUME NEW t, IsSq(t), NEW dist \in 1 .. Len(t), NEW n \in Nat, NEW m \in Nat
    PROVE  LET b == Unpack!Repeated(t, dist, n)
           IN  Unpack!Repeated(t, dist, n + m) = b \o Unpack!Repeated(t \o b, dist, m)
<1> DEFINE b == Unpack!Repeated(t, dist, n)
           a == Unpack!Repeated(t, dist, n + m)
           c == Unpack!Repeated(t \o b, dist, m)
           l == Len(t)
           v == t \o a
           w == (t \o b) \o c
<1>1. /\ IsSq(a) /\ Len(a) = n + m /\ IsSq(b) /\ Len(b) = n /\ IsSq(c) /\ Len(c) = m
      /\ n + m \in Nat
  BY RepeatedIs
<1>2. \A j \in 1 .. n : a[j] = b[j]
  BY DEF Unpack!Repeated
<1>3. Copies(v, l, n + m, dist)
  BY <1>1, RepeatedCopies
<1>4. IsSq(t \o b) /\ Len(t \o b) = l + n /\ l \in Nat
  <2> HIDE DEF b
  <2>. QED
    BY <1>1, Joined
<1>5. Copies(w, l + n, m, dist)
  <2> DEFINE u == t \o b
  <2>1. IsSq(u) /\ Len(u) = l + n /\ dist \in 1 .. Len(u) /\ m \in Nat
    BY <1>4
  <2> HIDE DEF u
  <2>2. Copies(u \o Unpack!Repeated(u, dist, m), Len(u), m, dist)
    BY <2>1, RepeatedCopies
  <2>. QED
    BY <2>1, <2>2 DEF u
<1>c. c = [j \in 1 .. m |-> c[j]] /\ a = [j \in 1 .. n + m |-> a[j]]
  BY DEF Unpack!Repeated
<1> HIDE DEF a, b, c
<1>6. \A i \in 1 .. (l + n) + m : v[i] = IF i <= l THEN t[i] ELSE a[i - l]
  <2>1. \A i \in 1 .. l + Len(a) : v[i] = IF i <= l THEN t[i] ELSE a[i - l]
    BY <1>1, Joined, Zenon
  <2>2. (l + n) + m = l + Len(a)
    BY <1>1, <1>4
  <2>. QED
    BY <2>1, <2>2
<1>7. \A i \in 1 .. (l + n) + m : w[i] = IF i <= l THEN t[i] ELSE IF i <= l + n THEN b[i - l] ELSE c[i - (l + n)]
  <2> DEFINE u == t \o b
  <2>1. \A i \in 1 .. l + n : u[i] = IF i <= l THEN t[i] ELSE b[i - l]
    BY <1>1, Joined
  <2>2. IsSq(u) /\ Len(u) = l + n
    BY <1>4
  <2> HIDE DEF u
  <2>3. \A i \in 1 .. (l + n) + m : (u \o c)[i] = IF i <= l + n THEN u[i] ELSE c[i - (l + n)]
    <3>1. \A i \in 1 .. Len(u) + Len(c) : (u \o c)[i] = IF i <= Len(u) THEN u[i] ELSE c[i - Len(u)]
      BY <1>1, <2>2, Joined, Zenon
    <3>. QED
      BY <1>1, <2>2, <3>1
  <2>4. w = u \o c
    BY DEF u
  <2> DEFINE k == l + n
  <2>5. k \in Nat /\ l \in Nat /\ l <= k
    BY <1>4
  <2> HIDE DEF w, k, l
  <2>6. ASSUME NEW i \in 1 .. k + m
        PROVE  w[i] = IF i <= l THEN t[i] ELSE IF i <= k THEN b[i - l] ELSE c[i - k]
    <3>1. i <= k => i \in 1 .. k
      BY <2>5
    <3>2. i <= l => i <= k
      BY <2>5
    <3>. QED
      BY <2>1, <2>3, <2>4, <3>1, <3>2 DEF k
  <2>. QED
    BY <2>6 DEF k
<1> HIDE DEF v, w, l
<1>8. \A i \in 1 .. l + n : v[i] = w[i]
  <2> TAKE i \in 1 .. l + n
  <2>1. i \in 1 .. (l + n) + m /\ (~(i <= l) => i - l \in 1 .. n)
    BY <1>4
  <2>. QED
    BY <1>2, <1>6, <1>7, <2>1
<1>9. Copies(v, l + n, m, dist)
  <2>1. ASSUME NEW j \in 1 .. m PROVE v[(l + n) + j] = v[((l + n) + j) - dist]
    <3>1. n + j \in 1 .. n + m /\ l + (n + j) = (l + n) + j
      BY <1>4
    <3>. QED
      BY <1>3, <3>1 DEF Copies
  <2>. QED
    BY <2>1 DEF Copies
<1>10. \A j \in 1 .. m : v[(l + n) + j] = w[(l + n) + j]
  <2> DEFINE k == l + n
  <2>1. k \in Nat /\ dist \in 1 .. k
    BY <1>4 DEF l
  <2> HIDE DEF k
  <2>. QED
    BY <1>5, <1>8, <1>9, <2>1, CopiesAgree DEF k
<1>11. \A j \in 1 .. m : a[n + j] = c[j]
  <2> TAKE j \in 1 .. m
  <2> DEFINE i == (l + n) + j
  <2>1. /\ i \in 1 .. (l + n) + m /\ ~(i <= l) /\ ~(i <= l + n) /\ i - l = n + j /\ i - (l + n) = j
    BY <1>4
  <2>2. v[i] = w[i]
    BY <1>10
  <2> HIDE DEF i
  <2>. QED
    BY <1>6, <1>7, <2>1, <2>2
<1>12. \A j \in 1 .. n + m : a[j] = IF j <= n THEN b[j] ELSE c[j - n]
  <2> TAKE j \in 1 .. n + m
  <2>1. j <= n => j \in 1 .. n
    OBVIOUS
  <2>2. ~(j <= n) => j - n \in 1 .. m /\ n + (j - n) = j
    OBVIOUS
  <2>. QED
    BY <1>2, <1>11, <2>1, <2>2
<1>13. b \o c = [j \in 1 .. n + m |-> IF j <= n THEN b[j] ELSE c[j - n]]
  <2>1. b \o c = [i \in 1 .. Len(b) + Len(c) |-> IF i <= Len(b) THEN b[i] ELSE c[i - Len(b)]]
    BY <1>1, JoinedIs, Zenon
  <2>. QED
    BY <1>1, <2>1
<1>14. a = b \o c
  BY <1>c, <1>12, <1>13
<1>. QED
  BY <1>14 DEF a, b, c

\* Only the last bytes, as many as the distance, count.
LEMMA RepeatedEnd ==
    ASSUME NEW x, IsSq(x), NEW y, IsSq(y), NEW dist \in 1 .. Len(y), NEW n \in Nat
    PROVE  Unpack!Repeated(x \o y, dist, n) = Unpack!Repeated(y, dist, n)
<1> DEFINE w == x \o y
           k == Len(x)
           l == Len(y)
<1>1. /\ k \in Nat /\ l \in Nat /\ Len(w) = k + l /\ dist \in 1 .. l
      /\ \A i \in 1 .. k + l : w[i] = IF i <= k THEN x[i] ELSE y[i - k]
  BY Joined
<1> HIDE DEF w, k, l
<1>2. ASSUME NEW j \in 1 .. n
      PROVE  w[((k + l) - dist + 1) + ((j - 1) % dist)] = y[(l - dist + 1) + ((j - 1) % dist)]
  <2> DEFINE q == (j - 1) % dist
  <2>1. q \in 0 .. dist - 1
    <3>1. j - 1 \in Nat /\ dist \in Nat /\ dist # 0
      BY <1>1
    <3>. QED
      BY <3>1, Remainders
  <2> HIDE DEF q
  <2> DEFINE i == ((k + l) - dist + 1) + q
  <2>2. i \in 1 .. k + l /\ ~(i <= k) /\ i - k = (l - dist + 1) + q
    BY <1>1, <2>1
  <2> HIDE DEF i
  <2>3. w[i] = y[(l - dist + 1) + q]
    BY <1>1, <2>2
  <2>. QED
    BY <2>3 DEF i, q
<1>. QED
  BY <1>1, <1>2 DEF Unpack!Repeated, w, l
-----------------------------------------------------------------------------
(***************************************************************************)
(* What has come out of a stream is what the reference makes of the units  *)
(* that were taken.                                                        *)
(***************************************************************************)
At(e) == Stage(e.stream, e.at - 1)
Output(e) == e.past \o e.buf
Used(e) == IF e.havedict THEN e.stream.dict ELSE <<>>
All(e) == Used(e) \o Output(e)

\* There is no end yet.
OpenModes == OnModes \union {"CHECK"}

\* What is kept of a stream besides: the check value so far, and the window's memory.
Kept(e) ==
    /\ ~e.stuck
    /\ e.wsize # 0 => e.allocated
    /\ e.whave # 0 => e.wsize = WSize
    /\ e.mode = "DONE" => e.out = e.left
    /\ e.mode \in OpenModes => e.check = IF e.inside THEN e.past ELSE Output(e)
    /\ e.mode \in OpenModes \union {"DONE", "BAD", "MEM"}

\* A match is still to be copied, as much of it as is left; it may reach back too far.
Matching(e, r) ==
    /\ e.length # 0 /\ e.offset \in 1 .. WSize
    /\ IF e.offset <= Len(All(e))
       THEN r.next = "code" /\ r.text = Output(e) \o Unpack!Repeated(All(e), e.offset, e.length)
       ELSE r.next = "bad" /\ r.text = Output(e)

\* The mode and what goes with it say where the reference is.
Follows(e, r) ==
    /\ e.mode \in OpenModes =>
         r.last = e.last /\ r.dict = IF e.mode = "DICT" THEN e.stream.dict ELSE Used(e)
    /\ e.mode \notin {"LIT", "MATCH", "MEM"} => r.text = Output(e)
    /\ e.mode = "HEAD" => r.next = "head" /\ ~r.last
    /\ e.mode = "DICT" => r.next = "block" /\ ~r.last
    /\ e.mode \in {"TYPE", "TYPEDO"} => r.next = Unpack!After(r)
    /\ e.mode = "STORED" => r.next = "size"
    /\ e.mode = "COPY" => IF e.length = 0 THEN r.next = Unpack!After(r)
                          ELSE r.next = "byte" /\ r.n = e.length
    /\ e.mode = "LEN" => r.next = "code"
    /\ e.mode = "LIT" => r.next = "code" /\ r.text = Append(Output(e), e.length)
    /\ e.mode = "DIST" => r.next = "distance" /\ r.n = e.length /\ e.length # 0
    /\ e.mode = "MATCH" => Matching(e, r)
    /\ e.mode = "CHECK" => r.next = "check"
    /\ e.mode = "DONE" => r.next = "done"
    /\ e.mode = "BAD" => r.next = "bad"

ReadRight(e) == Kept(e) /\ Follows(e, At(e))

Status(e) ==
    CASE e.mode = "DONE" -> "end" [] e.mode = "BAD" -> "error"
      [] e.mode = "MEM" -> "memory" [] OTHER -> "on"

\* What a step does to the text.
Advances(e, f) ==
    \/ Output(f) = Output(e) /\ Status(f) = Status(e)
    \/ Status(e) = "on" /\ Status(f) = "on" /\ Len(Output(f)) > Len(Output(e))
    \/ Status(e) = "on" /\ Output(f) = Output(e) /\ Status(f) \in {"end", "error", "memory"}
    \/ Output(f) = <<>> /\ Status(f) = "on"

Reads(e, f) == ReadRight(f) /\ f.stream = e.stream /\ Advances(e, f)

LEMMA UnitHas ==
    ASSUME NEW s \in Streams, NEW i \in 1 .. Len(s.units)
    PROVE  LET u == s.units[i]
           IN  /\ u[1] \in {"length", "distance"} => u[2] \in Nat \ {0}
               /\ u[1] = "distance" => u[2] <= WSize
<1> DEFINE U == s.units
           u == U[i]
<1>1. U \in Seq(Unpack!Unit)
  BY StreamIs
<1>2. u \in Unpack!Unit
  BY <1>1
<1>3. u \in Unpack!Range(U)
  BY <1>1 DEF Unpack!Range
<1>4. u[1] = "distance" => u[2] <= WSize
  BY <1>3, ProgramsAssumption
<1> HIDE DEF u
<1>5. u[1] \in {"length", "distance"} => u[2] \in Nat \ {0}
  <2>1. CASE u \in {"head", "codes", "stored", "wrong"} \X BOOLEAN
    <3>1. u[1] \in {"head", "codes", "stored", "wrong"}
      BY <2>1
    <3>. QED
      BY <3>1
  <2>2. CASE u \in {"size", "byte", "lit"} \X Nat
    <3>1. u[1] \in {"size", "byte", "lit"}
      BY <2>2
    <3>. QED
      BY <3>1
  <2>3. CASE u \in {"length", "distance"} \X (Nat \ {0})
    BY <2>3
  <2>4. CASE u = <<"end">> \/ u = <<"check">>
    BY <2>4
  <2>. QED
    BY <1>2, <2>1, <2>2, <2>3, <2>4 DEF Unpack!Unit
<1>. QED
  BY <1>4, <1>5 DEF u

\* The stage, and the one after the next unit.
LEMMA StageHere ==
    ASSUME NEW e, StreamRight(e)
    PROVE  /\ e.stream \in Streams /\ e.at - 1 \in 0 .. Len(e.stream.units)
           /\ StageRight(e.stream, At(e))
<1> DEFINE a == e.at
           h == e.have
           k == Len(e.stream.units)
<1>1. e.stream \in Streams /\ a \in Nat \ {0} /\ h \in Nat /\ a + h <= k + 1
  BY DEF StreamRight
<1>2. k \in Nat
  BY <1>1, StreamIs
<1> HIDE DEF a, h, k
<1>3. a - 1 \in 0 .. k
  BY <1>1, <1>2
<1>4. e.at - 1 \in 0 .. Len(e.stream.units)
  BY <1>3 DEF a, k
<1>. QED
  BY <1>1, <1>4, StagesRight DEF At

LEMMA NextStage ==
    ASSUME NEW e, StreamRight(e), e.have # 0, NEW f, f.stream = e.stream, f.at = e.at + 1
    PROVE  /\ e.at \in 1 .. Len(e.stream.units)
           /\ At(f) = Unpack!Decode(e.stream, At(e), e.stream.units[e.at])
           /\ StageRight(e.stream, At(f))
<1> DEFINE a == e.at
           h == e.have
           k == Len(e.stream.units)
<1>1. e.stream \in Streams /\ a \in Nat \ {0} /\ h \in Nat /\ h # 0 /\ a + h <= k + 1
  BY DEF StreamRight
<1>2. k \in Nat
  BY <1>1, StreamIs
<1> HIDE DEF a, h, k
<1>3. a \in 1 .. k /\ (a + 1) - 1 = a /\ a \in 0 .. k
  BY <1>1, <1>2
<1>4. Stage(e.stream, a) = Unpack!Decode(e.stream, Stage(e.stream, a - 1), e.stream.units[a])
  BY <1>2, <1>3, StagesAre DEF k
<1>5. At(f) = Stage(e.stream, a)
  <2>1. f.at - 1 = a
    BY <1>3 DEF a
  <2>. QED
    BY <2>1 DEF At
<1>6. StageRight(e.stream, Stage(e.stream, a))
  BY <1>1, <1>3, StagesRight DEF k
<1>. QED
  BY <1>3, <1>4, <1>5, <1>6 DEF At, a, k

\* A step that takes units and puts nothing out.
Takes(e, f, n) ==
    /\ f.at = e.at + n
    /\ \A x \in ZFields \ {"at", "have", "mode", "last", "length", "offset"} : f[x] = e[x]

LEMMA TakesIs ==
    ASSUME NEW e, NEW f, NEW n, Takes(e, f, n)
    PROVE  /\ f.stream = e.stream /\ Output(f) = Output(e) /\ Used(f) = Used(e) /\ All(f) = All(e)
           /\ Kept(e) /\ e.mode \in OpenModes /\ f.mode \in OpenModes \union {"BAD"} => Kept(f)
           /\ f.mode \notin {"DONE", "BAD", "MEM"} /\ e.mode \notin {"DONE", "BAD", "MEM"}
                => Advances(e, f)
           /\ f.mode = "BAD" /\ e.mode \in OpenModes => Advances(e, f)
<1>1. /\ f.stream = e.stream /\ f.past = e.past /\ f.buf = e.buf /\ f.havedict = e.havedict
      /\ f.stuck = e.stuck /\ f.wsize = e.wsize /\ f.allocated = e.allocated
      /\ f.whave = e.whave /\ f.check = e.check /\ f.inside = e.inside
  BY DEF Takes, ZFields
<1>2. Output(f) = Output(e) /\ Used(f) = Used(e) /\ All(f) = All(e)
  BY <1>1 DEF Output, Used, All
<1>3. ASSUME Kept(e), e.mode \in OpenModes, f.mode \in OpenModes \union {"BAD"} PROVE Kept(f)
  <2>1. f.mode # "DONE"
    BY <1>3 DEF OpenModes, OnModes
  <2>. QED
    BY <1>1, <1>2, <1>3, <2>1, Zenon DEF Kept
<1>4. ASSUME f.mode \notin {"DONE", "BAD", "MEM"}, e.mode \notin {"DONE", "BAD", "MEM"}
      PROVE  Advances(e, f)
  BY <1>2, <1>4 DEF Advances, Status
<1>5. ASSUME f.mode = "BAD", e.mode \in OpenModes PROVE Advances(e, f)
  <2>1. e.mode \notin {"DONE", "BAD", "MEM"}
    BY <1>5 DEF OpenModes, OnModes
  <2>. QED
    BY <1>2, <1>5, <2>1 DEF Advances, Status
<1>. QED
  BY <1>1, <1>2, <1>3, <1>4, <1>5

\* What a step that takes units sets besides.
Sets(e, f, n, m, last, length, offset) ==
    /\ Takes(e, f, n) /\ f.mode = m /\ f.last = last /\ f.length = length /\ f.offset = offset

LEMMA TookSets ==
    ASSUME NEW e, StreamRight(e), NEW n \in Nat, NEW m, NEW y, NEW l, NEW o
    PROVE  /\ Sets(e, [Unpack!Took(e, n) EXCEPT !.mode = m], n, m, e.last, e.length, e.offset)
           /\ Sets(e, [Unpack!Took(e, n) EXCEPT !.last = y, !.mode = m], n, m, y, e.length, e.offset)
           /\ Sets(e, [Unpack!Took(e, n) EXCEPT !.length = l, !.mode = m], n, m, e.last, l, e.offset)
           /\ Sets(e, [Unpack!Took(e, n) EXCEPT !.offset = o, !.mode = m], n, m, e.last, e.length, o)
<1> DEFINE g == Unpack!Took(e, n)
<1>1. /\ DOMAIN g = ZFields /\ g.at = e.at + n
      /\ \A x \in ZFields \ {"at", "have"} : g[x] = e[x]
  BY TookIs
<1> HIDE DEF g
<1>2. Sets(e, [g EXCEPT !.mode = m], n, m, e.last, e.length, e.offset)
  <2> DEFINE f == [g EXCEPT !.mode = m]
  <2>1. f.mode = m /\ \A x \in ZFields \ {"mode"} : f[x] = g[x]
    BY <1>1 DEF ZFields
  <2> HIDE DEF f
  <2>2. Sets(e, f, n, m, e.last, e.length, e.offset)
    BY <1>1, <2>1 DEF Sets, Takes, ZFields
  <2>. QED
    BY <2>2 DEF f
<1>3. Sets(e, [g EXCEPT !.last = y, !.mode = m], n, m, y, e.length, e.offset)
  <2> DEFINE f == [g EXCEPT !.last = y, !.mode = m]
  <2>1. f.last = y /\ f.mode = m /\ \A x \in ZFields \ {"last", "mode"} : f[x] = g[x]
    BY <1>1 DEF ZFields
  <2> HIDE DEF f
  <2>2. Sets(e, f, n, m, y, e.length, e.offset)
    BY <1>1, <2>1 DEF Sets, Takes, ZFields
  <2>. QED
    BY <2>2 DEF f
<1>4. Sets(e, [g EXCEPT !.length = l, !.mode = m], n, m, e.last, l, e.offset)
  <2> DEFINE f == [g EXCEPT !.length = l, !.mode = m]
  <2>1. f.length = l /\ f.mode = m /\ \A x \in ZFields \ {"length", "mode"} : f[x] = g[x]
    BY <1>1 DEF ZFields
  <2> HIDE DEF f
  <2>2. Sets(e, f, n, m, e.last, l, e.offset)
    BY <1>1, <2>1 DEF Sets, Takes, ZFields
  <2>. QED
    BY <2>2 DEF f
<1>5. Sets(e, [g EXCEPT !.offset = o, !.mode = m], n, m, e.last, e.length, o)
  <2> DEFINE f == [g EXCEPT !.offset = o, !.mode = m]
  <2>1. f.offset = o /\ f.mode = m /\ \A x \in ZFields \ {"offset", "mode"} : f[x] = g[x]
    BY <1>1 DEF ZFields
  <2> HIDE DEF f
  <2>2. Sets(e, f, n, m, e.last, e.length, o)
    BY <1>1, <2>1 DEF Sets, Takes, ZFields
  <2>. QED
    BY <2>2 DEF f
<1>. QED
  BY <1>2, <1>3, <1>4, <1>5 DEF g

\* Only the mode is set.
LEMMA ModeSets ==
    ASSUME NEW e, StreamRight(e), NEW m
    PROVE  LET f == [e EXCEPT !.mode = m]
           IN  /\ Takes(e, f, 0) /\ f.mode = m /\ f.last = e.last /\ f.length = e.length
               /\ f.offset = e.offset /\ At(f) = At(e)
<1> DEFINE zero == 0
           f == [e EXCEPT !.mode = m]
<1>1. DOMAIN e = ZFields /\ e.at = e.at + zero
  BY DEF StreamRight, Shaped
<1>2. f.mode = m /\ \A x \in ZFields \ {"mode"} : f[x] = e[x]
  BY <1>1 DEF ZFields
<1> HIDE DEF zero, f
<1>3. /\ f.at = e.at + zero /\ f.last = e.last /\ f.length = e.length
      /\ f.offset = e.offset /\ f.at = e.at /\ f.stream = e.stream
      /\ \A x \in ZFields \ {"at", "have", "mode", "last", "length", "offset"} : f[x] = e[x]
  BY <1>1, <1>2 DEF ZFields
<1>. QED
  BY <1>2, <1>3 DEF Takes, At, zero, f

\* A unit that is wrong.
LEMMA WrongIs ==
    ASSUME NEW e, NEW f, NEW n, Takes(e, f, n), Kept(e), e.mode \in OpenModes, f.mode = "BAD",
           At(f).next = "bad", At(f).text = Output(e)
    PROVE  Reads(e, f)
<1>1. Output(f) = Output(e) /\ f.stream = e.stream /\ Kept(f) /\ Advances(e, f)
  BY TakesIs, Zenon
<1>2. f.mode = "BAD" /\ f.mode \notin OpenModes
  BY DEF OpenModes, OnModes
<1>3. Follows(f, At(f))
  BY <1>1, <1>2 DEF Follows
<1>. QED
  BY <1>1, <1>3 DEF Reads, ReadRight

\* The unit that is read next is the reference's.
LEMMA ReadingIs ==
    ASSUME StreamInv, ReadRight(z), z.have # 0, NEW f, Takes(z, f, 1)
    PROVE  LET u == z.stream.units[z.at]
           IN  /\ Unpack!Kind(z) = u[1] /\ Unpack!Value(z) = u[2]
               /\ At(f) = Unpack!Decode(z.stream, At(z), u)
               /\ DOMAIN At(z) = StageFields /\ z.stream \in Streams
               /\ u[1] \in {"length", "distance"} => u[2] \in Nat \ {0}
               /\ u[1] = "distance" => u[2] <= WSize
<1>1. f.stream = z.stream /\ f.at = z.at + 1
  BY DEF Takes, ZFields
<1>2. z.at \in 1 .. Len(z.stream.units) /\ z.stream \in Streams
      /\ At(f) = Unpack!Decode(z.stream, At(z), z.stream.units[z.at])
      /\ StageRight(z.stream, At(z))
  BY <1>1, NextStage, StageHere DEF StreamInv
<1>3. Unpack!Kind(z) = z.stream.units[z.at][1] /\ Unpack!Value(z) = z.stream.units[z.at][2]
  BY DEF Unpack!Kind, Unpack!Value
<1>. QED
  BY <1>2, <1>3, UnitHas DEF StageRight

LEMMA HeaderReads == ASSUME StreamInv, ReadRight(z), Unpack!Header PROVE Reads(z, z')
<1>1. z.inside /\ z.mode = "HEAD" /\ z.mode \in OpenModes /\ z.have # 0
  BY CaseIs DEF Unpack!Header, Unpack!Stops, OnModes, OpenModes
<1> DEFINE m == IF Unpack!Kind(z) # "head" THEN "BAD" ELSE IF Unpack!Value(z) THEN "DICT" ELSE "TYPE"
           f == [Unpack!Took(z, 1) EXCEPT !.mode = m]
           r == At(z)
           q == At(f)
           u == z.stream.units[z.at]
<1>2. z' = f
  BY DEF Unpack!Header
<1>3. Takes(z, f, 1) /\ f.mode = m /\ f.last = z.last
  <2> HIDE DEF m
  <2>1. Sets(z, f, 1, m, z.last, z.length, z.offset)
    BY TookSets DEF StreamInv
  <2>. QED
    BY <2>1 DEF Sets
<1>4. /\ Kept(z) /\ r.last = z.last /\ r.dict = Used(z) /\ r.text = Output(z) /\ r.next = "head"
      /\ ~r.last /\ ~z.havedict
  BY <1>1, Zenon DEF ReadRight, Follows, StreamInv, StreamRight, Starts
<1> HIDE DEF f
<1>5. /\ Unpack!Kind(z) = u[1] /\ Unpack!Value(z) = u[2] /\ q = Unpack!Decode(z.stream, r, u)
      /\ DOMAIN r = StageFields
  BY <1>1, <1>3, ReadingIs
<1>6. /\ f.stream = z.stream /\ Output(f) = Output(z) /\ Used(f) = Used(z) /\ Used(z) = <<>>
  BY <1>3, <1>4, TakesIs DEF Used
<1> HIDE DEF u, r, q
<1>7. CASE u[1] # "head"
  <2>1. Changes(r, q, {"next"}) /\ q.next = "bad"
    BY <1>4, <1>5, <1>7, DecodeWrong, Zenon
  <2>2. q.text = Output(z) /\ f.mode = "BAD"
    BY <1>3, <1>4, <1>5, <1>7, <2>1 DEF Changes, StageFields
  <2>3. Reads(z, f)
    BY <1>1, <1>3, <1>4, <2>1, <2>2, WrongIs DEF q
  <2>. QED
    BY <1>2, <2>3
<1>8. CASE u[1] = "head"
  <2>1. /\ Changes(r, q, {"next", "dict"}) /\ q.next = "block"
        /\ q.dict = (IF u[2] THEN z.stream.dict ELSE <<>>)
    <3>1. DOMAIN r = StageFields /\ r.next = "head" /\ u[1] = "head"
      BY <1>4, <1>5, <1>8
    <3> DEFINE p == Unpack!Decode(z.stream, r, u)
    <3>2. Changes(r, p, {"next", "dict"}) /\ p.next = "block"
          /\ p.dict = (IF u[2] THEN z.stream.dict ELSE <<>>)
      BY <3>1, DecodeHead
    <3> HIDE DEF p
    <3>3. q = p
      BY <1>5 DEF p
    <3>. QED
      BY <3>2, <3>3
  <2>2. q.text = Output(z) /\ q.last = r.last
    BY <1>4, <2>1 DEF Changes, StageFields
  <2>3. f.mode = (IF u[2] THEN "DICT" ELSE "TYPE")
    BY <1>3, <1>5, <1>8
  <2>4. f.mode \in {"DICT", "TYPE"} /\ f.mode \in OpenModes
    BY <2>3 DEF OpenModes, OnModes
  <2>5. q.next = Unpack!After(q)
    BY <1>4, <2>1, <2>2 DEF Unpack!After
  <2>6. q.dict = IF f.mode = "DICT" THEN f.stream.dict ELSE Used(f)
    BY <1>6, <2>1, <2>3
  <2>7. Follows(f, q)
    BY <1>3, <1>4, <1>6, <2>1, <2>2, <2>4, <2>5, <2>6 DEF Follows
  <2>8. f.mode \notin {"DONE", "BAD", "MEM"} /\ z.mode \notin {"DONE", "BAD", "MEM"}
    BY <1>1, <2>4
  <2>9. Kept(f) /\ Advances(z, f)
    BY <1>1, <1>3, <1>4, <2>4, <2>8, TakesIs, Zenon
  <2>10. Reads(z, f)
    BY <1>6, <2>7, <2>9 DEF Reads, ReadRight, q
  <2>. QED
    BY <1>2, <2>10
<1>. QED
  BY <1>7, <1>8

LEMMA TakesRead ==
    ASSUME NEW e, NEW f, NEW n, Takes(e, f, n), Kept(e), e.mode \in OpenModes, f.mode \in OpenModes,
           Follows(f, At(f))
    PROVE  Reads(e, f)
<1>1. f.mode \notin {"DONE", "BAD", "MEM"} /\ e.mode \notin {"DONE", "BAD", "MEM"}
  BY DEF OpenModes, OnModes
<1>2. f.stream = e.stream /\ Kept(f) /\ Advances(e, f)
  BY <1>1, TakesIs, Zenon
<1>. QED
  BY <1>2 DEF Reads, ReadRight

LEMMA DictReads == ASSUME StreamInv, ReadRight(z), Unpack!Dict PROVE Reads(z, z')
<1>1. z.inside /\ z.mode = "DICT" /\ z.mode \in OpenModes /\ z.havedict
  BY CaseIs DEF Unpack!Dict, OnModes, OpenModes
<1> DEFINE m == "TYPE"
           f == [z EXCEPT !.mode = m]
           r == At(z)
<1>2. z' = f /\ m = "TYPE"
  BY DEF Unpack!Dict
<1> HIDE DEF m
<1>3. Takes(z, f, 0) /\ f.mode = m /\ f.last = z.last /\ At(f) = r
  BY ModeSets DEF StreamInv
<1>4. /\ Kept(z) /\ r.last = z.last /\ r.dict = z.stream.dict /\ r.text = Output(z)
      /\ r.next = "block" /\ ~r.last
  BY <1>1, Zenon DEF ReadRight, Follows
<1> HIDE DEF f
<1>5. f.stream = z.stream /\ Output(f) = Output(z) /\ Used(f) = Used(z)
  BY <1>3, TakesIs
<1>6. Used(z) = z.stream.dict
  BY <1>1 DEF Used
<1>7. f.mode = "TYPE" /\ f.mode \in OpenModes
  BY <1>2, <1>3 DEF OpenModes, OnModes
<1> HIDE DEF r
<1>8. r.next = Unpack!After(r)
  BY <1>4 DEF Unpack!After
<1>9. Follows(f, r)
  BY <1>3, <1>4, <1>5, <1>6, <1>7, <1>8 DEF Follows
<1>10. Reads(z, f)
  BY <1>1, <1>3, <1>4, <1>7, <1>9, TakesRead
<1>. QED
  BY <1>2, <1>10

LEMMA TypeReads == ASSUME StreamInv, ReadRight(z), Unpack!Type PROVE Reads(z, z')
<1>1. z.inside /\ z.mode = "TYPE" /\ z.mode \in OpenModes
  BY CaseIs DEF Unpack!Type, OnModes, OpenModes
<1> DEFINE m == "TYPEDO"
           f == [z EXCEPT !.mode = m]
           r == At(z)
<1>2. z' = f /\ m = "TYPEDO"
  BY DEF Unpack!Type
<1> HIDE DEF m
<1>3. Takes(z, f, 0) /\ f.mode = m /\ f.last = z.last /\ At(f) = r
  BY ModeSets DEF StreamInv
<1>4. /\ Kept(z) /\ r.last = z.last /\ r.dict = Used(z) /\ r.text = Output(z)
      /\ r.next = Unpack!After(r)
  BY <1>1, Zenon DEF ReadRight, Follows
<1> HIDE DEF f
<1>5. f.stream = z.stream /\ Output(f) = Output(z) /\ Used(f) = Used(z)
  BY <1>3, TakesIs
<1>7. f.mode = "TYPEDO" /\ f.mode \in OpenModes
  BY <1>2, <1>3 DEF OpenModes, OnModes
<1> HIDE DEF r
<1>9. Follows(f, r)
  BY <1>3, <1>4, <1>5, <1>7 DEF Follows
<1>10. Reads(z, f)
  BY <1>1, <1>3, <1>4, <1>7, <1>9, TakesRead
<1>. QED
  BY <1>2, <1>10

LEMMA TypeDoReads == ASSUME StreamInv, ReadRight(z), Unpack!TypeDo PROVE Reads(z, z')
<1>1. z.inside /\ z.mode = "TYPEDO" /\ z.mode \in OpenModes /\ (~z.last => z.have # 0)
  BY CaseIs DEF Unpack!TypeDo, Unpack!Stops, OnModes, OpenModes
<1> DEFINE r == At(z)
<1>2. /\ Kept(z) /\ r.last = z.last /\ r.dict = Used(z) /\ r.text = Output(z)
      /\ r.next = Unpack!After(r)
  BY <1>1, Zenon DEF ReadRight, Follows
<1>3. CASE z.last
  <2> DEFINE m == "CHECK"
             f == [z EXCEPT !.mode = m]
  <2>1. z' = f /\ m = "CHECK"
    BY <1>3 DEF Unpack!TypeDo
  <2> HIDE DEF m
  <2>2. Takes(z, f, 0) /\ f.mode = m /\ f.last = z.last /\ At(f) = r
    BY ModeSets DEF StreamInv
  <2> HIDE DEF f, r
  <2>3. f.stream = z.stream /\ Output(f) = Output(z) /\ Used(f) = Used(z)
    BY <2>2, TakesIs
  <2>4. f.mode = "CHECK" /\ f.mode \in OpenModes
    BY <2>1, <2>2 DEF OpenModes, OnModes
  <2>5. r.next = "check"
    BY <1>2, <1>3 DEF Unpack!After
  <2>6. Follows(f, r)
    BY <1>2, <2>2, <2>3, <2>4, <2>5 DEF Follows
  <2>7. Reads(z, f)
    BY <1>1, <1>2, <2>2, <2>4, <2>6, TakesRead
  <2>. QED
    BY <2>1, <2>7
<1>4. CASE ~z.last
  <2> DEFINE m == CASE Unpack!Kind(z) = "stored" -> "STORED"
                    [] Unpack!Kind(z) = "codes" -> "LEN"
                    [] OTHER -> "BAD"
             y == Unpack!Value(z)
             f == [Unpack!Took(z, 1) EXCEPT !.last = y, !.mode = m]
             q == At(f)
             u == z.stream.units[z.at]
  <2>1. z' = f
    BY <1>4 DEF Unpack!TypeDo
  <2>2. Takes(z, f, 1) /\ f.mode = m /\ f.last = y
    <3> HIDE DEF m, y
    <3>1. Sets(z, f, 1, m, y, z.length, z.offset)
      BY TookSets DEF StreamInv
    <3>. QED
      BY <3>1 DEF Sets
  <2> HIDE DEF f
  <2>3. /\ Unpack!Kind(z) = u[1] /\ y = u[2] /\ q = Unpack!Decode(z.stream, r, u)
        /\ DOMAIN r = StageFields
    BY <1>1, <1>4, <2>2, ReadingIs
  <2>4. f.stream = z.stream /\ Output(f) = Output(z) /\ Used(f) = Used(z)
    BY <2>2, TakesIs
  <2> HIDE DEF u, r, q, y
  <2>5. r.next = "block"
    BY <1>2, <1>4 DEF Unpack!After
  <2>6. CASE u[1] \notin {"stored", "codes"}
    <3>1. Changes(r, q, {"next"}) /\ q.next = "bad"
      BY <2>3, <2>5, <2>6, DecodeWrong, Zenon
    <3>2. q.text = Output(z) /\ f.mode = "BAD"
      BY <1>2, <2>2, <2>3, <2>6, <3>1 DEF Changes, StageFields
    <3>3. Reads(z, f)
      BY <1>1, <1>2, <2>2, <3>1, <3>2, WrongIs DEF q
    <3>. QED
      BY <2>1, <3>3
  <2>7. CASE u[1] \in {"stored", "codes"}
    <3>1. /\ Changes(r, q, {"next", "last"}) /\ q.last = y
          /\ q.next = (IF u[1] = "stored" THEN "size" ELSE "code")
      <4> DEFINE p == Unpack!Decode(z.stream, r, u)
      <4>1. /\ Changes(r, p, {"next", "last"}) /\ p.last = u[2]
            /\ p.next = (IF u[1] = "stored" THEN "size" ELSE "code")
        BY <2>3, <2>5, <2>7, DecodeBlock
      <4> HIDE DEF p
      <4>. QED
        BY <2>3, <4>1 DEF p
    <3>2. q.text = Output(z) /\ q.dict = r.dict
      BY <1>2, <3>1 DEF Changes, StageFields
    <3>3. f.mode = (IF u[1] = "stored" THEN "STORED" ELSE "LEN")
      BY <2>2, <2>3, <2>7
    <3>4. f.mode \in {"STORED", "LEN"} /\ f.mode \in OpenModes
      BY <3>3 DEF OpenModes, OnModes
    <3>5. Follows(f, q)
      BY <1>2, <2>2, <2>4, <3>1, <3>2, <3>3, <3>4 DEF Follows
    <3>6. Reads(z, f)
      BY <1>1, <1>2, <2>2, <3>4, <3>5, TakesRead DEF q
    <3>. QED
      BY <2>1, <3>6
  <2>. QED
    BY <2>6, <2>7
<1>. QED
  BY <1>3, <1>4

LEMMA StoredReads == ASSUME StreamInv, ReadRight(z), Unpack!Stored PROVE Reads(z, z')
<1>1. z.inside /\ z.mode = "STORED" /\ z.mode \in OpenModes /\ z.have # 0
  BY CaseIs DEF Unpack!Stored, Unpack!Stops, OnModes, OpenModes
<1> DEFINE r == At(z)
           u == z.stream.units[z.at]
<1>2. /\ Kept(z) /\ r.last = z.last /\ r.dict = Used(z) /\ r.text = Output(z) /\ r.next = "size"
  BY <1>1, Zenon DEF ReadRight, Follows
<1>3. CASE Unpack!Kind(z) = "size"
  <2> DEFINE m == "COPY"
             l == Unpack!Value(z)
             f == [Unpack!Took(z, 1) EXCEPT !.length = l, !.mode = m]
             q == At(f)
  <2>1. z' = f /\ m = "COPY"
    BY <1>3 DEF Unpack!Stored
  <2> HIDE DEF m, l
  <2>2. Takes(z, f, 1) /\ f.mode = m /\ f.last = z.last /\ f.length = l
    <3>1. Sets(z, f, 1, m, z.last, l, z.offset)
      BY TookSets DEF StreamInv
    <3>. QED
      BY <3>1 DEF Sets
  <2> HIDE DEF f
  <2>3. /\ u[1] = "size" /\ l = u[2] /\ q = Unpack!Decode(z.stream, r, u) /\ DOMAIN r = StageFields
    BY <1>1, <1>3, <2>2, ReadingIs DEF l
  <2>4. f.stream = z.stream /\ Output(f) = Output(z) /\ Used(f) = Used(z)
    BY <2>2, TakesIs
  <2> HIDE DEF u, r, q
  <2>5. /\ Changes(r, q, {"next", "n"}) /\ q.n = l
        /\ q.next = (IF l = 0 THEN Unpack!After(r) ELSE "byte")
    <3> DEFINE p == Unpack!Decode(z.stream, r, u)
    <3>1. /\ Changes(r, p, {"next", "n"}) /\ p.n = u[2]
          /\ p.next = (IF u[2] = 0 THEN Unpack!After(r) ELSE "byte")
      BY <1>2, <2>3, DecodeSize
    <3> HIDE DEF p
    <3>. QED
      BY <2>3, <3>1 DEF p
  <2>6. q.text = Output(z) /\ q.dict = r.dict /\ q.last = r.last
    BY <1>2, <2>5 DEF Changes, StageFields
  <2>7. Unpack!After(q) = Unpack!After(r)
    BY <2>6 DEF Unpack!After
  <2>8. f.mode = "COPY" /\ f.mode \in OpenModes
    BY <2>1, <2>2 DEF OpenModes, OnModes
  <2>9. IF f.length = 0 THEN q.next = Unpack!After(q) ELSE q.next = "byte" /\ q.n = f.length
    BY <2>2, <2>5, <2>7
  <2>10. Follows(f, q)
    BY <1>2, <2>2, <2>4, <2>6, <2>8, <2>9 DEF Follows
  <2>11. Reads(z, f)
    BY <1>1, <1>2, <2>2, <2>8, <2>10, TakesRead DEF q
  <2>. QED
    BY <2>1, <2>11
<1>4. CASE Unpack!Kind(z) # "size"
  <2> DEFINE m == "BAD"
             f == [Unpack!Took(z, 1) EXCEPT !.mode = m]
             q == At(f)
  <2>1. z' = f /\ m = "BAD"
    BY <1>4 DEF Unpack!Stored
  <2> HIDE DEF m
  <2>2. Takes(z, f, 1) /\ f.mode = m
    <3>1. Sets(z, f, 1, m, z.last, z.length, z.offset)
      BY TookSets DEF StreamInv
    <3>. QED
      BY <3>1 DEF Sets
  <2> HIDE DEF f
  <2>3. u[1] # "size" /\ q = Unpack!Decode(z.stream, r, u) /\ DOMAIN r = StageFields
    BY <1>1, <1>4, <2>2, ReadingIs
  <2> HIDE DEF u, r, q
  <2>4. Changes(r, q, {"next"}) /\ q.next = "bad"
    BY <1>2, <2>3, DecodeWrong, Zenon
  <2>5. q.text = Output(z) /\ f.mode = "BAD"
    BY <1>2, <2>1, <2>2, <2>4 DEF Changes, StageFields
  <2>6. Reads(z, f)
    BY <1>1, <1>2, <2>2, <2>4, <2>5, WrongIs DEF q
  <2>. QED
    BY <2>1, <2>6
<1>. QED
  BY <1>3, <1>4

LEMMA LenReads == ASSUME StreamInv, ReadRight(z), Unpack!Len_ PROVE Reads(z, z')
<1>1. z.inside /\ z.mode = "LEN" /\ z.mode \in OpenModes /\ z.have # 0
  BY CaseIs DEF Unpack!Len_, Unpack!Stops, OnModes, OpenModes
<1> DEFINE r == At(z)
           u == z.stream.units[z.at]
           k == Unpack!Kind(z)
           l == Unpack!Value(z)
<1>2. /\ Kept(z) /\ r.last = z.last /\ r.dict = Used(z) /\ r.text = Output(z) /\ r.next = "code"
  BY <1>1, Zenon DEF ReadRight, Follows
<1>3. CASE k \in {"lit", "length"}
  <2> DEFINE m == IF k = "lit" THEN "LIT" ELSE "DIST"
             f == [Unpack!Took(z, 1) EXCEPT !.length = l, !.mode = m]
             q == At(f)
  <2>1. z' = f
    BY <1>3 DEF Unpack!Len_
  <2>2. Takes(z, f, 1) /\ f.mode = m /\ f.last = z.last /\ f.length = l
    <3> HIDE DEF m, l
    <3>1. Sets(z, f, 1, m, z.last, l, z.offset)
      BY TookSets DEF StreamInv
    <3>. QED
      BY <3>1 DEF Sets
  <2> HIDE DEF f
  <2>3. /\ k = u[1] /\ l = u[2] /\ q = Unpack!Decode(z.stream, r, u) /\ DOMAIN r = StageFields
        /\ (u[1] = "length" => u[2] # 0)
    BY <1>1, <2>2, ReadingIs
  <2>4. f.stream = z.stream /\ Output(f) = Output(z) /\ Used(f) = Used(z)
    BY <2>2, TakesIs
  <2> DEFINE p == Unpack!Decode(z.stream, r, u)
  <2> HIDE DEF u, r, k, l
  <2>5. CASE k = "lit"
    <3>0. u[1] = "lit" /\ DOMAIN r = StageFields /\ r.next = "code"
      BY <1>2, <2>3, <2>5
    <3> HIDE DEF q
    <3>1. Changes(r, p, {"text"}) /\ p.text = Append(r.text, u[2])
      BY <3>0, DecodeLit
    <3> HIDE DEF p, q
    <3>2. Changes(r, q, {"text"}) /\ q.text = Append(Output(z), l)
      BY <1>2, <2>3, <3>1 DEF p
    <3>3. q.dict = r.dict /\ q.last = r.last /\ q.next = r.next
      BY <3>2 DEF Changes, StageFields
    <3>4. f.mode = "LIT" /\ f.mode \in OpenModes
      BY <2>2, <2>5 DEF OpenModes, OnModes
    <3>5. Follows(f, q)
      BY <1>2, <2>2, <2>4, <3>2, <3>3, <3>4 DEF Follows
    <3>6. Reads(z, f)
      BY <1>1, <1>2, <2>2, <3>4, <3>5, TakesRead DEF q
    <3>. QED
      BY <2>1, <3>6
  <2>6. CASE k = "length"
    <3>0. u[1] = "length" /\ DOMAIN r = StageFields /\ r.next = "code"
      BY <1>2, <2>3, <2>6
    <3> HIDE DEF q
    <3>1. Changes(r, p, {"next", "n"}) /\ p.next = "distance" /\ p.n = u[2]
      BY <3>0, DecodeLength
    <3> HIDE DEF p, q
    <3>2. Changes(r, q, {"next", "n"}) /\ q.next = "distance" /\ q.n = l /\ l # 0
      BY <2>3, <2>6, <3>1 DEF p
    <3>3. q.dict = r.dict /\ q.last = r.last /\ q.text = r.text
      BY <3>2 DEF Changes, StageFields
    <3>4. f.mode = "DIST" /\ f.mode \in OpenModes
      BY <2>2, <2>6 DEF OpenModes, OnModes
    <3>5. Follows(f, q)
      BY <1>2, <2>2, <2>4, <3>2, <3>3, <3>4 DEF Follows
    <3>6. Reads(z, f)
      BY <1>1, <1>2, <2>2, <3>4, <3>5, TakesRead DEF q
    <3>. QED
      BY <2>1, <3>6
  <2>. QED
    BY <1>3, <2>5, <2>6
<1>4. CASE k \notin {"lit", "length"}
  <2> DEFINE m == IF k = "end" THEN "TYPE" ELSE "BAD"
             f == [Unpack!Took(z, 1) EXCEPT !.mode = m]
             q == At(f)
  <2>1. z' = f
    BY <1>4 DEF Unpack!Len_
  <2>2. Takes(z, f, 1) /\ f.mode = m /\ f.last = z.last
    <3> HIDE DEF m
    <3>1. Sets(z, f, 1, m, z.last, z.length, z.offset)
      BY TookSets DEF StreamInv
    <3>. QED
      BY <3>1 DEF Sets
  <2> HIDE DEF f
  <2>3. k = u[1] /\ q = Unpack!Decode(z.stream, r, u) /\ DOMAIN r = StageFields
    BY <1>1, <2>2, ReadingIs
  <2>4. f.stream = z.stream /\ Output(f) = Output(z) /\ Used(f) = Used(z)
    BY <2>2, TakesIs
  <2> DEFINE p == Unpack!Decode(z.stream, r, u)
  <2> HIDE DEF u, r, k
  <2>5. CASE k = "end"
    <3>0. u[1] = "end" /\ DOMAIN r = StageFields /\ r.next = "code"
      BY <1>2, <2>3, <2>5
    <3> HIDE DEF q
    <3>1. Changes(r, p, {"next"}) /\ p.next = Unpack!After(r)
      BY <3>0, DecodeEnd
    <3> HIDE DEF p, q
    <3>2. Changes(r, q, {"next"}) /\ q.next = Unpack!After(r)
      BY <2>3, <3>1 DEF p
    <3>3. q.dict = r.dict /\ q.last = r.last /\ q.text = r.text
      BY <3>2 DEF Changes, StageFields
    <3>4. f.mode = "TYPE" /\ f.mode \in OpenModes /\ Unpack!After(q) = Unpack!After(r)
      BY <2>2, <2>5, <3>3 DEF OpenModes, OnModes, Unpack!After
    <3>5. Follows(f, q)
      BY <1>2, <2>2, <2>4, <3>2, <3>3, <3>4 DEF Follows
    <3>6. Reads(z, f)
      BY <1>1, <1>2, <2>2, <3>4, <3>5, TakesRead DEF q
    <3>. QED
      BY <2>1, <3>6
  <2>6. CASE k # "end"
    <3>1. u[1] \notin {"lit", "length", "end"}
      BY <1>4, <2>3, <2>6
    <3> HIDE DEF q
    <3>2. Changes(r, q, {"next"}) /\ q.next = "bad"
      BY <1>2, <2>3, <3>1, DecodeWrong, Zenon
    <3>3. q.text = Output(z) /\ f.mode = "BAD"
      BY <1>2, <2>2, <2>6, <3>2 DEF Changes, StageFields
    <3>4. Reads(z, f)
      BY <1>1, <1>2, <2>2, <3>2, <3>3, WrongIs DEF q
    <3>. QED
      BY <2>1, <3>4
  <2>. QED
    BY <2>5, <2>6
<1>. QED
  BY <1>3, <1>4

\* A distance that is in the text t so far, and one that is not.
Matches(q, r, t, o) ==
    /\ q.dict = r.dict /\ q.last = r.last
    /\ IF o <= Len(t) THEN q.next = "code" /\ q.text = r.text \o Unpack!Repeated(t, o, r.n)
       ELSE q.next = "bad" /\ q.text = r.text

LEMMA MatchIs ==
    ASSUME NEW s, NEW r, DOMAIN r = StageFields, r.next = "distance", NEW u, u[1] = "distance"
    PROVE  Matches(Unpack!Decode(s, r, u), r, r.dict \o r.text, u[2])
<1> DEFINE t == r.dict \o r.text
           o == u[2]
           p == Unpack!Decode(s, r, u)
           b == Unpack!Repeated(r.dict \o r.text, u[2], r.n)
<1>1. CASE o <= Len(t)
  <2>1. u[2] <= Len(r.dict \o r.text)
    BY <1>1
  <2>2. Changes(r, p, {"next", "text"}) /\ p.next = "code" /\ p.text = r.text \o b
    BY <2>1, DecodeMatch
  <2> HIDE DEF p
  <2>3. p.dict = r.dict /\ p.last = r.last
    BY <2>2 DEF Changes, StageFields
  <2> HIDE DEF t, o
  <2>4. Matches(p, r, t, o)
    BY <1>1, <2>2, <2>3 DEF Matches, t, o
  <2>. QED
    BY <2>4 DEF p, t, o
<1>2. CASE ~(o <= Len(t))
  <2>1. ~(u[1] = "distance" /\ u[2] <= Len(r.dict \o r.text))
    BY <1>2
  <2>2. Changes(r, p, {"next"}) /\ p.next = "bad"
    BY <2>1, DecodeWrong, Zenon
  <2> HIDE DEF p
  <2>3. p.dict = r.dict /\ p.last = r.last /\ p.text = r.text
    BY <2>2 DEF Changes, StageFields
  <2> HIDE DEF t, o
  <2>4. Matches(p, r, t, o)
    BY <1>2, <2>2, <2>3 DEF Matches
  <2>. QED
    BY <2>4 DEF p, t, o
<1>. QED
  BY <1>1, <1>2

LEMMA DistReads == ASSUME StreamInv, ReadRight(z), Unpack!Dist PROVE Reads(z, z')
<1>1. z.inside /\ z.mode = "DIST" /\ z.mode \in OpenModes /\ z.have # 0
  BY CaseIs DEF Unpack!Dist, Unpack!Stops, OnModes, OpenModes
<1> DEFINE r == At(z)
           u == z.stream.units[z.at]
<1>2. /\ Kept(z) /\ r.last = z.last /\ r.dict = Used(z) /\ r.text = Output(z)
      /\ r.next = "distance" /\ r.n = z.length /\ z.length # 0
  BY <1>1, Zenon DEF ReadRight, Follows
<1>3. r.dict \o r.text = All(z)
  BY <1>2 DEF All
<1>4. CASE Unpack!Kind(z) = "distance"
  <2> DEFINE m == "MATCH"
             o == Unpack!Value(z)
             f == [Unpack!Took(z, 1) EXCEPT !.offset = o, !.mode = m]
             q == At(f)
  <2>1. z' = f /\ m = "MATCH"
    BY <1>4 DEF Unpack!Dist
  <2> HIDE DEF m, o
  <2>2. Takes(z, f, 1) /\ f.mode = m /\ f.last = z.last /\ f.length = z.length /\ f.offset = o
    <3>1. Sets(z, f, 1, m, z.last, z.length, o)
      BY TookSets DEF StreamInv
    <3>. QED
      BY <3>1 DEF Sets
  <2> HIDE DEF f
  <2>3. /\ u[1] = "distance" /\ o = u[2] /\ q = Unpack!Decode(z.stream, r, u)
        /\ DOMAIN r = StageFields
        /\ o \in Nat \ {0} /\ o <= WSize
    BY <1>1, <1>4, <2>2, ReadingIs DEF o
  <2>4. f.stream = z.stream /\ Output(f) = Output(z) /\ Used(f) = Used(z) /\ All(f) = All(z)
    BY <2>2, TakesIs
  <2>5. o \in 1 .. WSize
    BY <2>3, WSizeIs
  <2>6. f.mode = "MATCH" /\ f.mode \in OpenModes
    BY <2>1, <2>2 DEF OpenModes, OnModes
  <2> HIDE DEF u, r
  <2>7. /\ q.dict = r.dict /\ q.last = r.last
        /\ IF o <= Len(All(z))
           THEN q.next = "code" /\ q.text = Output(z) \o Unpack!Repeated(All(z), o, z.length)
           ELSE q.next = "bad" /\ q.text = Output(z)
    <3> HIDE DEF q
    <3>1. DOMAIN r = StageFields /\ r.next = "distance" /\ u[1] = "distance"
      BY <1>2, <2>3
    <3>2. Matches(Unpack!Decode(z.stream, r, u), r, r.dict \o r.text, u[2])
      BY <3>1, MatchIs
    <3>3. Matches(q, r, All(z), o)
      BY <1>3, <2>3, <3>2
    <3>. QED
      BY <1>2, <3>3 DEF Matches
  <2> HIDE DEF q
  <2>8. Matching(f, q)
    BY <1>2, <2>2, <2>4, <2>5, <2>7 DEF Matching
  <2>9. Follows(f, q)
    BY <1>2, <2>2, <2>4, <2>6, <2>7, <2>8 DEF Follows
  <2>10. Reads(z, f)
    BY <1>1, <1>2, <2>2, <2>6, <2>9, TakesRead DEF q
  <2>. QED
    BY <2>1, <2>10
<1>5. CASE Unpack!Kind(z) # "distance"
  <2> DEFINE m == "BAD"
             f == [Unpack!Took(z, 1) EXCEPT !.mode = m]
             q == At(f)
  <2>1. z' = f /\ m = "BAD"
    BY <1>5 DEF Unpack!Dist
  <2> HIDE DEF m
  <2>2. Takes(z, f, 1) /\ f.mode = m
    <3>1. Sets(z, f, 1, m, z.last, z.length, z.offset)
      BY TookSets DEF StreamInv
    <3>. QED
      BY <3>1 DEF Sets
  <2> HIDE DEF f
  <2>3. u[1] # "distance" /\ q = Unpack!Decode(z.stream, r, u) /\ DOMAIN r = StageFields
    BY <1>1, <1>5, <2>2, ReadingIs
  <2> HIDE DEF u, r, q
  <2>4. Changes(r, q, {"next"}) /\ q.next = "bad"
    BY <1>2, <2>3, DecodeWrong, Zenon
  <2>5. q.text = Output(z) /\ f.mode = "BAD"
    BY <1>2, <2>1, <2>2, <2>4 DEF Changes, StageFields
  <2>6. Reads(z, f)
    BY <1>1, <1>2, <2>2, <2>4, <2>5, WrongIs DEF q
  <2>. QED
    BY <2>1, <2>6
<1>. QED
  BY <1>4, <1>5

\* A step that takes units and puts bytes out.
Puts(e, f, n, b, m, l) ==
    /\ f.at = e.at + n /\ f.buf = e.buf \o b /\ f.mode = m /\ f.length = l
    /\ \A x \in ZFields \ {"at", "have", "mode", "length", "buf", "left"} : f[x] = e[x]

LEMMA PutSets ==
    ASSUME NEW e, StreamRight(e), NEW b, NEW m, NEW l
    PROVE  /\ Puts(e, [Unpack!Put(e, b) EXCEPT !.mode = m], 0, b, m, e.length)
           /\ Puts(e, [Unpack!Put(e, b) EXCEPT !.length = l, !.mode = m], 0, b, m, l)
<1> DEFINE g == Unpack!Put(e, b)
           zero == 0
<1>1. DOMAIN e = ZFields /\ e.at = e.at + zero
  BY DEF StreamRight, Shaped
<1>2. /\ DOMAIN g = ZFields /\ g.buf = e.buf \o b
      /\ \A x \in ZFields \ {"buf", "left"} : g[x] = e[x]
  BY <1>1, PutIs
<1> HIDE DEF g, zero
<1>3. Puts(e, [g EXCEPT !.mode = m], zero, b, m, e.length)
  <2> DEFINE f == [g EXCEPT !.mode = m]
  <2>1. f.mode = m /\ \A x \in ZFields \ {"mode"} : f[x] = g[x]
    BY <1>2 DEF ZFields
  <2> HIDE DEF f
  <2>2. Puts(e, f, zero, b, m, e.length)
    BY <1>1, <1>2, <2>1 DEF Puts, ZFields
  <2>. QED
    BY <2>2 DEF f
<1>4. Puts(e, [g EXCEPT !.length = l, !.mode = m], zero, b, m, l)
  <2> DEFINE f == [g EXCEPT !.length = l, !.mode = m]
  <2>1. f.mode = m /\ f.length = l /\ \A x \in ZFields \ {"mode", "length"} : f[x] = g[x]
    BY <1>2 DEF ZFields
  <2> HIDE DEF f
  <2>2. Puts(e, f, zero, b, m, l)
    BY <1>1, <1>2, <2>1 DEF Puts, ZFields
  <2>. QED
    BY <2>2 DEF f
<1>. QED
  BY <1>3, <1>4 DEF g, zero

LEMMA TookPutSets ==
    ASSUME NEW e, StreamRight(e), NEW n \in Nat, NEW b, NEW l
    PROVE  /\ Puts(e, Unpack!Put(Unpack!Took(e, n), b), n, b, e.mode, e.length)
           /\ Puts(e, [Unpack!Put(Unpack!Took(e, n), b) EXCEPT !.length = l], n, b, e.mode, l)
<1> DEFINE g == Unpack!Took(e, n)
           h == Unpack!Put(g, b)
<1>1. DOMAIN g = ZFields /\ g.at = e.at + n /\ \A x \in ZFields \ {"at", "have"} : g[x] = e[x]
  BY TookIs
<1> HIDE DEF g
<1>2. /\ DOMAIN h = ZFields /\ h.buf = g.buf \o b
      /\ \A x \in ZFields \ {"buf", "left"} : h[x] = g[x]
  BY <1>1, PutIs
<1> HIDE DEF h
<1>3. /\ h.buf = e.buf \o b /\ h.at = e.at + n
      /\ \A x \in ZFields \ {"at", "have", "buf", "left"} : h[x] = e[x]
  BY <1>1, <1>2 DEF ZFields
<1>4. Puts(e, h, n, b, e.mode, e.length)
  BY <1>3 DEF Puts, ZFields
<1>5. Puts(e, [h EXCEPT !.length = l], n, b, e.mode, l)
  <2> DEFINE f == [h EXCEPT !.length = l]
  <2>1. f.length = l /\ \A x \in ZFields \ {"length"} : f[x] = h[x]
    BY <1>2 DEF ZFields
  <2> HIDE DEF f
  <2>2. Puts(e, f, n, b, e.mode, l)
    BY <1>3, <2>1 DEF Puts, ZFields
  <2>. QED
    BY <2>2 DEF f
<1>. QED
  BY <1>4, <1>5 DEF g, h

\* What is put out goes on from what was.
LEMMA TextsAre ==
    ASSUME NEW e, StreamRight(e)
    PROVE  /\ IsSq(Used(e)) /\ IsSq(e.past) /\ IsSq(e.buf) /\ IsSq(Output(e)) /\ IsSq(All(e))
           /\ Before(e) = Used(e) \o e.past /\ All(e) = Before(e) \o e.buf
<1>1. IsSq(e.past) /\ IsSq(e.buf) /\ IsSq(Used(e))
  BY StreamIs, NoneIs DEF StreamRight, Used
<1>2. Before(e) = Used(e) \o e.past
  BY DEF Before, Used
<1>3. IsSq(Output(e))
  BY <1>1, Joined DEF Output
<1>4. IsSq(All(e))
  BY <1>1, <1>3, Joined DEF All
<1> DEFINE D == Used(e)
           P == e.past
           B == e.buf
<1>5. (D \o P) \o B = D \o (P \o B)
  <2> HIDE DEF D, P, B
  <2>1. IsSq(D) /\ IsSq(P) /\ IsSq(B)
    BY <1>1 DEF D, P, B
  <2>. QED
    BY <2>1, JoinAssoc
<1>. QED
  BY <1>1, <1>2, <1>3, <1>4, <1>5 DEF All, Output

LEMMA PutsIs ==
    ASSUME NEW e, StreamRight(e), NEW b, IsSq(b), NEW f, NEW n, NEW m, NEW l, Puts(e, f, n, b, m, l)
    PROVE  /\ f.stream = e.stream /\ f.last = e.last /\ f.offset = e.offset /\ f.mode = m
           /\ Output(f) = Output(e) \o b /\ Used(f) = Used(e) /\ All(f) = All(e) \o b
<1>1. /\ f.stream = e.stream /\ f.past = e.past /\ f.buf = e.buf \o b /\ f.havedict = e.havedict
      /\ f.last = e.last /\ f.offset = e.offset /\ f.mode = m
  BY DEF Puts, ZFields
<1>2. IsSq(Used(e)) /\ IsSq(e.past) /\ IsSq(e.buf) /\ IsSq(Output(e))
  BY TextsAre
<1>3. Used(f) = Used(e)
  BY <1>1 DEF Used
<1>4. Output(f) = Output(e) \o b
  <2> DEFINE P == e.past
             B == e.buf
  <2>1. IsSq(P) /\ IsSq(B)
    BY <1>2
  <2> HIDE DEF P, B
  <2>2. (P \o B) \o b = P \o (B \o b)
    BY <2>1, JoinAssoc
  <2>. QED
    BY <1>1, <2>2 DEF Output, P, B
<1>5. All(f) = All(e) \o b
  <2> DEFINE D == Used(e)
             t == Output(e)
  <2>1. IsSq(D) /\ IsSq(t)
    BY <1>2
  <2> HIDE DEF D, t
  <2>2. (D \o t) \o b = D \o (t \o b)
    BY <2>1, JoinAssoc
  <2>. QED
    BY <1>3, <1>4, <2>2 DEF All, D, t
<1>. QED
  BY <1>1, <1>3, <1>4, <1>5

LEMMA PutsRead ==
    ASSUME NEW e, StreamRight(e), e.inside, e.mode \in OpenModes, Kept(e),
           NEW b, IsSq(b), Len(b) # 0, NEW f, NEW n, NEW m \in OpenModes, NEW l,
           Puts(e, f, n, b, m, l), Follows(f, At(f))
    PROVE  Reads(e, f)
<1>1. f.stream = e.stream /\ f.mode = m /\ Output(f) = Output(e) \o b
  BY PutsIs
<1>2. /\ f.stuck = e.stuck /\ f.wsize = e.wsize /\ f.allocated = e.allocated /\ f.whave = e.whave
      /\ f.check = e.check /\ f.inside = e.inside /\ f.past = e.past
  BY DEF Puts, ZFields
<1>3. f.mode \notin {"DONE", "BAD", "MEM"} /\ e.mode \notin {"DONE", "BAD", "MEM"}
  BY <1>1 DEF OpenModes, OnModes
<1>4. f.mode # "DONE" /\ f.mode \in OpenModes
  BY <1>1, <1>3
<1>5. f.check = IF f.inside THEN f.past ELSE Output(f)
  BY <1>2, Zenon DEF Kept
<1>6. Kept(f)
  BY <1>2, <1>4, <1>5, Zenon DEF Kept
<1>7. Len(Output(f)) > Len(Output(e))
  <2> DEFINE t == Output(e)
             i == Len(t)
             j == Len(b)
  <2>1. IsSq(t)
    BY TextsAre
  <2> HIDE DEF t
  <2>2. i \in Nat /\ j \in Nat /\ Len(t \o b) = i + j /\ j # 0
    BY <2>1, Joined
  <2> HIDE DEF i, j
  <2>3. Len(t \o b) > i
    BY <2>2
  <2>. QED
    BY <1>1, <2>3 DEF t, i
<1>8. Advances(e, f)
  BY <1>3, <1>7 DEF Advances, Status
<1>. QED
  BY <1>1, <1>6, <1>8 DEF Reads, ReadRight

LEMMA LitReads == ASSUME StreamInv, ReadRight(z), Unpack!Lit PROVE Reads(z, z')
<1>1. z.inside /\ z.mode = "LIT" /\ z.mode \in OpenModes
  BY CaseIs DEF Unpack!Lit, OnModes, OpenModes
<1> DEFINE b == <<z.length>>
           m == "LEN"
           f == [Unpack!Put(z, b) EXCEPT !.mode = m]
           r == At(z)
<1>2. z' = f /\ m = "LEN"
  BY DEF Unpack!Lit
<1>3. IsSq(b) /\ Len(b) # 0
  BY OneByte
<1>4. /\ Kept(z) /\ r.last = z.last /\ r.dict = Used(z) /\ r.next = "code"
      /\ r.text = Append(Output(z), z.length)
  BY <1>1, Zenon DEF ReadRight, Follows
<1>5. r.text = Output(z) \o b
  <2>1. IsSq(Output(z))
    BY TextsAre DEF StreamInv
  <2>. QED
    BY <1>4, <2>1, AppendIs
<1> HIDE DEF b, m
<1>6. Puts(z, f, 0, b, m, z.length)
  BY PutSets DEF StreamInv
<1> HIDE DEF f
<1>7. /\ f.stream = z.stream /\ f.last = z.last /\ f.mode = m /\ Output(f) = Output(z) \o b
      /\ Used(f) = Used(z)
  BY <1>3, <1>6, PutsIs DEF StreamInv
<1>8. At(f) = r
  <2>1. f.at = z.at + 0 /\ z.at \in Nat
    BY <1>6 DEF Puts, StreamInv, StreamRight
  <2>2. f.at = z.at
    BY <2>1
  <2>. QED
    BY <1>7, <2>2 DEF At
<1>9. f.mode = "LEN" /\ m \in OpenModes /\ f.mode \in OpenModes
  BY <1>2, <1>7 DEF OpenModes, OnModes
<1> HIDE DEF r
<1>10. Follows(f, r)
  BY <1>4, <1>5, <1>7, <1>9 DEF Follows
<1>11. Reads(z, f)
  BY <1>1, <1>3, <1>4, <1>6, <1>8, <1>9, <1>10, PutsRead DEF StreamInv
<1>. QED
  BY <1>2, <1>11

\* The bytes of a stored block, from a unit on.
Stored(s, i, k) == [j \in 1 .. k |-> s.units[i + j][2]]

StoredTo(s, i, r, q, k) ==
    /\ q.dict = r.dict /\ q.last = r.last /\ q.text = r.text \o Stored(s, i, k) /\ q.n = r.n - k
    /\ q.next = IF k = r.n THEN Unpack!After(r) ELSE "byte"

LEMMA StoredIs ==
    ASSUME NEW s, NEW i, NEW k \in Nat
    PROVE  /\ IsSq(Stored(s, i, k)) /\ Len(Stored(s, i, k)) = k /\ Stored(s, i, 0) = <<>>
           /\ k # 0 => Stored(s, i, k) = Stored(s, i, k - 1) \o <<s.units[i + k][2]>>
<1>1. ASSUME NEW m \in Nat PROVE IsSq(Stored(s, i, m)) /\ Len(Stored(s, i, m)) = m
  <2> DEFINE w == Stored(s, i, m)
  <2>1. w = [j \in 1 .. m |-> w[j]]
    BY DEF Stored
  <2> HIDE DEF w
  <2>2. IsSq(w) /\ Len(w) = m
    BY <2>1, Tabled
  <2>. QED
    BY <2>2 DEF w
<1>2. Stored(s, i, 0) = <<>>
  <2> DEFINE w == Stored(s, i, 0)
             zero == 0
  <2>1. IsSq(w) /\ Len(w) = zero
    BY <1>1
  <2> HIDE DEF w
  <2>2. PICK S : w \in Seq(S)
    BY <2>1 DEF IsSq
  <2>3. w = <<>>
    BY <2>1, <2>2
  <2>. QED
    BY <2>3 DEF w
<1>3. ASSUME k # 0 PROVE Stored(s, i, k) = Stored(s, i, k - 1) \o <<s.units[i + k][2]>>
  <2> DEFINE x == Stored(s, i, k - 1)
             v == s.units[i + k][2]
             y == <<v>>
             w == Stored(s, i, k)
  <2>1. k - 1 \in Nat
    BY <1>3
  <2>2. IsSq(x) /\ Len(x) = k - 1 /\ IsSq(y) /\ Len(y) = 1 /\ y[1] = v
    BY <1>1, <2>1, OneByte
  <2>3. w = [j \in 1 .. k |-> s.units[i + j][2]] /\ x = [j \in 1 .. k - 1 |-> s.units[i + j][2]]
    BY DEF Stored
  <2> HIDE DEF x, y, w
  <2>4. x \o y = [j \in 1 .. Len(x) + Len(y) |-> IF j <= Len(x) THEN x[j] ELSE y[j - Len(x)]]
    BY <2>2, JoinedIs, Zenon
  <2>5. x \o y = [j \in 1 .. k |-> IF j <= k - 1 THEN x[j] ELSE y[j - (k - 1)]]
    <3>1. (k - 1) + 1 = k
      OBVIOUS
    <3>. QED
      BY <2>2, <2>4, <3>1
  <2>6. ASSUME NEW j \in 1 .. k
        PROVE  s.units[i + j][2] = IF j <= k - 1 THEN x[j] ELSE y[j - (k - 1)]
    <3>1. CASE j <= k - 1
      <4>1. j \in 1 .. k - 1
        BY <3>1
      <4>. QED
        BY <2>3, <3>1, <4>1
    <3>2. CASE ~(j <= k - 1)
      <4>1. j = k /\ j - (k - 1) = 1
        BY <3>2
      <4>. QED
        BY <2>2, <3>2, <4>1
    <3>. QED
      BY <3>1, <3>2
  <2>7. w = x \o y
    BY <2>3, <2>5, <2>6
  <2>. QED
    BY <2>7 DEF w, x, y
<1>. QED
  BY <1>1, <1>2, <1>3

ByteRead(r, f, u) ==
    /\ Changes(r, f, {"next", "n", "text"}) /\ f.n = r.n - 1
    /\ f.next = (IF r.n = 1 THEN Unpack!After(r) ELSE "byte") /\ f.text = Append(r.text, u[2])

LEMMA ByteIs ==
    ASSUME NEW s, NEW r, NEW u, DOMAIN r = StageFields /\ r.next = "byte"
    PROVE  ByteRead(r, Unpack!Decode(s, r, u), u)
  BY DecodeByte DEF ByteRead

LEMMA StoredBytes ==
    ASSUME NEW s \in Streams, NEW i \in Nat, NEW n \in Nat, i + n <= Len(s.units),
           Stage(s, i).next = "byte", n <= Stage(s, i).n
    PROVE  StoredTo(s, i, Stage(s, i), Stage(s, i + n), n)
<1> DEFINE r == Stage(s, i)
           l == Len(s.units)
           P == {k \in 0 .. n : StoredTo(s, i, r, Stage(s, i + k), k)}
<1>1. l \in Nat /\ i \in 0 .. l
  <2>1. l \in Nat
    BY StreamIs
  <2>. QED
    BY <2>1
<1>2. StageRight(s, r)
  BY <1>1, StagesRight
<1>3. r.n \in Nat /\ r.n # 0 /\ IsSq(r.text) /\ r.next = "byte" /\ n <= r.n
  BY <1>2 DEF StageRight
<1>4. 0 \in P
  <2>1. i + 0 = i /\ r.n - 0 = r.n /\ 0 # r.n
    BY <1>3
  <2>2. r.text \o Stored(s, i, 0) = r.text
    BY <1>3, StoredIs, JoinEmpty
  <2> HIDE DEF r
  <2>3. StoredTo(s, i, r, r, 0)
    BY <1>3, <2>1, <2>2 DEF StoredTo
  <2>. QED
    BY <2>1, <2>3 DEF r
<1>5. ASSUME NEW k \in 1 .. n, k - 1 \in P PROVE k \in P
  <2> DEFINE a == Stage(s, i + (k - 1))
             b == Stage(s, i + k)
             u == s.units[i + k]
             x == Stored(s, i, k - 1)
  <2>1. StoredTo(s, i, r, a, k - 1)
    BY <1>5
  <2>2. i + k \in 1 .. l /\ (i + k) - 1 = i + (k - 1) /\ i + (k - 1) \in 0 .. l
    BY <1>1
  <2>3. b = Unpack!Decode(s, a, u)
    BY <1>1, <2>2, StagesAre
  <2>4. StageRight(s, a)
    BY <2>2, StagesRight
  <2> HIDE DEF r
  <2>5. k - 1 # r.n /\ r.n - (k - 1) \in Nat /\ (r.n - (k - 1) = 1 <=> k = r.n)
        /\ (r.n - (k - 1)) - 1 = r.n - k
    BY <1>3
  <2>6. /\ a.dict = r.dict /\ a.last = r.last /\ a.text = r.text \o x
        /\ a.n = r.n - (k - 1) /\ a.next = "byte" /\ DOMAIN a = StageFields
    BY <2>1, <2>4, <2>5 DEF StoredTo, StageRight
  <2> HIDE DEF a, u
  <2>7. /\ Changes(a, b, {"next", "n", "text"}) /\ b.n = a.n - 1
        /\ b.next = (IF a.n = 1 THEN Unpack!After(a) ELSE "byte") /\ b.text = Append(a.text, u[2])
    <3>1. DOMAIN a = StageFields /\ a.next = "byte"
      BY <2>6
    <3>2. ByteRead(a, Unpack!Decode(s, a, u), u)
      BY <3>1, ByteIs, Zenon
    <3> HIDE DEF b
    <3>. QED
      BY <2>3, <3>2 DEF ByteRead
  <2> HIDE DEF b
  <2>8. b.dict = r.dict /\ b.last = r.last /\ Unpack!After(a) = Unpack!After(r)
    BY <2>6, <2>7 DEF Changes, StageFields, Unpack!After
  <2>9. b.text = r.text \o Stored(s, i, k)
    <3> DEFINE t == r.text
               y == <<u[2]>>
               v == a.text
    <3>1. k - 1 \in Nat /\ k \in Nat /\ k # 0
      OBVIOUS
    <3>2. IsSq(x) /\ IsSq(y) /\ IsSq(t) /\ IsSq(t \o x) /\ v = t \o x
      BY <1>3, <2>6, <3>1, StoredIs, OneByte, Joined
    <3>3. Stored(s, i, k) = x \o y
      BY <3>1, StoredIs DEF u
    <3>4. b.text = v \o y
      BY <2>7, <3>2, AppendIs
    <3> HIDE DEF x, y, t, v
    <3>5. (t \o x) \o y = t \o (x \o y)
      BY <3>2, JoinAssoc
    <3>. QED
      BY <3>2, <3>3, <3>4, <3>5 DEF t
  <2>10. b.n = r.n - k /\ b.next = IF k = r.n THEN Unpack!After(r) ELSE "byte"
    BY <2>5, <2>6, <2>7, <2>8
  <2>11. StoredTo(s, i, r, b, k)
    BY <2>8, <2>9, <2>10 DEF StoredTo
  <2>. QED
    BY <2>11 DEF b
<1> HIDE DEF P
<1>6. \A k \in 0 .. n : k \in P
  BY <1>4, <1>5, Upwards
<1>7. n \in P
  BY <1>6
<1>. QED
  BY <1>7 DEF P

LEMMA CopyReads == ASSUME StreamInv, ReadRight(z), Unpack!Copy PROVE Reads(z, z')
<1>1. /\ z.inside /\ z.mode = "COPY" /\ z.mode \in OpenModes /\ z.length \in Nat /\ z.have \in Nat
      /\ z.left \in Nat
      /\ (z.length # 0 => z.have # 0 /\ z.left # 0)
  <2>1. /\ z.inside /\ z.mode = "COPY" /\ z.mode \in OpenModes /\ ~Unpack!Stops(z)
        /\ z.length \in Nat /\ z.have \in Nat /\ z.left \in Nat
    BY CaseIs DEF Unpack!Copy, OnModes, OpenModes, StreamInv, StreamRight
  <2>2. z.length # 0 => z.length > 0
    BY <2>1
  <2>. QED
    BY <2>1, <2>2 DEF Unpack!Stops
<1> DEFINE n == Unpack!Min({z.length, z.have, z.left})
           b == [j \in 1 .. n |-> z.stream.units[z.at + j - 1][2]]
           r == At(z)
<1>2. /\ n \in Nat /\ n <= z.length /\ n <= z.have /\ (n = 0 <=> z.length = 0)
  <2> DEFINE x == z.length
             y == z.have
             w == z.left
             m == Unpack!Min({x, y, w})
  <2>1. x \in Nat /\ y \in Nat /\ w \in Nat /\ (x # 0 => y # 0 /\ w # 0)
    BY <1>1
  <2> HIDE DEF x, y, w
  <2>2. x \in Int /\ y \in Int /\ w \in Int
    BY <2>1
  <2>3. m \in {x, y, w} /\ m <= x /\ m <= y /\ m <= w
    BY <2>2, LeastOfThings, Zenon
  <2> HIDE DEF m
  <2>4. m \in Nat /\ (m = 0 <=> x = 0)
    BY <2>1, <2>3
  <2>5. n = m
    BY DEF m, x, y, w
  <2>. QED
    BY <2>3, <2>4, <2>5 DEF x, y, w
<1>3. /\ Kept(z) /\ r.last = z.last /\ r.dict = Used(z) /\ r.text = Output(z)
      /\ IF z.length = 0 THEN r.next = Unpack!After(r) ELSE r.next = "byte" /\ r.n = z.length
  BY <1>1, Zenon DEF ReadRight, Follows
<1>4. CASE n = 0
  <2> DEFINE m == "TYPE"
             f == [z EXCEPT !.mode = m]
  <2>1. z' = f /\ m = "TYPE"
    BY <1>4 DEF Unpack!Copy
  <2> HIDE DEF m
  <2>2. Takes(z, f, 0) /\ f.mode = m /\ f.last = z.last /\ At(f) = r
    BY ModeSets DEF StreamInv
  <2> HIDE DEF f, r, n
  <2>3. f.stream = z.stream /\ Output(f) = Output(z) /\ Used(f) = Used(z)
    BY <2>2, TakesIs
  <2>4. f.mode = "TYPE" /\ f.mode \in OpenModes /\ r.next = Unpack!After(r)
    BY <1>2, <1>3, <1>4, <2>1, <2>2 DEF OpenModes, OnModes
  <2>5. Follows(f, r)
    BY <1>3, <2>2, <2>3, <2>4 DEF Follows
  <2>6. Reads(z, f)
    BY <1>1, <1>3, <2>2, <2>4, <2>5, TakesRead
  <2>. QED
    BY <2>1, <2>6
<1>5. CASE n # 0
  <2> DEFINE g == Unpack!Put(Unpack!Took(z, n), b)
             l == z.length - n
             f == [g EXCEPT !.length = l]
             s == z.stream
             i == z.at - 1
             q == At(f)
  <2>1. z' = [g EXCEPT !.length = g.length - n]
    BY <1>5 DEF Unpack!Copy
  <2>2. Puts(z, f, n, b, z.mode, l) /\ g.length = z.length
    <3> HIDE DEF n, b, l, g
    <3>1. Puts(z, g, n, b, z.mode, z.length)
      BY <1>2, TookPutSets DEF StreamInv, g
    <3>2. Puts(z, f, n, b, z.mode, l)
      BY <1>2, TookPutSets DEF StreamInv, g
    <3>. QED
      BY <3>1, <3>2 DEF Puts
  <2>3. z' = f
    <3> HIDE DEF g, n
    <3>. QED
      BY <2>1, <2>2
  <2> HIDE DEF f, g
  <2>4. /\ s \in Streams /\ i \in Nat /\ i + n <= Len(s.units) /\ f.at - 1 = i + n
        /\ b = Stored(s, i, n)
    <3> DEFINE a == z.at
               h == z.have
               k == Len(s.units)
    <3>1. s \in Streams /\ a \in Nat \ {0} /\ h \in Nat /\ a + h <= k + 1 /\ f.at = a + n
      BY <2>2 DEF StreamInv, StreamRight, Puts
    <3>2. k \in Nat
      BY <3>1, StreamIs
    <3>3. n \in Nat /\ n <= h
      BY <1>2
    <3>4. ASSUME NEW j \in 1 .. n PROVE a + j - 1 = i + j
      <4> HIDE DEF n
      <4>. QED
        BY <3>1, <3>3
    <3>5. b = [j \in 1 .. n |-> s.units[i + j][2]]
      <4> HIDE DEF n, i
      <4>. QED
        BY <3>4
    <3>6. i = a - 1
      OBVIOUS
    <3> HIDE DEF a, h, k, n, i
    <3>7. i \in Nat /\ i + n <= k /\ f.at - 1 = i + n
      BY <3>1, <3>2, <3>3, <3>6
    <3>. QED
      BY <3>1, <3>5, <3>7 DEF Stored, k
  <2>5. r = Stage(s, i)
    BY DEF At
  <2>6. q = Stage(s, i + n)
    <3>1. f.stream = s
      BY <2>2 DEF Puts, ZFields
    <3>. QED
      BY <2>4, <3>1 DEF At
  <2>7. z.length # 0 /\ r.next = "byte" /\ r.n = z.length
    BY <1>2, <1>3, <1>5
  <2> HIDE DEF r, q, s, i, n, b
  <2>8. StoredTo(s, i, r, q, n)
    BY <1>2, <2>4, <2>5, <2>6, <2>7, StoredBytes
  <2>9. IsSq(b) /\ Len(b) # 0
    BY <1>2, <1>5, <2>4, StoredIs
  <2>10. /\ f.stream = z.stream /\ f.last = z.last /\ f.mode = z.mode /\ f.length = l
         /\ Output(f) = Output(z) \o b /\ Used(f) = Used(z)
    <3> DEFINE m == z.mode
    <3>1. StreamRight(z) /\ IsSq(b) /\ Puts(z, f, n, b, m, l)
      BY <2>2, <2>9 DEF StreamInv
    <3>2. f.length = l
      BY <2>2 DEF Puts
    <3> HIDE DEF l, m
    <3>3. /\ f.stream = z.stream /\ f.last = z.last /\ f.mode = m
          /\ Output(f) = Output(z) \o b /\ Used(f) = Used(z)
      BY <3>1, PutsIs
    <3>. QED
      BY <3>2, <3>3 DEF m
  <2>11. /\ q.dict = r.dict /\ q.last = r.last /\ q.text = r.text \o b /\ q.n = l
         /\ (q.next = IF l = 0 THEN Unpack!After(q) ELSE "byte")
    <3>1. /\ q.dict = r.dict /\ q.last = r.last /\ q.text = r.text \o b /\ q.n = r.n - n
          /\ (q.next = IF n = r.n THEN Unpack!After(r) ELSE "byte")
      BY <2>4, <2>8 DEF StoredTo
    <3>2. Unpack!After(q) = Unpack!After(r)
      BY <3>1 DEF Unpack!After
    <3>3. l = 0 <=> n = r.n
      BY <1>1, <1>2, <2>7
    <3>. QED
      BY <2>7, <3>1, <3>2, <3>3
  <2> HIDE DEF l
  <2>12. f.mode = "COPY" /\ f.mode \in OpenModes
    BY <1>1, <2>10
  <2>13. Follows(f, q)
    BY <1>3, <2>10, <2>11, <2>12 DEF Follows
  <2>14. Reads(z, f)
    BY <1>1, <1>3, <2>2, <2>9, <2>13, PutsRead DEF StreamInv, q
  <2>. QED
    BY <2>3, <2>14
<1>. QED
  BY <1>4, <1>5
-----------------------------------------------------------------------------
\* What a window that holds the end of the text t gives for a distance that reaches op
\* bytes into it: the bytes op before its end, if need be around its own.
GivenAt(w, next, op, j, v) ==
    LET from == IF op > next THEN (WSize + next) - op ELSE next - op
        i == from + (j - 1)
    IN  /\ w[IF i < WSize THEN i ELSE i - WSize] = v
        /\ j <= (IF op > next THEN op - next ELSE op) => i < WSize

LEMMA WindowGives ==
    ASSUME NEW w, NEW t, NEW len \in Nat, NEW next, NEW have, Turned(next, have),
           Ends(w, next, have, t, len), NEW op \in Nat, op # 0, op <= have, NEW j \in 1 .. op
    PROVE  GivenAt(w, next, op, j, t[(len - op) + j])
<1> DEFINE W == WSize
           from == IF op > next THEN (W + next) - op ELSE next - op
           i == from + (j - 1)
           k == (have - op) + j
           p == IF i < W THEN i ELSE i - W
<1>1. /\ W \in Nat /\ W # 0 /\ next \in 0 .. W - 1 /\ have \in 0 .. W /\ (have < W => have = next)
      /\ have = IF len < W THEN len ELSE W
  BY WSizeIs DEF Turned, Ends
<1> HIDE DEF W
<1>2. k \in 1 .. have /\ (len - have) + k = (len - op) + j
  BY <1>1
<1>3. p = (IF (next - have) + (k - 1) < 0 THEN ((next - have) + (k - 1)) + W
           ELSE (next - have) + (k - 1))
  <2>1. (next - have) + (k - 1) = (next - op) + (j - 1)
    BY <1>1
  <2>2. CASE op > next
    <3>1. i = W + ((next - op) + (j - 1))
      BY <1>1, <2>2
    <3> HIDE DEF i, k
    <3>. QED
      BY <1>1, <2>1, <2>2, <3>1
  <2>3. CASE ~(op > next)
    <3>1. i = (next - op) + (j - 1)
      BY <1>1, <2>3
    <3>2. (next - op) + (j - 1) >= 0 /\ (next - op) + (j - 1) < W
      BY <1>1, <2>3
    <3> HIDE DEF i, k
    <3>. QED
      BY <1>1, <2>1, <3>1, <3>2
  <2>. QED
    BY <2>2, <2>3
<1>4. p = Unpack!Place(next, have, k)
  <2>1. (next - have) + (k - 1) = next - have + k - 1
    BY <1>1
  <2> HIDE DEF p, k
  <2>. QED
    BY <1>3, <2>1 DEF Unpack!Place, W
<1>5. w[p] = t[(len - op) + j]
  <2> HIDE DEF p, k
  <2>1. w[Unpack!Place(next, have, k)] = t[len - have + k]
    BY <1>2 DEF Ends
  <2>2. len - have + k = (len - op) + j
    BY <1>2
  <2>. QED
    BY <1>4, <2>1, <2>2
<1>6. j <= (IF op > next THEN op - next ELSE op) => i < W
  BY <1>1
<1>. QED
  BY <1>5, <1>6 DEF W, GivenAt

\* The index of a byte of the window, the j-th of a match that reaches back op bytes.
Index(e, op, j) ==
    LET i == Unpack!From(e, op) + (j - 1) IN IF i < WSize THEN i ELSE i - WSize

\* In a call a distance is invalid if it is longer than the text; otherwise the window and
\* the output have what it reaches back to.
Reaches(e, dist, t) ==
    /\ dist <= Len(t)
    /\ \A j \in 1 .. dist :
         IF j <= Unpack!Beyond(e, dist)
         THEN e.window[Index(e, Unpack!Beyond(e, dist), j)] = t[(Len(t) - dist) + j]
         ELSE e.buf[(Len(e.buf) - dist) + j] = t[(Len(t) - dist) + j]

LEMMA Reach ==
    ASSUME NEW e, StreamRight(e), e.inside, e.mode \in OnModes, Kept(e), NEW dist \in 1 .. WSize
    PROVE  /\ Unpack!Invalid(e, dist) <=> ~(dist <= Len(All(e)))
           /\ ~Unpack!Invalid(e, dist) => Reaches(e, dist, All(e))
           /\ Unpack!Beyond(e, dist) = dist - Len(e.buf)
<1> DEFINE x == Before(e)
           y == e.buf
           t == x \o y
           a == Len(x)
           b == Len(y)
           next == e.wnext
           have == e.whave
           W == WSize
           op == dist - b
<1>1. IsSq(x) /\ IsSq(y) /\ All(e) = t
  <2>1. x = Used(e) \o e.past /\ IsSq(Used(e)) /\ IsSq(e.past)
    BY TextsAre
  <2>2. IsSq(Used(e) \o e.past)
    BY <2>1, Joined
  <2>. QED
    BY <2>1, <2>2, TextsAre
<1>2. /\ a \in Nat /\ b \in Nat /\ Len(t) = a + b
      /\ \A i \in 1 .. a + b : t[i] = IF i <= a THEN x[i] ELSE y[i - a]
  <2> HIDE DEF x, y
  <2>. QED
    BY <1>1, Joined
<1>3. Turned(next, have) /\ Ends(e.window, next, have, x, a)
  <2>1. e.mode \notin {"DONE", "BAD"}
    BY DEF OnModes
  <2>2. SoFar(e) = x
    <3>1. SoFar(e) = x \o <<>> /\ IsSq(x)
      BY <1>1 DEF SoFar
    <3> HIDE DEF x
    <3>. QED
      BY <3>1, JoinEmpty
  <2>3. Holds(e, SoFar(e)) /\ Shaped(e)
    BY DEF StreamRight
  <2>. QED
    BY <2>2, <2>3 DEF Holds, Shaped
<1>4. Unpack!Beyond(e, dist) = op
  <2>1. e.out - e.left = Len(e.buf)
    BY DEF StreamRight, OnModes
  <2>. QED
    BY <2>1 DEF Unpack!Beyond, Unpack!Wrote
<1>5. W \in Nat /\ dist \in 1 .. W /\ have = (IF a < W THEN a ELSE W)
  BY <1>3, WSizeIs DEF Ends
<1>6. Unpack!Invalid(e, dist) <=> op > have
  BY <1>4 DEF Unpack!Invalid
<1>7. op > have <=> ~(dist <= a + b)
  <2> HIDE DEF a, b, have, W
  <2>. QED
    BY <1>2, <1>5
<1>8. ASSUME ~(op > have) PROVE Reaches(e, dist, t)
  <2>1. dist <= Len(t) /\ Len(t) = a + b
    BY <1>2, <1>7, <1>8
  <2>2. ASSUME NEW j \in 1 .. dist
        PROVE  IF j <= op THEN e.window[Index(e, op, j)] = t[(Len(t) - dist) + j]
               ELSE y[(b - dist) + j] = t[(Len(t) - dist) + j]
    <3> DEFINE k == (Len(t) - dist) + j
    <3>1. CASE j <= op
      <4>1. op \in Nat /\ op # 0 /\ op <= have /\ j \in 1 .. op /\ have # 0 /\ have \in Nat
        <5>1. have \in Nat /\ b \in Nat /\ dist \in Nat
          BY <1>2, <1>5
        <5> HIDE DEF b, have
        <5>. QED
          BY <1>8, <3>1, <5>1
      <4>2. e.wsize = W
        BY <4>1 DEF Kept
      <4> DEFINE from == IF op > next THEN (W + next) - op ELSE next - op
                 i == from + (j - 1)
      <4>3. e.window[IF i < WSize THEN i ELSE i - WSize] = x[(a - op) + j]
        <5> HIDE DEF op, x, next, have, a
        <5>1. GivenAt(e.window, next, op, j, x[(a - op) + j])
          BY <1>2, <1>3, <4>1, WindowGives, Zenon
        <5>. QED
          BY <5>1 DEF GivenAt
      <4>4. Unpack!From(e, op) = from
        <5>1. next \in Int /\ W \in Int
          BY <1>3, <1>5 DEF Turned
        <5>2. Unpack!From(e, op) = IF op > next THEN W + (next - op) ELSE next - op
          BY <4>2, Zenon DEF Unpack!From
        <5> HIDE DEF op, next, W
        <5>3. op \in Int
          BY <4>1
        <5>. QED
          BY <5>1, <5>2, <5>3
      <4>5. e.window[Index(e, op, j)] = x[(a - op) + j]
        <5> HIDE DEF op, from
        <5>. QED
          BY <4>3, <4>4 DEF Index
      <4>6. k = (a - op) + j /\ k \in 1 .. a + b /\ k <= a
        <5> HIDE DEF t, a, b, have, W
        <5>. QED
          BY <1>2, <1>5, <2>1, <3>1
      <4> HIDE DEF op, t, x, a, k
      <4>. QED
        BY <1>2, <3>1, <4>5, <4>6 DEF k
    <3>2. CASE ~(j <= op)
      <4>1. k - a = (b - dist) + j /\ k \in 1 .. a + b /\ ~(k <= a)
        <5> HIDE DEF t, a, b, have, W
        <5>. QED
          BY <1>2, <1>5, <2>1, <3>2
      <4> HIDE DEF op, t, x, a, k, y, b
      <4>2. t[k] = y[(b - dist) + j]
        BY <1>2, <4>1
      <4>. QED
        BY <3>2, <4>2 DEF k
    <3>. QED
      BY <3>1, <3>2
  <2> HIDE DEF op, t
  <2>. QED
    BY <1>4, <2>1, <2>2 DEF Reaches
<1>9. Len(All(e)) = a + b
  BY <1>1, <1>2
<1> HIDE DEF t, op, a, b, have
<1>10. Unpack!Invalid(e, dist) <=> ~(dist <= Len(All(e)))
  BY <1>6, <1>7, <1>9
<1>11. ~Unpack!Invalid(e, dist) => Reaches(e, dist, All(e))
  BY <1>1, <1>6, <1>8
<1>. QED
  BY <1>4, <1>10, <1>11 DEF op, b

\* All at once: each byte from the window, from its start, from the output or from what was
\* copied already.
FastByte(e, dist, f, j) ==
    LET op == Unpack!Beyond(e, dist)
        from == Unpack!From(e, op)
    IN  IF j < op THEN e.window[IF from + j < e.wsize THEN from + j ELSE from + j - e.wsize]
        ELSE IF j < dist THEN e.buf[Len(e.buf) - dist + j + 1]
        ELSE f[j - dist]
FastBytes(e, dist, n, f) == f = [j \in 0 .. n - 1 |-> FastByte(e, dist, f, j)]

LEMMA FastByteIs ==
    ASSUME NEW e, StreamRight(e), e.inside, e.mode \in OnModes, Kept(e), NEW dist \in 1 .. WSize,
           ~Unpack!Invalid(e, dist), NEW n \in Nat, NEW f, NEW j \in 0 .. n - 1,
           ~(j < dist) => f[j - dist] = Unpack!Repeated(All(e), dist, n)[(j - dist) + 1]
    PROVE  FastByte(e, dist, f, j) = Unpack!Repeated(All(e), dist, n)[j + 1]
<1> DEFINE t == All(e)
           R == Unpack!Repeated(t, dist, n)
           op == Unpack!Beyond(e, dist)
           l == Len(t)
           b == Len(e.buf)
           i == j + 1
<1>1. Reaches(e, dist, t) /\ IsSq(t) /\ op = dist - b /\ IsSq(e.buf)
  BY Reach, TextsAre
<1>2. b \in Nat /\ l \in Nat
  BY <1>1, Joined
<1>3. dist \in 1 .. l
  BY <1>1, <1>2 DEF Reaches
<1>4. i \in 1 .. n /\ (i <= dist <=> j < dist) /\ i - 1 = j /\ dist \in Nat /\ j \in Nat
  OBVIOUS
<1>5. (i <= dist => R[i] = t[(l - dist) + i]) /\ (~(i <= dist) => R[i] = R[i - dist])
  <2> HIDE DEF i, t
  <2>. QED
    BY <1>1, <1>3, <1>4, RepeatedAt
<1>6. CASE j < dist
  <2>0. i \in 1 .. dist /\ R[i] = t[(l - dist) + i]
    BY <1>4, <1>5, <1>6
  <2>1. IF i <= op THEN e.window[Index(e, op, i)] = R[i] ELSE e.buf[(b - dist) + i] = R[i]
    <3> HIDE DEF R, i, op
    <3>. QED
      BY <1>1, <2>0 DEF Reaches, op
  <2>2. CASE j < op
    <3>1. i <= op /\ op \in Nat /\ op # 0
      BY <1>1, <1>2, <1>4, <2>2
    <3>2. e.wsize = WSize /\ e.whave \in Nat /\ e.wnext \in Nat /\ WSize \in Nat
      <4>1. e.whave \in Nat /\ e.wnext \in Nat /\ WSize \in Nat
        BY WSizeIs DEF StreamRight, Shaped, Turned
      <4>2. op <= e.whave
        BY <3>1, <4>1 DEF Unpack!Invalid
      <4>3. e.whave # 0
        BY <3>1, <4>1, <4>2
      <4>. QED
        BY <4>1, <4>3 DEF Kept
    <3> DEFINE from == Unpack!From(e, op)
               x == e.wnext
    <3>3. from \in Int
      <4>1. from = IF op > x THEN WSize + (x - op) ELSE x - op
        BY <3>2, Zenon DEF Unpack!From
      <4> HIDE DEF from, op, x
      <4>2. x \in Nat
        BY <3>2 DEF x
      <4>. QED
        BY <3>1, <3>2, <4>1, <4>2
    <3> HIDE DEF op, from, i
    <3>4. Index(e, op, i) = IF from + j < e.wsize THEN from + j ELSE from + j - e.wsize
      <4>1. from + (i - 1) = from + j
        BY <1>4
      <4>2. (from + j) - WSize = from + j - WSize
        BY <1>4, <3>2, <3>3
      <4>. QED
        BY <3>2, <4>1, <4>2 DEF Index, from
    <3>5. FastByte(e, dist, f, j) = e.window[Index(e, op, i)]
      BY <2>2, <3>4, Zenon DEF FastByte, from, op
    <3>. QED
      BY <2>1, <3>1, <3>5 DEF i
  <2>3. CASE ~(j < op)
    <3>1. ~(i <= op)
      <4> HIDE DEF i, op
      <4>. QED
        BY <1>1, <1>4, <2>3
    <3>2. FastByte(e, dist, f, j) = e.buf[b - dist + j + 1]
      BY <1>6, <2>3, Zenon DEF FastByte
    <3>3. b - dist + j + 1 = (b - dist) + i
      <4> HIDE DEF b
      <4>. QED
        BY <1>2, <1>4
    <3>4. FastByte(e, dist, f, j) = R[i]
      <4> HIDE DEF op, R, b
      <4>. QED
        BY <2>1, <3>1, <3>2, <3>3
    <3>. QED
      BY <3>4
  <2>. QED
    BY <2>2, <2>3
<1>7. CASE ~(j < dist)
  <2>1. ~(j < op)
    <3> HIDE DEF op, b
    <3>. QED
      BY <1>1, <1>2, <1>4, <1>7
  <2>2. FastByte(e, dist, f, j) = f[j - dist]
    BY <1>7, <2>1, Zenon DEF FastByte
  <2>3. (j - dist) + 1 = i - dist
    BY <1>4
  <2> HIDE DEF R
  <2>4. f[j - dist] = R[(j - dist) + 1]
    BY <1>7 DEF R
  <2>. QED
    BY <1>4, <1>5, <1>7, <2>2, <2>3, <2>4 DEF R
<1>. QED
  BY <1>6, <1>7

LEMMA FastRepeats ==
    ASSUME NEW e, StreamRight(e), e.inside, e.mode \in OnModes, Kept(e), NEW dist \in 1 .. WSize,
           ~Unpack!Invalid(e, dist), NEW n \in Nat
    PROVE  Unpack!FastMatch(e, dist, n) = Unpack!Repeated(All(e), dist, n)
<1> DEFINE R == Unpack!Repeated(All(e), dist, n)
           q == CHOOSE g : FastBytes(e, dist, n, g)
<1>1. \E g : FastBytes(e, dist, n, g)
  <2> DEFINE g == [j \in 0 .. n - 1 |-> R[j + 1]]
  <2>1. ASSUME NEW j \in 0 .. n - 1 PROVE g[j] = FastByte(e, dist, g, j)
    <3>1. g[j] = R[j + 1]
      OBVIOUS
    <3>2. ~(j < dist) => j - dist \in 0 .. n - 1
      OBVIOUS
    <3>3. ~(j < dist) => g[j - dist] = R[(j - dist) + 1]
      <4> HIDE DEF R
      <4>. QED
        BY <3>2
    <3> HIDE DEF g
    <3>4. FastByte(e, dist, g, j) = R[j + 1]
      BY <3>3, FastByteIs, Zenon
    <3>. QED
      BY <3>1, <3>4
  <2>2. g = [j \in 0 .. n - 1 |-> g[j]]
    OBVIOUS
  <2> HIDE DEF g
  <2>3. FastBytes(e, dist, n, g)
    BY <2>1, <2>2 DEF FastBytes
  <2>. QED
    BY <2>3
<1>2. FastBytes(e, dist, n, q)
  BY <1>1
<1>3. Unpack!FastMatch(e, dist, n) = [j \in 1 .. n |-> q[j - 1]]
  BY DEF Unpack!FastMatch, FastBytes, FastByte
<1> HIDE DEF q
<1>4. \A j \in 0 .. n - 1 : q[j] = FastByte(e, dist, q, j)
  <2> SUFFICES ASSUME NEW j \in 0 .. n - 1 PROVE q[j] = FastByte(e, dist, q, j)
    OBVIOUS
  <2>1. q = [i \in 0 .. n - 1 |-> FastByte(e, dist, q, i)]
    BY <1>2 DEF FastBytes
  <2>. QED
    BY <2>1, Zenon
<1>5. \A j \in 0 .. n - 1 : q[j] = R[j + 1]
  <2> DEFINE S == {j \in 0 .. n - 1 : q[j] # R[j + 1]}
  <2> SUFFICES ASSUME S # {} PROVE FALSE
    OBVIOUS
  <2>1. S \in SUBSET Nat
    OBVIOUS
  <2>2. PICK j \in S : \A k \in S : j <= k
    <3> HIDE DEF S
    <3>. QED
      BY <2>1, LeastElement
  <2>3. j \in 0 .. n - 1 /\ q[j] # R[j + 1]
    OBVIOUS
  <2>4. ~(j < dist) => q[j - dist] = R[(j - dist) + 1]
    <3> HAVE ~(j < dist)
    <3> DEFINE i == j - dist
    <3>1. i \in 0 .. n - 1 /\ ~(j <= i)
      BY <2>3
    <3>2. i \notin S
      BY <2>2, <3>1
    <3>. QED
      BY <3>1, <3>2
  <2> HIDE DEF S
  <2>5. FastByte(e, dist, q, j) = R[j + 1]
    BY <2>3, <2>4, FastByteIs, Zenon
  <2>. QED
    BY <1>4, <2>3, <2>5
<1>6. R = [j \in 1 .. n |-> R[j]]
  BY DEF Unpack!Repeated
<1> HIDE DEF R
<1>7. \A j \in 1 .. n : q[j - 1] = R[j]
  <2> SUFFICES ASSUME NEW j \in 1 .. n PROVE q[j - 1] = R[j]
    OBVIOUS
  <2>1. j - 1 \in 0 .. n - 1 /\ (j - 1) + 1 = j
    OBVIOUS
  <2>2. q[j - 1] = R[(j - 1) + 1]
    BY <1>5, <2>1
  <2>. QED
    BY <2>1, <2>2
<1>. QED
  BY <1>3, <1>6, <1>7 DEF R

\* A piece at a time: as much as lies in one piece of the window, or is in the output.
LEMMA PieceRepeats ==
    ASSUME NEW e, StreamRight(e), e.inside, e.mode \in OnModes, Kept(e), NEW dist \in 1 .. WSize,
           ~Unpack!Invalid(e, dist), NEW n \in Nat,
           Unpack!Beyond(e, dist) > 0 =>
             n <= IF Unpack!Beyond(e, dist) > e.wnext THEN Unpack!Beyond(e, dist) - e.wnext
                  ELSE Unpack!Beyond(e, dist)
    PROVE  (IF Unpack!Beyond(e, dist) > 0
            THEN [j \in 1 .. n |-> e.window[Unpack!From(e, Unpack!Beyond(e, dist)) + j - 1]]
            ELSE Unpack!Repeated(e.buf, dist, n))
             = Unpack!Repeated(All(e), dist, n)
<1> DEFINE t == All(e)
           R == Unpack!Repeated(t, dist, n)
           op == Unpack!Beyond(e, dist)
           l == Len(t)
           b == Len(e.buf)
           x == e.wnext
<1>1. Reaches(e, dist, t) /\ IsSq(t) /\ op = dist - b /\ IsSq(e.buf)
  BY Reach, TextsAre
<1>2. b \in Nat /\ l \in Nat
  BY <1>1, Joined
<1>3. dist \in 1 .. l
  BY <1>1, <1>2 DEF Reaches
<1>4. R = [j \in 1 .. n |-> R[j]]
  BY DEF Unpack!Repeated
<1>5. CASE op > 0
  <2>1. op \in Nat /\ op # 0 /\ op <= dist
    BY <1>1, <1>2, <1>5
  <2>2. e.wsize = WSize /\ e.whave \in Nat /\ x \in 0 .. WSize - 1 /\ WSize \in Nat /\ op <= WSize
    <3>1. e.whave \in 0 .. WSize /\ x \in 0 .. WSize - 1 /\ WSize \in Nat
      BY WSizeIs DEF StreamRight, Shaped, Turned
    <3>2. op <= e.whave
      BY <2>1, <3>1 DEF Unpack!Invalid
    <3>3. e.whave # 0
      BY <2>1, <3>1, <3>2
    <3>. QED
      BY <3>1, <3>2, <3>3, <2>1 DEF Kept
  <2>3. n <= IF op > x THEN op - x ELSE op
    BY <1>5
  <2> DEFINE from == Unpack!From(e, op)
  <2>4. from = IF op > x THEN WSize + (x - op) ELSE x - op
    BY <2>2, Zenon DEF Unpack!From
  <2>5. from \in Int
    <3> HIDE DEF from, op, x
    <3>. QED
      BY <2>1, <2>2, <2>4
  <2>6. ASSUME NEW j \in 1 .. n PROVE e.window[from + j - 1] = R[j]
    <3> HIDE DEF op, from, x, t
    <3>1. j <= op /\ j \in 1 .. dist
      BY <1>1, <1>2, <2>1, <2>2, <2>3
    <3>2. from + (j - 1) < WSize /\ from + (j - 1) = from + j - 1
      BY <2>1, <2>2, <2>3, <2>4, <2>5
    <3>3. Index(e, op, j) = from + j - 1
      BY <3>2 DEF Index, from
    <3>4. e.window[Index(e, op, j)] = t[(l - dist) + j]
      BY <1>1, <3>1 DEF Reaches, op
    <3>5. R[j] = t[(l - dist) + j]
      BY <1>1, <1>3, <3>1, RepeatedAt
    <3>. QED
      BY <3>3, <3>4, <3>5
  <2> HIDE DEF R, from
  <2>7. [j \in 1 .. n |-> e.window[from + j - 1]] = R
    BY <1>4, <2>6
  <2>. QED
    BY <1>5, <2>7 DEF R, from
<1>6. CASE ~(op > 0)
  <2> DEFINE y == e.buf
             p == Before(e)
  <2>1. dist \in 1 .. b
    <3> HIDE DEF op, b
    <3>. QED
      BY <1>1, <1>2, <1>6
  <2>2. IsSq(p) /\ IsSq(y) /\ t = p \o y
    <3>1. p = Used(e) \o e.past /\ IsSq(Used(e)) /\ IsSq(e.past)
      BY TextsAre
    <3>2. IsSq(Used(e) \o e.past)
      BY <3>1, Joined
    <3>. QED
      BY <3>1, <3>2, TextsAre
  <2> HIDE DEF p, t
  <2>3. Unpack!Repeated(p \o y, dist, n) = Unpack!Repeated(y, dist, n)
    <3> HIDE DEF y
    <3>1. dist \in 1 .. Len(y)
      BY <2>1 DEF y
    <3>. QED
      BY <2>2, <3>1, RepeatedEnd
  <2>. QED
    BY <1>6, <2>2, <2>3 DEF t
<1>. QED
  BY <1>5, <1>6

LEMMA MatchLength ==
    ASSUME NEW x \in Nat, x # 0, NEW y \in Nat, y # 0, NEW op \in Int, NEW next \in Nat
    PROVE  LET piece == IF op > next THEN op - next ELSE op
               n == Unpack!Min({x, y} \union IF op > 0 THEN {piece} ELSE {})
           IN  n \in Nat /\ n # 0 /\ n <= x /\ n <= y /\ (op > 0 => n <= piece)
<1> DEFINE piece == IF op > next THEN op - next ELSE op
           n == Unpack!Min({x, y} \union IF op > 0 THEN {piece} ELSE {})
<1>1. x \in Int /\ y \in Int
  OBVIOUS
<1>2. CASE op > 0
  <2> DEFINE k == Unpack!Min({x, y, piece})
  <2>1. piece \in Nat /\ piece \in Int /\ piece # 0
    BY <1>2
  <2> HIDE DEF piece
  <2>2. k \in {x, y, piece} /\ k <= x /\ k <= y /\ k <= piece
    BY <1>1, <2>1, LeastOfThings, Zenon
  <2> HIDE DEF k
  <2>3. k \in Nat /\ k # 0
    BY <2>1, <2>2
  <2>4. {x, y} \union {piece} = {x, y, piece}
    OBVIOUS
  <2>5. n = k
    BY <1>2, <2>4 DEF k
  <2>. QED
    BY <2>2, <2>3, <2>5 DEF piece
<1>3. CASE ~(op > 0)
  <2> DEFINE k == Unpack!Min({x, y})
  <2>1. k \in {x, y} /\ k <= x /\ k <= y
    BY <1>1, LeastOfTwo, Zenon
  <2> HIDE DEF k
  <2>2. k \in Nat /\ k # 0
    BY <2>1
  <2>3. {x, y} \union {} = {x, y}
    OBVIOUS
  <2>4. n = k
    BY <1>3, <2>3 DEF k
  <2>. QED
    BY <1>3, <2>1, <2>2, <2>4
<1>. QED
  BY <1>2, <1>3

\* A match that is copied up to here, with n bytes of it, goes on with the rest.
GoesOn(r, s, t, dist, l, b) ==
    /\ r.text = (s \o b) \o Unpack!Repeated(t \o b, dist, l)
    /\ dist <= Len(t \o b) /\ IsSq(s \o b)

LEMMA MatchGoesOn ==
    ASSUME NEW e, StreamRight(e), NEW r, NEW dist \in 1 .. WSize, dist <= Len(All(e)),
           NEW n \in Nat, NEW l \in Nat, r.text = Output(e) \o Unpack!Repeated(All(e), dist, n + l)
    PROVE  GoesOn(r, Output(e), All(e), dist, l, Unpack!Repeated(All(e), dist, n))
<1> DEFINE b == Unpack!Repeated(All(e), dist, n)
           t == All(e)
           s == Output(e)
           c == Unpack!Repeated(t \o b, dist, l)
<1>1. IsSq(t) /\ IsSq(s)
  BY TextsAre
<1>2. IsSq(b) /\ Len(b) = n /\ IsSq(c)
  BY RepeatedIs
<1>3. Len(t) \in Nat /\ Len(t \o b) = Len(t) + n
  <2> HIDE DEF t, b
  <2>. QED
    BY <1>1, <1>2, Joined
<1>4. dist \in 1 .. Len(t) /\ dist <= Len(t \o b)
  <2> DEFINE k == Len(t)
             i == Len(t \o b)
  <2>1. k \in Nat /\ i = k + n /\ dist <= k
    BY <1>3
  <2> HIDE DEF k, i
  <2>2. dist \in 1 .. k /\ dist <= i
    BY <2>1
  <2>. QED
    BY <2>2 DEF k, i
<1>5. Unpack!Repeated(t, dist, n + l) = b \o c
  <2> HIDE DEF t, c, b
  <2>1. Unpack!Repeated(t, dist, n + l)
          = Unpack!Repeated(t, dist, n) \o Unpack!Repeated(t \o Unpack!Repeated(t, dist, n), dist, l)
    BY <1>1, <1>4, RepeatedOn, Zenon
  <2>2. b = Unpack!Repeated(t, dist, n)
    BY DEF t, b
  <2>. QED
    BY <2>1, <2>2 DEF c
<1>6. (s \o b) \o c = s \o (b \o c)
  <2>1. IsSq(s) /\ IsSq(b) /\ IsSq(c)
    BY <1>1, <1>2
  <2> HIDE DEF s, c, b
  <2>. QED
    BY <2>1, JoinAssoc
<1>7. IsSq(s \o b)
  <2> HIDE DEF s, b
  <2>. QED
    BY <1>1, <1>2, Joined
<1>8. r.text = s \o (b \o c)
  BY <1>5
<1> HIDE DEF b, s, t
<1>9. GoesOn(r, s, t, dist, l, b)
  BY <1>4, <1>6, <1>7, <1>8 DEF GoesOn, c
<1>. QED
  BY <1>9 DEF b, s, t

LEMMA NoneRepeated == ASSUME NEW t, NEW dist PROVE Unpack!Repeated(t, dist, 0) = <<>>
<1> DEFINE zero == 0
           b == Unpack!Repeated(t, dist, zero)
<1>1. IsSq(b) /\ Len(b) = zero
  BY RepeatedIs
<1> HIDE DEF b
<1>2. PICK S : b \in Seq(S)
  BY <1>1 DEF IsSq
<1>3. b = <<>>
  BY <1>1, <1>2
<1>. QED
  BY <1>3 DEF b

LEMMA MatchReads == ASSUME StreamInv, ReadRight(z), Unpack!Match PROVE Reads(z, z')
<1>1. /\ z.inside /\ z.mode = "MATCH" /\ z.mode \in OnModes /\ z.mode \in OpenModes
      /\ z.left \in Nat /\ z.left # 0 /\ z.length \in Nat /\ z.wnext \in Nat
  BY CaseIs, WSizeIs
     DEF Unpack!Match, Unpack!Stops, OnModes, OpenModes, StreamInv, StreamRight, Shaped, Turned
<1> DEFINE r == At(z)
           dist == z.offset
           op == Unpack!Beyond(z, z.offset)
           piece == IF op > z.wnext THEN op - z.wnext ELSE op
           n == Unpack!Min({z.length, z.left} \union IF op > 0 THEN {piece} ELSE {})
           b == IF op > 0 THEN [j \in 1 .. n |-> z.window[Unpack!From(z, op) + j - 1]]
                ELSE Unpack!Repeated(z.buf, z.offset, n)
<1>2. Kept(z) /\ r.last = z.last /\ r.dict = Used(z) /\ Matching(z, r)
  BY <1>1, Zenon DEF ReadRight, Follows
<1>3. /\ z.length # 0 /\ dist \in 1 .. WSize
      /\ IF dist <= Len(All(z))
         THEN r.next = "code" /\ r.text = Output(z) \o Unpack!Repeated(All(z), dist, z.length)
         ELSE r.next = "bad" /\ r.text = Output(z)
  BY <1>2 DEF Matching
<1>4. Unpack!Invalid(z, dist) <=> ~(dist <= Len(All(z)))
  BY <1>1, <1>2, <1>3, Reach DEF StreamInv
<1>5. CASE Unpack!Invalid(z, dist)
  <2> DEFINE m == "BAD"
             f == [z EXCEPT !.mode = m]
  <2>1. z' = f /\ m = "BAD"
    BY <1>5 DEF Unpack!Match
  <2> HIDE DEF m
  <2>2. Takes(z, f, 0) /\ f.mode = m /\ At(f) = r
    BY ModeSets DEF StreamInv
  <2> HIDE DEF f, r
  <2>3. r.next = "bad" /\ r.text = Output(z)
    BY <1>3, <1>4, <1>5
  <2>4. Reads(z, f)
    BY <1>1, <1>2, <2>1, <2>2, <2>3, WrongIs
  <2>. QED
    BY <2>1, <2>4
<1>6. CASE ~Unpack!Invalid(z, dist)
  <2> DEFINE l == z.length - n
             m == IF z.length = n THEN "LEN" ELSE "MATCH"
             g == Unpack!Put(z, b)
             f == [g EXCEPT !.length = l, !.mode = m]
  <2>1. z' = [g EXCEPT !.length = g.length - n, !.mode = IF z.length = n THEN "LEN" ELSE g.mode]
    BY <1>6 DEF Unpack!Match
  <2>2. op \in Int
    BY <1>1 DEF Unpack!Beyond, Unpack!Wrote, StreamInv, StreamRight
  <2>3. n \in Nat /\ n # 0 /\ n <= z.length /\ (op > 0 => n <= piece)
    <3> DEFINE x == z.length
               y == z.left
               next == z.wnext
    <3>1. x \in Nat /\ x # 0 /\ y \in Nat /\ y # 0 /\ next \in Nat
      BY <1>1, <1>3
    <3> HIDE DEF x, y, next, op
    <3>2. LET p == IF op > next THEN op - next ELSE op
              k == Unpack!Min({x, y} \union IF op > 0 THEN {p} ELSE {})
          IN  k \in Nat /\ k # 0 /\ k <= x /\ k <= y /\ (op > 0 => k <= p)
      BY <2>2, <3>1, MatchLength
    <3>. QED
      BY <3>2 DEF x, y, next
  <2>4. b = Unpack!Repeated(All(z), dist, n)
    <3> HIDE DEF n
    <3>. QED
      BY <1>1, <1>2, <1>3, <1>6, <2>3, PieceRepeats DEF StreamInv
  <2> HIDE DEF b
  <2>5. g.length = z.length /\ g.mode = z.mode
    <3>1. DOMAIN z = ZFields
      BY DEF StreamInv, StreamRight, Shaped
    <3>2. \A x \in ZFields \ {"buf", "left"} : g[x] = z[x]
      BY <3>1, PutIs
    <3> HIDE DEF g
    <3>. QED
      BY <3>2 DEF ZFields
  <2>6. z' = f
    <3> HIDE DEF g, n
    <3>. QED
      BY <1>1, <2>1, <2>5
  <2>7. l \in Nat /\ n + l = z.length /\ (l = 0 <=> z.length = n)
    <3> HIDE DEF n
    <3>. QED
      BY <1>1, <2>3
  <2>8. Puts(z, f, 0, b, m, l)
    <3> HIDE DEF l, m
    <3>. QED
      BY PutSets DEF StreamInv
  <2> HIDE DEF f, g, n, l, m
  <2>9. IsSq(b) /\ Len(b) = n
    BY <2>3, <2>4, RepeatedIs
  <2>10. /\ f.stream = z.stream /\ f.last = z.last /\ f.offset = dist /\ f.mode = m
         /\ Output(f) = Output(z) \o b /\ Used(f) = Used(z) /\ All(f) = All(z) \o b
    BY <2>8, <2>9, PutsIs DEF StreamInv
  <2>11. f.length = l
    BY <2>8 DEF Puts
  <2>12. /\ r.next = "code" /\ dist <= Len(All(z))
         /\ r.text = Output(z) \o Unpack!Repeated(All(z), dist, n + l)
    BY <1>3, <1>4, <1>6, <2>7
  <2>13. /\ r.text = Output(f) \o Unpack!Repeated(All(f), dist, l) /\ dist <= Len(All(f))
         /\ IsSq(Output(f))
    <3> HIDE DEF r, dist
    <3>1. StreamRight(z) /\ dist \in 1 .. WSize
      BY <1>3 DEF StreamInv
    <3>2. GoesOn(r, Output(z), All(z), dist, l, Unpack!Repeated(All(z), dist, n))
      BY <2>3, <2>7, <2>12, <3>1, MatchGoesOn
    <3>3. GoesOn(r, Output(z), All(z), dist, l, b)
      BY <2>4, <3>2
    <3>. QED
      BY <2>10, <3>3 DEF GoesOn
  <2>14. At(f) = r
    <3>1. f.at = z.at + 0 /\ z.at \in Nat
      BY <2>8 DEF Puts, StreamInv, StreamRight
    <3>2. f.at = z.at
      BY <3>1
    <3>. QED
      BY <2>10, <3>2 DEF At
  <2> HIDE DEF r
  <2>15. CASE l = 0
    <3>1. m = "LEN" /\ m \in OpenModes
      BY <2>7, <2>15 DEF m, OpenModes, OnModes
    <3>2. r.text = Output(f)
      BY <2>13, <2>15, NoneRepeated, JoinEmpty
    <3>3. f.mode = "LEN" /\ f.mode \in OpenModes
      BY <2>10, <3>1
    <3>4. Follows(f, r)
      BY <1>2, <2>10, <2>12, <3>2, <3>3 DEF Follows
    <3>. QED
      BY <1>1, <1>2, <2>3, <2>6, <2>8, <2>9, <2>14, <3>1, <3>4, PutsRead DEF StreamInv
  <2>16. CASE l # 0
    <3>1. m = "MATCH" /\ m \in OpenModes
      BY <2>7, <2>16 DEF m, OpenModes, OnModes
    <3>2. f.mode = "MATCH" /\ f.mode \in OpenModes
      BY <2>10, <3>1
    <3>3. Matching(f, r)
      BY <1>3, <2>10, <2>11, <2>12, <2>13, <2>16 DEF Matching
    <3>4. Follows(f, r)
      BY <1>2, <2>10, <3>2, <3>3 DEF Follows
    <3>. QED
      BY <1>1, <1>2, <2>3, <2>6, <2>8, <2>9, <2>14, <3>1, <3>4, PutsRead DEF StreamInv
  <2>. QED
    BY <2>15, <2>16
<1>. QED
  BY <1>5, <1>6

\* The second of two units.
LEMMA SecondReading ==
    ASSUME StreamInv, 2 <= z.have, NEW f, Takes(z, f, 2)
    PROVE  LET u == z.stream.units[z.at + 1]
           IN  /\ Unpack!Kind(Unpack!Took(z, 1)) = u[1] /\ Unpack!Value(Unpack!Took(z, 1)) = u[2]
               /\ At(f) = Unpack!Decode(z.stream, Stage(z.stream, z.at), u)
               /\ u[1] = "distance" => u[2] \in 1 .. WSize
<1> DEFINE s == z.stream
           a == z.at
           h == z.have
           k == Len(s.units)
           u == s.units[a + 1]
           g == Unpack!Took(z, 1)
<1>1. s \in Streams /\ a \in Nat \ {0} /\ h \in Nat /\ a + h <= k + 1 /\ 2 <= h
  BY DEF StreamInv, StreamRight
<1>2. k \in Nat
  BY <1>1, StreamIs
<1>3. a + 1 \in 1 .. k /\ (a + 2) - 1 = a + 1 /\ (a + 1) - 1 = a
  <2> HIDE DEF a, h, k
  <2>. QED
    BY <1>1, <1>2
<1>4. g.at = a + 1 /\ g.stream = s
  <2>1. StreamRight(z)
    BY DEF StreamInv
  <2>2. g.at = z.at + 1 /\ \A x \in ZFields \ {"at", "have"} : g[x] = z[x]
    BY <2>1, TookIs
  <2> HIDE DEF g
  <2>. QED
    BY <2>2 DEF ZFields
<1>5. Unpack!Kind(g) = u[1] /\ Unpack!Value(g) = u[2]
  <2> HIDE DEF g
  <2>. QED
    BY <1>4 DEF Unpack!Kind, Unpack!Value
<1>6. At(f) = Stage(s, a + 1)
  <2>1. f.stream = z.stream /\ f.at = a + 2
    BY DEF Takes, ZFields
  <2>2. f.at - 1 = a + 1
    BY <1>3, <2>1
  <2>. QED
    BY <2>1, <2>2 DEF At
<1>7. Stage(s, a + 1) = Unpack!Decode(s, Stage(s, a), u)
  <2> HIDE DEF a, s
  <2>1. Stage(s, a + 1) = Unpack!Decode(s, Stage(s, (a + 1) - 1), s.units[a + 1])
    BY <1>2, <1>3, StagesAre
  <2>. QED
    BY <1>3, <2>1
<1>8. u[1] = "distance" => u[2] \in 1 .. WSize
  <2>1. (u[1] \in {"length", "distance"} => u[2] \in Nat \ {0}) /\ (u[1] = "distance" => u[2] <= WSize)
    <3> HIDE DEF s, a
    <3>. QED
      BY <1>1, <1>3, UnitHas
  <2> DEFINE v == u[2]
             y == u[1]
  <2> HIDE DEF u
  <2>2. y = "distance" => v \in Nat /\ v # 0 /\ v <= WSize
    BY <2>1
  <2> HIDE DEF v, y
  <2>3. y = "distance" => v \in 1 .. WSize
    BY <2>2, WSizeIs
  <2>. QED
    BY <2>3 DEF v, y, u
<1>. QED
  BY <1>5, <1>6, <1>7, <1>8

LEMMA FastReads == ASSUME StreamInv, ReadRight(z), Unpack!Fast PROVE Reads(z, z')
<1>1. /\ z.inside /\ z.mode = "LEN" /\ z.mode \in OpenModes /\ z.mode \in OnModes /\ z.have # 0
      /\ 2 <= z.have /\ 1 <= z.have
  <2>1. /\ z.inside /\ z.mode = "LEN" /\ z.mode \in OpenModes /\ z.mode \in OnModes
        /\ z.have \in Nat /\ z.left \in Nat
    BY CaseIs DEF Unpack!Fast, OnModes, OpenModes, StreamInv, StreamRight
  <2>2. 2 <= z.have
    BY <2>1, ProgramsAssumption DEF Unpack!Fast, Unpack!Quick
  <2>. QED
    BY <2>1, <2>2
<1> DEFINE r == At(z)
           u == z.stream.units[z.at]
           k == Unpack!Kind(z)
           v == Unpack!Value(z)
<1>2. Kept(z) /\ r.last = z.last /\ r.dict = Used(z) /\ r.text = Output(z) /\ r.next = "code"
  BY <1>1, Zenon DEF ReadRight, Follows
<1>3. StreamRight(z)
  BY DEF StreamInv
<1>4. CASE k = "lit"
  <2> DEFINE b == <<v>>
             f == Unpack!Put(Unpack!Took(z, 1), b)
             m == z.mode
             q == At(f)
             g == [Unpack!Took(z, 1) EXCEPT !.mode = m]
             p == Unpack!Decode(z.stream, r, u)
  <2>1. z' = f
    BY <1>4 DEF Unpack!Fast
  <2>2. IsSq(b) /\ Len(b) # 0
    BY OneByte
  <2>3. Takes(z, g, 1)
    <3> HIDE DEF m
    <3>1. Sets(z, g, 1, m, z.last, z.length, z.offset)
      BY <1>3, TookSets
    <3>. QED
      BY <3>1 DEF Sets
  <2> HIDE DEF b, g
  <2>4. Puts(z, f, 1, b, m, z.length)
    BY <1>3, TookPutSets
  <2> HIDE DEF f
  <2>5. f.at = g.at /\ f.stream = g.stream
    BY <2>3, <2>4 DEF Puts, Takes, ZFields
  <2>6. k = u[1] /\ v = u[2] /\ At(g) = p /\ DOMAIN r = StageFields
    BY <1>1, <2>3, ReadingIs
  <2>7. q = At(g)
    BY <2>5 DEF At
  <2>8. /\ f.stream = z.stream /\ f.last = z.last /\ f.mode = m /\ Output(f) = Output(z) \o b
        /\ Used(f) = Used(z)
    <3> HIDE DEF m
    <3>. QED
      BY <1>3, <2>2, <2>4, PutsIs
  <2>9. IsSq(Output(z))
    BY <1>3, TextsAre
  <2> HIDE DEF u, r, k, v, q
  <2>10. Changes(r, p, {"text"}) /\ p.text = Append(r.text, u[2])
    <3>1. u[1] = "lit" /\ DOMAIN r = StageFields /\ r.next = "code"
      BY <1>2, <1>4, <2>6
    <3>. QED
      BY <3>1, DecodeLit
  <2> HIDE DEF p
  <2>11. q.dict = r.dict /\ q.last = r.last /\ q.next = r.next /\ q.text = Append(Output(z), v)
    BY <1>2, <2>6, <2>7, <2>10 DEF Changes, StageFields
  <2>12. q.text = Output(f)
    BY <2>8, <2>9, <2>11, AppendIs DEF b
  <2>13. f.mode = "LEN" /\ f.mode \in OpenModes /\ m \in OpenModes
    BY <1>1, <2>8
  <2>14. Follows(f, q)
    BY <1>2, <2>8, <2>11, <2>12, <2>13 DEF Follows
  <2> HIDE DEF m
  <2>15. Reads(z, f)
    BY <1>1, <1>2, <1>3, <2>2, <2>4, <2>13, <2>14, PutsRead DEF q
  <2>. QED
    BY <2>1, <2>15
<1>5. CASE k = "length"
  <2> DEFINE g == [Unpack!Took(z, 1) EXCEPT !.mode = z.mode]
             s == z.stream
             q == Stage(s, z.at)
             w == z.stream.units[z.at + 1]
             dist == Unpack!Value(Unpack!Took(z, 1))
             wrong == Unpack!Kind(Unpack!Took(z, 1)) # "distance" \/ Unpack!Invalid(z, dist)
  <2>1. q = Unpack!Decode(s, r, u) /\ k = u[1] /\ v = u[2] /\ DOMAIN r = StageFields
        /\ (u[1] = "length" => u[2] \in Nat \ {0})
    <3>1. Takes(z, g, 1)
      <4> DEFINE m == z.mode
                 e == [Unpack!Took(z, 1) EXCEPT !.mode = m]
      <4> HIDE DEF m
      <4>1. Sets(z, e, 1, m, z.last, z.length, z.offset)
        BY <1>3, TookSets
      <4>2. Takes(z, e, 1)
        BY <4>1 DEF Sets
      <4>. QED
        BY <4>2 DEF m
    <3> HIDE DEF g
    <3>2. /\ k = u[1] /\ v = u[2] /\ DOMAIN r = StageFields /\ At(g) = Unpack!Decode(s, r, u)
          /\ (u[1] \in {"length", "distance"} => u[2] \in Nat \ {0})
      BY <1>1, <3>1, ReadingIs
    <3>3. At(g) = q
      <4>1. g.stream = s /\ g.at = z.at + 1 /\ z.at \in Nat
        BY <1>3, <3>1 DEF Takes, ZFields, StreamRight
      <4>2. g.at - 1 = z.at
        BY <4>1
      <4>. QED
        BY <4>1, <4>2 DEF At
    <3>. QED
      BY <3>2, <3>3
  <2>2. /\ q.dict = r.dict /\ q.last = r.last /\ q.text = r.text /\ q.next = "distance"
        /\ q.n = v /\ v \in Nat \ {0} /\ DOMAIN q = StageFields
    <3> DEFINE p == Unpack!Decode(s, r, u)
    <3> HIDE DEF q, r, u, k, v
    <3>0. u[1] = "length" /\ DOMAIN r = StageFields /\ r.next = "code"
      BY <1>2, <1>5, <2>1
    <3>1. Changes(r, p, {"next", "n"}) /\ p.next = "distance" /\ p.n = u[2]
      BY <3>0, DecodeLength
    <3> HIDE DEF p
    <3>2. q = p
      BY <2>1 DEF p
    <3>3. q.dict = r.dict /\ q.last = r.last /\ q.text = r.text /\ DOMAIN q = StageFields
      BY <3>1, <3>2 DEF Changes, StageFields
    <3>. QED
      BY <2>1, <3>0, <3>1, <3>2, <3>3
  <2>3. q.dict \o q.text = All(z)
    BY <1>2, <2>2 DEF All
  <2>4. ASSUME NEW f, Takes(z, f, 2)
        PROVE  /\ At(f) = Unpack!Decode(s, q, w) /\ Unpack!Kind(Unpack!Took(z, 1)) = w[1]
               /\ dist = w[2] /\ (w[1] = "distance" => w[2] \in 1 .. WSize)
    BY <1>1, <2>4, SecondReading
  <2>5. CASE wrong
    <3> DEFINE m == "BAD"
               f == [Unpack!Took(z, 2) EXCEPT !.mode = m]
    <3>1. z' = f /\ m = "BAD"
      BY <1>5, <2>5 DEF Unpack!Fast, Unpack!FastLength
    <3> HIDE DEF m
    <3>2. Takes(z, f, 2) /\ f.mode = m
      <4>1. Sets(z, f, 2, m, z.last, z.length, z.offset)
        BY <1>3, TookSets
      <4>. QED
        BY <4>1 DEF Sets
    <3> HIDE DEF f
    <3>3. /\ At(f) = Unpack!Decode(s, q, w) /\ Unpack!Kind(Unpack!Took(z, 1)) = w[1]
          /\ dist = w[2] /\ (w[1] = "distance" => w[2] \in 1 .. WSize)
      BY <2>4, <3>2
    <3> DEFINE p == Unpack!Decode(s, q, w)
    <3>4. p.next = "bad" /\ p.text = q.text
      <4> HIDE DEF q, w, r, dist
      <4>1. CASE w[1] # "distance"
        <5>1. Changes(q, p, {"next"}) /\ p.next = "bad"
          BY <2>2, <4>1, DecodeWrong, Zenon
        <5> HIDE DEF p
        <5>. QED
          BY <5>1 DEF Changes, StageFields
      <4>2. CASE w[1] = "distance"
        <5>1. Unpack!Invalid(z, dist) /\ dist \in 1 .. WSize
          BY <2>5, <3>3, <4>2
        <5>2. ~(dist <= Len(All(z)))
          BY <1>1, <1>2, <1>3, <5>1, Reach
        <5>3. DOMAIN q = StageFields /\ q.next = "distance" /\ w[1] = "distance"
          BY <2>2, <4>2
        <5>4. Matches(p, q, q.dict \o q.text, w[2])
          BY <5>3, MatchIs
        <5> HIDE DEF p
        <5>5. Matches(p, q, All(z), dist)
          BY <2>3, <3>3, <5>4
        <5>. QED
          BY <5>2, <5>5 DEF Matches
      <4>. QED
        BY <4>1, <4>2
    <3> HIDE DEF p, q, w
    <3>5. At(f).next = "bad" /\ At(f).text = Output(z)
      BY <1>2, <2>2, <3>3, <3>4 DEF p
    <3>6. Reads(z, f)
      BY <1>1, <1>2, <3>1, <3>2, <3>5, WrongIs
    <3>. QED
      BY <3>1, <3>6
  <2>6. CASE ~wrong
    <3> DEFINE b == Unpack!FastMatch(z, dist, v)
               f == Unpack!Put(Unpack!Took(z, 2), b)
               m == z.mode
               x == "BAD"
               g2 == [Unpack!Took(z, 2) EXCEPT !.mode = x]
               p == Unpack!Decode(s, q, w)
    <3>1. z' = f
      BY <1>5, <2>6 DEF Unpack!Fast, Unpack!FastLength
    <3>2. Takes(z, g2, 2)
      <4> HIDE DEF x
      <4>1. Sets(z, g2, 2, x, z.last, z.length, z.offset)
        BY <1>3, TookSets
      <4>. QED
        BY <4>1 DEF Sets
    <3> HIDE DEF g2
    <3>3. /\ At(g2) = p /\ Unpack!Kind(Unpack!Took(z, 1)) = w[1] /\ dist = w[2]
          /\ (w[1] = "distance" => w[2] \in 1 .. WSize)
      BY <2>4, <3>2
    <3>4. w[1] = "distance" /\ dist \in 1 .. WSize /\ ~Unpack!Invalid(z, dist)
      <4> HIDE DEF dist, w
      <4>. QED
        BY <2>6, <3>3
    <3>5. b = Unpack!Repeated(All(z), dist, v) /\ dist <= Len(All(z))
      <4> HIDE DEF dist, v
      <4>1. b = Unpack!Repeated(All(z), dist, v)
        BY <1>1, <1>2, <1>3, <2>2, <3>4, FastRepeats
      <4>2. dist <= Len(All(z))
        BY <1>1, <1>2, <1>3, <3>4, Reach
      <4>. QED
        BY <4>1, <4>2
    <3> HIDE DEF b, dist, v
    <3>6. IsSq(b) /\ Len(b) # 0
      BY <2>2, <3>5, RepeatedIs
    <3>7. Puts(z, f, 2, b, m, z.length)
      BY <1>3, TookPutSets
    <3> HIDE DEF f
    <3>8. At(f) = p
      <4>1. f.at = g2.at /\ f.stream = g2.stream
        BY <3>2, <3>7 DEF Puts, Takes, ZFields
      <4>. QED
        BY <3>3, <4>1 DEF At
    <3>9. /\ f.stream = z.stream /\ f.last = z.last /\ f.mode = m /\ Output(f) = Output(z) \o b
          /\ Used(f) = Used(z)
      <4> HIDE DEF m
      <4>. QED
        BY <1>3, <3>6, <3>7, PutsIs
    <3> HIDE DEF q, w, r, s
    <3>10. Matches(p, q, All(z), dist)
      <4>1. DOMAIN q = StageFields /\ q.next = "distance" /\ w[1] = "distance"
        BY <2>2, <3>4
      <4>2. Matches(p, q, q.dict \o q.text, w[2])
        BY <4>1, MatchIs
      <4> HIDE DEF p
      <4>. QED
        BY <2>3, <3>3, <4>2
    <3> HIDE DEF p
    <3>11. p.dict = q.dict /\ p.last = q.last /\ p.next = "code" /\ p.text = q.text \o b
      BY <2>2, <3>5, <3>10 DEF Matches
    <3>12. f.mode = "LEN" /\ f.mode \in OpenModes /\ m \in OpenModes
      BY <1>1, <3>9
    <3>13. Follows(f, p)
      BY <1>2, <2>2, <3>9, <3>11, <3>12 DEF Follows
    <3> HIDE DEF m
    <3>14. Reads(z, f)
      BY <1>1, <1>2, <1>3, <3>6, <3>7, <3>8, <3>12, <3>13, PutsRead
    <3>. QED
      BY <3>1, <3>14
  <2>. QED
    BY <2>5, <2>6
<1>6. CASE k \notin {"lit", "length"}
  <2> DEFINE m == IF k = "end" THEN "TYPE" ELSE "BAD"
             f == [Unpack!Took(z, 1) EXCEPT !.mode = m]
             q == At(f)
             p == Unpack!Decode(z.stream, r, u)
  <2>1. z' = f
    BY <1>6 DEF Unpack!Fast
  <2>2. Takes(z, f, 1) /\ f.mode = m /\ f.last = z.last
    <3> HIDE DEF m
    <3>1. Sets(z, f, 1, m, z.last, z.length, z.offset)
      BY <1>3, TookSets
    <3>. QED
      BY <3>1 DEF Sets
  <2> HIDE DEF f
  <2>3. k = u[1] /\ q = p /\ DOMAIN r = StageFields
    BY <1>1, <2>2, ReadingIs
  <2>4. f.stream = z.stream /\ Output(f) = Output(z) /\ Used(f) = Used(z)
    BY <2>2, TakesIs
  <2> HIDE DEF u, r, k, q
  <2>5. CASE k = "end"
    <3>0. u[1] = "end" /\ DOMAIN r = StageFields /\ r.next = "code"
      BY <1>2, <2>3, <2>5
    <3>1. Changes(r, p, {"next"}) /\ p.next = Unpack!After(r)
      BY <3>0, DecodeEnd
    <3> HIDE DEF p
    <3>2. Changes(r, q, {"next"}) /\ q.next = Unpack!After(r)
      BY <2>3, <3>1
    <3>3. q.dict = r.dict /\ q.last = r.last /\ q.text = r.text
      BY <3>2 DEF Changes, StageFields
    <3>4. f.mode = "TYPE" /\ f.mode \in OpenModes /\ Unpack!After(q) = Unpack!After(r)
      BY <2>2, <2>5, <3>3 DEF OpenModes, OnModes, Unpack!After
    <3>5. Follows(f, q)
      BY <1>2, <2>2, <2>4, <3>2, <3>3, <3>4 DEF Follows
    <3>6. Reads(z, f)
      BY <1>1, <1>2, <2>2, <3>4, <3>5, TakesRead DEF q
    <3>. QED
      BY <2>1, <3>6
  <2>6. CASE k # "end"
    <3>1. u[1] \notin {"lit", "length", "end"}
      BY <1>6, <2>3, <2>6
    <3>2. Changes(r, q, {"next"}) /\ q.next = "bad"
      BY <1>2, <2>3, <3>1, DecodeWrong, Zenon
    <3>3. q.text = Output(z) /\ f.mode = "BAD"
      BY <1>2, <2>2, <2>6, <3>2 DEF Changes, StageFields
    <3>4. Reads(z, f)
      BY <1>1, <1>2, <2>2, <3>2, <3>3, WrongIs DEF q
    <3>. QED
      BY <2>1, <3>4
  <2>. QED
    BY <2>5, <2>6
<1>. QED
  BY <1>4, <1>5, <1>6
-----------------------------------------------------------------------------
\* A step that takes no unit, and leaves the text and the place in a block alone.
Stays(e, f) ==
    /\ Output(f) = Output(e)
    /\ \A x \in {"stream", "at", "last", "havedict", "length", "offset"} : f[x] = e[x]

LEMMA FollowsOn ==
    ASSUME NEW e, NEW f, Stays(e, f), f.mode = e.mode \/ (e.mode = "TYPE" /\ f.mode = "TYPEDO"),
           Follows(e, At(e))
    PROVE  Follows(f, At(f))
<1> DEFINE r == At(e)
<1>1. /\ f.stream = e.stream /\ f.at = e.at /\ f.last = e.last /\ f.havedict = e.havedict
      /\ f.length = e.length /\ f.offset = e.offset /\ Output(f) = Output(e)
  BY DEF Stays
<1>2. At(f) = r
  BY <1>1 DEF At
<1>3. Used(f) = Used(e)
  BY <1>1 DEF Used
<1>4. All(f) = All(e)
  BY <1>1, <1>3 DEF All
<1> HIDE DEF r
<1>5. Follows(e, r)
  BY DEF r
<1>6. CASE f.mode = e.mode
  <2>1. Matching(f, r) <=> Matching(e, r)
    BY <1>1, <1>4 DEF Matching
  <2>. QED
    BY <1>1, <1>2, <1>3, <1>5, <1>6, <2>1 DEF Follows
<1>7. CASE e.mode = "TYPE" /\ f.mode = "TYPEDO"
  <2>1. f.mode = "TYPEDO" /\ e.mode \in OpenModes
    BY <1>7 DEF OpenModes, OnModes
  <2>2. /\ r.last = e.last /\ r.dict = Used(e) /\ r.text = Output(e) /\ r.next = Unpack!After(r)
    BY <1>5, <1>7, <2>1, Zenon DEF Follows
  <2>3. Follows(f, r)
    BY <1>1, <1>3, <2>1, <2>2 DEF Follows
  <2>. QED
    BY <1>2, <2>3
<1>. QED
  BY <1>6, <1>7

LEMMA StayingReads ==
    ASSUME NEW e, NEW f, ReadRight(e), Stays(e, f), Kept(f),
           f.mode = e.mode \/ (e.mode = "TYPE" /\ f.mode = "TYPEDO")
    PROVE  Reads(e, f)
<1>1. f.stream = e.stream /\ Output(f) = Output(e)
  BY DEF Stays
<1>2. Follows(f, At(f))
  BY FollowsOn DEF ReadRight
<1>3. Status(f) = Status(e)
  BY DEF Status
<1>. QED
  BY <1>1, <1>2, <1>3 DEF Reads, ReadRight, Advances

\* Out of memory.
LEMMA MemoryReads ==
    ASSUME NEW e, NEW f, Stays(e, f), e.mode \in OpenModes, f.mode = "MEM", ~f.stuck,
           f.wsize # 0 => f.allocated, f.whave # 0 => f.wsize = WSize
    PROVE  Reads(e, f)
<1>1. f.stream = e.stream /\ Output(f) = Output(e)
  BY DEF Stays
<1>2. Status(e) = "on" /\ Status(f) = "memory"
  BY DEF Status, OpenModes, OnModes
<1>3. f.mode \notin OpenModes
  BY DEF OpenModes, OnModes
<1>4. Follows(f, At(f))
  BY <1>3 DEF Follows
<1>5. Kept(f)
  BY <1>3 DEF Kept
<1>. QED
  BY <1>1, <1>2, <1>4, <1>5 DEF Reads, ReadRight, Advances

LEMMA WrittenAll ==
    ASSUME NEW e, StreamRight(e), e.inside, e.mode \in OpenModes
    PROVE  Unpack!Written(e) = e.buf /\ Unpack!Wrote(e) = Len(e.buf)
<1> DEFINE n == Unpack!Wrote(e)
           s == e.buf
           w == Unpack!Written(e)
<1>1. n = e.out - e.left
  BY DEF Unpack!Wrote
<1>2. n \in Nat /\ n = Len(s) /\ IsSq(s)
  BY <1>1 DEF StreamRight, OpenModes, OnModes
<1>3. w = SubSeq(s, (Len(s) - n) + 1, Len(s))
  BY DEF Unpack!Written
<1> HIDE DEF n, s, w
<1>4. w = s
  BY <1>2, <1>3, EndIs
<1>. QED
  BY <1>2, <1>4 DEF n, s, w

LEMMA UpdateKept ==
    ASSUME NEW e, DOMAIN e = ZFields, NEW bytes
    PROVE  LET f == Unpack!UpdateWindow(e, bytes) IN f.wsize = WSize /\ f.allocated = TRUE
<1> DEFINE yes == TRUE
           g == [e EXCEPT !.wsize = WSize, !.allocated = yes]
<1> HIDE DEF yes
<1>1. DOMAIN g = ZFields /\ g.wsize = WSize /\ g.allocated = yes
  BY DEF ZFields
<1> HIDE DEF g
<1>2. \A w, next, have :
        LET f == [g EXCEPT !.window = w, !.wnext = next, !.whave = have]
        IN  f.wsize = g.wsize /\ f.allocated = g.allocated
  BY <1>1 DEF ZFields
<1>3. \E w, next, have :
        Unpack!UpdateWindow(e, bytes) = [g EXCEPT !.window = w, !.wnext = next, !.whave = have]
  BY DEF Unpack!UpdateWindow, g, yes
<1>. QED
  BY <1>1, <1>2, <1>3 DEF yes

\* A return in the middle of anything: some progress was made, or there was no input or no
\* room; the check value and the window are those of all text so far.
LEMMA ReturnReads == ASSUME StreamInv, ReadRight(z), Unpack!Return PROVE Reads(z, z')
<1> DEFINE e == z
           kept == e.wsize > 0 \/ (Unpack!Wrote(e) > 0 /\ e.mode # "BAD"
                                   /\ (e.mode \notin {"CHECK", "DONE"} \/ e.flush # "finish"))
           no == FALSE
           zero == 0
           flush == "no"
           still == e.have = e.in /\ e.left = e.out
           gone == [e EXCEPT !.inside = no, !.have = zero, !.in = zero, !.left = zero,
                             !.out = zero, !.flush = flush]
           c == gone.check \o Unpack!Written(e)
           r == CASE e.mode = "DONE" -> "end"
                  [] e.mode = "BAD" -> "data"
                  [] still \/ e.flush = "finish" -> "buf"
                  [] OTHER -> "ok"
           k == still /\ e.in > 0 /\ e.out > 0 /\ e.mode \notin {"DONE", "BAD", "TYPE"}
           back == [gone EXCEPT !.check = c, !.ret = r, !.stuck = k]
           m == "MEM"
           none == [gone EXCEPT !.mode = m]
           upd == Unpack!UpdateWindow(back, Unpack!Written(e))
<1>1. /\ z.inside /\ StreamRight(e) /\ Shaped(e) /\ Unpack!Stops(e) /\ ReadRight(e)
      /\ z' \in IF kept THEN Unpack!Updates(back, Unpack!Written(e), none) ELSE {back}
  BY DEF Unpack!Return, Unpack!Leave, StreamInv, StreamRight
<1>2. no = FALSE /\ zero = 0 /\ m = "MEM"
  OBVIOUS
<1>3. z' = upd \/ (z' = none /\ kept /\ ~e.allocated) \/ z' = back
  <2>0. back.allocated = e.allocated
    <3> HIDE DEF e, no, zero, flush, c, r, k
    <3>1. DOMAIN gone = ZFields /\ gone.allocated = e.allocated
      BY <1>1 DEF Shaped, ZFields
    <3> HIDE DEF gone
    <3>. QED
      BY <3>1 DEF ZFields
  <2> HIDE DEF kept, none, back, e
  <2>1. kept => z' \in {upd} \union IF back.allocated THEN {} ELSE {none}
    BY <1>1 DEF Unpack!Updates
  <2>2. ~kept => z' = back
    BY <1>1
  <2>. QED
    BY <2>0, <2>1, <2>2 DEF upd
<1>4. Kept(e) /\ e.mode \in OpenModes \union {"DONE", "BAD", "MEM"}
  BY <1>1 DEF ReadRight, Kept
<1>5. k = FALSE
  <2>1. e.have \in Nat /\ e.left \in Nat
    BY <1>1 DEF StreamRight
  <2>. QED
    BY <1>1, <2>1 DEF Unpack!Stops
<1>6. e.wsize = 0 \/ e.wsize > 0
  BY <1>1, WSizeIs DEF Shaped
<1>7. kept /\ ~e.allocated => e.mode \in OpenModes
  <2> HAVE kept /\ ~e.allocated
  <2>1. ~(e.wsize > 0)
    <3>1. e.wsize = 0
      BY <1>4 DEF Kept
    <3>. QED
      BY <3>1
  <2>2. e.mode # "MEM"
    BY <1>1 DEF Unpack!Stops
  <2>3. e.mode # "DONE"
    <3> SUFFICES ASSUME e.mode = "DONE" PROVE FALSE
      OBVIOUS
    <3>1. e.out = e.left /\ e.left \in Nat
      BY <1>1, <1>4 DEF Kept, StreamRight
    <3>2. Unpack!Wrote(e) = 0
      BY <3>1 DEF Unpack!Wrote
    <3>. QED
      BY <2>1, <3>2
  <2>. QED
    BY <1>4, <2>1, <2>2, <2>3
<1>8. e.mode \in OpenModes => e.check = e.past /\ Unpack!Written(e) = e.buf
  BY <1>1, <1>4, WrittenAll DEF Kept
<1> HIDE DEF e, no, zero, flush, c, r, k, kept, m
<1>9. /\ DOMAIN gone = ZFields /\ gone.inside = no /\ gone.left = zero /\ gone.out = zero
      /\ \A x \in ZFields \ {"inside", "have", "in", "left", "out", "flush"} : gone[x] = e[x]
  BY <1>1 DEF Shaped, ZFields
<1>10. c = e.check \o Unpack!Written(e)
  <2> HIDE DEF gone
  <2>1. gone.check = e.check
    BY <1>9 DEF ZFields
  <2>. QED
    BY <2>1 DEF c
<1> HIDE DEF gone
<1>11. /\ DOMAIN back = ZFields /\ back.check = c /\ back.stuck = k
       /\ \A x \in ZFields \ {"check", "ret", "stuck"} : back[x] = gone[x]
  BY <1>9 DEF ZFields
<1>12. /\ DOMAIN none = ZFields /\ none.mode = m
       /\ \A x \in ZFields \ {"mode"} : none[x] = gone[x]
  BY <1>9 DEF ZFields
<1> HIDE DEF back, none
<1>13. /\ back.stream = e.stream /\ back.at = e.at /\ back.last = e.last
       /\ back.havedict = e.havedict /\ back.length = e.length /\ back.offset = e.offset
       /\ back.past = e.past /\ back.buf = e.buf /\ back.mode = e.mode
       /\ back.allocated = e.allocated /\ back.wsize = e.wsize /\ back.whave = e.whave
       /\ back.inside = no /\ back.left = zero /\ back.out = zero
  BY <1>9, <1>11 DEF ZFields
<1>14. Stays(e, back) /\ Output(back) = Output(e)
  BY <1>13 DEF Stays, Output
<1>15. e.mode \in OpenModes => c = Output(e)
  BY <1>8, <1>10 DEF Output
<1>16. Kept(back)
  <2>1. ~back.stuck /\ ~back.inside /\ back.out = back.left
    BY <1>2, <1>5, <1>11, <1>13
  <2>2. back.mode \in OpenModes => back.check = Output(back)
    BY <1>11, <1>13, <1>14, <1>15
  <2>. QED
    BY <1>4, <1>13, <2>1, <2>2 DEF Kept
<1>17. CASE z' = back
  BY <1>1, <1>13, <1>14, <1>16, <1>17, StayingReads DEF e
<1>18. CASE z' = upd
  <2> HIDE DEF upd
  <2>1. upd.wsize = WSize /\ upd.allocated = TRUE
    BY <1>11, UpdateKept DEF upd
  <2>2. Rewinds(back, upd)
    <3>1. Shaped(back)
      <4>1. back.window = e.window /\ back.wnext = e.wnext
        BY <1>9, <1>11 DEF ZFields
      <4>. QED
        BY <1>1, <1>11, <1>13, <4>1 DEF Shaped
    <3>2. IsSq(Unpack!Written(e))
      BY <1>1, WrittenIs
    <3>. QED
      BY <3>1, <3>2, UpdateShapes DEF upd
  <2>3. /\ upd.stream = back.stream /\ upd.at = back.at /\ upd.last = back.last
        /\ upd.havedict = back.havedict /\ upd.length = back.length /\ upd.offset = back.offset
        /\ upd.past = back.past /\ upd.buf = back.buf /\ upd.mode = back.mode
        /\ upd.inside = back.inside /\ upd.left = back.left /\ upd.out = back.out
        /\ upd.check = back.check /\ upd.stuck = back.stuck
    BY <2>2 DEF Rewinds, ZFields, WindowFields
  <2>4. Output(upd) = Output(back)
    BY <2>3 DEF Output
  <2>5. Stays(e, upd)
    BY <1>13, <1>14, <2>3, <2>4 DEF Stays
  <2>6. Kept(upd)
    BY <1>16, <2>1, <2>3, <2>4 DEF Kept
  <2>. QED
    BY <1>1, <1>13, <1>18, <2>3, <2>5, <2>6, StayingReads DEF e
<1>19. CASE z' = none /\ kept /\ ~e.allocated
  <2>1. /\ none.stream = e.stream /\ none.at = e.at /\ none.last = e.last
        /\ none.havedict = e.havedict /\ none.length = e.length /\ none.offset = e.offset
        /\ none.past = e.past /\ none.buf = e.buf /\ none.stuck = e.stuck
        /\ none.allocated = e.allocated /\ none.wsize = e.wsize /\ none.whave = e.whave
    BY <1>9, <1>12 DEF ZFields
  <2>2. Stays(e, none)
    BY <2>1 DEF Stays, Output
  <2>3. none.mode = "MEM" /\ ~none.stuck /\ (none.wsize # 0 => none.allocated)
        /\ (none.whave # 0 => none.wsize = WSize)
    BY <1>2, <1>4, <1>12, <2>1 DEF Kept
  <2>4. Reads(e, none)
    BY <1>7, <1>19, <2>2, <2>3, MemoryReads
  <2>. QED
    BY <1>19, <2>4 DEF e
<1>. QED
  BY <1>3, <1>17, <1>18, <1>19

\* The call that asks for a dictionary leaves with nothing put out.
LEMMA NeedDictReads == ASSUME StreamInv, ReadRight(z), Unpack!NeedDict PROVE Reads(z, z')
<1> DEFINE e == z
           no == FALSE
           zero == 0
           flush == "no"
           dict == "dict"
           f == [e EXCEPT !.inside = no, !.have = zero, !.in = zero, !.left = zero, !.out = zero,
                          !.flush = flush, !.ret = dict]
<1>1. /\ e.inside /\ e.mode = "DICT" /\ ~e.havedict /\ z' = f /\ StreamRight(e) /\ Shaped(e)
      /\ ReadRight(e) /\ Kept(e)
  BY DEF Unpack!NeedDict, StreamInv, StreamRight, ReadRight
<1>2. no = FALSE /\ zero = 0
  OBVIOUS
<1> HIDE DEF e, no, zero, flush, dict
<1>3. /\ DOMAIN f = ZFields /\ f.inside = no
      /\ \A x \in ZFields \ {"inside", "have", "in", "left", "out", "flush", "ret"} : f[x] = e[x]
  BY <1>1 DEF Shaped, ZFields
<1> HIDE DEF f
<1>4. /\ f.stream = e.stream /\ f.at = e.at /\ f.last = e.last /\ f.havedict = e.havedict
      /\ f.length = e.length /\ f.offset = e.offset /\ f.past = e.past /\ f.buf = e.buf
      /\ f.mode = e.mode /\ f.stuck = e.stuck /\ f.check = e.check
      /\ f.allocated = e.allocated /\ f.wsize = e.wsize /\ f.whave = e.whave
  BY <1>3 DEF ZFields
<1>5. Stays(e, f) /\ Output(f) = Output(e)
  BY <1>4 DEF Stays, Output
<1>6. e.past = <<>> /\ e.buf = <<>> /\ e.mode \in OpenModes
  BY <1>1 DEF StreamRight, Starts, OpenModes, OnModes
<1>7. Output(e) = e.past
  <2>1. Output(e) = <<>> \o <<>>
    BY <1>6 DEF Output
  <2>. QED
    BY <1>6, <2>1, NoneIs, JoinEmpty
<1>8. e.check = e.past
  BY <1>1, <1>6 DEF Kept
<1>9. Kept(f)
  BY <1>1, <1>2, <1>3, <1>4, <1>5, <1>7, <1>8 DEF Kept
<1>10. Reads(e, f)
  BY <1>1, <1>4, <1>5, <1>9, StayingReads
<1>. QED
  BY <1>1, <1>10 DEF e

\* A new call: what the last one put out is text of earlier calls now.
LEMMA InflateReads ==
    ASSUME StreamInv, ReadRight(z), NEW h, NEW room, NEW fl, Unpack!Inflate(h, room, fl)
    PROVE  Reads(z, z')
<1> DEFINE e == z
           yes == TRUE
           u == e.past \o e.buf
           none == <<>>
           ok == "ok"
           m == IF e.mode = "TYPE" THEN "TYPEDO" ELSE e.mode
           f == [e EXCEPT !.inside = yes, !.past = u, !.buf = none, !.ret = ok, !.have = h, !.in = h,
                          !.left = room, !.out = room, !.flush = fl, !.mode = m]
<1>1. /\ ~e.inside /\ e.mode # "MEM" /\ z' = f /\ StreamRight(e) /\ Shaped(e)
      /\ ReadRight(e) /\ Kept(e)
  BY DEF Unpack!Inflate, StreamInv, StreamRight, ReadRight
<1>2. yes = TRUE /\ none = <<>>
  OBVIOUS
<1>3. m = e.mode \/ (e.mode = "TYPE" /\ m = "TYPEDO")
  OBVIOUS
<1>4. u = Output(e) /\ IsSq(u)
  BY <1>1, TextsAre DEF Output
<1> HIDE DEF e, yes, u, none, ok, m
<1>5. /\ DOMAIN f = ZFields /\ f.inside = yes /\ f.past = u /\ f.buf = none
      /\ f.left = room /\ f.out = room /\ f.mode = m
      /\ \A x \in ZFields \ {"inside", "past", "buf", "ret", "have", "in", "left", "out", "flush", "mode"} :
           f[x] = e[x]
  BY <1>1 DEF Shaped, ZFields
<1> HIDE DEF f
<1>6. /\ f.stream = e.stream /\ f.at = e.at /\ f.last = e.last /\ f.havedict = e.havedict
      /\ f.length = e.length /\ f.offset = e.offset /\ f.stuck = e.stuck /\ f.check = e.check
      /\ f.allocated = e.allocated /\ f.wsize = e.wsize /\ f.whave = e.whave
  BY <1>5 DEF ZFields
<1>7. Output(f) = Output(e)
  BY <1>2, <1>4, <1>5, JoinEmpty DEF Output
<1>8. Stays(e, f)
  BY <1>6, <1>7 DEF Stays
<1>9. Kept(f)
  <2>1. f.inside
    BY <1>2, <1>5
  <2>2. f.mode \in OpenModes => e.mode \in OpenModes
    BY <1>3, <1>5 DEF OpenModes, OnModes
  <2>3. f.mode \in OpenModes => f.check = f.past
    BY <1>1, <1>4, <1>5, <1>6, <2>2 DEF Kept
  <2>4. f.mode \in OpenModes \union {"DONE", "BAD", "MEM"}
    BY <1>1, <1>3, <1>5 DEF Kept, OpenModes, OnModes
  <2>. QED
    BY <1>1, <1>5, <1>6, <2>1, <2>3, <2>4 DEF Kept
<1>10. Reads(e, f)
  BY <1>1, <1>3, <1>5, <1>8, <1>9, StayingReads
<1>. QED
  BY <1>1, <1>10 DEF e

\* Every stream starts as the reference does.
LEMMA OutsetReads ==
    ASSUME NEW s \in Streams, NEW f, f.stream = s, f.at = 1, f.mode = "HEAD", f.last = FALSE,
           f.havedict = FALSE, f.whave = 0, f.wsize = 0, f.check = <<>>, f.past = <<>>,
           f.buf = <<>>, f.stuck = FALSE
    PROVE  ReadRight(f) /\ Output(f) = <<>> /\ Status(f) = "on"
<1>1. Len(s.units) \in Nat
  BY StreamIs
<1>2. f.at - 1 = 0
  OBVIOUS
<1>3. At(f) = Outset
  BY <1>1, <1>2, StagesAre DEF At
<1>4. Output(f) = <<>>
  <2>1. Output(f) = <<>> \o <<>>
    BY DEF Output
  <2>. QED
    BY <2>1, NoneIs, JoinEmpty
<1>5. Used(f) = <<>>
  BY DEF Used
<1>6. f.mode \in OpenModes /\ f.mode = "HEAD"
  BY DEF OpenModes, OnModes
<1>7. Outset.next = "head" /\ Outset.dict = <<>> /\ Outset.text = <<>> /\ Outset.last = FALSE
  BY DEF Outset
<1>8. Follows(f, Outset)
  BY <1>4, <1>5, <1>6, <1>7 DEF Follows
<1>9. Kept(f)
  BY <1>4, <1>6 DEF Kept
<1>10. Status(f) = "on"
  BY DEF Status
<1>. QED
  BY <1>3, <1>4, <1>8, <1>9, <1>10 DEF ReadRight

LEMMA ReadInitIs == ASSUME Unpack!Init PROVE ReadRight(z) /\ Output(z) = <<>> /\ Status(z) = "on"
<1>1. PICK s \in Streams : z = Unpack!Reset(s)
  BY DEF Unpack!Init
<1>2. /\ z.stream = s /\ z.at = 1 /\ z.mode = "HEAD" /\ z.last = FALSE /\ z.havedict = FALSE
      /\ z.whave = 0 /\ z.wsize = 0 /\ z.check = <<>> /\ z.past = <<>> /\ z.buf = <<>>
      /\ z.stuck = FALSE
  BY <1>1 DEF Unpack!Reset
<1>. QED
  BY <1>2, OutsetReads

LEMMA ResetReads == ASSUME StreamInv, Unpack!InflateReset PROVE Reads(z, z')
<1> DEFINE s == z.stream
           w == z.window
           a == z.allocated
           n == z.resets + 1
           g == Unpack!Reset(s)
           f == [g EXCEPT !.window = w, !.allocated = a, !.resets = n]
<1>1. z' = f /\ s \in Streams
  BY DEF Unpack!InflateReset, StreamInv, StreamRight
<1>2. /\ DOMAIN g = ZFields
      /\ g.stream = s /\ g.at = 1 /\ g.mode = "HEAD" /\ g.last = FALSE /\ g.havedict = FALSE
      /\ g.whave = 0 /\ g.wsize = 0 /\ g.check = <<>> /\ g.past = <<>> /\ g.buf = <<>>
      /\ g.stuck = FALSE
  BY DEF Unpack!Reset, ZFields
<1> HIDE DEF s, w, a, n, g
<1>3. \A x \in ZFields \ {"window", "allocated", "resets"} : f[x] = g[x]
  BY <1>2 DEF ZFields
<1> HIDE DEF f
<1>4. /\ f.stream = s /\ f.at = 1 /\ f.mode = "HEAD" /\ f.last = FALSE /\ f.havedict = FALSE
      /\ f.whave = 0 /\ f.wsize = 0 /\ f.check = <<>> /\ f.past = <<>> /\ f.buf = <<>>
      /\ f.stuck = FALSE
  BY <1>2, <1>3 DEF ZFields
<1>5. ReadRight(f) /\ Output(f) = <<>> /\ Status(f) = "on"
  BY <1>1, <1>4, OutsetReads
<1>6. Advances(z, f)
  BY <1>5 DEF Advances
<1>. QED
  BY <1>1, <1>4, <1>5, <1>6 DEF Reads, s

\* With its dictionary the stream is where the reference is after the header.
LEMMA SetDictionaryReads ==
    ASSUME StreamInv, ReadRight(z), Unpack!SetDictionary PROVE Reads(z, z')
<1> DEFINE e == z
           D == e.stream.dict
           yes == TRUE
           m == "MEM"
           g == [e EXCEPT !.havedict = yes]
           none == [e EXCEPT !.mode = m]
           upd == Unpack!UpdateWindow(g, D)
<1>1. /\ ~e.inside /\ e.mode = "DICT" /\ ~e.havedict /\ StreamRight(e) /\ Shaped(e)
      /\ ReadRight(e) /\ Kept(e) /\ e.stream \in Streams
      /\ z' \in Unpack!Updates(g, D, none)
  BY DEF Unpack!SetDictionary, StreamInv, StreamRight, ReadRight
<1>2. yes = TRUE /\ m = "MEM" /\ IsSq(D)
  BY <1>1, StreamIs
<1>o. e.mode \in OpenModes
  BY <1>1 DEF OpenModes, OnModes
<1>r. LET r == At(e)
      IN  /\ r.last = e.last /\ r.dict = e.stream.dict /\ r.text = Output(e)
          /\ r.next = "block" /\ ~r.last
  BY <1>1, <1>o, Zenon DEF ReadRight, Follows
<1> HIDE DEF e, yes, m, D
<1>3. /\ DOMAIN g = ZFields /\ g.havedict = yes /\ \A x \in ZFields \ {"havedict"} : g[x] = e[x]
  BY <1>1 DEF Shaped, ZFields
<1>4. /\ DOMAIN none = ZFields /\ none.mode = m /\ \A x \in ZFields \ {"mode"} : none[x] = e[x]
  BY <1>1 DEF Shaped, ZFields
<1> HIDE DEF g, none, upd
<1>5. z' = upd \/ z' = none
  BY <1>1 DEF Unpack!Updates, upd
<1>6. CASE z' = none
  <2>1. /\ none.stream = e.stream /\ none.at = e.at /\ none.last = e.last
        /\ none.havedict = e.havedict /\ none.length = e.length /\ none.offset = e.offset
        /\ none.past = e.past /\ none.buf = e.buf /\ none.stuck = e.stuck
        /\ none.allocated = e.allocated /\ none.wsize = e.wsize /\ none.whave = e.whave
    BY <1>4 DEF ZFields
  <2>2. Stays(e, none)
    BY <2>1 DEF Stays, Output
  <2>3. none.mode = "MEM" /\ ~none.stuck /\ (none.wsize # 0 => none.allocated)
        /\ (none.whave # 0 => none.wsize = WSize)
    BY <1>1, <1>2, <1>4, <2>1 DEF Kept
  <2>4. Reads(e, none)
    BY <1>o, <2>2, <2>3, MemoryReads
  <2>. QED
    BY <1>6, <2>4 DEF e
<1>7. CASE z' = upd
  <2>1. upd.wsize = WSize /\ upd.allocated = TRUE
    BY <1>3, UpdateKept DEF upd
  <2>2. Rewinds(g, upd)
    <3>1. Shaped(g)
      <4>1. g.window = e.window /\ g.wnext = e.wnext /\ g.whave = e.whave /\ g.wsize = e.wsize
        BY <1>3 DEF ZFields
      <4>. QED
        BY <1>1, <1>3, <4>1 DEF Shaped
    <3>. QED
      BY <1>2, <3>1, UpdateShapes DEF upd
  <2>3. /\ upd.stream = g.stream /\ upd.at = g.at /\ upd.last = g.last
        /\ upd.havedict = g.havedict /\ upd.past = g.past /\ upd.buf = g.buf
        /\ upd.mode = g.mode /\ upd.inside = g.inside /\ upd.left = g.left
        /\ upd.out = g.out /\ upd.check = g.check /\ upd.stuck = g.stuck
    BY <2>2 DEF Rewinds, ZFields, WindowFields
  <2>4. /\ upd.stream = e.stream /\ upd.at = e.at /\ upd.last = e.last
        /\ upd.havedict /\ upd.past = e.past /\ upd.buf = e.buf
        /\ upd.mode = "DICT" /\ upd.inside = e.inside /\ upd.left = e.left
        /\ upd.out = e.out /\ upd.check = e.check /\ upd.stuck = e.stuck
    BY <1>1, <1>2, <1>3, <2>3 DEF ZFields
  <2>5. Output(upd) = Output(e) /\ At(upd) = At(e)
    BY <2>4 DEF Output, At
  <2>6. upd.mode \in OpenModes /\ upd.mode = "DICT"
    BY <2>4 DEF OpenModes, OnModes
  <2> DEFINE q == At(upd)
  <2>7. /\ q.last = upd.last /\ q.dict = upd.stream.dict /\ q.text = Output(upd)
        /\ q.next = "block" /\ ~q.last
    BY <1>r, <2>4, <2>5
  <2> HIDE DEF q
  <2>8. Follows(upd, q)
    BY <2>6, <2>7 DEF Follows
  <2>9. Kept(upd)
    BY <1>1, <1>o, <2>1, <2>4, <2>5, <2>6 DEF Kept
  <2>10. Status(upd) = Status(e)
    BY <1>1, <2>4 DEF Status
  <2>11. Reads(e, upd)
    BY <2>4, <2>5, <2>8, <2>9, <2>10 DEF Reads, ReadRight, Advances, q
  <2>. QED
    BY <1>7, <2>11 DEF e
<1>. QED
  BY <1>5, <1>6, <1>7

\* Once the reference is over, its text is all there is.
LEMMA OverIs ==
    ASSUME NEW e, StreamRight(e), At(e).next \in {"done", "bad"}
    PROVE  /\ At(e).text = Unpack!WholeText(e.stream)
           /\ At(e).next = "done" <=> Unpack!Good(e.stream)
<1> DEFINE s == e.stream
           i == e.at - 1
<1>1. s \in Streams /\ i \in 0 .. Len(s.units)
  BY StageHere
<1>2. Grows(Stage(s, i), Stage(s, Len(s.units)))
  BY <1>1, StagesGrow
<1>3. Stage(s, Len(s.units)).text = At(e).text /\ Stage(s, Len(s.units)).next = At(e).next
  BY <1>2 DEF Grows, At
<1>. QED
  BY <1>3 DEF Unpack!WholeText, Unpack!Good, Stage

\* The check value: what was summed over all calls is all of the text.
LEMMA CheckReads == ASSUME StreamInv, ReadRight(z), Unpack!Check PROVE Reads(z, z')
<1>1. z.inside /\ z.mode = "CHECK" /\ z.mode \in OpenModes /\ z.have # 0 /\ StreamRight(z)
  BY DEF Unpack!Check, Unpack!Case, Unpack!Stops, StreamInv, OpenModes
<1> DEFINE s == z.stream
           sum == z.check \o Unpack!Written(z)
           right == s.right /\ sum = Unpack!WholeText(s)
           m == IF right THEN "DONE" ELSE "BAD"
           o == z.left
           g == Unpack!Took(z, 1)
           f == [g EXCEPT !.check = sum, !.out = o, !.mode = m]
           r == At(z)
           u == s.units[z.at]
           q == At(f)
<1>2. z' = f
  BY DEF Unpack!Check
<1>3. Kept(z) /\ r.text = Output(z) /\ r.next = "check"
  BY <1>1, Zenon DEF ReadRight, Follows
<1>4. sum = Output(z)
  BY <1>1, <1>3, WrittenAll DEF Output, Kept
<1>5. /\ DOMAIN g = ZFields /\ g.at = z.at + 1
      /\ \A x \in ZFields \ {"at", "have"} : g[x] = z[x]
  BY TookIs DEF StreamInv
<1>m. m \in {"DONE", "BAD"}
  OBVIOUS
<1> HIDE DEF g, sum, o, m
<1>6. /\ DOMAIN f = ZFields /\ f.mode = m /\ f.out = o
      /\ \A x \in ZFields \ {"check", "out", "mode"} : f[x] = g[x]
  BY <1>5 DEF ZFields
<1> HIDE DEF f
<1>7. /\ f.at = z.at + 1 /\ f.stream = z.stream /\ f.left = z.left /\ f.past = z.past
      /\ f.buf = z.buf /\ f.stuck = z.stuck /\ f.allocated = z.allocated
      /\ f.wsize = z.wsize /\ f.whave = z.whave
  BY <1>5, <1>6 DEF ZFields
<1>8. q = Unpack!Decode(s, r, u) /\ DOMAIN r = StageFields
  <2>1. StageRight(s, r)
    BY <1>1, StageHere
  <2>. QED
    BY <1>1, <1>7, <2>1, NextStage DEF StageRight
<1>9. Output(f) = Output(z)
  BY <1>7 DEF Output
<1> HIDE DEF r, u, q
<1>10. Changes(r, q, {"next"}) /\ q.next = IF s.right THEN "done" ELSE "bad"
  <2>1. CASE s.right
    <3> DEFINE p == Unpack!Decode(s, r, u)
    <3>1. DOMAIN r = StageFields /\ r.next = "check"
      BY <1>3, <1>8
    <3>2. Changes(r, p, {"next"}) /\ p.next = "done"
      BY <2>1, <3>1, DecodeCheck
    <3> HIDE DEF p
    <3>. QED
      BY <1>8, <2>1, <3>2 DEF p
  <2>2. CASE ~s.right
    BY <1>3, <1>8, <2>2, DecodeWrong, Zenon
  <2>. QED
    BY <2>1, <2>2
<1>11. q.text = Output(z) /\ q.next \in {"done", "bad"}
  BY <1>3, <1>10 DEF Changes, StageFields
<1>12. Unpack!WholeText(s) = Output(z)
  <2>1. StreamRight(f)
    BY <1>2, CheckKeeps
  <2>. QED
    BY <1>7, <1>11, <2>1, OverIs DEF q
<1>13. m = IF s.right THEN "DONE" ELSE "BAD"
  BY <1>4, <1>12 DEF m
<1>14. f.mode \notin OpenModes /\ f.mode \in {"DONE", "BAD"}
  BY <1>6, <1>m DEF OpenModes, OnModes
<1>15. Follows(f, q)
  BY <1>6, <1>9, <1>10, <1>11, <1>13, <1>14 DEF Follows
<1>16. Kept(f)
  BY <1>3, <1>6, <1>7, <1>14 DEF Kept, o
<1>17. Advances(z, f)
  <2>1. Status(z) = "on" /\ Status(f) \in {"end", "error"}
    BY <1>1, <1>14 DEF Status
  <2>. QED
    BY <1>9, <2>1 DEF Advances
<1>18. Reads(z, f)
  BY <1>7, <1>15, <1>16, <1>17 DEF Reads, ReadRight, q
<1>. QED
  BY <1>2, <1>18

LEMMA ReadsAll == ASSUME StreamInv, ReadRight(z), Unpack!Next PROVE Reads(z, z')
<1>1. ASSUME NEW h \in 0 .. MaxIn, NEW room \in 0 .. MaxRoom, NEW fl \in {"no", "block", "finish"},
             Unpack!Inflate(h, room, fl)
      PROVE  Reads(z, z')
  BY <1>1, InflateReads
<1>2. CASE Unpack!InflateReset
  BY <1>2, ResetReads
<1>3. CASE Unpack!SetDictionary
  BY <1>3, SetDictionaryReads
<1>4. CASE Unpack!Return
  BY <1>4, ReturnReads
<1>5. CASE Unpack!NeedDict
  BY <1>5, NeedDictReads
<1>6. CASE Unpack!Header
  BY <1>6, HeaderReads
<1>7. CASE Unpack!Dict
  BY <1>7, DictReads
<1>8. CASE Unpack!Type
  BY <1>8, TypeReads
<1>9. CASE Unpack!TypeDo
  BY <1>9, TypeDoReads
<1>10. CASE Unpack!Stored
  BY <1>10, StoredReads
<1>11. CASE Unpack!Copy
  BY <1>11, CopyReads
<1>12. CASE Unpack!Fast
  BY <1>12, FastReads
<1>13. CASE Unpack!Len_
  BY <1>13, LenReads
<1>14. CASE Unpack!Dist
  BY <1>14, DistReads
<1>15. CASE Unpack!Lit
  BY <1>15, LitReads
<1>16. CASE Unpack!Match
  BY <1>16, MatchReads
<1>17. CASE Unpack!Check
  BY <1>17, CheckReads
<1>. QED
  BY <1>1, <1>2, <1>3, <1>4, <1>5, <1>6, <1>7, <1>8, <1>9, <1>10, <1>11, <1>12, <1>13, <1>14,
     <1>15, <1>16, <1>17 DEF Unpack!Next

LEMMA PrefixIs ==
    ASSUME NEW x, IsSq(x), NEW y, IsSq(y), Begins(x, y) PROVE Unpack!Promise!IsPrefix(x, y)
<1>1. PICK S : x \in Seq(S)
  BY DEF IsSq
<1>2. PICK T : y \in Seq(T)
  BY DEF IsSq
<1> DEFINE m == Len(x)
           n == Len(y)
<1>3. m \in Nat /\ n \in Nat /\ m <= n /\ \A i \in 1 .. m : x[i] = y[i]
  BY Joined DEF Begins
<1>4. SubSeq(x, 1, m) = [i \in 1 .. m |-> x[i]] /\ SubSeq(y, 1, m) = [i \in 1 .. m |-> y[i]]
  BY <1>1, <1>2, <1>3
<1> HIDE DEF m, n
<1>5. SubSeq(x, 1, m) = SubSeq(y, 1, m)
  BY <1>3, <1>4
<1>. QED
  BY <1>3, <1>5 DEF Unpack!Promise!IsPrefix, m, n

\* What has come out is the start of all there is.
LEMMA OpenBegins ==
    ASSUME NEW e, StreamRight(e), ReadRight(e), e.mode \in OpenModes
    PROVE  Begins(Output(e), Unpack!WholeText(e.stream)) /\ IsSq(Unpack!WholeText(e.stream))
<1> DEFINE s == e.stream
           i == e.at - 1
           r == At(e)
           t == Output(e)
           w == Unpack!WholeText(s)
<1>1. s \in Streams /\ i \in 0 .. Len(s.units) /\ StageRight(s, r) /\ Len(s.units) \in Nat
  BY StageHere, StreamIs
<1>2. w = Stage(s, Len(s.units)).text
  BY DEF Unpack!WholeText, Stage
<1>3. IsSq(t) /\ IsSq(r.text) /\ IsSq(w)
  <2>1. StageRight(s, Stage(s, Len(s.units)))
    BY <1>1, StagesRight
  <2>. QED
    BY <1>1, <1>2, <2>1, TextsAre DEF StageRight
<1>4. Grows(r, Stage(s, Len(s.units)))
  BY <1>1, StagesGrow DEF At
<1>5. Begins(r.text, w)
  BY <1>2, <1>4 DEF Grows
<1>6. Follows(e, r)
  BY DEF ReadRight
<1>7. Begins(t, r.text)
  <2> DEFINE x == e.length
             b == Unpack!Repeated(All(e), e.offset, x)
  <2>1. CASE e.mode \notin {"LIT", "MATCH"}
    <3>1. r.text = t
      <4>1. e.mode # "MEM"
        BY DEF OpenModes, OnModes
      <4>. QED
        BY <1>6, <2>1, <4>1, Zenon DEF Follows
    <3> HIDE DEF r, t
    <3>. QED
      BY <1>3, <3>1, BeginsSelf
  <2>2. CASE e.mode = "LIT"
    <3>1. r.text = Append(t, x)
      BY <1>6, <2>2, Zenon DEF Follows
    <3> DEFINE y == <<x>>
    <3> HIDE DEF r, t, x
    <3>2. IsSq(y) /\ Append(t, x) = t \o y
      BY <1>3, OneByte, AppendIs
    <3> HIDE DEF y
    <3>3. Begins(t, t \o y)
      BY <1>3, <3>2, BeginsJoined
    <3>. QED
      BY <3>1, <3>2, <3>3
  <2>3. CASE e.mode = "MATCH"
    <3>1. Matching(e, r)
      BY <1>6, <2>3, Zenon DEF Follows
    <3>2. r.text = t \o b \/ r.text = t
      BY <3>1 DEF Matching
    <3>3. IsSq(b)
      BY RepeatedIs DEF StreamRight
    <3> HIDE DEF r, t, b
    <3>4. Begins(t, t \o b) /\ Begins(t, t)
      BY <1>3, <3>3, BeginsJoined, BeginsSelf
    <3>. QED
      BY <3>2, <3>4
  <2>. QED
    BY <2>1, <2>2, <2>3
<1> HIDE DEF r, t, w
<1>8. Begins(t, w)
  BY <1>3, <1>5, <1>7, BeginsOn
<1>. QED
  BY <1>3, <1>8 DEF t, w

\* Every step is one of the promise's, or none.
LEMMA ReadStep ==
    ASSUME StreamRight(z'), ReadRight(z), Reads(z, z')
    PROVE  [Unpack!Promise!Next]_Unpack!Promise!vars
<1>1. z'.stream = z.stream /\ ReadRight(z') /\ Kept(z') /\ Follows(z', At(z')) /\ Kept(z)
  BY DEF Reads, ReadRight
<1>2. /\ Output(z) = z.past \o z.buf /\ Output(z') = z'.past \o z'.buf
  BY DEF Output
<1>3. CASE Output(z') = Output(z) /\ Status(z') = Status(z)
  BY <1>1, <1>2, <1>3 DEF Unpack!Promise!vars, Status
<1>4. CASE Status(z) = "on" /\ Status(z') = "on" /\ Len(Output(z')) > Len(Output(z))
  <2>1. z'.mode \in OpenModes
    <3>1. z'.mode \in OpenModes \union {"DONE", "BAD", "MEM"}
      BY <1>1 DEF Kept
    <3>. QED
      BY <1>4, <3>1 DEF Status
  <2>2. Unpack!Promise!IsPrefix(Output(z'), Unpack!WholeText(z'.stream))
    <3>1. /\ Begins(Output(z'), Unpack!WholeText(z'.stream))
          /\ IsSq(Unpack!WholeText(z'.stream)) /\ IsSq(Output(z'))
      BY <1>1, <2>1, OpenBegins, TextsAre
    <3>. QED
      BY <3>1, PrefixIs
  <2>3. Unpack!Promise!Put
    BY <1>1, <1>2, <1>4, <2>2 DEF Unpack!Promise!Put, Status
  <2>. QED
    BY <2>3 DEF Unpack!Promise!Next
<1>5. CASE Status(z) = "on" /\ Output(z') = Output(z) /\ Status(z') = "memory"
  <2>1. Unpack!Promise!NoMemory
    BY <1>1, <1>2, <1>5 DEF Unpack!Promise!NoMemory, Status
  <2>. QED
    BY <2>1 DEF Unpack!Promise!Next
<1>6. CASE Status(z) = "on" /\ Output(z') = Output(z) /\ Status(z') \in {"end", "error"}
  <2>1. z'.mode = (IF Status(z') = "end" THEN "DONE" ELSE "BAD")
    BY <1>6 DEF Status
  <2>2. At(z').text = Output(z') /\ At(z').next = (IF Status(z') = "end" THEN "done" ELSE "bad")
    BY <1>1, <2>1 DEF Follows
  <2>3. /\ Output(z') = Unpack!WholeText(z'.stream)
        /\ Status(z') = "end" <=> Unpack!Good(z'.stream)
    BY <2>2, OverIs
  <2>4. Unpack!Promise!Finish
    BY <1>1, <1>2, <1>6, <2>3 DEF Unpack!Promise!Finish, Status
  <2>. QED
    BY <2>4 DEF Unpack!Promise!Next
<1>7. CASE Output(z') = <<>> /\ Status(z') = "on"
  <2>1. Unpack!Promise!Restart
    BY <1>1, <1>2, <1>7 DEF Unpack!Promise!Restart, Unpack!Promise!Init, Status
  <2>. QED
    BY <2>1 DEF Unpack!Promise!Next
<1>. QED
  BY <1>3, <1>4, <1>5, <1>6, <1>7 DEF Reads, Advances
-----------------------------------------------------------------------------
(***************************************************************************)
(* The programs side by side.                                              *)
(***************************************************************************)
PartsInv ==
    /\ part = "arun" => TypeInv
    /\ part = "app" => AppInv
    /\ part = "query" => QueryInv
    /\ part = "rows" => RowsInv
    /\ part = "stream" => StreamInv

LEMMA PartsInitIs == ASSUME ProgramsInit PROVE PartsInv
<1>1. TypeInv
  BY InitTypes DEF ProgramsInit
<1>2. AppInv
  BY AppInitIs DEF ProgramsInit
<1>3. QueryInv
  BY QueryInitIs DEF ProgramsInit
<1>4. RowsInv
  BY RowsInitIs DEF ProgramsInit
<1>5. StreamInv
  BY StreamInitIs DEF ProgramsInit
<1>. QED
  BY <1>1, <1>2, <1>3, <1>4, <1>5 DEF PartsInv

LEMMA PartsKeep == ASSUME PartsInv, [ProgramsNext]_allVars PROVE PartsInv'
<1>1. part' = part
  BY DEF ProgramsNext, allVars
<1>2. part = "arun" => TypeInv'
  <2> HAVE part = "arun"
  <2>1. TypeInv /\ [Next]_vars
    BY DEF ProgramsNext, allVars, PartsInv
  <2>. QED
    BY <2>1, NextTypes
<1>3. part = "app" => AppInv'
  <2> HAVE part = "app"
  <2>1. AppInv /\ (App!Next \/ UNCHANGED appVars)
    BY DEF ProgramsNext, allVars, PartsInv, AppRests
  <2>. QED
    BY <2>1, AppKeeps
<1>4. part = "query" => QueryInv'
  <2> HAVE part = "query"
  <2>1. QueryInv /\ [QueryNext]_queryVars
    BY DEF ProgramsNext, allVars, PartsInv
  <2>. QED
    BY <2>1, QueryKeeps
<1>5. part = "rows" => RowsInv'
  <2> HAVE part = "rows"
  <2>1. RowsInv /\ (Rows!Next \/ UNCHANGED d)
    BY DEF ProgramsNext, allVars, PartsInv, RowsRest
  <2>. QED
    BY <2>1, RowsKeeps
<1>6. part = "stream" => StreamInv'
  <2> HAVE part = "stream"
  <2>1. StreamInv /\ (Unpack!Next \/ UNCHANGED z)
    BY DEF ProgramsNext, allVars, PartsInv, StreamRests
  <2>. QED
    BY <2>1, StreamKeeps
<1>. QED
  BY <1>1, <1>2, <1>3, <1>4, <1>5, <1>6 DEF PartsInv

LEMMA PartsType == ASSUME PartsInv PROVE ProgramsTypeOK
<1>1. part = "arun" => TypeOK
  BY DEF PartsInv, TypeInv
<1>2. part = "app" => App!TypeOK /\ App!WindowFreed
  BY DEF PartsInv, AppInv
<1>3. part = "query" => QueryTypeOK
  BY QueryTypesOK DEF PartsInv
<1>4. part = "rows" => Rows!TypeOK
  BY RowsTypes DEF PartsInv
<1>5. part = "stream" => Unpack!TypeOK
  BY StreamTypes DEF PartsInv
<1>. QED
  BY <1>1, <1>2, <1>3, <1>4, <1>5 DEF ProgramsTypeOK

\* Whichever program runs: arun.cmd's and a query's variables have their types; the test
\* program frees its window if it got as far as the control; however few lines an
\* application takes at a time, libjpeg's counts of rows, row groups and lines agree with
\* what it has read, and stay within the workspace; and however a stream is cut into
\* calls, zlib's window, which wraps around, holds the end of the dictionary and of all
\* that was put out, so that every legal distance can be served.  For pictures of any
\* height, sampling and scale, streams of any length, and a window of any size.
THEOREM ProgramsTypeCorrect == ProgramsSpec => []ProgramsTypeOK
<1>1. ProgramsInit => PartsInv
  BY PartsInitIs
<1>2. PartsInv /\ [ProgramsNext]_allVars => PartsInv'
  BY PartsKeep
<1>3. PartsInv => ProgramsTypeOK
  BY PartsType
<1>. QED
  BY <1>1, <1>2, <1>3, PTL DEF ProgramsSpec

\* The invariant of a stream with what it has read.
ReadInv == StreamInv /\ ReadRight(z)

LEMMA ReadInitial == ASSUME ProgramsInit PROVE ReadInv /\ Unpack!Promise!Init
<1>1. Unpack!Init
  BY DEF ProgramsInit
<1>2. StreamInv /\ ReadRight(z) /\ Output(z) = <<>> /\ Status(z) = "on"
  BY <1>1, StreamInitIs, ReadInitIs
<1>3. Unpack!Promise!Init
  BY <1>2 DEF Unpack!Promise!Init, Output, Status
<1>. QED
  BY <1>2, <1>3 DEF ReadInv

LEMMA ReadNext ==
    ASSUME ReadInv, [ProgramsNext]_allVars
    PROVE  ReadInv' /\ [Unpack!Promise!Next]_Unpack!Promise!vars
<1>1. Unpack!Next \/ z' = z
  BY DEF ProgramsNext, allVars, StreamRests
<1>2. StreamInv'
  BY <1>1, StreamKeeps DEF ReadInv
<1>3. StreamRight(z')
  BY <1>2 DEF StreamInv, StreamRight, Shaped, Starts, Turned, Holds, Ends, SoFar, Before,
              Unpack!Place
<1>4. Reads(z, z')
  <2>1. CASE Unpack!Next
    BY <2>1, ReadsAll DEF ReadInv
  <2>2. CASE z' = z
    <3>1. Reads(z, z)
      BY DEF Reads, Advances, ReadInv
    <3>. QED
      BY <2>2, <3>1
  <2>. QED
    BY <1>1, <2>1, <2>2
<1>5. ReadRight(z')
  BY <1>4 DEF Reads
<1>6. ReadRight(z)'
  BY <1>5 DEF ReadRight, Kept, Follows, Matching, At, Stage, Output, Used, All
<1>7. [Unpack!Promise!Next]_Unpack!Promise!vars
  BY <1>3, <1>4, ReadStep DEF ReadInv
<1>. QED
  BY <1>2, <1>6, <1>7 DEF ReadInv

\* However a stream of any length and the room for its text are cut into calls, whatever
\* the window's size, with a dictionary, after a reset and at each return within a block,
\* and whether symbols are decoded quickly or one piece at a time: inflate puts out the
\* text that the reference decoder makes of the units, from its start and once; it tells
\* the end exactly after all of the text of a right stream, an error only of a wrong one,
\* after all that is before the wrong place; and each call with input and room makes
\* progress, unless it asks for a dictionary or the stream is over.
THEOREM TextsComeOut == ProgramsSpec => IsText
<1>1. ProgramsInit => ReadInv /\ Unpack!Promise!Init
  BY ReadInitial
<1>2. ReadInv /\ [ProgramsNext]_allVars => ReadInv' /\ [Unpack!Promise!Next]_Unpack!Promise!vars
  BY ReadNext
<1>3. ReadInv => Unpack!Progress
  BY DEF ReadInv, ReadRight, Kept, Unpack!Progress
<1>4. ProgramsSpec => /\ []Unpack!Progress /\ Unpack!Promise!Init
                      /\ [][Unpack!Promise!Next]_Unpack!Promise!vars
  BY <1>1, <1>2, <1>3, PTL DEF ProgramsSpec
<1>. QED
  BY <1>4 DEF IsText, Unpack!IsText, Unpack!Promise!Spec
=============================================================================
