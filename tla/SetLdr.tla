------------------------------- MODULE SetLdr -------------------------------
(***************************************************************************)
(* _setldr.cmd as it runs: line by line over the config file, in the       *)
(* environment of the script that called it.  The environment outlives the *)
(* call, so the next call (of a nested script, with another config) starts *)
(* from what the last one left.                                            *)
(***************************************************************************)
EXTENDS Settings

CONSTANTS Files,        \* the config files by name, "" being config.txt
          ConsoleEnvs   \* the environments the first script may start in

ASSUME FilesAssumption ==
    /\ "" \in DOMAIN Files
    /\ \A c \in DOMAIN Files : c \in Text /\ Files[c] \in ConfigFile

ASSUME ConsoleAssumption == ConsoleEnvs \subseteq Env

VARIABLES
    pc,      \* the next block of the script, or "idle" between calls
    arg,     \* %~1
    file,    \* the lines of !CFG_NAME!
    ln,      \* the line `for /f' reads next, 0 before the first call
    var, flags, out,    \* the environment, as in Env
    entry,   \* the environment the call started with
    failed   \* whether the last call ended in :fail

vars == <<pc, arg, file, ln, var, flags, out, entry, failed>>

env == [var |-> var, flags |-> flags, out |-> out]

Init ==
    /\ pc = "idle"
    /\ arg = "" /\ file = <<>> /\ ln = 0 /\ failed = FALSE
    /\ \E e \in ConsoleEnvs :
          /\ var = e.var /\ flags = e.flags /\ out = e.out
          /\ entry = e

-----------------------------------------------------------------------------
\* What :trim leaves: no blanks around the text and no quotes in it.
Trim(t) == [t EXCEPT !.deco = "bare"]

\* The text an untrimmed token stands for is not the one that was meant.
Garbled  == "?"
TextOf(t) == IF t.deco = "bare" THEN t.text ELSE Garbled

\* Faulty variant: the flags of the last call remain.
CallKeepsFlags(a) ==
    /\ pc = "idle"
    /\ arg' = a /\ file' = Files[a] /\ ln' = 1
    /\ entry' = env /\ failed' = FALSE /\ pc' = "read"
    /\ UNCHANGED <<var, flags, out>>

\* `call _setldr.cmd a': reset the flags and pick the file.
Call(a) ==
    /\ pc = "idle"
    /\ arg' = a
    /\ file' = Files[a]
    /\ ln' = 1
    /\ flags' = {"base"}
    /\ entry' = env
    /\ failed' = FALSE
    /\ pc' = "read"
    /\ UNCHANGED <<var, out>>

\* Faulty variant: an empty value is assigned.
IgnoredComment(line) == line.comment

\* A comment, or a line whose value is empty, leaves the environment alone.
Ignored(line) == line.comment \/ line.val.text = ""

\* Faulty variants: the line after a comment is lost, or the same is read again.
SkipTwoLines ==
    /\ pc = "read" /\ ln <= Len(file) /\ Ignored(file[ln])
    /\ ln' = ln + 2
    /\ UNCHANGED <<pc, arg, file, var, flags, out, entry, failed>>

SkipNoLine ==
    /\ pc = "read" /\ ln <= Len(file) /\ Ignored(file[ln])
    /\ UNCHANGED vars

SkipLine ==
    /\ pc = "read"
    /\ ln <= Len(file)
    /\ Ignored(file[ln])
    /\ ln' = ln + 1
    /\ UNCHANGED <<pc, arg, file, var, flags, out, entry, failed>>

\* The variable the trimmed key names gets the trimmed value.  Variables
\* other than Key are set too and never read again.
Assigned(line) ==
    LET k == TextOf(Trim(line.key))
    IN  IF k \in Key THEN [var EXCEPT ![k] = TextOf(Trim(line.val))] ELSE var

SetLine ==
    /\ pc = "read"
    /\ ln <= Len(file)
    /\ ~Ignored(file[ln])
    /\ var' = Assigned(file[ln])
    /\ ln' = ln + 1
    /\ UNCHANGED <<pc, arg, file, flags, out, entry, failed>>

\* After the last line: give up when a must-have variable is missing ...
Fail ==
    /\ pc = "read"
    /\ ln > Len(file)
    /\ ~MustHave(var)
    /\ failed' = TRUE
    /\ pc' = "idle"
    /\ UNCHANGED <<arg, file, ln, var, flags, out, entry>>

\* ... and set up the generic flags otherwise.
SetFlags ==
    /\ pc = "read"
    /\ ln > Len(file)
    /\ MustHave(var)
    /\ flags' = flags \union GenericFlags(var)
    /\ pc' = "platform"
    /\ UNCHANGED <<arg, file, ln, var, out, entry, failed>>

SetPlatform ==
    /\ pc = "platform"
    /\ var' = ResolvePlatform(var)
    /\ pc' = "out"
    /\ UNCHANGED <<arg, file, ln, flags, out, entry, failed>>

SetOut ==
    /\ pc = "out"
    /\ out' = OutFolder(var, arg)
    /\ pc' = "idle"
    /\ UNCHANGED <<arg, file, ln, var, flags, entry, failed>>

Load == SkipLine \/ SetLine \/ Fail \/ SetFlags \/ SetPlatform \/ SetOut

Next == (\E a \in DOMAIN Files : Call(a)) \/ Load

Spec == Init /\ [][Next]_vars

\* A script that called the loader waits for it: nothing else runs meanwhile.
FairSpec == Spec /\ WF_vars(Load)
-----------------------------------------------------------------------------
\* Type correctness of the loader's state.
TypeOK ==
    /\ pc \in {"idle", "read", "platform", "out"}
    /\ arg \in DOMAIN Files
    /\ file \in ConfigFile
    /\ ln \in 0 .. Len(file) + 1
    /\ env \in Env
    /\ entry \in Env
    /\ failed \in BOOLEAN

\* A call has been made and has returned.
Returned == pc = "idle" /\ ln # 0

\* Whatever the order, repetition and decoration of the lines, and whatever
\* environment the call inherits, the lines leave exactly what LoadSettings
\* says: the last non-empty assignment of a variable wins, every other variable
\* is inherited, and the flags and the folder are made anew from the result.
LoadsSettings == Returned => env = LoadSettings(entry, file, arg)

\* A script may be called by one that loaded the same config already (abuild.cmd
\* calls alibs.cmd with its own %1): loading twice must give the folder, the
\* flags and the variables of loading once, or the two scripts would disagree on
\* where the archives are.
ReloadIsStable == Returned => LoadSettings(env, file, arg) = env

\* Every call returns to its script: the loop over the lines ends.
CallReturns == pc # "idle" ~> pc = "idle"

\* The README names the folder out-<platform>, and adds the suffix only "if
\* you've set LIBAROMA_CPU in config file" (README.md:29-30).
FolderAsDocumented ==
    Returned /\ ~failed => out.suffixed = (var["LIBAROMA_CPU"] # "")
=============================================================================
