------------------------------ MODULE Settings ------------------------------
(***************************************************************************)
(* The settings of one build: what _setldr.cmd makes of a config file, as  *)
(* one operator.  Every build script starts with `call _setldr.cmd', which *)
(* runs in the caller's environment: a variable that the file does not set *)
(* keeps the value it is inherited with.  SetLdr.tla runs the same script  *)
(* line by line and is checked against the operators of this module.       *)
(*                                                                         *)
(* A variable that is not defined reads as the empty string, as it does in *)
(* the scripts' comparisons.                                               *)
(***************************************************************************)
EXTENDS Naturals, Sequences

CONSTANT Text   \* the texts that names and values are, with "" for none

\* The variables of the config files that the scripts read, and the one
\* _setldr.cmd derives (LIBAROMA_PLATFORM_ANDROID).
Key == {"LIBAROMA_SOURCE", "LIBAROMA_PLATFORM", "LIBAROMA_PLATFORM_ANDROID",
        "LIBAROMA_CPU", "LIBAROMA_DEBUG", "LIBAROMA_WARNINGS",
        "LIBAROMA_NOWINCONSOLE", "LIBAROMA_MEMDEBUG", "LIBAROMA_ZIP",
        "LIBAROMA_SVG", "LIBAROMA_JPEG", "LIBAROMA_OPENMP",
        "LIBAROMA_HARFBUZZ", "LIBAROMA_DRM", "LIBAROMA_GDB"}

ASSUME TextAssumption == Key \union {"", "yes", "linux"} \subseteq Text

\* A half of a config line around its first `=', before :trim.  The text is
\* what remains of it after :trim; "padded" has blanks around it, "quoted" has
\* quotes.  A half that is blank but not empty is not modelled.
Token == [text : Text, deco : {"bare", "padded", "quoted"}]

\* `for /f "tokens=1,2 delims=="' hands over the first two fields of a line.
\* A comment is a line whose first field begins with #.
Line == [comment : BOOLEAN, key : Token, val : Token]

\* A config file is its lines; a missing file is the empty sequence, since
\* `for /f' then only prints a message.
ConfigFile == Seq(Line)

\* The name of an out folder: out-<name>, then _<cpu> if suffixed.
OutName == [name : Text, suffixed : BOOLEAN, cpu : Text]
NoOut   == [name |-> "", suffixed |-> FALSE, cpu |-> ""]

Flag == {"base", "-g", "-O3", "-Wall", "-w", "neon", "sse2", "-mwindows"}

\* The environment of a script, cut down to what the builds depend on.
Env == [var   : [Key -> Text],     \* the LIBAROMA_ variables
        flags : SUBSET Flag,         \* LA_GENERIC_CFLAGS
        out   : OutName]             \* LIBAROMA_OUT

\* A console that no LIBAROMA_ variable has been set in by hand.
EmptyEnv == [var |-> [k \in Key |-> ""], flags |-> {}, out |-> NoOut]

-----------------------------------------------------------------------------
\* The lines among the first n of file f that set variable k.
Setters(f, n, k) ==
    {i \in 1 .. n : /\ ~f[i].comment
                    /\ f[i].key.text = k
                    /\ f[i].val.text # ""}

IsLast(i, S) == i \in S /\ \A j \in S : j <= i

\* The variables after the first n lines of f: the last line that gives k a
\* value wins, and a k that no line sets is inherited.
LoadedVars(var, f, n) ==
    [k \in Key |->
        LET S == Setters(f, n, k)
        IN  IF \E i \in S : IsLast(i, S)
            THEN f[CHOOSE i \in S : IsLast(i, S)].val.text
            ELSE var[k]]

\* The variables without which every script gives up.
MustHave(var) ==
    /\ var["LIBAROMA_SOURCE"] # ""
    /\ var["LIBAROMA_PLATFORM"] # ""

GenericFlags(var) ==
    {"base",
     IF var["LIBAROMA_DEBUG"] = "yes" THEN "-g" ELSE "-O3",
     IF var["LIBAROMA_WARNINGS"] = "yes" THEN "-Wall" ELSE "-w"}
    \union {c \in {"neon", "sse2"} : var["LIBAROMA_CPU"] = c}
    \union {w \in {"-mwindows"} : var["LIBAROMA_NOWINCONSOLE"] = "yes"}

AndroidOnLinux(var) ==
    [k \in Key |-> IF k = "LIBAROMA_PLATFORM" THEN "linux"
                   ELSE IF k = "LIBAROMA_PLATFORM_ANDROID" THEN "yes"
                   ELSE var[k]]

\* Faulty variant: a platform that was resolved before is not resolved again.
ResolveOnce(var) ==
    IF var["LIBAROMA_PLATFORM"] = "android" /\ var["LIBAROMA_PLATFORM_ANDROID"] = ""
    THEN AndroidOnLinux(var)
    ELSE var

\* Android builds use the linux sources and remember what they are for.
ResolvePlatform(var) ==
    IF var["LIBAROMA_PLATFORM"] = "android"
    THEN AndroidOnLinux(var)
    ELSE var

\* Faulty variant: nothing about the cpu in the name.
OutFolderNoCpu(var, arg) ==
    [name |-> IF arg # "" THEN arg ELSE var["LIBAROMA_PLATFORM"],
     suffixed |-> FALSE, cpu |-> ""]

\* The folder is named after the custom config if there is one, else after the
\* platform.  The suffix is always there: the test for it compares the text
\* "LIBAROMA_CPU", not the variable of that name, with the empty string.
OutFolder(var, arg) ==
    [name     |-> IF arg # "" THEN arg ELSE var["LIBAROMA_PLATFORM"],
     suffixed |-> "LIBAROMA_CPU" # "",
     cpu      |-> var["LIBAROMA_CPU"]]

Finish(var, arg) ==
    LET v == ResolvePlatform(var)
    IN  [var |-> v, flags |-> GenericFlags(v), out |-> OutFolder(v, arg)]

\* The whole of `call _setldr.cmd <arg>' with environment e and config file f.
LoadSettings(e, f, arg) ==
    LET v == LoadedVars(e.var, f, Len(f))
    IN  IF MustHave(v)
        THEN Finish(v, arg)
        ELSE [var |-> v, flags |-> {"base"}, out |-> e.out]
=============================================================================
