------------------------------ MODULE MCBuild ------------------------------
(* Config files and command lines for the chain atest -> abuild -> alibs.  *)
EXTENDS Build, TLC

AnyText == STRING

Bare(t) == [text |-> t, deco |-> "bare"]
Set(k, v) == [comment |-> FALSE, key |-> Bare(k), val |-> Bare(v)]
File(platform, cpu) ==
    <<Set("LIBAROMA_SOURCE", "src"), Set("LIBAROMA_PLATFORM", platform),
      Set("LIBAROMA_CPU", cpu), Set("LIBAROMA_ZIP", "no")>>

LinuxNone == File("linux", "none")
DroidNeon == Append(File("android", "neon"), Set("LIBAROMA_JPEG", "yes"))
Sdl2Neon == Append(File("sdl2", "neon"), Set("LIBAROMA_ZIP", "yes"))
NoCpu     == <<Set("LIBAROMA_SOURCE", "src"), Set("LIBAROMA_PLATFORM", "linux")>>

\* The custom config "win" is for neon.
CustomArgs == {<<"zlib">>, <<"win", "png">>}
CustomConfigs == {"", "win"}
CustomVersions == ("" :> {NoCpu}) @@ ("win" :> {Sdl2Neon})
NoArgs == {}
NoUpdates == {}

\* Two scenarios in one run: a config.txt that changes its platform and its cpu
\* and no custom config, or a custom config, libraries built one by one, and a
\* config.txt that leaves the cpu to whatever was loaded before.
ChainVersions == ("" :> {LinuxNone, DroidNeon, NoCpu}) @@ ("win" :> {<<>>, Sdl2Neon})
ChainOrCustom ==
    /\ cfg'["win"] = cfg["win"]
    /\ IF cfg["win"] = <<>>
       THEN /\ NoCpu \notin {cfg[""], cfg'[""]}
            /\ \A s \in Sessions : al'[s].args = <<>> /\ {ab'[s].arg, tst'[s].arg} = {""}
       ELSE {cfg[""], cfg'[""]} = {NoCpu}

\* A custom config that may be missing; its name is given to every script.
LiveVersions == ("" :> {LinuxNone}) @@ ("win" :> {Sdl2Neon, <<>>})
LiveArgs == {<<"win">>}

\* Two consoles that build libaroma, in the folders of two configs or in the same one.
TwoVersions == ("" :> {LinuxNone}) @@ ("win" :> {Sdl2Neon})
AnyConsole == Permutations(Sessions)
=============================================================================
