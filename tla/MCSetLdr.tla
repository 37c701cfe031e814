------------------------------ MODULE MCSetLdr ------------------------------
(* Four config files that between them comment out, repeat, empty, pad and *)
(* quote assignments, leave out the cpu, and lack a must-have variable.    *)
EXTENDS SetLdr, TLC

AnyText == STRING

Bare(t)   == [text |-> t, deco |-> "bare"]
Padded(t) == [text |-> t, deco |-> "padded"]
Quoted(t) == [text |-> t, deco |-> "quoted"]

Set(k, v)     == [comment |-> FALSE, key |-> k, val |-> v]
Comment(k, v) == [comment |-> TRUE, key |-> Bare(k), val |-> Bare(v)]

MCFiles ==
    ("" :> <<Comment("# Libaroma source path", ""),
             Set(Bare("LIBAROMA_SOURCE"), Quoted("src")),
             Set(Padded("LIBAROMA_PLATFORM"), Padded("linux")),
             Set(Bare("LIBAROMA_CPU"), Bare("none")),
             Set(Bare("LIBAROMA_CPU"), Bare("neon")),
             Set(Bare("LIBAROMA_CPU"), Bare("")),
             Set(Bare("LIBAROMA_DRM"), Bare("yes")),
             Comment("LIBAROMA_DRM", "no")>>)
    @@ ("win" :> <<Set(Bare("LIBAROMA_SOURCE"), Bare("src")),
                   Set(Bare("LIBAROMA_PLATFORM"), Bare("sdl2")),
                   Set(Bare("LIBAROMA_NOWINCONSOLE"), Bare("yes")),
                   Set(Bare("LIBAROMA_DEBUG"), Padded("yes"))>>)
    @@ ("droid" :> <<Set(Bare("LIBAROMA_SOURCE"), Bare("src")),
                     Set(Bare("LIBAROMA_PLATFORM"), Bare("linux")),
                     Set(Bare("LIBAROMA_DEBUG"), Bare("no")),
                     Set(Bare("LIBAROMA_PLATFORM"), Bare("android"))>>)
    @@ ("bad" :> <<Set(Bare("LIBAROMA_PLATFORM"), Bare("sdl")),
                   Set(Bare("MY_OWN_NOTE"), Bare("x"))>>)
    @@ ("gone" :> <<>>)

\* A fresh console, and one where the user set a platform by hand.
MCConsoleEnvs ==
    {EmptyEnv, [EmptyEnv EXCEPT !.var["LIBAROMA_PLATFORM"] = "android"]}
=============================================================================
