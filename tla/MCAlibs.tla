------------------------------ MODULE MCAlibs ------------------------------
(* Config files and command lines for alibs.cmd.                           *)
EXTENDS Alibs, TLC

AnyText == STRING

Bare(t) == [text |-> t, deco |-> "bare"]
Set(k, v) == [comment |-> FALSE, key |-> Bare(k), val |-> Bare(v)]
File(platform, cpu) ==
    <<Set("LIBAROMA_SOURCE", "src"), Set("LIBAROMA_PLATFORM", platform),
      Set("LIBAROMA_CPU", cpu)>>

JpegNone  == Append(File("linux", "none"), Set("LIBAROMA_JPEG", "yes"))
JpegNeon  == Append(File("linux", "neon"), Set("LIBAROMA_JPEG", "yes"))
Android   == Append(File("android", "none"), Set("LIBAROMA_DRM", "yes"))
NoSource  == <<Set("LIBAROMA_PLATFORM", "linux")>>
Harfbuzz  == Append(File("sdl", "none"), Set("LIBAROMA_HARFBUZZ", "yes"))

\* One console: config.txt switches the cpu and the platform under the same
\* and under another folder, a custom config has the name of a platform, and another one
\* lacks the source.
OneVersions ==
    ("" :> {JpegNone, JpegNeon, Android}) @@ ("linux" :> {JpegNone}) @@ ("bare" :> {NoSource})
OneArgs == {<<"png", "jpeg">>, <<"linux", "drm", "jpeg">>, <<"test">>, <<"jpeg", "nolib">>,
            <<"bare">>}
OneUpdated == {"jpeg"}

\* Two consoles that build the same library with two configs, hence in two
\* folders, or in one.
TwoVersions == ("" :> {JpegNone}) @@ ("win" :> {Harfbuzz})
TwoArgs == {<<"win", "png">>, <<"jpeg", "png">>}
=============================================================================
