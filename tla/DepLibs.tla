------------------------------ MODULE DepLibs ------------------------------
(***************************************************************************)
(* What alibs.cmd builds: the libraries it selects and, per library, the   *)
(* translation units its routine hands to the compiler and the flags.      *)
(***************************************************************************)
EXTENDS Settings

CONSTANT Common   \* the unconditional sources of a library, as a few names

\* The object files that only some settings ask for.
CpuUnits == {"neon", "nobs"}

ASSUME CommonAssumption == Common \subseteq Text /\ Common \intersect CpuUnits = {}
ASSUME UnitNames == CpuUnits \subseteq Text

\* The labels of alibs.cmd that build a library.
Lib == {"zlib", "png", "freetype", "jpeg", "harfbuzz", "drm"}

ASSUME LibNames == Lib \subseteq Text

\* The folders beside the scripts: the libraries' sources and the default app.
RootFolder == Lib \union {"test"}

\* TARGET_LIBS: at most six names of the command line, or the default selection.
TargetLibs(var, args) ==
    IF args # <<>>
    THEN SubSeq(args, 1, IF Len(args) < 6 THEN Len(args) ELSE 6)
    ELSE <<"zlib", "png", "freetype">>
         \o (IF /\ var["LIBAROMA_PLATFORM"] = "linux"
                /\ var["LIBAROMA_DRM"] = "yes" THEN <<"drm">> ELSE <<>>)
         \o (IF var["LIBAROMA_JPEG"] = "yes" THEN <<"jpeg">> ELSE <<>>)
         \o (IF var["LIBAROMA_HARFBUZZ"] = "yes" THEN <<"harfbuzz">> ELSE <<>>)

\* The extra sources PNG_OPTIMIZATIONS and JPEG_OPTIMIZATIONS name: with neon,
\* both libraries get assembly; without it, jpeg gets the plain memory manager.
OptimizedUnits(l, var) ==
    IF var["LIBAROMA_CPU"] = "neon"
    THEN IF l \in {"png", "jpeg"} THEN {"neon"} ELSE {}
    ELSE IF l = "jpeg" THEN {"nobs"} ELSE {}

\* :drm compiles nothing unless the platform is linux and the config asks.
DrmNeeded(var) ==
    /\ var["LIBAROMA_PLATFORM"] = "linux"
    /\ var["LIBAROMA_DRM"] = "yes"

\* The units `call :<name>' compiles.  A name without a label compiles nothing:
\* cmd only complains that the label is missing.
Units(l, var) ==
    IF l \notin Lib \/ (l = "drm" /\ ~DrmNeeded(var))
    THEN {}
    ELSE Common \union OptimizedUnits(l, var)

\* The flags of a library beyond LA_GENERIC_CFLAGS that depend on settings.
LibFlags(l, e) ==
    e.flags
    \union {x \in {"-DUSE_MMAP"} :
                l = "drm" \/ (l = "zlib" /\ e.var["LIBAROMA_PLATFORM"] = "linux")}
    \union {x \in {"-DFT_CONFIG_OPTION_USE_HARFBUZZ"} :
                l = "freetype" /\ e.var["LIBAROMA_HARFBUZZ"] = "yes"}
    \union {x \in {"-DNV_ARM_NEON"} :
                l = "jpeg" /\ e.var["LIBAROMA_CPU"] = "neon"}

LibFlag == Flag \union {"-DUSE_MMAP", "-DFT_CONFIG_OPTION_USE_HARFBUZZ", "-DNV_ARM_NEON"}
=============================================================================
