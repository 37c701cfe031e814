----------------------------- MODULE MCPrograms -----------------------------
(* Small constants for the programs.                                        *)
EXTENDS Programs, TLC

AnyText == STRING

\* The device with a debugger that is there, and Windows with one that is not.
Bare(t) == [text |-> t, deco |-> "bare"]
Set(k, v) == [comment |-> FALSE, key |-> Bare(k), val |-> Bare(v)]
File(platform, gdb) ==
    <<Set("LIBAROMA_SOURCE", "src"), Set("LIBAROMA_PLATFORM", platform),
      Set("LIBAROMA_CPU", "none"), Set("LIBAROMA_DEBUG", "yes"), Set("LIBAROMA_GDB", gdb)>>
TwoConfigs == ("" :> File("linux", "gdb")) @@ ("win" :> File("sdl", "nogdb"))

\* Resources and connectors, with two of their lists each.
Resources == [lists |-> <<"crtcs", "connectors">>, onStack |-> {}, fresh |-> TRUE]
Connector == [lists |-> <<"modes", "encoders">>, onStack |-> {"modes"}, fresh |-> FALSE]
SomeKinds == {Resources, Connector}
SomePlugs == [k \in SomeKinds |-> IF k.fresh THEN 2 ELSE 3]

\* Pictures with every sampling across the components the upsamplers treat on their
\* own, of heights around the borders of iMCU rows, some scaled down.
Pictures(heights, v, M, fancy) == [height : heights, v : {v}, M : {M}, fancy : {fancy}]
SomePictures ==
    UNION {Pictures({1, 2, 3, 15, 16, 17, 18, 31, 32, 33, 34, 48, 49}, <<2, 1>>, 8, TRUE),
           Pictures({16, 33, 35, 64, 66}, <<4, 1>>, 4, TRUE),
           Pictures({9, 17, 32, 33}, <<4, 2>>, 8, TRUE),
           Pictures({8, 17, 33}, <<2, 1, 1>>, 4, FALSE),
           Pictures({7, 17, 35}, <<2, 1>>, 1, TRUE),
           Pictures({1, 16, 17, 18, 33}, <<2, 1, 1>>, 8, FALSE)}

\* Streams with matches that wrap around the window and reach into it from the output,
\* overlap themselves and fill their room; several blocks, stored ones as long as the
\* window and none at all; dictionaries shorter and longer than the window; a distance
\* too far back, wrong codes and headers, and a wrong check value.
Lit(v) == <<<<"lit", v>>>>
Match(n, dist) == <<<<"length", n>>, <<"distance", dist>>>>
Codes(last, units) == <<<<"codes", last>>>> \o units \o <<<<"end">>>>
Stored(last, bytes) ==
    <<<<"stored", last>>, <<"size", Len(bytes)>>>> \o [i \in DOMAIN bytes |-> <<"byte", bytes[i]>>]
Stream(blocks, dict, right) ==
    [units |-> <<<<"head", dict # <<>>>>>> \o blocks \o <<<<"check">>>>,
     dict |-> dict, right |-> right]
Wrong == <<<<"wrong", FALSE>>>>
SomeStreams == {
    Stream(Codes(TRUE, Lit(1) \o Lit(2) \o Lit(3) \o Match(3, 2) \o Match(3, 4) \o Match(3, 3)),
           <<>>, TRUE),
    Stream(Codes(FALSE, Lit(1) \o Match(3, 1)) \o Stored(FALSE, <<2, 3>>)
             \o Codes(TRUE, Match(3, 4) \o Lit(4)), <<>>, TRUE),
    Stream(Stored(FALSE, <<>>) \o Stored(FALSE, <<1, 2, 3, 4, 5>>) \o Codes(TRUE, Match(3, 4)),
           <<>>, TRUE),
    Stream(Codes(TRUE, Match(3, 2) \o Lit(1) \o Match(3, 4)), <<7, 8, 9>>, TRUE),
    Stream(Codes(TRUE, Match(3, 3) \o Match(3, 4)), <<5, 6, 7, 8, 9>>, TRUE),
    Stream(Codes(TRUE, Lit(1) \o Lit(2) \o Match(3, 3)), <<>>, TRUE),
    Stream(Codes(TRUE, Lit(1) \o Lit(2) \o <<<<"length", 3>>>> \o Wrong), <<>>, TRUE),
    Stream(Codes(FALSE, Lit(1)) \o Codes(TRUE, Lit(2) \o Wrong), <<>>, TRUE),
    Stream(Stored(FALSE, <<1>>) \o Wrong, <<>>, TRUE),
    Stream(Stored(FALSE, <<1>>) \o <<<<"stored", TRUE>>>> \o Wrong, <<>>, TRUE),
    [units |-> Wrong, dict |-> <<>>, right |-> TRUE],
    Stream(Stored(TRUE, <<1, 2, 3>>), <<>>, FALSE)}
=============================================================================
