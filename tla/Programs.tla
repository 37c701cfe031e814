------------------------------ MODULE Programs ------------------------------
(* Programs that wait for a device, a message, the kernel or their data, side *)
(* by side: arun.cmd, the test program, the ways libdrm reads lists, and      *)
(* applications that read a picture with libjpeg or a stream with zlib.  At   *)
(* first one of them is chosen, and only that one moves.                      *)
EXTENDS Arun, DrmQuery

CONSTANTS
    Others, MaxPosts,
    Images, MaxLines, MaxPasses,
    Streams, WSize, MinIn, MaxMatch, MaxIn, MaxRoom, MaxResets

VARIABLES
    part,
    stmt, aroma, win, ctl, onpool, msg, queue, posts,
    d, z

appVars == <<stmt, aroma, win, ctl, onpool, msg, queue, posts>>
allVars == <<part, vars, appVars, queryVars, d, z>>

Parts == {"arun", "app", "query", "rows", "stream"}

App == INSTANCE TestApp WITH pc <- stmt
Rows == INSTANCE JpegRows
Unpack == INSTANCE Inflate

\* JPEG's sampling factors and the scales that libjpeg has; the window is not empty, no
\* distance is longer (32K, as inflateInit's window), and inflate_fast has the input for a
\* length and its distance, and the room for any match.
ASSUME ProgramsAssumption ==
    /\ MaxPosts \in Nat
    /\ Images \subseteq [height : Nat \ {0}, v : Seq(1 .. 4) \ {<<>>}, M : {1, 2, 4, 8}, fancy : BOOLEAN]
    /\ WSize \in Nat \ {0} /\ MinIn \in Nat \ {0, 1} /\ MaxMatch \in Nat \ {0}
    /\ Streams \subseteq [units : Seq(Unpack!Unit), dict : Seq(Nat), right : BOOLEAN]
    /\ \A s \in Streams : \A u \in Unpack!Range(s.units) :
           (u[1] = "length" => u[2] <= MaxMatch) /\ (u[1] = "distance" => u[2] <= WSize)

ProgramsInit ==
    /\ part \in Parts
    /\ Init /\ App!Init
    /\ QueryInit
    /\ part # "query" => ask = (CHOOSE k \in Kinds : TRUE) /\ kern = Nothing
    /\ Rows!Init
    /\ part # "rows" => d.img = CHOOSE p \in Images : TRUE
    /\ Unpack!Init
    /\ part # "stream" => z.stream = CHOOSE s \in Streams : TRUE

\* The program waits for a message when there is none, or has ended.
AppRests == (stmt = "done" \/ (stmt = "pool" /\ queue = <<>>)) /\ UNCHANGED appVars

\* The application has read the picture in all its passes.
RowsRest == d.scanline = Rows!Lines(d.img) /\ UNCHANGED d

\* There is no going on without memory but by inflateReset.
StreamRests == z.mode = "MEM" /\ UNCHANGED z

ProgramsNext ==
    /\ UNCHANGED part
    /\ IF part = "arun" THEN Next ELSE UNCHANGED vars
    /\ IF part = "app" THEN App!Next \/ AppRests ELSE UNCHANGED appVars
    /\ IF part = "query" THEN QueryNext ELSE UNCHANGED queryVars
    /\ IF part = "rows" THEN Rows!Next \/ RowsRest ELSE UNCHANGED d
    /\ IF part = "stream" THEN Unpack!Next \/ StreamRests ELSE UNCHANGED z

\* The test program and a query run on.
RunsOn ==
    /\ UNCHANGED <<part, vars, d, z>>
    /\ CASE part = "app" -> App!Main /\ UNCHANGED queryVars
         [] part = "query" -> Step /\ UNCHANGED appVars
         [] OTHER -> FALSE

ProgramsSpec == ProgramsInit /\ [][ProgramsNext]_allVars /\ WF_allVars(RunsOn)
-----------------------------------------------------------------------------
\* Type correctness of the programs; the calls of the test program are in order, and it
\* ends with its window freed if it got as far as the control; what libjpeg has counted
\* agrees with what the application has read, and zlib's window is the end of the text.
ProgramsTypeOK ==
    /\ part = "arun" => TypeOK
    /\ part = "app" => App!TypeOK /\ App!WindowFreed
    /\ part = "query" => QueryTypeOK
    /\ part = "rows" => Rows!TypeOK
    /\ part = "stream" => Unpack!TypeOK

\* A request to exit ends the test program.
ExitEnds == App!ExitEnds

\* libjpeg hands out the lines of the picture in order, each made of the right rows.
IsPicture == Rows!IsPicture

\* zlib puts out the text of a stream, however it is cut into calls.
IsText == Unpack!IsText
=============================================================================
