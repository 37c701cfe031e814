------------------------------ MODULE JpegRows ------------------------------
(***************************************************************************)
(* libjpeg from decompress_data to jpeg_read_scanlines: the main buffer    *)
(* controller (jdmainct.c), which keeps the rows above and below those that*)
(* are upsampled without copying any, the upsamplers (jdsample.c and       *)
(* jdmerge.c), which keep lines the application had no room for, and the   *)
(* application's calls.  A sample row is known by its number in the image, *)
(* a line by the rows it is computed from.                                 *)
(*                                                                         *)
(* Sampling is the same down and across.  Colour quantization, single      *)
(* tiles and the merged upsampler for one line at a time are left out.     *)
(***************************************************************************)
EXTENDS Integers, Sequences, FiniteSetsExt, Functions

CONSTANTS
    Images,      \* height, sampling factors v, min_DCT_scaled_size M, do_fancy_upsampling
    MaxLines,    \* bound: max_lines of a call
    MaxPasses    \* bound: output passes

VARIABLE d       \* what hangs off jpeg_decompress_struct
-----------------------------------------------------------------------------
(* The dimensions, from jpeg_calc_output_dimensions.                       *)
DCTSIZE == 8
Unset == -1      \* a pointer or a row that was never set
DivUp(a, b) == (a + b - 1) \div b

MaxV(p) == Max(Range(p.v))

\* DCT_scaled_size: doubled as long as the component stays within the picture.
Scaled(p, c) == Max({s \in {p.M, 2 * p.M, 4 * p.M, 8 * p.M} :
                       s = p.M \/ (s <= DCTSIZE /\ p.v[c] * s <= MaxV(p) * p.M)})

\* Rows of a row group, of an iMCU row and of a component; the component's blocks in
\* the last iMCU row; iMCU rows and lines of the picture.
Group(p, c) == (p.v[c] * Scaled(p, c)) \div p.M
Height(p, c) == p.v[c] * Scaled(p, c)
Rows(p, c) == DivUp(p.height * Height(p, c), MaxV(p) * DCTSIZE)
LastBlocks(p, c) ==
    LET blocks == DivUp(p.height * p.v[c], MaxV(p) * DCTSIZE)
    IN  IF blocks % p.v[c] = 0 THEN p.v[c] ELSE blocks % p.v[c]
TotalRows(p) == DivUp(p.height, MaxV(p) * DCTSIZE)
Lines(p) == DivUp(p.height * p.M, DCTSIZE)

\* jinit_upsampler: fancy upsampling needs context rows; use_merged_upsample.
Halved(p, c) == 2 * Group(p, c) = MaxV(p)
Fullsize(p, c) == Group(p, c) = MaxV(p)
Fancy(p, c) == p.fancy /\ p.M > 1 /\ Halved(p, c)
Context(p) == \E c \in DOMAIN p.v : Fancy(p, c)
Merged(p) == ~p.fancy /\ p.v = <<2, 1, 1>> /\ \A c \in DOMAIN p.v : Scaled(p, c) = p.M

\* The rows, counted from the start of its group, that line r of a group is made of:
\* the nearest one, and for fancy upsampling the next nearest.
Reads(p, c, r) ==
    IF Fancy(p, c) THEN <<r \div 2, IF r % 2 = 0 THEN r \div 2 - 1 ELSE r \div 2 + 1>>
    ELSE <<(r * Group(p, c)) \div MaxV(p)>>

Groups(p) == IF Context(p) THEN p.M + 2 ELSE p.M
Places(p, c) == 0 .. Group(p, c) * Groups(p) - 1
List(p, c) == 0 - Group(p, c) .. Group(p, c) * (p.M + 3) - 1
-----------------------------------------------------------------------------
(* The pointer lists xbuffer[0] and xbuffer[1].                            *)

\* The workspace as it is, and with its last four row groups swapped; what is above
\* the first list is the first row, the rest stays as it was.
MakeFunnyPointers(e) ==
    LET p == e.img
        Swapped(i, g) == IF i >= g * p.M THEN i - 2 * g
                         ELSE IF i >= g * (p.M - 2) THEN i + 2 * g ELSE i
    IN  [w \in 0 .. 1 |-> [c \in DOMAIN p.v |-> [i \in List(p, c) |->
           IF i \in Places(p, c) THEN IF w = 0 THEN i ELSE Swapped(i, Group(p, c))
           ELSE IF i < 0 /\ w = 0 THEN 0 ELSE e.xbuf[w][c][i]]]]

\* Faulty variant: the row groups around the list are taken one row group too early.
WraparoundEarly(e) ==
    LET p == e.img
    IN  [w \in 0 .. 1 |-> [c \in DOMAIN p.v |-> [i \in List(p, c) |->
           LET g == Group(p, c)
           IN  IF i < 0 THEN e.xbuf[w][c][i + g * (p.M + 1)]
               ELSE IF i >= g * (p.M + 2) THEN e.xbuf[w][c][i - g * (p.M + 2)]
               ELSE e.xbuf[w][c][i]]]]

\* Above a list is its last row group, below it the first.
SetWraparoundPointers(e) ==
    LET p == e.img
    IN  [w \in 0 .. 1 |-> [c \in DOMAIN p.v |-> [i \in List(p, c) |->
           LET g == Group(p, c)
           IN  IF i < 0 THEN e.xbuf[w][c][i + g * (p.M + 2)]
               ELSE IF i >= g * (p.M + 2) THEN e.xbuf[w][c][i - g * (p.M + 2)]
               ELSE e.xbuf[w][c][i]]]]

\* Rows of a component in the last iMCU row; they are followed by the last of them.
RowsLeft(p, c) == IF Rows(p, c) % Height(p, c) = 0 THEN Height(p, c) ELSE Rows(p, c) % Height(p, c)
SetBottomPointers(e) ==
    LET p == e.img
    IN  [e EXCEPT
           !.avail = (RowsLeft(p, 1) - 1) \div Group(p, 1) + 1,
           !.xbuf[e.whichptr] = [c \in DOMAIN p.v |-> [i \in List(p, c) |->
              LET left == RowsLeft(p, c)
              IN  IF i \in left .. left + 2 * Group(p, c) - 1 THEN @[c][left - 1] ELSE @[c][i]]]]

\* Row i of what the main controller hands on.
Place(e, w, c, i) == IF Context(e.img) THEN e.xbuf[w][c][i] ELSE i
Row(e, w, c, i) == e.mem[c][Place(e, w, c, i)]
-----------------------------------------------------------------------------
(* Starting a pass, and decompress_data.                                   *)
StartPass(e) ==
    [e EXCEPT !.xbuf = IF Context(e.img) THEN MakeFunnyPointers(e) ELSE @,
              !.whichptr = 0, !.state = "prepare", !.icount = 0, !.full = FALSE, !.ctr = 0,
              !.next_row_out = MaxV(e.img), !.togo = Lines(e.img), !.spare = <<>>,
              !.imcu = 0, !.scanline = 0, !.lines = <<>>, !.suspended = FALSE,
              !.passes = @ + 1]

New(p) ==
    [img |-> p,
     mem |-> [c \in DOMAIN p.v |-> [k \in Places(p, c) |-> Unset]],
     xbuf |-> [w \in 0 .. 1 |-> [c \in DOMAIN p.v |-> [i \in List(p, c) |-> Unset]]],
     whichptr |-> 0, state |-> "prepare", icount |-> 0, full |-> FALSE, ctr |-> 0, avail |-> 0,
     color |-> [c \in DOMAIN p.v |-> [copied |-> <<>>, list |-> 0, at |-> 0]],
     next_row_out |-> 0, togo |-> 0, spare |-> <<>>,
     imcu |-> 0, scanline |-> 0, lines |-> <<>>, suspended |-> FALSE, passes |-> 0]

Init == \E p \in Images : d = StartPass(New(p))

\* An iMCU row comes into the workspace; blocks below the image are not decoded.
Decoded(e) ==
    LET p == e.img
        rows(c) == IF e.imcu < TotalRows(p) - 1 THEN Height(p, c)
                   ELSE LastBlocks(p, c) * Scaled(p, c)
    IN  [c \in DOMAIN p.v |-> [k \in Places(p, c) |->
           LET to == {i \in 0 .. rows(c) - 1 : Place(e, e.whichptr, c, i) = k}
           IN  IF to = {} THEN e.mem[c][k] ELSE e.imcu * Height(p, c) + Max(to)]]

\* Suspended, perhaps after part of the row.
Suspended(e) == {[e EXCEPT !.suspended = TRUE, !.mem = m] : m \in {e.mem, Decoded(e)}}
Filled(e) == [e EXCEPT !.mem = Decoded(e), !.imcu = @ + 1, !.full = TRUE, !.icount = @ + 1]
-----------------------------------------------------------------------------
(* The upsamplers, for row group ctr.                                      *)

\* One row group into the conversion buffer; of a component in full size only the
\* pointer is kept.
Upsampled(e) ==
    LET p == e.img
        first(c) == e.ctr * Group(p, c)
    IN  [c \in DOMAIN p.v |->
           IF Fullsize(p, c) THEN [copied |-> <<>>, list |-> e.whichptr, at |-> first(c)]
           ELSE [copied |-> [r \in 0 .. MaxV(p) - 1 |-> [j \in DOMAIN Reads(p, c, r) |->
                               Row(e, e.whichptr, c, first(c) + Reads(p, c, r)[j])]],
                 list |-> 0, at |-> 0]]

\* Line r of the conversion buffer.
Line(e, r) ==
    [c \in DOMAIN e.img.v |->
       IF Fullsize(e.img, c) THEN <<Row(e, e.color[c].list, c, e.color[c].at + r)>>
       ELSE e.color[c].copied[r]]

SepUpsample(e, max) ==
    LET f == IF e.next_row_out < MaxV(e.img) THEN e
             ELSE [e EXCEPT !.color = Upsampled(e), !.next_row_out = 0]
        n == Min({MaxV(e.img) - f.next_row_out, f.togo, max - Len(e.lines)})
    IN  [f EXCEPT !.lines = @ \o [j \in 1 .. n |-> Line(f, f.next_row_out + j - 1)],
                  !.togo = @ - n, !.next_row_out = @ + n,
                  !.ctr = IF f.next_row_out + n >= MaxV(e.img) THEN @ + 1 ELSE @]

\* merged_2v_upsample: two lines, the second into the spare row if there is no room.
MergedUpsample(e, max) ==
    LET p == e.img
        Two(r) == [c \in DOMAIN p.v |->
                     <<Row(e, 0, c, e.ctr * Group(p, c) + Reads(p, c, r)[1])>>]
        n == Min({2, e.togo, max - Len(e.lines)})
    IN  IF e.spare # <<>>
        THEN [e EXCEPT !.lines = Append(@, e.spare), !.spare = <<>>, !.togo = @ - 1, !.ctr = @ + 1]
        ELSE [e EXCEPT !.lines = @ \o [j \in 1 .. n |-> Two(j - 1)],
                       !.spare = IF n > 1 THEN <<>> ELSE Two(1),
                       !.togo = @ - n, !.ctr = IF n > 1 THEN @ + 1 ELSE @]

PostProcess(e, max) == IF Merged(e.img) THEN MergedUpsample(e, max) ELSE SepUpsample(e, max)
-----------------------------------------------------------------------------
(* process_data_simple_main and process_data_context_main.                 *)
SimpleMain(e, max) ==
    LET f == PostProcess(e, max)
    IN  IF f.ctr >= e.img.M THEN [f EXCEPT !.full = FALSE, !.ctr = 0] ELSE f

\* All row groups of an iMCU row but the last, which waits for the next iMCU row ...
ProcessIMCU(e, max) ==
    LET f == PostProcess(e, max)
        M == e.img.M
    IN  IF f.ctr < f.avail THEN f
        ELSE [f EXCEPT !.xbuf = IF f.icount = 1 THEN SetWraparoundPointers(f) ELSE @,
                       !.whichptr = 1 - @, !.full = FALSE,
                       !.ctr = M + 1, !.avail = M + 2, !.state = "postponed"]

\* ... or all there are, at the bottom.
PrepareForIMCU(e) ==
    LET f == [e EXCEPT !.ctr = 0, !.avail = e.img.M - 1, !.state = "process"]
    IN  IF f.icount = TotalRows(f.img) THEN SetBottomPointers(f) ELSE f

PostponedRow(e, max) ==
    LET f == PostProcess(e, max)
    IN  IF f.ctr < f.avail THEN f
        ELSE IF Len(f.lines) >= max THEN [f EXCEPT !.state = "prepare"]
        ELSE ProcessIMCU(PrepareForIMCU(f), max)

ContextMain(e, max) ==
    CASE e.state = "postponed" -> PostponedRow(e, max)
      [] e.state = "prepare" -> ProcessIMCU(PrepareForIMCU(e), max)
      [] e.state = "process" -> ProcessIMCU(e, max)

ProcessData(e, max) == IF Context(e.img) THEN ContextMain(e, max) ELSE SimpleMain(e, max)
-----------------------------------------------------------------------------
\* jpeg_read_scanlines; it does nothing when all lines are read.
ReadScanlines(max) ==
    /\ d.scanline < Lines(d.img)
    /\ LET e == [d EXCEPT !.lines = <<>>, !.suspended = FALSE]
           ready == IF e.full THEN {e} ELSE IF e.imcu < TotalRows(e.img) THEN {Filled(e)} ELSE {}
           done == {ProcessData(f, max) : f \in ready} \union (IF e.full THEN {} ELSE Suspended(e))
       IN  \E f \in done : d' = [f EXCEPT !.scanline = @ + Len(f.lines)]

\* Another output pass of buffered-image mode, at any time.
StartOutput == d.passes < MaxPasses /\ d' = StartPass(d)

Next == (\E max \in 1 .. MaxLines : ReadScanlines(max)) \/ StartOutput

Spec == Init /\ [][Next]_d
-----------------------------------------------------------------------------
\* Type correctness: the row counts of the upsampler and of the application agree, the
\* row groups are those the workspace has.
TypeOK ==
    LET p == d.img
    IN  /\ p \in Images
        /\ d.scanline + d.togo = Lines(p) /\ d.togo >= 0
        /\ d.ctr \in 0 .. Groups(p) /\ d.avail \in 0 .. p.M + 2
        /\ d.next_row_out \in 0 .. MaxV(p)
        /\ d.imcu \in 0 .. TotalRows(p) /\ d.icount = d.imcu
        /\ {d.full, d.suspended} \subseteq BOOLEAN /\ d.state \in {"prepare", "process", "postponed"}

\* The lines of the picture; at its top and bottom rows are repeated.
Near(p, c, row) == Max({0, Min({row, Rows(p, c) - 1})})
PictureLine(p, y) ==
    [c \in DOMAIN p.v |->
       LET reads == Reads(p, c, (y - 1) % MaxV(p))
       IN  [j \in DOMAIN reads |->
              Near(p, c, ((y - 1) \div MaxV(p)) * Group(p, c) + reads[j])]]
Promise == INSTANCE Scanlines WITH
    image <- d.img, scanline <- d.scanline, lines <- d.lines, suspended <- d.suspended,
    Line <- PictureLine

\* Every call that does not suspend returns the next lines of the picture, each made of
\* the right rows of the image and, at its top and bottom, of the first and last ones:
\* however few lines the application takes at a time, whenever it starts another pass,
\* though the rows lie in two lists of pointers to so few of them.
IsPicture == Promise!Spec
=============================================================================
