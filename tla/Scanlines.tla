----------------------------- MODULE Scanlines ------------------------------
(***************************************************************************)
(* What jpeg_read_scanlines promises an application: the lines of the      *)
(* picture from top to bottom, each once, some in every call that is not   *)
(* suspended for want of data, and again from the top in another pass.     *)
(* JpegRows shows how they are made of few rows in memory.                 *)
(***************************************************************************)
EXTENDS Integers, Sequences

CONSTANTS
    Lines(_),      \* the number of lines of an image's picture
    Line(_, _)     \* and each of them, counted from 1

VARIABLES
    image,
    scanline,     \* lines read so far
    lines,        \* what the last call returned
    suspended

vars == <<image, scanline, lines, suspended>>

Init == scanline = 0 /\ lines = <<>> /\ ~suspended

Read ==
    /\ \E n \in 1 .. Lines(image) - scanline :
          /\ scanline' = scanline + n
          /\ lines' = [k \in 1 .. n |-> Line(image, scanline + k)]
    /\ ~suspended'
    /\ UNCHANGED image

Suspend ==
    /\ lines' = <<>> /\ suspended'
    /\ UNCHANGED <<image, scanline>>

StartPass == Init' /\ UNCHANGED image

Next == Read \/ Suspend \/ StartPass

Spec == Init /\ [][Next]_vars
=============================================================================
