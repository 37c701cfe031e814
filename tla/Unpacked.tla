------------------------------ MODULE Unpacked ------------------------------
(***************************************************************************)
(* What inflate promises an application: the text of a stream comes out    *)
(* from its start, in pieces; the end is told after all of it, an error    *)
(* only of a stream that is wrong, after all that is before the wrong place*)
(* in it.  Inflate shows how it does that with a window of the last bytes. *)
(***************************************************************************)
EXTENDS Integers, Sequences, SequencesExt

CONSTANTS
    WholeText(_),  \* the text of a stream, or all before its first error
    Good(_)        \* whether there is no error in it

VARIABLES
    stream,
    text,        \* what has come out
    status       \* "on", "end", "error" or "memory"

vars == <<stream, text, status>>

Init == text = <<>> /\ status = "on"

Put ==
    /\ status = "on" /\ UNCHANGED <<stream, status>>
    /\ Len(text') > Len(text)
    /\ IsPrefix(text', WholeText(stream))

\* All of the text, or all before the error, is out.
Finish ==
    /\ status = "on" /\ status' \in {"end", "error"}
    /\ text = WholeText(stream)
    /\ status' = "end" <=> Good(stream)
    /\ UNCHANGED <<stream, text>>

NoMemory == status = "on" /\ status' = "memory" /\ UNCHANGED <<stream, text>>

Restart == Init' /\ UNCHANGED stream

Next == Put \/ Finish \/ NoMemory \/ Restart

Spec == Init /\ [][Next]_vars
=============================================================================
