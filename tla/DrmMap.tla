------------------------------- MODULE DrmMap -------------------------------
(***************************************************************************)
(* What xf86drm.h offers as drmHash*: a mapping of integers to integers.   *)
(* Every call takes effect at once and says what the mapping says.         *)
(***************************************************************************)
EXTENDS Integers

CONSTANTS Keys, Values

VARIABLES
    map,    \* the pairs of the mapping
    reply   \* what the last call returned, and the value it found

table == <<map, reply>>

Bound(k) == \E p \in map : p.key = k
Say(code, found) == reply' = [code |-> code, found |-> found]

MapInit == map = {} /\ reply = [code |-> 0, found |-> {}]

Find(k) ==
    /\ UNCHANGED map
    /\ Say(IF Bound(k) THEN 0 ELSE 1, {p.val : p \in {q \in map : q.key = k}})

\* No memory leaves the mapping alone.
Add(k, v) ==
    IF Bound(k) THEN UNCHANGED map /\ Say(1, {})
    ELSE \/ map' = map \union {[key |-> k, val |-> v]} /\ Say(0, {})
         \/ UNCHANGED map /\ Say(-1, {})

Remove(k) ==
    /\ map' = {p \in map : p.key # k}
    /\ Say(IF Bound(k) THEN 0 ELSE 1, {})

\* The iteration answers 1 with some pair, or 0.
Step ==
    /\ UNCHANGED map
    /\ Say(0, {}) \/ \E p \in map : Say(1, {p.val})

MapNext ==
    \/ Step
    \/ \E k \in Keys : Find(k) \/ Remove(k) \/ \E v \in Values : Add(k, v)

MapSpec == MapInit /\ [][MapNext]_table
=============================================================================
