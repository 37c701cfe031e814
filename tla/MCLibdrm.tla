------------------------------ MODULE MCLibdrm ------------------------------
(* Small constants for the parts of libdrm.                                 *)
EXTENDS Libdrm, TLC

\* A small generator, all seeds, a modulus whose words wrap often.
AllSeeds == 0 .. (2 * M)

\* The first 256 numbers of the real one after the seed 37: sixteen times sixteen.
Real == INSTANCE DrmRandom WITH
    A <- 48271, M <- 2147483647, Word <- 1, Seeds <- {37}, MaxDraws <- 0
Sixteen(first) ==
    LET run[n \in Nat] == IF n = 0 THEN <<first>>
                          ELSE LET s == run[n - 1] IN Append(s, Real!Schrage(Last(s)))
    IN  run[16]
Numbers[n \in Nat] == IF n = 0 THEN <<37>>
                      ELSE LET s == Numbers[n - 1] IN s \o Tail(Sixteen(Last(s)))
RandomNumbers == LET s == Numbers[16] IN [b \in 0 .. 255 |-> s[b + 2]]

\* The table's own size and random numbers.  Keys 0 and 709 hash to its first
\* list, 1 and 36 to the same list in the middle, 204 to the last.
TableKeys == {0, 709, 1, 36, 204}

\* Devices at two places of one bus and one of another, with up to three nodes, two of
\* them of one type.
TypeOf == [card0 |-> "primary", card1 |-> "primary", renderD128 |-> "render"]
BusOf == [gpu |-> "pci", npu |-> "pci", stick |-> "usb"]
DeviceNames == DOMAIN TypeOf
DevicePlaces == DOMAIN BusOf
RoomForTwo == {2}

Alike == Permutations(Nodes)
=============================================================================
