---------------------------- MODULE PropertyList ----------------------------
(***************************************************************************)
(* What an atomic request is to a program that uses xf86drmMode.h: a list  *)
(* of property settings that grows at its end and may be cut back.  A call *)
(* either does all of its work or, out of memory, none.                    *)
(***************************************************************************)
EXTENDS Integers, Sequences

CONSTANTS Requests, Settings, NoList

VARIABLE list    \* list[r]: the settings in r, or NoList

ListInit == list = [r \in Requests |-> NoList]

NewList(r) == list[r] = NoList /\ list' = [list EXCEPT ![r] = <<>>]
Copy(r, s) == list[r] # NoList /\ list[s] = NoList /\ list' = [list EXCEPT ![s] = list[r]]
Drop(r) == list' = [list EXCEPT ![r] = NoList]
Grow(r, e) == list[r] # NoList /\ list' = [list EXCEPT ![r] = Append(@, e)]
Join(r, s) ==
    list[r] # NoList /\ list[s] # NoList /\ list' = [list EXCEPT ![r] = @ \o list[s]]
Cut(r) ==
    /\ list[r] # NoList
    /\ \E n \in 0 .. Len(list[r]) : list' = [list EXCEPT ![r] = SubSeq(@, 1, n)]

ListNext ==
    \E r \in Requests :
        \/ NewList(r) \/ Drop(r) \/ Cut(r)
        \/ \E e \in Settings : Grow(r, e)
        \/ \E s \in Requests : Copy(r, s) \/ Join(r, s)

ListSpec == ListInit /\ [][ListNext]_list
=============================================================================
