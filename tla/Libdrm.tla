------------------------------- MODULE Libdrm -------------------------------
(* The parts of libdrm that share no state with each other, side by side:   *)
(* at first one part is chosen, and only that part moves.                  *)
EXTENDS DrmRandom, DrmHash, DrmCommit, DrmConnect, DrmDevices

VARIABLE part

libVars == <<part, randomVars, hashVars, connectVars, req, deviceVars>>

Parts == {"random", "hash", "connect", "lists", "commit", "devices"}

\* Bounds: two requests of three items for one property of one object, or one request
\* of any items.
Few(S) == \A r \in Requests : S[r] # NoReq =>
             S[r].cursor <= 3
             /\ \A i \in 1 .. S[r].cursor : S[r].heap[i].obj <= 1 /\ S[r].heap[i].prop <= 1
One(S) == Cardinality({r \in Requests : S[r] # NoReq}) <= 1

LibInit ==
    /\ part \in Parts
    /\ IF part = "random" THEN RandomInit ELSE seed = 1 /\ draws = 0
    /\ HashInit /\ Init /\ ConnectInit
    /\ DevicesInit /\ (part # "devices" => dev = [n \in Names |-> None])

LibNext ==
    /\ UNCHANGED part
    /\ IF part = "random" THEN RandomNext \/ (draws = MaxDraws /\ UNCHANGED randomVars)
       ELSE UNCHANGED randomVars
    /\ IF part = "hash" THEN HashSteps ELSE UNCHANGED hashVars
    /\ IF part = "connect" THEN ConnectNext ELSE UNCHANGED connectVars
    /\ CASE part = "lists" -> Next /\ Few(req')
         [] part = "commit" -> Next /\ One(req')
         [] OTHER -> UNCHANGED req
    /\ IF part = "devices" THEN DevicesNext ELSE UNCHANGED deviceVars

LibSpec == LibInit /\ [][LibNext]_libVars
-----------------------------------------------------------------------------
\* Type correctness of the parts.  No key is twice in the table or in another's list,
\* no use of a connection is counted below zero, and an array of devices is not
\* written beyond its end.
PartsTypeOK == HashTypeOK /\ ConnectTypeOK /\ DevicesTypeOK
=============================================================================
