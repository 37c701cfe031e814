----------------------------- MODULE MCHbBuffer -----------------------------
(* Texts of up to three glyphs, whose clusters go up or down.              *)
EXTENDS HbBuffer

Clusters == {<<>>, <<0>>, <<0, 0>>, <<0, 1>>, <<0, 1, 2>>, <<1, 0>>}
Texts == {[k \in DOMAIN c |-> [code |-> "a", cluster |-> c[k]]] : c \in Clusters}
=============================================================================
