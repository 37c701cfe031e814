----------------------------- MODULE GlyphList ------------------------------
(***************************************************************************)
(* What harfbuzz's buffer promises the lookups that run over it: a list    *)
(* with a cursor.  The glyphs before the cursor are done, a lookup changes *)
(* what is around it.  HbBuffer shows how that is kept in two blocks of    *)
(* memory that are often one.                                              *)
(***************************************************************************)
EXTENDS Integers, Sequences, SequencesExt, FiniteSetsExt

CONSTANTS Codes

VARIABLES done, rest, ok

vars == <<done, rest, ok>>

All == done \o rest

\* The elements of list around s..e, as far as the clusters of s and e reach.
Reach(list, s, e) ==
    {i \in DOMAIN list :
       \/ i \in s .. e
       \/ i < s /\ \A k \in i .. s : list[k].cluster = list[s].cluster
       \/ i > e /\ \A k \in e .. i : list[k].cluster = list[e].cluster}

\* Positions s..e become one cluster, the least of theirs.
Merged(list, s, e) ==
    IF e <= s THEN list
    ELSE LET least == Min({list[i].cluster : i \in s .. e})
         IN  [i \in DOMAIN list |->
                IF i \in Reach(list, s, e) THEN [list[i] EXCEPT !.cluster = least] ELSE list[i]]

Cut(list, n) ==
    /\ done' = SubSeq(list, 1, n)
    /\ rest' = SubSeq(list, n + 1, Len(list))

Coded(glyph, codes) == [k \in DOMAIN codes |-> [glyph EXCEPT !.code = codes[k]]]

MoveTo(n) == n \in 0 .. Len(All) /\ Cut(All, n)

\* n glyphs after the cursor become one cluster and are replaced.
Replace(n, codes) ==
    /\ n <= Len(rest)
    /\ LET all == Merged(All, Len(done) + 1, Len(done) + n)
           new == Coded(all[Len(done) + 1], codes)
       IN  Cut(SubSeq(all, 1, Len(done)) \o new \o SubSeq(all, Len(done) + n + 1, Len(all)),
               Len(done) + Len(new))

\* A glyph is inserted that is otherwise like the next one, or the last.
Insert(code) ==
    IF All = <<>> THEN UNCHANGED <<done, rest>>
    ELSE /\ done' = Append(done, [(IF rest # <<>> THEN Head(rest) ELSE Last(done)) EXCEPT !.code = code])
         /\ UNCHANGED rest

Copy ==
    /\ rest # <<>>
    /\ done' = Append(done, Head(rest)) /\ UNCHANGED rest

\* A glyph goes; its cluster survives in the next one, or those before take it over
\* if it is the lesser, or the next one is merged with it.
Delete ==
    /\ rest # <<>>
    /\ LET c == Head(rest).cluster
           next == Len(rest) > 1
           all ==
             IF next /\ rest[2].cluster = c THEN All
             ELSE IF done # <<>>
             THEN IF c < Last(done).cluster
                  THEN [i \in DOMAIN All |->
                          IF i <= Len(done) /\ i \in Reach(done, Len(done), Len(done))
                          THEN [All[i] EXCEPT !.cluster = c] ELSE All[i]]
                  ELSE All
             ELSE IF next THEN Merged(All, 1, 2) ELSE All
       IN  Cut(SubSeq(all, 1, Len(done)) \o SubSeq(all, Len(done) + 2, Len(all)), Len(done))

\* Glyphs s..e, after the cursor or before it, become one cluster.
Merge(s, e) ==
    /\ 1 <= s /\ e <= Len(All)
    /\ s > Len(done) \/ e <= Len(done)
    /\ Cut(Merged(All, s, e), Len(done))

Init == done = <<>> /\ ok = TRUE

\* Without memory, or past its limit, a buffer fails for good and promises nothing.
Next ==
    \/ ~ok'
    \/ /\ ok /\ ok'
       /\ \/ \E n \in 0 .. Len(All) : MoveTo(n)
          \/ \E n \in 1 .. Len(rest), codes \in {<<c>> : c \in Codes} \union (Codes \X Codes) :
               Replace(n, codes)
          \/ \E c \in Codes : Insert(c)
          \/ Copy \/ Delete
          \/ \E s, e \in 1 .. Len(All) : Merge(s, e)

Spec == Init /\ [][Next]_vars
=============================================================================
