----------------------------- MODULE DrmCommit -----------------------------
(***************************************************************************)
(* drm/xf86drmMode.c: drmModeAtomicCommit, which sends a sorted copy of a  *)
(* request to the kernel, object by object and without duplicates.  It     *)
(* leaves the request alone, so that it is looked at in every state of     *)
(* DrmAtomic rather than made a step.                                      *)
(***************************************************************************)
EXTENDS DrmAtomic, SequencesExt

SameProperty(x, y) == x.obj = y.obj /\ x.prop = y.prop

\* sort_req_list: by object, then by property, the larger one first.
Before(x, y) == x.obj < y.obj \/ (x.obj = y.obj /\ x.prop > y.prop)

\* qsort need not keep the order of items that compare equal.
Sorted(s) ==
    {t \in {[i \in DOMAIN s |-> s[q[i]]] : q \in {p \in [DOMAIN s -> DOMAIN s] :
                \A i, j \in DOMAIN s : p[i] = p[j] => i = j}} :
        \A i \in 1 .. (Len(s) - 1) : ~Before(t[i + 1], t[i])}

\* Faulty variant: an item is compared by its property only.
DropOther(s, i) ==
    IF i < Len(s) /\ s[i].prop = s[i + 1].prop THEN RemoveAt(s, i) ELSE s

\* One turn of the loop at item i: the first of two settings of one property goes,
\* and the loop goes on behind the second.
DropFirst(s, i) ==
    IF i < Len(s) /\ SameProperty(s[i], s[i + 1]) THEN RemoveAt(s, i) ELSE s

\* The loop, turn by turn: the items that are left, and count_objs.
Turns(s) ==
    LET turn[i \in 0 .. Len(s)] ==
          IF i = 0 THEN [items |-> s, objs |-> 0, last |-> 0]
          ELSE LET was == turn[i - 1]
               IN  IF i > Len(was.items) THEN was
                   ELSE [items |-> DropFirst(was.items, i),
                         objs |-> was.objs + (IF was.items[i].obj # was.last THEN 1 ELSE 0),
                         last |-> was.items[i].obj]
    IN  turn
Reduced(s) == Turns(s)[Len(s)]

\* The loop that fills objs_ptr and count_props_ptr.
Fill(t) ==
    LET fill[i \in 0 .. Len(t)] ==
          IF i = 0 THEN [objs |-> <<>>, counts |-> <<>>, last |-> 0]
          ELSE LET was == fill[i - 1]
               IN  IF t[i].obj # was.last
                   THEN [objs |-> Append(was.objs, t[i].obj), counts |-> Append(was.counts, 1),
                         last |-> t[i].obj]
                   ELSE [was EXCEPT !.counts[Len(was.objs)] = @ + 1]
    IN  fill

\* The request for the kernel: the objects, how many properties each has, and those.
Message(s) ==
    LET items == Reduced(s).items
        filled == Fill(items)[Len(items)]
    IN  [count_objs |-> Reduced(s).objs, objs |-> filled.objs, counts |-> filled.counts,
         items |-> items]

Items(r) == SubSeq(req[r].heap, 1, req[r].cursor)
Commits(r) == IF req[r] = NoReq \/ req[r].cursor = 0 THEN {}
              ELSE {Message(s) : s \in Sorted(Items(r))}
-----------------------------------------------------------------------------
\* A commit sends what was asked for: its arrays have room for the objects that are
\* put there, no object is named twice, its properties are its own, every property
\* of the request is set, and to a value that the request has for it; a property that
\* is set at most twice is sent once.
Times(s, e) == Cardinality({i \in DOMAIN s : SameProperty(e, s[i])})
\* Where the properties of each object end.
Ends(counts) ==
    LET end[g \in 0 .. Len(counts)] == IF g = 0 THEN 0 ELSE end[g - 1] + counts[g] IN end
SentRight(c, asked) ==
    /\ c.count_objs = Len(c.objs) /\ Len(c.counts) = Len(c.objs)
    /\ Ends(c.counts)[Len(c.objs)] = Len(c.items)
    /\ \A g, h \in DOMAIN c.objs : g < h => c.objs[g] < c.objs[h]
    /\ \A g \in DOMAIN c.objs : \A i \in (Ends(c.counts)[g - 1] + 1) .. Ends(c.counts)[g] :
          c.items[i].obj = c.objs[g]
    /\ Range(c.items) \subseteq Range(asked)
    /\ \A e \in Range(asked) :
          Times(c.items, e) >= 1 /\ (Times(asked, e) <= 2 => Times(c.items, e) = 1)
CommitIsRight == \A r \in Requests : \A c \in Commits(r) : SentRight(c, Items(r))
=============================================================================
