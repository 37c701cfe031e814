------------------------------ MODULE HbBuffer ------------------------------
(***************************************************************************)
(* harfbuzz/src/hb-buffer.cc and hb-buffer.hh: the glyph buffer.  A pass   *)
(* reads info from idx on and writes out_info, which is the same memory as *)
(* long as the output is not ahead of the input; then it moves to the      *)
(* memory of pos.  One record holds the struct; a cell that is not in use  *)
(* any more is Junk, as is new memory, so that reading one shows.          *)
(*                                                                         *)
(* A glyph is its code and its cluster; masks, positions and the levels of *)
(* clustering but the default are left out.                                *)
(***************************************************************************)
EXTENDS Integers, Sequences, SequencesExt, FiniteSetsExt

CONSTANTS
    Codes,       \* the glyphs lookups put in
    Text,        \* what a buffer may have been filled with; texts start at cluster 0
    MaxLen,      \* max_len
    Allocated,   \* the memory a buffer has at first
    Growth,      \* and what enlarge adds at a time
    Junk         \* unused memory

Glyph ==
    [code : Codes \union UNION {{t[i].code : i \in DOMAIN t} : t \in Text}, cluster : Nat]

ASSUME HbBufferAssumption ==
    /\ MaxLen \in Nat /\ Growth \in Nat \ {0} /\ Allocated \in Nat
    /\ Text \subseteq Seq(Glyph) /\ Junk \notin Glyph
    /\ \A t \in Text : Len(t) < Allocated
    /\ \A t \in Text : t # <<>> => \E i \in DOMAIN t : t[i].cluster = 0

\* Clusters go up, or down if the text was reversed.
Monotone(list) ==
    \/ \A i, j \in DOMAIN list : i < j => list[i].cluster <= list[j].cluster
    \/ \A i, j \in DOMAIN list : i < j => list[i].cluster >= list[j].cluster

ASSUME HbTextAssumption == \A t \in Text : Monotone(t)

VARIABLE buf

Fill(mem, at, list) ==
    [k \in DOMAIN mem |-> IF k - at \in 0 .. Len(list) - 1 THEN list[k - at + 1] ELSE mem[k]]

Part(mem, from, to) == [k \in 1 .. (to - from) |-> mem[from + k - 1]]

\* Cells no one may use any more.
Tidy(b) ==
    LET used == {k \in DOMAIN b.info :
                   \/ k \in b.idx .. b.len - 1
                   \/ ~b.have_output /\ k < b.len
                   \/ b.have_output /\ ~b.separate /\ k < b.out_len}
    IN  [b EXCEPT !.info = [k \in DOMAIN @ |-> IF k \in used THEN @[k] ELSE Junk],
                  !.pos = [k \in DOMAIN @ |-> IF b.have_output /\ b.separate /\ k < b.out_len
                                              THEN @[k] ELSE Junk]]

Empty == [k \in 0 .. Allocated - 1 |-> Junk]

Init ==
    \E t \in Text :
      buf = [info |-> Fill(Empty, 0, t), pos |-> Empty, separate |-> FALSE,
             idx |-> 0, len |-> Len(t), out_len |-> 0, have_output |-> FALSE,
             successful |-> TRUE]

Out(b) == IF b.separate THEN b.pos ELSE b.info
Write(b, at, list) ==
    IF b.separate THEN [b EXCEPT !.pos = Fill(@, at, list)] ELSE [b EXCEPT !.info = Fill(@, at, list)]
-----------------------------------------------------------------------------
Enough(b, size) == size = 0 \/ size < Cardinality(DOMAIN b.info)

Bigger(mem, size) ==
    LET have == Cardinality(DOMAIN mem)
        more == Growth * ((size - have) \div Growth + 1)
    IN  [k \in 0 .. have + more - 1 |-> IF k < have THEN mem[k] ELSE Junk]

\* ensure and enlarge: the memory is there, is got, or there is none, or not for so
\* many glyphs.  Whoever asks then looks whether it is Enough.
Ensured(b, size) ==
    IF Enough(b, size) THEN {b}
    ELSE {[b EXCEPT !.successful = FALSE]}
           \union (IF b.successful /\ size <= MaxLen
                   THEN {[b EXCEPT !.info = Bigger(@, size), !.pos = Bigger(@, size)]} ELSE {})

\* Faulty variant: only the output's length is looked at.
LateSeparate(b, num_in, num_out) ==
    IF ~b.separate /\ b.out_len > b.idx
    THEN [b EXCEPT !.separate = TRUE, !.pos = Fill(@, 0, Part(b.info, 0, b.out_len))]
    ELSE b

\* The output gets memory of its own before it overtakes the input.
Separated(b, num_in, num_out) ==
    IF ~b.separate /\ b.out_len + num_out > b.idx + num_in
    THEN [b EXCEPT !.separate = TRUE, !.pos = Fill(@, 0, Part(b.info, 0, b.out_len))]
    ELSE b

\* make_room_for, and what is then done with the room.
WithRoom(b, num_in, num_out, Op(_)) ==
    {IF Enough(c, b.out_len + num_out) THEN Op(Separated(c, num_in, num_out)) ELSE c :
       c \in Ensured(b, b.out_len + num_out)}

Advance(b, num_in, num_out) == [b EXCEPT !.idx = @ + num_in, !.out_len = @ + num_out]

NextGlyphs(b, n) ==
    LET Op(c) == Advance(Write(c, c.out_len, Part(c.info, c.idx, c.idx + n)), n, n)
    IN  IF ~b.have_output THEN {Advance(b, n, 0)}
        ELSE IF ~b.separate /\ b.out_len = b.idx THEN {Advance(b, n, n)}
        ELSE WithRoom(b, n, n, Op)

\* set_cluster, for the glyphs in..: of the input and those of the output.
Clustered(b, ins, outs, cluster) ==
    LET Set(mem, ks) == [k \in DOMAIN mem |-> IF k \in ks THEN [mem[k] EXCEPT !.cluster = cluster] ELSE mem[k]]
    IN  IF b.separate THEN [b EXCEPT !.info = Set(@, ins), !.pos = Set(@, outs)]
        ELSE [b EXCEPT !.info = Set(@, ins \union outs)]

\* The glyphs from..to-1 of mem, and those up to first..last that go on their clusters.
Run(mem, from, to, first, last) ==
    from .. to - 1
    \union {i \in first .. from - 1 : \A k \in i .. from : mem[k].cluster = mem[from].cluster}
    \union {i \in to .. last : \A k \in to - 1 .. i : mem[k].cluster = mem[to - 1].cluster}

Least(mem, from, to) == Min({mem[k].cluster : k \in from .. to - 1})

\* Faulty variant: the output is not looked at.
MergeInput(b, start, end) ==
    IF end - start < 2 THEN b
    ELSE Clustered(b, Run(b.info, start, end, b.idx, b.len - 1), {}, Least(b.info, start, end))

\* merge_clusters goes on into the output if the start of the input is reached.
MergeClusters(b, start, end) ==
    IF end - start < 2 THEN b
    ELSE LET ins == Run(b.info, start, end, b.idx, b.len - 1)
             outs == IF b.idx \notin ins THEN {}
                     ELSE {i \in 0 .. b.out_len - 1 :
                             \A k \in i .. b.out_len - 1 : Out(b)[k].cluster = b.info[b.idx].cluster}
         IN  Clustered(b, ins, outs, Least(b.info, start, end))

\* merge_out_clusters goes on into the input if the end of the output is reached.
MergeOutClusters(b, start, end) ==
    IF end - start < 2 THEN b
    ELSE LET outs == Run(Out(b), start, end, 0, b.out_len - 1)
             ins == IF b.out_len - 1 \notin outs THEN {}
                    ELSE {i \in b.idx .. b.len - 1 :
                            \A k \in b.idx .. i :
                              b.info[k].cluster = Out(b)[b.out_len - 1].cluster}
         IN  Clustered(b, ins, outs, Least(Out(b), start, end))

Like(glyph, codes) == [k \in DOMAIN codes |-> [glyph EXCEPT !.code = codes[k]]]

ReplaceGlyphs(b, n, codes) ==
    LET Op(c) == LET m == MergeClusters(c, c.idx, c.idx + n)
                 IN  Advance(Write(m, m.out_len, Like(m.info[m.idx], codes)), n, Len(codes))
    IN  WithRoom(b, n, Len(codes), Op)

ReplaceGlyph(b, code) ==
    LET Op(c) == Advance(Write(c, c.out_len, Like(c.info[c.idx], <<code>>)), 1, 1)
    IN  IF b.separate \/ b.out_len # b.idx THEN WithRoom(b, 1, 1, Op) ELSE {Op(b)}

OutputGlyph(b, code) ==
    LET Op(c) ==
          IF c.idx = c.len /\ c.out_len = 0 THEN c
          ELSE LET glyph == IF c.idx < c.len THEN c.info[c.idx] ELSE Out(c)[c.out_len - 1]
               IN  Advance(Write(c, c.out_len, Like(glyph, <<code>>)), 0, 1)
    IN  WithRoom(b, 0, 1, Op)

CopyGlyph(b) ==
    LET Op(c) == Advance(Write(c, c.out_len, <<c.info[c.idx]>>), 0, 1)
    IN  WithRoom(b, 0, 1, Op)

\* Faulty variant: only the glyph before the cursor's takes the cluster over.
DeleteBackward(b) ==
    LET cluster == b.info[b.idx].cluster
        old == Out(b)[b.out_len - 1].cluster
    IN  Advance(IF b.out_len > 0 /\ cluster < old
                THEN Clustered(b, {}, {b.out_len - 1}, cluster) ELSE b, 1, 0)

DeleteGlyph(b) ==
    LET cluster == b.info[b.idx].cluster
        next == b.idx + 1 < b.len
        old == Out(b)[b.out_len - 1].cluster
        merged ==
          IF next /\ cluster = b.info[b.idx + 1].cluster THEN b
          ELSE IF b.out_len > 0
          THEN IF cluster < old
               THEN Clustered(b, {}, {i \in 0 .. b.out_len - 1 :
                                        \A k \in i .. b.out_len - 1 : Out(b)[k].cluster = old},
                              cluster)
               ELSE b
          ELSE IF next THEN MergeClusters(b, b.idx, b.idx + 2) ELSE b
    IN  Advance(merged, 1, 0)

\* hb_ot_layout_delete_glyphs_inplace, with its j in out_len: a glyph to be deleted
\* leaves its cluster to a neighbour, any other moves down.
MergeInplace(b, i) ==
    LET cluster == b.info[i].cluster
        next == i + 1 < b.len
        old == b.info[b.out_len - 1].cluster
    IN  IF next /\ cluster = b.info[i + 1].cluster THEN b
        ELSE IF b.out_len > 0
        THEN IF cluster < old
             THEN Clustered(b, {k \in 0 .. b.out_len - 1 :
                                  \A m \in k .. b.out_len - 1 : b.info[m].cluster = old}, {}, cluster)
             ELSE b
        ELSE IF next THEN MergeClusters(b, i, i + 2) ELSE b

\* Faulty variant: the clusters of deleted glyphs are dropped.
DeleteDropping(b, codes) ==
    LET kept == SelectSeq(Part(b.info, 0, b.len), LAMBDA g : g.code \notin codes)
    IN  [b EXCEPT !.info = Fill(@, 0, kept), !.out_len = Len(kept)]

InplaceTurn(b, i, codes) ==
    IF b.info[i].code \in codes THEN MergeInplace(b, i)
    ELSE [b EXCEPT !.info = Fill(@, b.out_len, <<b.info[i]>>), !.out_len = @ + 1]

DeleteInplace(b, codes) ==
    LET after[i \in 0 .. b.len] == IF i = 0 THEN b ELSE InplaceTurn(after[i - 1], i - 1, codes)
    IN  after[b.len]

Shifted(b, count) ==
    LET rest == Part(b.info, b.idx, b.len)
        gap == [k \in 1 .. Max({0, b.idx + count - b.len}) |-> Junk]
    IN  [b EXCEPT !.info = Fill(Fill(@, b.len, gap), b.idx + count, rest),
                  !.len = @ + count, !.idx = @ + count]

\* Faulty variant: the input is not shifted, and starts before its memory.
RewindBare(b, count) ==
    {[b EXCEPT !.idx = @ - count, !.out_len = @ - count,
               !.info = Fill(@, b.idx - count, Part(Out(b), b.out_len - count, b.out_len))]}

\* The rewinding of move_to: the last glyphs of the output go back to the input, which
\* is shifted if there is no room before it.
Rewind(b, count) ==
    LET Back(c) == [c EXCEPT !.idx = @ - count, !.out_len = @ - count,
                             !.info = Fill(@, c.idx - count, Part(Out(c), c.out_len - count, c.out_len))]
    IN  IF b.idx >= count THEN {Back(b)}
        ELSE {IF Enough(c, b.len + count) THEN Back(Shifted(c, count)) ELSE c :
                c \in Ensured(b, b.len + count)}

MoveTo(b, i) ==
    LET count == i - b.out_len
        Op(c) == Advance(Write(c, c.out_len, Part(c.info, c.idx, c.idx + count)), count, count)
    IN  IF ~b.have_output THEN {[b EXCEPT !.idx = i]}
        ELSE IF ~b.successful THEN {b}
        ELSE IF count > 0 THEN WithRoom(b, count, count, Op)
        ELSE IF count < 0 THEN Rewind(b, 0 - count) ELSE {b}

\* The output becomes the input; if what is left did not fit, it is lost.
SwapBuffers(b) ==
    LET Swap(c) == [c EXCEPT !.have_output = FALSE, !.separate = FALSE, !.idx = 0,
                             !.info = Out(c), !.pos = IF c.separate THEN c.info ELSE @,
                             !.len = c.out_len, !.out_len = 0]
    IN  IF ~b.successful THEN {b} ELSE {Swap(c) : c \in NextGlyphs(b, b.len - b.idx)}
-----------------------------------------------------------------------------
\* A lookup's use of the buffer: the cursor stays within the input, and what needs an
\* output comes after clear_output.
To(bs) == \E b \in bs : buf' = Tidy(b)
Left == buf.len - buf.idx

ClearOutput ==
    /\ ~buf.have_output
    /\ To({[buf EXCEPT !.have_output = TRUE, !.separate = FALSE, !.out_len = 0, !.idx = 0]})

Step == \E n \in 1 .. Left : To(NextGlyphs(buf, n))
Move == \E i \in 0 .. (IF buf.have_output THEN buf.out_len + Left ELSE buf.len) : To(MoveTo(buf, i))

Replace ==
    /\ buf.have_output
    /\ \/ \E c \in Codes : Left > 0 /\ To(ReplaceGlyph(buf, c))
       \/ \E n \in 1 .. Left, codes \in {<<c>> : c \in Codes} \union (Codes \X Codes) :
            To(ReplaceGlyphs(buf, n, codes))

\* decompose_current_character: what it decomposes into is put out, then it is skipped.
Decompose ==
    /\ buf.have_output /\ Left > 0
    /\ \E codes \in Codes \X Codes :
         To({Advance(c, 1, 0) : c \in UNION {OutputGlyph(b, codes[2]) : b \in OutputGlyph(buf, codes[1])}})

Output ==
    /\ buf.have_output
    /\ \/ \E c \in Codes : To(OutputGlyph(buf, c))
       \/ Left > 0 /\ To(CopyGlyph(buf))

Delete == buf.have_output /\ Left > 0 /\ To({DeleteGlyph(buf)})

\* Without output, clusters are merged where the cursor is at the start (the reordering
\* of the complex shapers).
MergeAny ==
    \/ \E s \in buf.idx .. buf.len, e \in buf.idx .. buf.len :
         (buf.have_output \/ buf.idx = 0) /\ s < e /\ To({MergeClusters(buf, s, e)})
    \/ \E s \in 0 .. buf.out_len, e \in 0 .. buf.out_len :
         buf.have_output /\ s < e /\ To({MergeOutClusters(buf, s, e)})

Finish == buf.have_output /\ To(SwapBuffers(buf))

Next == ClearOutput \/ Step \/ Move \/ Replace \/ Decompose \/ Output \/ Delete \/ MergeAny \/ Finish

Spec == Init /\ [][Next]_buf
-----------------------------------------------------------------------------
\* Type correctness: the cursors are within the memory, and glyphs are read only where
\* there are any.
TypeOK ==
    /\ DOMAIN buf.info = DOMAIN buf.pos
    /\ buf.idx \in 0 .. buf.len /\ {buf.len, buf.out_len} \subseteq 0 .. Cardinality(DOMAIN buf.info)
    /\ \A k \in buf.idx .. buf.len - 1 : buf.info[k] # Junk

\* The two blocks of memory, one or two at a time, are a list with a cursor to the
\* lookups, whatever they do and however the memory grows, until a buffer fails.
Before == IF buf.have_output THEN Part(Out(buf), 0, buf.out_len) ELSE Part(buf.info, 0, buf.idx)
List == INSTANCE GlyphList
          WITH done <- Before, rest <- Part(buf.info, buf.idx, buf.len), ok <- buf.successful
IsList == List!Spec

\* Clusters that go up or down through the text still do after any use, and the start
\* of the text belongs to one of them while a glyph is left: a deleted glyph's cluster
\* passes to a neighbour.
TextCovered ==
    buf.successful =>
      /\ Monotone(List!All)
      /\ List!All # <<>> => \E i \in DOMAIN List!All : List!All[i].cluster = 0

\* "Same logic as buffer->delete_glyph(), but for in-place removal", says
\* hb_ot_layout_delete_glyphs_inplace: a pass that deletes the same glyphs leaves the
\* same list.
PassTurn(b, i, codes) ==
    IF b.info[i].code \in codes THEN DeleteGlyph(b) ELSE CHOOSE d \in NextGlyphs(b, 1) : TRUE
Pass(b, codes) ==
    LET after[i \in 0 .. b.len] == IF i = 0 THEN [b EXCEPT !.have_output = TRUE]
                                  ELSE PassTurn(after[i - 1], i - 1, codes)
    IN  after[b.len]
InplaceAgrees ==
    ~buf.have_output /\ buf.idx = 0 =>
      \A codes \in SUBSET {buf.info[k].code : k \in 0 .. buf.len - 1} :
        LET pass == Pass(buf, codes)
            inplace == DeleteInplace(buf, codes)
        IN  Part(pass.info, 0, pass.out_len) = Part(inplace.info, 0, inplace.out_len)
=============================================================================
