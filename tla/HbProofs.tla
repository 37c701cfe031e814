------------------------------ MODULE HbProofs ------------------------------
(***************************************************************************)
(* harfbuzz's glyph buffer stays within its memory and reads only cells    *)
(* with glyphs; its memory is the list that GlyphList promises; the        *)
(* clusters of that list stay in order and keep the start of the text; and *)
(* deletion in place deletes what a pass would.  All this for any text,    *)
(* growth and limit.                                                       *)
(***************************************************************************)
EXTENDS HbBuffer, FiniteSetTheorems, SequenceTheorems, WellFoundedInduction, TLAPS

Mem(N) == [0 .. N - 1 -> Glyph \union {Junk}]

\* A struct with N cells of memory in each block.
IsBuf(b, N) ==
    /\ b \in [info : Mem(N), pos : Mem(N), separate : BOOLEAN, idx : Nat, len : Nat,
              out_len : Nat, have_output : BOOLEAN, successful : BOOLEAN]
    /\ b.idx <= b.len /\ b.len <= N /\ b.out_len <= N

\* The input that is left is glyphs, and so is the output, which is behind the cursor as
\* long as both are in the same memory; without output all of the text is there.
Good(b, N) ==
    /\ IsBuf(b, N)
    /\ \A k \in b.idx .. b.len - 1 : b.info[k] \in Glyph
    /\ b.have_output => \A k \in 0 .. b.out_len - 1 : Out(b)[k] \in Glyph
    /\ b.have_output /\ ~b.separate => b.out_len <= b.idx
    /\ ~b.have_output => /\ b.out_len = 0 /\ ~b.separate
                         /\ \A k \in 0 .. b.len - 1 : b.info[k] \in Glyph

\* The cursors, and what else an operation leaves alone.
Same(b, c) ==
    /\ c.idx = b.idx /\ c.len = b.len /\ c.out_len = b.out_len /\ c.have_output = b.have_output

LEMMA LeastOf ==
    ASSUME NEW S \in SUBSET Nat, S # {} PROVE Min(S) \in S
<1>1. \E m \in S : \A k \in S : ~ (<<k, m>> \in OpToRel(<, Nat))
  BY NatLessThanWellFounded, WFMin
<1>2. \A k, m \in S : ~ (<<k, m>> \in OpToRel(<, Nat)) => m <= k
  BY DEF OpToRel
<1>. QED
  BY <1>1, <1>2 DEF Min

LEMMA CellsOf ==
    ASSUME NEW N \in Nat, NEW b, IsBuf(b, N)
    PROVE  /\ DOMAIN b.info = 0 .. N - 1 /\ DOMAIN b.pos = 0 .. N - 1
           /\ Cardinality(DOMAIN b.info) = N
<1>1. DOMAIN b.info = 0 .. N - 1 /\ DOMAIN b.pos = 0 .. N - 1
  BY DEF IsBuf, Mem
<1>2. Cardinality(0 .. N - 1) = IF 0 > N - 1 THEN 0 ELSE N - 1 - 0 + 1
  BY FS_Interval
<1>3. Cardinality(0 .. N - 1) = N
  BY <1>2
<1>. QED
  BY <1>1, <1>3

LEMMA FillIs ==
    ASSUME NEW N \in Nat, NEW mem \in Mem(N), NEW at \in Nat, NEW n \in Nat, NEW list, Len(list) = n,
           \A i \in 1 .. n : list[i] \in Glyph \union {Junk}
    PROVE  /\ Fill(mem, at, list) \in Mem(N)
           /\ \A k \in 0 .. N - 1 : k < at \/ k >= at + n => Fill(mem, at, list)[k] = mem[k]
           /\ \A k \in 0 .. N - 1 : at <= k /\ k < at + n => Fill(mem, at, list)[k] = list[k - at + 1]
<1>1. DOMAIN mem = 0 .. N - 1
  BY DEF Mem
<1>2. ASSUME NEW k \in 0 .. N - 1
      PROVE  /\ Fill(mem, at, list)[k] = IF at <= k /\ k < at + n THEN list[k - at + 1] ELSE mem[k]
             /\ Fill(mem, at, list)[k] \in Glyph \union {Junk}
  <2>1. k - at \in 0 .. n - 1 <=> at <= k /\ k < at + n
    BY <1>2
  <2>2. at <= k /\ k < at + n => k - at + 1 \in 1 .. n
    BY <1>2
  <2>3. mem[k] \in Glyph \union {Junk}
    BY DEF Mem
  <2>. QED
    BY <1>1, <2>1, <2>2, <2>3 DEF Fill
<1>3. Fill(mem, at, list) \in Mem(N)
  BY <1>1, <1>2 DEF Fill, Mem
<1>. QED
  BY <1>2, <1>3

\* Below the place that is filled memory stays the same.
Filled(mem, new, N, at) == new \in Mem(N) /\ \A k \in 0 .. N - 1 : k < at => new[k] = mem[k]

LEMMA FillKeeps ==
    ASSUME NEW N \in Nat, NEW mem \in Mem(N), NEW at \in Nat, NEW n \in Nat, NEW list, Len(list) = n,
           \A i \in 1 .. n : list[i] \in Glyph \union {Junk}
    PROVE  Filled(mem, Fill(mem, at, list), N, at)
<1>1. Fill(mem, at, list) \in Mem(N)
  BY FillIs
<1>2. ASSUME NEW k \in 0 .. N - 1, k < at PROVE Fill(mem, at, list)[k] = mem[k]
  BY <1>2, FillIs
<1>. QED
  BY <1>1, <1>2 DEF Filled

\* Glyphs that are written never make a cell worse.
Written(mem, new, N, at, n) ==
    /\ new \in Mem(N)
    /\ \A k \in 0 .. N - 1 : mem[k] \in Glyph => new[k] \in Glyph
    /\ \A k \in 0 .. N - 1 : at <= k /\ k < at + n => new[k] \in Glyph
    /\ \A k \in 0 .. N - 1 : k < at \/ k >= at + n => new[k] = mem[k]

LEMMA FillGlyphs ==
    ASSUME NEW N \in Nat, NEW mem \in Mem(N), NEW at \in Nat, NEW n \in Nat, NEW list, Len(list) = n,
           \A i \in 1 .. n : list[i] \in Glyph
    PROVE  Written(mem, Fill(mem, at, list), N, at, n)
<1>1. ASSUME NEW k \in 0 .. N - 1, at <= k, k < at + n PROVE list[k - at + 1] \in Glyph
  <2>1. k - at + 1 \in 1 .. n
    BY <1>1
  <2>. QED
    BY <2>1
<1>. QED
  BY <1>1, FillIs DEF Written

LEMMA PartIs ==
    ASSUME NEW N \in Nat, NEW mem, NEW from \in Nat, NEW n \in Nat
    PROVE  /\ Len(Part(mem, from, from + n)) = n
           /\ \A i \in 1 .. n : Part(mem, from, from + n)[i] = mem[from + i - 1]
<1>1. from + n - from = n
  OBVIOUS
<1>2. Part(mem, from, from + n) = [k \in 1 .. n |-> mem[from + k - 1]]
  BY <1>1 DEF Part
<1>. QED
  BY <1>2

LEMMA PartGlyphs ==
    ASSUME NEW mem, NEW from \in Nat, NEW n \in Nat, \A k \in from .. from + n - 1 : mem[k] \in Glyph
    PROVE  /\ Len(Part(mem, from, from + n)) = n
           /\ \A i \in 1 .. n : Part(mem, from, from + n)[i] \in Glyph
<1>1. \A i \in 1 .. n : from + i - 1 \in from .. from + n - 1
  OBVIOUS
<1>. QED
  BY <1>1, PartIs
-----------------------------------------------------------------------------
(***************************************************************************)
(* The steps operations are made of.                                       *)
(***************************************************************************)
Advanced(b, a, m, n) ==
    /\ a.idx = b.idx + m /\ a.out_len = b.out_len + n /\ a.len = b.len
    /\ a.info = b.info /\ a.pos = b.pos
    /\ a.separate = b.separate /\ a.have_output = b.have_output

LEMMA AdvanceIs ==
    ASSUME NEW N \in Nat, NEW b, IsBuf(b, N), NEW m \in Nat, NEW n \in Nat
    PROVE  /\ Advanced(b, Advance(b, m, n), m, n)
           /\ b.idx + m <= b.len /\ b.out_len + n <= N => IsBuf(Advance(b, m, n), N)
<1>1. b.idx + m \in Nat /\ b.out_len + n \in Nat
  BY DEF IsBuf
<1>2. Advance(b, m, n) = [b EXCEPT !.idx = b.idx + m, !.out_len = b.out_len + n]
  BY DEF Advance
<1>. QED
  BY <1>1, <1>2 DEF IsBuf, Advanced

\* What Separated and ensure make sure of before n glyphs are written for m that are read.
Ready(b, d, N, m, n) ==
    /\ Good(d, N) /\ Same(b, d)
    /\ d.out_len + n <= N
    /\ d.separate \/ d.out_len + n <= d.idx + m

\* Writing list and going on.
LEMMA WrittenIsGood ==
    ASSUME NEW N \in Nat, NEW b, NEW d, NEW m \in Nat, NEW n \in Nat, Ready(b, d, N, m, n),
           d.have_output, d.idx + m <= d.len,
           NEW list, Len(list) = n, \A i \in 1 .. n : list[i] \in Glyph
    PROVE  /\ Good(Advance(Write(d, d.out_len, list), m, n), N)
           /\ Advance(Write(d, d.out_len, list), m, n).have_output
<1> DEFINE w == Write(d, d.out_len, list)
           a == Advance(w, m, n)
<1>1. IsBuf(d, N) /\ Good(d, N)
  BY DEF Ready, Good
<1>2. CASE d.separate
  <2> DEFINE new == Fill(d.pos, d.out_len, list)
  <2>1. Written(d.pos, new, N, d.out_len, n)
    BY <1>1, FillGlyphs DEF IsBuf
  <2>2. w = [d EXCEPT !.pos = new]
    BY <1>2 DEF Write
  <2> HIDE DEF new
  <2>3. IsBuf(w, N) /\ w.pos = new /\ w.info = d.info /\ w.idx = d.idx /\ w.len = d.len
        /\ w.out_len = d.out_len /\ w.have_output = d.have_output /\ w.separate = d.separate
    BY <1>1, <2>1, <2>2 DEF IsBuf, Written
  <2> HIDE DEF w
  <2>4. IsBuf(a, N) /\ a.pos = new /\ a.info = d.info /\ a.idx = d.idx + m /\ a.len = d.len
        /\ a.out_len = d.out_len + n /\ a.have_output = d.have_output /\ a.separate = d.separate
    <3>1. w.idx + m <= w.len /\ w.out_len + n <= N
      BY <2>3 DEF Ready
    <3>2. IsBuf(a, N) /\ Advanced(w, a, m, n)
      BY <2>3, <3>1, AdvanceIs
    <3>. QED
      BY <2>3, <3>2 DEF Advanced
  <2> HIDE DEF a
  <2>5. \A k \in 0 .. a.out_len - 1 : Out(a)[k] \in Glyph
    <3>1. ASSUME NEW k \in 0 .. d.out_len + n - 1 PROVE new[k] \in Glyph
      <4>1. k \in 0 .. N - 1 /\ d.out_len \in Nat
        BY <1>1 DEF Ready, IsBuf
      <4>2. k < d.out_len => d.pos[k] \in Glyph
        BY <1>1, <1>2, <4>1 DEF Good, Out
      <4>. QED
        BY <2>1, <3>1, <4>1, <4>2 DEF Written
    <3>2. Out(a) = new /\ a.out_len = d.out_len + n /\ a.out_len \in Nat /\ d.out_len \in Nat
      BY <1>1, <1>2, <2>4 DEF Out, IsBuf
    <3>. QED
      BY <3>1, <3>2
  <2>6. \A k \in a.idx .. a.len - 1 : a.info[k] \in Glyph
    BY <1>1, <2>4 DEF Good, IsBuf
  <2>7. Good(a, N) /\ a.have_output
    BY <1>2, <2>4, <2>5, <2>6 DEF Good
  <2>. QED
    BY <2>7 DEF a, w
<1>3. CASE ~d.separate
  <2> DEFINE new == Fill(d.info, d.out_len, list)
  <2>1. Written(d.info, new, N, d.out_len, n)
    BY <1>1, FillGlyphs DEF IsBuf
  <2>2. w = [d EXCEPT !.info = new]
    BY <1>3 DEF Write
  <2> HIDE DEF new
  <2>3. IsBuf(w, N) /\ w.info = new /\ w.idx = d.idx /\ w.len = d.len
        /\ w.out_len = d.out_len /\ w.have_output = d.have_output /\ w.separate = d.separate
    BY <1>1, <2>1, <2>2 DEF IsBuf, Written
  <2> HIDE DEF w
  <2>4. IsBuf(a, N) /\ a.info = new /\ a.idx = d.idx + m /\ a.len = d.len
        /\ a.out_len = d.out_len + n /\ a.have_output = d.have_output /\ a.separate = d.separate
    <3>1. w.idx + m <= w.len /\ w.out_len + n <= N
      BY <2>3 DEF Ready
    <3>2. IsBuf(a, N) /\ Advanced(w, a, m, n)
      BY <2>3, <3>1, AdvanceIs
    <3>. QED
      BY <2>3, <3>2 DEF Advanced
  <2> HIDE DEF a
  <2>5. \A k \in 0 .. a.out_len - 1 : Out(a)[k] \in Glyph
    <3>1. ASSUME NEW k \in 0 .. d.out_len + n - 1 PROVE new[k] \in Glyph
      <4>1. k \in 0 .. N - 1 /\ d.out_len \in Nat
        BY <1>1 DEF Ready, IsBuf
      <4>2. k < d.out_len => d.info[k] \in Glyph
        BY <1>1, <1>3, <4>1 DEF Good, Out
      <4>. QED
        BY <2>1, <3>1, <4>1, <4>2 DEF Written
    <3>2. Out(a) = new /\ a.out_len = d.out_len + n /\ a.out_len \in Nat /\ d.out_len \in Nat
      BY <1>1, <1>3, <2>4 DEF Out, IsBuf
    <3>. QED
      BY <3>1, <3>2
  <2>6. \A k \in a.idx .. a.len - 1 : a.info[k] \in Glyph
    <3>1. SUFFICES ASSUME NEW k \in d.idx + m .. d.len - 1 PROVE new[k] \in Glyph
      BY <2>4
    <3>2. k \in 0 .. N - 1 /\ k \in d.idx .. d.len - 1
      BY <1>1 DEF IsBuf
    <3>. QED
      BY <1>1, <2>1, <3>2 DEF Good, Written
  <2>7. Good(a, N) /\ a.have_output
    BY <1>3, <2>4, <2>5, <2>6 DEF Good, Ready
  <2>. QED
    BY <2>7 DEF a, w
<1>. QED
  BY <1>2, <1>3

LEMMA SeparatedIsReady ==
    ASSUME NEW N \in Nat, NEW b, NEW c, Good(c, N), Same(b, c), c.have_output,
           NEW m \in Nat, NEW n \in Nat, c.out_len + n <= N
    PROVE  /\ Ready(b, Separated(c, m, n), N, m, n)
           /\ Separated(c, m, n).info = c.info /\ Separated(c, m, n).separate \in BOOLEAN
<1>1. IsBuf(c, N)
  BY DEF Good
<1>2. CASE ~c.separate /\ c.out_len + n > c.idx + m
  <2> DEFINE list == Part(c.info, 0, 0 + c.out_len)
             new == Fill(c.pos, 0, list)
             s == Separated(c, m, n)
  <2>1. 0 + c.out_len = c.out_len
    BY <1>1 DEF IsBuf
  <2>2. s = [c EXCEPT !.separate = TRUE, !.pos = new]
    BY <1>2, <2>1 DEF Separated
  <2>3. Len(list) = c.out_len /\ \A i \in 1 .. c.out_len : list[i] \in Glyph
    <3>1. \A k \in 0 .. 0 + c.out_len - 1 : c.info[k] \in Glyph
      BY <1>1, <1>2 DEF Good, Out, IsBuf
    <3>. QED
      BY <1>1, <3>1, PartGlyphs DEF IsBuf
  <2> HIDE DEF list
  <2>4. Written(c.pos, new, N, 0, c.out_len)
    BY <1>1, <2>3, FillGlyphs DEF IsBuf
  <2> HIDE DEF new
  <2>5. IsBuf(s, N) /\ Same(b, s) /\ s.info = c.info /\ s.pos = new /\ s.separate
    BY <1>1, <2>2, <2>4 DEF IsBuf, Written, Same
  <2>6. s.idx = c.idx /\ s.len = c.len /\ s.out_len = c.out_len /\ s.have_output = c.have_output
    BY <1>1, <2>2 DEF IsBuf
  <2> HIDE DEF s
  <2>7. \A k \in 0 .. s.out_len - 1 : Out(s)[k] \in Glyph
    <3>1. \A k \in 0 .. c.out_len - 1 : k \in 0 .. N - 1 /\ 0 <= k /\ k < 0 + c.out_len
      BY <1>1 DEF IsBuf
    <3>. QED
      BY <2>4, <2>5, <2>6, <3>1 DEF Out, Written
  <2>8. Good(s, N)
    BY <2>5, <2>6, <2>7 DEF Good
  <2>. QED
    BY <2>5, <2>6, <2>8 DEF Ready, s
<1>3. CASE ~(~c.separate /\ c.out_len + n > c.idx + m)
  <2>1. Separated(c, m, n) = c
    BY <1>3 DEF Separated
  <2>2. c.separate \/ c.out_len + n <= c.idx + m
    BY <1>1, <1>3 DEF IsBuf
  <2>. QED
    BY <1>1, <2>1, <2>2 DEF Ready, IsBuf
<1>. QED
  BY <1>2, <1>3

\* Memory may grow: the cells that were there keep what they hold.
NewSize(N, size) == N + Growth * ((size - N) \div Growth + 1)
BiggerFrom(mem, have, size) ==
    [k \in 0 .. have + Growth * ((size - have) \div Growth + 1) - 1 |-> IF k < have THEN mem[k] ELSE Junk]
Larger(mem, new, N, M) == new \in Mem(M) /\ \A k \in 0 .. N - 1 : new[k] = mem[k]

LEMMA GrownSize ==
    ASSUME NEW N \in Nat, NEW size \in Nat, size >= N
    PROVE  Growth * ((size - N) \div Growth + 1) \in Nat
<1> DEFINE q == (size - N) \div Growth + 1
<1>1. q \in Nat
  <2>1. size - N \in Nat /\ Growth \in Nat /\ Growth > 0
    BY HbBufferAssumption
  <2>2. (size - N) \div Growth \in Nat
    BY <2>1
  <2>. QED
    BY <2>2
<1> HIDE DEF q
<1>2. Growth * q \in Nat
  BY <1>1, HbBufferAssumption
<1>. QED
  BY <1>2 DEF q

LEMMA NewSizeIs ==
    ASSUME NEW N \in Nat, NEW size \in Nat, size >= N
    PROVE  NewSize(N, size) \in Nat /\ N <= NewSize(N, size)
<1>1. Growth * ((size - N) \div Growth + 1) \in Nat
  BY GrownSize
<1>. QED
  BY <1>1 DEF NewSize

LEMMA BiggerIs ==
    ASSUME NEW N \in Nat, NEW mem \in Mem(N), NEW size \in Nat, size >= N
    PROVE  Larger(mem, Bigger(mem, size), N, NewSize(N, size))
<1> DEFINE M == NewSize(N, size)
<1>1. M \in Nat /\ N <= M
  BY NewSizeIs
<1>2. DOMAIN mem = 0 .. N - 1 /\ \A k \in 0 .. N - 1 : mem[k] \in Glyph \union {Junk}
  BY DEF Mem
<1>3. Cardinality(DOMAIN mem) = N
  <2>1. Cardinality(0 .. N - 1) = IF 0 > N - 1 THEN 0 ELSE N - 1 - 0 + 1
    BY FS_Interval
  <2>. QED
    BY <1>2, <2>1
<1>4. Bigger(mem, size) = [k \in 0 .. M - 1 |-> IF k < N THEN mem[k] ELSE Junk]
  <2>1. Bigger(mem, size) = BiggerFrom(mem, Cardinality(DOMAIN mem), size)
    BY Zenon DEF Bigger, BiggerFrom
  <2>2. Bigger(mem, size) = BiggerFrom(mem, N, size)
    BY <1>3, <2>1
  <2>3. N + Growth * ((size - N) \div Growth + 1) - 1 = M - 1
    <3> DEFINE more == Growth * ((size - N) \div Growth + 1)
    <3>1. more \in Nat /\ M = N + more
      BY GrownSize DEF NewSize
    <3> HIDE DEF more
    <3>2. N + more - 1 = M - 1
      BY <3>1
    <3>. QED
      BY <3>2 DEF more
  <2>. QED
    BY <2>2, <2>3 DEF BiggerFrom
<1> HIDE DEF M
<1>5. \A k \in 0 .. M - 1 : k < N => k \in 0 .. N - 1
  BY <1>1
<1>6. \A k \in 0 .. N - 1 : k \in 0 .. M - 1 /\ k < N
  BY <1>1
<1>7. Bigger(mem, size) \in Mem(M)
  BY <1>2, <1>4, <1>5 DEF Mem
<1>8. Larger(mem, Bigger(mem, size), N, M)
  BY <1>4, <1>6, <1>7 DEF Larger
<1>. QED
  BY <1>8 DEF M

\* What ensure leaves: the same list, in as much memory at least.
LEMMA EnsuredIs ==
    ASSUME NEW N \in Nat, NEW b, Good(b, N), NEW size \in Nat, NEW c \in Ensured(b, size)
    PROVE  \E M \in Nat : /\ N <= M /\ Good(c, M) /\ Same(b, c) /\ c.separate = b.separate
                          /\ Enough(c, size) => size <= M
<1>1. IsBuf(b, N)
  BY DEF Good
<1>2. ASSUME NEW M \in Nat, IsBuf(c, M), Enough(c, size) PROVE size <= M
  BY <1>2, CellsOf DEF Enough
<1>3. CASE c = b
  BY <1>1, <1>2, <1>3 DEF Same
<1>4. CASE c = [b EXCEPT !.successful = FALSE]
  <2>1. IsBuf(c, N) /\ Same(b, c) /\ c.info = b.info /\ c.pos = b.pos /\ c.separate = b.separate
    BY <1>1, <1>4 DEF IsBuf, Same
  <2>2. Good(c, N)
    BY <2>1 DEF Good, Same, Out
  <2>. QED
    BY <1>2, <2>1, <2>2
<1>5. CASE /\ ~Enough(b, size)
           /\ c = [b EXCEPT !.info = Bigger(b.info, size), !.pos = Bigger(b.pos, size)]
  <2>1. size >= N
    BY <1>1, <1>5, CellsOf DEF Enough
  <2> DEFINE M == NewSize(N, size)
             info == Bigger(b.info, size)
             pos == Bigger(b.pos, size)
  <2>2. M \in Nat /\ N <= M
    BY <2>1, NewSizeIs
  <2>3. Larger(b.info, info, N, M) /\ Larger(b.pos, pos, N, M)
    <3>1. b.info \in Mem(N) /\ b.pos \in Mem(N)
      BY <1>1 DEF IsBuf
    <3>. QED
      BY <2>1, <3>1, BiggerIs
  <2>4. c = [b EXCEPT !.info = info, !.pos = pos]
    BY <1>5
  <2> HIDE DEF info, pos, M
  <2>5. info \in Mem(M) /\ pos \in Mem(M)
        /\ \A k \in 0 .. N - 1 : info[k] = b.info[k] /\ pos[k] = b.pos[k]
    BY <2>3 DEF Larger
  <2>6. IsBuf(c, M) /\ Same(b, c) /\ c.info = info /\ c.pos = pos /\ c.separate = b.separate
    <3>1. Same(b, c) /\ c.info = info /\ c.pos = pos /\ c.separate = b.separate
      BY <1>1, <2>4 DEF IsBuf, Same
    <3>2. c \in [info : Mem(M), pos : Mem(M), separate : BOOLEAN, idx : Nat, len : Nat,
                 out_len : Nat, have_output : BOOLEAN, successful : BOOLEAN]
      BY <1>1, <2>4, <2>5 DEF IsBuf
    <3>. QED
      BY <1>1, <2>2, <3>1, <3>2 DEF IsBuf, Same
  <2>7. \A k \in 0 .. b.len - 1 : k \in 0 .. N - 1
    BY <1>1 DEF IsBuf
  <2>8. \A k \in 0 .. b.out_len - 1 : k \in 0 .. N - 1
    BY <1>1 DEF IsBuf
  <2>9. \A k \in b.idx .. b.len - 1 : k \in 0 .. N - 1
    BY <1>1 DEF IsBuf
  <2>10. Good(c, M)
    BY <2>5, <2>6, <2>7, <2>8, <2>9 DEF Good, Same, Out
  <2>. QED
    BY <1>2, <2>2, <2>6, <2>10
<1>. QED
  BY <1>3, <1>4, <1>5 DEF Ensured
-----------------------------------------------------------------------------
(***************************************************************************)
(* The operations: what they leave is good again, with as much memory as   *)
(* before or more.                                                         *)
(***************************************************************************)
Fine(c) == c.have_output /\ \E M \in Nat : Good(c, M)

\* What make_room_for leaves for n glyphs in the place of m, or a failed buffer.
Room(b, m, n, d) == \E M \in Nat : Ready(b, d, M, m, n) /\ d.have_output

LEMMA RoomFor ==
    ASSUME NEW N \in Nat, NEW b, Good(b, N), b.have_output, NEW m \in Nat, NEW n \in Nat,
           NEW c \in Ensured(b, b.out_len + n)
    PROVE  /\ Fine(c)
           /\ Enough(c, b.out_len + n) => Room(b, m, n, Separated(c, m, n))
<1>1. b.out_len + n \in Nat
  BY DEF Good, IsBuf
<1>2. PICK M \in Nat : /\ N <= M /\ Good(c, M) /\ Same(b, c)
                       /\ Enough(c, b.out_len + n) => b.out_len + n <= M
  BY <1>1, EnsuredIs
<1>3. Fine(c)
  BY <1>2 DEF Fine, Same
<1>4. ASSUME Enough(c, b.out_len + n) PROVE Room(b, m, n, Separated(c, m, n))
  <2>1. c.have_output /\ c.out_len + n <= M
    BY <1>2, <1>4 DEF Same
  <2>2. Ready(b, Separated(c, m, n), M, m, n)
    BY <1>2, <2>1, SeparatedIsReady
  <2>. QED
    BY <2>2 DEF Room, Ready, Same
<1>. QED
  BY <1>3, <1>4

\* The glyphs a ready buffer puts out.
LEMMA PutOut ==
    ASSUME NEW b, NEW m \in Nat, NEW n \in Nat, NEW d, Room(b, m, n, d), d.idx + m <= d.len,
           NEW list, Len(list) = n, \A i \in 1 .. n : list[i] \in Glyph
    PROVE  Fine(Advance(Write(d, d.out_len, list), m, n))
  BY WrittenIsGood DEF Room, Fine

\* Glyphs of the input that are copied to the output.
LEMMA CopyOut ==
    ASSUME NEW b, NEW m \in Nat, NEW n \in Nat, NEW d, Room(b, m, n, d), d.idx + m <= d.len,
           d.idx + n <= d.len
    PROVE  Fine(Advance(Write(d, d.out_len, Part(d.info, d.idx, d.idx + n)), m, n))
<1>1. PICK M \in Nat : Good(d, M)
  BY DEF Room, Ready
<1>2. d.idx \in Nat /\ d.len \in Nat /\ \A k \in d.idx .. d.len - 1 : d.info[k] \in Glyph
  BY <1>1 DEF Good, IsBuf
<1>3. \A k \in d.idx .. d.idx + n - 1 : d.info[k] \in Glyph
  BY <1>2
<1> DEFINE list == Part(d.info, d.idx, d.idx + n)
<1>4. Len(list) = n /\ \A i \in 1 .. n : list[i] \in Glyph
  BY <1>2, <1>3, PartGlyphs
<1> HIDE DEF list
<1>5. Fine(Advance(Write(d, d.out_len, list), m, n))
  BY <1>4, PutOut
<1>. QED
  BY <1>5 DEF list

LEMMA NextGlyphsGood ==
    ASSUME NEW N \in Nat, NEW b, Good(b, N), b.have_output, NEW n \in Nat, b.idx + n <= b.len,
           NEW c \in NextGlyphs(b, n)
    PROVE  Fine(c)
<1>1. CASE ~b.separate /\ b.out_len = b.idx
  <2>1. c = Advance(b, n, n)
    BY <1>1 DEF NextGlyphs
  <2>2. IsBuf(b, N) /\ b.out_len + n <= N
    BY <1>1 DEF Good, IsBuf
  <2>3. IsBuf(c, N) /\ Advanced(b, c, n, n)
    BY <2>1, <2>2, AdvanceIs
  <2>4. ASSUME NEW k \in 0 .. c.out_len - 1 PROVE Out(c)[k] \in Glyph
    <3>1. Out(c) = b.info /\ Out(b) = b.info /\ c.out_len = b.out_len + n
      BY <1>1, <2>3 DEF Out, Advanced
    <3>2. k \in 0 .. b.out_len - 1 \/ k \in b.idx .. b.len - 1
      BY <1>1, <2>2, <3>1 DEF IsBuf
    <3>. QED
      BY <3>1, <3>2 DEF Good
  <2>5. \A k \in c.idx .. c.len - 1 : k \in b.idx .. b.len - 1 /\ c.info[k] = b.info[k]
    BY <2>2, <2>3 DEF Advanced, IsBuf
  <2>6. Good(c, N)
    BY <1>1, <2>2, <2>3, <2>4, <2>5 DEF Good, Advanced, IsBuf
  <2>. QED
    BY <2>3, <2>6 DEF Fine, Advanced
<1>2. CASE ~(~b.separate /\ b.out_len = b.idx)
  <2>1. PICK e \in Ensured(b, b.out_len + n) :
           c = IF Enough(e, b.out_len + n)
               THEN Advance(Write(Separated(e, n, n), Separated(e, n, n).out_len,
                                  Part(Separated(e, n, n).info, Separated(e, n, n).idx,
                                       Separated(e, n, n).idx + n)), n, n)
               ELSE e
    BY <1>2 DEF NextGlyphs, WithRoom
  <2> DEFINE d == Separated(e, n, n)
  <2>2. Fine(e) /\ (Enough(e, b.out_len + n) => Room(b, n, n, d))
    BY RoomFor
  <2> HIDE DEF d
  <2>3. Room(b, n, n, d) => d.idx + n <= d.len
    BY DEF Room, Ready, Same
  <2>4. Room(b, n, n, d) => Fine(Advance(Write(d, d.out_len, Part(d.info, d.idx, d.idx + n)), n, n))
    BY <2>3, CopyOut
  <2>. QED
    BY <2>1, <2>2, <2>4 DEF d
<1>. QED
  BY <1>1, <1>2
-----------------------------------------------------------------------------
(***************************************************************************)
(* Clusters: glyphs stay glyphs.                                           *)
(***************************************************************************)
Marked(mem, ks, cluster) ==
    [k \in DOMAIN mem |-> IF k \in ks THEN [mem[k] EXCEPT !.cluster = cluster] ELSE mem[k]]

LEMMA MarkedIs ==
    ASSUME NEW N \in Nat, NEW mem \in Mem(N), NEW ks, NEW cluster \in Nat,
           \A k \in ks : k \in 0 .. N - 1 => mem[k] \in Glyph
    PROVE  /\ Marked(mem, ks, cluster) \in Mem(N)
           /\ \A k \in 0 .. N - 1 : mem[k] \in Glyph => Marked(mem, ks, cluster)[k] \in Glyph
<1>1. \A g \in Glyph : [g EXCEPT !.cluster = cluster] \in Glyph
  BY DEF Glyph
<1>2. DOMAIN mem = 0 .. N - 1 /\ \A k \in 0 .. N - 1 : mem[k] \in Glyph \union {Junk}
  BY DEF Mem
<1>3. ASSUME NEW k \in 0 .. N - 1
      PROVE  /\ Marked(mem, ks, cluster)[k] \in Glyph \union {Junk}
             /\ mem[k] \in Glyph => Marked(mem, ks, cluster)[k] \in Glyph
  BY <1>1, <1>2 DEF Marked
<1>. QED
  BY <1>2, <1>3 DEF Marked, Mem

Kept(b, c) == Same(b, c) /\ c.separate = b.separate

LEMMA ClusteredIs ==
    ASSUME NEW N \in Nat, NEW b, Good(b, N), NEW cluster \in Nat,
           NEW ins \in SUBSET (b.idx .. b.len - 1), NEW outs \in SUBSET (0 .. b.out_len - 1)
    PROVE  /\ Good(Clustered(b, ins, outs, cluster), N)
           /\ Kept(b, Clustered(b, ins, outs, cluster))
<1> DEFINE c == Clustered(b, ins, outs, cluster)
<1>1. IsBuf(b, N) /\ b.info \in Mem(N) /\ b.pos \in Mem(N)
  BY DEF Good, IsBuf
<1>2. /\ \A k \in b.idx .. b.len - 1 : k \in 0 .. N - 1 /\ b.info[k] \in Glyph
      /\ \A k \in 0 .. b.out_len - 1 : k \in 0 .. N - 1 /\ b.have_output
                                       /\ Out(b)[k] \in Glyph
  BY <1>1 DEF Good, IsBuf
<1>3. \A k \in 0 .. b.len - 1 : k \in 0 .. N - 1
  BY <1>1 DEF IsBuf
<1>4. CASE b.separate
  <2> DEFINE info == Marked(b.info, ins, cluster)
             pos == Marked(b.pos, outs, cluster)
  <2>1. c = [b EXCEPT !.info = info, !.pos = pos]
    BY <1>4, Zenon DEF Clustered, Marked
  <2>2. \A k \in ins : k \in 0 .. N - 1 => b.info[k] \in Glyph
    BY <1>2
  <2>3. \A k \in outs : k \in 0 .. N - 1 => b.pos[k] \in Glyph
    BY <1>2, <1>4 DEF Out
  <2>4. info \in Mem(N) /\ \A k \in 0 .. N - 1 : b.info[k] \in Glyph => info[k] \in Glyph
    BY <1>1, <2>2, MarkedIs
  <2>5. pos \in Mem(N) /\ \A k \in 0 .. N - 1 : b.pos[k] \in Glyph => pos[k] \in Glyph
    BY <1>1, <2>3, MarkedIs
  <2> HIDE DEF info, pos, c
  <2>6. IsBuf(c, N) /\ Kept(b, c) /\ c.info = info /\ c.pos = pos
    BY <1>1, <2>1, <2>4, <2>5 DEF IsBuf, Kept, Same
  <2>7. \A k \in 0 .. c.out_len - 1 : Out(c)[k] \in Glyph
    BY <1>2, <1>4, <2>5, <2>6 DEF Kept, Same, Out
  <2>8. Good(c, N)
    BY <1>2, <1>4, <2>4, <2>6, <2>7 DEF Good, Kept, Same
  <2>. QED
    BY <2>6, <2>8 DEF c
<1>5. CASE ~b.separate
  <2> DEFINE info == Marked(b.info, ins \union outs, cluster)
  <2>1. c = [b EXCEPT !.info = info]
    BY <1>5, Zenon DEF Clustered, Marked
  <2>2. \A k \in ins \union outs : k \in 0 .. N - 1 => b.info[k] \in Glyph
    BY <1>2, <1>5 DEF Out
  <2>3. info \in Mem(N) /\ \A k \in 0 .. N - 1 : b.info[k] \in Glyph => info[k] \in Glyph
    BY <1>1, <2>2, MarkedIs
  <2> HIDE DEF info, c
  <2>4. IsBuf(c, N) /\ Kept(b, c) /\ c.info = info
    BY <1>1, <2>1, <2>3 DEF IsBuf, Kept, Same
  <2>5. \A k \in 0 .. c.out_len - 1 : Out(c)[k] \in Glyph
    BY <1>2, <1>5, <2>3, <2>4 DEF Kept, Same, Out
  <2>6. Good(c, N)
    BY <1>2, <1>3, <1>5, <2>3, <2>4, <2>5 DEF Good, Kept, Same
  <2>. QED
    BY <2>4, <2>6 DEF c
<1>. QED
  BY <1>4, <1>5

LEMMA LeastIs ==
    ASSUME NEW mem, NEW from \in Nat, NEW to \in Nat, ~(to - from < 2),
           \A k \in from .. to - 1 : mem[k] \in Glyph
    PROVE  Least(mem, from, to) \in Nat
<1> DEFINE S == {mem[k].cluster : k \in from .. to - 1}
<1>1. S \in SUBSET Nat
  BY DEF Glyph
<1>2. from \in from .. to - 1
  OBVIOUS
<1>3. S # {}
  BY <1>2
<1> HIDE DEF S
<1>4. Min(S) \in Nat
  BY <1>1, <1>3, LeastOf
<1>. QED
  BY <1>4 DEF Least, S

LEMMA RunIs ==
    ASSUME NEW mem, NEW from \in Nat, NEW to \in Nat, NEW first \in Nat, NEW end \in Nat,
           first <= from, to <= end, ~(to - from < 2)
    PROVE  Run(mem, from, to, first, end - 1) \in SUBSET (first .. end - 1)
<1>1. /\ \A k \in from .. to - 1 : k \in first .. end - 1
      /\ \A k \in first .. from - 1 : k \in first .. end - 1
      /\ \A k \in to .. end - 1 : k \in first .. end - 1
  OBVIOUS
<1>. QED
  BY <1>1 DEF Run

LEMMA MergeClustersIs ==
    ASSUME NEW N \in Nat, NEW b, Good(b, N), NEW start \in b.idx .. b.len, NEW end \in b.idx .. b.len
    PROVE  Good(MergeClusters(b, start, end), N) /\ Kept(b, MergeClusters(b, start, end))
<1>1. CASE end - start < 2
  BY <1>1 DEF MergeClusters, Kept, Same
<1>2. CASE ~(end - start < 2)
  <2>1. b.idx \in Nat /\ b.len \in Nat /\ start \in Nat /\ end \in Nat /\ b.idx <= start /\ end <= b.len
    BY DEF Good, IsBuf
  <2>2. Run(b.info, start, end, b.idx, b.len - 1) \in SUBSET (b.idx .. b.len - 1)
    BY <1>2, <2>1, RunIs
  <2>3. Least(b.info, start, end) \in Nat
    <3>1. \A k \in start .. end - 1 : k \in b.idx .. b.len - 1
      BY <2>1
    <3>. QED
      BY <1>2, <2>1, <3>1, LeastIs DEF Good
  <2>4. PICK outs \in SUBSET (0 .. b.out_len - 1) :
          MergeClusters(b, start, end) =
            Clustered(b, Run(b.info, start, end, b.idx, b.len - 1), outs, Least(b.info, start, end))
    BY <1>2, Zenon DEF MergeClusters
  <2>. QED
    BY <2>2, <2>3, <2>4, ClusteredIs
<1>. QED
  BY <1>1, <1>2

LEMMA MergeOutClustersIs ==
    ASSUME NEW N \in Nat, NEW b, Good(b, N), b.have_output,
           NEW start \in 0 .. b.out_len, NEW end \in 0 .. b.out_len
    PROVE  Good(MergeOutClusters(b, start, end), N) /\ Kept(b, MergeOutClusters(b, start, end))
<1>1. CASE end - start < 2
  BY <1>1 DEF MergeOutClusters, Kept, Same
<1>2. CASE ~(end - start < 2)
  <2>1. b.out_len \in Nat /\ start \in Nat /\ end \in Nat /\ 0 <= start /\ end <= b.out_len
    BY DEF Good, IsBuf
  <2>2. Run(Out(b), start, end, 0, b.out_len - 1) \in SUBSET (0 .. b.out_len - 1)
    BY <1>2, <2>1, RunIs
  <2>3. Least(Out(b), start, end) \in Nat
    <3>1. \A k \in start .. end - 1 : k \in 0 .. b.out_len - 1
      BY <2>1
    <3>. QED
      BY <1>2, <2>1, <3>1, LeastIs DEF Good
  <2>4. PICK ins \in SUBSET (b.idx .. b.len - 1) :
          MergeOutClusters(b, start, end) =
            Clustered(b, ins, Run(Out(b), start, end, 0, b.out_len - 1), Least(Out(b), start, end))
    BY <1>2, Zenon DEF MergeOutClusters
  <2>. QED
    BY <2>2, <2>3, <2>4, ClusteredIs
<1>. QED
  BY <1>1, <1>2
-----------------------------------------------------------------------------
(***************************************************************************)
(* What lookups do with the cursor in a pass with an output.               *)
(***************************************************************************)
LEMMA LikeGlyphs ==
    ASSUME NEW glyph \in Glyph, NEW n \in Nat, NEW codes, DOMAIN codes = 1 .. n,
           \A i \in 1 .. n : codes[i] \in Codes
    PROVE  Len(Like(glyph, codes)) = n /\ \A i \in 1 .. n : Like(glyph, codes)[i] \in Glyph
<1>1. \A i \in 1 .. n : [glyph EXCEPT !.code = codes[i]] \in Glyph
  BY DEF Glyph
<1>2. Like(glyph, codes) = [k \in 1 .. n |-> [glyph EXCEPT !.code = codes[k]]]
  BY DEF Like
<1>. QED
  BY <1>1, <1>2

\* Merging clusters leaves the room that was made.
LEMMA RoomIsKept ==
    ASSUME NEW b, NEW m \in Nat, NEW n \in Nat, NEW d, Room(b, m, n, d),
           NEW start \in d.idx .. d.len, NEW end \in d.idx .. d.len
    PROVE  /\ Room(b, m, n, MergeClusters(d, start, end))
           /\ Kept(d, MergeClusters(d, start, end))
<1>1. PICK M \in Nat : Ready(b, d, M, m, n) /\ d.have_output
  BY DEF Room
<1> DEFINE e == MergeClusters(d, start, end)
<1>2. Good(e, M) /\ Kept(d, e)
  BY <1>1, MergeClustersIs DEF Ready
<1> HIDE DEF e
<1>3. Ready(b, e, M, m, n) /\ e.have_output
  BY <1>1, <1>2 DEF Ready, Kept, Same
<1>. QED
  BY <1>2, <1>3 DEF Room, e

\* The glyph at the cursor, and where it is.
LEMMA AtCursor ==
    ASSUME NEW N \in Nat, NEW d, Good(d, N), d.idx < d.len
    PROVE  /\ d.info[d.idx] \in Glyph /\ d.idx \in d.idx .. d.len
           /\ \A n \in Nat : d.idx + n <= d.len => d.idx + n \in d.idx .. d.len
<1>1. d.idx \in Nat /\ d.len \in Nat
  BY DEF Good, IsBuf
<1>2. d.idx \in d.idx .. d.len - 1
  BY <1>1
<1>. QED
  BY <1>1, <1>2 DEF Good

LEMMA ReplaceGlyphsGood ==
    ASSUME NEW N \in Nat, NEW b, Good(b, N), b.have_output, NEW n \in Nat \ {0}, b.idx + n <= b.len,
           NEW l \in Nat, NEW codes, DOMAIN codes = 1 .. l, Len(codes) = l,
           \A i \in 1 .. l : codes[i] \in Codes,
           NEW c \in ReplaceGlyphs(b, n, codes)
    PROVE  Fine(c)
<1> DEFINE Merged(d) == MergeClusters(d, d.idx, d.idx + n)
           Done(d) == Advance(Write(Merged(d), Merged(d).out_len,
                                    Like(Merged(d).info[Merged(d).idx], codes)), n, Len(codes))
<1>1. PICK e \in Ensured(b, b.out_len + l) :
         c = IF Enough(e, b.out_len + l) THEN Done(Separated(e, n, l)) ELSE e
  BY DEF ReplaceGlyphs, WithRoom
<1>2. Fine(e) /\ (Enough(e, b.out_len + l) => Room(b, n, l, Separated(e, n, l)))
  BY RoomFor
<1>3. ASSUME NEW d, Room(b, n, l, d) PROVE Fine(Done(d))
  <2>1. PICK M \in Nat : Good(d, M) /\ d.idx = b.idx /\ d.len = b.len
    BY <1>3 DEF Room, Ready, Same
  <2>2. d.idx < d.len /\ d.idx + n <= d.len
    BY <2>1 DEF Good, IsBuf
  <2>3. d.idx \in d.idx .. d.len /\ d.idx + n \in d.idx .. d.len
    BY <2>1, <2>2, AtCursor
  <2> DEFINE f == Merged(d)
  <2>4. Room(b, n, l, f) /\ Kept(d, f)
    BY <1>3, <2>3, RoomIsKept
  <2> HIDE DEF f
  <2>5. PICK P \in Nat : Good(f, P) /\ f.idx = d.idx /\ f.len = d.len
    BY <2>4 DEF Room, Ready, Kept, Same
  <2>6. f.info[f.idx] \in Glyph
    BY <2>2, <2>5, AtCursor
  <2>7. Len(Like(f.info[f.idx], codes)) = l /\ \A i \in 1 .. l : Like(f.info[f.idx], codes)[i] \in Glyph
    BY <2>6, LikeGlyphs
  <2>8. Fine(Advance(Write(f, f.out_len, Like(f.info[f.idx], codes)), n, l))
    BY <2>2, <2>4, <2>5, <2>7, PutOut
  <2>. QED
    BY <2>8 DEF f
<1> HIDE DEF Done
<1>. QED
  BY <1>1, <1>2, <1>3

LEMMA ReplaceGlyphGood ==
    ASSUME NEW N \in Nat, NEW b, Good(b, N), b.have_output, b.idx < b.len, NEW code \in Codes,
           NEW c \in ReplaceGlyph(b, code)
    PROVE  Fine(c)
<1> DEFINE Done(d) == Advance(Write(d, d.out_len, Like(d.info[d.idx], <<code>>)), 1, 1)
<1>1. ASSUME NEW d, Room(b, 1, 1, d) PROVE Fine(Done(d))
  <2>1. PICK M \in Nat : Good(d, M) /\ d.idx = b.idx /\ d.len = b.len
    BY <1>1 DEF Room, Ready, Same
  <2>2. d.idx < d.len /\ d.idx + 1 <= d.len
    BY <2>1 DEF Good, IsBuf
  <2>3. d.info[d.idx] \in Glyph
    BY <2>1, <2>2, AtCursor
  <2>4. DOMAIN <<code>> = 1 .. 1 /\ \A i \in 1 .. 1 : <<code>>[i] \in Codes
    OBVIOUS
  <2>5. Len(Like(d.info[d.idx], <<code>>)) = 1 /\ \A i \in 1 .. 1 : Like(d.info[d.idx], <<code>>)[i] \in Glyph
    BY <2>3, <2>4, LikeGlyphs
  <2>. QED
    BY <1>1, <2>2, <2>5, PutOut
<1>2. CASE b.separate \/ b.out_len # b.idx
  <2>1. PICK e \in Ensured(b, b.out_len + 1) :
           c = IF Enough(e, b.out_len + 1) THEN Done(Separated(e, 1, 1)) ELSE e
    BY <1>2 DEF ReplaceGlyph, WithRoom
  <2>2. Fine(e) /\ (Enough(e, b.out_len + 1) => Room(b, 1, 1, Separated(e, 1, 1)))
    BY RoomFor
  <2> HIDE DEF Done
  <2>. QED
    BY <1>1, <2>1, <2>2
<1>3. CASE ~(b.separate \/ b.out_len # b.idx)
  <2>1. c = Done(b)
    BY <1>3 DEF ReplaceGlyph
  <2>2. Ready(b, b, N, 1, 1)
    BY <1>3 DEF Ready, Good, IsBuf, Same
  <2>3. Room(b, 1, 1, b)
    BY <2>2 DEF Room
  <2> HIDE DEF Done
  <2>. QED
    BY <1>1, <2>1, <2>3
<1>. QED
  BY <1>2, <1>3

LEMMA OutputGlyphGood ==
    ASSUME NEW N \in Nat, NEW b, Good(b, N), b.have_output, NEW code \in Codes,
           NEW c \in OutputGlyph(b, code)
    PROVE  Fine(c)
<1> DEFINE From(d) == IF d.idx < d.len THEN d.info[d.idx] ELSE Out(d)[d.out_len - 1]
           Done(d) == IF d.idx = d.len /\ d.out_len = 0 THEN d
                      ELSE Advance(Write(d, d.out_len, Like(From(d), <<code>>)), 0, 1)
<1>1. ASSUME NEW d, Room(b, 0, 1, d) PROVE Fine(Done(d))
  <2>1. PICK M \in Nat : Good(d, M) /\ d.have_output
    BY <1>1 DEF Room, Ready
  <2>2. d.idx \in Nat /\ d.len \in Nat /\ d.out_len \in Nat /\ d.idx <= d.len /\ d.idx + 0 <= d.len
    BY <2>1 DEF Good, IsBuf
  <2>3. CASE d.idx = d.len /\ d.out_len = 0
    BY <2>1, <2>3 DEF Fine
  <2>4. CASE ~(d.idx = d.len /\ d.out_len = 0)
    <3>1. From(d) \in Glyph
      <4>1. CASE d.idx < d.len
        BY <2>1, <4>1, AtCursor
      <4>2. CASE ~(d.idx < d.len)
        <5>1. d.out_len - 1 \in 0 .. d.out_len - 1
          BY <2>2, <2>4, <4>2
        <5>. QED
          BY <2>1, <4>2, <5>1 DEF Good
      <4>. QED
        BY <4>1, <4>2
    <3> HIDE DEF From
    <3>2. DOMAIN <<code>> = 1 .. 1 /\ \A i \in 1 .. 1 : <<code>>[i] \in Codes
      OBVIOUS
    <3>3. Len(Like(From(d), <<code>>)) = 1 /\ \A i \in 1 .. 1 : Like(From(d), <<code>>)[i] \in Glyph
      BY <3>1, <3>2, LikeGlyphs
    <3>4. Fine(Advance(Write(d, d.out_len, Like(From(d), <<code>>)), 0, 1))
      BY <1>1, <2>2, <3>3, PutOut
    <3>. QED
      BY <2>4, <3>4
  <2>. QED
    BY <2>3, <2>4
<1>2. PICK e \in Ensured(b, b.out_len + 1) :
         c = IF Enough(e, b.out_len + 1) THEN Done(Separated(e, 0, 1)) ELSE e
  BY DEF OutputGlyph, WithRoom
<1>3. Fine(e) /\ (Enough(e, b.out_len + 1) => Room(b, 0, 1, Separated(e, 0, 1)))
  BY RoomFor
<1> HIDE DEF Done
<1>. QED
  BY <1>1, <1>2, <1>3

\* A glyph that is put out leaves the input where it is.
LEMMA OutputGlyphStays ==
    ASSUME NEW N \in Nat, NEW b, Good(b, N), b.have_output, NEW code \in Codes,
           NEW c \in OutputGlyph(b, code)
    PROVE  c.idx = b.idx /\ c.len = b.len
<1> DEFINE From(d) == IF d.idx < d.len THEN d.info[d.idx] ELSE Out(d)[d.out_len - 1]
           Done(d) == IF d.idx = d.len /\ d.out_len = 0 THEN d
                      ELSE Advance(Write(d, d.out_len, Like(From(d), <<code>>)), 0, 1)
<1>1. ASSUME NEW d, Room(b, 0, 1, d), NEW list
      PROVE  /\ Advance(Write(d, d.out_len, list), 0, 1).idx = b.idx
             /\ Advance(Write(d, d.out_len, list), 0, 1).len = b.len
  <2>1. PICK M \in Nat : IsBuf(d, M) /\ Same(b, d)
    BY <1>1 DEF Room, Ready, Good
  <2> DEFINE w == Write(d, d.out_len, list)
  <2>2. w.idx = d.idx /\ w.len = d.len /\ d.idx \in Nat
        /\ DOMAIN w = {"info", "pos", "separate", "idx", "len", "out_len", "have_output", "successful"}
    BY <2>1 DEF IsBuf, Write
  <2> HIDE DEF w
  <2>3. Advance(w, 0, 1).idx = w.idx + 0 /\ Advance(w, 0, 1).len = w.len
    BY <2>2 DEF Advance
  <2>. QED
    BY <2>1, <2>2, <2>3 DEF Same, w
<1>2. ASSUME NEW d, Room(b, 0, 1, d) PROVE Done(d).idx = b.idx /\ Done(d).len = b.len
  <2>1. d.idx = b.idx /\ d.len = b.len
    BY <1>2 DEF Room, Ready, Same
  <2>. QED
    BY <1>1, <1>2, <2>1
<1>3. PICK e \in Ensured(b, b.out_len + 1) :
         c = IF Enough(e, b.out_len + 1) THEN Done(Separated(e, 0, 1)) ELSE e
  BY DEF OutputGlyph, WithRoom
<1>4. b.out_len + 1 \in Nat
  BY DEF Good, IsBuf
<1>5. e.idx = b.idx /\ e.len = b.len
  BY <1>4, EnsuredIs DEF Same
<1>6. Enough(e, b.out_len + 1) => Room(b, 0, 1, Separated(e, 0, 1))
  BY RoomFor
<1> HIDE DEF Done
<1>. QED
  BY <1>2, <1>3, <1>5, <1>6

LEMMA CopyGlyphGood ==
    ASSUME NEW N \in Nat, NEW b, Good(b, N), b.have_output, b.idx < b.len, NEW c \in CopyGlyph(b)
    PROVE  Fine(c)
<1> DEFINE Done(d) == Advance(Write(d, d.out_len, <<d.info[d.idx]>>), 0, 1)
<1>1. ASSUME NEW d, Room(b, 0, 1, d) PROVE Fine(Done(d))
  <2>1. PICK M \in Nat : Good(d, M) /\ d.idx = b.idx /\ d.len = b.len
    BY <1>1 DEF Room, Ready, Same
  <2>2. d.idx < d.len /\ d.idx + 0 <= d.len
    BY <2>1 DEF Good, IsBuf
  <2>3. d.info[d.idx] \in Glyph
    BY <2>1, <2>2, AtCursor
  <2>4. Len(<<d.info[d.idx]>>) = 1 /\ \A i \in 1 .. 1 : <<d.info[d.idx]>>[i] \in Glyph
    BY <2>3
  <2>. QED
    BY <1>1, <2>2, <2>4, PutOut
<1>2. PICK e \in Ensured(b, b.out_len + 1) :
         c = IF Enough(e, b.out_len + 1) THEN Done(Separated(e, 0, 1)) ELSE e
  BY DEF CopyGlyph, WithRoom
<1>3. Fine(e) /\ (Enough(e, b.out_len + 1) => Room(b, 0, 1, Separated(e, 0, 1)))
  BY RoomFor
<1> HIDE DEF Done
<1>. QED
  BY <1>1, <1>2, <1>3

LEMMA DeleteGlyphGood ==
    ASSUME NEW N \in Nat, NEW b, Good(b, N), b.have_output, b.idx < b.len
    PROVE  Fine(DeleteGlyph(b))
<1>1. /\ b.idx \in Nat /\ b.len \in Nat /\ b.out_len \in Nat /\ IsBuf(b, N)
      /\ b.info[b.idx].cluster \in Nat
  <2>1. b.info[b.idx] \in Glyph
    BY AtCursor
  <2>. QED
    BY <2>1 DEF Good, IsBuf, Glyph
<1>2. ASSUME NEW m, Good(m, N), Kept(b, m) PROVE Fine(Advance(m, 1, 0))
  <2> DEFINE a == Advance(m, 1, 0)
  <2>1. IsBuf(m, N) /\ m.idx + 1 <= m.len /\ m.out_len + 0 <= N
    BY <1>1, <1>2 DEF Good, IsBuf, Kept, Same
  <2>2. IsBuf(a, N) /\ Advanced(m, a, 1, 0)
    BY <2>1, AdvanceIs
  <2> HIDE DEF a
  <2>3. a.idx = m.idx + 1 /\ a.out_len = m.out_len /\ Out(a) = Out(m)
    BY <2>1, <2>2 DEF Advanced, IsBuf, Out
  <2>4. m.have_output /\ m.idx \in Nat /\ m.out_len \in Nat /\ m.len \in Nat
    BY <1>2, <2>1 DEF Kept, Same, IsBuf
  <2>5. \A k \in a.idx .. a.len - 1 : a.info[k] \in Glyph
    BY <1>2, <2>2, <2>3, <2>4 DEF Advanced, Good
  <2>6. Good(a, N) /\ a.have_output
    BY <1>2, <2>2, <2>3, <2>4, <2>5 DEF Advanced, Good
  <2>. QED
    BY <2>6 DEF Fine, a
<1>3. \/ DeleteGlyph(b) = Advance(b, 1, 0)
      \/ \E outs \in SUBSET (0 .. b.out_len - 1) :
           DeleteGlyph(b) = Advance(Clustered(b, {}, outs, b.info[b.idx].cluster), 1, 0)
      \/ b.idx + 1 < b.len /\ DeleteGlyph(b) = Advance(MergeClusters(b, b.idx, b.idx + 2), 1, 0)
  BY DEF DeleteGlyph
<1>4. CASE DeleteGlyph(b) = Advance(b, 1, 0)
  BY <1>2, <1>4 DEF Kept, Same
<1>5. ASSUME NEW outs \in SUBSET (0 .. b.out_len - 1),
             DeleteGlyph(b) = Advance(Clustered(b, {}, outs, b.info[b.idx].cluster), 1, 0)
      PROVE  Fine(DeleteGlyph(b))
  <2>1. {} \in SUBSET (b.idx .. b.len - 1)
    OBVIOUS
  <2>. QED
    BY <1>1, <1>2, <1>5, <2>1, ClusteredIs
<1>6. CASE b.idx + 1 < b.len /\ DeleteGlyph(b) = Advance(MergeClusters(b, b.idx, b.idx + 2), 1, 0)
  <2>1. b.idx \in b.idx .. b.len /\ b.idx + 2 \in b.idx .. b.len
    BY <1>1, <1>6
  <2>. QED
    BY <1>2, <1>6, <2>1, MergeClustersIs
<1>. QED
  BY <1>3, <1>4, <1>5, <1>6

\* Going back, with the glyphs that the output gives up.
Back(c, count) ==
    [c EXCEPT !.idx = c.idx - count, !.out_len = c.out_len - count,
              !.info = Fill(c.info, c.idx - count, Part(Out(c), c.out_len - count, c.out_len))]

LEMMA BackIsFine ==
    ASSUME NEW N \in Nat, NEW c, Good(c, N), c.have_output, NEW count \in Nat,
           count <= c.idx, count <= c.out_len
    PROVE  Fine(Back(c, count))
<1>1. /\ IsBuf(c, N) /\ c.info \in Mem(N) /\ c.out_len - count \in Nat /\ c.idx - count \in Nat
      /\ c.out_len - count + count = c.out_len
  BY DEF Good, IsBuf
<1> DEFINE from == c.out_len - count
           list == Part(Out(c), from, from + count)
           at == c.idx - count
           info == Fill(c.info, at, list)
           d == Back(c, count)
<1>2. Len(list) = count /\ \A i \in 1 .. count : list[i] \in Glyph
  <2>1. \A k \in from .. from + count - 1 : Out(c)[k] \in Glyph
    BY <1>1 DEF Good, IsBuf
  <2>. QED
    BY <1>1, <2>1, PartGlyphs
<1>3. d = [c EXCEPT !.idx = at, !.out_len = from, !.info = info]
  BY <1>1 DEF Back
<1> HIDE DEF list
<1>4. Written(c.info, info, N, at, count)
  BY <1>1, <1>2, FillGlyphs
<1>5. at \in Nat /\ from \in Nat /\ at = c.idx - count /\ from = c.out_len - count
  BY <1>1
<1> HIDE DEF info, at, from, d
<1>6. /\ d.idx = at /\ d.out_len = from /\ d.info = info /\ d.pos = c.pos /\ d.len = c.len
      /\ d.have_output = c.have_output /\ d.separate = c.separate /\ IsBuf(d, N)
  <2>1. /\ d.idx = at /\ d.out_len = from /\ d.info = info /\ d.pos = c.pos /\ d.len = c.len
        /\ d.have_output = c.have_output /\ d.separate = c.separate
    BY <1>1, <1>3 DEF IsBuf
  <2>2. d \in [info : Mem(N), pos : Mem(N), separate : BOOLEAN, idx : Nat, len : Nat,
               out_len : Nat, have_output : BOOLEAN, successful : BOOLEAN]
    BY <1>1, <1>3, <1>4, <1>5 DEF IsBuf, Written
  <2>. QED
    BY <1>1, <1>5, <2>1, <2>2 DEF IsBuf
<1>7. ASSUME NEW k \in d.idx .. d.len - 1 PROVE d.info[k] \in Glyph
  <2>1. k \in 0 .. N - 1 /\ at <= k /\ (k < at + count \/ k \in c.idx .. c.len - 1)
    BY <1>1, <1>5, <1>6 DEF IsBuf
  <2>. QED
    BY <1>4, <1>6, <2>1 DEF Written, Good
<1>8. ASSUME NEW k \in 0 .. d.out_len - 1 PROVE Out(d)[k] \in Glyph
  <2>1. k \in 0 .. N - 1 /\ k \in 0 .. c.out_len - 1
    BY <1>1, <1>5, <1>6 DEF IsBuf
  <2>2. Out(c)[k] \in Glyph
    BY <2>1 DEF Good
  <2>3. CASE d.separate
    BY <1>6, <2>2, <2>3 DEF Out
  <2>4. CASE ~d.separate
    BY <1>4, <1>6, <2>1, <2>2, <2>4 DEF Out, Written
  <2>. QED
    BY <2>3, <2>4
<1>9. ~d.separate => d.out_len <= d.idx
  BY <1>1, <1>5, <1>6 DEF Good, IsBuf
<1>10. Good(d, N)
  BY <1>6, <1>7, <1>8, <1>9 DEF Good
<1>. QED
  BY <1>6, <1>10 DEF Fine, d

\* The input moves to make room before it; a gap is left if it is shorter than the way.
LEMMA ShiftedIs ==
    ASSUME NEW N \in Nat, NEW c, Good(c, N), c.have_output, NEW count \in Nat, c.len + count <= N
    PROVE  /\ Good(Shifted(c, count), N) /\ Shifted(c, count).have_output
           /\ Shifted(c, count).idx = c.idx + count /\ Shifted(c, count).out_len = c.out_len
<1>1. /\ IsBuf(c, N) /\ c.info \in Mem(N) /\ c.idx \in Nat /\ c.len \in Nat /\ c.idx <= c.len
      /\ c.len - c.idx \in Nat /\ c.idx + (c.len - c.idx) = c.len
  BY DEF Good, IsBuf
<1> DEFINE n == c.len - c.idx
           g == Max({0, c.idx + count - c.len})
           rest == Part(c.info, c.idx, c.idx + n)
           gap == [k \in 1 .. g |-> Junk]
           half == Fill(c.info, c.len, gap)
           info == Fill(half, c.idx + count, rest)
           d == Shifted(c, count)
<1>2. g \in Nat /\ (g = 0 \/ g = c.idx + count - c.len)
  <2>1. c.idx + count - c.len \in Int
    BY <1>1
  <2> DEFINE x == c.idx + count - c.len
  <2>2. \E m \in {0, x} : \A y \in {0, x} : m >= y
    <3>1. CASE x >= 0
      BY <2>1, <3>1
    <3>2. CASE ~(x >= 0)
      BY <2>1, <3>2
    <3>. QED
      BY <3>1, <3>2
  <2>3. Max({0, x}) \in {0, x} /\ \A y \in {0, x} : Max({0, x}) >= y
    BY <2>2 DEF Max
  <2>. QED
    BY <2>1, <2>3
<1>3. d = [c EXCEPT !.info = info, !.len = c.len + count, !.idx = c.idx + count]
  BY <1>1 DEF Shifted
<1>4. n \in Nat /\ n = c.len - c.idx
  BY <1>1
<1>5. Len(rest) = n /\ \A i \in 1 .. n : rest[i] \in Glyph
  <2>1. \A k \in c.idx .. c.idx + n - 1 : c.info[k] \in Glyph
    BY <1>1 DEF Good
  <2>. QED
    BY <1>1, <2>1, PartGlyphs
<1> HIDE DEF g, n, rest
<1>6. Len(gap) = g /\ \A i \in 1 .. g : gap[i] \in Glyph \union {Junk}
  BY <1>2
<1> HIDE DEF gap
<1>7. half \in Mem(N) /\ \A k \in 0 .. N - 1 : k < c.len => half[k] = c.info[k]
  <2>1. Filled(c.info, half, N, c.len)
    BY <1>1, <1>2, <1>6, FillKeeps, Zenon
  <2>. QED
    BY <2>1 DEF Filled
<1> HIDE DEF half
<1>8. Written(half, info, N, c.idx + count, n)
  <2>1. c.idx + count \in Nat /\ n \in Nat /\ half \in Mem(N)
    BY <1>1, <1>4, <1>7
  <2>. QED
    BY <1>5, <2>1, FillGlyphs, Zenon
<1> HIDE DEF info, d
<1>9. /\ d.idx = c.idx + count /\ d.len = c.len + count /\ d.out_len = c.out_len /\ d.info = info
      /\ d.pos = c.pos /\ d.have_output = c.have_output /\ d.separate = c.separate /\ IsBuf(d, N)
  <2>1. /\ d.idx = c.idx + count /\ d.len = c.len + count /\ d.out_len = c.out_len /\ d.info = info
        /\ d.pos = c.pos /\ d.have_output = c.have_output /\ d.separate = c.separate
    BY <1>1, <1>3 DEF IsBuf
  <2>2. d \in [info : Mem(N), pos : Mem(N), separate : BOOLEAN, idx : Nat, len : Nat,
               out_len : Nat, have_output : BOOLEAN, successful : BOOLEAN]
    <3>1. info \in Mem(N) /\ c.idx + count \in Nat /\ c.len + count \in Nat
      BY <1>1, <1>8 DEF Written
    <3>. QED
      BY <1>1, <1>3, <3>1 DEF IsBuf
  <2>3. d.idx <= d.len /\ d.len <= N /\ d.out_len <= N
    BY <1>1, <2>1 DEF IsBuf
  <2>. QED
    BY <2>1, <2>2, <2>3 DEF IsBuf
<1>10. ASSUME NEW k \in d.idx .. d.len - 1 PROVE d.info[k] \in Glyph
  <2>1. k \in 0 .. N - 1 /\ c.idx + count <= k /\ k < c.idx + count + n
    BY <1>1, <1>4, <1>9 DEF IsBuf
  <2>. QED
    BY <1>8, <1>9, <2>1 DEF Written
<1>11. ASSUME NEW k \in 0 .. d.out_len - 1 PROVE Out(d)[k] \in Glyph
  <2>1. k \in 0 .. N - 1 /\ k \in 0 .. c.out_len - 1
    BY <1>1, <1>9 DEF IsBuf
  <2>2. Out(c)[k] \in Glyph
    BY <2>1 DEF Good
  <2>3. CASE d.separate
    BY <1>9, <2>2, <2>3 DEF Out
  <2>4. CASE ~d.separate
    <3>1. k < c.len
      BY <1>1, <1>9, <2>1, <2>4 DEF Good, IsBuf
    <3>. QED
      BY <1>7, <1>8, <1>9, <2>1, <2>2, <2>4, <3>1 DEF Out, Written
  <2>. QED
    BY <2>3, <2>4
<1>12. ~d.separate => d.out_len <= d.idx
  BY <1>1, <1>9 DEF Good, IsBuf
<1>13. Good(d, N)
  BY <1>9, <1>10, <1>11, <1>12 DEF Good
<1>. QED
  BY <1>9, <1>13 DEF d

LEMMA RewindGood ==
    ASSUME NEW N \in Nat, NEW b, Good(b, N), b.have_output, NEW count \in Nat, count <= b.out_len,
           NEW c \in Rewind(b, count)
    PROVE  Fine(c)
<1>1. b.idx \in Nat /\ b.len \in Nat /\ b.out_len \in Nat
  BY DEF Good, IsBuf
<1>2. CASE b.idx >= count
  <2>1. c = Back(b, count)
    BY <1>2 DEF Rewind, Back
  <2>. QED
    BY <1>1, <1>2, <2>1, BackIsFine
<1>3. CASE ~(b.idx >= count)
  <2>1. PICK e \in Ensured(b, b.len + count) :
          c = IF Enough(e, b.len + count) THEN Back(Shifted(e, count), count) ELSE e
    BY <1>3 DEF Rewind, Back
  <2>2. b.len + count \in Nat
    BY <1>1
  <2>3. PICK M \in Nat : /\ Good(e, M) /\ Same(b, e)
                         /\ Enough(e, b.len + count) => b.len + count <= M
    BY <2>2, EnsuredIs
  <2>4. CASE Enough(e, b.len + count)
    <3>1. Good(e, M) /\ e.have_output /\ e.len + count <= M /\ count <= e.out_len /\ e.idx \in Nat
      BY <1>1, <2>3, <2>4 DEF Same
    <3> DEFINE s == Shifted(e, count)
    <3>2. Good(s, M) /\ s.have_output /\ s.idx = e.idx + count /\ s.out_len = e.out_len
      BY <3>1, ShiftedIs
    <3> HIDE DEF s
    <3>3. count <= s.idx /\ count <= s.out_len
      BY <3>1, <3>2
    <3>4. Fine(Back(s, count))
      BY <3>2, <3>3, BackIsFine
    <3>. QED
      BY <2>1, <2>4, <3>4 DEF s
  <2>5. CASE ~Enough(e, b.len + count)
    BY <2>1, <2>3, <2>5 DEF Fine, Same
  <2>. QED
    BY <2>4, <2>5
<1>. QED
  BY <1>2, <1>3

LEMMA MoveToGood ==
    ASSUME NEW N \in Nat, NEW b, Good(b, N),
           NEW i \in Nat, i <= (IF b.have_output THEN b.out_len + (b.len - b.idx) ELSE b.len),
           NEW c \in MoveTo(b, i)
    PROVE  \E M \in Nat : Good(c, M)
<1>1. IsBuf(b, N) /\ b.idx \in Nat /\ b.len \in Nat /\ b.out_len \in Nat
  BY DEF Good, IsBuf
<1>2. CASE ~b.have_output
  <2>1. c = [b EXCEPT !.idx = i]
    BY <1>2 DEF MoveTo
  <2>2. i <= b.len
    BY <1>2
  <2>3. IsBuf(c, N) /\ Out(c) = Out(b) /\ c.idx = i /\ c.len = b.len /\ c.info = b.info
        /\ c.out_len = b.out_len /\ c.have_output = b.have_output /\ c.separate = b.separate
    BY <1>1, <2>1, <2>2 DEF IsBuf, Out
  <2>4. \A k \in i .. b.len - 1 : k \in 0 .. b.len - 1
    BY <1>1
  <2>5. Good(c, N)
    BY <1>2, <2>3, <2>4 DEF Good
  <2>. QED
    BY <2>5
<1>3. CASE b.have_output /\ (~b.successful \/ i = b.out_len)
  <2>1. (~(i - b.out_len > 0) /\ ~(i - b.out_len < 0)) \/ ~b.successful
    BY <1>1, <1>3
  <2>2. c = b
    BY <1>3, <2>1 DEF MoveTo
  <2>. QED
    BY <2>2
<1>4. CASE b.have_output /\ b.successful /\ i > b.out_len
  <2> DEFINE count == i - b.out_len
             Done(d) == Advance(Write(d, d.out_len, Part(d.info, d.idx, d.idx + count)), count, count)
  <2>1. count \in Nat /\ count > 0 /\ b.idx + count <= b.len
    BY <1>1, <1>4
  <2>2. PICK e \in Ensured(b, b.out_len + count) :
          c = IF Enough(e, b.out_len + count) THEN Done(Separated(e, count, count)) ELSE e
    BY <1>4, <2>1 DEF MoveTo, WithRoom
  <2> HIDE DEF count
  <2>3. Fine(e) /\ (Enough(e, b.out_len + count) => Room(b, count, count, Separated(e, count, count)))
    BY <1>4, <2>1, RoomFor
  <2>4. ASSUME NEW d, Room(b, count, count, d) PROVE Fine(Done(d))
    <3>1. d.idx = b.idx /\ d.len = b.len
      BY <2>4 DEF Room, Ready, Same
    <3>. QED
      BY <2>1, <2>4, <3>1, CopyOut
  <2> HIDE DEF Done
  <2>5. Fine(c)
    BY <2>2, <2>3, <2>4
  <2>. QED
    BY <2>5 DEF Fine
<1>5. CASE b.have_output /\ b.successful /\ i < b.out_len
  <2>1. /\ i - b.out_len < 0 /\ ~(i - b.out_len > 0)
        /\ 0 - (i - b.out_len) \in Nat /\ 0 - (i - b.out_len) <= b.out_len
    BY <1>1, <1>5
  <2>2. c \in Rewind(b, 0 - (i - b.out_len))
    BY <1>5, <2>1 DEF MoveTo
  <2>3. Fine(c)
    BY <1>5, <2>1, <2>2, RewindGood
  <2>. QED
    BY <2>3 DEF Fine
<1>. QED
  BY <1>1, <1>2, <1>3, <1>4, <1>5

Swapped(c) ==
    [c EXCEPT !.have_output = FALSE, !.separate = FALSE, !.idx = 0, !.info = Out(c),
              !.pos = IF c.separate THEN c.info ELSE c.pos, !.len = c.out_len, !.out_len = 0]

LEMMA SwappedIsGood ==
    ASSUME NEW N \in Nat, NEW c, Good(c, N), c.have_output
    PROVE  Good(Swapped(c), N)
<1> DEFINE d == Swapped(c)
           info == Out(c)
           pos == IF c.separate THEN c.info ELSE c.pos
<1>1. IsBuf(c, N) /\ info \in Mem(N) /\ pos \in Mem(N) /\ c.out_len \in Nat /\ c.out_len <= N
  BY DEF Good, IsBuf, Out
<1>2. \A k \in 0 .. c.out_len - 1 : info[k] \in Glyph
  BY DEF Good
<1>3. d = [c EXCEPT !.have_output = FALSE, !.separate = FALSE, !.idx = 0, !.info = info,
                    !.pos = pos, !.len = c.out_len, !.out_len = 0]
  BY DEF Swapped
<1> HIDE DEF d, info, pos
<1>4. /\ d.have_output = FALSE /\ d.separate = FALSE /\ d.idx = 0 /\ d.info = info /\ d.pos = pos
      /\ d.len = c.out_len /\ d.out_len = 0
  BY <1>1, <1>3 DEF IsBuf
<1>5. d \in [info : Mem(N), pos : Mem(N), separate : BOOLEAN, idx : Nat, len : Nat,
             out_len : Nat, have_output : BOOLEAN, successful : BOOLEAN]
  BY <1>1, <1>3 DEF IsBuf
<1>6. Good(d, N)
  BY <1>1, <1>2, <1>4, <1>5 DEF Good, IsBuf
<1>. QED
  BY <1>6 DEF d

LEMMA SwapBuffersGood ==
    ASSUME NEW N \in Nat, NEW b, Good(b, N), b.have_output, NEW c \in SwapBuffers(b)
    PROVE  \E M \in Nat : Good(c, M)
<1>1. CASE ~b.successful
  BY <1>1 DEF SwapBuffers
<1>2. CASE b.successful
  <2>1. PICK e \in NextGlyphs(b, b.len - b.idx) : c = Swapped(e)
    BY <1>2 DEF SwapBuffers, Swapped
  <2>2. b.len - b.idx \in Nat /\ b.idx + (b.len - b.idx) <= b.len
    BY DEF Good, IsBuf
  <2>3. Fine(e)
    BY <2>2, NextGlyphsGood
  <2>. QED
    BY <2>1, <2>3, SwappedIsGood DEF Fine
<1>. QED
  BY <1>1, <1>2
-----------------------------------------------------------------------------
(***************************************************************************)
(* The invariant, and that every use of the buffer keeps it.               *)
(***************************************************************************)
IsGood(b) == \E N \in Nat : Good(b, N)
InUse(b) == {k \in DOMAIN b.info :
               \/ k \in b.idx .. b.len - 1
               \/ ~b.have_output /\ k < b.len
               \/ b.have_output /\ ~b.separate /\ k < b.out_len}

LEMMA TidyKeeps ==
    ASSUME NEW b, IsGood(b) PROVE IsGood(Tidy(b))
<1>1. PICK N \in Nat : Good(b, N)
  BY DEF IsGood
<1>2. IsBuf(b, N) /\ DOMAIN b.info = 0 .. N - 1 /\ DOMAIN b.pos = 0 .. N - 1
  BY <1>1, CellsOf DEF Good
<1> DEFINE used == InUse(b)
           info == [k \in 0 .. N - 1 |-> IF k \in used THEN b.info[k] ELSE Junk]
           pos == [k \in 0 .. N - 1 |-> IF b.have_output /\ b.separate /\ k < b.out_len
                                        THEN b.pos[k] ELSE Junk]
           d == Tidy(b)
<1>3. d = [b EXCEPT !.info = info, !.pos = pos]
  BY <1>2 DEF Tidy, InUse
<1>4. info \in Mem(N) /\ pos \in Mem(N)
  BY <1>2 DEF IsBuf, Mem
<1>5. /\ \A k \in 0 .. N - 1 : k \in used => info[k] = b.info[k]
      /\ \A k \in 0 .. N - 1 : b.have_output /\ b.separate /\ k < b.out_len => pos[k] = b.pos[k]
  OBVIOUS
<1> HIDE DEF info, pos, d
<1>6. /\ IsBuf(d, N) /\ d.info = info /\ d.pos = pos
      /\ d.idx = b.idx /\ d.len = b.len /\ d.out_len = b.out_len /\ d.have_output = b.have_output
      /\ d.separate = b.separate
  BY <1>2, <1>3, <1>4 DEF IsBuf
<1>7. \A k \in b.idx .. b.len - 1 : info[k] \in Glyph
  <2>1. \A k \in b.idx .. b.len - 1 : k \in 0 .. N - 1 /\ k \in used
    BY <1>2 DEF IsBuf, InUse
  <2>. QED
    BY <1>1, <1>5, <2>1 DEF Good
<1>8. ~b.have_output => \A k \in 0 .. b.len - 1 : info[k] \in Glyph
  <2>1. ~b.have_output => \A k \in 0 .. b.len - 1 : k \in 0 .. N - 1 /\ k \in used
    BY <1>2 DEF IsBuf, InUse
  <2>. QED
    BY <1>1, <1>5, <2>1 DEF Good
<1>9. b.have_output => \A k \in 0 .. b.out_len - 1 : Out(d)[k] \in Glyph
  <2>1. \A k \in 0 .. b.out_len - 1 : k \in 0 .. N - 1 /\ k < b.out_len
    BY <1>2 DEF IsBuf
  <2>2. CASE b.separate
    <3>1. Out(d) = pos /\ Out(b) = b.pos
      BY <1>6, <2>2 DEF Out
    <3>. QED
      BY <1>1, <1>5, <2>1, <2>2, <3>1 DEF Good
  <2>3. CASE ~b.separate
    <3>1. Out(d) = info /\ Out(b) = b.info
      BY <1>6, <2>3 DEF Out
    <3>2. b.have_output => \A k \in 0 .. b.out_len - 1 : k \in used
      BY <1>2, <2>1, <2>3 DEF InUse
    <3>. QED
      BY <1>1, <1>5, <2>1, <3>1, <3>2 DEF Good
  <2>. QED
    BY <2>2, <2>3
<1> HIDE DEF used
<1>10. Good(d, N)
  BY <1>1, <1>6, <1>7, <1>8, <1>9 DEF Good
<1>. QED
  BY <1>10 DEF IsGood, d

\* What the actions need of one result is enough for all of them.
LEMMA ToKeeps ==
    ASSUME NEW bs, To(bs), \A b \in bs : IsGood(b) PROVE IsGood(buf')
  BY TidyKeeps DEF To

LEMMA FineIsGood ==
    ASSUME NEW b, Fine(b) PROVE IsGood(b)
  BY DEF Fine, IsGood

Cleared(b) == [b EXCEPT !.have_output = TRUE, !.separate = FALSE, !.out_len = 0, !.idx = 0]

LEMMA ClearedGood ==
    ASSUME NEW N \in Nat, NEW b, Good(b, N), ~b.have_output PROVE IsGood(Cleared(b))
<1> DEFINE d == Cleared(b)
<1>1. IsBuf(b, N)
  BY DEF Good
<1>2. d.info = b.info /\ d.len = b.len /\ d.out_len = 0 /\ d.idx = 0 /\ d.have_output /\ ~d.separate
  BY <1>1 DEF IsBuf, Cleared
<1>3. d \in [info : Mem(N), pos : Mem(N), separate : BOOLEAN, idx : Nat, len : Nat,
             out_len : Nat, have_output : BOOLEAN, successful : BOOLEAN]
  BY <1>1 DEF IsBuf, Cleared
<1> HIDE DEF d
<1>4. IsBuf(d, N)
  BY <1>1, <1>2, <1>3 DEF IsBuf
<1>5. Good(d, N)
  BY <1>2, <1>4 DEF Good
<1>. QED
  BY <1>5 DEF IsGood, d

LEMMA StepGood ==
    ASSUME NEW N \in Nat, NEW b, Good(b, N), NEW n \in Nat, b.idx + n <= b.len, NEW c \in NextGlyphs(b, n)
    PROVE  IsGood(c)
<1>1. CASE b.have_output
  BY <1>1, NextGlyphsGood, FineIsGood
<1>2. CASE ~b.have_output
  <2>1. c = Advance(b, n, 0)
    BY <1>2 DEF NextGlyphs
  <2>2. /\ b.idx \in Nat /\ b.len \in Nat /\ b.out_len \in Nat /\ b.len <= N /\ IsBuf(b, N)
        /\ b.out_len <= N
    BY DEF Good, IsBuf
  <2>3. b.out_len + 0 <= N
    BY <2>2
  <2>4. IsBuf(c, N) /\ Advanced(b, c, n, 0)
    BY <2>1, <2>2, <2>3, AdvanceIs
  <2>5. b.out_len + 0 = b.out_len /\ \A k \in b.idx + n .. b.len - 1 : k \in 0 .. b.len - 1
    BY <2>2
  <2>6. Good(c, N)
    BY <1>2, <2>4, <2>5 DEF Good, Advanced
  <2>. QED
    BY <2>6 DEF IsGood
<1>. QED
  BY <1>1, <1>2

Decomposed(b, codes) == UNION {OutputGlyph(c, codes[2]) : c \in OutputGlyph(b, codes[1])}

LEMMA DecomposedGood ==
    ASSUME NEW N \in Nat, NEW b, Good(b, N), b.have_output, b.idx < b.len, NEW codes \in Codes \X Codes,
           NEW c \in Decomposed(b, codes)
    PROVE  IsGood(Advance(c, 1, 0))
<1>1. codes[1] \in Codes /\ codes[2] \in Codes
  OBVIOUS
<1>2. PICK e \in OutputGlyph(b, codes[1]) : c \in OutputGlyph(e, codes[2])
  BY DEF Decomposed
<1>3. Fine(e) /\ e.idx = b.idx /\ e.len = b.len
  BY <1>1, <1>2, OutputGlyphGood, OutputGlyphStays
<1>4. Fine(c) /\ c.idx = b.idx /\ c.len = b.len
  <2>1. PICK M \in Nat : Good(e, M) /\ e.have_output
    BY <1>3 DEF Fine
  <2>. QED
    BY <1>1, <1>2, <1>3, <2>1, OutputGlyphGood, OutputGlyphStays
<1>5. PICK M \in Nat : Good(c, M) /\ c.have_output
  BY <1>4 DEF Fine
<1>6. /\ IsBuf(c, M) /\ c.idx \in Nat /\ c.len \in Nat /\ c.out_len \in Nat /\ c.idx + 1 <= c.len
      /\ c.out_len + 0 = c.out_len /\ c.out_len <= M
  BY <1>4, <1>5 DEF Good, IsBuf
<1> DEFINE a == Advance(c, 1, 0)
<1>7. IsBuf(a, M) /\ Advanced(c, a, 1, 0)
  BY <1>6, AdvanceIs
<1> HIDE DEF a
<1>8. Good(a, M)
  BY <1>5, <1>6, <1>7 DEF Good, Advanced, Out
<1>. QED
  BY <1>8 DEF IsGood, a
-----------------------------------------------------------------------------
(***************************************************************************)
(* One lemma per action.                                                   *)
(***************************************************************************)
HbInv == IsGood(buf)

LEMMA InitIsGood ==
    ASSUME Init PROVE HbInv
<1>1. PICK t \in Text :
         buf = [info |-> Fill(Empty, 0, t), pos |-> Empty, separate |-> FALSE,
                idx |-> 0, len |-> Len(t), out_len |-> 0, have_output |-> FALSE,
                successful |-> TRUE]
  BY DEF Init
<1>2. /\ t \in Seq(Glyph) /\ Len(t) \in Nat /\ Len(t) < Allocated /\ Allocated \in Nat
      /\ \A i \in 1 .. Len(t) : t[i] \in Glyph
  BY HbBufferAssumption
<1>3. Empty \in Mem(Allocated)
  BY DEF Empty, Mem
<1> DEFINE info == Fill(Empty, 0, t)
<1>4. Written(Empty, info, Allocated, 0, Len(t))
  BY <1>2, <1>3, FillGlyphs
<1> HIDE DEF info
<1>5. IsBuf(buf, Allocated)
  <2>1. buf \in [info : Mem(Allocated), pos : Mem(Allocated), separate : BOOLEAN, idx : Nat,
                 len : Nat, out_len : Nat, have_output : BOOLEAN, successful : BOOLEAN]
    BY <1>1, <1>2, <1>3, <1>4 DEF Written, info
  <2>. QED
    BY <1>1, <1>2, <2>1 DEF IsBuf
<1>6. \A k \in 0 .. Len(t) - 1 : k \in 0 .. Allocated - 1 /\ 0 <= k /\ k < 0 + Len(t)
  BY <1>2
<1>7. \A k \in 0 .. Len(t) - 1 : info[k] \in Glyph
  BY <1>4, <1>6 DEF Written
<1>8. Good(buf, Allocated)
  BY <1>1, <1>5, <1>7 DEF Good, info
<1>. QED
  BY <1>2, <1>8 DEF HbInv, IsGood

LEMMA ClearOutputIsGood ==
    ASSUME HbInv, ClearOutput PROVE HbInv'
<1>1. PICK N \in Nat : Good(buf, N)
  BY DEF HbInv, IsGood
<1>2. ~buf.have_output /\ To({Cleared(buf)})
  BY DEF ClearOutput, Cleared
<1>3. \A b \in {Cleared(buf)} : IsGood(b)
  BY <1>1, <1>2, ClearedGood
<1>. QED
  BY <1>2, <1>3, ToKeeps DEF HbInv

LEMMA StepIsGood ==
    ASSUME HbInv, Step PROVE HbInv'
<1>1. PICK N \in Nat : Good(buf, N)
  BY DEF HbInv, IsGood
<1>2. PICK n \in 1 .. Left : To(NextGlyphs(buf, n))
  BY DEF Step
<1>3. n \in Nat /\ buf.idx + n <= buf.len
  BY <1>1, <1>2 DEF Left, Good, IsBuf
<1>4. \A c \in NextGlyphs(buf, n) : IsGood(c)
  BY <1>1, <1>3, StepGood
<1>. QED
  BY <1>2, <1>4, ToKeeps DEF HbInv

LEMMA MoveIsGood ==
    ASSUME HbInv, Move PROVE HbInv'
<1>1. PICK N \in Nat : Good(buf, N)
  BY DEF HbInv, IsGood
<1>2. buf.idx \in Nat /\ buf.len \in Nat /\ buf.out_len \in Nat /\ buf.idx <= buf.len
  BY <1>1 DEF Good, IsBuf
<1>3. PICK i \in 0 .. (IF buf.have_output THEN buf.out_len + Left ELSE buf.len) : To(MoveTo(buf, i))
  BY DEF Move
<1>4. i \in Nat /\ i <= (IF buf.have_output THEN buf.out_len + (buf.len - buf.idx) ELSE buf.len)
  BY <1>2, <1>3 DEF Left
<1>5. \A c \in MoveTo(buf, i) : IsGood(c)
  BY <1>1, <1>4, MoveToGood DEF IsGood
<1>. QED
  BY <1>3, <1>5, ToKeeps DEF HbInv

LEMMA ReplaceIsGood ==
    ASSUME HbInv, Replace PROVE HbInv'
<1>1. PICK N \in Nat : Good(buf, N)
  BY DEF HbInv, IsGood
<1>2. buf.idx \in Nat /\ buf.len \in Nat /\ buf.have_output
  BY <1>1 DEF Good, IsBuf, Replace
<1>3. CASE \E code \in Codes : Left > 0 /\ To(ReplaceGlyph(buf, code))
  <2>1. PICK code \in Codes : Left > 0 /\ To(ReplaceGlyph(buf, code))
    BY <1>3
  <2>2. buf.idx < buf.len
    BY <1>2, <2>1 DEF Left
  <2>3. \A c \in ReplaceGlyph(buf, code) : IsGood(c)
    BY <1>1, <1>2, <2>2, ReplaceGlyphGood, FineIsGood
  <2>. QED
    BY <2>1, <2>3, ToKeeps DEF HbInv
<1>4. CASE \E n \in 1 .. Left, codes \in {<<c>> : c \in Codes} \union (Codes \X Codes) :
             To(ReplaceGlyphs(buf, n, codes))
  <2>1. PICK n \in 1 .. Left, codes \in {<<c>> : c \in Codes} \union (Codes \X Codes) :
               To(ReplaceGlyphs(buf, n, codes))
    BY <1>4
  <2>2. n \in Nat \ {0} /\ buf.idx + n <= buf.len
    BY <1>2, <2>1 DEF Left
  <2>3. PICK l \in Nat : DOMAIN codes = 1 .. l /\ Len(codes) = l /\ \A i \in 1 .. l : codes[i] \in Codes
    <3>1. CASE codes \in {<<c>> : c \in Codes}
      <4>1. DOMAIN codes = 1 .. 1 /\ Len(codes) = 1 /\ \A i \in 1 .. 1 : codes[i] \in Codes
        BY <3>1
      <4>. QED
        BY <4>1
    <3>2. CASE codes \in Codes \X Codes
      <4>1. DOMAIN codes = 1 .. 2 /\ Len(codes) = 2 /\ \A i \in 1 .. 2 : codes[i] \in Codes
        BY <3>2
      <4>. QED
        BY <4>1
    <3>. QED
      BY <2>1, <3>1, <3>2
  <2>4. \A c \in ReplaceGlyphs(buf, n, codes) : IsGood(c)
    BY <1>1, <1>2, <2>2, <2>3, ReplaceGlyphsGood, FineIsGood
  <2>. QED
    BY <2>1, <2>4, ToKeeps DEF HbInv
<1>. QED
  BY <1>3, <1>4 DEF Replace

LEMMA DecomposeIsGood ==
    ASSUME HbInv, Decompose PROVE HbInv'
<1>1. PICK N \in Nat : Good(buf, N)
  BY DEF HbInv, IsGood
<1>2. buf.have_output /\ buf.idx < buf.len
  BY <1>1 DEF Good, IsBuf, Decompose, Left
<1>3. PICK codes \in Codes \X Codes : To({Advance(c, 1, 0) : c \in Decomposed(buf, codes)})
  BY DEF Decompose, Decomposed
<1>4. \A c \in Decomposed(buf, codes) : IsGood(Advance(c, 1, 0))
  BY <1>1, <1>2, DecomposedGood
<1>. QED
  BY <1>3, <1>4, ToKeeps DEF HbInv

LEMMA OutputIsGood ==
    ASSUME HbInv, Output PROVE HbInv'
<1>1. PICK N \in Nat : Good(buf, N)
  BY DEF HbInv, IsGood
<1>2. buf.have_output
  BY DEF Output
<1>3. CASE \E code \in Codes : To(OutputGlyph(buf, code))
  <2>1. PICK code \in Codes : To(OutputGlyph(buf, code))
    BY <1>3
  <2>2. \A c \in OutputGlyph(buf, code) : IsGood(c)
    BY <1>1, <1>2, OutputGlyphGood, FineIsGood
  <2>. QED
    BY <2>1, <2>2, ToKeeps DEF HbInv
<1>4. CASE Left > 0 /\ To(CopyGlyph(buf))
  <2>1. buf.idx < buf.len
    BY <1>1, <1>4 DEF Good, IsBuf, Left
  <2>2. \A c \in CopyGlyph(buf) : IsGood(c)
    BY <1>1, <1>2, <2>1, CopyGlyphGood, FineIsGood
  <2>. QED
    BY <1>4, <2>2, ToKeeps DEF HbInv
<1>. QED
  BY <1>3, <1>4 DEF Output

LEMMA DeleteIsGood ==
    ASSUME HbInv, Delete PROVE HbInv'
<1>1. PICK N \in Nat : Good(buf, N)
  BY DEF HbInv, IsGood
<1>2. buf.have_output /\ buf.idx < buf.len /\ To({DeleteGlyph(buf)})
  BY <1>1 DEF Good, IsBuf, Delete, Left
<1>3. \A c \in {DeleteGlyph(buf)} : IsGood(c)
  BY <1>1, <1>2, DeleteGlyphGood, FineIsGood
<1>. QED
  BY <1>2, <1>3, ToKeeps DEF HbInv

LEMMA MergeAnyIsGood ==
    ASSUME HbInv, MergeAny PROVE HbInv'
<1>1. PICK N \in Nat : Good(buf, N)
  BY DEF HbInv, IsGood
<1>2. CASE \E s \in buf.idx .. buf.len, e \in buf.idx .. buf.len : To({MergeClusters(buf, s, e)})
  <2>1. PICK s \in buf.idx .. buf.len, e \in buf.idx .. buf.len : To({MergeClusters(buf, s, e)})
    BY <1>2
  <2>2. \A c \in {MergeClusters(buf, s, e)} : IsGood(c)
    BY <1>1, MergeClustersIs DEF IsGood
  <2>. QED
    BY <2>1, <2>2, ToKeeps DEF HbInv
<1>3. CASE \E s \in 0 .. buf.out_len, e \in 0 .. buf.out_len :
             buf.have_output /\ To({MergeOutClusters(buf, s, e)})
  <2>1. PICK s \in 0 .. buf.out_len, e \in 0 .. buf.out_len :
               buf.have_output /\ To({MergeOutClusters(buf, s, e)})
    BY <1>3
  <2>2. \A c \in {MergeOutClusters(buf, s, e)} : IsGood(c)
    BY <1>1, <2>1, MergeOutClustersIs DEF IsGood
  <2>. QED
    BY <2>1, <2>2, ToKeeps DEF HbInv
<1>. QED
  BY <1>2, <1>3 DEF MergeAny

LEMMA FinishIsGood ==
    ASSUME HbInv, Finish PROVE HbInv'
<1>1. PICK N \in Nat : Good(buf, N)
  BY DEF HbInv, IsGood
<1>2. \A c \in SwapBuffers(buf) : IsGood(c)
  BY <1>1, SwapBuffersGood DEF Finish, IsGood
<1>. QED
  BY <1>2, ToKeeps DEF Finish, HbInv

LEMMA NextIsGood ==
    ASSUME HbInv, [Next]_buf PROVE HbInv'
<1>1. CASE Next
  BY <1>1, ClearOutputIsGood, StepIsGood, MoveIsGood, ReplaceIsGood, DecomposeIsGood, OutputIsGood,
     DeleteIsGood, MergeAnyIsGood, FinishIsGood, Zenon DEF Next
<1>2. CASE UNCHANGED buf
  BY <1>2 DEF HbInv
<1>. QED
  BY <1>1, <1>2

\* The cursors of the glyph buffer stay within its memory, whatever the lookups do with it
\* and however often it grows or fails, and no glyph that is still to be read was
\* overwritten by the output or left in memory given up before (hb-buffer.cc).
THEOREM BufferIsSafe == Spec => []TypeOK
<1>1. HbInv => TypeOK
  <2>1. SUFFICES ASSUME NEW N \in Nat, Good(buf, N) PROVE TypeOK
    BY DEF HbInv, IsGood
  <2>2. IsBuf(buf, N) /\ DOMAIN buf.info = DOMAIN buf.pos /\ Cardinality(DOMAIN buf.info) = N
    BY <2>1, CellsOf DEF Good
  <2>. QED
    BY <2>1, <2>2, HbBufferAssumption DEF TypeOK, Good, IsBuf
<1>2. HbInv /\ [Next]_buf => HbInv'
  BY NextIsGood
<1>. QED
  BY <1>1, <1>2, InitIsGood, PTL DEF Spec
-----------------------------------------------------------------------------
(***************************************************************************)
(* The list that a buffer holds.                                           *)
(***************************************************************************)
\* How many glyphs are before the cursor, and where.
At(b) == IF b.have_output THEN b.out_len ELSE b.idx
Behind(b) == IF b.have_output THEN Out(b) ELSE b.info

\* The n glyphs of L behind the first m are in mem, and Q is them.
Lies(mem, from, n, L, m) == \A i \in 1 .. n : mem[from + (i - 1)] = L[m + i]
IsSlice(Q, L, m, n) == Q \in Seq(Glyph) /\ Len(Q) = n /\ \A i \in 1 .. n : Q[i] = L[m + i]

\* b holds the list L, with its cursor behind d glyphs.
Holds(b, d, L) ==
    /\ L \in Seq(Glyph) /\ d = At(b) /\ Len(L) = d + (b.len - b.idx)
    /\ Lies(Behind(b), 0, d, L, 0) /\ Lies(b.info, b.idx, b.len - b.idx, L, d)

LEMMA Sizes ==
    ASSUME NEW N \in Nat, NEW b, Good(b, N)
    PROVE  /\ b.idx \in Nat /\ b.len \in Nat /\ b.out_len \in Nat /\ At(b) \in Nat
           /\ b.idx <= b.len /\ b.len <= N /\ b.out_len <= N /\ At(b) <= N
           /\ b.len - b.idx \in Nat
           /\ \A k \in 0 .. At(b) - 1 : Behind(b)[k] \in Glyph
           /\ \A k \in b.idx .. b.len - 1 : b.info[k] \in Glyph
<1>1. /\ b.idx \in Nat /\ b.len \in Nat /\ b.out_len \in Nat /\ b.have_output \in BOOLEAN
      /\ b.idx <= b.len /\ b.len <= N /\ b.out_len <= N
  BY DEF Good, IsBuf
<1>2. \A k \in 0 .. At(b) - 1 : Behind(b)[k] \in Glyph
  BY <1>1 DEF Good, At, Behind
<1>. QED
  BY <1>1, <1>2 DEF Good, At

LEMMA HoldsSome ==
    ASSUME NEW N \in Nat, NEW b, Good(b, N)
    PROVE  \E L : Holds(b, At(b), L)
<1> DEFINE d == At(b)
           r == b.len - b.idx
           n == d + r
           L == [i \in 1 .. n |-> IF i <= d THEN Behind(b)[i - 1] ELSE b.info[b.idx + (i - d) - 1]]
<1>1. d \in Nat /\ r \in Nat /\ b.idx \in Nat /\ b.len = b.idx + r /\ n \in Nat
  BY Sizes
<1>2. /\ \A k \in 0 .. d - 1 : Behind(b)[k] \in Glyph
      /\ \A k \in b.idx .. b.len - 1 : b.info[k] \in Glyph
  BY Sizes
<1> HIDE DEF d, r
<1>3. \A i \in 1 .. n : L[i] \in Glyph
  BY <1>1, <1>2
<1>4. L \in Seq(Glyph) /\ Len(L) = n
  <2>1. L \in [1 .. n -> Glyph]
    BY <1>3
  <2> HIDE DEF L, n
  <2>. QED
    BY <1>1, <2>1
<1>5. ASSUME NEW i \in 1 .. d PROVE Behind(b)[0 + (i - 1)] = L[0 + i]
  <2>1. i \in 1 .. n /\ i <= d /\ 0 + i = i /\ 0 + (i - 1) = i - 1
    BY <1>1
  <2>. QED
    BY <2>1
<1>6. ASSUME NEW i \in 1 .. r PROVE b.info[b.idx + (i - 1)] = L[d + i]
  <2>1. d + i \in 1 .. n /\ ~(d + i <= d) /\ b.idx + ((d + i) - d) - 1 = b.idx + (i - 1)
    BY <1>1
  <2>. QED
    BY <2>1
<1> HIDE DEF L
<1>7. Holds(b, d, L)
  BY <1>4, <1>5, <1>6 DEF Holds, Lies, d, r
<1>. QED
  BY <1>7 DEF d

LEMMA Slice ==
    ASSUME NEW L \in Seq(Glyph), NEW m \in Nat, NEW n \in Nat, m + n <= Len(L)
    PROVE  IsSlice(SubSeq(L, m + 1, m + n), L, m, n)
<1>1. \A i \in m + 1 .. m + n : L[i] \in Glyph
  OBVIOUS
<1>2. /\ SubSeq(L, m + 1, m + n) \in Seq(Glyph)
      /\ Len(SubSeq(L, m + 1, m + n)) = IF m + 1 <= m + n THEN m + n - (m + 1) + 1 ELSE 0
      /\ \A i \in 1 .. m + n - (m + 1) + 1 : SubSeq(L, m + 1, m + n)[i] = L[m + 1 + i - 1]
  <2>1. m + 1 \in Int /\ m + n \in Int
    OBVIOUS
  <2>. QED
    BY <1>1, <2>1, SubSeqProperties
<1>3. m + n - (m + 1) + 1 = n /\ (m + 1 <= m + n <=> 1 <= n) /\ \A i \in 1 .. n : m + 1 + i - 1 = m + i
  OBVIOUS
<1>. QED
  BY <1>2, <1>3 DEF IsSlice

\* Two of them are the same sequence.
LEMMA SlicesEqual ==
    ASSUME NEW P, NEW Q, NEW L, NEW K, NEW m, NEW l, NEW n \in Nat, IsSlice(P, L, m, n), IsSlice(Q, K, l, n),
           \A i \in 1 .. n : L[m + i] = K[l + i]
    PROVE  P = Q
  BY SeqEqual DEF IsSlice

SameGlyphs(mem, from, L, m, n) == Part(mem, from, from + n) = SubSeq(L, m + 1, m + n)

LEMMA PartIsSlice ==
    ASSUME NEW mem, NEW from \in Nat, NEW L \in Seq(Glyph), NEW m \in Nat, NEW n \in Nat,
           m + n <= Len(L), Lies(mem, from, n, L, m)
    PROVE  SameGlyphs(mem, from, L, m, n)
<1> DEFINE Q == SubSeq(L, m + 1, m + n)
<1>1. IsSlice(Q, L, m, n)
  BY Slice
<1>2. Q = [k \in 1 .. n |-> Q[k]]
  <2>1. Q \in [1 .. n -> Glyph]
    BY <1>1, LenProperties DEF IsSlice
  <2>. QED
    BY <2>1
<1>3. \A i \in 1 .. n : mem[from + i - 1] = Q[i]
  BY <1>1 DEF IsSlice, Lies
<1> HIDE DEF Q
<1>4. from + n - from = n
  OBVIOUS
<1>5. Part(mem, from, from + n) = [k \in 1 .. n |-> mem[from + k - 1]]
  BY <1>4 DEF Part
<1>. QED
  BY <1>2, <1>3, <1>5 DEF Q, SameGlyphs

\* The two halves that the refinement looks at.
LEMMA HalvesAre ==
    ASSUME NEW N \in Nat, NEW b, Good(b, N), NEW d, NEW L, Holds(b, d, L)
    PROVE  /\ Part(Behind(b), 0, At(b)) = SubSeq(L, 1, d)
           /\ Part(b.info, b.idx, b.len) = SubSeq(L, d + 1, Len(L))
           /\ d \in 0 .. Len(L)
<1> DEFINE n == b.len - b.idx
<1>1. /\ b.idx \in Nat /\ b.len \in Nat /\ d \in Nat /\ n \in Nat /\ d = At(b)
      /\ Len(L) = d + n /\ L \in Seq(Glyph) /\ 0 + d = d /\ b.idx + n = b.len /\ 0 + 1 = 1
      /\ Lies(Behind(b), 0, d, L, 0) /\ Lies(b.info, b.idx, n, L, d)
  BY Sizes DEF Holds
<1> HIDE DEF n
<1>2. /\ b.idx \in Nat /\ d \in Nat /\ n \in Nat /\ 0 \in Nat /\ L \in Seq(Glyph)
      /\ 0 + d <= Len(L) /\ d + n <= Len(L)
      /\ Lies(Behind(b), 0, d, L, 0) /\ Lies(b.info, b.idx, n, L, d)
  BY <1>1
<1>3. SameGlyphs(Behind(b), 0, L, 0, d)
  BY <1>2, PartIsSlice, Zenon
<1>4. SameGlyphs(b.info, b.idx, L, d, n)
  BY <1>2, PartIsSlice, Zenon
<1>5. d \in 0 .. Len(L)
  BY <1>1
<1>. QED
  BY <1>1, <1>3, <1>4, <1>5 DEF SameGlyphs

LEMMA WholeList ==
    ASSUME NEW L \in Seq(Glyph), NEW d \in 0 .. Len(L)
    PROVE  SubSeq(L, 1, d) \o SubSeq(L, d + 1, Len(L)) = L
<1>1. 1 \in 1 .. Len(L) + 1 /\ d \in 1 - 1 .. Len(L) /\ Len(L) \in d .. Len(L)
  OBVIOUS
<1>2. SubSeq(L, 1, d) \o SubSeq(L, d + 1, Len(L)) = SubSeq(L, 1, Len(L))
  BY <1>1, ConcatAdjacentSubSeq
<1>. QED
  BY <1>2, SubSeqFull

-----------------------------------------------------------------------------
\* list in the place of m glyphs behind the first d.
PutAt(L, d, m, list) == SubSeq(L, 1, d) \o list \o SubSeq(L, d + m + 1, Len(L))

IsPut(P, L, d, m, list) ==
    /\ P \in Seq(Glyph) /\ Len(P) = Len(L) - m + Len(list)
    /\ \A i \in 1 .. d : P[i] = L[i]
    /\ \A i \in 1 .. Len(list) : P[d + i] = list[i]
    /\ \A i \in 1 .. Len(L) - d - m : P[d + Len(list) + i] = L[d + m + i]

IsJoined(P, A, B) ==
    /\ P \in Seq(Glyph) /\ Len(P) = Len(A) + Len(B)
    /\ \A i \in 1 .. Len(A) : P[i] = A[i]
    /\ \A i \in 1 .. Len(B) : P[Len(A) + i] = B[i]

LEMMA Joined ==
    ASSUME NEW A \in Seq(Glyph), NEW B \in Seq(Glyph) PROVE IsJoined(A \o B, A, B)
<1>1. Len(A) \in Nat /\ Len(B) \in Nat
  OBVIOUS
<1>2. A \o B \in Seq(Glyph) /\ Len(A \o B) = Len(A) + Len(B)
  OBVIOUS
<1>3. ASSUME NEW i \in 1 .. Len(A) PROVE (A \o B)[i] = A[i]
  BY <1>1
<1>4. ASSUME NEW i \in 1 .. Len(B) PROVE (A \o B)[Len(A) + i] = B[i]
  <2>1. Len(A) + i \in 1 .. Len(A) + Len(B) /\ ~(Len(A) + i <= Len(A)) /\ (Len(A) + i) - Len(A) = i
    BY <1>1
  <2>. QED
    BY <2>1, <1>1
<1>. QED
  BY <1>2, <1>3, <1>4 DEF IsJoined

LEMMA PutIs ==
    ASSUME NEW L \in Seq(Glyph), NEW d \in Nat, NEW m \in Nat, d + m <= Len(L), NEW list \in Seq(Glyph)
    PROVE  IsPut(PutAt(L, d, m, list), L, d, m, list)
<1> DEFINE A == SubSeq(L, 1, d)
           r == Len(L) - d - m
           Z == SubSeq(L, d + m + 1, Len(L))
           n == Len(list)
<1>0. r \in Nat /\ (d + m) + r = Len(L) /\ n \in Nat /\ d + m \in Nat /\ Len(L) \in Nat
  OBVIOUS
<1>1. IsSlice(A, L, 0, d)
  <2>1. IsSlice(SubSeq(L, 0 + 1, 0 + d), L, 0, d)
    <3>1. 0 + d <= Len(L) /\ 0 \in Nat
      BY <1>0
    <3>. QED
      BY <3>1, Slice, Zenon
  <2>2. 0 + 1 = 1 /\ 0 + d = d
    OBVIOUS
  <2>. QED
    BY <2>1, <2>2
<1>2. IsSlice(Z, L, d + m, r)
  <2>1. (d + m) + r <= Len(L)
    BY <1>0
  <2>2. IsSlice(SubSeq(L, (d + m) + 1, (d + m) + r), L, d + m, r)
    BY <1>0, <2>1, Slice, Zenon
  <2>. QED
    BY <1>0, <2>2
<1> HIDE DEF A, Z, r, n
<1>3. /\ A \in Seq(Glyph) /\ Len(A) = d /\ \A i \in 1 .. d : A[i] = L[i]
      /\ Z \in Seq(Glyph) /\ Len(Z) = r /\ \A i \in 1 .. r : Z[i] = L[d + m + i]
  BY <1>1, <1>2 DEF IsSlice
<1>4. n = Len(list)
  BY DEF n
<1> DEFINE B == A \o list
           P == B \o Z
<1>5. IsJoined(B, A, list)
  BY <1>3, Joined
<1> HIDE DEF B
<1>6. B \in Seq(Glyph) /\ Len(B) = d + n
  BY <1>3, <1>4, <1>5 DEF IsJoined
<1>7. IsJoined(P, B, Z)
  BY <1>3, <1>6, Joined
<1> HIDE DEF P
<1>8. P \in Seq(Glyph) /\ Len(P) = (d + n) + r
  BY <1>3, <1>6, <1>7 DEF IsJoined
<1>9. ASSUME NEW i \in 1 .. d PROVE P[i] = L[i]
  <2>1. i \in 1 .. d + n /\ i \in 1 .. Len(A)
    BY <1>0, <1>3
  <2>. QED
    BY <1>3, <1>5, <1>6, <1>7, <2>1 DEF IsJoined
<1>10. ASSUME NEW i \in 1 .. n PROVE P[d + i] = list[i]
  <2>1. d + i \in 1 .. d + n
    BY <1>0
  <2>. QED
    BY <1>3, <1>4, <1>5, <1>6, <1>7, <2>1 DEF IsJoined
<1>11. ASSUME NEW i \in 1 .. r PROVE P[(d + n) + i] = L[(d + m) + i]
  BY <1>3, <1>6, <1>7 DEF IsJoined
<1>12. Len(P) = (Len(L) - m) + n
  BY <1>0, <1>8
<1>13. r = Len(L) - d - m
  BY DEF r
<1>14. P = PutAt(L, d, m, list)
  BY DEF PutAt, P, B, A, Z
<1>. QED
  BY <1>4, <1>8, <1>9, <1>10, <1>11, <1>12, <1>13, <1>14 DEF IsPut

\* Glyphs put in their own place.
LEMMA PutSame ==
    ASSUME NEW L \in Seq(Glyph), NEW d \in Nat, NEW n \in Nat, d + n <= Len(L)
    PROVE  PutAt(L, d, n, SubSeq(L, d + 1, d + n)) = L
<1> DEFINE list == SubSeq(L, d + 1, d + n)
           P == PutAt(L, d, n, list)
<1>1. IsSlice(list, L, d, n)
  BY Slice
<1> HIDE DEF list
<1>2. list \in Seq(Glyph) /\ Len(list) = n /\ \A i \in 1 .. n : list[i] = L[d + i]
  BY <1>1 DEF IsSlice
<1>3. IsPut(P, L, d, n, list)
  BY <1>2, PutIs
<1> HIDE DEF P
<1>4. P \in Seq(Glyph) /\ Len(P) = Len(L) /\ Len(L) \in Nat
  BY <1>2, <1>3 DEF IsPut
<1>5. ASSUME NEW j \in 1 .. Len(L) PROVE P[j] = L[j]
  <2>1. CASE j <= d
    BY <1>3, <2>1 DEF IsPut
  <2>2. CASE d < j /\ j <= d + n
    <3>1. j - d \in 1 .. n /\ d + (j - d) = j
      BY <2>2
    <3>. QED
      BY <1>2, <1>3, <3>1 DEF IsPut
  <2>3. CASE d + n < j
    <3> DEFINE i == j - (d + n)
    <3>1. i \in 1 .. Len(L) - d - n /\ d + n + i = j
      BY <1>4, <2>3
    <3> HIDE DEF i
    <3>2. P[d + n + i] = L[d + n + i]
      BY <1>2, <1>3, <3>1 DEF IsPut
    <3>. QED
      BY <3>1, <3>2
  <2>. QED
    BY <1>4, <2>1, <2>2, <2>3
<1>. QED
  BY <1>4, <1>5, SeqEqual DEF P, list

\* Memory into which list was put.
FilledWith(mem, new, N, at, n, list) ==
    /\ \A k \in 0 .. N - 1 : k < at \/ k >= at + n => new[k] = mem[k]
    /\ \A k \in 0 .. N - 1 : at <= k /\ k < at + n => new[k] = list[k - at + 1]

LEMMA FillPuts ==
    ASSUME NEW N \in Nat, NEW mem \in Mem(N), NEW at \in Nat, NEW n \in Nat,
           NEW list \in Seq(Glyph), Len(list) = n
    PROVE  FilledWith(mem, Fill(mem, at, list), N, at, n, list)
<1>1. \A i \in 1 .. n : list[i] \in Glyph \union {Junk}
  OBVIOUS
<1>. QED
  BY <1>1, FillIs DEF FilledWith

\* The struct after list was written behind the output.
IsWritten(d, a, list, m, n, N) ==
    /\ a.idx = d.idx + m /\ a.len = d.len /\ a.out_len = d.out_len + n
    /\ a.have_output = d.have_output /\ a.separate = d.separate /\ a.successful = d.successful
    /\ \A k \in 0 .. N - 1 : k < d.out_len => Out(a)[k] = Out(d)[k]
    /\ \A i \in 1 .. n : Out(a)[d.out_len + (i - 1)] = list[i]
    /\ \A k \in d.idx + m .. d.len - 1 : a.info[k] = d.info[k]

LEMMA WrittenFields ==
    ASSUME NEW N \in Nat, NEW b, NEW d, NEW m \in Nat, NEW n \in Nat, Ready(b, d, N, m, n),
           NEW list \in Seq(Glyph), Len(list) = n
    PROVE  IsWritten(d, Advance(Write(d, d.out_len, list), m, n), list, m, n, N)
<1> DEFINE w == Write(d, d.out_len, list)
           a == Advance(w, m, n)
           mem == Out(d)
           new == Fill(mem, d.out_len, list)
<1>1. IsBuf(d, N) /\ d.out_len \in Nat /\ d.idx \in Nat /\ d.len \in Nat /\ d.len <= N
      /\ d.out_len + n <= N /\ mem \in Mem(N) /\ d.separate \in BOOLEAN
  BY DEF Ready, Good, IsBuf, Out
<1> HIDE DEF mem
<1>2. FilledWith(mem, new, N, d.out_len, n, list)
  BY <1>1, FillPuts
<1>3. /\ \A k \in 0 .. N - 1 : k < d.out_len \/ k >= d.out_len + n => new[k] = mem[k]
      /\ \A k \in 0 .. N - 1 : d.out_len <= k /\ k < d.out_len + n => new[k] = list[k - d.out_len + 1]
  BY <1>2 DEF FilledWith
<1>4. a = IF d.separate THEN [d EXCEPT !.pos = new, !.idx = d.idx + m, !.out_len = d.out_len + n]
          ELSE [d EXCEPT !.info = new, !.idx = d.idx + m, !.out_len = d.out_len + n]
  BY <1>1 DEF Write, Advance, IsBuf, mem, Out
<1> HIDE DEF new, a, w
<1>5. /\ a.idx = d.idx + m /\ a.len = d.len /\ a.out_len = d.out_len + n
      /\ a.have_output = d.have_output /\ a.separate = d.separate /\ a.successful = d.successful
      /\ Out(a) = new /\ a.info = IF d.separate THEN d.info ELSE new
  BY <1>1, <1>4 DEF IsBuf, Out
<1>6. ASSUME NEW i \in 1 .. n PROVE new[d.out_len + (i - 1)] = list[i]
  <2>1. d.out_len + (i - 1) \in 0 .. N - 1 /\ d.out_len <= d.out_len + (i - 1)
        /\ d.out_len + (i - 1) < d.out_len + n /\ (d.out_len + (i - 1)) - d.out_len + 1 = i
    BY <1>1
  <2>. QED
    BY <1>3, <2>1
<1>7. ASSUME NEW k \in d.idx + m .. d.len - 1 PROVE a.info[k] = d.info[k]
  <2>1. k \in 0 .. N - 1
    BY <1>1
  <2>2. CASE d.separate
    BY <1>5, <2>2
  <2>3. CASE ~d.separate
    <3>1. k >= d.out_len + n
      BY <1>1, <2>3 DEF Ready
    <3>. QED
      BY <1>3, <1>5, <2>1, <2>3, <3>1 DEF mem, Out
  <2>. QED
    BY <2>2, <2>3
<1>8. IsWritten(d, a, list, m, n, N)
  BY <1>1, <1>3, <1>5, <1>6, <1>7 DEF IsWritten, mem
<1>. QED
  BY <1>8 DEF a, w

Becomes(b, c, d, L) == c.successful = b.successful /\ Holds(c, d, L)

\* What is written behind the output is in the list where it was read from, or in addition.
LEMMA PutHolds ==
    ASSUME NEW N \in Nat, NEW b, NEW d, NEW m \in Nat, NEW n \in Nat, Ready(b, d, N, m, n),
           d.have_output, d.idx + m <= d.len, NEW e, NEW L, Holds(d, e, L),
           NEW list \in Seq(Glyph), Len(list) = n
    PROVE  Becomes(d, Advance(Write(d, d.out_len, list), m, n), e + n, PutAt(L, e, m, list))
<1> DEFINE a == Advance(Write(d, d.out_len, list), m, n)
           P == PutAt(L, e, m, list)
           r == d.len - d.idx
<1>1. IsWritten(d, a, list, m, n, N)
  BY WrittenFields
<1> HIDE DEF a
<1>2. /\ d.idx \in Nat /\ d.len \in Nat /\ e \in Nat /\ r \in Nat /\ r = d.len - d.idx /\ m <= r
      /\ e = d.out_len /\ e <= N /\ d.len <= N
  BY Sizes DEF Ready, Holds, At
<1>3. /\ L \in Seq(Glyph) /\ Len(L) = e + r
      /\ Lies(Out(d), 0, e, L, 0) /\ Lies(d.info, d.idx, r, L, e)
  BY <1>2 DEF Holds, Behind
<1> HIDE DEF r
<1>4. IsPut(P, L, e, m, list)
  <2>1. e + m <= Len(L)
    BY <1>2, <1>3
  <2>. QED
    BY <1>2, <1>3, <2>1, PutIs
<1> HIDE DEF P
<1>5. a.idx = d.idx + m /\ a.len = d.len /\ a.out_len = e + n /\ a.have_output
  BY <1>1, <1>2 DEF IsWritten
<1>6. P \in Seq(Glyph) /\ Len(P) = (e + n) + (a.len - a.idx)
  <2>1. P \in Seq(Glyph) /\ Len(P) = (Len(L) - m) + n
    BY <1>4 DEF IsPut
  <2>2. a.len - a.idx = r - m
    BY <1>2, <1>5
  <2>3. ((e + r) - m) + n = (e + n) + (r - m)
    BY <1>2
  <2>. QED
    BY <1>3, <2>1, <2>2, <2>3
<1>7. ASSUME NEW i \in 1 .. e + n PROVE Out(a)[0 + (i - 1)] = P[0 + i]
  <2>1. CASE i <= e
    <3>1. i \in 1 .. e /\ 0 + (i - 1) \in 0 .. N - 1 /\ 0 + (i - 1) < d.out_len /\ 0 + i = i
      BY <1>2, <2>1
    <3>2. Out(a)[0 + (i - 1)] = Out(d)[0 + (i - 1)]
      BY <1>1, <3>1 DEF IsWritten
    <3>3. Out(d)[0 + (i - 1)] = L[0 + i] /\ P[i] = L[i]
      BY <1>3, <1>4, <3>1 DEF IsPut, Lies
    <3>. QED
      BY <3>1, <3>2, <3>3
  <2>2. CASE ~(i <= e)
    <3> DEFINE j == i - e
    <3>0. e \in Nat /\ i \in Int /\ i > e /\ i <= e + n
      BY <1>2, <2>2
    <3>1. j \in 1 .. n /\ e + (j - 1) = 0 + (i - 1) /\ e + j = 0 + i
      BY <3>0
    <3> HIDE DEF j
    <3>2. Out(a)[e + (j - 1)] = list[j] /\ P[e + j] = list[j]
      BY <1>1, <1>2, <1>4, <3>1 DEF IsWritten, IsPut
    <3>. QED
      BY <3>1, <3>2
  <2>. QED
    BY <2>1, <2>2
<1>8. ASSUME NEW i \in 1 .. a.len - a.idx PROVE a.info[a.idx + (i - 1)] = P[(e + n) + i]
  <2> DEFINE j == m + i
  <2>0. i \in Int /\ 1 <= i /\ i <= r - m /\ e \in Nat /\ r \in Nat
    BY <1>2, <1>5
  <2>1. i \in 1 .. r - m /\ j \in 1 .. r /\ (e + m) + i = e + j
    BY <2>0
  <2> DEFINE x == d.idx
             z == d.len
  <2>2. x \in Nat /\ z \in Nat /\ r = z - x
    BY <1>2
  <2>3. a.idx = x + m
    BY <1>5
  <2> HIDE DEF x, z
  <2>4. (x + m) + (i - 1) = x + (j - 1) /\ x + (j - 1) \in x + m .. z - 1
    BY <2>0, <2>2
  <2> HIDE DEF j
  <2>5. P[(e + n) + i] = L[(e + m) + i]
    <3>1. (e + r) - e - m = r - m
      BY <1>2
    <3>. QED
      BY <1>3, <1>4, <2>1, <3>1 DEF IsPut
  <2>6. a.info[x + (j - 1)] = d.info[x + (j - 1)]
    BY <1>1, <2>4 DEF IsWritten, x, z
  <2>7. d.info[x + (j - 1)] = L[e + j]
    BY <1>3, <2>1 DEF Lies, x
  <2>. QED
    BY <2>1, <2>3, <2>4, <2>5, <2>6, <2>7
<1>9. At(a) = e + n /\ Behind(a) = Out(a)
  BY <1>5 DEF At, Behind
<1>10. Holds(a, e + n, P)
  BY <1>6, <1>7, <1>8, <1>9 DEF Holds, Lies
<1>. QED
  BY <1>1, <1>10 DEF IsWritten, Becomes, a, P
-----------------------------------------------------------------------------
\* The same glyphs where they are used.
Alike(b, c) ==
    /\ Same(b, c)
    /\ \A k \in 0 .. At(b) - 1 : Behind(c)[k] = Behind(b)[k]
    /\ \A k \in b.idx .. b.len - 1 : c.info[k] = b.info[k]

LEMMA AlikeHolds ==
    ASSUME NEW N \in Nat, NEW b, Good(b, N), NEW c, Alike(b, c), NEW d, NEW L, Holds(b, d, L)
    PROVE  Holds(c, d, L)
<1> DEFINE x == b.idx
           r == b.len - b.idx
<1>1. x \in Nat /\ r \in Nat /\ d \in Nat /\ d = At(b) /\ b.len = x + r
  BY Sizes DEF Holds
<1>2. At(c) = d /\ c.idx = x /\ c.len - c.idx = r
  BY <1>1 DEF Alike, Same, At
<1>3. ASSUME NEW i \in 1 .. d PROVE Behind(c)[0 + (i - 1)] = L[0 + i]
  <2>1. 0 + (i - 1) \in 0 .. d - 1
    BY <1>1
  <2>. QED
    BY <1>1, <2>1 DEF Alike, Holds, Lies
<1>4. ASSUME NEW i \in 1 .. r PROVE c.info[x + (i - 1)] = L[d + i]
  <2>1. x + (i - 1) \in x .. (x + r) - 1
    BY <1>1
  <2>2. c.info[x + (i - 1)] = b.info[x + (i - 1)]
    BY <1>1, <2>1 DEF Alike
  <2>. QED
    BY <2>2 DEF Holds, Lies
<1>. QED
  BY <1>1, <1>2, <1>3, <1>4 DEF Holds, Lies

\* There is enough memory after it grew.
LEMMA GrowsEnough ==
    ASSUME NEW N \in Nat, NEW size \in Nat, size >= N PROVE size < NewSize(N, size)
<1> DEFINE x == size - N
           more == Growth * (x \div Growth + 1)
<1>1. x < more /\ more \in Int
  BY HbBufferAssumption
<1> HIDE DEF more
<1>2. N + more > size
  BY <1>1
<1>. QED
  BY <1>2 DEF NewSize, more

\* A buffer keeps what it has, and as long as it does not fail gets what was asked for.
LEMMA EnsuredHolds ==
    ASSUME NEW N \in Nat, NEW b, Good(b, N), NEW size \in Nat, NEW c \in Ensured(b, size)
    PROVE  Alike(b, c) /\ (c.successful => b.successful /\ Enough(c, size))
<1>1. IsBuf(b, N) /\ b.idx \in Nat /\ b.len \in Nat /\ b.out_len \in Nat /\ b.len <= N /\ b.out_len <= N
      /\ b.idx <= b.len /\ b.info \in Mem(N) /\ b.pos \in Mem(N)
  BY DEF Good, IsBuf
<1>2. CASE c = b /\ Enough(b, size)
  BY <1>2 DEF Alike, Same
<1>3. CASE c = [b EXCEPT !.successful = FALSE]
  <2>1. ~c.successful /\ c.info = b.info /\ c.pos = b.pos /\ Same(b, c) /\ c.separate = b.separate
    BY <1>1, <1>3 DEF IsBuf, Same
  <2>. QED
    BY <2>1 DEF Alike, Same, At, Behind, Out
<1>4. CASE /\ ~Enough(b, size) /\ b.successful
           /\ c = [b EXCEPT !.info = Bigger(b.info, size), !.pos = Bigger(b.pos, size)]
  <2>1. size >= N
    BY <1>1, <1>4, CellsOf DEF Enough
  <2> DEFINE M == NewSize(N, size)
             info == Bigger(b.info, size)
             pos == Bigger(b.pos, size)
  <2>2. M \in Nat /\ size < M
    BY <2>1, NewSizeIs, GrowsEnough
  <2>3. Larger(b.info, info, N, M) /\ Larger(b.pos, pos, N, M)
    BY <1>1, <2>1, BiggerIs
  <2> HIDE DEF info, pos, M
  <2>4. info \in Mem(M) /\ \A k \in 0 .. N - 1 : info[k] = b.info[k] /\ pos[k] = b.pos[k]
    BY <2>3 DEF Larger
  <2>5. Same(b, c) /\ c.info = info /\ c.pos = pos /\ c.separate = b.separate
    BY <1>1, <1>4 DEF IsBuf, Same, info, pos
  <2>6. Enough(c, size)
    <3>1. DOMAIN info = 0 .. M - 1
      BY <2>4 DEF Mem
    <3>2. Cardinality(0 .. M - 1) = IF 0 > M - 1 THEN 0 ELSE M - 1 - 0 + 1
      BY <2>2, FS_Interval
    <3>3. Cardinality(0 .. M - 1) = M
      BY <2>2, <3>2
    <3>. QED
      BY <2>2, <2>5, <3>1, <3>3 DEF Enough
  <2>7. /\ \A k \in 0 .. At(b) - 1 : k \in 0 .. N - 1
        /\ \A k \in b.idx .. b.len - 1 : k \in 0 .. N - 1
    BY <1>1 DEF At
  <2>8. Alike(b, c)
    BY <2>4, <2>5, <2>7 DEF Alike, Same, Behind, Out
  <2>. QED
    BY <1>4, <2>6, <2>8
<1>. QED
  BY <1>2, <1>3, <1>4 DEF Ensured

LEMMA SeparatedHolds ==
    ASSUME NEW N \in Nat, NEW b, Good(b, N), b.have_output, NEW m \in Nat, NEW n \in Nat
    PROVE  Alike(b, Separated(b, m, n)) /\ Separated(b, m, n).successful = b.successful
<1>1. /\ IsBuf(b, N) /\ b.pos \in Mem(N) /\ b.out_len \in Nat /\ b.out_len <= N /\ At(b) = b.out_len
      /\ 0 + b.out_len = b.out_len
  BY DEF Good, IsBuf, At
<1>2. CASE ~b.separate /\ b.out_len + n > b.idx + m
  <2> DEFINE list == Part(b.info, 0, b.out_len)
             new == Fill(b.pos, 0, list)
             s == Separated(b, m, n)
  <2>1. s = [b EXCEPT !.separate = TRUE, !.pos = new]
    BY <1>2 DEF Separated
  <2>2. \A k \in 0 .. 0 + b.out_len - 1 : b.info[k] \in Glyph
    BY <1>1, <1>2 DEF Good, Out
  <2>3. /\ Len(list) = b.out_len /\ \A i \in 1 .. b.out_len : list[i] \in Glyph
        /\ \A i \in 1 .. b.out_len : list[i] = b.info[0 + i - 1]
    <3>1. /\ Len(Part(b.info, 0, 0 + b.out_len)) = b.out_len
          /\ \A i \in 1 .. b.out_len : Part(b.info, 0, 0 + b.out_len)[i] \in Glyph
      BY <1>1, <2>2, PartGlyphs
    <3>2. \A i \in 1 .. b.out_len : Part(b.info, 0, 0 + b.out_len)[i] = b.info[0 + i - 1]
      <4>1. (0 + b.out_len) - 0 = b.out_len
        BY <1>1
      <4>. QED
        BY <4>1 DEF Part
    <3>. QED
      BY <1>1, <3>1, <3>2
  <2> HIDE DEF list
  <2>4. ASSUME NEW k \in 0 .. b.out_len - 1 PROVE new[k] = b.info[k]
    <3>1. /\ k \in 0 .. N - 1 /\ 0 <= k /\ k < 0 + b.out_len /\ k - 0 + 1 \in 1 .. b.out_len
          /\ 0 + (k - 0 + 1) - 1 = k
      BY <1>1
    <3>2. new[k] = list[k - 0 + 1]
      <4>1. \A i \in 1 .. b.out_len : list[i] \in Glyph \union {Junk}
        BY <2>3
      <4>. QED
        BY <1>1, <2>3, <3>1, <4>1, FillIs
    <3>. QED
      BY <2>3, <3>1, <3>2
  <2> HIDE DEF new, s
  <2>5. Same(b, s) /\ s.info = b.info /\ s.pos = new /\ s.separate /\ s.successful = b.successful
    BY <1>1, <2>1 DEF IsBuf, Same
  <2>6. Behind(s) = new /\ Behind(b) = b.info
    BY <1>2, <2>5 DEF Behind, Out, Same
  <2>7. Alike(b, s)
    BY <1>1, <2>4, <2>5, <2>6 DEF Alike
  <2>. QED
    BY <2>5, <2>7 DEF s
<1>3. CASE ~(~b.separate /\ b.out_len + n > b.idx + m)
  BY <1>3 DEF Separated, Alike, Same
<1>. QED
  BY <1>2, <1>3

\* What the cells no one uses any more hold does not matter.
LEMMA TidyHolds ==
    ASSUME NEW N \in Nat, NEW b, Good(b, N)
    PROVE  Alike(b, Tidy(b)) /\ Tidy(b).successful = b.successful
<1>1. /\ IsBuf(b, N) /\ DOMAIN b.info = 0 .. N - 1 /\ DOMAIN b.pos = 0 .. N - 1
      /\ b.idx \in Nat /\ b.len \in Nat /\ b.out_len \in Nat /\ b.idx <= b.len /\ b.len <= N
      /\ b.out_len <= N
  BY CellsOf DEF Good, IsBuf
<1> DEFINE info == [k \in 0 .. N - 1 |-> IF k \in InUse(b) THEN b.info[k] ELSE Junk]
           pos == [k \in 0 .. N - 1 |-> IF b.have_output /\ b.separate /\ k < b.out_len
                                        THEN b.pos[k] ELSE Junk]
           d == Tidy(b)
<1>2. d = [b EXCEPT !.info = info, !.pos = pos]
  BY <1>1 DEF Tidy, InUse
<1>3. /\ \A k \in 0 .. N - 1 : k \in InUse(b) => info[k] = b.info[k]
      /\ \A k \in 0 .. N - 1 : b.have_output /\ b.separate /\ k < b.out_len => pos[k] = b.pos[k]
  OBVIOUS
<1> HIDE DEF info, pos, d
<1>4. Same(b, d) /\ d.info = info /\ d.pos = pos /\ d.separate = b.separate /\ d.successful = b.successful
  BY <1>1, <1>2 DEF IsBuf, Same
<1>5. ASSUME NEW k \in b.idx .. b.len - 1 PROVE d.info[k] = b.info[k]
  <2>1. k \in 0 .. N - 1 /\ k \in InUse(b)
    BY <1>1 DEF InUse
  <2>. QED
    BY <1>3, <1>4, <2>1
<1>6. ASSUME NEW k \in 0 .. At(b) - 1 PROVE Behind(d)[k] = Behind(b)[k]
  <2>1. CASE b.have_output /\ b.separate
    <3>1. k \in 0 .. N - 1 /\ k < b.out_len
      BY <1>1, <2>1 DEF At
    <3>. QED
      BY <1>3, <1>4, <2>1, <3>1 DEF Behind, Out, Same
  <2>2. CASE b.have_output /\ ~b.separate
    <3>1. k \in 0 .. N - 1 /\ k \in InUse(b)
      BY <1>1, <2>2 DEF At, InUse
    <3>. QED
      BY <1>3, <1>4, <2>2, <3>1 DEF Behind, Out, Same
  <2>3. CASE ~b.have_output
    <3>1. k \in 0 .. N - 1 /\ k < b.len
      BY <1>1, <2>3 DEF At
    <3>2. k \in InUse(b)
      BY <1>1, <2>3, <3>1 DEF InUse
    <3>. QED
      BY <1>3, <1>4, <2>3, <3>1, <3>2 DEF Behind, Same
  <2>. QED
    BY <2>1, <2>2, <2>3
<1>7. Alike(b, d)
  BY <1>4, <1>5, <1>6 DEF Alike
<1>. QED
  BY <1>4, <1>7 DEF d
-----------------------------------------------------------------------------
(***************************************************************************)
(* What the operations make of the list.  A buffer that has failed holds   *)
(* nothing any more.                                                       *)
(***************************************************************************)
Meets(b, c, d, L) == c.successful => b.successful /\ Holds(c, d, L)

\* It is enough to look at what is done if there is room.
LEMMA RoomMeets ==
    ASSUME NEW N \in Nat, NEW b, Good(b, N), b.have_output, NEW m \in Nat, NEW n \in Nat,
           NEW d, NEW L, Holds(b, d, L), NEW e \in Ensured(b, b.out_len + n),
           NEW f, NEW P, NEW done, NEW c, c = IF Enough(e, b.out_len + n) THEN done ELSE e,
           Room(b, m, n, Separated(e, m, n)) /\ Holds(Separated(e, m, n), d, L)
             => Becomes(Separated(e, m, n), done, f, P)
    PROVE  Meets(b, c, f, P)
<1>1. b.out_len + n \in Nat
  BY DEF Good, IsBuf
<1>2. Alike(b, e) /\ (e.successful => b.successful /\ Enough(e, b.out_len + n))
  BY <1>1, EnsuredHolds
<1>3. PICK M \in Nat : Good(e, M) /\ Same(b, e)
  BY <1>1, EnsuredIs
<1> DEFINE s == Separated(e, m, n)
<1>4. Alike(e, s) /\ s.successful = e.successful
  BY <1>3, SeparatedHolds DEF Same
<1>5. Holds(e, d, L)
  BY <1>2, AlikeHolds
<1>6. Holds(s, d, L)
  BY <1>3, <1>4, <1>5, AlikeHolds
<1>7. Enough(e, b.out_len + n) => Room(b, m, n, s)
  BY RoomFor
<1>. QED
  BY <1>2, <1>4, <1>6, <1>7 DEF Meets, Becomes

\* Glyphs that are written where they were read leave the list as it is.
LEMMA CopyHolds ==
    ASSUME NEW N \in Nat, NEW b, NEW d, NEW n \in Nat, Ready(b, d, N, n, n),
           d.have_output, d.idx + n <= d.len, NEW e, NEW L, Holds(d, e, L)
    PROVE  Becomes(d, Advance(Write(d, d.out_len, Part(d.info, d.idx, d.idx + n)), n, n), e + n, L)
<1> DEFINE x == d.idx
           r == d.len - d.idx
           list == Part(d.info, d.idx, d.idx + n)
<1>1. x \in Nat /\ r \in Nat /\ e \in Nat /\ n <= r
  BY Sizes DEF Ready, Holds
<1>2. L \in Seq(Glyph) /\ Len(L) = e + r /\ Lies(d.info, x, r, L, e)
  BY DEF Holds
<1> HIDE DEF x, r
<1>3. Lies(d.info, x, n, L, e)
  <2>1. \A i \in 1 .. n : i \in 1 .. r
    BY <1>1
  <2>. QED
    BY <1>2, <2>1 DEF Lies
<1>4. e + n <= Len(L)
  BY <1>1, <1>2
<1>5. SameGlyphs(d.info, x, L, e, n)
  BY <1>1, <1>2, <1>3, <1>4, PartIsSlice, Zenon
<1>6. list = SubSeq(L, e + 1, e + n)
  BY <1>5 DEF SameGlyphs, x
<1>7. IsSlice(list, L, e, n)
  BY <1>1, <1>2, <1>4, <1>6, Slice
<1> HIDE DEF list
<1>8. Becomes(d, Advance(Write(d, d.out_len, list), n, n), e + n, PutAt(L, e, n, list))
  BY <1>7, PutHolds DEF IsSlice
<1>9. PutAt(L, e, n, list) = L
  BY <1>1, <1>2, <1>4, <1>6, PutSame
<1>. QED
  BY <1>8, <1>9 DEF list

LEMMA NextGlyphsMeets ==
    ASSUME NEW N \in Nat, NEW b, Good(b, N), b.have_output, NEW n \in Nat, b.idx + n <= b.len,
           NEW d, NEW L, Holds(b, d, L), NEW c \in NextGlyphs(b, n)
    PROVE  Meets(b, c, d + n, L)
<1>0. b.idx \in Nat /\ b.len \in Nat /\ b.out_len \in Nat /\ IsBuf(b, N) /\ d = b.out_len
  BY DEF Good, IsBuf, Holds, At
<1>1. CASE ~b.separate /\ b.out_len = b.idx
  <2>1. c = Advance(b, n, n)
    BY <1>1 DEF NextGlyphs
  <2>2. Advanced(b, c, n, n) /\ c.successful = b.successful
    BY <1>0, <2>1, AdvanceIs DEF Advance, IsBuf
  <2> DEFINE r == b.len - b.idx
  <2>3. /\ d \in Nat /\ r \in Nat /\ n <= r /\ c.idx = d + n /\ c.out_len = d + n
        /\ c.len - c.idx = r - n /\ b.idx = d
    BY <1>0, <1>1, <2>2 DEF Advanced
  <2>4. Behind(c) = b.info /\ c.info = b.info /\ Behind(b) = b.info /\ At(c) = d + n
    BY <1>1, <2>2, <2>3 DEF Advanced, Behind, Out, At
  <2>5. L \in Seq(Glyph) /\ Len(L) = d + r /\ Lies(b.info, 0, d, L, 0) /\ Lies(b.info, d, r, L, d)
    BY <2>3, <2>4 DEF Holds
  <2> HIDE DEF r
  <2>6. ASSUME NEW i \in 1 .. d + n PROVE b.info[0 + (i - 1)] = L[0 + i]
    <3>1. CASE i <= d
      BY <2>3, <2>5, <3>1 DEF Lies
    <3>2. CASE ~(i <= d)
      <4> DEFINE j == i - d
      <4>1. j \in 1 .. r /\ d + (j - 1) = 0 + (i - 1) /\ d + j = 0 + i
        BY <2>3, <3>2
      <4> HIDE DEF j
      <4>2. b.info[d + (j - 1)] = L[d + j]
        BY <2>5, <4>1 DEF Lies
      <4>. QED
        BY <4>1, <4>2
    <3>. QED
      BY <3>1, <3>2
  <2>7. ASSUME NEW i \in 1 .. r - n PROVE b.info[(d + n) + (i - 1)] = L[(d + n) + i]
    <3> DEFINE j == n + i
    <3>1. j \in 1 .. r /\ d + (j - 1) = (d + n) + (i - 1) /\ d + j = (d + n) + i
      BY <2>3
    <3> HIDE DEF j
    <3>2. b.info[d + (j - 1)] = L[d + j]
      BY <2>5, <3>1 DEF Lies
    <3>. QED
      BY <3>1, <3>2
  <2>8. Len(L) = (d + n) + (r - n)
    BY <2>3, <2>5
  <2>9. Holds(c, d + n, L)
    BY <2>3, <2>4, <2>5, <2>6, <2>7, <2>8 DEF Holds, Lies
  <2>. QED
    BY <2>2, <2>9 DEF Meets
<1>2. CASE ~(~b.separate /\ b.out_len = b.idx)
  <2> DEFINE Done(e) == Advance(Write(e, e.out_len, Part(e.info, e.idx, e.idx + n)), n, n)
  <2>1. PICK e \in Ensured(b, b.out_len + n) :
           c = IF Enough(e, b.out_len + n) THEN Done(Separated(e, n, n)) ELSE e
    BY <1>2 DEF NextGlyphs, WithRoom
  <2>2. ASSUME NEW s, Room(b, n, n, s), Holds(s, d, L) PROVE Becomes(s, Done(s), d + n, L)
    <3>1. PICK M \in Nat : Ready(b, s, M, n, n) /\ s.have_output
      BY <2>2 DEF Room
    <3>2. s.idx + n <= s.len
      BY <3>1 DEF Ready, Same
    <3>. QED
      BY <2>2, <3>1, <3>2, CopyHolds
  <2> HIDE DEF Done
  <2>. QED
    BY <2>1, <2>2, RoomMeets
<1>. QED
  BY <1>1, <1>2

\* The glyphs next to the cursor.
LEMMA HeadIs ==
    ASSUME NEW N \in Nat, NEW b, Good(b, N), NEW d, NEW L, Holds(b, d, L)
    PROVE  /\ d \in Nat /\ d <= Len(L) /\ Len(L) \in Nat
           /\ b.idx < b.len <=> d < Len(L)
           /\ b.idx < b.len => b.info[b.idx] = L[d + 1] /\ L[d + 1] \in Glyph
           /\ d > 0 => Behind(b)[d - 1] = L[d] /\ L[d] \in Glyph
<1> DEFINE x == b.idx
           z == b.len
<1>1. x \in Nat /\ z \in Nat /\ d \in Nat /\ x <= z
  BY Sizes DEF Holds
<1>2. /\ L \in Seq(Glyph) /\ Len(L) = d + (z - x) /\ Lies(b.info, x, z - x, L, d)
      /\ Lies(Behind(b), 0, d, L, 0)
  BY DEF Holds
<1> HIDE DEF x, z
<1>3. d <= Len(L) /\ (x < z <=> d < Len(L)) /\ Len(L) \in Nat
  <2>1. d + (z - x) \in Nat /\ d <= d + (z - x) /\ (x < z <=> d < d + (z - x))
    BY <1>1
  <2>. QED
    BY <1>2, <2>1
<1>4. ASSUME x < z PROVE b.info[x] = L[d + 1] /\ L[d + 1] \in Glyph
  <2>1. 1 \in 1 .. z - x /\ x + (1 - 1) = x
    BY <1>1, <1>4
  <2>2. b.info[x + (1 - 1)] = L[d + 1]
    BY <1>2, <2>1 DEF Lies
  <2>3. d + 1 \in 1 .. d + (z - x)
    BY <1>1, <1>4
  <2>. QED
    BY <1>2, <2>1, <2>2, <2>3
<1>5. ASSUME d > 0 PROVE Behind(b)[d - 1] = L[d] /\ L[d] \in Glyph
  <2>1. d \in 1 .. d /\ 0 + (d - 1) = d - 1 /\ 0 + d = d /\ d \in 1 .. d + (z - x)
    BY <1>1, <1>5
  <2>2. Behind(b)[0 + (d - 1)] = L[0 + d]
    BY <1>2, <2>1 DEF Lies
  <2>. QED
    BY <1>2, <2>1, <2>2
<1>. QED
  BY <1>1, <1>3, <1>4, <1>5 DEF x, z

LEMMA LikeIs ==
    ASSUME NEW glyph \in Glyph, NEW l \in Nat, NEW codes \in Seq(Codes), Len(codes) = l
    PROVE  Like(glyph, codes) \in Seq(Glyph) /\ Len(Like(glyph, codes)) = l
<1>1. DOMAIN codes = 1 .. l /\ \A i \in 1 .. l : codes[i] \in Codes
  OBVIOUS
<1> DEFINE list == Like(glyph, codes)
<1>2. list = [k \in 1 .. l |-> [glyph EXCEPT !.code = codes[k]]]
  BY <1>1 DEF Like
<1>3. \A k \in 1 .. l : [glyph EXCEPT !.code = codes[k]] \in Glyph
  BY <1>1 DEF Glyph
<1>4. list \in [1 .. l -> Glyph]
  BY <1>2, <1>3
<1> HIDE DEF list
<1>5. list \in Seq(Glyph) /\ Len(list) = l
  BY <1>4
<1>. QED
  BY <1>5 DEF list

Inserted(L, d, code) ==
    IF L = <<>> THEN L
    ELSE PutAt(L, d, 0, Like(IF d < Len(L) THEN L[d + 1] ELSE L[d], <<code>>))

LEMMA OutputGlyphMeets ==
    ASSUME NEW N \in Nat, NEW b, Good(b, N), b.have_output, NEW code \in Codes,
           NEW d, NEW L, Holds(b, d, L), NEW c \in OutputGlyph(b, code)
    PROVE  Meets(b, c, IF L = <<>> THEN d ELSE d + 1, Inserted(L, d, code))
<1> DEFINE From(s) == IF s.idx < s.len THEN s.info[s.idx] ELSE Out(s)[s.out_len - 1]
           Done(s) == IF s.idx = s.len /\ s.out_len = 0 THEN s
                      ELSE Advance(Write(s, s.out_len, Like(From(s), <<code>>)), 0, 1)
           f == IF L = <<>> THEN d ELSE d + 1
           P == Inserted(L, d, code)
<1>1. PICK e \in Ensured(b, b.out_len + 1) :
         c = IF Enough(e, b.out_len + 1) THEN Done(Separated(e, 0, 1)) ELSE e
  BY DEF OutputGlyph, WithRoom
<1>2. ASSUME NEW s, Room(b, 0, 1, s), Holds(s, d, L) PROVE Becomes(s, Done(s), f, P)
  <2>1. PICK M \in Nat : Ready(b, s, M, 0, 1) /\ Good(s, M) /\ s.have_output
    BY <1>2 DEF Room, Ready
  <2>2. s.idx \in Nat /\ s.len \in Nat /\ s.out_len \in Nat /\ s.idx <= s.len /\ s.idx + 0 <= s.len
        /\ d = s.out_len /\ Behind(s) = Out(s)
    BY <1>2, <2>1 DEF Good, IsBuf, Holds, At, Behind
  <2>3. /\ d \in Nat /\ d <= Len(L) /\ Len(L) \in Nat
        /\ s.idx < s.len <=> d < Len(L)
        /\ s.idx < s.len => s.info[s.idx] = L[d + 1] /\ L[d + 1] \in Glyph
        /\ d > 0 => Out(s)[d - 1] = L[d] /\ L[d] \in Glyph
    BY <1>2, <2>1, <2>2, HeadIs
  <2>4. L = <<>> <=> Len(L) = 0
    BY <1>2 DEF Holds
  <2>5. L = <<>> <=> s.idx = s.len /\ s.out_len = 0
    BY <2>2, <2>3, <2>4
  <2>6. CASE L = <<>>
    BY <1>2, <2>5, <2>6 DEF Becomes, Inserted
  <2>7. CASE L # <<>>
    <3> DEFINE g == IF d < Len(L) THEN L[d + 1] ELSE L[d]
               list == Like(g, <<code>>)
    <3>1. From(s) = g /\ g \in Glyph
      BY <2>2, <2>3, <2>4, <2>7
    <3> HIDE DEF g
    <3>2. <<code>> \in Seq(Codes) /\ Len(<<code>>) = 1
      OBVIOUS
    <3>3. list \in Seq(Glyph) /\ Len(list) = 1
      BY <3>1, <3>2, LikeIs
    <3>4. Done(s) = Advance(Write(s, s.out_len, list), 0, 1)
      BY <2>5, <2>7, <3>1
    <3> HIDE DEF list, Done
    <3>5. Becomes(s, Advance(Write(s, s.out_len, list), 0, 1), d + 1, PutAt(L, d, 0, list))
      BY <1>2, <2>1, <2>2, <3>3, PutHolds
    <3>6. P = PutAt(L, d, 0, list) /\ f = d + 1
      BY <2>7 DEF Inserted, list, g
    <3>. QED
      BY <3>4, <3>5, <3>6
  <2>. QED
    BY <2>6, <2>7
<1> HIDE DEF Done, f, P
<1>3. Meets(b, c, f, P)
  BY <1>1, <1>2, RoomMeets
<1>. QED
  BY <1>3 DEF f, P

LEMMA CopyGlyphMeets ==
    ASSUME NEW N \in Nat, NEW b, Good(b, N), b.have_output, b.idx < b.len,
           NEW d, NEW L, Holds(b, d, L), NEW c \in CopyGlyph(b)
    PROVE  Meets(b, c, d + 1, PutAt(L, d, 0, <<L[d + 1]>>))
<1> DEFINE Done(s) == Advance(Write(s, s.out_len, <<s.info[s.idx]>>), 0, 1)
           P == PutAt(L, d, 0, <<L[d + 1]>>)
<1>1. PICK e \in Ensured(b, b.out_len + 1) :
         c = IF Enough(e, b.out_len + 1) THEN Done(Separated(e, 0, 1)) ELSE e
  BY DEF CopyGlyph, WithRoom
<1>2. ASSUME NEW s, Room(b, 0, 1, s), Holds(s, d, L) PROVE Becomes(s, Done(s), d + 1, P)
  <2>1. PICK M \in Nat : Ready(b, s, M, 0, 1) /\ Good(s, M) /\ s.have_output
    BY <1>2 DEF Room, Ready
  <2>2. s.idx < s.len /\ s.idx + 0 <= s.len
    BY <2>1 DEF Good, IsBuf, Ready, Same
  <2>3. s.info[s.idx] = L[d + 1] /\ L[d + 1] \in Glyph
    BY <1>2, <2>1, <2>2, HeadIs
  <2>4. <<L[d + 1]>> \in Seq(Glyph) /\ Len(<<L[d + 1]>>) = 1
    BY <2>3
  <2> DEFINE list == <<L[d + 1]>>
  <2> HIDE DEF list
  <2>5. Becomes(s, Advance(Write(s, s.out_len, list), 0, 1), d + 1, PutAt(L, d, 0, list))
    BY <1>2, <2>1, <2>2, <2>4, PutHolds DEF list
  <2>. QED
    BY <2>3, <2>5 DEF list
<1> HIDE DEF Done, P
<1>3. Meets(b, c, d + 1, P)
  BY <1>1, <1>2, RoomMeets
<1>. QED
  BY <1>3 DEF P

LEMMA ReplaceGlyphMeets ==
    ASSUME NEW N \in Nat, NEW b, Good(b, N), b.have_output, b.idx < b.len, NEW code \in Codes,
           NEW d, NEW L, Holds(b, d, L), NEW c \in ReplaceGlyph(b, code)
    PROVE  Meets(b, c, d + 1, PutAt(L, d, 1, Like(L[d + 1], <<code>>)))
<1> DEFINE Done(s) == Advance(Write(s, s.out_len, Like(s.info[s.idx], <<code>>)), 1, 1)
           P == PutAt(L, d, 1, Like(L[d + 1], <<code>>))
<1>1. ASSUME NEW s, Room(b, 1, 1, s), Holds(s, d, L) PROVE Becomes(s, Done(s), d + 1, P)
  <2>1. PICK M \in Nat : Ready(b, s, M, 1, 1) /\ Good(s, M) /\ s.have_output
    BY <1>1 DEF Room, Ready
  <2>2. s.idx < s.len /\ s.idx + 1 <= s.len
    BY <2>1 DEF Good, IsBuf, Ready, Same
  <2>3. s.info[s.idx] = L[d + 1] /\ L[d + 1] \in Glyph
    BY <1>1, <2>1, <2>2, HeadIs
  <2>4. <<code>> \in Seq(Codes) /\ Len(<<code>>) = 1
    OBVIOUS
  <2> DEFINE list == Like(L[d + 1], <<code>>)
  <2>5. list \in Seq(Glyph) /\ Len(list) = 1
    BY <2>3, <2>4, LikeIs
  <2> HIDE DEF list
  <2>6. Becomes(s, Advance(Write(s, s.out_len, list), 1, 1), d + 1, PutAt(L, d, 1, list))
    BY <1>1, <2>1, <2>2, <2>5, PutHolds
  <2>. QED
    BY <2>3, <2>6 DEF list
<1>2. CASE b.separate \/ b.out_len # b.idx
  <2>1. PICK e \in Ensured(b, b.out_len + 1) :
           c = IF Enough(e, b.out_len + 1) THEN Done(Separated(e, 1, 1)) ELSE e
    BY <1>2 DEF ReplaceGlyph, WithRoom
  <2> HIDE DEF Done, P
  <2>2. Meets(b, c, d + 1, P)
    BY <1>1, <2>1, RoomMeets
  <2>. QED
    BY <2>2 DEF P
<1>3. CASE ~(b.separate \/ b.out_len # b.idx)
  <2>1. c = Done(b)
    BY <1>3 DEF ReplaceGlyph
  <2>2. Ready(b, b, N, 1, 1)
    BY <1>3 DEF Ready, Good, IsBuf, Same
  <2>3. Room(b, 1, 1, b)
    BY <2>2 DEF Room
  <2> HIDE DEF Done, P
  <2>4. Meets(b, c, d + 1, P)
    BY <1>1, <2>1, <2>3 DEF Meets, Becomes
  <2>. QED
    BY <2>4 DEF P
<1>. QED
  BY <1>2, <1>3

\* A glyph of the input that is skipped is gone.
LEMMA SkipHolds ==
    ASSUME NEW N \in Nat, NEW b, Good(b, N), b.have_output, b.idx < b.len,
           NEW d, NEW L, Holds(b, d, L)
    PROVE  Becomes(b, Advance(b, 1, 0), d, PutAt(L, d, 1, <<>>))
<1> DEFINE x == b.idx
           r == b.len - b.idx
           a == Advance(b, 1, 0)
           P == PutAt(L, d, 1, <<>>)
<1>0. IsBuf(b, N) /\ b.out_len \in Nat
  BY DEF Good, IsBuf
<1>1. x \in Nat /\ r \in Nat /\ r > 0 /\ d \in Nat /\ d = b.out_len /\ b.len = x + r
  BY Sizes DEF Holds, At
<1>2. Advanced(b, a, 1, 0) /\ a.successful = b.successful
  BY <1>0, AdvanceIs DEF Advance, IsBuf
<1>3. a.idx = x + 1 /\ a.len - a.idx = r - 1 /\ a.info = b.info /\ At(a) = d /\ Behind(a) = Behind(b)
  <2>1. a.idx = x + 1 /\ a.len = b.len /\ a.out_len = b.out_len + 0 /\ a.info = b.info
        /\ a.have_output /\ Out(a) = Out(b)
    BY <1>2 DEF Advanced, Out
  <2>2. (x + r) - (x + 1) = r - 1 /\ b.out_len + 0 = d
    BY <1>1
  <2>. QED
    BY <1>1, <2>1, <2>2 DEF At, Behind
<1>4. /\ L \in Seq(Glyph) /\ Len(L) = d + r /\ Lies(Behind(b), 0, d, L, 0) /\ Lies(b.info, x, r, L, d)
  BY DEF Holds
<1> HIDE DEF x, r, a
<1>5. d + 1 <= Len(L) /\ <<>> \in Seq(Glyph) /\ Len(<<>>) = 0
  BY <1>1, <1>4
<1>6. IsPut(P, L, d, 1, <<>>)
  BY <1>1, <1>4, <1>5, PutIs
<1> HIDE DEF P
<1>7. P \in Seq(Glyph) /\ Len(P) = d + (r - 1)
  <2>1. P \in Seq(Glyph) /\ Len(P) = (Len(L) - 1) + 0
    BY <1>5, <1>6 DEF IsPut
  <2>2. ((d + r) - 1) + 0 = d + (r - 1)
    BY <1>1
  <2>. QED
    BY <1>4, <2>1, <2>2
<1>8. ASSUME NEW i \in 1 .. d PROVE Behind(a)[0 + (i - 1)] = P[0 + i]
  <2>1. 0 + i = i
    BY <1>1
  <2>. QED
    BY <1>3, <1>4, <1>6, <2>1 DEF IsPut, Lies
<1>9. ASSUME NEW i \in 1 .. r - 1 PROVE a.info[(x + 1) + (i - 1)] = P[d + i]
  <2> DEFINE j == 1 + i
  <2>1. /\ j \in 1 .. r /\ x + (j - 1) = (x + 1) + (i - 1) /\ d + j = (d + 1) + i /\ d + 0 + i = d + i
        /\ (d + r) - d - 1 = r - 1
    BY <1>1
  <2> HIDE DEF j
  <2>2. b.info[x + (j - 1)] = L[d + j]
    BY <1>4, <2>1 DEF Lies
  <2>3. P[d + 0 + i] = L[(d + 1) + i]
    BY <1>4, <1>5, <1>6, <2>1 DEF IsPut
  <2>. QED
    BY <1>3, <2>1, <2>2, <2>3
<1>10. Holds(a, d, P)
  BY <1>3, <1>7, <1>8, <1>9 DEF Holds, Lies
<1>. QED
  BY <1>2, <1>10 DEF Becomes, a, P
-----------------------------------------------------------------------------
(***************************************************************************)
(* Clusters in the list.                                                   *)
(***************************************************************************)
MarkedList(L, K, cluster) ==
    [i \in DOMAIN L |-> IF i \in K THEN [L[i] EXCEPT !.cluster = cluster] ELSE L[i]]

\* K is where the list has the glyphs ins of the input and outs of the output.
Places(b, d, ins, outs, K) ==
    /\ \A i \in 1 .. d : i \in K <=> 0 + (i - 1) \in outs
    /\ \A i \in 1 .. b.len - b.idx : d + i \in K <=> b.idx + (i - 1) \in ins

IsMarkedList(P, L, K, cluster) ==
    /\ P \in Seq(Glyph) /\ Len(P) = Len(L)
    /\ \A i \in 1 .. Len(L) : P[i] = IF i \in K THEN [L[i] EXCEPT !.cluster = cluster] ELSE L[i]

LEMMA MarkedListIs ==
    ASSUME NEW L \in Seq(Glyph), NEW K, NEW cluster \in Nat
    PROVE  IsMarkedList(MarkedList(L, K, cluster), L, K, cluster)
<1> DEFINE P == MarkedList(L, K, cluster)
           n == Len(L)
<1>1. n \in Nat /\ DOMAIN L = 1 .. n /\ \A i \in 1 .. n : L[i] \in Glyph
  OBVIOUS
<1> HIDE DEF n
<1>2. P = [i \in 1 .. n |-> IF i \in K THEN [L[i] EXCEPT !.cluster = cluster] ELSE L[i]]
  BY <1>1 DEF MarkedList
<1> HIDE DEF P
<1>3. \A i \in 1 .. n : P[i] = IF i \in K THEN [L[i] EXCEPT !.cluster = cluster] ELSE L[i]
  BY <1>2
<1>4. \A g \in Glyph : [g EXCEPT !.cluster = cluster] \in Glyph
  BY DEF Glyph
<1>5. \A i \in 1 .. n : P[i] \in Glyph
  BY <1>1, <1>3, <1>4
<1>6. P \in [1 .. n -> Glyph]
  BY <1>2, <1>5
<1>7. P \in Seq(Glyph) /\ Len(P) = n
  BY <1>1, <1>6
<1>. QED
  BY <1>3, <1>7 DEF IsMarkedList, P, n

IsMarked(mem, new, N, ks, cluster) ==
    \A k \in 0 .. N - 1 : new[k] = IF k \in ks THEN [mem[k] EXCEPT !.cluster = cluster] ELSE mem[k]

LEMMA MarkedCells ==
    ASSUME NEW N \in Nat, NEW mem \in Mem(N), NEW ks, NEW cluster
    PROVE  IsMarked(mem, Marked(mem, ks, cluster), N, ks, cluster)
<1>1. DOMAIN mem = 0 .. N - 1
  BY DEF Mem
<1>. QED
  BY <1>1 DEF IsMarked, Marked

LEMMA ClusteredHolds ==
    ASSUME NEW N \in Nat, NEW b, Good(b, N), NEW d, NEW L, Holds(b, d, L), NEW cluster \in Nat,
           NEW ins \in SUBSET (b.idx .. b.len - 1), NEW outs \in SUBSET (0 .. b.out_len - 1),
           NEW K, Places(b, d, ins, outs, K)
    PROVE  Becomes(b, Clustered(b, ins, outs, cluster), d, MarkedList(L, K, cluster))
<1> DEFINE c == Clustered(b, ins, outs, cluster)
           P == MarkedList(L, K, cluster)
           x == b.idx
           r == b.len - b.idx
           New(g) == [g EXCEPT !.cluster = cluster]
<1>1. /\ x \in Nat /\ r \in Nat /\ d \in Nat /\ d <= N /\ x + r <= N /\ b.len = x + r
      /\ b.out_len \in Nat /\ d = At(b)
  <2>1. b.len <= N
    BY Sizes
  <2>. QED
    BY <2>1, Sizes DEF Holds
<1>2. IsBuf(b, N) /\ b.info \in Mem(N) /\ b.pos \in Mem(N)
  BY DEF Good, IsBuf
<1>3. L \in Seq(Glyph) /\ Len(L) = d + r /\ Lies(Behind(b), 0, d, L, 0) /\ Lies(b.info, x, r, L, d)
  BY DEF Holds
<1> HIDE DEF P, x, r
<1>4. IsMarkedList(P, L, K, cluster)
  BY <1>3, MarkedListIs DEF P
<1>5. Good(c, N) /\ Kept(b, c)
  BY ClusteredIs
<1>6. c.idx = x /\ c.len - c.idx = r /\ At(c) = d
  BY <1>1, <1>5 DEF Kept, Same, At, x, r
\* What the cells in use become.
<1>7. /\ \A k \in 0 .. d - 1 : Behind(c)[k] = IF k \in outs THEN New(Behind(b)[k]) ELSE Behind(b)[k]
      /\ \A k \in x .. (x + r) - 1 : c.info[k] = IF k \in ins THEN New(b.info[k]) ELSE b.info[k]
      /\ c.successful = b.successful
  <2>1. /\ \A k \in 0 .. d - 1 : k \in 0 .. N - 1
        /\ \A k \in x .. (x + r) - 1 : k \in 0 .. N - 1
    BY <1>1
  <2>2. CASE b.separate
    <3> DEFINE info == Marked(b.info, ins, cluster)
               pos == Marked(b.pos, outs, cluster)
    <3>1. c = [b EXCEPT !.info = info, !.pos = pos]
      BY <2>2, Zenon DEF Clustered, Marked
    <3>2. IsMarked(b.info, info, N, ins, cluster) /\ IsMarked(b.pos, pos, N, outs, cluster)
      BY <1>2, MarkedCells
    <3> HIDE DEF info, pos, c
    <3>3. c.info = info /\ c.pos = pos /\ c.successful = b.successful
      BY <1>2, <3>1 DEF IsBuf
    <3>4. b.have_output /\ Behind(b) = b.pos /\ Behind(c) = pos
      BY <1>5, <2>2, <3>3 DEF Good, Behind, Out, Kept, Same
    <3>. QED
      BY <2>1, <3>2, <3>3, <3>4 DEF IsMarked
  <2>3. CASE ~b.separate
    <3> DEFINE info == Marked(b.info, ins \union outs, cluster)
    <3>1. c = [b EXCEPT !.info = info]
      BY <2>3, Zenon DEF Clustered, Marked
    <3>2. IsMarked(b.info, info, N, ins \union outs, cluster)
      BY <1>2, MarkedCells
    <3> HIDE DEF info, c
    <3>3. c.info = info /\ c.successful = b.successful
      BY <1>2, <3>1 DEF IsBuf
    <3>4. Behind(b) = b.info /\ Behind(c) = info
      BY <1>5, <2>3, <3>3 DEF Behind, Out, Kept, Same
    <3>5. /\ \A k \in outs : k \notin x .. (x + r) - 1
          /\ \A k \in ins : k \notin 0 .. d - 1
      <4>1. b.have_output => d = b.out_len /\ d <= x
        BY <1>1, <2>3 DEF Good, At, x
      <4>2. ~b.have_output => d = x /\ outs = {}
        BY <1>1 DEF Good, At, x
      <4>. QED
        BY <1>1, <4>1, <4>2 DEF x
    <3>6. ASSUME NEW k \in 0 .. d - 1 PROVE info[k] = IF k \in outs THEN New(b.info[k]) ELSE b.info[k]
      <4>1. k \in ins \union outs <=> k \in outs
        BY <3>5
      <4>. QED
        BY <2>1, <3>2, <4>1 DEF IsMarked
    <3>7. ASSUME NEW k \in x .. (x + r) - 1 PROVE info[k] = IF k \in ins THEN New(b.info[k]) ELSE b.info[k]
      <4>1. k \in ins \union outs <=> k \in ins
        BY <3>5
      <4>. QED
        BY <2>1, <3>2, <4>1 DEF IsMarked
    <3>. QED
      BY <3>3, <3>4, <3>6, <3>7
  <2>. QED
    BY <2>2, <2>3
<1> HIDE DEF c
<1>8. ASSUME NEW i \in 1 .. d PROVE Behind(c)[0 + (i - 1)] = P[0 + i]
  <2>1. 0 + (i - 1) \in 0 .. d - 1 /\ i \in 1 .. Len(L) /\ 0 + i = i
    <3>1. i \in 1 .. d + r /\ 0 + (i - 1) \in 0 .. d - 1 /\ 0 + i = i
      BY <1>1
    <3>. QED
      BY <1>3, <3>1
  <2>2. Behind(b)[0 + (i - 1)] = L[i]
    BY <1>3, <2>1 DEF Lies
  <2>3. i \in K <=> 0 + (i - 1) \in outs
    BY DEF Places
  <2>4. P[i] = IF i \in K THEN New(L[i]) ELSE L[i]
    BY <1>4, <2>1 DEF IsMarkedList
  <2>. QED
    BY <1>7, <2>1, <2>2, <2>3, <2>4
<1>9. ASSUME NEW i \in 1 .. r PROVE c.info[x + (i - 1)] = P[d + i]
  <2>1. x + (i - 1) \in x .. (x + r) - 1 /\ d + i \in 1 .. d + r
    BY <1>1
  <2>2. b.info[x + (i - 1)] = L[d + i]
    BY <1>3 DEF Lies
  <2>3. d + i \in K <=> x + (i - 1) \in ins
    BY DEF Places, x, r
  <2>4. P[d + i] = IF d + i \in K THEN New(L[d + i]) ELSE L[d + i]
    BY <1>3, <1>4, <2>1 DEF IsMarkedList
  <2>. QED
    BY <1>7, <2>1, <2>2, <2>3, <2>4
<1>10. P \in Seq(Glyph) /\ Len(P) = d + r
  BY <1>3, <1>4 DEF IsMarkedList
<1>11. Holds(c, d, P)
  BY <1>6, <1>8, <1>9, <1>10 DEF Holds, Lies
<1>. QED
  BY <1>7, <1>11 DEF Becomes, c, P

\* The glyphs lo..hi have the cluster v.
AllSame(f, lo, hi, v) == \A k \in lo .. hi : f[k].cluster = v

SameBoth(mem, from, L, m, lo, hi, v) ==
    AllSame(mem, from + (lo - 1), from + (hi - 1), v) <=> AllSame(L, m + lo, m + hi, v)

LEMMA SameInList ==
    ASSUME NEW mem, NEW from \in Nat, NEW n \in Nat, NEW L, NEW m \in Nat, Lies(mem, from, n, L, m),
           NEW lo \in 1 .. n, NEW hi \in 1 .. n, NEW v
    PROVE  SameBoth(mem, from, L, m, lo, hi, v)
<1>1. ASSUME AllSame(mem, from + (lo - 1), from + (hi - 1), v), NEW k \in m + lo .. m + hi
      PROVE  L[k].cluster = v
  <2> DEFINE i == k - m
  <2>1. i \in 1 .. n /\ m + i = k /\ from + (i - 1) \in from + (lo - 1) .. from + (hi - 1)
    OBVIOUS
  <2> HIDE DEF i
  <2>2. mem[from + (i - 1)] = L[m + i]
    BY <2>1 DEF Lies
  <2>. QED
    BY <1>1, <2>1, <2>2 DEF AllSame
<1>2. ASSUME AllSame(L, m + lo, m + hi, v), NEW k \in from + (lo - 1) .. from + (hi - 1)
      PROVE  mem[k].cluster = v
  <2> DEFINE i == (k - from) + 1
  <2>1. i \in 1 .. n /\ from + (i - 1) = k /\ m + i \in m + lo .. m + hi
    OBVIOUS
  <2> HIDE DEF i
  <2>2. mem[from + (i - 1)] = L[m + i]
    BY <2>1 DEF Lies
  <2>. QED
    BY <1>2, <2>1, <2>2 DEF AllSame
<1>. QED
  BY <1>1, <1>2 DEF AllSame, SameBoth

LEMMA InRun ==
    ASSUME NEW mem, NEW from, NEW to, NEW first, NEW last, NEW k
    PROVE  k \in Run(mem, from, to, first, last) <=>
             \/ k \in from .. to - 1
             \/ k \in first .. from - 1 /\ AllSame(mem, k, from, mem[from].cluster)
             \/ k \in to .. last /\ AllSame(mem, to - 1, k, mem[to - 1].cluster)
  BY DEF Run, AllSame

LEMMA InReach ==
    ASSUME NEW L \in Seq(Glyph), NEW s, NEW e, NEW i \in 1 .. Len(L)
    PROVE  i \in List!Reach(L, s, e) <=>
             \/ i \in s .. e
             \/ i < s /\ AllSame(L, i, s, L[s].cluster)
             \/ i > e /\ AllSame(L, e, i, L[e].cluster)
<1>1. i \in DOMAIN L
  OBVIOUS
<1>. QED
  BY <1>1 DEF List!Reach, AllSame

\* A run in memory is a run in the list.
RunsAgree(mem, from, n, L, m, s, e, i) ==
    m + i \in List!Reach(L, m + s, m + e) <=>
      from + (i - 1) \in Run(mem, from + (s - 1), from + e, from, (from + n) - 1)

LEMMA RunReach ==
    ASSUME NEW mem, NEW from \in Nat, NEW n \in Nat, NEW L \in Seq(Glyph), NEW m \in Nat,
           Lies(mem, from, n, L, m), m + n <= Len(L),
           NEW s \in 1 .. n, NEW e \in 1 .. n, s < e, NEW i \in 1 .. n
    PROVE  RunsAgree(mem, from, n, L, m, s, e, i)
<1> DEFINE k == from + (i - 1)
           a == from + (s - 1)
           z == from + (e - 1)
<1>1. (from + e) - 1 = z
  OBVIOUS
<1>2. mem[a] = L[m + s] /\ mem[z] = L[m + e]
  BY DEF Lies
<1>3. /\ SameBoth(mem, from, L, m, i, s, L[m + s].cluster)
      /\ SameBoth(mem, from, L, m, e, i, L[m + e].cluster)
  BY SameInList
<1>4. /\ AllSame(mem, k, a, L[m + s].cluster) <=> AllSame(L, m + i, m + s, L[m + s].cluster)
      /\ AllSame(mem, z, k, L[m + e].cluster) <=> AllSame(L, m + e, m + i, L[m + e].cluster)
  BY <1>3 DEF SameBoth
<1>5. /\ k \in a .. (from + e) - 1 <=> m + i \in m + s .. m + e
      /\ k \in from .. a - 1 <=> m + i < m + s
      /\ k \in from + e .. (from + n) - 1 <=> m + i > m + e
  OBVIOUS
<1>6. k \in Run(mem, a, from + e, from, (from + n) - 1) <=>
        \/ k \in a .. (from + e) - 1
        \/ k \in from .. a - 1 /\ AllSame(mem, k, a, mem[a].cluster)
        \/ k \in from + e .. (from + n) - 1 /\ AllSame(mem, (from + e) - 1, k, mem[(from + e) - 1].cluster)
  BY InRun, Zenon
<1>7. m + i \in 1 .. Len(L)
  <2>1. Len(L) \in Nat
    OBVIOUS
  <2>. QED
    BY <2>1
<1>8. m + i \in List!Reach(L, m + s, m + e) <=>
        \/ m + i \in m + s .. m + e
        \/ m + i < m + s /\ AllSame(L, m + i, m + s, L[m + s].cluster)
        \/ m + i > m + e /\ AllSame(L, m + e, m + i, L[m + e].cluster)
  BY <1>7, InReach, Zenon
<1> HIDE DEF k, a, z
<1>9. k \in Run(mem, a, from + e, from, (from + n) - 1) <=> m + i \in List!Reach(L, m + s, m + e)
  BY <1>1, <1>2, <1>4, <1>5, <1>6, <1>8
<1>. QED
  BY <1>9 DEF RunsAgree, k, a

LeastAgree(mem, from, L, m, s, e) ==
    Least(mem, from + (s - 1), from + e) = Min({L[i].cluster : i \in m + s .. m + e})

LEMMA LeastSame ==
    ASSUME NEW mem, NEW from \in Nat, NEW n \in Nat, NEW L, NEW m \in Nat, Lies(mem, from, n, L, m),
           NEW s \in 1 .. n, NEW e \in 1 .. n
    PROVE  LeastAgree(mem, from, L, m, s, e)
<1>1. ASSUME NEW i \in m + s .. m + e
      PROVE  \E k \in from + (s - 1) .. (from + e) - 1 : mem[k].cluster = L[i].cluster
  <2> DEFINE j == i - m
  <2>1. j \in 1 .. n /\ m + j = i /\ from + (j - 1) \in from + (s - 1) .. (from + e) - 1
    OBVIOUS
  <2> HIDE DEF j
  <2>2. mem[from + (j - 1)] = L[m + j]
    BY <2>1 DEF Lies
  <2>. QED
    BY <2>1, <2>2
<1>2. ASSUME NEW k \in from + (s - 1) .. (from + e) - 1
      PROVE  \E i \in m + s .. m + e : L[i].cluster = mem[k].cluster
  <2> DEFINE j == (k - from) + 1
  <2>1. j \in 1 .. n /\ from + (j - 1) = k /\ m + j \in m + s .. m + e
    OBVIOUS
  <2> HIDE DEF j
  <2>2. mem[from + (j - 1)] = L[m + j]
    BY <2>1 DEF Lies
  <2>. QED
    BY <2>1, <2>2
<1>3. {mem[k].cluster : k \in from + (s - 1) .. (from + e) - 1} = {L[i].cluster : i \in m + s .. m + e}
  BY <1>1, <1>2
<1>. QED
  BY <1>3 DEF Least, LeastAgree

\* What reaches over the cursor goes on up to it and from there.
LEMMA CrossBack ==
    ASSUME NEW L \in Seq(Glyph), NEW d \in Nat, NEW s \in Nat \ {0}, NEW e \in Nat, s < e, d + e <= Len(L),
           NEW i \in 1 .. d
    PROVE  i \in List!Reach(L, d + s, d + e) <=>
             /\ d + 1 \in List!Reach(L, d + s, d + e)
             /\ AllSame(L, i, d, L[d + 1].cluster)
<1> DEFINE v == L[d + s].cluster
           R == List!Reach(L, d + s, d + e)
           l == Len(L)
<1>0. l \in Nat
  OBVIOUS
<1>1. i \in 1 .. l /\ d + 1 \in 1 .. l
  BY <1>0
<1> HIDE DEF l, v
<1>2. i \in R <=> \/ i \in d + s .. d + e
                  \/ i < d + s /\ AllSame(L, i, d + s, v)
                  \/ i > d + e /\ AllSame(L, d + e, i, L[d + e].cluster)
  BY <1>1, InReach, Zenon DEF l, v
<1>3. d + 1 \in R <=> \/ d + 1 \in d + s .. d + e
                      \/ d + 1 < d + s /\ AllSame(L, d + 1, d + s, v)
                      \/ d + 1 > d + e /\ AllSame(L, d + e, d + 1, L[d + e].cluster)
  BY <1>1, InReach, Zenon DEF l, v
<1> HIDE DEF R
<1>4. i \in R <=> AllSame(L, i, d + s, v)
  <2>1. i < d + s /\ ~(i > d + e) /\ i \notin d + s .. d + e
    OBVIOUS
  <2>. QED
    BY <1>2, <2>1
<1>5. d + 1 \in R <=> s = 1 \/ AllSame(L, d + 1, d + s, v)
  <2>1. ~(d + 1 > d + e) /\ (d + 1 \in d + s .. d + e <=> s = 1) /\ (d + 1 < d + s <=> s # 1)
    OBVIOUS
  <2>. QED
    BY <1>3, <2>1
<1>6. s = 1 => AllSame(L, d + 1, d + s, v)
  BY DEF AllSame, v
<1>7. AllSame(L, d + 1, d + s, v) => L[d + 1].cluster = v
  <2>1. d + 1 \in d + 1 .. d + s
    OBVIOUS
  <2>. QED
    BY <2>1 DEF AllSame
<1>8. AllSame(L, i, d + s, v) <=> AllSame(L, i, d, v) /\ AllSame(L, d + 1, d + s, v)
  <2>1. \A k \in i .. d + s : k \in i .. d \/ k \in d + 1 .. d + s
    OBVIOUS
  <2>2. \A k \in i .. d : k \in i .. d + s
    OBVIOUS
  <2>3. \A k \in d + 1 .. d + s : k \in i .. d + s
    OBVIOUS
  <2>. QED
    BY <2>1, <2>2, <2>3 DEF AllSame
<1>9. i \in R <=> d + 1 \in R /\ AllSame(L, i, d, L[d + 1].cluster)
  BY <1>4, <1>5, <1>6, <1>7, <1>8
<1>. QED
  BY <1>9 DEF R

LEMMA CrossOn ==
    ASSUME NEW L \in Seq(Glyph), NEW d \in Nat, NEW s \in Nat \ {0}, NEW e \in Nat, s < e, e <= d,
           NEW i \in Nat \ {0}, d + i <= Len(L)
    PROVE  d + i \in List!Reach(L, s, e) <=>
             /\ d \in List!Reach(L, s, e)
             /\ AllSame(L, d + 1, d + i, L[d].cluster)
<1> DEFINE v == L[e].cluster
           R == List!Reach(L, s, e)
           l == Len(L)
<1>0. l \in Nat
  OBVIOUS
<1>1. d + i \in 1 .. l /\ d \in 1 .. l
  BY <1>0
<1> HIDE DEF l, v
<1>2. d + i \in R <=> \/ d + i \in s .. e
                      \/ d + i < s /\ AllSame(L, d + i, s, L[s].cluster)
                      \/ d + i > e /\ AllSame(L, e, d + i, v)
  BY <1>1, InReach, Zenon DEF l, v
<1>3. d \in R <=> \/ d \in s .. e
                  \/ d < s /\ AllSame(L, d, s, L[s].cluster)
                  \/ d > e /\ AllSame(L, e, d, v)
  BY <1>1, InReach, Zenon DEF l, v
<1> HIDE DEF R
<1>4. d + i \in R <=> AllSame(L, e, d + i, v)
  <2>1. d + i > e /\ ~(d + i < s) /\ d + i \notin s .. e
    OBVIOUS
  <2>. QED
    BY <1>2, <2>1
<1>5. d \in R <=> d = e \/ AllSame(L, e, d, v)
  <2>1. ~(d < s) /\ (d \in s .. e <=> d = e) /\ (d > e <=> d # e)
    OBVIOUS
  <2>. QED
    BY <1>3, <2>1
<1>6. d = e => AllSame(L, e, d, v)
  BY DEF AllSame, v
<1>7. AllSame(L, e, d, v) => L[d].cluster = v
  <2>1. d \in e .. d
    OBVIOUS
  <2>. QED
    BY <2>1 DEF AllSame
<1>8. AllSame(L, e, d + i, v) <=> AllSame(L, e, d, v) /\ AllSame(L, d + 1, d + i, v)
  <2>1. \A k \in e .. d + i : k \in e .. d \/ k \in d + 1 .. d + i
    OBVIOUS
  <2>2. \A k \in e .. d : k \in e .. d + i
    OBVIOUS
  <2>3. \A k \in d + 1 .. d + i : k \in e .. d + i
    OBVIOUS
  <2>. QED
    BY <2>1, <2>2, <2>3 DEF AllSame
<1>9. d + i \in R <=> d \in R /\ AllSame(L, d + 1, d + i, L[d].cluster)
  BY <1>4, <1>5, <1>6, <1>7, <1>8
<1>. QED
  BY <1>9 DEF R

LEMMA MergedIs ==
    ASSUME NEW L, NEW s, NEW e, NEW least, least = Min({L[i].cluster : i \in s .. e})
    PROVE  /\ e <= s => List!Merged(L, s, e) = L
           /\ ~(e <= s) => List!Merged(L, s, e) = MarkedList(L, List!Reach(L, s, e), least)
<1>1. CASE e <= s
  BY <1>1, Zenon DEF List!Merged
<1>2. CASE ~(e <= s)
  <2>1. List!Merged(L, s, e) = MarkedList(L, List!Reach(L, s, e), Min({L[i].cluster : i \in s .. e}))
    BY <1>2, Zenon DEF List!Merged, MarkedList, Min, List!Min
  <2>. QED
    BY <1>2, <2>1
<1>. QED
  BY <1>1, <1>2

LEMMA MergeHolds ==
    ASSUME NEW N \in Nat, NEW b, Good(b, N), b.have_output \/ b.idx = 0, NEW d, NEW L, Holds(b, d, L),
           NEW start \in b.idx .. b.len, NEW end \in b.idx .. b.len
    PROVE  Becomes(b, MergeClusters(b, start, end), d,
                   List!Merged(L, d + ((start - b.idx) + 1), d + (end - b.idx)))
<1> DEFINE x == b.idx
           r == b.len - b.idx
           s == (start - b.idx) + 1
           e == end - b.idx
           c == MergeClusters(b, start, end)
           M == List!Merged(L, d + s, d + e)
           least == Min({L[i].cluster : i \in d + s .. d + e})
           K == List!Reach(L, d + s, d + e)
<1>1. x \in Nat /\ r \in Nat /\ d \in Nat /\ b.len = x + r /\ d = At(b)
  BY Sizes DEF Holds
<1>2. /\ L \in Seq(Glyph) /\ Len(L) = d + r /\ Lies(Behind(b), 0, d, L, 0) /\ Lies(b.info, x, r, L, d)
  BY DEF Holds
<1>3. s \in Int /\ e \in Int /\ start = x + (s - 1) /\ end = x + e /\ s >= 1 /\ e >= 0 /\ s - 1 <= r /\ e <= r
  BY <1>1
<1> HIDE DEF x, r, s, e
<1>4. CASE end - start < 2
  <2>1. d + e <= d + s
    BY <1>1, <1>3, <1>4
  <2>2. M = L /\ c = b
    BY <1>4, <2>1, MergedIs DEF MergeClusters
  <2>. QED
    BY <2>2 DEF Becomes, s, e
<1>5. CASE ~(end - start < 2)
  <2>1. s \in 1 .. r /\ e \in 1 .. r /\ s < e /\ ~(d + e <= d + s) /\ (x + r) - 1 = b.len - 1
    BY <1>1, <1>3, <1>5
  <2> DEFINE ins == Run(b.info, start, end, b.idx, b.len - 1)
             v == b.info[b.idx].cluster
             outs == IF b.idx \notin ins THEN {}
                     ELSE {i \in 0 .. b.out_len - 1 : AllSame(Out(b), i, b.out_len - 1, v)}
  <2>2. c = Clustered(b, ins, outs, Least(b.info, start, end))
    BY <1>5, Zenon DEF MergeClusters, AllSame
  <2>3. Least(b.info, start, end) = least
    <3>1. LeastAgree(b.info, x, L, d, s, e)
      BY <1>1, <1>2, <2>1, LeastSame
    <3>. QED
      BY <1>3, <3>1 DEF LeastAgree
  <2>4. Least(b.info, start, end) \in Nat
    <3>1. start \in Nat /\ end \in Nat /\ \A k \in start .. end - 1 : k \in b.idx .. b.len - 1
      BY <1>1 DEF x
    <3>2. \A k \in start .. end - 1 : b.info[k] \in Glyph
      BY <3>1 DEF Good
    <3>. QED
      BY <1>5, <3>1, <3>2, LeastIs
  <2>5. ins \in SUBSET (b.idx .. b.len - 1)
    <3>1. start \in Nat /\ end \in Nat /\ b.idx \in Nat /\ b.len \in Nat /\ b.idx <= start /\ end <= b.len
      BY <1>1 DEF x
    <3>. QED
      BY <1>5, <3>1, RunIs
  <2>6. outs \in SUBSET (0 .. b.out_len - 1)
    OBVIOUS
  <2>7. ASSUME NEW i \in 1 .. r PROVE d + i \in K <=> x + (i - 1) \in ins
    <3>1. d + r <= Len(L)
      BY <1>1, <1>2
    <3>2. RunsAgree(b.info, x, r, L, d, s, e, i)
      BY <1>1, <1>2, <2>1, <3>1, RunReach
    <3>. QED
      BY <1>3, <2>1, <3>2 DEF RunsAgree, x
  <2>8. v = L[d + 1].cluster
    <3>1. 1 \in 1 .. r /\ x + (1 - 1) = x
      BY <1>1, <2>1
    <3>2. b.info[x + (1 - 1)] = L[d + 1]
      BY <1>2, <3>1 DEF Lies
    <3>. QED
      BY <3>1, <3>2 DEF x
  <2>9. ASSUME NEW i \in 1 .. d PROVE i \in K <=> 0 + (i - 1) \in outs
    <3>1. b.have_output /\ d = b.out_len /\ Behind(b) = Out(b)
      BY <1>1 DEF At, Behind, x
    <3>2. s \in Nat \ {0} /\ e \in Nat /\ d + e <= Len(L)
      BY <1>1, <1>2, <2>1
    <3>3. i \in K <=> d + 1 \in K /\ AllSame(L, i, d, L[d + 1].cluster)
      BY <1>1, <1>2, <2>1, <3>2, CrossBack, Zenon
    <3>4. d + 1 \in K <=> x + (1 - 1) \in ins
      <4>1. 1 \in 1 .. r
        BY <1>1, <2>1
      <4>. QED
        BY <2>7, <4>1
    <3>5. x + (1 - 1) = b.idx
      BY <1>1 DEF x
    <3>6. d \in 1 .. d /\ 0 \in Nat /\ Lies(Out(b), 0, d, L, 0)
      BY <1>1, <1>2, <3>1
    <3>7. SameBoth(Out(b), 0, L, 0, i, d, v)
      BY <1>1, <3>6, SameInList
    <3>8. 0 + (i - 1) \in 0 .. b.out_len - 1 /\ 0 + (d - 1) = b.out_len - 1 /\ 0 + i = i /\ 0 + d = d
      BY <1>1, <3>1
    <3> HIDE DEF ins, v, K
    <3>. QED
      BY <2>8, <3>3, <3>4, <3>5, <3>7, <3>8 DEF SameBoth
  <2>10. Places(b, d, ins, outs, K)
    BY <2>7, <2>9 DEF Places, x, r
  <2> HIDE DEF ins, outs, K, least
  <2>11. Becomes(b, Clustered(b, ins, outs, least), d, MarkedList(L, K, least))
    BY <2>3, <2>4, <2>5, <2>6, <2>10, ClusteredHolds
  <2>12. M = MarkedList(L, K, least)
    BY <2>1, MergedIs DEF K, least
  <2> HIDE DEF M
  <2>13. Becomes(b, c, d, M)
    BY <2>2, <2>3, <2>11, <2>12
  <2>. QED
    BY <2>13 DEF M, s, e
<1>. QED
  BY <1>4, <1>5

LEMMA MergeOutHolds ==
    ASSUME NEW N \in Nat, NEW b, Good(b, N), b.have_output, NEW d, NEW L, Holds(b, d, L),
           NEW start \in 0 .. b.out_len, NEW end \in 0 .. b.out_len
    PROVE  Becomes(b, MergeOutClusters(b, start, end), d, List!Merged(L, start + 1, end))
<1> DEFINE x == b.idx
           r == b.len - b.idx
           s == start + 1
           c == MergeOutClusters(b, start, end)
           M == List!Merged(L, s, end)
           least == Min({L[i].cluster : i \in s .. end})
           K == List!Reach(L, s, end)
<1>1. x \in Nat /\ r \in Nat /\ d \in Nat /\ b.len = x + r /\ d = b.out_len
  BY Sizes DEF Holds, At
<1>2. /\ L \in Seq(Glyph) /\ Len(L) = d + r /\ Lies(Out(b), 0, d, L, 0) /\ Lies(b.info, x, r, L, d)
  BY DEF Holds, Behind
<1>3. s \in Nat \ {0} /\ end \in Nat /\ start = 0 + (s - 1) /\ s - 1 <= d /\ end <= d /\ 0 + end = end /\ 0 + s = s
  BY <1>1
<1> HIDE DEF x, r, s
<1>4. CASE end - start < 2
  <2>1. end <= s
    BY <1>1, <1>3, <1>4
  <2>2. M = L /\ c = b
    BY <1>4, <2>1, MergedIs DEF MergeOutClusters
  <2>. QED
    BY <2>2 DEF Becomes, s
<1>5. CASE ~(end - start < 2)
  <2>1. /\ s \in 1 .. d /\ end \in 1 .. d /\ s < end /\ ~(end <= s)
        /\ (0 + d) - 1 = b.out_len - 1 /\ 0 + (d - 1) = b.out_len - 1 /\ d \in 1 .. d
    BY <1>1, <1>3, <1>5
  <2> DEFINE outs == Run(Out(b), start, end, 0, b.out_len - 1)
             v == Out(b)[b.out_len - 1].cluster
             ins == IF b.out_len - 1 \notin outs THEN {}
                    ELSE {i \in b.idx .. b.len - 1 : AllSame(b.info, b.idx, i, v)}
  <2>2. c = Clustered(b, ins, outs, Least(Out(b), start, end))
    BY <1>5, Zenon DEF MergeOutClusters, AllSame
  <2>3. Least(Out(b), start, end) = least
    <3>1. 0 \in Nat
      OBVIOUS
    <3>2. LeastAgree(Out(b), 0, L, 0, s, end)
      BY <1>1, <1>2, <2>1, <3>1, LeastSame
    <3>. QED
      BY <1>3, <3>2 DEF LeastAgree
  <2>4. Least(Out(b), start, end) \in Nat
    <3>1. start \in Nat /\ end \in Nat /\ \A k \in start .. end - 1 : k \in 0 .. b.out_len - 1
      BY <1>1
    <3>2. \A k \in start .. end - 1 : Out(b)[k] \in Glyph
      BY <3>1 DEF Good
    <3>. QED
      BY <1>5, <3>1, <3>2, LeastIs
  <2>5. outs \in SUBSET (0 .. b.out_len - 1)
    <3>1. start \in Nat /\ end \in Nat /\ 0 \in Nat /\ b.out_len \in Nat /\ 0 <= start /\ end <= b.out_len
      BY <1>1
    <3>. QED
      BY <1>5, <3>1, RunIs
  <2>6. ins \in SUBSET (b.idx .. b.len - 1)
    OBVIOUS
  <2>7. ASSUME NEW i \in 1 .. d PROVE i \in K <=> 0 + (i - 1) \in outs
    <3>1. 0 + d <= Len(L) /\ 0 \in Nat /\ 0 + i = i
      BY <1>1, <1>2
    <3>2. RunsAgree(Out(b), 0, d, L, 0, s, end, i)
      BY <1>1, <1>2, <2>1, <3>1, RunReach
    <3>. QED
      BY <1>3, <2>1, <3>1, <3>2 DEF RunsAgree
  <2>8. v = L[d].cluster
    <3>1. Out(b)[0 + (d - 1)] = L[0 + d]
      BY <1>2, <2>1 DEF Lies
    <3>2. 0 + d = d
      BY <1>1
    <3>. QED
      BY <2>1, <3>1, <3>2
  <2>9. ASSUME NEW i \in 1 .. r PROVE d + i \in K <=> x + (i - 1) \in ins
    <3>1. i \in Nat \ {0} /\ d + i <= Len(L)
      BY <1>1, <1>2
    <3>2. d + i \in K <=> d \in K /\ AllSame(L, d + 1, d + i, L[d].cluster)
      BY <1>1, <1>2, <1>3, <2>1, <3>1, CrossOn, Zenon
    <3>3. d \in K <=> b.out_len - 1 \in outs
      BY <2>1, <2>7
    <3>4. 1 \in 1 .. r
      BY <1>1
    <3>5. SameBoth(b.info, x, L, d, 1, i, v)
      BY <1>1, <1>2, <3>4, SameInList
    <3>6. x + (1 - 1) = b.idx /\ x + (i - 1) \in b.idx .. b.len - 1
      BY <1>1 DEF x, r
    <3> HIDE DEF outs, v, K
    <3>. QED
      BY <2>8, <3>2, <3>3, <3>5, <3>6 DEF SameBoth
  <2>10. Places(b, d, ins, outs, K)
    BY <2>7, <2>9 DEF Places, x, r
  <2> HIDE DEF ins, outs, K, least
  <2>11. Becomes(b, Clustered(b, ins, outs, least), d, MarkedList(L, K, least))
    BY <2>3, <2>4, <2>5, <2>6, <2>10, ClusteredHolds
  <2>12. M = MarkedList(L, K, least)
    BY <2>1, MergedIs DEF K, least
  <2> HIDE DEF M
  <2>13. Becomes(b, c, d, M)
    BY <2>2, <2>3, <2>11, <2>12
  <2>. QED
    BY <2>13 DEF M, s
<1>. QED
  BY <1>4, <1>5

LEMMA ReplaceGlyphsMeets ==
    ASSUME NEW N \in Nat, NEW b, Good(b, N), b.have_output, NEW n \in Nat \ {0}, b.idx + n <= b.len,
           NEW l \in Nat, NEW codes \in Seq(Codes), Len(codes) = l,
           NEW d, NEW L, Holds(b, d, L), NEW c \in ReplaceGlyphs(b, n, codes)
    PROVE  Meets(b, c, d + l, PutAt(List!Merged(L, d + 1, d + n), d, n,
                                    Like(List!Merged(L, d + 1, d + n)[d + 1], codes)))
<1> DEFINE To1(s) == MergeClusters(s, s.idx, s.idx + n)
           Done(s) == Advance(Write(To1(s), To1(s).out_len, Like(To1(s).info[To1(s).idx], codes)),
                              n, Len(codes))
           M == List!Merged(L, d + 1, d + n)
           P == PutAt(M, d, n, Like(M[d + 1], codes))
<1>1. PICK e \in Ensured(b, b.out_len + l) :
         c = IF Enough(e, b.out_len + l) THEN Done(Separated(e, n, l)) ELSE e
  BY DEF ReplaceGlyphs, WithRoom
<1>2. ASSUME NEW s, Room(b, n, l, s), Holds(s, d, L) PROVE Becomes(s, Done(s), d + l, P)
  <2>1. PICK Q \in Nat : Ready(b, s, Q, n, l) /\ Good(s, Q) /\ s.have_output /\ s.idx + n <= s.len
    BY <1>2 DEF Room, Ready, Same
  <2>2. s.idx \in Nat /\ s.len \in Nat /\ s.idx \in s.idx .. s.len /\ s.idx + n \in s.idx .. s.len
    BY <2>1 DEF Good, IsBuf
  <2> DEFINE f == To1(s)
  <2>3. Room(b, n, l, f) /\ Kept(s, f)
    BY <1>2, <2>2, RoomIsKept
  <2>4. Becomes(s, f, d, List!Merged(L, d + ((s.idx - s.idx) + 1), d + ((s.idx + n) - s.idx)))
    BY <1>2, <2>1, <2>2, MergeHolds
  <2>5. (s.idx - s.idx) + 1 = 1 /\ (s.idx + n) - s.idx = n
    BY <2>2
  <2> HIDE DEF f
  <2>6. Becomes(s, f, d, M)
    BY <2>4, <2>5
  <2> HIDE DEF M
  <2>7. PICK R \in Nat : Ready(b, f, R, n, l) /\ Good(f, R) /\ f.have_output
    BY <2>3 DEF Room, Ready
  <2>8. f.idx + n <= f.len /\ f.idx < f.len
    BY <2>1, <2>2, <2>3 DEF Kept, Same
  <2>9. Holds(f, d, M) /\ f.info[f.idx] = M[d + 1] /\ M[d + 1] \in Glyph
    BY <2>6, <2>7, <2>8, HeadIs DEF Becomes
  <2> DEFINE list == Like(M[d + 1], codes)
  <2>10. list \in Seq(Glyph) /\ Len(list) = l
    BY <2>9, LikeIs
  <2> HIDE DEF list
  <2>11. Becomes(f, Advance(Write(f, f.out_len, list), n, l), d + l, PutAt(M, d, n, list))
    BY <2>7, <2>8, <2>9, <2>10, PutHolds
  <2>12. Done(s) = Advance(Write(f, f.out_len, list), n, l)
    BY <2>9 DEF f, list
  <2>. QED
    BY <2>6, <2>11, <2>12 DEF Becomes, list
<1> HIDE DEF Done, P
<1>3. Meets(b, c, d + l, P)
  BY <1>1, <1>2, RoomMeets
<1>. QED
  BY <1>3 DEF P, M

\* What deleting a glyph makes of the clusters around it.
Unled(L, d) ==
    LET cluster == L[d + 1].cluster
        next == d + 1 < Len(L)
    IN  IF next /\ cluster = L[d + 2].cluster THEN L
        ELSE IF d > 0
        THEN IF cluster < L[d].cluster
             THEN MarkedList(L, {i \in DOMAIN L : i <= d /\ AllSame(L, i, d, L[d].cluster)}, cluster)
             ELSE L
        ELSE IF next THEN List!Merged(L, 1, 2) ELSE L

LEMMA DeleteMeets ==
    ASSUME NEW N \in Nat, NEW b, Good(b, N), b.have_output, b.idx < b.len,
           NEW d, NEW L, Holds(b, d, L)
    PROVE  Meets(b, DeleteGlyph(b), d, PutAt(Unled(L, d), d, 1, <<>>))
<1> DEFINE x == b.idx
           r == b.len - b.idx
           cluster == b.info[b.idx].cluster
           old == Out(b)[b.out_len - 1].cluster
           outs == {i \in 0 .. b.out_len - 1 : AllSame(Out(b), i, b.out_len - 1, old)}
           marked == Clustered(b, {}, outs, cluster)
           K == {i \in DOMAIN L : i <= d /\ AllSame(L, i, d, L[d].cluster)}
           Q == Unled(L, d)
<1>1. /\ x \in Nat /\ r \in Nat /\ r > 0 /\ d \in Nat /\ b.len = x + r /\ d = b.out_len
      /\ Behind(b) = Out(b)
  BY Sizes DEF Holds, At, Behind
<1>2. /\ L \in Seq(Glyph) /\ Len(L) = d + r /\ Lies(Out(b), 0, d, L, 0) /\ Lies(b.info, x, r, L, d)
  BY <1>1 DEF Holds
<1> HIDE DEF x, r
<1>3. cluster = L[d + 1].cluster /\ cluster \in Nat
  <2>1. b.info[b.idx] = L[d + 1] /\ L[d + 1] \in Glyph
    BY HeadIs
  <2>. QED
    BY <2>1 DEF Glyph
<1>4. d > 0 => old = L[d].cluster
  BY <1>1, HeadIs
<1>5. (b.idx + 1 < b.len <=> d + 1 < Len(L)) /\ (b.idx + 1 < b.len => b.info[b.idx + 1] = L[d + 2])
  <2>1. (x + 1 < x + r <=> d + 1 < d + r) /\ (x + 1 < x + r => 2 \in 1 .. r) /\ x + (2 - 1) = x + 1
    BY <1>1
  <2>2. 2 \in 1 .. r => b.info[x + (2 - 1)] = L[d + 2]
    BY <1>2 DEF Lies
  <2>. QED
    BY <1>1, <1>2, <2>1, <2>2 DEF x
<1> HIDE DEF cluster, old
<1>6. CASE b.idx + 1 < b.len /\ cluster = b.info[b.idx + 1].cluster
  <2>1. DeleteGlyph(b) = Advance(b, 1, 0)
    BY <1>6 DEF DeleteGlyph, cluster
  <2>2. Q = L
    BY <1>3, <1>5, <1>6 DEF Unled
  <2> HIDE DEF Q
  <2>3. Becomes(b, Advance(b, 1, 0), d, PutAt(Q, d, 1, <<>>))
    BY <2>2, SkipHolds
  <2>. QED
    BY <2>1, <2>3 DEF Meets, Becomes, Q
<1>7. CASE ~(b.idx + 1 < b.len /\ cluster = b.info[b.idx + 1].cluster) /\ d > 0 /\ cluster < old
  <2>1. DeleteGlyph(b) = Advance(marked, 1, 0)
    BY <1>1, <1>7 DEF DeleteGlyph, cluster, old, AllSame
  <2>2. Q = MarkedList(L, K, cluster)
    BY <1>3, <1>4, <1>5, <1>7 DEF Unled
  <2>3. Places(b, d, {}, outs, K)
    <3>1. ASSUME NEW i \in 1 .. d PROVE i \in K <=> 0 + (i - 1) \in outs
      <4>1. d \in 1 .. d /\ 0 \in Nat
        BY <1>1
      <4>2. SameBoth(Out(b), 0, L, 0, i, d, old)
        BY <1>1, <1>2, <4>1, SameInList
      <4>3. /\ 0 + (i - 1) \in 0 .. b.out_len - 1 /\ 0 + (d - 1) = b.out_len - 1 /\ 0 + i = i
            /\ 0 + d = d /\ i <= d
        BY <1>1
      <4>4. i \in DOMAIN L
        <5>1. i \in 1 .. d + r
          BY <1>1
        <5>. QED
          BY <1>2, <5>1
      <4>5. AllSame(Out(b), 0 + (i - 1), b.out_len - 1, old) <=> AllSame(L, i, d, old)
        BY <4>2, <4>3 DEF SameBoth
      <4>. QED
        BY <1>4, <1>7, <4>3, <4>4, <4>5
    <3>2. ASSUME NEW i \in 1 .. r PROVE d + i \notin K
      <4>1. ~(d + i <= d)
        BY <1>1
      <4>. QED
        BY <4>1
    <3>. QED
      BY <3>1, <3>2 DEF Places, r
  <2>4. outs \in SUBSET (0 .. b.out_len - 1) /\ {} \in SUBSET (b.idx .. b.len - 1)
    OBVIOUS
  <2> HIDE DEF outs, K, Q
  <2>5. Becomes(b, marked, d, Q)
    BY <1>3, <2>2, <2>3, <2>4, ClusteredHolds
  <2>6. Good(marked, N) /\ Kept(b, marked)
    BY <1>3, <2>4, ClusteredIs
  <2> HIDE DEF marked
  <2>7. Becomes(marked, Advance(marked, 1, 0), d, PutAt(Q, d, 1, <<>>))
    BY <2>5, <2>6, SkipHolds DEF Becomes, Kept, Same
  <2>. QED
    BY <2>1, <2>5, <2>7 DEF Meets, Becomes, Q
<1>8. CASE ~(b.idx + 1 < b.len /\ cluster = b.info[b.idx + 1].cluster) /\ d > 0 /\ ~(cluster < old)
  <2>1. DeleteGlyph(b) = Advance(b, 1, 0)
    BY <1>1, <1>8 DEF DeleteGlyph, cluster, old
  <2>2. Q = L
    BY <1>3, <1>4, <1>5, <1>8 DEF Unled
  <2> HIDE DEF Q
  <2>3. Becomes(b, Advance(b, 1, 0), d, PutAt(Q, d, 1, <<>>))
    BY <2>2, SkipHolds
  <2>. QED
    BY <2>1, <2>3 DEF Meets, Becomes, Q
<1>9. CASE /\ ~(b.idx + 1 < b.len /\ cluster = b.info[b.idx + 1].cluster)
           /\ ~(d > 0) /\ ~(b.idx + 1 < b.len)
  <2>1. DeleteGlyph(b) = Advance(b, 1, 0)
    BY <1>1, <1>9 DEF DeleteGlyph, cluster
  <2>2. Q = L
    BY <1>5, <1>9 DEF Unled
  <2> HIDE DEF Q
  <2>3. Becomes(b, Advance(b, 1, 0), d, PutAt(Q, d, 1, <<>>))
    BY <2>2, SkipHolds
  <2>. QED
    BY <2>1, <2>3 DEF Meets, Becomes, Q
<1>10. CASE /\ ~(b.idx + 1 < b.len /\ cluster = b.info[b.idx + 1].cluster)
            /\ ~(d > 0) /\ b.idx + 1 < b.len
  <2> DEFINE m == MergeClusters(b, b.idx, b.idx + 2)
  <2>1. DeleteGlyph(b) = Advance(m, 1, 0)
    BY <1>1, <1>10 DEF DeleteGlyph, cluster
  <2>2. Q = List!Merged(L, 1, 2)
    BY <1>3, <1>5, <1>10 DEF Unled
  <2>3. /\ b.idx \in b.idx .. b.len /\ b.idx + 2 \in b.idx .. b.len
        /\ d + ((b.idx - b.idx) + 1) = 1 /\ d + ((b.idx + 2) - b.idx) = 2
    BY <1>1, <1>10 DEF x
  <2>4. Becomes(b, m, d, List!Merged(L, d + ((b.idx - b.idx) + 1), d + ((b.idx + 2) - b.idx)))
    BY <2>3, MergeHolds
  <2>5. Good(m, N) /\ Kept(b, m)
    BY <2>3, MergeClustersIs
  <2> HIDE DEF m, Q
  <2>6. Becomes(b, m, d, Q)
    BY <2>2, <2>3, <2>4
  <2>7. Becomes(m, Advance(m, 1, 0), d, PutAt(Q, d, 1, <<>>))
    BY <2>5, <2>6, SkipHolds DEF Becomes, Kept, Same
  <2>. QED
    BY <2>1, <2>6, <2>7 DEF Meets, Becomes, Q
<1>. QED
  BY <1>6, <1>7, <1>8, <1>9, <1>10

\* Glyphs that go back to the input are before it.
LEMMA BackHolds ==
    ASSUME NEW N \in Nat, NEW c, Good(c, N), c.have_output, NEW count \in Nat,
           count <= c.idx, count <= c.out_len, NEW d, NEW L, Holds(c, d, L)
    PROVE  Becomes(c, Back(c, count), d - count, L)
<1> DEFINE x == c.idx
           r == c.len - c.idx
           from == c.out_len - count
           list == Part(Out(c), from, c.out_len)
           at == c.idx - count
           info == Fill(c.info, at, list)
           a == Back(c, count)
<1>1. /\ x \in Nat /\ r \in Nat /\ d \in Nat /\ c.len = x + r /\ d = c.out_len /\ Behind(c) = Out(c)
      /\ x + r <= N /\ d <= N /\ c.have_output
  <2>1. c.len <= N /\ c.out_len <= N
    BY Sizes
  <2>. QED
    BY <2>1, Sizes DEF Holds, At, Behind
<1>2. /\ L \in Seq(Glyph) /\ Len(L) = d + r /\ Lies(Out(c), 0, d, L, 0) /\ Lies(c.info, x, r, L, d)
  BY <1>1 DEF Holds
<1>3. IsBuf(c, N) /\ c.info \in Mem(N) /\ (~c.separate => d <= x)
  BY <1>1 DEF Good, IsBuf
<1>4. at \in Nat /\ from \in Nat /\ at + count = x /\ from + count = d /\ from = d - count
  BY <1>1
<1>5. /\ Len(list) = count /\ \A i \in 1 .. count : list[i] = Out(c)[from + i - 1]
      /\ \A i \in 1 .. count : list[i] \in Glyph
  <2>1. /\ Len(Part(Out(c), from, from + count)) = count
        /\ \A i \in 1 .. count : Part(Out(c), from, from + count)[i] \in Glyph
    <3>1. \A k \in from .. from + count - 1 : Out(c)[k] \in Glyph
      BY <1>1, <1>4 DEF Good
    <3>. QED
      BY <1>4, <3>1, PartGlyphs
  <2>2. list = [k \in 1 .. count |-> Out(c)[from + k - 1]]
    <3>1. c.out_len - from = count
      BY <1>1, <1>4
    <3>. QED
      BY <3>1 DEF Part
  <2>3. from + count = c.out_len
    BY <1>1, <1>4
  <2>. QED
    BY <2>1, <2>2, <2>3
<1> HIDE DEF list
<1>6. /\ \A k \in 0 .. N - 1 : k < at \/ k >= at + count => info[k] = c.info[k]
      /\ \A k \in 0 .. N - 1 : at <= k /\ k < at + count => info[k] = list[k - at + 1]
  <2>1. list \in Seq(Glyph)
    <3>1. c.out_len - from = count
      BY <1>1, <1>4
    <3>2. list = [k \in 1 .. count |-> list[k]]
      BY <3>1 DEF list, Part
    <3>3. list \in [1 .. count -> Glyph]
      BY <1>5, <3>2
    <3>. QED
      BY <3>3
  <2>2. FilledWith(c.info, info, N, at, count, list)
    BY <1>3, <1>4, <1>5, <2>1, FillPuts
  <2>. QED
    BY <2>2 DEF FilledWith
<1>7. a = [c EXCEPT !.idx = at, !.out_len = from, !.info = info]
  BY DEF Back, list
<1> HIDE DEF info, a, at, from, x, r
<1>8. /\ a.idx = at /\ a.out_len = from /\ a.info = info /\ a.pos = c.pos /\ a.len = x + r
      /\ a.have_output /\ a.separate = c.separate /\ a.successful = c.successful
  BY <1>1, <1>3, <1>7 DEF IsBuf
<1>9. At(a) = from /\ Behind(a) = IF c.separate THEN c.pos ELSE info
  BY <1>8 DEF At, Behind, Out
<1>10. ASSUME NEW i \in 1 .. from PROVE Behind(a)[0 + (i - 1)] = L[0 + i]
  <2>1. i \in 1 .. d /\ 0 + (i - 1) \in 0 .. N - 1 /\ (d <= x => 0 + (i - 1) < at)
    BY <1>1, <1>4
  <2>2. Out(c)[0 + (i - 1)] = L[0 + i]
    BY <1>2, <2>1 DEF Lies
  <2>. QED
    BY <1>3, <1>6, <1>9, <2>1, <2>2 DEF Out
<1>11. ASSUME NEW i \in 1 .. r + count PROVE a.info[at + (i - 1)] = L[from + i]
  <2>1. CASE i <= count
    <3>1. /\ i \in 1 .. count /\ at + (i - 1) \in 0 .. N - 1 /\ at <= at + (i - 1)
          /\ at + (i - 1) < at + count /\ (at + (i - 1)) - at + 1 = i
      BY <1>1, <1>4, <2>1
    <3>2. info[at + (i - 1)] = Out(c)[from + i - 1]
      <4> DEFINE k == at + (i - 1)
      <4>1. k \in 0 .. N - 1 /\ at <= k /\ k < at + count /\ k - at + 1 = i
        BY <3>1
      <4> HIDE DEF k
      <4>2. info[k] = list[k - at + 1]
        BY <1>6, <4>1
      <4>3. list[i] = Out(c)[from + i - 1]
        BY <1>5, <3>1
      <4>4. info[k] = Out(c)[from + i - 1]
        BY <4>1, <4>2, <4>3
      <4>. QED
        BY <4>4 DEF k
    <3> DEFINE j == from + i
    <3>3. j \in 1 .. d /\ 0 + (j - 1) = from + i - 1 /\ 0 + j = from + i
      BY <1>1, <1>4, <2>1
    <3> HIDE DEF j
    <3>4. Out(c)[0 + (j - 1)] = L[0 + j]
      BY <1>2, <3>3 DEF Lies
    <3>. QED
      BY <1>8, <3>2, <3>3, <3>4
  <2>2. CASE ~(i <= count)
    <3> DEFINE j == i - count
    <3>1. /\ j \in 1 .. r /\ x + (j - 1) = at + (i - 1) /\ d + j = from + i
          /\ at + (i - 1) \in 0 .. N - 1 /\ at + (i - 1) >= at + count
      BY <1>1, <1>4, <2>2
    <3> HIDE DEF j
    <3>2. c.info[x + (j - 1)] = L[d + j]
      BY <1>2, <3>1 DEF Lies
    <3>. QED
      BY <1>6, <1>8, <3>1, <3>2
  <2>. QED
    BY <2>1, <2>2
<1>12. a.len - a.idx = r + count /\ Len(L) = from + (r + count)
  <2>1. (x + r) - at = r + count /\ d + r = from + (r + count)
    BY <1>1, <1>4
  <2>. QED
    BY <1>2, <1>8, <2>1
<1>13. Holds(a, from, L)
  BY <1>2, <1>8, <1>9, <1>10, <1>11, <1>12 DEF Holds, Lies
<1>. QED
  BY <1>4, <1>8, <1>13 DEF Becomes, a

LEMMA ShiftedHolds ==
    ASSUME NEW N \in Nat, NEW c, Good(c, N), c.have_output, NEW count \in Nat, c.len + count <= N,
           NEW d, NEW L, Holds(c, d, L)
    PROVE  Becomes(c, Shifted(c, count), d, L)
<1> DEFINE x == c.idx
           r == c.len - c.idx
           z == c.len
           g == Max({0, c.idx + count - c.len})
           rest == Part(c.info, c.idx, c.len)
           gap == [k \in 1 .. g |-> Junk]
           half == Fill(c.info, c.len, gap)
           info == Fill(half, c.idx + count, rest)
           a == Shifted(c, count)
<1>1. /\ x \in Nat /\ r \in Nat /\ d \in Nat /\ z = x + r /\ d = c.out_len /\ Behind(c) = Out(c)
      /\ d <= N /\ z + count <= N /\ z \in Nat
  <2>1. c.out_len <= N
    BY Sizes
  <2>. QED
    BY <2>1, Sizes DEF Holds, At, Behind
<1>2. /\ L \in Seq(Glyph) /\ Len(L) = d + r /\ Lies(Out(c), 0, d, L, 0) /\ Lies(c.info, x, r, L, d)
  BY <1>1 DEF Holds
<1>3. IsBuf(c, N) /\ c.info \in Mem(N) /\ (~c.separate => d <= x)
  BY <1>1 DEF Good, IsBuf
<1>4. g \in Nat
  <2>1. c.idx + count - c.len \in Int
    BY <1>1
  <2> DEFINE y == c.idx + count - c.len
  <2>2. \E m \in {0, y} : \A k \in {0, y} : m >= k
    <3>1. CASE y >= 0
      BY <2>1, <3>1
    <3>2. CASE ~(y >= 0)
      BY <2>1, <3>2
    <3>. QED
      BY <3>1, <3>2
  <2>3. Max({0, y}) \in {0, y} /\ \A k \in {0, y} : Max({0, y}) >= k
    BY <2>2 DEF Max
  <2>. QED
    BY <2>1, <2>3
<1>5. a = [c EXCEPT !.info = info, !.len = z + count, !.idx = x + count]
  BY DEF Shifted
<1>6. /\ Len(rest) = r /\ \A i \in 1 .. r : rest[i] \in Glyph /\ rest[i] = c.info[x + i - 1]
  <2>1. rest = [k \in 1 .. r |-> c.info[x + k - 1]]
    BY DEF Part
  <2>2. \A i \in 1 .. r : rest[i] = c.info[x + i - 1]
    BY <2>1
  <2>3. Len(rest) = r
    <3> HIDE DEF rest, r
    <3>. QED
      BY <1>1, <2>1
  <2>4. \A k \in x .. z - 1 : c.info[k] \in Glyph
    BY Sizes
  <2> HIDE DEF rest, r, x, z
  <2>5. \A i \in 1 .. r : x + i - 1 \in x .. z - 1
    BY <1>1
  <2>. QED
    BY <2>2, <2>3, <2>4, <2>5
<1> HIDE DEF g, rest
<1>7. Len(gap) = g /\ \A i \in 1 .. g : gap[i] \in Glyph \union {Junk}
  BY <1>4
<1> HIDE DEF gap
<1>8. half \in Mem(N) /\ \A k \in 0 .. N - 1 : k < z => half[k] = c.info[k]
  <2>1. Filled(c.info, half, N, z)
    BY <1>1, <1>3, <1>4, <1>7, FillKeeps, Zenon
  <2>. QED
    BY <2>1 DEF Filled
<1> HIDE DEF half, x, r, z
<1>9. /\ \A k \in 0 .. N - 1 : k < x + count \/ k >= x + count + r => info[k] = half[k]
      /\ \A k \in 0 .. N - 1 : x + count <= k /\ k < x + count + r => info[k] = rest[k - (x + count) + 1]
  <2>1. rest \in Seq(Glyph)
    <3>1. rest = [k \in 1 .. r |-> rest[k]]
      BY DEF rest, Part, r
    <3>2. rest \in [1 .. r -> Glyph]
      BY <1>6, <3>1
    <3>. QED
      BY <1>1, <3>2
  <2>2. x + count \in Nat /\ c.idx + count = x + count
    BY <1>1 DEF x
  <2> DEFINE y == x + count
  <2>3. y \in Nat /\ info = Fill(half, y, rest)
    BY <2>2
  <2> HIDE DEF y, info
  <2>4. FilledWith(half, info, N, y, r, rest)
    BY <1>1, <1>6, <1>8, <2>1, <2>3, FillPuts
  <2>. QED
    BY <2>4 DEF FilledWith, y
<1> HIDE DEF info, a
<1>10. /\ a.idx = x + count /\ a.out_len = d /\ a.info = info /\ a.pos = c.pos /\ a.len = z + count
       /\ a.have_output /\ a.separate = c.separate /\ a.successful = c.successful
  BY <1>1, <1>3, <1>5 DEF IsBuf
<1>11. At(a) = d /\ Behind(a) = IF c.separate THEN c.pos ELSE info
  BY <1>10 DEF At, Behind, Out
<1>12. ASSUME NEW i \in 1 .. d PROVE Behind(a)[0 + (i - 1)] = L[0 + i]
  <2>1. 0 + (i - 1) \in 0 .. N - 1 /\ (d <= x => 0 + (i - 1) < x + count /\ 0 + (i - 1) < z)
    BY <1>1
  <2>2. Out(c)[0 + (i - 1)] = L[0 + i]
    BY <1>2 DEF Lies
  <2>. QED
    BY <1>3, <1>8, <1>9, <1>11, <2>1, <2>2 DEF Out
<1>13. ASSUME NEW i \in 1 .. r PROVE a.info[(x + count) + (i - 1)] = L[d + i]
  <2>1. /\ (x + count) + (i - 1) \in 0 .. N - 1 /\ x + count <= (x + count) + (i - 1)
        /\ (x + count) + (i - 1) < x + count + r
        /\ ((x + count) + (i - 1)) - (x + count) + 1 = i
        /\ x + i - 1 = x + (i - 1)
    BY <1>1
  <2>2. info[(x + count) + (i - 1)] = rest[i]
    <3> DEFINE k == (x + count) + (i - 1)
    <3>1. /\ k \in 0 .. N - 1 /\ x + count <= k /\ k < x + count + r
          /\ k - (x + count) + 1 = i
      BY <2>1
    <3> HIDE DEF k
    <3>2. info[k] = rest[i]
      BY <1>9, <3>1
    <3>. QED
      BY <3>2 DEF k
  <2>3. c.info[x + (i - 1)] = L[d + i]
    BY <1>2 DEF Lies
  <2>. QED
    BY <1>6, <1>10, <2>1, <2>2, <2>3
<1>14. a.len - a.idx = r
  BY <1>1, <1>10
<1>15. Holds(a, d, L)
  BY <1>2, <1>10, <1>11, <1>12, <1>13, <1>14 DEF Holds, Lies
<1>. QED
  BY <1>10, <1>15 DEF Becomes, a

LEMMA RewindMeets ==
    ASSUME NEW N \in Nat, NEW b, Good(b, N), b.have_output, NEW count \in Nat, count <= b.out_len,
           NEW d, NEW L, Holds(b, d, L), NEW c \in Rewind(b, count)
    PROVE  Meets(b, c, d - count, L)
<1>1. b.idx \in Nat /\ b.len \in Nat /\ b.out_len \in Nat
  BY DEF Good, IsBuf
<1>2. CASE b.idx >= count
  <2>1. c = Back(b, count)
    BY <1>2 DEF Rewind, Back
  <2>2. Becomes(b, Back(b, count), d - count, L)
    BY <1>1, <1>2, BackHolds
  <2>. QED
    BY <2>1, <2>2 DEF Meets, Becomes
<1>3. CASE ~(b.idx >= count)
  <2>1. PICK e \in Ensured(b, b.len + count) :
          c = IF Enough(e, b.len + count) THEN Back(Shifted(e, count), count) ELSE e
    BY <1>3 DEF Rewind, Back
  <2>2. b.len + count \in Nat
    BY <1>1
  <2>3. PICK M \in Nat : /\ Good(e, M) /\ Same(b, e)
                         /\ Enough(e, b.len + count) => b.len + count <= M
    BY <2>2, EnsuredIs
  <2>4. Alike(b, e) /\ (e.successful => b.successful /\ Enough(e, b.len + count))
    BY <2>2, EnsuredHolds
  <2>5. Holds(e, d, L)
    BY <2>4, AlikeHolds
  <2>6. CASE Enough(e, b.len + count)
    <3>1. Good(e, M) /\ e.have_output /\ e.len + count <= M /\ count <= e.out_len /\ e.idx \in Nat
      BY <1>1, <2>3, <2>6 DEF Same
    <3> DEFINE s == Shifted(e, count)
    <3>2. Good(s, M) /\ s.have_output /\ s.idx = e.idx + count /\ s.out_len = e.out_len
      BY <3>1, ShiftedIs
    <3>3. Becomes(e, s, d, L)
      BY <2>5, <3>1, ShiftedHolds
    <3> HIDE DEF s
    <3>4. count <= s.idx /\ count <= s.out_len
      BY <3>1, <3>2
    <3>5. Becomes(s, Back(s, count), d - count, L)
      BY <3>2, <3>3, <3>4, BackHolds DEF Becomes
    <3>. QED
      BY <2>1, <2>4, <2>6, <3>3, <3>5 DEF Meets, Becomes, s
  <2>7. CASE ~Enough(e, b.len + count)
    BY <2>1, <2>4, <2>7 DEF Meets
  <2>. QED
    BY <2>6, <2>7
<1>. QED
  BY <1>2, <1>3
-----------------------------------------------------------------------------
\* Without output all of the list is in info, wherever the cursor is.
LEMMA WholeIs ==
    ASSUME NEW N \in Nat, NEW b, Good(b, N), ~b.have_output, NEW d, NEW L, Holds(b, d, L)
    PROVE  L \in Seq(Glyph) /\ Len(L) = b.len /\ Lies(b.info, 0, b.len, L, 0)
<1> DEFINE r == b.len - b.idx
           z == b.len
<1>1. /\ d \in Nat /\ r \in Nat /\ z = d + r /\ d = b.idx
      /\ L \in Seq(Glyph) /\ Len(L) = d + r /\ Lies(b.info, 0, d, L, 0) /\ Lies(b.info, d, r, L, d)
  BY Sizes DEF Holds, At, Behind
<1> HIDE DEF r, z
<1>2. ASSUME NEW i \in 1 .. z PROVE b.info[0 + (i - 1)] = L[0 + i]
  <2>1. CASE i <= d
    BY <1>1, <2>1 DEF Lies
  <2>2. CASE ~(i <= d)
    <3> DEFINE j == i - d
    <3>1. j \in 1 .. r /\ d + (j - 1) = 0 + (i - 1) /\ d + j = 0 + i
      BY <1>1, <2>2
    <3> HIDE DEF j
    <3>2. b.info[d + (j - 1)] = L[d + j]
      BY <1>1, <3>1 DEF Lies
    <3>. QED
      BY <3>1, <3>2
  <2>. QED
    BY <2>1, <2>2
<1>3. Lies(b.info, 0, z, L, 0)
  BY <1>2 DEF Lies
<1>. QED
  BY <1>1, <1>3 DEF z

\* The cursor can be anywhere in it.
LEMMA AnywhereHolds ==
    ASSUME NEW c, NEW i \in Nat, NEW z \in Nat, i <= z, c.idx = i, c.len = z,
           NEW L \in Seq(Glyph), Len(L) = z, Lies(c.info, 0, z, L, 0),
           \/ ~c.have_output
           \/ c.have_output /\ i = 0 /\ c.out_len = 0
    PROVE  Holds(c, i, L)
<1>1. At(c) = i /\ (i > 0 => Behind(c) = c.info)
  BY DEF At, Behind
<1>2. Lies(Behind(c), 0, i, L, 0)
  BY <1>1 DEF Lies
<1>3. ASSUME NEW k \in 1 .. z - i PROVE c.info[i + (k - 1)] = L[i + k]
  <2> DEFINE j == i + k
  <2>1. j \in 1 .. z /\ 0 + (j - 1) = i + (k - 1) /\ 0 + j = i + k
    OBVIOUS
  <2> HIDE DEF j
  <2>2. c.info[0 + (j - 1)] = L[0 + j]
    BY <2>1 DEF Lies
  <2>. QED
    BY <2>1, <2>2
<1>4. Lies(c.info, i, z - i, L, i)
  BY <1>3 DEF Lies
<1>5. Len(L) = i + (z - i)
  OBVIOUS
<1>. QED
  BY <1>1, <1>2, <1>4, <1>5 DEF Holds

LEMMA ClearedHolds ==
    ASSUME NEW N \in Nat, NEW b, Good(b, N), ~b.have_output, NEW d, NEW L, Holds(b, d, L)
    PROVE  Becomes(b, Cleared(b), 0, L)
<1> DEFINE c == Cleared(b)
<1>1. L \in Seq(Glyph) /\ Len(L) = b.len /\ Lies(b.info, 0, b.len, L, 0)
  BY WholeIs
<1>2. IsBuf(b, N) /\ b.len \in Nat /\ 0 <= b.len
  BY DEF Good, IsBuf
<1>3. c.info = b.info /\ c.len = b.len /\ c.idx = 0 /\ c.out_len = 0 /\ c.have_output
      /\ c.successful = b.successful
  BY <1>2 DEF IsBuf, Cleared
<1> HIDE DEF c
<1>4. Holds(c, 0, L)
  <2>1. 0 \in Nat /\ Lies(c.info, 0, b.len, L, 0)
    BY <1>1, <1>3
  <2>. QED
    BY <1>1, <1>2, <1>3, <2>1, AnywhereHolds
<1>. QED
  BY <1>3, <1>4 DEF Becomes, c

\* Without output, moving is setting idx.
LEMMA SetIdxHolds ==
    ASSUME NEW N \in Nat, NEW b, Good(b, N), ~b.have_output, NEW d, NEW L, Holds(b, d, L),
           NEW i \in Nat, i <= b.len
    PROVE  Becomes(b, [b EXCEPT !.idx = i], i, L)
<1> DEFINE c == [b EXCEPT !.idx = i]
<1>1. L \in Seq(Glyph) /\ Len(L) = b.len /\ Lies(b.info, 0, b.len, L, 0)
  BY WholeIs
<1>2. IsBuf(b, N) /\ b.len \in Nat
  BY DEF Good, IsBuf
<1>3. c.info = b.info /\ c.len = b.len /\ c.idx = i /\ ~c.have_output /\ c.successful = b.successful
  BY <1>2 DEF IsBuf
<1> HIDE DEF c
<1>4. Holds(c, i, L)
  BY <1>1, <1>2, <1>3, AnywhereHolds
<1>. QED
  BY <1>3, <1>4 DEF Becomes, c

LEMMA StepMeets ==
    ASSUME NEW N \in Nat, NEW b, Good(b, N), NEW n \in Nat, b.idx + n <= b.len,
           NEW d, NEW L, Holds(b, d, L), NEW c \in NextGlyphs(b, n)
    PROVE  Meets(b, c, d + n, L)
<1>1. CASE b.have_output
  BY <1>1, NextGlyphsMeets
<1>2. CASE ~b.have_output
  <2>1. c = Advance(b, n, 0)
    BY <1>2 DEF NextGlyphs
  <2>2. IsBuf(b, N) /\ b.idx \in Nat /\ b.out_len \in Nat /\ d = b.idx
    BY <1>2 DEF Good, IsBuf, Holds, At
  <2>3. Advance(b, n, 0) = [b EXCEPT !.idx = b.idx + n]
    <3>1. b.out_len + 0 = b.out_len
      BY <2>2
    <3>2. Advance(b, n, 0) = [b EXCEPT !.idx = b.idx + n, !.out_len = b.out_len]
      BY <3>1 DEF Advance
    <3>. QED
      BY <2>2, <3>2 DEF IsBuf
  <2> DEFINE i == b.idx + n
  <2>4. i \in Nat /\ i <= b.len /\ i = d + n
    BY <2>2
  <2> HIDE DEF i
  <2>5. Becomes(b, [b EXCEPT !.idx = i], i, L)
    BY <1>2, <2>4, SetIdxHolds
  <2>. QED
    BY <2>1, <2>3, <2>4, <2>5 DEF Meets, Becomes, i
<1>. QED
  BY <1>1, <1>2

LEMMA MoveToMeets ==
    ASSUME NEW N \in Nat, NEW b, Good(b, N),
           NEW i \in Nat, i <= (IF b.have_output THEN b.out_len + (b.len - b.idx) ELSE b.len),
           NEW d, NEW L, Holds(b, d, L), NEW c \in MoveTo(b, i)
    PROVE  Meets(b, c, i, L)
<1>1. IsBuf(b, N) /\ b.idx \in Nat /\ b.len \in Nat /\ b.out_len \in Nat
  BY DEF Good, IsBuf
<1>2. CASE ~b.have_output
  <2>1. c = [b EXCEPT !.idx = i]
    BY <1>2 DEF MoveTo
  <2>2. i <= b.len
    BY <1>2
  <2>3. Becomes(b, [b EXCEPT !.idx = i], i, L)
    BY <1>2, <2>2, SetIdxHolds
  <2>. QED
    BY <2>1, <2>3 DEF Meets, Becomes
<1>3. CASE b.have_output /\ ~b.successful
  <2>1. c = b
    BY <1>3 DEF MoveTo
  <2>. QED
    BY <1>3, <2>1 DEF Meets
<1>4. CASE b.have_output /\ b.successful /\ i = b.out_len
  <2>1. ~(i - b.out_len > 0) /\ ~(i - b.out_len < 0)
    BY <1>1, <1>4
  <2>2. c = b
    BY <1>4, <2>1 DEF MoveTo
  <2>3. d = i
    BY <1>4 DEF Holds, At
  <2>. QED
    BY <1>4, <2>2, <2>3 DEF Meets
<1>5. CASE b.have_output /\ b.successful /\ i > b.out_len
  <2> DEFINE n == i - b.out_len
             Done(s) == Advance(Write(s, s.out_len, Part(s.info, s.idx, s.idx + n)), n, n)
  <2>1. n \in Nat /\ n > 0 /\ b.idx + n <= b.len
    BY <1>1, <1>5
  <2>2. PICK e \in Ensured(b, b.out_len + n) :
          c = IF Enough(e, b.out_len + n) THEN Done(Separated(e, n, n)) ELSE e
    BY <1>5, <2>1 DEF MoveTo, WithRoom
  <2>3. d + n = i
    BY <1>1, <1>5 DEF Holds, At
  <2> HIDE DEF n
  <2>4. ASSUME NEW s, Room(b, n, n, s), Holds(s, d, L) PROVE Becomes(s, Done(s), d + n, L)
    <3>1. PICK M \in Nat : Ready(b, s, M, n, n) /\ s.have_output
      BY <2>4 DEF Room
    <3>2. s.idx + n <= s.len
      BY <2>1, <3>1 DEF Ready, Same
    <3>. QED
      BY <2>1, <2>4, <3>1, <3>2, CopyHolds
  <2> HIDE DEF Done
  <2>5. Meets(b, c, d + n, L)
    BY <1>5, <2>1, <2>2, <2>4, RoomMeets
  <2>. QED
    BY <2>3, <2>5
<1>6. CASE b.have_output /\ b.successful /\ i < b.out_len
  <2> DEFINE n == 0 - (i - b.out_len)
  <2>1. /\ i - b.out_len < 0 /\ ~(i - b.out_len > 0) /\ n \in Nat /\ n <= b.out_len /\ b.out_len - n = i
    BY <1>1, <1>6
  <2>2. c \in Rewind(b, n)
    BY <1>6, <2>1 DEF MoveTo
  <2>3. d - n = i
    BY <2>1, <1>6 DEF Holds, At
  <2> HIDE DEF n
  <2>4. Meets(b, c, d - n, L)
    BY <1>6, <2>1, <2>2, RewindMeets
  <2>. QED
    BY <2>3, <2>4
<1>. QED
  BY <1>1, <1>2, <1>3, <1>4, <1>5, <1>6

\* Once everything is output, that becomes the input.
LEMMA SwappedHolds ==
    ASSUME NEW N \in Nat, NEW c, Good(c, N), c.have_output, c.idx = c.len, NEW d, NEW L, Holds(c, d, L)
    PROVE  Becomes(c, Swapped(c), 0, L)
<1> DEFINE s == Swapped(c)
           z == c.out_len
<1>1. IsBuf(c, N) /\ z \in Nat /\ d = z /\ c.len - c.idx = 0 /\ z + 0 = z
  BY DEF Good, IsBuf, Holds, At
<1>2. L \in Seq(Glyph) /\ Len(L) = z /\ Lies(Out(c), 0, z, L, 0)
  BY <1>1 DEF Holds, Behind
<1>3. s.info = Out(c) /\ s.len = z /\ s.idx = 0 /\ ~s.have_output /\ s.successful = c.successful
  BY <1>1 DEF IsBuf, Swapped
<1> HIDE DEF s, z
<1>4. Holds(s, 0, L)
  <2>1. 0 \in Nat /\ 0 <= z /\ Lies(s.info, 0, z, L, 0)
    BY <1>1, <1>2, <1>3
  <2>. QED
    BY <1>1, <1>2, <1>3, <2>1, AnywhereHolds
<1>. QED
  BY <1>3, <1>4 DEF Becomes, s

LEMMA SwapBuffersMeets ==
    ASSUME NEW N \in Nat, NEW b, Good(b, N), b.have_output, NEW d, NEW L, Holds(b, d, L),
           NEW c \in SwapBuffers(b)
    PROVE  Meets(b, c, 0, L)
<1>1. CASE ~b.successful
  BY <1>1 DEF SwapBuffers, Meets
<1>2. CASE b.successful
  <2>1. PICK e \in NextGlyphs(b, b.len - b.idx) : c = Swapped(e)
    BY <1>2 DEF SwapBuffers, Swapped
  <2> DEFINE n == b.len - b.idx
  <2>2. n \in Nat /\ b.idx + n <= b.len
    BY DEF Good, IsBuf
  <2>3. Len(L) = d + n /\ d \in Nat
    BY Sizes DEF Holds
  <2> HIDE DEF n
  <2>4. Fine(e) /\ Meets(b, e, d + n, L)
    BY <2>1, <2>2, NextGlyphsGood, NextGlyphsMeets DEF n
  <2>5. PICK M \in Nat : Good(e, M) /\ e.have_output
    BY <2>4 DEF Fine
  <2>6. c.successful = e.successful
    <3>1. IsBuf(e, M)
      BY <2>5 DEF Good
    <3>. QED
      BY <2>1, <3>1 DEF Swapped, IsBuf
  <2>7. CASE e.successful
    <3>1. Holds(e, d + n, L)
      BY <2>4, <2>7 DEF Meets
    <3>2. e.idx = e.len
      <4> DEFINE x == e.idx
                 z == e.len
                 f == d + n
      <4>1. x \in Nat /\ z \in Nat /\ f \in Nat
        BY <2>2, <2>3, <2>5, Sizes
      <4>2. Len(L) = f + (z - x) /\ Len(L) = f
        BY <2>3, <3>1 DEF Holds
      <4> HIDE DEF x, z, f
      <4>3. x = z
        BY <4>1, <4>2
      <4>. QED
        BY <4>3 DEF x, z
    <3>3. Becomes(e, Swapped(e), 0, L)
      BY <2>5, <3>1, <3>2, SwappedHolds
    <3>. QED
      BY <1>2, <2>1, <3>3 DEF Meets, Becomes
  <2>8. CASE ~e.successful
    BY <2>6, <2>8 DEF Meets
  <2>. QED
    BY <2>7, <2>8
<1>. QED
  BY <1>1, <1>2

\* Two glyphs put in one after the other, and the next one taken out.
LEMMA PutTwice ==
    ASSUME NEW L \in Seq(Glyph), NEW d \in Nat, d + 1 <= Len(L), NEW g \in Glyph, NEW h \in Glyph
    PROVE  PutAt(PutAt(PutAt(L, d, 0, <<g>>), d + 1, 0, <<h>>), d + 2, 1, <<>>) = PutAt(L, d, 1, <<g, h>>)
<1> DEFINE l == Len(L)
           A == PutAt(L, d, 0, <<g>>)
           B == PutAt(A, d + 1, 0, <<h>>)
           C == PutAt(B, d + 2, 1, <<>>)
           Q == PutAt(L, d, 1, <<g, h>>)
<1>1. /\ l \in Nat /\ d + 0 <= l /\ d + 1 <= l /\ 0 \in Nat /\ 1 \in Nat /\ d + 1 \in Nat /\ d + 2 \in Nat
      /\ <<g>> \in Seq(Glyph) /\ <<h>> \in Seq(Glyph) /\ <<>> \in Seq(Glyph) /\ <<g, h>> \in Seq(Glyph)
      /\ Len(<<g>>) = 1 /\ Len(<<h>>) = 1 /\ Len(<<>>) = 0 /\ Len(<<g, h>>) = 2
  OBVIOUS
<1>2. IsPut(A, L, d, 0, <<g>>)
  BY <1>1, PutIs, Zenon DEF l
<1> HIDE DEF A
<1>3. A \in Seq(Glyph) /\ Len(A) = l + 1
  BY <1>1, <1>2 DEF IsPut
<1>4. IsPut(B, A, d + 1, 0, <<h>>)
  <2>1. (d + 1) + 0 <= Len(A)
    BY <1>1, <1>3
  <2>. QED
    BY <1>1, <1>3, <2>1, PutIs, Zenon
<1> HIDE DEF B
<1>5. B \in Seq(Glyph) /\ Len(B) = l + 2
  BY <1>1, <1>3, <1>4 DEF IsPut
<1>6. IsPut(C, B, d + 2, 1, <<>>)
  <2>1. (d + 2) + 1 <= Len(B)
    BY <1>1, <1>5
  <2>. QED
    BY <1>1, <1>5, <2>1, PutIs, Zenon
<1>7. IsPut(Q, L, d, 1, <<g, h>>)
  BY <1>1, PutIs, Zenon DEF l
<1> HIDE DEF C, Q
<1>8. /\ C \in Seq(Glyph) /\ Len(C) = l + 1 /\ Q \in Seq(Glyph) /\ Len(Q) = l + 1
  BY <1>1, <1>5, <1>6, <1>7 DEF IsPut, l
<1>9. ASSUME NEW j \in 1 .. l + 1 PROVE C[j] = Q[j]
  <2>1. CASE j <= d
    <3>1. j \in 1 .. d /\ j \in 1 .. d + 1 /\ j \in 1 .. d + 2
      BY <1>1, <2>1
    <3>2. A[j] = L[j] /\ B[j] = A[j] /\ C[j] = B[j] /\ Q[j] = L[j]
      BY <1>2, <1>4, <1>6, <1>7, <3>1 DEF IsPut
    <3>. QED
      BY <3>2
  <2>2. CASE j = d + 1
    <3>1. j \in 1 .. d + 1 /\ j \in 1 .. d + 2 /\ 1 \in 1 .. 1 /\ 1 \in 1 .. 2 /\ <<g>>[1] = g /\ <<g, h>>[1] = g
      BY <1>1, <2>2
    <3>2. A[d + 1] = <<g>>[1] /\ B[j] = A[j] /\ C[j] = B[j] /\ Q[d + 1] = <<g, h>>[1]
      BY <1>1, <1>2, <1>4, <1>6, <1>7, <3>1 DEF IsPut
    <3>. QED
      BY <2>2, <3>1, <3>2
  <2>3. CASE j = d + 2
    <3>1. j \in 1 .. d + 2 /\ 1 \in 1 .. 1 /\ 2 \in 1 .. 2 /\ (d + 1) + 1 = j /\ <<h>>[1] = h /\ <<g, h>>[2] = h
      BY <1>1, <2>3
    <3>2. B[(d + 1) + 1] = <<h>>[1] /\ C[j] = B[j] /\ Q[d + 2] = <<g, h>>[2]
      BY <1>1, <1>4, <1>6, <1>7, <3>1 DEF IsPut
    <3>. QED
      BY <2>3, <3>1, <3>2
  <2>4. CASE d + 2 < j
    <3> DEFINE i == j - (d + 2)
               k == i + 1
    <3>1. /\ i \in 1 .. l - d - 1 /\ i \in 1 .. (l + 2) - (d + 2) - 1
          /\ k \in 1 .. (l + 1) - (d + 1) - 0 /\ k \in 1 .. l - d - 0
          /\ d + 2 + 0 + i = j /\ d + 2 + i = j
      BY <1>1, <2>4
    <3>2. /\ d + 2 + 1 + i = (d + 1) + 1 + k /\ (d + 1) + 0 + k = d + 1 + k /\ d + 0 + k = d + 1 + i
      BY <1>1, <2>4
    <3> HIDE DEF i, k
    <3>3. C[d + 2 + 0 + i] = B[d + 2 + 1 + i]
      BY <1>1, <1>5, <1>6, <3>1 DEF IsPut
    <3>4. B[(d + 1) + 1 + k] = A[(d + 1) + 0 + k]
      BY <1>1, <1>3, <1>4, <3>1 DEF IsPut
    <3>5. A[d + 1 + k] = L[d + 0 + k]
      BY <1>1, <1>2, <3>1 DEF IsPut, l
    <3>6. Q[d + 2 + i] = L[d + 1 + i]
      BY <1>1, <1>7, <3>1 DEF IsPut, l
    <3>. QED
      BY <3>1, <3>2, <3>3, <3>4, <3>5, <3>6
  <2>. QED
    BY <1>1, <2>1, <2>2, <2>3, <2>4
<1>10. l + 1 \in Nat
  BY <1>1
<1>. QED
  BY <1>8, <1>9, <1>10, SeqEqual DEF A, B, C, Q

\* A glyph put in before the cursor.
LEMMA PutBefore ==
    ASSUME NEW L \in Seq(Glyph), NEW d \in Nat, d <= Len(L), NEW g \in Glyph
    PROVE  /\ SubSeq(PutAt(L, d, 0, <<g>>), 1, d + 1) = Append(SubSeq(L, 1, d), g)
           /\ SubSeq(PutAt(L, d, 0, <<g>>), (d + 1) + 1, Len(PutAt(L, d, 0, <<g>>))) = SubSeq(L, d + 1, Len(L))
<1> DEFINE l == Len(L)
           P == PutAt(L, d, 0, <<g>>)
           r == l - d
           A == SubSeq(L, 1, d)
           S == SubSeq(P, 1, d + 1)
           T == SubSeq(P, (d + 1) + 1, Len(P))
           U == SubSeq(L, d + 1, Len(L))
<1>1. /\ l \in Nat /\ r \in Nat /\ l = d + r /\ <<g>> \in Seq(Glyph) /\ Len(<<g>>) = 1 /\ d + 0 <= l
      /\ 0 \in Nat /\ <<g>>[1] = g
  OBVIOUS
<1>2. IsPut(P, L, d, 0, <<g>>)
  BY <1>1, PutIs, Zenon DEF l
<1> HIDE DEF P
<1>3. /\ P \in Seq(Glyph) /\ Len(P) = (d + 1) + r
      /\ \A i \in 1 .. d : P[i] = L[i]
      /\ P[d + 1] = g
      /\ \A i \in 1 .. r : P[(d + 1) + i] = L[d + i]
  <2>1. Len(P) = (l - 0) + 1
    BY <1>1, <1>2 DEF IsPut, l
  <2>2. P[d + 1] = <<g>>[1]
    BY <1>1, <1>2 DEF IsPut
  <2>3. ASSUME NEW i \in 1 .. r PROVE P[(d + 1) + i] = L[d + i]
    <3>1. i \in 1 .. l - d - 0 /\ d + 1 + i = (d + 1) + i /\ d + 0 + i = d + i
      BY <1>1
    <3>2. P[d + 1 + i] = L[d + 0 + i]
      BY <1>1, <1>2, <3>1 DEF IsPut, l
    <3>. QED
      BY <3>1, <3>2
  <2>. QED
    BY <1>1, <1>2, <2>1, <2>2, <2>3 DEF IsPut
<1>4. IsSlice(A, L, 0, d) /\ IsSlice(S, P, 0, d + 1)
  <2>1. IsSlice(SubSeq(L, 0 + 1, 0 + d), L, 0, d)
    <3>1. 0 + d <= Len(L)
      OBVIOUS
    <3>. QED
      BY <1>1, <3>1, Slice, Zenon
  <2>2. IsSlice(SubSeq(P, 0 + 1, 0 + (d + 1)), P, 0, d + 1)
    <3>1. 0 + (d + 1) <= Len(P) /\ d + 1 \in Nat
      BY <1>1, <1>3
    <3>. QED
      BY <1>1, <1>3, <3>1, Slice, Zenon
  <2>3. 0 + 1 = 1 /\ 0 + d = d /\ 0 + (d + 1) = d + 1
    OBVIOUS
  <2>. QED
    BY <2>1, <2>2, <2>3
<1>5. IsSlice(U, L, d, r) /\ IsSlice(T, P, d + 1, r)
  <2>1. d + r <= Len(L) /\ d + r = Len(L) /\ (d + 1) + r <= Len(P) /\ (d + 1) + r = Len(P) /\ d + 1 \in Nat
    BY <1>1, <1>3 DEF l
  <2>2. IsSlice(SubSeq(L, d + 1, d + r), L, d, r)
    BY <1>1, <2>1, Slice, Zenon
  <2>3. IsSlice(SubSeq(P, (d + 1) + 1, (d + 1) + r), P, d + 1, r)
    BY <1>1, <1>3, <2>1, Slice, Zenon
  <2>. QED
    BY <2>1, <2>2, <2>3
<1> HIDE DEF A, S, T, U, r, l
<1>6. T = U
  BY <1>1, <1>3, <1>5, SlicesEqual
<1>7. S = Append(A, g)
  <2>1. A \in Seq(Glyph) /\ Len(A) = d /\ S \in Seq(Glyph) /\ Len(S) = d + 1
    BY <1>4 DEF IsSlice
  <2>2. /\ Append(A, g) \in Seq(Glyph) /\ Len(Append(A, g)) = d + 1
        /\ \A i \in 1 .. d : Append(A, g)[i] = A[i]
        /\ Append(A, g)[d + 1] = g
    BY <2>1
  <2>3. ASSUME NEW i \in 1 .. d + 1 PROVE S[i] = Append(A, g)[i]
    <3>1. S[i] = P[0 + i] /\ 0 + i = i
      BY <1>4 DEF IsSlice
    <3>2. CASE i <= d
      <4>1. i \in 1 .. d
        BY <3>2
      <4>2. A[i] = L[0 + i]
        BY <1>4, <4>1 DEF IsSlice
      <4>. QED
        BY <1>3, <2>2, <3>1, <4>1, <4>2
    <3>3. CASE ~(i <= d)
      <4>1. i = d + 1
        BY <3>3
      <4>. QED
        BY <1>3, <2>2, <3>1, <4>1
    <3>. QED
      BY <3>2, <3>3
  <2>4. d + 1 \in Nat
    OBVIOUS
  <2>. QED
    BY <2>1, <2>2, <2>3, <2>4, SeqEqual
<1>. QED
  BY <1>6, <1>7 DEF A, S, T, U, P

\* decompose_current_character replaces the next glyph.
LEMMA DecomposeMeets ==
    ASSUME NEW N \in Nat, NEW b, Good(b, N), b.have_output, b.idx < b.len, NEW codes \in Codes \X Codes,
           NEW d, NEW L, Holds(b, d, L), NEW c \in Decomposed(b, codes)
    PROVE  Meets(b, Advance(c, 1, 0), d + 2, PutAt(L, d, 1, Like(L[d + 1], codes)))
<1> DEFINE g == Like(L[d + 1], <<codes[1]>>)
           h == Like(L[d + 1], <<codes[2]>>)
           A == PutAt(L, d, 0, g)
           B == PutAt(A, d + 1, 0, h)
           Q == PutAt(L, d, 1, Like(L[d + 1], codes))
           a == Advance(c, 1, 0)
<1>1. codes[1] \in Codes /\ codes[2] \in Codes
  OBVIOUS
<1>2. PICK e \in OutputGlyph(b, codes[1]) : c \in OutputGlyph(e, codes[2])
  BY DEF Decomposed
<1>3. d \in Nat /\ d < Len(L) /\ Len(L) \in Nat /\ L[d + 1] \in Glyph /\ L \in Seq(Glyph) /\ L # <<>>
  <2>1. d \in Nat /\ d < Len(L) /\ Len(L) \in Nat /\ L[d + 1] \in Glyph
    BY HeadIs
  <2>2. L \in Seq(Glyph)
    BY DEF Holds
  <2>3. L # <<>>
    BY <2>1
  <2>. QED
    BY <2>1, <2>2, <2>3
<1>4. /\ g = <<[L[d + 1] EXCEPT !.code = codes[1]]>> /\ h = <<[L[d + 1] EXCEPT !.code = codes[2]]>>
      /\ Like(L[d + 1], codes) = <<[L[d + 1] EXCEPT !.code = codes[1]], [L[d + 1] EXCEPT !.code = codes[2]]>>
      /\ [L[d + 1] EXCEPT !.code = codes[1]] \in Glyph /\ [L[d + 1] EXCEPT !.code = codes[2]] \in Glyph
  <2>1. DOMAIN codes = 1 .. 2 /\ codes = <<codes[1], codes[2]>>
    OBVIOUS
  <2>2. Like(L[d + 1], codes) = [k \in 1 .. 2 |-> [L[d + 1] EXCEPT !.code = codes[k]]]
    BY <2>1 DEF Like
  <2>3. Like(L[d + 1], codes) = <<[L[d + 1] EXCEPT !.code = codes[1]], [L[d + 1] EXCEPT !.code = codes[2]]>>
    BY <2>2
  <2>4. ASSUME NEW x PROVE Like(L[d + 1], <<x>>) = <<[L[d + 1] EXCEPT !.code = x]>>
    BY DEF Like
  <2>5. \A x \in Codes : [L[d + 1] EXCEPT !.code = x] \in Glyph
    BY <1>3 DEF Glyph
  <2>. QED
    BY <1>1, <2>3, <2>4, <2>5
<1>5. Fine(e) /\ e.idx = b.idx /\ e.len = b.len /\ Meets(b, e, d + 1, A)
  <2>1. Fine(e) /\ e.idx = b.idx /\ e.len = b.len
    BY <1>1, <1>2, OutputGlyphGood, OutputGlyphStays
  <2>2. Meets(b, e, IF L = <<>> THEN d ELSE d + 1, Inserted(L, d, codes[1]))
    BY <1>1, <1>2, OutputGlyphMeets
  <2>3. Inserted(L, d, codes[1]) = A
    BY <1>3 DEF Inserted
  <2>. QED
    BY <1>3, <2>1, <2>2, <2>3
<1>6. PICK M \in Nat : Good(e, M) /\ e.have_output
  BY <1>5 DEF Fine
<1>7. Fine(c) /\ c.idx = e.idx /\ c.len = e.len
  BY <1>1, <1>2, <1>6, OutputGlyphGood, OutputGlyphStays
<1>8. PICK O \in Nat : Good(c, O) /\ c.have_output
  BY <1>7 DEF Fine
<1> DEFINE gg == [L[d + 1] EXCEPT !.code = codes[1]]
           hh == [L[d + 1] EXCEPT !.code = codes[2]]
<1>9. /\ A \in Seq(Glyph) /\ Len(A) = Len(L) + 1 /\ A[(d + 1) + 1] = L[d + 1]
  <2> DEFINE l == Len(L)
  <2>1. l \in Nat /\ d + 0 <= l /\ 0 \in Nat /\ g \in Seq(Glyph) /\ Len(g) = 1 /\ 1 \in 1 .. l - d - 0
    <3>1. ASSUME NEW x \in Glyph PROVE <<x>> \in Seq(Glyph) /\ Len(<<x>>) = 1
      OBVIOUS
    <3>2. g \in Seq(Glyph) /\ Len(g) = 1
      BY <1>4, <3>1
    <3>3. l \in Nat /\ d + 0 <= l /\ 0 \in Nat /\ 1 \in 1 .. l - d - 0
      BY <1>3
    <3>. QED
      BY <3>2, <3>3
  <2> HIDE DEF g
  <2>2. IsPut(A, L, d, 0, g)
    BY <1>3, <2>1, PutIs, Zenon DEF l
  <2> HIDE DEF A
  <2>3. A \in Seq(Glyph) /\ Len(A) = (l - 0) + 1
    BY <2>1, <2>2 DEF IsPut, l
  <2>4. A[d + 1 + 1] = L[d + 0 + 1]
    BY <2>1, <2>2 DEF IsPut, l
  <2>5. d + 0 + 1 = d + 1 /\ d + 1 + 1 = (d + 1) + 1 /\ (l - 0) + 1 = l + 1
    BY <1>3, <2>1
  <2>. QED
    BY <2>3, <2>4, <2>5
<1>10. ASSUME e.successful PROVE Meets(e, c, d + 2, B)
  <2>1. Holds(e, d + 1, A)
    BY <1>5, <1>10 DEF Meets
  <2>2. Meets(e, c, IF A = <<>> THEN d + 1 ELSE (d + 1) + 1, Inserted(A, d + 1, codes[2]))
    BY <1>1, <1>2, <1>6, <2>1, OutputGlyphMeets
  <2>3. A # <<>> /\ d + 1 < Len(A) /\ (d + 1) + 1 = d + 2
    BY <1>3, <1>9
  <2>4. Inserted(A, d + 1, codes[2]) = B
    BY <1>9, <2>3 DEF Inserted
  <2>. QED
    BY <2>2, <2>3, <2>4
<1>11. PutAt(B, d + 2, 1, <<>>) = Q
  <2>1. d + 1 <= Len(L)
    BY <1>3
  <2>2. PutAt(PutAt(PutAt(L, d, 0, <<gg>>), d + 1, 0, <<hh>>), d + 2, 1, <<>>) = PutAt(L, d, 1, <<gg, hh>>)
    BY <1>3, <1>4, <2>1, PutTwice
  <2>. QED
    BY <1>4, <2>2
<1>12. a.successful = c.successful
  <2>1. IsBuf(c, O)
    BY <1>8 DEF Good
  <2>. QED
    BY <2>1 DEF Advance, IsBuf
<1>13. ASSUME c.successful PROVE b.successful /\ Holds(a, d + 2, Q)
  <2>1. e.successful
    <3>1. PICK K : Holds(e, At(e), K)
      BY <1>6, HoldsSome
    <3>2. Meets(e, c, IF K = <<>> THEN At(e) ELSE At(e) + 1, Inserted(K, At(e), codes[2]))
      BY <1>1, <1>2, <1>6, <3>1, OutputGlyphMeets
    <3>. QED
      BY <1>13, <3>2 DEF Meets
  <2>2. Holds(c, d + 2, B) /\ b.successful
    BY <1>5, <1>10, <1>13, <2>1 DEF Meets
  <2>3. c.idx < c.len
    BY <1>5, <1>7
  <2>4. Becomes(c, a, d + 2, PutAt(B, d + 2, 1, <<>>))
    BY <1>8, <2>2, <2>3, SkipHolds
  <2>. QED
    BY <1>11, <2>2, <2>4 DEF Becomes
<1>. QED
  BY <1>12, <1>13 DEF Meets

\* Merging leaves a list of as many glyphs.
LEMMA MergedGlyphs ==
    ASSUME NEW L \in Seq(Glyph), NEW s \in Nat \ {0}, NEW e \in Nat, e <= Len(L)
    PROVE  List!Merged(L, s, e) \in Seq(Glyph) /\ Len(List!Merged(L, s, e)) = Len(L)
<1> DEFINE S == {L[i].cluster : i \in s .. e}
           least == Min(S)
           K == List!Reach(L, s, e)
<1>1. CASE e <= s
  BY <1>1, MergedIs
<1>2. CASE ~(e <= s)
  <2>1. \A i \in s .. e : L[i] \in Glyph
    OBVIOUS
  <2>2. \A i \in s .. e : L[i].cluster \in Nat
    BY <2>1 DEF Glyph
  <2>3. S \in SUBSET Nat /\ S # {}
    <3>1. s \in s .. e
      BY <1>2
    <3>. QED
      BY <2>2, <3>1
  <2> HIDE DEF S
  <2>4. least \in Nat
    BY <2>3, LeastOf
  <2>5. least = Min({L[i].cluster : i \in s .. e})
    BY DEF S
  <2> HIDE DEF least, K
  <2>6. List!Merged(L, s, e) = MarkedList(L, K, least)
    BY <1>2, <2>5, MergedIs DEF K
  <2>7. IsMarkedList(MarkedList(L, K, least), L, K, least)
    BY <2>4, MarkedListIs
  <2>. QED
    BY <2>6, <2>7 DEF IsMarkedList
<1>. QED
  BY <1>1, <1>2

LEMMA UnledGlyphs ==
    ASSUME NEW L \in Seq(Glyph), NEW d \in Nat, d < Len(L)
    PROVE  Unled(L, d) \in Seq(Glyph) /\ Len(Unled(L, d)) = Len(L)
<1> DEFINE cluster == L[d + 1].cluster
           next == d + 1 < Len(L)
           K == {i \in DOMAIN L : i <= d /\ AllSame(L, i, d, L[d].cluster)}
<1>1. L[d + 1] \in Glyph
  OBVIOUS
<1>2. cluster \in Nat
  BY <1>1 DEF Glyph
<1> HIDE DEF K, cluster
<1>3. MarkedList(L, K, cluster) \in Seq(Glyph) /\ Len(MarkedList(L, K, cluster)) = Len(L)
  BY <1>2, MarkedListIs DEF IsMarkedList
<1>4. CASE d = 0 /\ next
  <2>1. 1 \in Nat \ {0} /\ 2 \in Nat /\ 2 <= Len(L)
    BY <1>4
  <2>. QED
    BY <1>3, <2>1, MergedGlyphs DEF Unled, K, cluster
<1>5. CASE ~(d = 0 /\ next)
  BY <1>3, <1>5 DEF Unled, K, cluster
<1>. QED
  BY <1>4, <1>5
-----------------------------------------------------------------------------
(***************************************************************************)
(* The clusters of the list.                                               *)
(***************************************************************************)
Covers(L) == Monotone(L) /\ (L # <<>> => \E i \in DOMAIN L : L[i].cluster = 0)

\* The same over numbers: n clusters c[1], ..., c[n].
Up(c, n) == \A i, j \in 1 .. n : i < j => c[i] <= c[j]
Down(c, n) == \A i, j \in 1 .. n : i < j => c[i] >= c[j]
Clear(c, n) == (Up(c, n) \/ Down(c, n)) /\ (n # 0 => \E i \in 1 .. n : c[i] = 0)
Of(L) == [i \in 1 .. Len(L) |-> L[i].cluster]

LEMMA CoversIsClear ==
    ASSUME NEW L \in Seq(Glyph) PROVE Covers(L) <=> Clear(Of(L), Len(L))
<1> DEFINE n == Len(L)
<1>1. n \in Nat /\ DOMAIN L = 1 .. n /\ (L # <<>> <=> n # 0)
  OBVIOUS
<1> HIDE DEF n
<1>2. \A i \in 1 .. n : Of(L)[i] = L[i].cluster
  BY DEF Of, n
<1>3. Monotone(L) <=> Up(Of(L), n) \/ Down(Of(L), n)
  BY <1>1, <1>2 DEF Monotone, Up, Down
<1>4. (L # <<>> => \E i \in DOMAIN L : L[i].cluster = 0) <=> (n # 0 => \E i \in 1 .. n : Of(L)[i] = 0)
  BY <1>1, <1>2
<1>. QED
  BY <1>3, <1>4 DEF Covers, Clear, n

LEMMA ClustersOf ==
    ASSUME NEW L \in Seq(Glyph)
    PROVE  Of(L) \in [1 .. Len(L) -> Nat] /\ \A i \in 1 .. Len(L) : Of(L)[i] = L[i].cluster
<1>1. \A i \in 1 .. Len(L) : L[i] \in Glyph
  OBVIOUS
<1>. QED
  BY <1>1 DEF Of, Glyph

LEMMA LeastLeq ==
    ASSUME NEW S \in SUBSET Nat, NEW m \in S PROVE Min(S) <= m
<1>1. \E l \in S : \A k \in S : ~ (<<k, l>> \in OpToRel(<, Nat))
  BY NatLessThanWellFounded, WFMin
<1>2. \A k, l \in S : ~ (<<k, l>> \in OpToRel(<, Nat)) => l <= k
  BY DEF OpToRel
<1>. QED
  BY <1>1, <1>2 DEF Min

\* c with the clusters at K made least: those from s to e, and those next to them that
\* are as the first or the last.
Joins(c, n, s, e, K) ==
    \A i \in 1 .. n :
      i \in K <=> \/ i \in s .. e
                  \/ i < s /\ \A k \in i .. s : c[k] = c[s]
                  \/ i > e /\ \A k \in e .. i : c[k] = c[e]
IsLeast(least, c, s, e) == (\E k \in s .. e : c[k] = least) /\ \A k \in s .. e : least <= c[k]
IsClustered(f, c, n, K, least) == \A i \in 1 .. n : f[i] = IF i \in K THEN least ELSE c[i]

LEMMA JoinedIsClear ==
    ASSUME NEW n \in Nat, NEW c \in [1 .. n -> Nat], NEW s \in 1 .. n, NEW e \in 1 .. n, s < e,
           NEW K, Joins(c, n, s, e, K), NEW least \in Nat, IsLeast(least, c, s, e),
           NEW f, IsClustered(f, c, n, K, least), Clear(c, n)
    PROVE  Clear(f, n)
<1>0. /\ \E k \in s .. e : c[k] = least
      /\ \A k \in s .. e : least <= c[k]
      /\ \A i \in 1 .. n : f[i] = IF i \in K THEN least ELSE c[i]
  BY DEF IsLeast, IsClustered
<1>1. ASSUME Up(c, n) PROVE Up(f, n)
  <2>1. least = c[s]
    <3>1. PICK k \in s .. e : c[k] = least
      BY <1>0
    <3>2. k \in 1 .. n /\ (s < k \/ s = k) /\ s \in s .. e
      OBVIOUS
    <3>3. c[s] <= c[k] /\ least <= c[s] /\ c[s] \in Nat
      BY <1>0, <1>1, <3>2 DEF Up
    <3>. QED
      BY <1>0, <3>1, <3>3
  <2>2. ASSUME NEW i \in 1 .. n, NEW j \in 1 .. n, i < j PROVE f[i] <= f[j]
    <3>1. c[i] \in Nat /\ c[j] \in Nat /\ c[i] <= c[j]
      BY <1>1, <2>2 DEF Up
    <3>2. CASE i \in K /\ j \in K
      BY <1>0, <3>2
    <3>3. CASE i \notin K /\ j \notin K
      BY <1>0, <3>1, <3>3
    <3>4. CASE i \in K /\ j \notin K
      <4>1. least <= c[i]
        <5>1. CASE i \in s .. e
          BY <1>0, <5>1
        <5>2. CASE i < s /\ \A k \in i .. s : c[k] = c[s]
          <6>1. i \in i .. s
            BY <5>2
          <6>. QED
            BY <2>1, <5>2, <6>1
        <5>3. CASE i > e
          BY <1>1, <2>1, <5>3 DEF Up
        <5>. QED
          BY <3>4, <5>1, <5>2, <5>3 DEF Joins
      <4>. QED
        BY <1>0, <3>1, <3>4, <4>1
    <3>5. CASE i \notin K /\ j \in K
      <4>1. i < s
        <5>1. i \notin s .. e
          BY <3>5 DEF Joins
        <5>2. CASE i > e
          <6>1. j > e /\ ~(j \in s .. e) /\ ~(j < s)
            BY <2>2, <5>2
          <6>2. \A k \in e .. j : c[k] = c[e]
            BY <3>5, <6>1 DEF Joins
          <6>3. \A k \in e .. i : k \in e .. j
            BY <2>2
          <6>. QED
            BY <3>5, <5>2, <6>2, <6>3 DEF Joins
        <5>. QED
          BY <5>1, <5>2
      <4>2. c[i] <= c[s]
        BY <1>1, <4>1 DEF Up
      <4>. QED
        BY <1>0, <2>1, <3>5, <4>2
    <3>. QED
      BY <3>2, <3>3, <3>4, <3>5
  <2>. QED
    BY <2>2 DEF Up
<1>2. ASSUME Down(c, n) PROVE Down(f, n)
  <2>1. least = c[e]
    <3>1. PICK k \in s .. e : c[k] = least
      BY <1>0
    <3>2. k \in 1 .. n /\ (k < e \/ e = k) /\ e \in s .. e
      OBVIOUS
    <3>3. c[k] >= c[e] /\ least <= c[e] /\ c[e] \in Nat
      BY <1>0, <1>2, <3>2 DEF Down
    <3>. QED
      BY <1>0, <3>1, <3>3
  <2>2. ASSUME NEW i \in 1 .. n, NEW j \in 1 .. n, i < j PROVE f[i] >= f[j]
    <3>1. c[i] \in Nat /\ c[j] \in Nat /\ c[i] >= c[j]
      BY <1>2, <2>2 DEF Down
    <3>2. CASE i \in K /\ j \in K
      BY <1>0, <3>2
    <3>3. CASE i \notin K /\ j \notin K
      BY <1>0, <3>1, <3>3
    <3>4. CASE i \notin K /\ j \in K
      <4>1. least <= c[j]
        <5>1. CASE j \in s .. e
          BY <1>0, <5>1
        <5>2. CASE j > e /\ \A k \in e .. j : c[k] = c[e]
          <6>1. j \in e .. j
            BY <5>2
          <6>. QED
            BY <2>1, <5>2, <6>1
        <5>3. CASE j < s
          <6>1. c[j] >= c[e] /\ c[e] \in Nat
            BY <1>2, <5>3 DEF Down
          <6>. QED
            BY <2>1, <6>1
        <5>. QED
          BY <3>4, <5>1, <5>2, <5>3 DEF Joins
      <4>. QED
        BY <1>0, <3>1, <3>4, <4>1
    <3>5. CASE i \in K /\ j \notin K
      <4>1. j > e
        <5>1. j \notin s .. e
          BY <3>5 DEF Joins
        <5>2. CASE j < s
          <6>1. i < s /\ ~(i \in s .. e) /\ ~(i > e)
            BY <2>2, <5>2
          <6>2. \A k \in i .. s : c[k] = c[s]
            BY <3>5, <6>1 DEF Joins
          <6>3. \A k \in j .. s : k \in i .. s
            BY <2>2
          <6>. QED
            BY <3>5, <5>2, <6>2, <6>3 DEF Joins
        <5>. QED
          BY <5>1, <5>2
      <4>2. c[e] >= c[j]
        BY <1>2, <4>1 DEF Down
      <4>. QED
        BY <1>0, <2>1, <3>5, <4>2
    <3>. QED
      BY <3>2, <3>3, <3>4, <3>5
  <2>. QED
    BY <2>2 DEF Down
<1>3. n # 0 => \E i \in 1 .. n : f[i] = 0
  <2>1. PICK i \in 1 .. n : c[i] = 0
    BY DEF Clear
  <2>2. CASE i \notin K
    BY <1>0, <2>1, <2>2
  <2>3. CASE i \in K
    <3>1. PICK k \in s .. e : c[k] = 0
      <4>1. CASE i \in s .. e
        BY <2>1, <4>1
      <4>2. CASE i < s /\ \A k \in i .. s : c[k] = c[s]
        <5>1. i \in i .. s /\ s \in s .. e
          BY <4>2
        <5>. QED
          BY <2>1, <4>2, <5>1
      <4>3. CASE i > e /\ \A k \in e .. i : c[k] = c[e]
        <5>1. i \in e .. i /\ e \in s .. e
          BY <4>3
        <5>. QED
          BY <2>1, <4>3, <5>1
      <4>. QED
        BY <2>3, <4>1, <4>2, <4>3 DEF Joins
    <3>2. least = 0
      BY <1>0, <3>1
    <3>. QED
      BY <1>0, <2>3, <3>2
  <2>. QED
    BY <2>2, <2>3
<1>. QED
  BY <1>1, <1>2, <1>3 DEF Clear

LEMMA MergedCovers ==
    ASSUME NEW L \in Seq(Glyph), NEW s \in 1 .. Len(L), NEW e \in 1 .. Len(L), Covers(L)
    PROVE  Covers(List!Merged(L, s, e))
<1> DEFINE n == Len(L)
           c == Of(L)
           S == {L[i].cluster : i \in s .. e}
           least == Min(S)
           K == List!Reach(L, s, e)
           M == List!Merged(L, s, e)
<1>1. CASE e <= s
  BY <1>1, MergedIs
<1>2. CASE ~(e <= s)
  <2>1. n \in Nat /\ c \in [1 .. n -> Nat] /\ \A i \in 1 .. n : c[i] = L[i].cluster
    BY ClustersOf
  <2>2. Clear(c, n)
    BY CoversIsClear
  <2>3. s \in 1 .. n /\ e \in 1 .. n /\ s < e /\ \A k \in s .. e : k \in 1 .. n
    BY <1>2
  <2> HIDE DEF c
  <2>4. S \in SUBSET Nat /\ S # {} /\ \A k \in s .. e : c[k] \in S
    <3>1. s \in s .. e /\ \A k \in s .. e : L[k].cluster \in Nat /\ c[k] = L[k].cluster
      BY <2>1, <2>3
    <3>. QED
      BY <3>1
  <2>5. least \in S
    BY <2>4, LeastOf
  <2>6. \E k \in s .. e : c[k] = least
    <3>1. PICK k \in s .. e : least = L[k].cluster
      BY <2>5
    <3>. QED
      BY <2>1, <2>3, <3>1
  <2>7. \A k \in s .. e : least <= c[k]
    BY <2>4, LeastLeq
  <2>8. least \in Nat /\ least = Min({L[i].cluster : i \in s .. e})
    BY <2>4, <2>5
  <2>9. Joins(c, n, s, e, K)
    <3>1. ASSUME NEW i \in 1 .. n
          PROVE  i \in K <=> \/ i \in s .. e
                             \/ i < s /\ \A k \in i .. s : c[k] = c[s]
                             \/ i > e /\ \A k \in e .. i : c[k] = c[e]
      <4>1. i \in K <=> \/ i \in s .. e
                        \/ i < s /\ AllSame(L, i, s, L[s].cluster)
                        \/ i > e /\ AllSame(L, e, i, L[e].cluster)
        BY InReach
      <4>2. i < s => \A k \in i .. s : k \in 1 .. n
        BY <2>3
      <4>3. i > e => \A k \in e .. i : k \in 1 .. n
        BY <2>3
      <4>4. i < s => (AllSame(L, i, s, L[s].cluster) <=> \A k \in i .. s : c[k] = c[s])
        BY <2>1, <2>3, <4>2 DEF AllSame
      <4>5. i > e => (AllSame(L, e, i, L[e].cluster) <=> \A k \in e .. i : c[k] = c[e])
        BY <2>1, <2>3, <4>3 DEF AllSame
      <4> HIDE DEF K, n
      <4>. QED
        BY <4>1, <4>4, <4>5
    <3>. QED
      BY <3>1 DEF Joins
  <2> HIDE DEF K, S, least
  <2>10. M = MarkedList(L, K, least)
    BY <1>2, <2>8, MergedIs DEF K
  <2>11. IsMarkedList(M, L, K, least)
    BY <2>8, <2>10, MarkedListIs
  <2> HIDE DEF M
  <2>12. M \in Seq(Glyph) /\ Len(M) = n
    BY <2>11 DEF IsMarkedList
  <2> DEFINE f == Of(M)
  <2>13. \A i \in 1 .. n : f[i] = IF i \in K THEN least ELSE c[i]
    <3>1. ASSUME NEW i \in 1 .. n PROVE f[i] = IF i \in K THEN least ELSE c[i]
      <4>1. f[i] = M[i].cluster
        BY <2>12 DEF Of
      <4>2. M[i] = IF i \in K THEN [L[i] EXCEPT !.cluster = least] ELSE L[i]
        BY <2>11 DEF IsMarkedList
      <4>3. L[i] \in Glyph
        OBVIOUS
      <4>4. [L[i] EXCEPT !.cluster = least].cluster = least
        BY <4>3 DEF Glyph
      <4>. QED
        BY <2>1, <4>1, <4>2, <4>4
    <3>. QED
      BY <3>1
  <2> HIDE DEF f, n
  <2>14. IsLeast(least, c, s, e) /\ IsClustered(f, c, n, K, least)
    BY <2>6, <2>7, <2>13 DEF IsLeast, IsClustered
  <2>15. Clear(f, n)
    BY <2>1, <2>2, <2>3, <2>8, <2>9, <2>14, JoinedIsClear
  <2>. QED
    BY <2>12, <2>15, CoversIsClear DEF f, M
<1>. QED
  BY <1>1, <1>2

\* f is c with l times v in the place of m numbers behind the first d; v is next to them,
\* and if 0 was among the m, it is still somewhere.
IsPutIn(f, c, n, d, m, l, v) ==
    /\ \A i \in 1 .. d : f[i] = c[i]
    /\ \A i \in 1 .. l : f[d + i] = v
    /\ \A i \in 1 .. n - d - m : f[d + l + i] = c[d + m + i]
Fits(c, n, d, l, v) == l # 0 => \E k \in 1 .. n : (k = d \/ k = d + 1) /\ c[k] = v
Stays(c, n, d, m, l, v) ==
    \/ \E i \in 1 .. n : (i <= d \/ i > d + m) /\ c[i] = 0
    \/ l # 0 /\ v = 0
    \/ l = 0 /\ n = m

LEMMA PutIsClear ==
    ASSUME NEW n \in Nat, NEW c \in [1 .. n -> Nat], NEW d \in Nat, NEW m \in Nat, d + m <= n,
           NEW l \in Nat, NEW v \in Nat, NEW f, IsPutIn(f, c, n, d, m, l, v), Fits(c, n, d, l, v),
           Stays(c, n, d, m, l, v), Clear(c, n)
    PROVE  Clear(f, (n - m) + l)
<1> DEFINE z == (n - m) + l
<1>0. z \in Nat
  OBVIOUS
<1>1. PICK k \in Int : l # 0 => k \in 1 .. n /\ (k = d \/ k = d + 1) /\ c[k] = v
  <2>1. CASE l # 0
    BY <2>1 DEF Fits
  <2>2. CASE l = 0
    <3>1. 0 \in Int
      OBVIOUS
    <3>. QED
      BY <2>2, <3>1
  <2>. QED
    BY <2>1, <2>2
<1> DEFINE F(i) == IF i <= d THEN i ELSE IF i <= d + l THEN k ELSE (i - (d + l)) + (d + m)
<1>2. ASSUME NEW i \in 1 .. z PROVE F(i) \in 1 .. n /\ f[i] = c[F(i)]
  <2>1. CASE i <= d
    BY <2>1 DEF IsPutIn
  <2>2. CASE ~(i <= d) /\ i <= d + l
    <3> DEFINE j == i - d
    <3>1. j \in 1 .. l /\ d + j = i /\ l # 0
      BY <2>2
    <3> HIDE DEF j
    <3>2. f[d + j] = v
      BY <3>1 DEF IsPutIn
    <3>. QED
      BY <1>1, <2>2, <3>1, <3>2
  <2>3. CASE ~(i <= d) /\ ~(i <= d + l)
    <3> DEFINE j == i - (d + l)
    <3>1. j \in 1 .. n - d - m /\ d + l + j = i /\ d + m + j \in 1 .. n /\ j + (d + m) = d + m + j
      BY <2>3
    <3>2. F(i) = d + m + j
      BY <2>3, <3>1
    <3> HIDE DEF j, F
    <3>3. f[d + l + j] = c[d + m + j]
      BY <3>1 DEF IsPutIn
    <3>. QED
      BY <3>1, <3>2, <3>3
  <2>. QED
    BY <2>1, <2>2, <2>3
<1>3. ASSUME NEW i \in 1 .. z, NEW j \in 1 .. z, i < j PROVE F(i) = F(j) \/ F(i) < F(j)
  BY <1>1, <1>3
<1> HIDE DEF F
<1>4. ASSUME Up(c, n) PROVE Up(f, z)
  <2>1. ASSUME NEW i \in 1 .. z, NEW j \in 1 .. z, i < j PROVE f[i] <= f[j]
    <3>1. /\ F(i) \in 1 .. n /\ F(j) \in 1 .. n /\ f[i] = c[F(i)] /\ f[j] = c[F(j)]
          /\ F(i) = F(j) \/ F(i) < F(j)
      BY <1>2, <1>3, <2>1
    <3>2. c[F(i)] \in Nat
      BY <3>1
    <3>. QED
      BY <1>4, <3>1, <3>2 DEF Up
  <2> HIDE DEF z
  <2>. QED
    BY <2>1 DEF Up
<1>5. ASSUME Down(c, n) PROVE Down(f, z)
  <2>1. ASSUME NEW i \in 1 .. z, NEW j \in 1 .. z, i < j PROVE f[i] >= f[j]
    <3>1. /\ F(i) \in 1 .. n /\ F(j) \in 1 .. n /\ f[i] = c[F(i)] /\ f[j] = c[F(j)]
          /\ F(i) = F(j) \/ F(i) < F(j)
      BY <1>2, <1>3, <2>1
    <3>2. c[F(i)] \in Nat
      BY <3>1
    <3>. QED
      BY <1>5, <3>1, <3>2 DEF Down
  <2> HIDE DEF z
  <2>. QED
    BY <2>1 DEF Down
<1>6. z # 0 => \E i \in 1 .. z : f[i] = 0
  <2>1. CASE \E i \in 1 .. n : (i <= d \/ i > d + m) /\ c[i] = 0
    <3>1. PICK i \in 1 .. n : (i <= d \/ i > d + m) /\ c[i] = 0
      BY <2>1
    <3>2. CASE i <= d
      <4>1. i \in 1 .. d /\ i \in 1 .. z
        BY <3>2
      <4>. QED
        BY <3>1, <4>1 DEF IsPutIn
    <3>3. CASE i > d + m
      <4> DEFINE j == i - (d + m)
      <4>1. j \in 1 .. n - d - m /\ d + m + j = i /\ d + l + j \in 1 .. z
        BY <3>3
      <4> HIDE DEF j, z
      <4>2. f[d + l + j] = c[d + m + j]
        BY <4>1 DEF IsPutIn
      <4>. QED
        BY <3>1, <4>1, <4>2
    <3>. QED
      BY <3>1, <3>2, <3>3
  <2>2. CASE l # 0 /\ v = 0
    <3>1. 1 \in 1 .. l /\ d + 1 \in 1 .. z
      BY <2>2
    <3>. QED
      BY <2>2, <3>1 DEF IsPutIn
  <2>3. CASE l = 0 /\ n = m
    BY <2>3
  <2>. QED
    BY <2>1, <2>2, <2>3 DEF Stays
<1>. QED
  BY <1>4, <1>5, <1>6 DEF Clear

AllLike(list, v) == \A i \in 1 .. Len(list) : list[i].cluster = v

LEMMA PutCovers ==
    ASSUME NEW L \in Seq(Glyph), NEW d \in Nat, NEW m \in Nat, d + m <= Len(L),
           NEW list \in Seq(Glyph), NEW v \in Nat, AllLike(list, v), Covers(L),
           Fits(Of(L), Len(L), d, Len(list), v), Stays(Of(L), Len(L), d, m, Len(list), v)
    PROVE  Covers(PutAt(L, d, m, list))
<1> DEFINE n == Len(L)
           l == Len(list)
           P == PutAt(L, d, m, list)
           c == Of(L)
           f == Of(P)
<1>1. IsPut(P, L, d, m, list)
  BY PutIs
<1> HIDE DEF P
<1>2. n \in Nat /\ l \in Nat /\ c \in [1 .. n -> Nat] /\ \A i \in 1 .. n : c[i] = L[i].cluster
  BY ClustersOf
<1>3. P \in Seq(Glyph) /\ Len(P) = (n - m) + l
  BY <1>1 DEF IsPut
<1> HIDE DEF n, l
<1>4. \A i \in 1 .. (n - m) + l : f[i] = P[i].cluster
  BY <1>3 DEF Of
<1> HIDE DEF c, f
<1>5. ASSUME NEW i \in 1 .. d PROVE f[i] = c[i]
  <2>1. i \in 1 .. n /\ i \in 1 .. (n - m) + l
    BY <1>2 DEF n
  <2>2. P[i] = L[i]
    BY <1>1 DEF IsPut
  <2>. QED
    BY <1>2, <1>4, <2>1, <2>2
<1>6. ASSUME NEW i \in 1 .. l PROVE f[d + i] = v
  <2>1. d + i \in 1 .. (n - m) + l
    BY <1>2 DEF n
  <2>2. P[d + i] = list[i] /\ list[i].cluster = v
    BY <1>1 DEF IsPut, AllLike, l
  <2>. QED
    BY <1>4, <2>1, <2>2
<1>7. ASSUME NEW i \in 1 .. n - d - m PROVE f[d + l + i] = c[d + m + i]
  <2>1. d + l + i \in 1 .. (n - m) + l /\ d + m + i \in 1 .. n
    BY <1>2
  <2>2. P[d + l + i] = L[d + m + i]
    BY <1>1 DEF IsPut, n, l
  <2>. QED
    BY <1>2, <1>4, <2>1, <2>2
<1>8. IsPutIn(f, c, n, d, m, l, v)
  BY <1>5, <1>6, <1>7 DEF IsPutIn
<1>9. Clear(c, n) /\ Fits(c, n, d, l, v) /\ Stays(c, n, d, m, l, v) /\ d + m <= n
  BY CoversIsClear DEF c, n, l
<1>10. Clear(f, (n - m) + l)
  BY <1>2, <1>8, <1>9, PutIsClear, Zenon
<1>. QED
  BY <1>3, <1>10, CoversIsClear DEF f, P

\* What was merged is one cluster.
OneCluster(M, s, e) == \A i \in s .. e : M[i].cluster = M[s].cluster

LEMMA MergedIsOne ==
    ASSUME NEW L \in Seq(Glyph), NEW s \in 1 .. Len(L), NEW e \in 1 .. Len(L)
    PROVE  OneCluster(List!Merged(L, s, e), s, e)
<1> DEFINE S == {L[i].cluster : i \in s .. e}
           least == Min(S)
           K == List!Reach(L, s, e)
           M == List!Merged(L, s, e)
<1>1. CASE e <= s
  <2>1. \A i \in s .. e : i = s
    BY <1>1
  <2>. QED
    BY <2>1 DEF OneCluster
<1>2. CASE ~(e <= s)
  <2>1. M = MarkedList(L, K, least)
    BY <1>2, MergedIs
  <2>2. \A i \in s .. e : i \in DOMAIN L /\ i \in K
    BY DEF List!Reach
  <2> HIDE DEF least, K, M
  <2>3. ASSUME NEW i \in s .. e PROVE M[i].cluster = least
    <3>1. M[i] = [L[i] EXCEPT !.cluster = least]
      BY <2>1, <2>2 DEF MarkedList
    <3>2. L[i] \in Glyph
      BY <2>2
    <3>. QED
      BY <3>1, <3>2 DEF Glyph
  <2>4. s \in s .. e
    BY <1>2
  <2>5. OneCluster(M, s, e)
    BY <2>3, <2>4 DEF OneCluster
  <2>. QED
    BY <2>5 DEF M
<1>. QED
  BY <1>1, <1>2

\* The clusters before the d-th glyph that are as its own become that of the next one, which
\* is less.
Takes(f, c, n, d) ==
    \A i \in 1 .. n : f[i] = IF i <= d /\ \A k \in i .. d : c[k] = c[d] THEN c[d + 1] ELSE c[i]

Taken(f, c, n, d) == Clear(f, n) /\ f[d] = c[d + 1] /\ f[d + 1] = c[d + 1]

LEMMA TakenIsClear ==
    ASSUME NEW n \in Nat, NEW c \in [1 .. n -> Nat], NEW d \in Nat \ {0}, d < n, c[d + 1] < c[d],
           NEW f, Takes(f, c, n, d), Clear(c, n)
    PROVE  Taken(f, c, n, d)
<1> DEFINE e == d + 1
           least == c[e]
           K == {i \in 1 .. n : \/ i \in d .. e
                                \/ i < d /\ \A k \in i .. d : c[k] = c[d]
                                \/ i > e /\ \A k \in e .. i : c[k] = c[e]}
<1>1. d \in 1 .. n /\ e \in 1 .. n /\ d < e /\ least \in Nat
  OBVIOUS
<1>2. Joins(c, n, d, e, K)
  BY DEF Joins
<1>3. IsLeast(least, c, d, e)
  <2>1. e \in d .. e /\ \A k \in d .. e : k = d \/ k = e
    BY <1>1
  <2>2. c[d] \in Nat /\ c[e] <= c[d] /\ c[e] <= c[e]
    BY <1>1
  <2>. QED
    BY <2>1, <2>2 DEF IsLeast
<1>4. ASSUME NEW i \in 1 .. n PROVE f[i] = IF i \in K THEN least ELSE c[i]
  <2>1. f[i] = IF i <= d /\ \A k \in i .. d : c[k] = c[d] THEN c[e] ELSE c[i]
    BY DEF Takes
  <2>2. CASE i < d
    BY <2>1, <2>2
  <2>3. CASE i = d
    <3>1. \A k \in i .. d : k = d
      BY <2>3
    <3>2. i <= d /\ i \in d .. e
      BY <2>3
    <3>. QED
      BY <2>1, <3>1, <3>2
  <2>4. CASE i = e
    BY <2>1, <2>4
  <2>5. CASE i > e
    <3>1. f[i] = c[i]
      BY <2>1, <2>5
    <3>2. i \in e .. i
      BY <2>5
    <3>3. i \in K => c[i] = c[e]
      BY <2>5, <3>2
    <3>. QED
      BY <3>1, <3>3
  <2>. QED
    BY <2>2, <2>3, <2>4, <2>5
<1>5. d \in K /\ e \in K
  BY <1>1
<1> HIDE DEF K
<1>6. IsClustered(f, c, n, K, least)
  BY <1>4 DEF IsClustered
<1>7. Clear(f, n)
  BY <1>1, <1>2, <1>3, <1>6, JoinedIsClear
<1>. QED
  BY <1>1, <1>4, <1>5, <1>7 DEF Taken

\* Before a glyph goes, its cluster is made a neighbour's: the clusters stay clear without it.
Loses(U, d) == Covers(U) /\ Stays(Of(U), Len(U), d, 1, 0, 0)

LEMMA UnledCovers ==
    ASSUME NEW L \in Seq(Glyph), NEW d \in Nat, d < Len(L), Covers(L)
    PROVE  Loses(Unled(L, d), d)
<1> DEFINE n == Len(L)
           c == Of(L)
           U == Unled(L, d)
           f == Of(U)
           v == L[d + 1].cluster
           K == {i \in DOMAIN L : i <= d /\ AllSame(L, i, d, L[d].cluster)}
<1>1. /\ n \in Nat /\ d + 1 \in 1 .. n /\ c \in [1 .. n -> Nat]
      /\ \A i \in 1 .. n : c[i] = L[i].cluster
  BY ClustersOf
<1>2. U \in Seq(Glyph) /\ Len(U) = n
  BY UnledGlyphs
<1>3. v = c[d + 1] /\ v \in Nat
  BY <1>1
<1>4. Clear(c, n) /\ n # 0
  BY <1>1, CoversIsClear
<1>5. PICK z \in 1 .. n : c[z] = 0
  BY <1>4 DEF Clear
<1>6. CASE d + 1 < n /\ v = L[d + 2].cluster
  <2>1. U = L
    BY <1>6 DEF Unled
  <2>2. c[d + 2] = v /\ d + 2 \in 1 .. n /\ d + 2 > d + 1
    BY <1>1, <1>6
  <2>3. \E i \in 1 .. n : (i <= d \/ i > d + 1) /\ c[i] = 0
    <3> HIDE DEF c, n, v
    <3>1. CASE z = d + 1
      BY <1>3, <1>5, <2>2, <3>1
    <3>2. CASE z # d + 1
      BY <1>5, <3>2
    <3>. QED
      BY <3>1, <3>2
  <2>. QED
    BY <2>1, <2>3 DEF Loses, Stays
<1>7. CASE ~(d + 1 < n /\ v = L[d + 2].cluster) /\ d > 0 /\ ~(v < L[d].cluster)
  <2>1. U = L
    BY <1>7 DEF Unled
  <2>2. d \in 1 .. n /\ c[d] = L[d].cluster /\ c[d] \in Nat
    BY <1>1, <1>7
  <2>3. \E i \in 1 .. n : (i <= d \/ i > d + 1) /\ c[i] = 0
    <3> HIDE DEF c, n, v
    <3>1. CASE z = d + 1
      <4>1. c[d] = 0
        BY <1>3, <1>5, <1>7, <2>2, <3>1
      <4>. QED
        BY <2>2, <4>1
    <3>2. CASE z # d + 1
      BY <1>5, <3>2
    <3>. QED
      BY <3>1, <3>2
  <2>. QED
    BY <2>1, <2>3 DEF Loses, Stays
<1>8. CASE ~(d + 1 < n /\ v = L[d + 2].cluster) /\ d > 0 /\ v < L[d].cluster
  <2>1. U = MarkedList(L, K, v)
    BY <1>8 DEF Unled
  <2>2. IsMarkedList(U, L, K, v)
    BY <1>3, <2>1, MarkedListIs
  <2>3. d \in 1 .. n /\ c[d] = L[d].cluster
    BY <1>1, <1>8
  <2> HIDE DEF U
  <2>4. ASSUME NEW i \in 1 .. n
        PROVE  f[i] = IF i <= d /\ \A k \in i .. d : c[k] = c[d] THEN c[d + 1] ELSE c[i]
    <3>1. f[i] = U[i].cluster
      BY <1>2 DEF Of
    <3>2. U[i] = IF i \in K THEN [L[i] EXCEPT !.cluster = v] ELSE L[i]
      BY <2>2 DEF IsMarkedList
    <3>3. L[i] \in Glyph /\ i \in DOMAIN L
      OBVIOUS
    <3>4. [L[i] EXCEPT !.cluster = v].cluster = v
      BY <3>3 DEF Glyph
    <3>5. i <= d => \A k \in i .. d : k \in 1 .. n
      BY <2>3
    <3>6. i <= d => (AllSame(L, i, d, L[d].cluster) <=> \A k \in i .. d : c[k] = c[d])
      BY <1>1, <2>3, <3>5 DEF AllSame
    <3>7. i \in K <=> i <= d /\ AllSame(L, i, d, L[d].cluster)
      BY <3>3
    <3>8. c[i] = L[i].cluster
      BY <1>1
    <3> HIDE DEF K, v, c, f, n
    <3>. QED
      BY <1>3, <3>1, <3>2, <3>4, <3>6, <3>7, <3>8
  <2>5. Takes(f, c, n, d)
    BY <2>4 DEF Takes
  <2>6. d \in Nat \ {0} /\ d < n /\ c[d + 1] < c[d]
    BY <1>3, <1>8, <2>3
  <2> HIDE DEF c, n, f, v, K
  <2>7. Taken(f, c, n, d)
    BY <1>1, <1>4, <2>5, <2>6, TakenIsClear
  <2>8. PICK y \in 1 .. n : f[y] = 0
    BY <1>4, <2>7 DEF Clear, Taken
  <2>9. \E i \in 1 .. n : (i <= d \/ i > d + 1) /\ f[i] = 0
    <3>1. CASE y = d + 1
      BY <2>3, <2>7, <2>8, <3>1 DEF Taken
    <3>2. CASE y # d + 1
      BY <2>8, <3>2
    <3>. QED
      BY <3>1, <3>2
  <2>10. Covers(U)
    BY <1>2, <2>7, CoversIsClear DEF f, Taken
  <2>11. Stays(f, n, d, 1, 0, 0)
    BY <2>9 DEF Stays
  <2>. QED
    BY <1>2, <2>10, <2>11 DEF Loses, f, U
<1>9. CASE ~(d + 1 < n /\ v = L[d + 2].cluster) /\ ~(d > 0) /\ d + 1 < n
  <2>1. d = 0 /\ 1 \in 1 .. n /\ 2 \in 1 .. n
    BY <1>9
  <2>2. U = List!Merged(L, 1, 2)
    BY <1>9 DEF Unled
  <2>3. Covers(U)
    BY <2>1, <2>2, MergedCovers
  <2>4. OneCluster(U, 1, 2)
    BY <2>1, <2>2, MergedIsOne
  <2> HIDE DEF U
  <2>5. Clear(f, n) /\ \A i \in 1 .. n : f[i] = U[i].cluster
    BY <1>2, <2>3, CoversIsClear, ClustersOf
  <2>6. 2 \in 1 .. 2
    OBVIOUS
  <2>7. f[2] = f[1]
    BY <2>1, <2>4, <2>5, <2>6 DEF OneCluster
  <2> HIDE DEF f, n
  <2>8. PICK y \in 1 .. n : f[y] = 0
    BY <1>4, <2>5 DEF Clear
  <2>9. \E i \in 1 .. n : (i <= d \/ i > d + 1) /\ f[i] = 0
    <3>1. CASE y = 1
      BY <2>1, <2>7, <2>8, <3>1
    <3>2. CASE y # 1
      BY <2>1, <2>8, <3>2
    <3>. QED
      BY <3>1, <3>2
  <2>10. Stays(f, n, d, 1, 0, 0)
    BY <2>9 DEF Stays
  <2>. QED
    BY <1>2, <2>3, <2>10 DEF Loses, f, U
<1>10. CASE ~(d > 0) /\ ~(d + 1 < n)
  <2>1. d = 0 /\ n = 1
    <3> HIDE DEF n
    <3>. QED
      BY <1>1, <1>10
  <2>2. U = L
    BY <1>10, Zenon DEF Unled
  <2>. QED
    BY <2>1, <2>2 DEF Loses, Stays
<1>. QED
  BY <1>6, <1>7, <1>8, <1>9, <1>10

\* The list is where the cursor cuts it in two.
LEMMA CutCovers ==
    ASSUME NEW P \in Seq(Glyph), NEW e \in 0 .. Len(P), Covers(P), List!Cut(P, e)
    PROVE  Covers(List!All')
<1>1. SubSeq(P, 1, e) \o SubSeq(P, e + 1, Len(P)) = P
  BY WholeList
<1>2. List!All' = P
  BY <1>1 DEF List!Cut, List!All
<1>. QED
  BY <1>2

\* P is a list, cut at e, whose clusters are as clear as L's.
Keeps(P, e, L) == P \in Seq(Glyph) /\ e \in 0 .. Len(P) /\ (Covers(L) => Covers(P))

LEMMA PutKeeps ==
    ASSUME NEW L \in Seq(Glyph), NEW d \in Nat, NEW m \in Nat, d + m <= Len(L),
           NEW list \in Seq(Glyph), NEW l \in Nat, Len(list) = l, NEW v \in Nat, AllLike(list, v),
           NEW B, Covers(B) => /\ Covers(L) /\ Fits(Of(L), Len(L), d, l, v)
                               /\ Stays(Of(L), Len(L), d, m, l, v)
    PROVE  Keeps(PutAt(L, d, m, list), d + l, B)
<1> DEFINE P == PutAt(L, d, m, list)
           n == Len(L)
<1>1. n \in Nat /\ d + m <= n
  OBVIOUS
<1>2. P \in Seq(Glyph) /\ Len(P) = (n - m) + l
  BY PutIs DEF IsPut
<1>3. Covers(B) => Covers(P)
  BY PutCovers
<1> HIDE DEF P, n
<1>4. d + l \in 0 .. (n - m) + l
  BY <1>1
<1>. QED
  BY <1>2, <1>3, <1>4 DEF Keeps, P

LEMMA ReplaceKeeps ==
    ASSUME NEW L \in Seq(Glyph), NEW d \in Nat, NEW n \in Nat \ {0}, d + n <= Len(L),
           NEW l \in Nat \ {0}, NEW codes \in Seq(Codes), Len(codes) = l,
           NEW M, M = List!Merged(L, d + 1, d + n)
    PROVE  Keeps(PutAt(M, d, n, Like(M[d + 1], codes)), d + l, L)
<1> DEFINE g == M[d + 1]
           v == g.cluster
           list == Like(g, codes)
           h == Len(L)
           c == Of(M)
<1>1. h \in Nat /\ d + 1 \in 1 .. h /\ d + n \in 1 .. h /\ d + 1 \in Nat \ {0} /\ d + n \in Nat /\ d + n <= h
  OBVIOUS
<1>2. M \in Seq(Glyph) /\ Len(M) = h
  BY <1>1, MergedGlyphs
<1>3. OneCluster(M, d + 1, d + n) /\ (Covers(L) => Covers(M))
  BY <1>1, MergedIsOne, MergedCovers
<1>4. g \in Glyph
  BY <1>1, <1>2
<1>5. v \in Nat
  BY <1>4 DEF Glyph
<1>6. list \in Seq(Glyph) /\ Len(list) = l
  BY <1>4, LikeIs
<1>7. AllLike(list, v)
  <2>1. DOMAIN codes = 1 .. l
    OBVIOUS
  <2>2. ASSUME NEW i \in 1 .. l PROVE list[i].cluster = v
    <3>1. list[i] = [g EXCEPT !.code = codes[i]]
      BY <2>1 DEF Like
    <3>. QED
      BY <3>1, <1>4 DEF Glyph
  <2> HIDE DEF list
  <2>. QED
    BY <1>6, <2>2 DEF AllLike
<1>8. ASSUME Covers(M) PROVE Fits(c, h, d, l, v) /\ Stays(c, h, d, n, l, v)
  <2>1. Clear(c, h) /\ \A i \in 1 .. h : c[i] = M[i].cluster
    BY <1>2, <1>8, CoversIsClear, ClustersOf
  <2>2. c[d + 1] = v
    BY <1>1, <2>1
  <2> HIDE DEF c, v, h
  <2>3. Fits(c, h, d, l, v)
    BY <1>1, <2>2 DEF Fits
  <2>4. PICK z \in 1 .. h : c[z] = 0
    BY <1>1, <2>1 DEF Clear
  <2>5. CASE z \in d + 1 .. d + n
    <3>1. M[z].cluster = v
      BY <1>3, <2>5 DEF OneCluster, v
    <3>2. v = 0
      BY <2>1, <2>4, <3>1
    <3>. QED
      BY <2>3, <3>2 DEF Stays
  <2>6. CASE ~(z \in d + 1 .. d + n)
    <3>1. z <= d \/ z > d + n
      BY <2>6
    <3>. QED
      BY <2>3, <2>4, <3>1 DEF Stays
  <2>. QED
    BY <2>5, <2>6
<1> HIDE DEF list, v, g, c, h
<1>9. /\ d + n <= Len(M) /\ n \in Nat /\ l \in Nat
      /\ Covers(L) => Covers(M) /\ Fits(Of(M), Len(M), d, l, v) /\ Stays(Of(M), Len(M), d, n, l, v)
  BY <1>1, <1>2, <1>3, <1>8 DEF c
<1>10. Keeps(PutAt(M, d, n, list), d + l, L)
  BY <1>2, <1>5, <1>6, <1>7, <1>9, PutKeeps
<1>. QED
  BY <1>10 DEF list, g

\* A glyph next to the cursor is doubled, but for its code.
LEMMA DoubleKeeps ==
    ASSUME NEW L \in Seq(Glyph), NEW d \in Nat, d <= Len(L), NEW k \in 1 .. Len(L), k = d \/ k = d + 1,
           NEW g \in Glyph, g.cluster = L[k].cluster
    PROVE  Keeps(PutAt(L, d, 0, <<g>>), d + 1, L)
<1> DEFINE h == Len(L)
           c == Of(L)
           v == g.cluster
           list == <<g>>
<1>1. h \in Nat /\ d + 0 <= h /\ 0 \in Nat /\ 1 \in Nat /\ \A i \in 1 .. h : c[i] = L[i].cluster
  BY ClustersOf
<1>2. c[k] = v /\ v \in Nat
  BY <1>1 DEF Glyph
<1>3. list \in Seq(Glyph) /\ Len(list) = 1 /\ AllLike(list, v)
  BY DEF AllLike
<1> HIDE DEF list
<1>4. ASSUME Covers(L) PROVE Covers(L) /\ Fits(c, h, d, 1, v) /\ Stays(c, h, d, 0, 1, v)
  <2>1. Clear(c, h) /\ k \in 1 .. h
    BY <1>4, CoversIsClear
  <2> HIDE DEF c, h, v
  <2>2. Fits(c, h, d, 1, v)
    BY <1>2, <2>1 DEF Fits
  <2>3. h # 0
    BY <1>1, <2>1
  <2>4. PICK z \in 1 .. h : c[z] = 0
    BY <2>1, <2>3 DEF Clear
  <2>5. z <= d \/ z > d + 0
    BY <1>1
  <2>6. Stays(c, h, d, 0, 1, v)
    BY <2>4, <2>5 DEF Stays
  <2>. QED
    BY <1>4, <2>2, <2>6
<1>5. Covers(L) => Covers(L) /\ Fits(Of(L), Len(L), d, 1, v) /\ Stays(Of(L), Len(L), d, 0, 1, v)
  BY <1>4
<1> HIDE DEF v, c, h
<1>6. d + 0 <= Len(L)
  BY <1>1 DEF h
<1>7. Keeps(PutAt(L, d, 0, list), d + 1, L)
  BY <1>1, <1>2, <1>3, <1>5, <1>6, PutKeeps
<1>. QED
  BY <1>7 DEF list

LEMMA InsertKeeps ==
    ASSUME NEW L \in Seq(Glyph), NEW d \in 0 .. Len(L), NEW code \in Codes
    PROVE  Keeps(Inserted(L, d, code), IF L = <<>> THEN d ELSE d + 1, L)
<1>1. CASE L = <<>>
  BY <1>1 DEF Inserted, Keeps
<1>2. CASE L # <<>>
  <2> DEFINE k == IF d < Len(L) THEN d + 1 ELSE d
             g == [L[k] EXCEPT !.code = code]
  <2>1. k \in 1 .. Len(L) /\ (k = d \/ k = d + 1) /\ d \in Nat /\ d <= Len(L)
    <3>1. Len(L) \in Nat /\ Len(L) # 0
      BY <1>2
    <3>. QED
      BY <3>1
  <2>2. L[k] = IF d < Len(L) THEN L[d + 1] ELSE L[d]
    OBVIOUS
  <2> HIDE DEF k
  <2>3. L[k] \in Glyph
    BY <2>1
  <2>4. g \in Glyph /\ g.cluster = L[k].cluster /\ Like(L[k], <<code>>) = <<g>>
    BY <2>3 DEF Glyph, Like
  <2> HIDE DEF g
  <2>5. Inserted(L, d, code) = PutAt(L, d, 0, <<g>>)
    BY <1>2, <2>2, <2>4 DEF Inserted
  <2>6. Keeps(PutAt(L, d, 0, <<g>>), d + 1, L)
    BY <2>1, <2>4, DoubleKeeps
  <2>. QED
    BY <1>2, <2>5, <2>6
<1>. QED
  BY <1>1, <1>2

LEMMA DeleteKeeps ==
    ASSUME NEW L \in Seq(Glyph), NEW d \in Nat, d < Len(L)
    PROVE  Keeps(PutAt(Unled(L, d), d, 1, <<>>), d, L)
<1> DEFINE U == Unled(L, d)
           list == <<>>
<1>1. U \in Seq(Glyph) /\ Len(U) = Len(L)
  BY UnledGlyphs
<1>2. Covers(L) => Covers(U) /\ Stays(Of(U), Len(U), d, 1, 0, 0)
  BY UnledCovers DEF Loses
<1> HIDE DEF U
<1>3. d + 1 <= Len(U) /\ 1 \in Nat /\ 0 \in Nat /\ d + 0 = d
  BY <1>1
<1>4. list \in Seq(Glyph) /\ Len(list) = 0 /\ AllLike(list, 0)
  BY DEF AllLike
<1> HIDE DEF list
<1>5. Fits(Of(U), Len(U), d, 0, 0)
  BY DEF Fits
<1>6. Keeps(PutAt(U, d, 1, list), d + 0, L)
  BY <1>1, <1>2, <1>3, <1>4, <1>5, PutKeeps
<1>. QED
  BY <1>3, <1>6 DEF U, list

LEMMA MergeKeeps ==
    ASSUME NEW L \in Seq(Glyph), NEW s \in 1 .. Len(L), NEW e \in 1 .. Len(L), NEW d \in 0 .. Len(L)
    PROVE  Keeps(List!Merged(L, s, e), d, L)
<1>1. s \in Nat \ {0} /\ e \in Nat /\ e <= Len(L)
  OBVIOUS
<1>. QED
  BY <1>1, MergedGlyphs, MergedCovers DEF Keeps

\* What a step leaves has clear clusters if what it finds has.
LEMMA StaysCovered ==
    ASSUME NEW L, List!All = L, NEW P, NEW e, Keeps(P, e, L),
           ~buf'.successful \/ (buf.successful /\ buf'.successful /\ List!Cut(P, e))
    PROVE  TextCovered => TextCovered'
<1>1. ASSUME TextCovered, buf'.successful PROVE Covers(List!All')
  <2>1. List!Cut(P, e) /\ Covers(L)
    BY <1>1 DEF TextCovered, Covers
  <2>. QED
    BY <2>1, CutCovers DEF Keeps
<1>. QED
  BY <1>1 DEF TextCovered, Covers
-----------------------------------------------------------------------------
(***************************************************************************)
(* The buffer's steps are the list's.                                      *)
(***************************************************************************)
Shows(d, L) ==
    /\ Before = SubSeq(L, 1, d) /\ Part(buf.info, buf.idx, buf.len) = SubSeq(L, d + 1, Len(L))
    /\ Len(Before) = d /\ Len(Part(buf.info, buf.idx, buf.len)) = Len(L) - d
    /\ List!All = L /\ L \in Seq(Glyph) /\ d \in 0 .. Len(L)

LEMMA ShowsList ==
    ASSUME NEW N \in Nat, Good(buf, N), NEW d, NEW L, Holds(buf, d, L)
    PROVE  Shows(d, L)
<1> DEFINE D == SubSeq(L, 1, d)
           R == SubSeq(L, d + 1, Len(L))
           l == Len(L)
           r == l - d
<1>1. L \in Seq(Glyph) /\ l \in Nat
  BY DEF Holds
<1>2. /\ Part(Behind(buf), 0, At(buf)) = D /\ Part(buf.info, buf.idx, buf.len) = R
      /\ d \in 0 .. l
  BY HalvesAre
<1>3. d \in Nat /\ r \in Nat /\ d + r = l
  BY <1>1, <1>2
<1>4. Before = D
  <2>1. CASE buf.have_output
    BY <1>2, <2>1 DEF Before, At, Behind
  <2>2. CASE ~buf.have_output
    BY <1>2, <2>2 DEF Before, At, Behind
  <2>. QED
    BY <2>1, <2>2
<1>5. Len(D) = d
  <2>1. 0 + d <= Len(L) /\ 0 \in Nat /\ 0 + 1 = 1 /\ 0 + d = d
    BY <1>3 DEF l
  <2>2. IsSlice(SubSeq(L, 0 + 1, 0 + d), L, 0, d)
    BY <1>1, <1>3, <2>1, Slice, Zenon
  <2>. QED
    BY <2>1, <2>2 DEF IsSlice
<1>6. Len(R) = r
  <2>1. d + r <= Len(L) /\ d + r = Len(L)
    BY <1>3 DEF l
  <2>2. IsSlice(SubSeq(L, d + 1, d + r), L, d, r)
    BY <1>1, <1>3, <2>1, Slice, Zenon
  <2>. QED
    BY <2>1, <2>2 DEF IsSlice
<1>7. D \o R = L
  BY <1>1, <1>2, WholeList
<1> HIDE DEF D, R
<1>8. List!All = L
  BY <1>2, <1>4, <1>7 DEF List!All
<1>. QED
  BY <1>1, <1>2, <1>4, <1>5, <1>6, <1>8 DEF Shows, D, R, l, r

\* What a step leaves, if the buffer does not fail.
LEMMA ToCuts ==
    ASSUME NEW bs, To(bs), NEW d, NEW L, \A b \in bs : IsGood(b) /\ Meets(buf, b, d, L)
    PROVE  ~buf'.successful \/ (buf.successful /\ buf'.successful /\ List!Cut(L, d))
<1>1. PICK b \in bs : buf' = Tidy(b)
  BY DEF To
<1>2. PICK N \in Nat : Good(b, N)
  BY <1>1 DEF IsGood
<1>3. Alike(b, Tidy(b)) /\ Tidy(b).successful = b.successful
  BY <1>2, TidyHolds
<1>4. PICK M \in Nat : Good(buf', M)
  BY <1>1, <1>2, TidyKeeps DEF IsGood
<1>5. CASE b.successful
  <2>1. buf.successful /\ Holds(b, d, L)
    BY <1>1, <1>5 DEF Meets
  <2>2. Holds(buf', d, L)
    BY <1>1, <1>2, <1>3, <2>1, AlikeHolds
  <2>3. /\ Part(Behind(buf'), 0, At(buf')) = SubSeq(L, 1, d)
        /\ Part(buf'.info, buf'.idx, buf'.len) = SubSeq(L, d + 1, Len(L))
    BY <1>4, <2>2, HalvesAre
  <2>4. Before' = SubSeq(L, 1, d)
    <3>1. CASE buf'.have_output
      BY <2>3, <3>1 DEF Before, At, Behind
    <3>2. CASE ~buf'.have_output
      BY <2>3, <3>2 DEF Before, At, Behind
    <3>. QED
      BY <3>1, <3>2
  <2>5. List!Cut(L, d)
    BY <2>3, <2>4 DEF List!Cut
  <2>. QED
    BY <1>1, <1>3, <1>5, <2>1, <2>5
<1>6. CASE ~b.successful
  BY <1>1, <1>3, <1>6
<1>. QED
  BY <1>5, <1>6

\* The glyphs after the cursor, and the one before it.
LEMMA NextIs ==
    ASSUME NEW N \in Nat, Good(buf, N), NEW d, NEW L, Holds(buf, d, L), d < Len(L)
    PROVE  /\ Part(buf.info, buf.idx, buf.len) # <<>>
           /\ Head(Part(buf.info, buf.idx, buf.len)) = L[d + 1]
           /\ d + 1 < Len(L) => Part(buf.info, buf.idx, buf.len)[2] = L[d + 2]
<1> DEFINE rest == Part(buf.info, buf.idx, buf.len)
           r == Len(L) - d
<1>1. rest = SubSeq(L, d + 1, Len(L)) /\ L \in Seq(Glyph) /\ d \in Nat /\ Len(L) \in Nat
  BY ShowsList DEF Shows
<1>2. r \in Nat /\ d + r = Len(L) /\ d + r <= Len(L) /\ 1 \in 1 .. r /\ (d + 1 < Len(L) => 2 \in 1 .. r)
  BY <1>1
<1>3. IsSlice(SubSeq(L, d + 1, d + r), L, d, r)
  BY <1>1, <1>2, Slice, Zenon
<1>4. IsSlice(rest, L, d, r)
  BY <1>1, <1>2, <1>3
<1> HIDE DEF rest, r
<1>5. /\ rest \in Seq(Glyph) /\ Len(rest) = r /\ rest[1] = L[d + 1]
      /\ d + 1 < Len(L) => rest[2] = L[d + 2]
  BY <1>2, <1>4 DEF IsSlice
<1>6. rest # <<>> /\ Head(rest) = rest[1]
  BY <1>2, <1>5
<1>. QED
  BY <1>5, <1>6 DEF rest

LEMMA NoneIsNext ==
    ASSUME NEW N \in Nat, Good(buf, N), NEW d, NEW L, Holds(buf, d, L), ~(d < Len(L))
    PROVE  Part(buf.info, buf.idx, buf.len) = <<>>
<1>1. /\ Part(buf.info, buf.idx, buf.len) = SubSeq(L, d + 1, Len(L)) /\ L \in Seq(Glyph)
      /\ d \in Nat /\ d + 0 = Len(L) /\ d + 0 <= Len(L) /\ 0 \in Nat
  BY ShowsList DEF Shows
<1>2. IsSlice(SubSeq(L, d + 1, d + 0), L, d, 0)
  BY <1>1, Slice, Zenon
<1> DEFINE Q == SubSeq(L, d + 1, d + 0)
<1> HIDE DEF Q
<1>3. Q \in Seq(Glyph) /\ Len(Q) = 0
  BY <1>2 DEF IsSlice, Q
<1>4. Q = <<>>
  BY <1>3
<1>. QED
  BY <1>1, <1>4 DEF Q

IsBefore(d, L) ==
    /\ Before \in Seq(Glyph) /\ Len(Before) = d /\ \A i \in 1 .. d : Before[i] = L[i]
    /\ Before # <<>> <=> d > 0
    /\ d > 0 => List!Last(Before) = L[d]

LEMMA LastIs ==
    ASSUME NEW N \in Nat, Good(buf, N), NEW d, NEW L, Holds(buf, d, L)
    PROVE  IsBefore(d, L)
<1>1. Before = SubSeq(L, 1, d) /\ L \in Seq(Glyph) /\ d \in Nat /\ d <= Len(L)
  BY ShowsList DEF Shows
<1>2. 0 + d <= Len(L) /\ 0 \in Nat /\ 0 + 1 = 1 /\ 0 + d = d
  BY <1>1
<1>3. IsSlice(SubSeq(L, 0 + 1, 0 + d), L, 0, d)
  BY <1>1, <1>2, Slice, Zenon
<1>4. /\ Before \in Seq(Glyph) /\ Len(Before) = d /\ \A i \in 1 .. d : Before[i] = L[i]
  BY <1>1, <1>2, <1>3 DEF IsSlice
<1>5. Before # <<>> <=> d > 0
  BY <1>1, <1>4
<1>6. d > 0 => List!Last(Before) = L[d]
  BY <1>1, <1>4 DEF List!Last
<1>. QED
  BY <1>4, <1>5, <1>6 DEF IsBefore

\* A step of the list's, after which the text is covered if it was.
Listed == List!Next /\ (TextCovered => TextCovered')

\* The cursor moves.
LEMMA MovesTo ==
    ASSUME NEW N \in Nat, Good(buf, N), NEW d, NEW L, Holds(buf, d, L), NEW i \in 0 .. Len(L),
           NEW bs, To(bs), \A b \in bs : IsGood(b) /\ Meets(buf, b, i, L)
    PROVE  Listed
<1>1. Shows(d, L)
  BY ShowsList
<1>2. ~buf'.successful \/ (buf.successful /\ buf'.successful /\ List!Cut(L, i))
  BY ToCuts
<1>3. List!Cut(L, i) => List!MoveTo(i)
  BY <1>1 DEF Shows, List!MoveTo
<1>4. i \in 0 .. Len(List!All)
  BY <1>1 DEF Shows
<1>5. List!Next
  BY <1>2, <1>3, <1>4, Zenon DEF List!Next
<1>6. List!All = L /\ Keeps(L, i, L)
  BY <1>1 DEF Shows, Keeps
<1>7. TextCovered => TextCovered'
  BY <1>2, <1>6, StaysCovered
<1>. QED
  BY <1>5, <1>7 DEF Listed

\* Glyphs are replaced.
LEMMA Replaces ==
    ASSUME NEW N \in Nat, Good(buf, N), NEW d, NEW L, Holds(buf, d, L), NEW n \in 1 .. Len(L) - d,
           NEW codes \in {<<c>> : c \in Codes} \union (Codes \X Codes), NEW l \in Nat \ {0}, Len(codes) = l,
           codes \in Seq(Codes), NEW M, M = List!Merged(L, d + 1, d + n), M[d + 1] \in Glyph,
           NEW bs, To(bs),
           \A b \in bs : IsGood(b) /\ Meets(buf, b, d + l, PutAt(M, d, n, Like(M[d + 1], codes)))
    PROVE  Listed
<1> DEFINE P == PutAt(M, d, n, Like(M[d + 1], codes))
           rest == Part(buf.info, buf.idx, buf.len)
<1>1. Shows(d, L)
  BY ShowsList
<1>2. ~buf'.successful \/ (buf.successful /\ buf'.successful /\ List!Cut(P, d + l))
  BY ToCuts
<1>3. Len(Like(M[d + 1], codes)) = l
  BY LikeIs
<1>4. List!Coded(M[d + 1], codes) = Like(M[d + 1], codes)
  BY DEF List!Coded, Like
<1>5. n <= Len(rest) /\ n \in 1 .. Len(rest)
  <2>1. Len(rest) = Len(L) - d
    BY <1>1 DEF Shows
  <2>2. Len(L) - d \in Int /\ n \in Int
    BY <1>1 DEF Shows
  <2>. QED
    BY <2>1, <2>2
<1>6. List!Cut(P, d + l) => List!Replace(n, codes)
  <2>1. List!All = L /\ Len(Before) = d
    BY <1>1 DEF Shows
  <2>. QED
    BY <1>3, <1>4, <1>5, <2>1, Zenon DEF List!Replace, PutAt
<1>7. List!Next
  BY <1>2, <1>5, <1>6, Zenon DEF List!Next
<1>8. List!All = L /\ L \in Seq(Glyph) /\ d \in Nat /\ n \in Nat \ {0} /\ d + n <= Len(L)
  <2>1. List!All = L /\ L \in Seq(Glyph) /\ d \in Nat /\ Len(L) \in Nat
    BY <1>1 DEF Shows
  <2>. QED
    BY <2>1
<1>9. Keeps(P, d + l, L)
  BY <1>8, ReplaceKeeps
<1> HIDE DEF P
<1>10. TextCovered => TextCovered'
  BY <1>2, <1>8, <1>9, StaysCovered
<1>. QED
  BY <1>7, <1>10 DEF Listed

\* A glyph is put in.
LEMMA Inserts ==
    ASSUME NEW N \in Nat, Good(buf, N), NEW d, NEW L, Holds(buf, d, L), NEW code \in Codes,
           NEW bs, To(bs),
           \A b \in bs : IsGood(b) /\ Meets(buf, b, IF L = <<>> THEN d ELSE d + 1, Inserted(L, d, code))
    PROVE  Listed
<1> DEFINE f == IF L = <<>> THEN d ELSE d + 1
           P == Inserted(L, d, code)
           rest == Part(buf.info, buf.idx, buf.len)
<1>1. /\ Before = SubSeq(L, 1, d) /\ rest = SubSeq(L, d + 1, Len(L)) /\ List!All = L
      /\ L \in Seq(Glyph) /\ Len(Before) = d /\ Len(rest) = Len(L) - d
  BY ShowsList DEF Shows
<1>2. ~buf'.successful \/ (buf.successful /\ buf'.successful /\ List!Cut(P, f))
  BY ToCuts
<1>3. TextCovered => TextCovered'
  <2>1. d \in 0 .. Len(L)
    BY ShowsList DEF Shows
  <2>2. Keeps(P, f, L)
    BY <1>1, <2>1, InsertKeeps
  <2> HIDE DEF P, f
  <2>. QED
    BY <1>1, <1>2, <2>2, StaysCovered
<1>4. CASE L = <<>>
  <2>1. List!Cut(P, f) => Before' = Before /\ rest' = rest
    BY <1>1, <1>4 DEF Inserted, List!Cut
  <2>2. List!Cut(P, f) => List!Insert(code)
    BY <1>1, <1>4, <2>1, Zenon DEF List!Insert
  <2>. QED
    BY <1>2, <1>3, <2>2, Zenon DEF List!Next, Listed
<1>5. CASE L # <<>>
  <2> DEFINE g == IF d < Len(L) THEN L[d + 1] ELSE L[d]
             h == [g EXCEPT !.code = code]
  <2>1. /\ d \in Nat /\ d <= Len(L) /\ Len(L) \in Nat
        /\ d < Len(L) => L[d + 1] \in Glyph
        /\ d > 0 => L[d] \in Glyph
    <3>1. buf.idx < buf.len <=> d < Len(L)
      BY HeadIs
    <3>. QED
      BY <3>1, HeadIs
  <2>2. g \in Glyph
    <3>1. Len(L) # 0
      BY <1>1, <1>5
    <3>. QED
      BY <2>1, <3>1
  <2>3. h \in Glyph /\ Like(g, <<code>>) = <<h>>
    <3> HIDE DEF g
    <3>. QED
      BY <2>2 DEF Glyph, Like
  <2>4. g = IF rest # <<>> THEN Head(rest) ELSE List!Last(Before)
    <3>1. CASE d < Len(L)
      BY <3>1, NextIs
    <3>2. CASE ~(d < Len(L))
      <4>1. d > 0
        BY <1>1, <1>5, <2>1, <3>2
      <4>2. List!Last(Before) = L[d] /\ rest = <<>>
        BY <3>2, <4>1, NoneIsNext, LastIs DEF IsBefore
      <4>. QED
        BY <3>2, <4>2
    <3>. QED
      BY <3>1, <3>2
  <2> HIDE DEF g, h
  <2>5. P = PutAt(L, d, 0, <<h>>) /\ f = d + 1
    BY <1>5, <2>3 DEF Inserted, g
  <2>6. /\ SubSeq(PutAt(L, d, 0, <<h>>), 1, d + 1) = Append(SubSeq(L, 1, d), h)
        /\ SubSeq(PutAt(L, d, 0, <<h>>), (d + 1) + 1, Len(PutAt(L, d, 0, <<h>>))) = SubSeq(L, d + 1, Len(L))
    BY <1>1, <2>1, <2>3, PutBefore
  <2>7. List!Cut(P, f) => Before' = Append(Before, h) /\ rest' = rest
    BY <1>1, <2>5, <2>6 DEF List!Cut
  <2>8. h = [(IF rest # <<>> THEN Head(rest) ELSE List!Last(Before)) EXCEPT !.code = code]
    BY <2>4 DEF h
  <2>9. List!Cut(P, f) => List!Insert(code)
    BY <1>1, <1>5, <2>7, <2>8, Zenon DEF List!Insert
  <2>. QED
    BY <1>2, <1>3, <2>9, Zenon DEF List!Next, Listed
<1>. QED
  BY <1>4, <1>5

\* The next glyph is copied.
LEMMA Copies ==
    ASSUME NEW N \in Nat, Good(buf, N), NEW d, NEW L, Holds(buf, d, L), d < Len(L),
           NEW bs, To(bs),
           \A b \in bs : IsGood(b) /\ Meets(buf, b, d + 1, PutAt(L, d, 0, <<L[d + 1]>>))
    PROVE  Listed
<1> DEFINE P == PutAt(L, d, 0, <<L[d + 1]>>)
           rest == Part(buf.info, buf.idx, buf.len)
<1>1. /\ Before = SubSeq(L, 1, d) /\ rest = SubSeq(L, d + 1, Len(L)) /\ L \in Seq(Glyph)
      /\ d \in Nat /\ d <= Len(L)
  BY ShowsList DEF Shows
<1>2. ~buf'.successful \/ (buf.successful /\ buf'.successful /\ List!Cut(P, d + 1))
  BY ToCuts
<1>3. L[d + 1] \in Glyph
  BY <1>1
<1>4. /\ SubSeq(P, 1, d + 1) = Append(SubSeq(L, 1, d), L[d + 1])
      /\ SubSeq(P, (d + 1) + 1, Len(P)) = SubSeq(L, d + 1, Len(L))
  BY <1>1, <1>3, PutBefore
<1>5. rest # <<>> /\ Head(rest) = L[d + 1]
  BY NextIs
<1>6. List!Cut(P, d + 1) => Before' = Append(Before, Head(rest)) /\ rest' = rest
  BY <1>1, <1>4, <1>5 DEF List!Cut
<1>7. List!Cut(P, d + 1) => List!Copy
  BY <1>5, <1>6, Zenon DEF List!Copy
<1>8. TextCovered => TextCovered'
  <2>1. List!All = L
    BY ShowsList DEF Shows
  <2>2. d + 1 \in 1 .. Len(L)
    BY <1>1
  <2>3. Keeps(P, d + 1, L)
    BY <1>1, <1>3, <2>2, DoubleKeeps
  <2> HIDE DEF P
  <2>. QED
    BY <1>2, <2>1, <2>3, StaysCovered
<1>. QED
  BY <1>2, <1>7, <1>8, Zenon DEF List!Next, Listed

\* The next glyph goes, and leaves its cluster to a neighbour.
LEMMA Deletes ==
    ASSUME NEW N \in Nat, Good(buf, N), NEW d, NEW L, Holds(buf, d, L), d < Len(L),
           NEW bs, To(bs),
           \A b \in bs : IsGood(b) /\ Meets(buf, b, d, PutAt(Unled(L, d), d, 1, <<>>)),
           Unled(L, d) \in Seq(Glyph), Len(Unled(L, d)) = Len(L)
    PROVE  Listed
<1> DEFINE U == Unled(L, d)
           P == PutAt(U, d, 1, <<>>)
           rest == Part(buf.info, buf.idx, buf.len)
           c == Head(rest).cluster
           next == Len(rest) > 1
           marked == [i \in DOMAIN List!All |->
                        IF i <= Len(Before) /\ i \in List!Reach(Before, Len(Before), Len(Before))
                        THEN [List!All[i] EXCEPT !.cluster = c] ELSE List!All[i]]
           all ==
             IF next /\ rest[2].cluster = c THEN List!All
             ELSE IF Before # <<>>
             THEN IF c < List!Last(Before).cluster THEN marked ELSE List!All
             ELSE IF next THEN List!Merged(List!All, 1, 2) ELSE List!All
<1>1. /\ List!All = L /\ Len(Before) = d /\ L \in Seq(Glyph) /\ Len(rest) = Len(L) - d
      /\ d \in Nat /\ d <= Len(L) /\ Len(L) \in Nat
  BY ShowsList DEF Shows
<1>2. ~buf'.successful \/ (buf.successful /\ buf'.successful /\ List!Cut(P, d))
  BY ToCuts
<1>3. /\ rest # <<>> /\ c = L[d + 1].cluster
      /\ next <=> d + 1 < Len(L)
      /\ next => rest[2].cluster = L[d + 2].cluster
      /\ Before # <<>> <=> d > 0
      /\ d > 0 => List!Last(Before).cluster = L[d].cluster
  <2>1. rest # <<>> /\ Head(rest) = L[d + 1] /\ (d + 1 < Len(L) => rest[2] = L[d + 2])
    BY NextIs
  <2>2. IsBefore(d, L)
    BY LastIs
  <2>3. next <=> d + 1 < Len(L)
    BY <1>1
  <2>. QED
    BY <2>1, <2>2, <2>3 DEF IsBefore
<1>4. ASSUME d > 0
      PROVE  marked = MarkedList(L, {i \in DOMAIN L : i <= d /\ AllSame(L, i, d, L[d].cluster)}, c)
  <2> DEFINE v == L[d].cluster
             K == {i \in DOMAIN L : i <= d /\ AllSame(L, i, d, v)}
  <2>1. /\ Before \in Seq(Glyph) /\ \A i \in 1 .. d : Before[i] = L[i]
    BY LastIs DEF IsBefore
  <2>2. ASSUME NEW i \in DOMAIN L, i <= d
        PROVE  i \in List!Reach(Before, d, d) <=> AllSame(L, i, d, v)
    <3>1. i \in 1 .. d /\ d \in 1 .. d /\ i \in Nat
      BY <1>1, <1>4, <2>2
    <3>2. i \in List!Reach(Before, d, d) <=>
            \/ i \in d .. d
            \/ i < d /\ AllSame(Before, i, d, Before[d].cluster)
            \/ i > d /\ AllSame(Before, d, i, Before[d].cluster)
      BY <1>1, <2>1, <3>1, InReach
    <3>3. AllSame(Before, i, d, v) <=> AllSame(L, i, d, v)
      <4>1. \A k \in i .. d : k \in 1 .. d
        BY <1>1, <3>1
      <4>2. \A k \in i .. d : Before[k].cluster = L[k].cluster
        BY <2>1, <4>1
      <4>. QED
        BY <4>2 DEF AllSame
    <3>4. i = d => AllSame(L, i, d, v)
      BY <1>1 DEF AllSame
    <3>5. Before[d].cluster = v /\ (i \in d .. d <=> i = d) /\ ~(i > d) /\ (i < d \/ i = d)
      BY <1>1, <2>1, <3>1
    <3> HIDE DEF v
    <3>. QED
      BY <3>2, <3>3, <3>4, <3>5
  <2>3. \A i \in DOMAIN L : i <= d /\ i \in List!Reach(Before, d, d) <=> i \in K
    BY <2>2
  <2>4. marked = [i \in DOMAIN L |-> IF i <= d /\ i \in List!Reach(Before, d, d)
                                     THEN [L[i] EXCEPT !.cluster = c] ELSE L[i]]
    BY <1>1
  <2> HIDE DEF K, marked, c
  <2>5. marked = MarkedList(L, K, c)
    BY <2>3, <2>4 DEF MarkedList
  <2>. QED
    BY <2>5 DEF K
<1> HIDE DEF c, next, marked, rest
<1>5. all = U
  BY <1>1, <1>3, <1>4, Zenon DEF Unled
<1>6. P = SubSeq(U, 1, d) \o SubSeq(U, d + 2, Len(U))
  <2> DEFINE A == SubSeq(U, 1, d)
  <2>1. IsSlice(A, U, 0, d)
    <3>1. 0 + d <= Len(U) /\ 0 \in Nat /\ 0 + 1 = 1 /\ 0 + d = d
      BY <1>1
    <3>2. IsSlice(SubSeq(U, 0 + 1, 0 + d), U, 0, d)
      BY <1>1, <3>1, Slice, Zenon
    <3>. QED
      BY <3>1, <3>2
  <2> HIDE DEF A
  <2>2. A \o <<>> = A
    BY <2>1 DEF IsSlice
  <2>3. d + 1 + 1 = d + 2
    BY <1>1
  <2>. QED
    BY <2>2, <2>3 DEF PutAt, A
<1> HIDE DEF U, P
<1>7. List!Cut(P, d) => List!Delete
  <2>1. List!Cut(P, d) => List!Cut(SubSeq(all, 1, Len(Before)) \o SubSeq(all, Len(Before) + 2, Len(all)), Len(Before))
    BY <1>1, <1>5, <1>6
  <2>. QED
    BY <1>3, <2>1, Zenon DEF List!Delete, rest, c, next, marked
<1>8. Keeps(P, d, L)
  BY <1>1, DeleteKeeps DEF P, U
<1>9. TextCovered => TextCovered'
  BY <1>1, <1>2, <1>8, StaysCovered
<1>. QED
  BY <1>2, <1>7, <1>9, Zenon DEF List!Next, Listed

\* Clusters are merged.
LEMMA Merges ==
    ASSUME NEW N \in Nat, Good(buf, N), NEW d, NEW L, Holds(buf, d, L),
           NEW s \in 1 .. Len(L), NEW e \in 1 .. Len(L), s > d \/ e <= d,
           NEW bs, To(bs), \A b \in bs : IsGood(b) /\ Meets(buf, b, d, List!Merged(L, s, e))
    PROVE  Listed
<1> DEFINE P == List!Merged(L, s, e)
<1>1. List!All = L /\ Len(Before) = d /\ Len(L) \in Nat
  BY ShowsList DEF Shows
<1>2. ~buf'.successful \/ (buf.successful /\ buf'.successful /\ List!Cut(P, d))
  BY ToCuts
<1>3. 1 <= s /\ e <= Len(List!All) /\ (s > Len(Before) \/ e <= Len(Before))
      /\ s \in 1 .. Len(List!All) /\ e \in 1 .. Len(List!All)
  BY <1>1
<1>4. List!Cut(P, d) => List!Merge(s, e)
  BY <1>1, <1>3, Zenon DEF List!Merge
<1>5. Keeps(P, d, L)
  BY ShowsList, MergeKeeps DEF Shows
<1> HIDE DEF P
<1>6. TextCovered => TextCovered'
  BY <1>1, <1>2, <1>5, StaysCovered
<1>. QED
  BY <1>2, <1>3, <1>4, <1>6, Zenon DEF List!Next, Listed
-----------------------------------------------------------------------------
LEMMA ClearOutputIsListed ==
    ASSUME HbInv, ClearOutput PROVE Listed
<1>1. PICK N \in Nat : Good(buf, N)
  BY DEF HbInv, IsGood
<1>2. PICK d, L : Holds(buf, d, L)
  BY <1>1, HoldsSome
<1> DEFINE c == Cleared(buf)
<1>3. ~buf.have_output /\ To({c})
  BY DEF ClearOutput, Cleared
<1>4. IsGood(c) /\ Becomes(buf, c, 0, L)
  BY <1>1, <1>2, <1>3, ClearedGood, ClearedHolds
<1> HIDE DEF c
<1>5. \A b \in {c} : IsGood(b) /\ Meets(buf, b, 0, L)
  BY <1>4 DEF Meets, Becomes
<1>6. 0 \in 0 .. Len(L)
  BY <1>2 DEF Holds
<1>. QED
  BY <1>1, <1>2, <1>3, <1>5, <1>6, MovesTo

LEMMA StepIsListed ==
    ASSUME HbInv, Step PROVE Listed
<1>1. PICK N \in Nat : Good(buf, N)
  BY DEF HbInv, IsGood
<1>2. PICK d, L : Holds(buf, d, L)
  BY <1>1, HoldsSome
<1>3. PICK n \in 1 .. Left : To(NextGlyphs(buf, n))
  BY DEF Step
<1>4. n \in Nat /\ buf.idx + n <= buf.len /\ d + n \in 0 .. Len(L)
  <2>1. buf.idx \in Nat /\ buf.len \in Nat /\ d \in Nat /\ buf.len - buf.idx \in Nat
    BY <1>1, <1>2, Sizes DEF Holds
  <2>2. Len(L) = d + (buf.len - buf.idx)
    BY <1>2 DEF Holds
  <2> DEFINE r == buf.len - buf.idx
  <2>3. r \in Nat /\ n \in Nat /\ n <= r /\ buf.idx + n <= buf.len
    BY <1>3, <2>1 DEF Left
  <2> HIDE DEF r
  <2>4. d + n \in 0 .. d + r
    BY <2>1, <2>3
  <2>. QED
    BY <2>2, <2>3, <2>4 DEF r
<1>5. \A c \in NextGlyphs(buf, n) : IsGood(c)
  BY <1>1, <1>4, StepGood
<1>6. \A c \in NextGlyphs(buf, n) : Meets(buf, c, d + n, L)
  BY <1>1, <1>2, <1>4, StepMeets
<1>. QED
  BY <1>1, <1>2, <1>3, <1>4, <1>5, <1>6, MovesTo

LEMMA MoveIsListed ==
    ASSUME HbInv, Move PROVE Listed
<1>1. PICK N \in Nat : Good(buf, N)
  BY DEF HbInv, IsGood
<1>2. PICK d, L : Holds(buf, d, L)
  BY <1>1, HoldsSome
<1>3. PICK i \in 0 .. (IF buf.have_output THEN buf.out_len + Left ELSE buf.len) : To(MoveTo(buf, i))
  BY DEF Move
<1>4. /\ i \in Nat /\ i <= (IF buf.have_output THEN buf.out_len + (buf.len - buf.idx) ELSE buf.len)
      /\ i \in 0 .. Len(L)
  <2> DEFINE r == buf.len - buf.idx
  <2>1. /\ buf.idx \in Nat /\ buf.len \in Nat /\ buf.out_len \in Nat /\ r \in Nat
        /\ Len(L) = d + r /\ d = IF buf.have_output THEN buf.out_len ELSE buf.idx
    BY <1>1, <1>2, Sizes DEF Holds, At
  <2>2. buf.idx + r = buf.len
    BY <2>1
  <2>3. i \in Nat /\ i <= (IF buf.have_output THEN buf.out_len + r ELSE buf.len)
    BY <1>3, <2>1 DEF Left
  <2> HIDE DEF r
  <2>4. i \in 0 .. d + r
    BY <2>1, <2>2, <2>3
  <2>. QED
    BY <2>1, <2>3, <2>4 DEF r
<1>5. \A c \in MoveTo(buf, i) : IsGood(c)
  BY <1>1, <1>4, MoveToGood DEF IsGood
<1>6. \A c \in MoveTo(buf, i) : Meets(buf, c, i, L)
  BY <1>1, <1>2, <1>4, MoveToMeets
<1>. QED
  BY <1>1, <1>2, <1>3, <1>4, <1>5, <1>6, MovesTo

LEMMA FinishIsListed ==
    ASSUME HbInv, Finish PROVE Listed
<1>1. PICK N \in Nat : Good(buf, N)
  BY DEF HbInv, IsGood
<1>2. PICK d, L : Holds(buf, d, L)
  BY <1>1, HoldsSome
<1>3. buf.have_output /\ To(SwapBuffers(buf))
  BY DEF Finish
<1>4. \A c \in SwapBuffers(buf) : IsGood(c) /\ Meets(buf, c, 0, L)
  BY <1>1, <1>2, <1>3, SwapBuffersGood, SwapBuffersMeets DEF IsGood
<1>5. 0 \in 0 .. Len(L)
  BY <1>2 DEF Holds
<1>. QED
  BY <1>1, <1>2, <1>3, <1>4, <1>5, MovesTo

LEMMA ReplaceIsListed ==
    ASSUME HbInv, Replace PROVE Listed
<1>1. PICK N \in Nat : Good(buf, N)
  BY DEF HbInv, IsGood
<1>2. PICK d, L : Holds(buf, d, L)
  BY <1>1, HoldsSome
<1>3. /\ buf.idx \in Nat /\ buf.len \in Nat /\ buf.have_output /\ d \in Nat /\ Len(L) \in Nat
      /\ Left = Len(L) - d /\ Left \in Nat /\ L \in Seq(Glyph)
  <2>1. buf.idx \in Nat /\ buf.len \in Nat /\ buf.have_output /\ d \in Nat /\ Left \in Nat
    BY <1>1, <1>2, Sizes DEF Replace, Holds, Left
  <2>2. L \in Seq(Glyph) /\ Len(L) = d + Left
    BY <1>2 DEF Holds, Left
  <2> HIDE DEF Left
  <2>. QED
    BY <2>1, <2>2
<1>4. CASE \E code \in Codes : Left > 0 /\ To(ReplaceGlyph(buf, code))
  <2>1. PICK code \in Codes : Left > 0 /\ To(ReplaceGlyph(buf, code))
    BY <1>4
  <2>2. buf.idx < buf.len
    BY <1>3, <2>1 DEF Left
  <2>3. \A c \in ReplaceGlyph(buf, code) : IsGood(c)
    BY <1>1, <1>3, <2>2, ReplaceGlyphGood, FineIsGood
  <2>4. \A c \in ReplaceGlyph(buf, code) : Meets(buf, c, d + 1, PutAt(L, d, 1, Like(L[d + 1], <<code>>)))
    BY <1>1, <1>2, <1>3, <2>2, ReplaceGlyphMeets
  <2>5. <<code>> \in {<<c>> : c \in Codes} \union (Codes \X Codes) /\ <<code>> \in Seq(Codes) /\ Len(<<code>>) = 1
    BY <2>1
  <2>6. 1 \in 1 .. Len(L) - d /\ 1 \in Nat \ {0}
    BY <1>3, <2>1
  <2>7. L = List!Merged(L, d + 1, d + 1) /\ L[d + 1] \in Glyph
    <3>1. d + 1 <= d + 1 /\ d + 1 \in 1 .. Len(L)
      BY <1>3, <2>6
    <3>2. L[d + 1] \in Glyph
      BY <1>3, <3>1
    <3>3. List!Merged(L, d + 1, d + 1) = L
      BY <3>1, MergedIs
    <3>. QED
      BY <3>2, <3>3
  <2>. QED
    BY <1>1, <1>2, <2>1, <2>3, <2>4, <2>5, <2>6, <2>7, Replaces
<1>5. CASE \E n \in 1 .. Left, codes \in {<<c>> : c \in Codes} \union (Codes \X Codes) :
             To(ReplaceGlyphs(buf, n, codes))
  <2>1. PICK n \in 1 .. Left, codes \in {<<c>> : c \in Codes} \union (Codes \X Codes) :
               To(ReplaceGlyphs(buf, n, codes))
    BY <1>5
  <2>2. n \in Nat \ {0} /\ buf.idx + n <= buf.len /\ n \in 1 .. Len(L) - d /\ d + n <= Len(L)
    <3>1. buf.idx + Left = buf.len
      BY <1>3 DEF Left
    <3> HIDE DEF Left
    <3>. QED
      BY <1>3, <2>1, <3>1
  <2>3. PICK l \in Nat \ {0} : codes \in Seq(Codes) /\ Len(codes) = l
    <3>1. CASE codes \in {<<c>> : c \in Codes}
      <4>1. PICK x \in Codes : codes = <<x>>
        BY <3>1
      <4>2. <<x>> \in Seq(Codes) /\ Len(<<x>>) = 1
        OBVIOUS
      <4>. QED
        BY <4>1, <4>2
    <3>2. CASE codes \in Codes \X Codes
      <4>1. PICK x \in Codes, y \in Codes : codes = <<x, y>>
        BY <3>2
      <4>2. <<x, y>> \in Seq(Codes) /\ Len(<<x, y>>) = 2
        OBVIOUS
      <4>. QED
        BY <4>1, <4>2
    <3>. QED
      BY <2>1, <3>1, <3>2
  <2>4. DOMAIN codes = 1 .. l /\ \A i \in 1 .. l : codes[i] \in Codes
    BY <2>3
  <2>8. \A c \in ReplaceGlyphs(buf, n, codes) : IsGood(c)
    BY <1>1, <1>3, <2>2, <2>3, <2>4, ReplaceGlyphsGood, FineIsGood
  <2> DEFINE M == List!Merged(L, d + 1, d + n)
  <2>5. \A c \in ReplaceGlyphs(buf, n, codes) : Meets(buf, c, d + l, PutAt(M, d, n, Like(M[d + 1], codes)))
    BY <1>1, <1>2, <1>3, <2>2, <2>3, ReplaceGlyphsMeets
  <2>6. M[d + 1] \in Glyph
    <3>1. d + 1 \in Nat \ {0} /\ d + n \in Nat /\ d + 1 \in 1 .. Len(L)
      BY <1>3, <2>2
    <3>2. M \in Seq(Glyph) /\ Len(M) = Len(L)
      BY <1>3, <2>2, <3>1, MergedGlyphs
    <3> HIDE DEF M
    <3>. QED
      BY <3>1, <3>2
  <2>7. M = List!Merged(L, d + 1, d + n)
    OBVIOUS
  <2> HIDE DEF M
  <2>. QED
    BY <1>1, <1>2, <2>1, <2>2, <2>3, <2>5, <2>6, <2>7, <2>8, Replaces
<1>. QED
  BY <1>4, <1>5 DEF Replace

LEMMA DecomposeIsListed ==
    ASSUME HbInv, Decompose PROVE Listed
<1>1. PICK N \in Nat : Good(buf, N)
  BY DEF HbInv, IsGood
<1>2. PICK d, L : Holds(buf, d, L)
  BY <1>1, HoldsSome
<1>3. buf.have_output /\ buf.idx < buf.len
  BY <1>1 DEF Good, IsBuf, Decompose, Left
<1> DEFINE bs(codes) == {Advance(c, 1, 0) : c \in Decomposed(buf, codes)}
<1>4. PICK codes \in Codes \X Codes : To(bs(codes))
  BY DEF Decompose, Decomposed
<1>5. d \in Nat /\ d < Len(L) /\ Len(L) \in Nat /\ L[d + 1] \in Glyph /\ L \in Seq(Glyph)
  <2>1. d \in Nat /\ d < Len(L) /\ Len(L) \in Nat /\ L[d + 1] \in Glyph
    BY <1>1, <1>2, <1>3, HeadIs
  <2>. QED
    BY <1>2, <2>1 DEF Holds
<1>6. \A c \in Decomposed(buf, codes) :
        /\ IsGood(Advance(c, 1, 0))
        /\ Meets(buf, Advance(c, 1, 0), d + 2, PutAt(L, d, 1, Like(L[d + 1], codes)))
  BY <1>1, <1>2, <1>3, DecomposedGood, DecomposeMeets
<1>7. \A b \in bs(codes) : IsGood(b) /\ Meets(buf, b, d + 2, PutAt(L, d, 1, Like(L[d + 1], codes)))
  BY <1>6
<1> HIDE DEF bs
<1>8. codes \in {<<c>> : c \in Codes} \union (Codes \X Codes) /\ codes \in Seq(Codes) /\ Len(codes) = 2
  <2>1. PICK x \in Codes, y \in Codes : codes = <<x, y>>
    OBVIOUS
  <2>2. <<x, y>> \in Seq(Codes) /\ Len(<<x, y>>) = 2
    OBVIOUS
  <2>. QED
    BY <2>1, <2>2
<1>9. 1 \in 1 .. Len(L) - d /\ 2 \in Nat \ {0}
  BY <1>5
<1>10. L = List!Merged(L, d + 1, d + 1)
  <2>1. d + 1 <= d + 1
    BY <1>5
  <2>. QED
    BY <2>1, MergedIs
<1>. QED
  BY <1>1, <1>2, <1>4, <1>5, <1>7, <1>8, <1>9, <1>10, Replaces

LEMMA OutputIsListed ==
    ASSUME HbInv, Output PROVE Listed
<1>1. PICK N \in Nat : Good(buf, N)
  BY DEF HbInv, IsGood
<1>2. PICK d, L : Holds(buf, d, L)
  BY <1>1, HoldsSome
<1>3. buf.have_output
  BY DEF Output
<1>4. CASE \E code \in Codes : To(OutputGlyph(buf, code))
  <2>1. PICK code \in Codes : To(OutputGlyph(buf, code))
    BY <1>4
  <2>2. \A c \in OutputGlyph(buf, code) : IsGood(c)
    BY <1>1, <1>3, OutputGlyphGood, FineIsGood
  <2>3. \A c \in OutputGlyph(buf, code) :
          Meets(buf, c, IF L = <<>> THEN d ELSE d + 1, Inserted(L, d, code))
    BY <1>1, <1>2, <1>3, OutputGlyphMeets
  <2>. QED
    BY <1>1, <1>2, <2>1, <2>2, <2>3, Inserts
<1>5. CASE Left > 0 /\ To(CopyGlyph(buf))
  <2>1. buf.idx < buf.len
    BY <1>1, <1>5 DEF Good, IsBuf, Left
  <2>2. d < Len(L)
    BY <1>1, <1>2, <2>1, HeadIs
  <2>3. \A c \in CopyGlyph(buf) : IsGood(c)
    BY <1>1, <1>3, <2>1, CopyGlyphGood, FineIsGood
  <2>4. \A c \in CopyGlyph(buf) : Meets(buf, c, d + 1, PutAt(L, d, 0, <<L[d + 1]>>))
    BY <1>1, <1>2, <1>3, <2>1, CopyGlyphMeets
  <2>. QED
    BY <1>1, <1>2, <1>5, <2>2, <2>3, <2>4, Copies
<1>. QED
  BY <1>4, <1>5 DEF Output

LEMMA DeleteIsListed ==
    ASSUME HbInv, Delete PROVE Listed
<1>1. PICK N \in Nat : Good(buf, N)
  BY DEF HbInv, IsGood
<1>2. PICK d, L : Holds(buf, d, L)
  BY <1>1, HoldsSome
<1>3. buf.have_output /\ buf.idx < buf.len /\ To({DeleteGlyph(buf)})
  BY <1>1 DEF Good, IsBuf, Delete, Left
<1>4. d \in Nat /\ d < Len(L) /\ L \in Seq(Glyph)
  <2>1. d \in Nat /\ d < Len(L)
    BY <1>1, <1>2, <1>3, HeadIs
  <2>. QED
    BY <1>2, <2>1 DEF Holds
<1>5. IsGood(DeleteGlyph(buf))
  BY <1>1, <1>3, DeleteGlyphGood, FineIsGood
<1>6. Meets(buf, DeleteGlyph(buf), d, PutAt(Unled(L, d), d, 1, <<>>))
  BY <1>1, <1>2, <1>3, DeleteMeets
<1>7. \A b \in {DeleteGlyph(buf)} : IsGood(b) /\ Meets(buf, b, d, PutAt(Unled(L, d), d, 1, <<>>))
  BY <1>5, <1>6
<1>8. Unled(L, d) \in Seq(Glyph) /\ Len(Unled(L, d)) = Len(L)
  BY <1>4, UnledGlyphs
<1>. QED
  BY <1>1, <1>2, <1>3, <1>4, <1>7, <1>8, Deletes

LEMMA MergeAnyIsListed ==
    ASSUME HbInv, MergeAny PROVE Listed
<1>1. PICK N \in Nat : Good(buf, N)
  BY DEF HbInv, IsGood
<1>2. PICK d, L : Holds(buf, d, L)
  BY <1>1, HoldsSome
<1> DEFINE x == buf.idx
           r == buf.len - buf.idx
<1>3. /\ x \in Nat /\ r \in Nat /\ d \in Nat /\ buf.len = x + r /\ Len(L) = d + r
      /\ buf.out_len \in Nat /\ (buf.have_output => d = buf.out_len)
  BY <1>1, <1>2, Sizes DEF Holds, At
<1>4. CASE \E s \in buf.idx .. buf.len, e \in buf.idx .. buf.len :
             (buf.have_output \/ buf.idx = 0) /\ s < e /\ To({MergeClusters(buf, s, e)})
  <2>1. PICK s \in buf.idx .. buf.len, e \in buf.idx .. buf.len :
               (buf.have_output \/ buf.idx = 0) /\ s < e /\ To({MergeClusters(buf, s, e)})
    BY <1>4
  <2>2. IsGood(MergeClusters(buf, s, e))
    BY <1>1, MergeClustersIs DEF IsGood
  <2> DEFINE f == d + ((s - buf.idx) + 1)
             g == d + (e - buf.idx)
  <2>3. Becomes(buf, MergeClusters(buf, s, e), d, List!Merged(L, f, g))
    BY <1>1, <1>2, <2>1, MergeHolds
  <2>4. \A b \in {MergeClusters(buf, s, e)} : IsGood(b) /\ Meets(buf, b, d, List!Merged(L, f, g))
    BY <2>2, <2>3 DEF Meets, Becomes
  <2>5. f \in 1 .. d + r /\ g \in 1 .. d + r /\ f > d
    <3>1. s \in Int /\ e \in Int /\ x <= s /\ s < e /\ e <= x + r
      BY <1>3, <2>1
    <3>2. f = d + ((s - x) + 1) /\ g = d + (e - x)
      OBVIOUS
    <3> HIDE DEF f, g, x, r
    <3>. QED
      BY <1>3, <3>1, <3>2
  <2> HIDE DEF f, g
  <2>6. f \in 1 .. Len(L) /\ g \in 1 .. Len(L)
    BY <1>3, <2>5
  <2>. QED
    BY <1>1, <1>2, <2>1, <2>4, <2>5, <2>6, Merges
<1>5. CASE \E s \in 0 .. buf.out_len, e \in 0 .. buf.out_len :
             buf.have_output /\ s < e /\ To({MergeOutClusters(buf, s, e)})
  <2>1. PICK s \in 0 .. buf.out_len, e \in 0 .. buf.out_len :
               buf.have_output /\ s < e /\ To({MergeOutClusters(buf, s, e)})
    BY <1>5
  <2>2. IsGood(MergeOutClusters(buf, s, e))
    BY <1>1, <2>1, MergeOutClustersIs DEF IsGood
  <2>3. Becomes(buf, MergeOutClusters(buf, s, e), d, List!Merged(L, s + 1, e))
    BY <1>1, <1>2, <2>1, MergeOutHolds
  <2> DEFINE f == s + 1
  <2>4. \A b \in {MergeOutClusters(buf, s, e)} : IsGood(b) /\ Meets(buf, b, d, List!Merged(L, f, e))
    BY <2>2, <2>3 DEF Meets, Becomes
  <2>5. f \in 1 .. d + r /\ e \in 1 .. d + r /\ e <= d
    <3>1. s \in 0 .. d /\ e \in 0 .. d /\ s < e
      BY <1>3, <2>1
    <3> HIDE DEF r
    <3>. QED
      BY <1>3, <3>1
  <2> HIDE DEF f
  <2>6. f \in 1 .. Len(L) /\ e \in 1 .. Len(L)
    BY <1>3, <2>5
  <2>. QED
    BY <1>1, <1>2, <2>1, <2>4, <2>5, <2>6, Merges
<1>. QED
  BY <1>4, <1>5 DEF MergeAny

\* The two blocks of memory in which hb-buffer.cc keeps the glyphs, shared or not, grown,
\* shifted or swapped, are one list with a cursor to the lookups that use them; every
\* operation does to that list what its name says, or fails the buffer for good.
THEOREM BufferIsList == Spec => IsList
<1>1. Init => List!Init
  <2>1. ASSUME Init PROVE List!Init
    <3>1. buf.idx = 0 /\ ~buf.have_output /\ buf.successful = TRUE
      BY <2>1 DEF Init
    <3>2. Before = <<>>
      BY <3>1 DEF Before, Part
    <3>. QED
      BY <3>1, <3>2 DEF List!Init
  <2>. QED
    BY <2>1
<1>2. HbInv /\ [Next]_buf => [List!Next]_(List!vars)
  <2>1. HbInv /\ Next => List!Next
    BY ClearOutputIsListed, StepIsListed, MoveIsListed, ReplaceIsListed, DecomposeIsListed,
       OutputIsListed, DeleteIsListed, MergeAnyIsListed, FinishIsListed, Zenon DEF Next, Listed
  <2>2. UNCHANGED buf => UNCHANGED List!vars
    BY DEF List!vars, Before, Out, Part
  <2>. QED
    BY <2>1, <2>2
<1>3. HbInv /\ [Next]_buf => HbInv'
  BY NextIsGood
<1>. QED
  BY <1>1, <1>2, <1>3, InitIsGood, PTL DEF Spec, IsList, List!Spec

\* The clusters of a text go up or down, with 0 among them.  They still do after any use of
\* the buffer, and 0 is there while a glyph is: what is merged becomes the least cluster of
\* a run, what is put in is like a neighbour, and what is deleted leaves its cluster to one.
THEOREM TextStaysCovered == Spec => []TextCovered
<1>1. Init => TextCovered
  <2>1. ASSUME Init PROVE TextCovered
    <3>1. PICK t \in Text : buf.info = Fill(Empty, 0, t) /\ buf.idx = 0 /\ buf.len = Len(t)
                            /\ buf.have_output = FALSE
      BY <2>1 DEF Init
    <3>2. t \in Seq(Glyph) /\ Len(t) \in Nat /\ Len(t) < Allocated /\ Allocated \in Nat
      BY <3>1, HbBufferAssumption
    <3>3. Covers(t)
      BY HbBufferAssumption, HbTextAssumption DEF Covers
    <3>4. Before = <<>>
      BY <3>1 DEF Before, Part
    <3>5. Part(buf.info, buf.idx, buf.len) = t
      <4>1. ASSUME NEW k \in 1 .. Len(t) PROVE buf.info[0 + k - 1] = t[k]
        <5>1. 0 + k - 1 = k - 1 /\ k - 1 \in 0 .. Allocated - 1 /\ (k - 1) - 0 \in 0 .. Len(t) - 1
              /\ (k - 1) - 0 + 1 = k
          BY <3>2
        <5>2. DOMAIN Empty = 0 .. Allocated - 1
          BY DEF Empty
        <5>. QED
          BY <3>1, <5>1, <5>2 DEF Fill
      <4>2. Part(buf.info, 0, Len(t)) = [k \in 1 .. Len(t) |-> t[k]]
        <5>1. Len(t) - 0 = Len(t)
          BY <3>2
        <5>. QED
          BY <4>1, <5>1 DEF Part
      <4>3. t = [k \in 1 .. Len(t) |-> t[k]]
        BY <3>2
      <4>. QED
        BY <3>1, <4>2, <4>3
    <3>6. List!All = t
      BY <3>2, <3>4, <3>5 DEF List!All
    <3>. QED
      BY <3>3, <3>6 DEF TextCovered, Covers
  <2>. QED
    BY <2>1
<1>2. HbInv /\ TextCovered /\ [Next]_buf => TextCovered'
  <2>1. HbInv /\ TextCovered /\ Next => TextCovered'
    BY ClearOutputIsListed, StepIsListed, MoveIsListed, ReplaceIsListed, DecomposeIsListed,
       OutputIsListed, DeleteIsListed, MergeAnyIsListed, FinishIsListed, Zenon DEF Next, Listed
  <2>2. TextCovered /\ UNCHANGED buf => TextCovered'
    BY DEF TextCovered, List!All, Before, Out, Part
  <2>. QED
    BY <2>1, <2>2
<1>3. HbInv /\ [Next]_buf => HbInv'
  BY NextIsGood
<1>. QED
  BY <1>1, <1>2, <1>3, InitIsGood, PTL DEF Spec
-----------------------------------------------------------------------------
(***************************************************************************)
(* Deletion in place: each of its turns does to the text what a turn of a  *)
(* pass does.                                                              *)
(***************************************************************************)
\* The glyph buffer b with other cells, cursor and output, in one block of memory.
Struct(f, p, s, i, l, o, h, u) ==
    [info |-> f, pos |-> p, separate |-> s, idx |-> i, len |-> l, out_len |-> o,
     have_output |-> h, successful |-> u]
In(b, f, i, o, h) == Struct(f, b.pos, FALSE, i, b.len, o, h, b.successful)

\* The cells of a pass and those of a deletion in place, after i glyphs of n of which o are
\* left: what lies between them a merge may have gone back into, in place only.
Agree(f, g, N, i, o, n) ==
    /\ DOMAIN f = 0 .. N - 1 /\ DOMAIN g = 0 .. N - 1
    /\ \A k \in 0 .. o - 1 : f[k] = g[k]
    /\ \A k \in i .. n - 1 : f[k] = g[k]

Twins(b, N, p, q, i) ==
    \E f, g : \E o \in 0 .. i :
      /\ p = In(b, f, i, o, TRUE) /\ q = In(b, g, 0, o, FALSE) /\ Agree(f, g, N, i, o, b.len)

WithInfo(r, x) == [r EXCEPT !.info = x]
WithIdx(r, x) == [r EXCEPT !.idx = x]
WithLen(r, x) == [r EXCEPT !.out_len = x]
WithOutput(r, x) == [r EXCEPT !.have_output = x]

LEMMA SetInfo ==
    ASSUME NEW b, NEW f, NEW i, NEW o, NEW h, NEW x
    PROVE  WithInfo(In(b, f, i, o, h), x) = In(b, x, i, o, h)
<1> DEFINE p == b.pos
           l == b.len
           u == b.successful
           s == FALSE
<1> HIDE DEF p, l, u, s
<1>1. [Struct(f, p, s, i, l, o, h, u) EXCEPT !.info = x]
        = Struct(x, p, s, i, l, o, h, u)
  BY DEF Struct
<1>. QED
  BY <1>1 DEF WithInfo, In, p, l, u, s

LEMMA SetIdx ==
    ASSUME NEW b, NEW f, NEW i, NEW o, NEW h, NEW x
    PROVE  WithIdx(In(b, f, i, o, h), x) = In(b, f, x, o, h)
<1> DEFINE p == b.pos
           l == b.len
           u == b.successful
           s == FALSE
<1> HIDE DEF p, l, u, s
<1>1. [Struct(f, p, s, i, l, o, h, u) EXCEPT !.idx = x]
        = Struct(f, p, s, x, l, o, h, u)
  BY DEF Struct
<1>. QED
  BY <1>1 DEF WithIdx, In, p, l, u, s

LEMMA SetLen ==
    ASSUME NEW b, NEW f, NEW i, NEW o, NEW h, NEW x
    PROVE  WithLen(In(b, f, i, o, h), x) = In(b, f, i, x, h)
<1> DEFINE p == b.pos
           l == b.len
           u == b.successful
           s == FALSE
<1> HIDE DEF p, l, u, s
<1>1. [Struct(f, p, s, i, l, o, h, u) EXCEPT !.out_len = x]
        = Struct(f, p, s, i, l, x, h, u)
  BY DEF Struct
<1>. QED
  BY <1>1 DEF WithLen, In, p, l, u, s

LEMMA SetOutput ==
    ASSUME NEW b, NEW f, NEW i, NEW o, NEW h, NEW x
    PROVE  WithOutput(In(b, f, i, o, h), x) = In(b, f, i, o, x)
<1> DEFINE p == b.pos
           l == b.len
           u == b.successful
           s == FALSE
<1> HIDE DEF p, l, u, s
<1>1. [Struct(f, p, s, i, l, o, h, u) EXCEPT !.have_output = x]
        = Struct(f, p, s, i, l, o, x, u)
  BY DEF Struct
<1>. QED
  BY <1>1 DEF WithOutput, In, p, l, u, s

LEMMA InFields ==
    ASSUME NEW b, NEW f, NEW i, NEW o, NEW h
    PROVE  /\ In(b, f, i, o, h).info = f /\ In(b, f, i, o, h).separate = FALSE
           /\ In(b, f, i, o, h).idx = i /\ In(b, f, i, o, h).len = b.len
           /\ In(b, f, i, o, h).out_len = o /\ In(b, f, i, o, h).have_output = h
           /\ Out(In(b, f, i, o, h)) = f
  BY DEF In, Struct, Out

\* The steps of an operation on such a buffer.
LEMMA AdvanceIn ==
    ASSUME NEW b, NEW f, NEW i, NEW o, NEW h, NEW m, NEW n
    PROVE  Advance(In(b, f, i, o, h), m, n) = In(b, f, i + m, o + n, h)
<1> DEFINE r == In(b, f, i, o, h)
           x == i + m
           y == o + n
<1>1. r.idx = i /\ r.out_len = o
  BY DEF In, Struct
<1>2. Advance(r, m, n) = WithLen(WithIdx(r, x), y)
  <2> HIDE DEF r
  <2>. QED
    BY <1>1 DEF Advance, WithLen, WithIdx
<1> HIDE DEF x, y
<1>3. WithLen(WithIdx(r, x), y) = In(b, f, x, y, h)
  BY SetIdx, SetLen
<1>. QED
  BY <1>2, <1>3 DEF x, y

LEMMA WriteIn ==
    ASSUME NEW b, NEW f, NEW i, NEW o, NEW h, NEW at, NEW list
    PROVE  Write(In(b, f, i, o, h), at, list) = In(b, Fill(f, at, list), i, o, h)
<1> DEFINE r == In(b, f, i, o, h)
           new == Fill(f, at, list)
<1>1. ~r.separate /\ r.info = f
  BY DEF In, Struct
<1>2. Write(r, at, list) = WithInfo(r, new)
  <2> HIDE DEF r
  <2>. QED
    BY <1>1 DEF Write, WithInfo
<1> HIDE DEF new
<1>3. WithInfo(r, new) = In(b, new, i, o, h)
  BY SetInfo
<1>. QED
  BY <1>2, <1>3 DEF new

LEMMA ClusteredIn ==
    ASSUME NEW b, NEW f, NEW i, NEW o, NEW h, NEW ins, NEW outs, NEW c
    PROVE  Clustered(In(b, f, i, o, h), ins, outs, c) = In(b, Marked(f, ins \union outs, c), i, o, h)
<1> DEFINE r == In(b, f, i, o, h)
           new == Marked(f, ins \union outs, c)
<1>1. ~r.separate /\ r.info = f
  BY DEF In, Struct
<1>2. Clustered(r, ins, outs, c) = WithInfo(r, new)
  <2> HIDE DEF r
  <2>. QED
    BY <1>1, Zenon DEF Clustered, Marked, WithInfo
<1> HIDE DEF new
<1>3. WithInfo(r, new) = In(b, new, i, o, h)
  BY SetInfo
<1>. QED
  BY <1>2, <1>3 DEF new

\* Marking the same glyphs, as far as they matter, keeps the agreement.
LEMMA MarksAgree ==
    ASSUME NEW N \in Nat, NEW n \in Nat, n <= N, NEW i \in 0 .. n - 1, NEW o \in 0 .. i, NEW f, NEW g,
           Agree(f, g, N, i, o, n), NEW K, NEW J, NEW c,
           \A k \in 0 .. n - 1 : k < o \/ k > i => (k \in K <=> k \in J)
    PROVE  Agree(Marked(f, K, c), Marked(g, J, c), N, i + 1, o, n)
<1>1. DOMAIN f = 0 .. N - 1 /\ DOMAIN g = 0 .. N - 1
  BY DEF Agree
<1>2. ASSUME NEW k \in 0 .. n - 1, k < o \/ k > i PROVE Marked(f, K, c)[k] = Marked(g, J, c)[k]
  <2>1. k \in 0 .. N - 1 /\ (k \in K <=> k \in J) /\ f[k] = g[k]
    BY <1>2 DEF Agree
  <2>. QED
    BY <1>1, <2>1 DEF Marked
<1>3. \A k \in 0 .. o - 1 : k \in 0 .. n - 1 /\ k < o
  OBVIOUS
<1>4. \A k \in i + 1 .. n - 1 : k \in 0 .. n - 1 /\ k > i
  OBVIOUS
<1>. QED
  BY <1>1, <1>2, <1>3, <1>4 DEF Agree, Marked

\* A glyph that is kept moves down to the output.
IsFilled(f, new, N, o, glyph) ==
    /\ DOMAIN new = 0 .. N - 1
    /\ \A k \in 0 .. N - 1 : new[k] = IF k = o THEN glyph ELSE f[k]

LEMMA FillOne ==
    ASSUME NEW N \in Nat, NEW f, DOMAIN f = 0 .. N - 1, NEW o \in Nat, NEW list, Len(list) = 1
    PROVE  IsFilled(f, Fill(f, o, list), N, o, list[1])
<1>1. ASSUME NEW k \in 0 .. N - 1
      PROVE  (k - o \in 0 .. Len(list) - 1 <=> k = o) /\ (k = o => k - o + 1 = 1)
  OBVIOUS
<1>. QED
  BY <1>1 DEF Fill, IsFilled

LEMMA KeepAgrees ==
    ASSUME NEW N \in Nat, NEW n \in Nat, n <= N, NEW i \in 0 .. n - 1, NEW o \in 0 .. i, NEW f, NEW g,
           Agree(f, g, N, i, o, n), NEW e, NEW d, IsFilled(g, d, N, o, g[i]),
           (e = f /\ o = i) \/ IsFilled(f, e, N, o, f[i])
    PROVE  Agree(e, d, N, i + 1, o + 1, n)
<1>1. DOMAIN e = 0 .. N - 1 /\ DOMAIN d = 0 .. N - 1
  BY DEF Agree, IsFilled
<1>2. f[i] = g[i]
  BY DEF Agree
<1>3. ASSUME NEW k \in 0 .. o PROVE e[k] = d[k]
  <2>1. k \in 0 .. N - 1 /\ (k # o => k \in 0 .. o - 1)
    OBVIOUS
  <2>2. k = o => d[k] = g[i] /\ e[k] = f[i]
    BY <2>1 DEF IsFilled
  <2>3. k # o => d[k] = g[k] /\ e[k] = f[k] /\ f[k] = g[k]
    BY <2>1 DEF IsFilled, Agree
  <2>. QED
    BY <1>2, <2>2, <2>3
<1>4. ASSUME NEW k \in i + 1 .. n - 1 PROVE e[k] = d[k]
  <2>1. k \in 0 .. N - 1 /\ k # o /\ k \in i .. n - 1
    OBVIOUS
  <2>. QED
    BY <2>1 DEF IsFilled, Agree
<1>5. o + 1 - 1 = o
  OBVIOUS
<1>. QED
  BY <1>1, <1>3, <1>4, <1>5 DEF Agree

\* next_glyph always finds room: the output is behind the input.
LEMMA NextIn ==
    ASSUME NEW N \in Nat, NEW b, b.len \in Nat, b.len <= N, NEW i \in 0 .. b.len - 1, NEW o \in 0 .. i,
           NEW f, DOMAIN f = 0 .. N - 1
    PROVE  \E e : /\ NextGlyphs(In(b, f, i, o, TRUE), 1) = {In(b, e, i + 1, o + 1, TRUE)}
                  /\ (e = f /\ o = i) \/ IsFilled(f, e, N, o, f[i])
<1> DEFINE p == In(b, f, i, o, TRUE)
<1>1. /\ p.info = f /\ p.separate = FALSE /\ p.idx = i /\ p.len = b.len
      /\ p.out_len = o /\ p.have_output = TRUE
  BY DEF In, Struct
<1>2. CASE o = i
  <2>1. NextGlyphs(p, 1) = {Advance(p, 1, 1)}
    <3> HIDE DEF p
    <3>. QED
      BY <1>1, <1>2 DEF NextGlyphs
  <2>2. Advance(p, 1, 1) = In(b, f, i + 1, o + 1, TRUE)
    <3> DEFINE h == TRUE
    <3> HIDE DEF h
    <3>1. Advance(In(b, f, i, o, h), 1, 1) = In(b, f, i + 1, o + 1, h)
      BY AdvanceIn
    <3>. QED
      BY <3>1 DEF h
  <2>. QED
    BY <1>2, <2>1, <2>2
<1>3. CASE o # i
  <2> DEFINE list == Part(f, i, i + 1)
             e == Fill(f, o, list)
  <2>1. Enough(p, o + 1)
    <3>1. Cardinality(0 .. N - 1) = N
      BY FS_Interval
    <3>2. o + 1 < N
      BY <1>3
    <3> HIDE DEF p
    <3>. QED
      BY <1>1, <3>1, <3>2 DEF Enough
  <2>2. Separated(p, 1, 1) = p
    <3>1. ~(o + 1 > i + 1)
      OBVIOUS
    <3> HIDE DEF p
    <3>. QED
      BY <1>1, <3>1 DEF Separated
  <2>3. NextGlyphs(p, 1) = {Advance(Write(p, o, list), 1, 1)}
    <3> HIDE DEF p
    <3>1. Ensured(p, p.out_len + 1) = {p}
      BY <1>1, <2>1 DEF Ensured
    <3>. QED
      BY <1>1, <1>3, <2>1, <2>2, <3>1 DEF NextGlyphs, WithRoom
  <2>4. Advance(Write(p, o, list), 1, 1) = In(b, e, i + 1, o + 1, TRUE)
    <3> DEFINE h == TRUE
    <3> HIDE DEF h, list, e
    <3>1. Write(In(b, f, i, o, h), o, list) = In(b, Fill(f, o, list), i, o, h)
      BY WriteIn
    <3>2. Advance(In(b, e, i, o, h), 1, 1) = In(b, e, i + 1, o + 1, h)
      BY AdvanceIn
    <3>. QED
      BY <3>1, <3>2 DEF h, e
  <2>5. Len(list) = 1 /\ list[1] = f[i]
    <3>0. i \in Nat /\ 1 \in Nat
      OBVIOUS
    <3>1. Len(list) = 1 /\ \A k \in 1 .. 1 : list[k] = f[i + k - 1]
      BY <3>0, PartIs
    <3>2. i + 1 - 1 = i /\ 1 \in 1 .. 1
      OBVIOUS
    <3> HIDE DEF list
    <3>. QED
      BY <3>1, <3>2
  <2> HIDE DEF list
  <2>6. IsFilled(f, e, N, o, f[i])
    BY <2>5, FillOne
  <2>. QED
    BY <2>3, <2>4, <2>6
<1>. QED
  BY <1>2, <1>3

LEMMA KeepTurn ==
    ASSUME NEW N \in Nat, NEW b, b.len \in Nat, b.len <= N, NEW i \in 0 .. b.len - 1, NEW o \in 0 .. i,
           NEW f, NEW g, Agree(f, g, N, i, o, b.len), NEW codes, f[i].code \notin codes
    PROVE  Twins(b, N, PassTurn(In(b, f, i, o, TRUE), i, codes),
                 InplaceTurn(In(b, g, 0, o, FALSE), i, codes), i + 1)
<1> DEFINE p == In(b, f, i, o, TRUE)
           q == In(b, g, 0, o, FALSE)
           d == Fill(g, o, <<g[i]>>)
<1>1. p.info = f /\ q.info = g /\ q.out_len = o /\ g[i].code \notin codes
  <2>1. f[i] = g[i]
    BY DEF Agree
  <2>. QED
    BY <2>1 DEF In, Struct
<1>2. PICK e : /\ NextGlyphs(p, 1) = {In(b, e, i + 1, o + 1, TRUE)}
               /\ (e = f /\ o = i) \/ IsFilled(f, e, N, o, f[i])
  BY NextIn DEF Agree
<1>3. PassTurn(p, i, codes) = In(b, e, i + 1, o + 1, TRUE)
  <2> HIDE DEF p
  <2>1. PassTurn(p, i, codes) = CHOOSE x \in NextGlyphs(p, 1) : TRUE
    BY <1>1 DEF PassTurn
  <2> DEFINE y == In(b, e, i + 1, o + 1, TRUE)
  <2> HIDE DEF y
  <2>2. (CHOOSE x \in {y} : TRUE) = y
    OBVIOUS
  <2>. QED
    BY <1>2, <2>1, <2>2 DEF y
<1>4. InplaceTurn(q, i, codes) = In(b, d, 0, o + 1, FALSE)
  <2> DEFINE y == o + 1
  <2>1. InplaceTurn(q, i, codes) = WithLen(WithInfo(q, d), y)
    <3> HIDE DEF q
    <3>. QED
      BY <1>1 DEF InplaceTurn, WithLen, WithInfo
  <2> HIDE DEF y, d
  <2>2. WithLen(WithInfo(q, d), y) = In(b, d, 0, y, FALSE)
    <3> DEFINE h == FALSE
    <3> HIDE DEF h
    <3>1. WithInfo(In(b, g, 0, o, h), d) = In(b, d, 0, o, h)
      BY SetInfo
    <3>2. WithLen(In(b, d, 0, o, h), y) = In(b, d, 0, y, h)
      BY SetLen
    <3>. QED
      BY <3>1, <3>2 DEF h
  <2>. QED
    BY <2>1, <2>2 DEF y
<1>5. IsFilled(g, d, N, o, g[i])
  <2> DEFINE list == <<g[i]>>
  <2>1. Len(list) = 1 /\ list[1] = g[i]
    OBVIOUS
  <2> HIDE DEF list
  <2>2. IsFilled(g, Fill(g, o, list), N, o, list[1])
    BY <2>1, FillOne DEF Agree
  <2>. QED
    BY <2>1, <2>2 DEF list
<1> HIDE DEF d
<1>6. Agree(e, d, N, i + 1, o + 1, b.len)
  BY <1>2, <1>5, KeepAgrees
<1>7. o + 1 \in 0 .. i + 1
  OBVIOUS
<1>. QED
  BY <1>3, <1>4, <1>6, <1>7 DEF Twins

\* A glyph that is deleted, with glyphs before it: those of its neighbour's cluster are marked.
LEMMA SameBack ==
    ASSUME NEW f, NEW g, NEW o \in Nat, \A k \in 0 .. o - 1 : f[k] = g[k], NEW old
    PROVE  {k \in 0 .. o - 1 : \A m \in k .. o - 1 : f[m].cluster = old}
             = {k \in 0 .. o - 1 : \A m \in k .. o - 1 : g[m].cluster = old}
<1>1. ASSUME NEW k \in 0 .. o - 1
      PROVE  (\A m \in k .. o - 1 : f[m].cluster = old) <=> (\A m \in k .. o - 1 : g[m].cluster = old)
  <2>1. \A m \in k .. o - 1 : m \in 0 .. o - 1
    OBVIOUS
  <2>. QED
    BY <2>1
<1>. QED
  BY <1>1

\* Without: those that the merge with the next glyph takes along.  In place it may go back
\* behind the cursor, where nothing is kept.
RunsMatch(f, g, i, n) ==
    /\ \A k \in 0 .. n - 1 : k > i => (k \in Run(f, i, i + 2, i, n - 1)
                                       <=> k \in Run(g, i, i + 2, 0, n - 1))
    /\ Least(f, i, i + 2) = Least(g, i, i + 2)

LEMMA SameRun ==
    ASSUME NEW n \in Nat, NEW i \in Nat, i + 1 < n, NEW f, NEW g, \A k \in i .. n - 1 : f[k] = g[k]
    PROVE  RunsMatch(f, g, i, n)
<1>1. i + 2 - 1 = i + 1
  OBVIOUS
<1>2. ASSUME NEW k \in i + 2 .. n - 1
      PROVE  (\A m \in i + 1 .. k : f[m].cluster = f[i + 1].cluster)
               <=> (\A m \in i + 1 .. k : g[m].cluster = g[i + 1].cluster)
  <2>1. f[i + 1] = g[i + 1] /\ \A m \in i + 1 .. k : f[m] = g[m]
    OBVIOUS
  <2>. QED
    BY <2>1
<1>3. ASSUME NEW k \in 0 .. n - 1, k > i
      PROVE  k \in Run(f, i, i + 2, i, n - 1) <=> k \in Run(g, i, i + 2, 0, n - 1)
  <2>1. /\ k \notin i .. i - 1 /\ k \notin 0 .. i - 1
        /\ k \in i .. i + 1 \/ k \in i + 2 .. n - 1
    BY <1>3
  <2>2. k \in Run(f, i, i + 2, i, n - 1)
          <=> \/ k \in i .. i + 1
              \/ k \in i + 2 .. n - 1 /\ \A m \in i + 1 .. k : f[m].cluster = f[i + 1].cluster
    BY <1>1, <2>1 DEF Run
  <2>3. k \in Run(g, i, i + 2, 0, n - 1)
          <=> \/ k \in i .. i + 1
              \/ k \in i + 2 .. n - 1 /\ \A m \in i + 1 .. k : g[m].cluster = g[i + 1].cluster
    BY <1>1, <2>1 DEF Run
  <2>. QED
    BY <1>2, <2>2, <2>3
<1>4. {f[k].cluster : k \in i .. i + 1} = {g[k].cluster : k \in i .. i + 1}
  <2>1. \A k \in i .. i + 1 : f[k] = g[k]
    OBVIOUS
  <2>. QED
    BY <2>1
<1>5. Least(f, i, i + 2) = Least(g, i, i + 2)
  BY <1>1, <1>4 DEF Least
<1>. QED
  BY <1>3, <1>5 DEF RunsMatch

LEMMA MergeIn ==
    ASSUME NEW b, NEW i \in Nat, NEW f, NEW x, NEW h
    PROVE  MergeClusters(In(b, f, x, 0, h), i, i + 2)
             = In(b, Marked(f, Run(f, i, i + 2, x, b.len - 1), Least(f, i, i + 2)), x, 0, h)
<1> DEFINE r == In(b, f, x, 0, h)
           K == Run(f, i, i + 2, x, b.len - 1)
           c == Least(f, i, i + 2)
<1>1. r.info = f /\ r.idx = x /\ r.len = b.len /\ r.out_len = 0
  BY DEF In, Struct
<1>2. ~(i + 2 - i < 2)
  OBVIOUS
<1>3. MergeClusters(r, i, i + 2) = Clustered(r, K, {}, c)
  <2> HIDE DEF r
  <2>1. {k \in 0 .. 0 - 1 : \A m \in k .. 0 - 1 : Out(r)[m].cluster = r.info[r.idx].cluster} = {}
    OBVIOUS
  <2>2. MergeClusters(r, i, i + 2)
          = Clustered(r, Run(r.info, i, i + 2, r.idx, r.len - 1),
                      IF r.idx \notin Run(r.info, i, i + 2, r.idx, r.len - 1) THEN {}
                      ELSE {k \in 0 .. r.out_len - 1 : \A m \in k .. r.out_len - 1 :
                              Out(r)[m].cluster = r.info[r.idx].cluster},
                      Least(r.info, i, i + 2))
    BY <1>2 DEF MergeClusters
  <2>. QED
    BY <1>1, <2>1, <2>2
<1> HIDE DEF K, c
<1>4. Clustered(r, K, {}, c) = In(b, Marked(f, K \union {}, c), x, 0, h)
  BY ClusteredIn
<1>5. K \union {} = K
  OBVIOUS
<1>. QED
  BY <1>3, <1>4, <1>5 DEF K, c

\* What is left of the glyph that a turn of either deletes.
LEMMA MarkTurn ==
    ASSUME NEW N \in Nat, NEW b, b.len \in Nat, b.len <= N, NEW i \in 0 .. b.len - 1, NEW o \in 0 .. i,
           NEW f, NEW g, Agree(f, g, N, i, o, b.len), NEW p, NEW q, NEW K, NEW J, NEW c,
           p = In(b, Marked(f, K, c), i + 1, o, TRUE), q = In(b, Marked(g, J, c), 0, o, FALSE),
           \A k \in 0 .. b.len - 1 : k < o \/ k > i => (k \in K <=> k \in J)
    PROVE  Twins(b, N, p, q, i + 1)
<1>1. Agree(Marked(f, K, c), Marked(g, J, c), N, i + 1, o, b.len)
  BY MarksAgree
<1>2. o \in 0 .. i + 1
  OBVIOUS
<1>. QED
  BY <1>1, <1>2 DEF Twins

LEMMA StayTurn ==
    ASSUME NEW N \in Nat, NEW b, b.len \in Nat, b.len <= N, NEW i \in 0 .. b.len - 1, NEW o \in 0 .. i,
           NEW f, NEW g, Agree(f, g, N, i, o, b.len), NEW p, NEW q,
           p = In(b, f, i + 1, o, TRUE), q = In(b, g, 0, o, FALSE)
    PROVE  Twins(b, N, p, q, i + 1)
<1>1. Agree(f, g, N, i + 1, o, b.len)
  BY DEF Agree
<1>2. o \in 0 .. i + 1
  OBVIOUS
<1>. QED
  BY <1>1, <1>2 DEF Twins

LEMMA DeleteTurn ==
    ASSUME NEW N \in Nat, NEW b, b.len \in Nat, b.len <= N, NEW i \in 0 .. b.len - 1, NEW o \in 0 .. i,
           NEW f, NEW g, Agree(f, g, N, i, o, b.len), NEW codes, f[i].code \in codes
    PROVE  Twins(b, N, PassTurn(In(b, f, i, o, TRUE), i, codes),
                 InplaceTurn(In(b, g, 0, o, FALSE), i, codes), i + 1)
<1> DEFINE t == TRUE
           u == FALSE
           p == In(b, f, i, o, t)
           q == In(b, g, 0, o, u)
           c == f[i].cluster
           n == b.len
<1>1. /\ p.info = f /\ p.idx = i /\ p.len = n /\ p.out_len = o /\ Out(p) = f
      /\ q.info = g /\ q.idx = 0 /\ q.len = n /\ q.out_len = o
  BY DEF In, Struct, Out
<1>2. f[i] = g[i] /\ g[i].code \in codes /\ (i + 1 < n => f[i + 1] = g[i + 1])
      /\ (o > 0 => f[o - 1] = g[o - 1])
  <2>1. f[i] = g[i]
    BY DEF Agree
  <2>2. i + 1 < n => f[i + 1] = g[i + 1]
    BY DEF Agree
  <2>3. o > 0 => f[o - 1] = g[o - 1]
    BY DEF Agree
  <2>. QED
    BY <2>1, <2>2, <2>3
<1> DEFINE old == f[o - 1].cluster
           FB == {k \in 0 .. o - 1 : \A m \in k .. o - 1 : f[m].cluster = old}
           GB == {k \in 0 .. o - 1 : \A m \in k .. o - 1 : g[m].cluster = old}
<1> HIDE DEF t, u
<1> SUFFICES Twins(b, N, PassTurn(p, i, codes), InplaceTurn(q, i, codes), i + 1)
  BY DEF t, u
<1>3. PassTurn(p, i, codes) = DeleteGlyph(p) /\ InplaceTurn(q, i, codes) = MergeInplace(q, i)
  <2> HIDE DEF p, q
  <2>. QED
    BY <1>1, <1>2 DEF PassTurn, InplaceTurn
<1>4. CASE (i + 1 < n /\ c = f[i + 1].cluster) \/ (o > 0 /\ ~(c < old)) \/ (o = 0 /\ ~(i + 1 < n))
  <2>1. DeleteGlyph(p) = Advance(p, 1, 0) /\ MergeInplace(q, i) = q
    <3> HIDE DEF p, q
    <3>1. DeleteGlyph(p) = Advance(p, 1, 0)
      BY <1>1, <1>4 DEF DeleteGlyph
    <3>2. MergeInplace(q, i) = q
      BY <1>1, <1>2, <1>4 DEF MergeInplace
    <3>. QED
      BY <3>1, <3>2
  <2>2. Advance(p, 1, 0) = In(b, f, i + 1, o, t)
    <3>1. Advance(p, 1, 0) = In(b, f, i + 1, o + 0, t)
      BY AdvanceIn
    <3>2. o + 0 = o
      OBVIOUS
    <3>. QED
      BY <3>1, <3>2
  <2>. QED
    BY <1>3, <2>1, <2>2, StayTurn DEF t, u
<1>5. CASE ~(i + 1 < n /\ c = f[i + 1].cluster) /\ o > 0 /\ c < old
  <2>1. DeleteGlyph(p) = Advance(Clustered(p, {}, FB, c), 1, 0)
    <3> HIDE DEF p
    <3>. QED
      BY <1>1, <1>5 DEF DeleteGlyph
  <2>2. MergeInplace(q, i) = Clustered(q, GB, {}, c)
    <3> HIDE DEF q
    <3>1. g[o - 1].cluster = old /\ g[i].cluster = c
      BY <1>2, <1>5
    <3>2. ~(i + 1 < n /\ g[i].cluster = g[i + 1].cluster)
      BY <1>2, <1>5
    <3>3. MergeInplace(q, i)
            = Clustered(q, {k \in 0 .. o - 1 : \A m \in k .. o - 1 : g[m].cluster = g[o - 1].cluster},
                        {}, g[i].cluster)
      BY <1>1, <1>5, <3>1, <3>2 DEF MergeInplace
    <3>. QED
      BY <3>1, <3>3
  <2>3. FB = GB
    <3>1. \A k \in 0 .. o - 1 : f[k] = g[k]
      BY DEF Agree
    <3> HIDE DEF old
    <3>. QED
      BY <3>1, SameBack
  <2> HIDE DEF FB, GB, c
  <2>4. Advance(Clustered(p, {}, FB, c), 1, 0) = In(b, Marked(f, FB, c), i + 1, o, t)
    <3>1. Clustered(p, {}, FB, c) = In(b, Marked(f, {} \union FB, c), i, o, t)
      BY ClusteredIn
    <3> DEFINE e == Marked(f, FB, c)
    <3> HIDE DEF e
    <3>2. Advance(In(b, e, i, o, t), 1, 0) = In(b, e, i + 1, o + 0, t)
      BY AdvanceIn
    <3>3. o + 0 = o /\ {} \union FB = FB
      OBVIOUS
    <3>. QED
      BY <3>1, <3>2, <3>3 DEF e
  <2>5. Clustered(q, GB, {}, c) = In(b, Marked(g, GB, c), 0, o, u)
    <3>1. Clustered(q, GB, {}, c) = In(b, Marked(g, GB \union {}, c), 0, o, u)
      BY ClusteredIn
    <3>2. GB \union {} = GB
      OBVIOUS
    <3>. QED
      BY <3>1, <3>2
  <2>. QED
    BY <1>3, <2>1, <2>2, <2>3, <2>4, <2>5, MarkTurn DEF t, u
<1>6. CASE ~(i + 1 < n /\ c = f[i + 1].cluster) /\ o = 0 /\ i + 1 < n
  <2> DEFINE K == Run(f, i, i + 2, i, n - 1)
             J == Run(g, i, i + 2, 0, n - 1)
             d == Least(f, i, i + 2)
  <2>1. DeleteGlyph(p) = Advance(MergeClusters(p, i, i + 2), 1, 0)
    <3> HIDE DEF p
    <3>. QED
      BY <1>1, <1>6 DEF DeleteGlyph
  <2>2. MergeInplace(q, i) = MergeClusters(q, i, i + 2)
    <3> HIDE DEF q
    <3>. QED
      BY <1>1, <1>2, <1>6 DEF MergeInplace
  <2>3. d = Least(g, i, i + 2) /\ \A k \in 0 .. n - 1 : k > i => (k \in K <=> k \in J)
    <3>1. \A k \in i .. n - 1 : f[k] = g[k]
      BY DEF Agree
    <3>2. i \in Nat /\ b.len \in Nat /\ i + 1 < b.len
      BY <1>6
    <3>3. RunsMatch(f, g, i, b.len)
      BY <3>1, <3>2, SameRun
    <3>. QED
      BY <3>3 DEF RunsMatch
  <2>4. MergeClusters(p, i, i + 2) = In(b, Marked(f, K, d), i, 0, t)
    BY <1>6, MergeIn
  <2>5. MergeClusters(q, i, i + 2) = In(b, Marked(g, J, d), 0, 0, u)
    <3>1. MergeClusters(q, i, i + 2) = In(b, Marked(g, J, Least(g, i, i + 2)), 0, 0, u)
      BY <1>6, MergeIn
    <3>. QED
      BY <2>3, <3>1
  <2> HIDE DEF K, J, d
  <2>6. Advance(In(b, Marked(f, K, d), i, 0, t), 1, 0) = In(b, Marked(f, K, d), i + 1, o, t)
    <3> DEFINE e == Marked(f, K, d)
    <3> HIDE DEF e
    <3>1. Advance(In(b, e, i, 0, t), 1, 0) = In(b, e, i + 1, 0 + 0, t)
      BY AdvanceIn
    <3>. QED
      BY <1>6, <3>1 DEF e
  <2>7. \A k \in 0 .. n - 1 : k < o \/ k > i => (k \in K <=> k \in J)
    BY <1>6, <2>3
  <2>8. PassTurn(p, i, codes) = In(b, Marked(f, K, d), i + 1, o, t)
    BY <1>3, <2>1, <2>4, <2>6
  <2>9. InplaceTurn(q, i, codes) = In(b, Marked(g, J, d), 0, o, u)
    BY <1>3, <1>6, <2>2, <2>5
  <2>. QED
    BY <2>7, <2>8, <2>9, MarkTurn DEF t, u
<1>. QED
  BY <1>4, <1>5, <1>6

LEMMA Turn ==
    ASSUME NEW N \in Nat, NEW b, b.len \in Nat, b.len <= N, NEW i \in 0 .. b.len - 1, NEW p, NEW q,
           Twins(b, N, p, q, i), NEW codes
    PROVE  Twins(b, N, PassTurn(p, i, codes), InplaceTurn(q, i, codes), i + 1)
<1>1. PICK f, g : \E o \in 0 .. i :
        p = In(b, f, i, o, TRUE) /\ q = In(b, g, 0, o, FALSE) /\ Agree(f, g, N, i, o, b.len)
  BY DEF Twins
<1>2. PICK o \in 0 .. i :
        p = In(b, f, i, o, TRUE) /\ q = In(b, g, 0, o, FALSE) /\ Agree(f, g, N, i, o, b.len)
  BY <1>1
<1>3. CASE f[i].code \in codes
  BY <1>2, <1>3, DeleteTurn
<1>4. CASE f[i].code \notin codes
  BY <1>2, <1>4, KeepTurn
<1>. QED
  BY <1>3, <1>4

\* Before the first turn.
LEMMA TwinsAtFirst ==
    ASSUME NEW N \in Nat, NEW b, Good(b, N), ~b.have_output, b.idx = 0
    PROVE  Twins(b, N, [b EXCEPT !.have_output = TRUE], b, 0)
<1> DEFINE f == b.info
           t == TRUE
           u == FALSE
<1> HIDE DEF f, t, u
<1>1. b = In(b, f, 0, 0, u)
  <2>1. /\ b \in [info : Mem(N), pos : Mem(N), separate : BOOLEAN, idx : Nat, len : Nat,
                  out_len : Nat, have_output : BOOLEAN, successful : BOOLEAN]
        /\ b.out_len = 0 /\ b.separate = FALSE /\ b.have_output = FALSE
    BY DEF Good, IsBuf
  <2>2. b = Struct(b.info, b.pos, b.separate, b.idx, b.len, b.out_len, b.have_output, b.successful)
    BY <2>1 DEF Struct
  <2>. QED
    BY <2>1, <2>2 DEF In, f, u
<1>2. [b EXCEPT !.have_output = TRUE] = In(b, f, 0, 0, t)
  <2>1. WithOutput(In(b, f, 0, 0, u), t) = In(b, f, 0, 0, t)
    BY SetOutput
  <2>2. WithOutput(b, t) = [b EXCEPT !.have_output = TRUE]
    BY DEF WithOutput, t
  <2>. QED
    BY <1>1, <2>1, <2>2
<1>3. Agree(f, f, N, 0, 0, b.len)
  <2>1. DOMAIN f = 0 .. N - 1
    BY CellsOf DEF Good, f
  <2>. QED
    BY <2>1 DEF Agree
<1>4. b = In(b, f, 0, 0, FALSE) /\ [b EXCEPT !.have_output = TRUE] = In(b, f, 0, 0, TRUE)
  BY <1>1, <1>2 DEF t, u
<1>5. 0 \in 0 .. 0
  OBVIOUS
<1>. QED
  BY <1>3, <1>4, <1>5, Zenon DEF Twins

\* What holds at first and is handed on upwards holds all the way.
LEMMA Upwards ==
    ASSUME NEW n \in Nat, NEW P, 0 \in P, \A k \in 1 .. n : k - 1 \in P => k \in P
    PROVE  \A k \in 0 .. n : k \in P
<1> DEFINE S == {k \in 0 .. n : k \notin P}
<1>1. S \in SUBSET Nat
  OBVIOUS
<1> SUFFICES ASSUME S # {} PROVE FALSE
  OBVIOUS
<1>2. PICK k \in S : \A j \in S : ~(<<j, k>> \in OpToRel(<, Nat))
  <2> HIDE DEF S
  <2>. QED
    BY <1>1, NatLessThanWellFounded, WFMin
<1>3. k \in 0 .. n /\ k \notin P
  OBVIOUS
<1>4. k \in 1 .. n /\ k - 1 \in 0 .. n
  <2>1. k # 0
    BY <1>3
  <2> HIDE DEF S
  <2>. QED
    BY <1>3, <2>1
<1>5. <<k - 1, k>> \in OpToRel(<, Nat)
  BY <1>4 DEF OpToRel
<1>6. k - 1 \notin S
  BY <1>2, <1>5
<1>. QED
  BY <1>2, <1>4, <1>6

\* The turns of a pass, and those of a deletion in place.
PassTurns(h, b, n, codes) ==
    h = [i \in 0 .. n |-> IF i = 0 THEN [b EXCEPT !.have_output = TRUE]
                          ELSE PassTurn(h[i - 1], i - 1, codes)]
InplaceTurns(h, b, n, codes) ==
    h = [i \in 0 .. n |-> IF i = 0 THEN b ELSE InplaceTurn(h[i - 1], i - 1, codes)]

LEMMA PassHasTurns ==
    ASSUME NEW n \in Nat, NEW b, NEW codes PROVE \E h : PassTurns(h, b, n, codes)
<1> DEFINE first == [b EXCEPT !.have_output = TRUE]
           P == {k \in 0 .. n : \E h : PassTurns(h, b, k, codes)}
<1>1. 0 \in P
  <2>1. PassTurns([i \in 0 .. 0 |-> first], b, 0, codes)
    BY DEF PassTurns
  <2>. QED
    BY <2>1
<1>2. ASSUME NEW k \in 1 .. n, k - 1 \in P PROVE k \in P
  <2>1. PICK h : PassTurns(h, b, k - 1, codes)
    BY <1>2
  <2> DEFINE e == [i \in 0 .. k |-> IF i < k THEN h[i] ELSE PassTurn(h[k - 1], k - 1, codes)]
  <2>2. ASSUME NEW i \in 0 .. k
        PROVE  e[i] = IF i = 0 THEN first ELSE PassTurn(e[i - 1], i - 1, codes)
    <3> HIDE DEF first
    <3>1. i # 0 => i - 1 \in 0 .. k /\ i - 1 < k
      OBVIOUS
    <3>2. i < k => h[i] = IF i = 0 THEN first ELSE PassTurn(h[i - 1], i - 1, codes)
      <4>1. h = [j \in 0 .. k - 1 |-> IF j = 0 THEN first ELSE PassTurn(h[j - 1], j - 1, codes)]
        BY <2>1 DEF PassTurns, first
      <4>2. i < k => i \in 0 .. k - 1
        OBVIOUS
      <4>. QED
        BY <4>1, <4>2
    <3>3. k # 0
      OBVIOUS
    <3>. QED
      BY <3>1, <3>2, <3>3
  <2>3. e = [i \in 0 .. k |-> e[i]]
    OBVIOUS
  <2> HIDE DEF e
  <2>4. PassTurns(e, b, k, codes)
    BY <2>2, <2>3 DEF PassTurns
  <2>. QED
    BY <2>4
<1> HIDE DEF P
<1>3. \A k \in 0 .. n : k \in P
  BY <1>1, <1>2, Upwards
<1>. QED
  BY <1>3 DEF P

LEMMA InplaceHasTurns ==
    ASSUME NEW n \in Nat, NEW b, NEW codes PROVE \E h : InplaceTurns(h, b, n, codes)
<1> DEFINE P == {k \in 0 .. n : \E h : InplaceTurns(h, b, k, codes)}
<1>1. 0 \in P
  <2>1. InplaceTurns([i \in 0 .. 0 |-> b], b, 0, codes)
    BY DEF InplaceTurns
  <2>. QED
    BY <2>1
<1>2. ASSUME NEW k \in 1 .. n, k - 1 \in P PROVE k \in P
  <2>1. PICK h : InplaceTurns(h, b, k - 1, codes)
    BY <1>2
  <2> DEFINE e == [i \in 0 .. k |-> IF i < k THEN h[i] ELSE InplaceTurn(h[k - 1], k - 1, codes)]
  <2>2. ASSUME NEW i \in 0 .. k
        PROVE  e[i] = IF i = 0 THEN b ELSE InplaceTurn(e[i - 1], i - 1, codes)
    <3>1. i # 0 => i - 1 \in 0 .. k /\ i - 1 < k
      OBVIOUS
    <3>2. i < k => h[i] = IF i = 0 THEN b ELSE InplaceTurn(h[i - 1], i - 1, codes)
      BY <2>1 DEF InplaceTurns
    <3>3. k # 0
      OBVIOUS
    <3>. QED
      BY <3>1, <3>2, <3>3
  <2>3. e = [i \in 0 .. k |-> e[i]]
    OBVIOUS
  <2> HIDE DEF e
  <2>4. InplaceTurns(e, b, k, codes)
    BY <2>2, <2>3 DEF InplaceTurns
  <2>. QED
    BY <2>4
<1> HIDE DEF P
<1>3. \A k \in 0 .. n : k \in P
  BY <1>1, <1>2, Upwards
<1>. QED
  BY <1>3 DEF P

LEMMA TurnsAgree ==
    ASSUME NEW N \in Nat, NEW b, Good(b, N), ~b.have_output, b.idx = 0, NEW codes, NEW h, NEW d,
           PassTurns(h, b, b.len, codes), InplaceTurns(d, b, b.len, codes)
    PROVE  Twins(b, N, h[b.len], d[b.len], b.len)
<1>1. b.len \in Nat /\ b.len <= N
  BY DEF Good, IsBuf
<1> DEFINE n == b.len
           P == {k \in 0 .. n : Twins(b, N, h[k], d[k], k)}
<1> HIDE DEF n
<1>2. h[0] = [b EXCEPT !.have_output = TRUE] /\ d[0] = b
  <2> DEFINE first == [b EXCEPT !.have_output = TRUE]
  <2> HIDE DEF first
  <2>1. h = [i \in 0 .. n |-> IF i = 0 THEN first ELSE PassTurn(h[i - 1], i - 1, codes)]
    BY DEF PassTurns, n, first
  <2>2. d = [i \in 0 .. n |-> IF i = 0 THEN b ELSE InplaceTurn(d[i - 1], i - 1, codes)]
    BY DEF InplaceTurns, n
  <2>3. 0 \in 0 .. n
    BY <1>1 DEF n
  <2>. QED
    BY <2>1, <2>2, <2>3 DEF first
<1>3. \A k \in 1 .. n : /\ h[k] = PassTurn(h[k - 1], k - 1, codes)
                        /\ d[k] = InplaceTurn(d[k - 1], k - 1, codes)
  <2> DEFINE first == [b EXCEPT !.have_output = TRUE]
  <2> HIDE DEF first
  <2>1. h = [i \in 0 .. n |-> IF i = 0 THEN first ELSE PassTurn(h[i - 1], i - 1, codes)]
    BY DEF PassTurns, n, first
  <2>2. d = [i \in 0 .. n |-> IF i = 0 THEN b ELSE InplaceTurn(d[i - 1], i - 1, codes)]
    BY DEF InplaceTurns, n
  <2>3. \A k \in 1 .. n : k \in 0 .. n /\ k # 0
    BY <1>1 DEF n
  <2>. QED
    BY <2>1, <2>2, <2>3
<1>4. 0 \in P
  <2>1. Twins(b, N, h[0], d[0], 0)
    BY <1>2, TwinsAtFirst
  <2>2. 0 \in 0 .. n
    BY <1>1 DEF n
  <2>. QED
    BY <2>1, <2>2
<1>5. ASSUME NEW k \in 1 .. n, k - 1 \in P PROVE k \in P
  <2>1. k - 1 \in 0 .. b.len - 1 /\ k - 1 + 1 = k /\ k \in 0 .. n
    BY <1>1 DEF n
  <2>2. Twins(b, N, PassTurn(h[k - 1], k - 1, codes), InplaceTurn(d[k - 1], k - 1, codes), k - 1 + 1)
    BY <1>1, <1>5, <2>1, Turn
  <2>. QED
    BY <1>3, <2>1, <2>2
<1> HIDE DEF P
<1>6. n \in Nat /\ n \in 0 .. n
  BY <1>1 DEF n
<1>7. n \in P
  BY <1>4, <1>5, <1>6, Upwards
<1>. QED
  BY <1>7 DEF P, n

LEMMA PassIsInplace ==
    ASSUME NEW N \in Nat, NEW b, Good(b, N), ~b.have_output, b.idx = 0, NEW codes
    PROVE  Part(Pass(b, codes).info, 0, Pass(b, codes).out_len)
             = Part(DeleteInplace(b, codes).info, 0, DeleteInplace(b, codes).out_len)
<1>1. b.len \in Nat
  BY DEF Good, IsBuf
<1> DEFINE h == CHOOSE x : PassTurns(x, b, b.len, codes)
           d == CHOOSE x : InplaceTurns(x, b, b.len, codes)
<1>2. PassTurns(h, b, b.len, codes) /\ InplaceTurns(d, b, b.len, codes)
  BY <1>1, PassHasTurns, InplaceHasTurns
<1>3. Pass(b, codes) = h[b.len]
  BY DEF Pass, PassTurns
<1>4. DeleteInplace(b, codes) = d[b.len]
  BY DEF DeleteInplace, InplaceTurns
<1> HIDE DEF h, d
<1> DEFINE p == Pass(b, codes)
           q == DeleteInplace(b, codes)
<1>5. Twins(b, N, p, q, b.len)
  BY <1>2, <1>3, <1>4, TurnsAgree
<1> HIDE DEF p, q
<1>6. PICK f, g : \E o \in 0 .. b.len :
        p = In(b, f, b.len, o, TRUE) /\ q = In(b, g, 0, o, FALSE) /\ Agree(f, g, N, b.len, o, b.len)
  BY <1>5 DEF Twins
<1>7. PICK o \in 0 .. b.len :
        p = In(b, f, b.len, o, TRUE) /\ q = In(b, g, 0, o, FALSE) /\ Agree(f, g, N, b.len, o, b.len)
  BY <1>6
<1>8. p.info = f /\ p.out_len = o /\ q.info = g /\ q.out_len = o
  BY <1>7 DEF In, Struct
<1>9. \A k \in 1 .. (o - 0) : f[0 + k - 1] = g[0 + k - 1]
  <2>1. \A k \in 1 .. (o - 0) : 0 + k - 1 \in 0 .. o - 1
    BY <1>1
  <2>. QED
    BY <1>7, <2>1 DEF Agree
<1>10. Part(f, 0, o) = Part(g, 0, o)
  BY <1>9 DEF Part
<1>. QED
  BY <1>8, <1>10 DEF p, q

\* hb_ot_layout_delete_glyphs_inplace leaves the glyphs, with the clusters, that a pass which
\* calls delete_glyph for the same glyphs leaves, whatever text a buffer then holds; only the
\* cells that nobody keeps differ.
THEOREM InplaceIsRight == Spec => []InplaceAgrees
<1>1. HbInv => InplaceAgrees
  <2>1. SUFFICES ASSUME NEW N \in Nat, Good(buf, N), ~buf.have_output, buf.idx = 0,
                        NEW codes \in SUBSET {buf.info[k].code : k \in 0 .. buf.len - 1}
                 PROVE  Part(Pass(buf, codes).info, 0, Pass(buf, codes).out_len)
                          = Part(DeleteInplace(buf, codes).info, 0, DeleteInplace(buf, codes).out_len)
    BY DEF HbInv, IsGood, InplaceAgrees
  <2>. QED
    BY <2>1, PassIsInplace
<1>2. HbInv /\ [Next]_buf => HbInv'
  BY NextIsGood
<1>. QED
  BY <1>1, <1>2, InitIsGood, PTL DEF Spec
=============================================================================
