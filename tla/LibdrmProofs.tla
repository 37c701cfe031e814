---------------------------- MODULE LibdrmProofs ----------------------------
(***************************************************************************)
(* What the parts of libdrm never do, part by part: the random numbers, the*)
(* atomic requests, the hash table, the connections.                       *)
(***************************************************************************)
EXTENDS Libdrm, FiniteSetTheorems, SequenceTheorems, WellFoundedInduction, TLAPS

-----------------------------------------------------------------------------
(***************************************************************************)
(* drmRandom with the constants drmRandomCreate sets, on the unsigned longs*)
(* of 32 and of 64 bits that the compilers of the out folders have: every  *)
(* draw is the product modulo m, and no seed reaches 0 or m.               *)
(***************************************************************************)

ParkMiller == A = 48271 /\ M = 2147483647

LEMMA Constants == ASSUME ParkMiller PROVE Q = 44488 /\ R = 3399
BY SMT DEF ParkMiller, Q, R

\* Bounds as inequalities: the prover does not take intervals this long.
Within(x, b) == x \in Int /\ 0 <= x /\ x <= b
Seed(s) == Within(s, 2147483646) /\ s # 0
Hi(x) == Within(x, 48271)
Lo(x) == Within(x, 44487)

LEMMA SeedRange == ASSUME ParkMiller, NEW s PROVE s \in 1 .. (M - 1) <=> Seed(s)
<1>1. M \in Int BY SMT DEF ParkMiller
<1>2. s \in 1 .. (M - 1) <=> s \in Int /\ 1 <= s /\ s <= M - 1 BY SMT, <1>1
<1>3. M - 1 = 2147483646 BY SMT DEF ParkMiller
<1> QED BY SMT, <1>2, <1>3 DEF Seed, Within

\* A seed is q * hi + lo, both digits small.
LEMMA SeedDigits ==
    ASSUME ParkMiller, NEW s, Seed(s)
    PROVE  Hi(s \div Q) /\ Lo(s % Q) /\ s = 44488 * (s \div Q) + (s % Q)
<1>1. Q = 44488 BY SMT, Constants
<1>2. Hi(s \div 44488) /\ Lo(s % 44488) /\ s = 44488 * (s \div 44488) + (s % 44488)
  BY SMT DEF Seed, Within, Hi, Lo
<1> QED BY SMT, <1>1, <1>2

\* The difference is never 0: 48271 and 3399 have no common divisor.
LEMMA DifferenceNotZero ==
    ASSUME NEW hi, NEW lo, Hi(hi), Lo(lo), Seed(44488 * hi + lo)
    PROVE  48271 * lo # 3399 * hi
BY SMT DEF Seed, Within, Hi, Lo

\* A remainder is what it is, whatever the quotient.
LEMMA Remainder ==
    ASSUME NEW x \in Nat, NEW r, Seed(r), NEW k \in Int, x = 2147483647 * k + r
    PROVE  x % 2147483647 = r
BY SMT DEF Seed, Within

Rest(hi, lo) == (48271 * lo - 3399 * hi)
                + (IF 48271 * lo <= 3399 * hi THEN 2147483647 ELSE 0)

LEMMA RestIsSeed ==
    ASSUME NEW hi, NEW lo, Hi(hi), Lo(lo), 48271 * lo # 3399 * hi
    PROVE  /\ Seed(Rest(hi, lo))
           /\ \E k \in Int : 48271 * (44488 * hi + lo) = 2147483647 * k + Rest(hi, lo)
<1> USE DEF Hi, Lo, Within
<1>1. CASE 48271 * lo <= 3399 * hi
  <2>1. Rest(hi, lo) = 48271 * lo - 3399 * hi + 2147483647 BY SMT, <1>1 DEF Rest
  <2>2. 48271 * (44488 * hi + lo) = 2147483647 * (hi - 1) + Rest(hi, lo) BY SMT, <2>1
  <2>3. Seed(Rest(hi, lo)) BY SMT, <1>1, <2>1 DEF Seed
  <2>4. hi - 1 \in Int BY SMT
  <2> QED BY ONLY SMT, <2>2, <2>3, <2>4
<1>2. CASE ~(48271 * lo <= 3399 * hi)
  <2>1. Rest(hi, lo) = 48271 * lo - 3399 * hi BY SMT, <1>2 DEF Rest
  <2>2. 48271 * (44488 * hi + lo) = 2147483647 * hi + Rest(hi, lo) BY SMT, <2>1
  <2>3. Seed(Rest(hi, lo)) BY SMT, <1>2, <2>1 DEF Seed
  <2> QED BY SMT, <2>2, <2>3
<1> QED BY SMT, <1>1, <1>2

\* One draw: in range, and congruent to the product.
LEMMA SchrageStep ==
    ASSUME ParkMiller, NEW s, Seed(s)
    PROVE  Seed(Schrage(s)) /\ Schrage(s) = ProductMod(s)
<1> DEFINE hi == s \div Q
<1> DEFINE lo == s % Q
<1>1. Hi(hi) /\ Lo(lo) /\ s = 44488 * hi + lo BY SMT, SeedDigits
<1>2. A = 48271 /\ M = 2147483647 /\ R = 3399 BY SMT, Constants DEF ParkMiller
<1>3. Schrage(s) = Rest(hi, lo) BY SMT, <1>2 DEF Schrage, Rest
<1> HIDE DEF hi, lo
<1>4. 48271 * lo # 3399 * hi BY SMT, <1>1, DifferenceNotZero
<1>5. Seed(Schrage(s)) BY SMT, <1>1, <1>3, <1>4, RestIsSeed
<1>6. PICK k \in Int : 48271 * (44488 * hi + lo) = 2147483647 * k + Schrage(s)
  BY SMT, <1>1, <1>3, <1>4, RestIsSeed
<1>7. 48271 * s = 2147483647 * k + Schrage(s) /\ 48271 * s \in Nat
  BY SMT, <1>1, <1>6 DEF Seed, Within
<1>8. (48271 * s) % 2147483647 = Schrage(s) BY SMT, <1>5, <1>7, Remainder
<1> QED BY SMT, <1>2, <1>5, <1>8 DEF ProductMod

\* The unsigned longs of 32 and of 64 bits.
WordSize == Word = 4294967296 \/ Word = 18446744073709551616

LEMMA WordsOfSeed ==
    ASSUME ParkMiller, WordSize, NEW s, Seed(s) PROVE InWords(s) = Schrage(s)
<1> DEFINE hi == s \div Q
<1> DEFINE lo == s % Q
<1> DEFINE x == 48271 * lo
<1> DEFINE y == 3399 * hi
<1>1. Hi(hi) /\ Lo(lo) BY SMT, SeedDigits
<1>2. A = 48271 /\ M = 2147483647 /\ R = 3399 BY SMT, Constants DEF ParkMiller
<1>3. InWords(s) = LET d == ((x % Word) - (y % Word)) % Word
                   IN  IF x % Word <= y % Word THEN (d + M) % Word ELSE d
  BY SMT, <1>2 DEF InWords
<1>4. Schrage(s) = (x - y) + (IF x <= y THEN M ELSE 0) BY SMT, <1>2 DEF Schrage
<1>5. Within(x, 2147483647) /\ Within(y, 2147483646) BY SMT, <1>1 DEF Hi, Lo, Within
<1> HIDE DEF hi, lo, x, y
<1>6. x % Word = x /\ y % Word = y BY SMT, <1>5 DEF WordSize, Within
<1>7. CASE x <= y
  <2>1. (x - y) % Word = x - y + Word \/ (x = y /\ (x - y) % Word = 0)
    BY SMT, <1>5, <1>7 DEF WordSize, Within
  <2>2. (((x - y) % Word) + M) % Word = x - y + M
    BY SMT, <1>2, <1>5, <1>7, <2>1 DEF WordSize, Within
  <2> QED BY SMT, <1>3, <1>4, <1>5, <1>6, <1>7, <2>2 DEF Within
<1>8. CASE ~(x <= y)
  <2>1. (x - y) % Word = x - y BY SMT, <1>5, <1>8 DEF WordSize, Within
  <2> QED BY SMT, <1>3, <1>4, <1>5, <1>6, <1>8, <2>1 DEF Within
<1> QED BY SMT, <1>7, <1>8

\* The seeds of drmRandomCreate.
LEMMA LegalIsSeed == ASSUME ParkMiller, NEW s \in Nat PROVE Seed(Legal(s))
BY SMT DEF ParkMiller, Legal, Seed, Within

SeedInv == Seed(seed)

LEMMA InitSeed == ASSUME ParkMiller, RandomInit PROVE SeedInv
<1>1. PICK s \in Seeds : seed = Legal(s) BY SMT DEF RandomInit
<1>2. s \in Nat BY SMT, DrmRandomAssumption DEF DrmRandomAssumption
<1> QED BY SMT, <1>1, <1>2, LegalIsSeed DEF SeedInv

LEMMA NextSeed ==
    ASSUME ParkMiller, WordSize, SeedInv, [RandomNext]_randomVars
    PROVE  SeedInv' /\ (randomVars' # randomVars => seed' = ProductMod(seed))
<1>1. CASE Draw BY SMT, <1>1, SchrageStep, WordsOfSeed DEF Draw, SeedInv
<1>2. CASE UNCHANGED randomVars BY SMT, <1>2 DEF randomVars, SeedInv
<1> QED BY SMT, <1>1, <1>2 DEF RandomNext

\* No draw leaves the legal seeds.
THEOREM StaysLegal == ASSUME ParkMiller, WordSize PROVE RandomSpec => []SeedLegal
<1>1. RandomInit => SeedInv BY InitSeed
<1>2. SeedInv /\ [RandomNext]_randomVars => SeedInv' BY NextSeed
<1>3. SeedInv => SeedLegal BY SeedRange DEF SeedInv, SeedLegal
<1> QED BY <1>1, <1>2, <1>3, PTL DEF RandomSpec

\* Every draw is the product modulo m.
THEOREM DrawsProducts == ASSUME ParkMiller, WordSize PROVE RandomSpec => IsProduct
<1>1. RandomInit => SeedInv BY InitSeed
<1>2. SeedInv /\ [RandomNext]_randomVars => SeedInv' /\ [seed' = ProductMod(seed)]_randomVars BY NextSeed
<1> QED BY <1>1, <1>2, PTL DEF RandomSpec, IsProduct

-----------------------------------------------------------------------------
(***************************************************************************)
(* Atomic requests never reach outside their arrays and are lists, for any *)
(* number of requests, ids, values and items.                              *)
(*                                                                         *)
(* A request is well formed when its array is as large as size_items says  *)
(* and everything below the cursor is a setting.  One lemma says what all  *)
(* ways to put new items into a well-formed request make of it.            *)
(***************************************************************************)

Good ==
    {x \in Request :
        /\ Len(x.heap) = x.size_items
        /\ x.cursor <= x.size_items
        /\ \A i \in 1 .. x.cursor : x.heap[i] \in Setting}

IInv == req \in [Requests -> Good \union {NoReq}]

Content(x) == [i \in 1 .. x.cursor |-> x.heap[i]]
ListOf(x) == IF x = NoReq THEN NoReq ELSE Content(x)

LEMMA FunctionIsSeq ==
    ASSUME NEW S, NEW n \in Nat, NEW f \in [1 .. n -> S] PROVE f \in Seq(S) /\ Len(f) = n
OBVIOUS

LEMMA GoodIsNot == NoReq \notin Good
BY NoReqAssumption DEF Good

LEMMA GoodIs ==
    ASSUME NEW x \in Good
    PROVE  /\ x \in Request /\ x.cursor \in Nat /\ x.size_items \in Nat
           /\ x.heap \in Seq(Cell) /\ Len(x.heap) = x.size_items
           /\ x.cursor <= x.size_items
           /\ \A i \in 1 .. x.cursor : x.heap[i] \in Setting
BY DEF Good, Request

LEMMA ItemsAreSettings ==
    ASSUME NEW x \in Good
    PROVE  Content(x) \in Seq(Setting) /\ Len(Content(x)) = x.cursor
BY GoodIs DEF Content

\* Settings may be put into memory.
LEMMA SettingIsCell == Setting \subseteq Cell
BY DEF Setting, Cell, Item

LEMMA WrittenCells ==
    ASSUME NEW h \in Seq(Cell), NEW from \in Nat, NEW new \in Seq(Setting)
    PROVE  /\ Written(h, from, new) \in Seq(Cell)
           /\ Len(Written(h, from, new)) = Len(h)
           /\ \A i \in 1 .. Len(h) :
                Written(h, from, new)[i] =
                  IF i > from /\ i <= from + Len(new) THEN new[i - from] ELSE h[i]
<1> DEFINE w == Written(h, from, new)
<1>1. w = [i \in 1 .. Len(h) |->
             IF i > from /\ i <= from + Len(new) THEN new[i - from] ELSE h[i]]
  BY DEF Written
<1>2. Len(h) \in Nat OBVIOUS
<1>3. ASSUME NEW i \in 1 .. Len(h) PROVE w[i] \in Cell
  <2>1. CASE i > from /\ i <= from + Len(new)
    <3>1. w[i] = new[i - from] /\ i - from \in 1 .. Len(new) BY <1>1, <2>1
    <3> QED BY <3>1, SettingIsCell
  <2>2. CASE ~(i > from /\ i <= from + Len(new)) BY <1>1, <2>2
  <2> QED BY <2>1, <2>2
<1> QED BY <1>1, <1>2, <1>3

\* New items behind the cursor, in an array that has kept the items below it.
LEMMA PutItems ==
    ASSUME NEW x \in Good, NEW new \in Seq(Setting), NEW h \in Seq(Cell),
           x.cursor + Len(new) <= Len(h),
           \A i \in 1 .. x.cursor : h[i] = x.heap[i],
           NEW y, y = [cursor |-> x.cursor + Len(new), size_items |-> Len(h),
                       heap |-> Written(h, x.cursor, new)]
    PROVE  y \in Good /\ Content(y) = Content(x) \o new
<1> USE GoodIs
<1>1. /\ y.cursor = x.cursor + Len(new) /\ y.size_items = Len(h)
      /\ y.heap = Written(h, x.cursor, new)
  OBVIOUS
<1>a. x.cursor \in Nat /\ Len(new) \in Nat /\ Len(h) \in Nat OBVIOUS
<1>w. /\ y.heap \in Seq(Cell) /\ Len(y.heap) = Len(h)
      /\ \A i \in 1 .. Len(h) :
           y.heap[i] = IF i > x.cursor /\ i <= x.cursor + Len(new)
                       THEN new[i - x.cursor] ELSE h[i]
  BY <1>1, <1>a, WrittenCells
<1>2. y \in Request BY <1>a, <1>w DEF Request
<1>3. ASSUME NEW i \in 1 .. y.cursor
      PROVE  y.heap[i] = IF i <= x.cursor THEN x.heap[i] ELSE new[i - x.cursor]
  BY <1>1, <1>a, <1>w
<1>4. ASSUME NEW i \in 1 .. y.cursor PROVE y.heap[i] \in Setting
  <2>1. CASE i <= x.cursor BY <1>3, <2>1
  <2>2. CASE i > x.cursor
    <3>1. i - x.cursor \in 1 .. Len(new) BY <1>1, <2>2
    <3> QED BY <1>3, <2>2, <3>1
  <2> QED BY <2>1, <2>2
<1>5. y \in Good BY <1>1, <1>2, <1>4, <1>a, <1>w DEF Good
<1>6. Content(x) \in Seq(Setting) /\ Len(Content(x)) = x.cursor BY ItemsAreSettings
<1>7. Content(y) \in Seq(Setting) /\ Len(Content(y)) = y.cursor BY <1>5, ItemsAreSettings
<1>8. Content(x) \o new \in Seq(Setting) /\ Len(Content(x) \o new) = y.cursor
  BY <1>1, <1>6, <1>a, ConcatProperties
<1>9. ASSUME NEW i \in 1 .. y.cursor PROVE Content(y)[i] = (Content(x) \o new)[i]
  <2>1. Content(y)[i] = IF i <= x.cursor THEN x.heap[i] ELSE new[i - x.cursor]
    BY <1>3 DEF Content
  <2>2. (Content(x) \o new)[i] = IF i <= x.cursor THEN Content(x)[i] ELSE new[i - x.cursor]
    BY <1>1, <1>6
  <2>3. i <= x.cursor => Content(x)[i] = x.heap[i] BY <1>1 DEF Content
  <2> QED BY <2>1, <2>2, <2>3
<1>10. Content(y) = Content(x) \o new BY <1>7, <1>8, <1>9, SeqEqual
<1> QED BY <1>5, <1>10
-----------------------------------------------------------------------------
AsLists == [r \in Requests |-> ListOf(req[r])]

\* One request becomes y, well formed or none: the others stay, and so do their lists.
LEMMA OneRequest ==
    ASSUME IInv, NEW r \in Requests, NEW y \in Good \union {NoReq}, Become(r, y)
    PROVE  IInv' /\ AsLists' = [AsLists EXCEPT ![r] = ListOf(y)]
<1>1. req' = [req EXCEPT ![r] = y] BY DEF Become
<1>2. req \in [Requests -> Good \union {NoReq}] BY DEF IInv
<1>3. req' \in [Requests -> Good \union {NoReq}] BY <1>1, <1>2
<1>4. \A q \in Requests : req'[q] = IF q = r THEN y ELSE req[q] BY <1>1, <1>2
<1>5. AsLists' = [q \in Requests |-> ListOf(req'[q])] BY DEF AsLists, ListOf, Content
<1>6. [AsLists EXCEPT ![r] = ListOf(y)]
        = [q \in Requests |-> IF q = r THEN ListOf(y) ELSE ListOf(req[q])]
  BY DEF AsLists
<1> QED BY <1>3, <1>4, <1>5, <1>6 DEF IInv

LEMMA GoodRequest ==
    ASSUME IInv, NEW r \in Requests, req[r] # NoReq
    PROVE  req[r] \in Good /\ AsLists[r] = Content(req[r]) /\ AsLists[r] # NoReq
<1>1. req[r] \in Good BY DEF IInv
<1>2. AsLists[r] = Content(req[r]) BY DEF AsLists, ListOf
<1>3. Content(req[r]) # NoReq
  <2>1. NoReq \notin Seq(Setting)
    BY NoReqAssumption
  <2> QED BY <1>1, <2>1, ItemsAreSettings
<1> QED BY <1>1, <1>2, <1>3

\* drmModeAtomicAlloc and drmModeAtomicFree.
LEMMA AllocStep == ASSUME IInv, NEW r \in Requests, Alloc(r) PROVE IInv' /\ List!NewList(r)
<1>1. req[r] = NoReq /\ Become(r, Empty) BY DEF Alloc
<1>2. Empty \in Good BY DEF Empty, Good, Request
<1>3. ListOf(Empty) = <<>> BY <1>2, GoodIsNot DEF ListOf, Content, Empty
<1>4. AsLists[r] = NoReq BY <1>1 DEF AsLists, ListOf
<1>5. IInv' /\ AsLists' = [AsLists EXCEPT ![r] = <<>>] BY <1>1, <1>2, <1>3, OneRequest
<1> QED BY <1>4, <1>5 DEF List!NewList, AsLists, ListOf, Content

LEMMA FreeStep == ASSUME IInv, NEW r \in Requests, Free(r) PROVE IInv' /\ List!Drop(r)
<1>1. Become(r, NoReq) BY DEF Free
<1>2. IInv' /\ AsLists' = [AsLists EXCEPT ![r] = ListOf(NoReq)] BY <1>1, OneRequest
<1> QED BY <1>2 DEF List!Drop, AsLists, ListOf, Content

\* drmModeAtomicDuplicate: the copy has the same list.
LEMMA DuplicateStep ==
    ASSUME IInv, NEW r \in Requests, NEW s \in Requests, Duplicate(r, s)
    PROVE  IInv' /\ List!Copy(r, s)
<1> DEFINE x == req[r]
<1> DEFINE h == [i \in 1 .. x.size_items |-> IF i <= x.cursor THEN x.heap[i] ELSE Zero]
<1> DEFINE y == [x EXCEPT !.heap = h]
<1>1. x # NoReq /\ req[s] = NoReq /\ Become(s, y) BY DEF Duplicate
<1>2. x \in Good /\ AsLists[r] = Content(x) /\ AsLists[r] # NoReq BY <1>1, GoodRequest
<1>3. h \in Seq(Cell) /\ Len(h) = x.size_items
  <2>1. ASSUME NEW i \in 1 .. x.size_items PROVE h[i] \in Cell
    BY <1>2, GoodIs DEF Cell
  <2>2. h \in [1 .. x.size_items -> Cell] BY <2>1
  <2>3. x.size_items \in Nat BY <1>2, GoodIs
  <2> HIDE DEF h
  <2> QED BY <2>2, <2>3, FunctionIsSeq
<1>4. /\ y = [cursor |-> x.cursor, size_items |-> x.size_items, heap |-> h]
  BY <1>2, GoodIs DEF Request
<1>5. \A i \in 1 .. x.cursor : h[i] = x.heap[i] BY <1>2, GoodIs
<1> HIDE DEF h
<1>6. y \in Good BY <1>2, <1>3, <1>4, <1>5, GoodIs DEF Good, Request
<1>7. Content(y) = Content(x) BY <1>4, <1>5 DEF Content
<1> HIDE DEF y
<1>8. ListOf(y) = AsLists[r] BY <1>2, <1>6, <1>7, GoodIsNot DEF ListOf
<1>9. AsLists[s] = NoReq BY <1>1 DEF AsLists, ListOf
<1>10. IInv' /\ AsLists' = [AsLists EXCEPT ![s] = AsLists[r]] BY <1>1, <1>6, <1>8, OneRequest
<1> QED BY <1>2, <1>9, <1>10 DEF List!Copy, AsLists, ListOf, Content

\* drmModeAtomicSetCursor: the list is cut.
LEMMA SetCursorStep ==
    ASSUME IInv, NEW r \in Requests, SetCursor(r) PROVE IInv' /\ List!Cut(r)
<1> DEFINE x == req[r]
<1>1. x # NoReq /\ \E c \in 0 .. x.cursor : Become(r, [x EXCEPT !.cursor = c])
  BY DEF SetCursor
<1>2. PICK c \in 0 .. x.cursor : Become(r, [x EXCEPT !.cursor = c]) BY <1>1
<1> DEFINE y == [x EXCEPT !.cursor = c]
<1>3. x \in Good /\ AsLists[r] = Content(x) /\ AsLists[r] # NoReq BY <1>1, GoodRequest
<1>4. y = [cursor |-> c, size_items |-> x.size_items, heap |-> x.heap]
  BY <1>3, GoodIs DEF Request
<1>5. y \in Good BY <1>3, <1>4, GoodIs DEF Good, Request
<1>6. Content(x) \in Seq(Setting) /\ Len(Content(x)) = x.cursor BY <1>3, ItemsAreSettings
<1>7. Content(y) = SubSeq(Content(x), 1, c)
  <2>1. Content(y) = [i \in 1 .. c |-> x.heap[i]] BY <1>4 DEF Content
  <2>2. \A i \in 1 .. c : Content(x)[i] = x.heap[i] BY <1>3, GoodIs DEF Content
  <2>3. SubSeq(Content(x), 1, c) = [i \in 1 .. c |-> Content(x)[i]] BY <1>3, <1>6, GoodIs
  <2> QED BY <2>1, <2>2, <2>3
<1> HIDE DEF y
<1>8. ListOf(y) = SubSeq(AsLists[r], 1, c) BY <1>3, <1>5, <1>7, GoodIsNot DEF ListOf
<1>9. IInv' /\ AsLists' = [AsLists EXCEPT ![r] = SubSeq(AsLists[r], 1, c)]
  BY <1>2, <1>5, <1>8, OneRequest DEF y
<1>10. c \in 0 .. Len(AsLists[r]) BY <1>3, <1>6
<1> QED BY <1>3, <1>9, <1>10 DEF List!Cut, AsLists, ListOf, Content

LEMMA TwoFields ==
    ASSUME NEW x \in Request, NEW c \in Nat, NEW h \in Seq(Cell)
    PROVE  [x EXCEPT !.cursor = c, !.heap = h]
             = [cursor |-> c, size_items |-> x.size_items, heap |-> h]
<1> DEFINE z == [x EXCEPT !.cursor = c]
<1>1. z = [cursor |-> c, size_items |-> x.size_items, heap |-> x.heap] BY DEF Request
<1>2. z \in Request /\ z.cursor = c /\ z.size_items = x.size_items BY <1>1 DEF Request
<1>3. [x EXCEPT !.cursor = c, !.heap = h] = [z EXCEPT !.heap = h] OBVIOUS
<1> HIDE DEF z
<1>4. [z EXCEPT !.heap = h]
        = [cursor |-> z.cursor, size_items |-> z.size_items, heap |-> h]
  BY <1>2 DEF Request
<1> QED BY <1>2, <1>3, <1>4

\* Any way to put new items behind the cursor: they are appended, or memory is short.
LEMMA PutStep ==
    ASSUME IInv, NEW r \in Requests, req[r] # NoReq, NEW new \in Seq(Setting),
           NEW needed \in BOOLEAN, NEW n \in Nat,
           Put(r, new, needed, n),
           needed => req[r].cursor + Len(new) <= n /\ req[r].size_items <= n,
           ~needed => req[r].cursor + Len(new) <= req[r].size_items
    PROVE  /\ IInv'
           /\ AsLists' = AsLists \/ AsLists' = [AsLists EXCEPT ![r] = AsLists[r] \o new]
<1> DEFINE x == req[r]
<1> DEFINE y == [cursor |-> x.cursor + Len(new), size_items |-> x.size_items,
                 heap |-> Written(x.heap, x.cursor, new)]
<1> DEFINE g == Realloc(x.heap, n)
<1> DEFINE z == [cursor |-> x.cursor + Len(new), size_items |-> n,
                 heap |-> Written(g, x.cursor, new)]
<1>1. x \in Good /\ AsLists[r] = Content(x) BY GoodRequest
<1>2. /\ x \in Request /\ x.cursor \in Nat /\ x.size_items \in Nat
      /\ x.heap \in Seq(Cell) /\ Len(x.heap) = x.size_items /\ x.cursor <= x.size_items
  BY <1>1, GoodIs
<1>3. CASE ~needed
  <2>1. Become(r, [x EXCEPT !.cursor = @ + Len(new),
                            !.heap = Written(@, x.cursor, new)])
    BY <1>3 DEF Put
  <2>2. [x EXCEPT !.cursor = @ + Len(new), !.heap = Written(@, x.cursor, new)] = y
    <3>1. x.cursor + Len(new) \in Nat BY <1>2
    <3>2. Written(x.heap, x.cursor, new) \in Seq(Cell) BY <1>2, WrittenCells
    <3> QED BY <1>2, <3>1, <3>2, TwoFields
  <2>3. y \in Good /\ Content(y) = Content(x) \o new BY <1>1, <1>2, <1>3, PutItems
  <2> HIDE DEF x, y
  <2>4. ListOf(y) = AsLists[r] \o new BY <1>1, <2>3, GoodIsNot DEF ListOf
  <2> QED BY <2>1, <2>2, <2>3, <2>4, OneRequest
<1>4. CASE needed /\ Become(r, z)
  <2>1. g \in [1 .. n -> Cell] /\ \A i \in 1 .. x.cursor : g[i] = x.heap[i]
    <3>1. g = [i \in 1 .. n |-> IF i <= Len(x.heap) THEN x.heap[i] ELSE Junk]
      BY DEF Realloc
    <3>2. ASSUME NEW i \in 1 .. n PROVE g[i] \in Cell BY <1>2, <3>1 DEF Cell
    <3> QED BY <1>2, <1>4, <3>1, <3>2
  <2> HIDE DEF g
  <2>2. g \in Seq(Cell) /\ Len(g) = n BY <2>1, FunctionIsSeq
  <2>3. z \in Good /\ Content(z) = Content(x) \o new BY <1>1, <1>4, <2>1, <2>2, PutItems
  <2> HIDE DEF x, z
  <2>4. ListOf(z) = AsLists[r] \o new BY <1>1, <2>3, GoodIsNot DEF ListOf
  <2> QED BY <1>4, <2>3, <2>4, OneRequest
<1>5. CASE Become(r, [x EXCEPT !.size_items = PutBack(r, n)])
  <2>1. [x EXCEPT !.size_items = PutBack(r, n)] = x BY <1>2 DEF PutBack, Request
  <2> HIDE DEF x
  <2>2. Become(r, x) BY <1>5, <2>1
  <2>3. IInv' /\ AsLists' = [AsLists EXCEPT ![r] = ListOf(x)] BY <1>1, <2>2, OneRequest
  <2>4. ListOf(x) = AsLists[r] BY DEF AsLists, x
  <2>5. [AsLists EXCEPT ![r] = AsLists[r]] = AsLists BY DEF AsLists
  <2> QED BY <2>3, <2>4, <2>5
<1> QED BY <1>3, <1>4, <1>5 DEF Put

\* drmModeAtomicAddProperty.
LEMMA AddStep ==
    ASSUME IInv, NEW r \in Requests, NEW e \in Item, AddProperty(r, e)
    PROVE  IInv' /\ (AsLists' = AsLists \/ List!Grow(r, e)) /\ e \in Setting
<1> DEFINE new == [i \in 1 .. 1 |-> e]
<1> DEFINE n == req[r].size_items + Inc
<1> DEFINE needed == req[r].cursor >= req[r].size_items
<1>1. req[r] # NoReq /\ e.obj # 0 /\ e.prop # 0 /\ Put(r, new, needed, n)
  BY DEF AddProperty
<1>2. e \in Setting BY <1>1 DEF Item, Setting
<1>3. new \in Seq(Setting) /\ Len(new) = 1 BY <1>2, FunctionIsSeq
<1>4. req[r] \in Good /\ AsLists[r] = Content(req[r]) /\ AsLists[r] # NoReq BY <1>1, GoodRequest
<1>5. req[r].cursor \in Nat /\ req[r].size_items \in Nat
      /\ req[r].cursor <= req[r].size_items /\ Inc \in Nat /\ Inc >= 1
  BY <1>4, GoodIs, DrmAtomicAssumption DEF DrmAtomicAssumption
<1>6. needed => req[r].cursor + 1 <= n /\ req[r].size_items <= n BY <1>5
<1>7. ~needed => req[r].cursor + 1 <= req[r].size_items BY <1>5
<1>8. n \in Nat /\ needed \in BOOLEAN BY <1>5
<1>9. new = <<e>> BY <1>3
<1> HIDE DEF new, n, needed
<1>10. IInv' /\ (AsLists' = AsLists \/ AsLists' = [AsLists EXCEPT ![r] = AsLists[r] \o new])
  BY <1>1, <1>3, <1>6, <1>7, <1>8, PutStep
<1>11. AsLists[r] \in Seq(Setting) BY <1>4, ItemsAreSettings
<1>12. AsLists[r] \o new = Append(AsLists[r], e) BY <1>9, <1>11, <1>2, AppendIsConcat
<1>13. ASSUME AsLists' = [AsLists EXCEPT ![r] = Append(AsLists[r], e)] PROVE List!Grow(r, e)
  BY <1>4, <1>13 DEF List!Grow, AsLists, ListOf, Content
<1> QED BY <1>2, <1>10, <1>12, <1>13

\* drmModeAtomicMerge.
LEMMA MergeStep ==
    ASSUME IInv, NEW r \in Requests, NEW s \in Requests, Merge(r, s)
    PROVE  IInv' /\ (AsLists' = AsLists \/ List!Join(r, s))
<1> DEFINE new == [i \in 1 .. req[s].cursor |-> req[s].heap[i]]
<1> DEFINE n == req[r].cursor + req[s].cursor
<1> DEFINE needed == n >= req[r].size_items
<1>1. req[r] # NoReq /\ req[s] # NoReq /\ Put(r, new, needed, n) BY DEF Merge
<1>2. req[s] \in Good /\ AsLists[s] = Content(req[s]) /\ AsLists[s] # NoReq BY <1>1, GoodRequest
<1>3. req[r] \in Good /\ AsLists[r] # NoReq BY <1>1, GoodRequest
<1>4. new = AsLists[s] BY <1>2 DEF Content
<1>5. new \in Seq(Setting) /\ Len(new) = req[s].cursor BY <1>2, <1>4, ItemsAreSettings
<1>6. req[r].cursor \in Nat /\ req[r].size_items \in Nat /\ req[s].cursor \in Nat
  BY <1>2, <1>3, GoodIs
<1>7. n \in Nat /\ needed \in BOOLEAN BY <1>6
<1>8. needed => n <= n /\ req[r].size_items <= n BY <1>6
<1>9. ~needed => n <= req[r].size_items BY <1>6
<1>10. req[r].cursor + Len(new) = n BY <1>5
<1> HIDE DEF new, n, needed
<1>11. IInv' /\ (AsLists' = AsLists \/ AsLists' = [AsLists EXCEPT ![r] = AsLists[r] \o new])
  BY <1>1, <1>5, <1>7, <1>8, <1>9, <1>10, PutStep
<1>12. ASSUME AsLists' = [AsLists EXCEPT ![r] = AsLists[r] \o AsLists[s]] PROVE List!Join(r, s)
  BY <1>2, <1>3, <1>12 DEF List!Join, AsLists, ListOf, Content
<1> QED BY <1>4, <1>11, <1>12
-----------------------------------------------------------------------------
LEMMA InitGood == ASSUME Init PROVE IInv /\ List!ListInit
<1>1. req = [r \in Requests |-> NoReq] BY DEF Init
<1>2. IInv BY <1>1 DEF IInv
<1>3. List!ListInit BY <1>1 DEF List!ListInit
<1> QED BY <1>2, <1>3

LEMMA NextGood ==
    ASSUME IInv, Next PROVE IInv' /\ (List!ListNext \/ AsLists' = AsLists)
<1>1. PICK r \in Requests :
        \/ Alloc(r) \/ Free(r) \/ SetCursor(r)
        \/ \E e \in Item : AddProperty(r, e)
        \/ \E s \in Requests : Duplicate(r, s) \/ Merge(r, s)
  BY DEF Next
<1>2. CASE Alloc(r) BY <1>2, AllocStep DEF List!ListNext
<1>3. CASE Free(r) BY <1>3, FreeStep DEF List!ListNext
<1>4. CASE SetCursor(r) BY <1>4, SetCursorStep DEF List!ListNext
<1>5. CASE \E e \in Item : AddProperty(r, e) BY <1>5, AddStep DEF List!ListNext
<1>6. CASE \E s \in Requests : Duplicate(r, s) \/ Merge(r, s)
  BY <1>6, DuplicateStep, MergeStep DEF List!ListNext
<1> QED BY <1>1, <1>2, <1>3, <1>4, <1>5, <1>6

LEMMA StutterGood == ASSUME IInv, UNCHANGED req PROVE IInv' /\ AsLists' = AsLists
BY DEF IInv, AsLists, ListOf, Content

LEMMA GoodIsTypeOK == ASSUME IInv PROVE TypeOK
BY GoodRequest, GoodIs DEF TypeOK

\* A request's array is as large as it thinks, its cursor is inside, and what is
\* below the cursor was set.
THEOREM TypeCorrect == Spec => []TypeOK
<1>1. Init => IInv BY InitGood
<1>2. IInv /\ [Next]_req => IInv' BY NextGood, StutterGood
<1>3. IInv => TypeOK BY GoodIsTypeOK
<1> QED BY <1>1, <1>2, <1>3, PTL DEF Spec

\* Requests are lists, with or without memory.
THEOREM RequestsAreLists == Spec => IsList
<1>1. Init => IInv /\ List!ListInit BY InitGood
<1>2. IInv /\ [Next]_req => IInv' /\ [List!ListNext]_AsLists
  BY NextGood, StutterGood
<1> QED BY <1>1, <1>2, PTL DEF Spec, IsList, List!ListSpec, AsLists, ListOf, Content

-----------------------------------------------------------------------------
(***************************************************************************)
(* drmHash: a mapping, whatever the look-ups do to its lists, and what an  *)
(* iteration returns of it.  First one list on its own: where a key is in  *)
(* it, and how that changes when a bucket moves to the top, goes or comes. *)
(***************************************************************************)
Bucket == [key : Keys, val : Vals]

GoodList(L, h) ==
    /\ L \in Seq(Bucket)
    /\ \A i, j \in DOMAIN L : Hash[L[i].key] = h /\ (L[i].key = L[j].key => i = j)

KeyIn(L, k) == \E i \in DOMAIN L : L[i].key = k
Pos(L, k) == CHOOSE i \in DOMAIN L : L[i].key = k

LEMMA PosOf ==
    ASSUME NEW L, NEW k, KeyIn(L, k)
    PROVE  Pos(L, k) \in DOMAIN L /\ L[Pos(L, k)].key = k
  BY DEF KeyIn, Pos

LEMMA PosIs ==
    ASSUME NEW h, NEW L, GoodList(L, h), NEW i \in DOMAIN L
    PROVE  KeyIn(L, L[i].key) /\ Pos(L, L[i].key) = i
  BY PosOf DEF KeyIn, GoodList

\* A list without its bucket i.
LEMMA Without ==
    ASSUME NEW S, NEW L \in Seq(S), NEW i \in DOMAIN L
    PROVE  LET W == RemoveAt(L, i)
           IN  /\ W \in Seq(S) /\ Len(W) = Len(L) - 1
               /\ \A j \in 1 .. Len(W) : W[j] = IF j < i THEN L[j] ELSE L[j + 1]
<1> DEFINE Lower == SubSeq(L, 1, i - 1)
           Upper == SubSeq(L, i + 1, Len(L))
<1>1. Len(L) \in Nat /\ DOMAIN L = 1 .. Len(L) /\ \A j \in 1 .. Len(L) : L[j] \in S
  BY LenProperties
<1>2. i \in 1 .. Len(L)
  BY <1>1
<1>3. Lower \in Seq(S) /\ Len(Lower) = i - 1 /\ \A j \in 1 .. i - 1 : Lower[j] = L[j]
  <2>1. 1 \in Int /\ i - 1 \in Int /\ \A j \in 1 .. i - 1 : L[j] \in S
    BY <1>1, <1>2
  <2>2. /\ Lower \in Seq(S) /\ Len(Lower) = IF 1 <= i - 1 THEN i - 1 - 1 + 1 ELSE 0
        /\ \A j \in 1 .. i - 1 - 1 + 1 : Lower[j] = L[1 + j - 1]
    BY <2>1, SubSeqProperties
  <2> HIDE DEF Lower
  <2>3. Len(Lower) = i - 1 /\ 1 .. i - 1 - 1 + 1 = 1 .. i - 1
    BY <1>2, <2>2
  <2>4. \A j \in 1 .. i - 1 : 1 + j - 1 = j
    BY <1>2
  <2>. QED
    BY <2>2, <2>3, <2>4
<1>4. Upper \in Seq(S) /\ Len(Upper) = Len(L) - i /\ \A j \in 1 .. Len(L) - i : Upper[j] = L[i + j]
  <2>1. i + 1 \in Int /\ Len(L) \in Int /\ \A j \in i + 1 .. Len(L) : L[j] \in S
    BY <1>1, <1>2
  <2>2. /\ Upper \in Seq(S) /\ Len(Upper) = IF i + 1 <= Len(L) THEN Len(L) - (i + 1) + 1 ELSE 0
        /\ \A j \in 1 .. Len(L) - (i + 1) + 1 : Upper[j] = L[(i + 1) + j - 1]
    BY <2>1, SubSeqProperties
  <2> HIDE DEF Upper
  <2>3. Len(Upper) = Len(L) - i /\ 1 .. Len(L) - (i + 1) + 1 = 1 .. Len(L) - i
    BY <1>1, <1>2, <2>2
  <2>4. \A j \in 1 .. Len(L) - i : (i + 1) + j - 1 = i + j
    BY <1>1, <1>2
  <2>. QED
    BY <2>2, <2>3, <2>4
<1> DEFINE W == Lower \o Upper
<1>5. RemoveAt(L, i) = W
  BY DEF RemoveAt
<1> HIDE DEF Lower, Upper
<1>6. /\ W \in Seq(S) /\ Len(W) = Len(Lower) + Len(Upper)
      /\ \A j \in 1 .. Len(Lower) + Len(Upper) :
           W[j] = IF j <= Len(Lower) THEN Lower[j] ELSE Upper[j - Len(Lower)]
  BY <1>3, <1>4, ConcatProperties
<1> HIDE DEF W
<1>7. Len(W) = Len(L) - 1
  BY <1>1, <1>2, <1>3, <1>4, <1>6
<1>8. ASSUME NEW j \in 1 .. Len(W)
      PROVE  W[j] = IF j < i THEN L[j] ELSE L[j + 1]
  <2>1. CASE j < i
    BY <1>1, <1>2, <1>3, <1>4, <1>6, <1>7, <2>1
  <2>2. CASE ~(j < i)
    <3>1. W[j] = Upper[j - (i - 1)]
      BY <1>1, <1>2, <1>3, <1>4, <1>6, <1>7, <2>2
    <3>2. j - (i - 1) \in 1 .. Len(L) - i
      BY <1>1, <1>2, <1>7, <2>2
    <3>3. i + (j - (i - 1)) = j + 1
      BY <1>2
    <3>. QED
      BY <1>4, <2>2, <3>1, <3>2, <3>3
  <2>. QED
    BY <2>1, <2>2
<1>. QED
  BY <1>5, <1>6, <1>7, <1>8

\* A bucket in front of a list.
LEMMA InFront ==
    ASSUME NEW S, NEW L \in Seq(S), NEW b \in S
    PROVE  LET F == <<b>> \o L
           IN  /\ F \in Seq(S) /\ Len(F) = Len(L) + 1 /\ F # <<>>
               /\ F[1] = b /\ \A j \in 1 .. Len(L) : F[j + 1] = L[j]
               /\ Tail(F) = L
<1> DEFINE F == <<b>> \o L
<1>1. <<b>> \in Seq(S) /\ Len(<<b>>) = 1 /\ <<b>>[1] = b /\ Len(L) \in Nat
  BY LenProperties
<1>2. /\ F \in Seq(S) /\ Len(F) = Len(L) + 1
      /\ \A j \in 1 .. 1 + Len(L) : F[j] = IF j <= 1 THEN <<b>>[j] ELSE L[j - 1]
  BY <1>1, ConcatProperties
<1> HIDE DEF F
<1>3. F # <<>> /\ F[1] = b
  BY <1>1, <1>2
<1>4. ASSUME NEW j \in 1 .. Len(L)
      PROVE  F[j + 1] = L[j]
  <2>1. j + 1 \in 1 .. 1 + Len(L) /\ ~(j + 1 <= 1) /\ (j + 1) - 1 = j
    BY <1>1
  <2>. QED
    BY <1>2, <2>1
<1>5. /\ Tail(F) \in Seq(S) /\ Len(Tail(F)) = Len(F) - 1
      /\ \A j \in 1 .. Len(Tail(F)) : Tail(F)[j] = F[j + 1]
  BY <1>2, <1>3, HeadTailProperties
<1>6. Len(Tail(F)) = Len(L)
  BY <1>1, <1>2, <1>5
<1>7. Tail(F) = L
  BY <1>4, <1>5, <1>6, SeqEqual
<1>. QED
  BY <1>2, <1>3, <1>4, <1>7 DEF F

IsFronted(F, L, b) ==
    /\ Range(F) = Range(L) \union {b}
    /\ \A j : KeyIn(F, j) <=> KeyIn(L, j) \/ j = b.key
    /\ Pos(F, b.key) = 1 /\ F[1] = b
    /\ \A j : KeyIn(L, j) => Pos(F, j) = Pos(L, j) + 1 /\ F[Pos(F, j)] = L[Pos(L, j)]

LEMMA Fronted ==
    ASSUME NEW h, NEW L, GoodList(L, h), NEW b \in Bucket, Hash[b.key] = h, ~KeyIn(L, b.key)
    PROVE  GoodList(<<b>> \o L, h) /\ IsFronted(<<b>> \o L, L, b)
<1> DEFINE F == <<b>> \o L
<1>1. L \in Seq(Bucket)
  BY DEF GoodList
<1>2. /\ F \in Seq(Bucket) /\ Len(F) = Len(L) + 1
      /\ F[1] = b /\ \A j \in 1 .. Len(L) : F[j + 1] = L[j]
  BY <1>1, InFront
<1>3. Len(L) \in Nat /\ DOMAIN L = 1 .. Len(L) /\ DOMAIN F = 1 .. Len(L) + 1
  BY <1>1, <1>2, LenProperties
<1> HIDE DEF F
<1>4. \A i \in DOMAIN F : i = 1 \/ (i - 1 \in DOMAIN L /\ F[i] = L[i - 1])
  <2> SUFFICES ASSUME NEW i \in DOMAIN F, i # 1
               PROVE  i - 1 \in DOMAIN L /\ F[i] = L[i - 1]
    OBVIOUS
  <2>1. i - 1 \in 1 .. Len(L) /\ (i - 1) + 1 = i
    BY <1>3
  <2>. QED
    BY <1>2, <1>3, <2>1
<1>5. GoodList(F, h)
  <2> SUFFICES ASSUME NEW i \in DOMAIN F, NEW j \in DOMAIN F
               PROVE  Hash[F[i].key] = h /\ (F[i].key = F[j].key => i = j)
    BY <1>2 DEF GoodList
  <2>1. \A n \in DOMAIN L : Hash[L[n].key] = h /\ L[n].key # b.key
    BY DEF GoodList, KeyIn
  <2>2. i - 1 \in DOMAIN L /\ j - 1 \in DOMAIN L /\ L[i - 1].key = L[j - 1].key
          => i - 1 = j - 1
    BY DEF GoodList
  <2>3. i \in Int /\ j \in Int
    BY <1>3
  <2>. QED
    BY <1>2, <1>4, <2>1, <2>2, <2>3
<1>6. Range(F) = Range(L) \union {b}
  <2>1. \A i \in DOMAIN L : i + 1 \in DOMAIN F /\ F[i + 1] = L[i]
    BY <1>2, <1>3
  <2>2. 1 \in DOMAIN F
    BY <1>3
  <2>3. \A x \in Range(F) : x \in Range(L) \union {b}
    BY <1>2, <1>4 DEF Range
  <2>4. \A x \in Range(L) \union {b} : x \in Range(F)
    BY <1>2, <2>1, <2>2 DEF Range
  <2>. QED
    BY <2>3, <2>4
<1>7. \A j : KeyIn(L, j) => /\ Pos(F, j) = Pos(L, j) + 1 /\ KeyIn(F, j)
                           /\ F[Pos(F, j)] = L[Pos(L, j)]
  <2> SUFFICES ASSUME NEW j, KeyIn(L, j)
               PROVE  /\ Pos(F, j) = Pos(L, j) + 1 /\ KeyIn(F, j)
                      /\ F[Pos(F, j)] = L[Pos(L, j)]
    OBVIOUS
  <2> DEFINE i == Pos(L, j)
  <2>1. i \in 1 .. Len(L) /\ L[i].key = j
    BY <1>3, PosOf
  <2>2. i + 1 \in DOMAIN F /\ F[i + 1] = L[i]
    BY <1>2, <1>3, <2>1
  <2> HIDE DEF i
  <2>3. Pos(F, F[i + 1].key) = i + 1 /\ KeyIn(F, F[i + 1].key)
    BY <1>5, <2>2, PosIs
  <2>. QED
    BY <2>1, <2>2, <2>3 DEF i
<1>8. KeyIn(F, b.key) /\ Pos(F, b.key) = 1
  <2>1. 1 \in DOMAIN F
    BY <1>3
  <2>. QED
    BY <1>2, <1>5, <2>1, PosIs
<1>9. \A j : KeyIn(F, j) => KeyIn(L, j) \/ j = b.key
  BY <1>2, <1>4 DEF KeyIn
<1>. QED
  BY <1>2, <1>5, <1>6, <1>7, <1>8, <1>9 DEF F, IsFronted

IsDropped(D, L, k) ==
    /\ Range(D) = Range(L) \ {L[Pos(L, k)]}
    /\ \A j : KeyIn(D, j) <=> KeyIn(L, j) /\ j # k
    /\ \A j : KeyIn(D, j) =>
          /\ D[Pos(D, j)] = L[Pos(L, j)]
          /\ Pos(D, j) = IF Pos(L, j) < Pos(L, k) THEN Pos(L, j) ELSE Pos(L, j) - 1

LEMMA Dropped ==
    ASSUME NEW h, NEW L, GoodList(L, h), NEW k, KeyIn(L, k)
    PROVE  GoodList(RemoveAt(L, Pos(L, k)), h) /\ IsDropped(RemoveAt(L, Pos(L, k)), L, k)
<1> DEFINE i == Pos(L, k)
           D == RemoveAt(L, i)
           Old(j) == IF j < i THEN j ELSE j + 1
<1>1. L \in Seq(Bucket) /\ i \in DOMAIN L /\ L[i].key = k
  BY PosOf DEF GoodList
<1>2. /\ D \in Seq(Bucket) /\ Len(D) = Len(L) - 1
      /\ \A j \in 1 .. Len(D) : D[j] = IF j < i THEN L[j] ELSE L[j + 1]
  <2> HIDE DEF i
  <2>. QED
    BY <1>1, Without
<1>3. /\ Len(L) \in Nat /\ DOMAIN L = 1 .. Len(L)
      /\ DOMAIN D = 1 .. Len(L) - 1 /\ Len(D) = Len(L) - 1
  <2> HIDE DEF D
  <2>. QED
    BY <1>1, <1>2, LenProperties
<1> HIDE DEF D, i
<1>4. \A j \in DOMAIN D : Old(j) \in DOMAIN L /\ D[j] = L[Old(j)] /\ Old(j) # i
  BY <1>1, <1>2, <1>3
<1>5. \A n \in DOMAIN L : n # i =>
        \E j \in DOMAIN D : D[j] = L[n] /\ j = IF n < i THEN n ELSE n - 1
  <2> SUFFICES ASSUME NEW n \in DOMAIN L, n # i
               PROVE  LET j == IF n < i THEN n ELSE n - 1
                      IN  j \in DOMAIN D /\ D[j] = L[n]
    OBVIOUS
  <2>1. CASE n < i
    <3>1. n \in DOMAIN D
      BY <1>1, <1>3, <2>1
    <3>. QED
      BY <1>2, <1>3, <2>1, <3>1
  <2>2. CASE ~(n < i)
    <3>1. n - 1 \in DOMAIN D /\ ~(n - 1 < i) /\ (n - 1) + 1 = n
      BY <1>1, <1>3, <2>2
    <3>. QED
      BY <1>2, <1>3, <2>2, <3>1
  <2>. QED
    BY <2>1, <2>2
<1>6. GoodList(D, h)
  <2> SUFFICES ASSUME NEW m \in DOMAIN D, NEW j \in DOMAIN D
               PROVE  Hash[D[m].key] = h /\ (D[m].key = D[j].key => m = j)
    BY <1>2 DEF GoodList
  <2>1. /\ Old(m) \in DOMAIN L /\ Old(j) \in DOMAIN L
        /\ D[m] = L[Old(m)] /\ D[j] = L[Old(j)]
    BY <1>4
  <2>2. Hash[D[m].key] = h /\ (D[m].key = D[j].key => Old(m) = Old(j))
    BY <2>1 DEF GoodList
  <2>3. Old(m) = Old(j) => m = j
    BY <1>1, <1>3
  <2>. QED
    BY <2>2, <2>3
<1>7. \A n \in DOMAIN L : L[n] = L[i] => n = i
  BY <1>1 DEF GoodList
<1>8. Range(D) = Range(L) \ {L[i]}
  <2>1. \A x \in Range(D) : x \in Range(L) \ {L[i]}
    BY <1>4, <1>7 DEF Range
  <2>2. \A x \in Range(L) \ {L[i]} : x \in Range(D)
    BY <1>5 DEF Range
  <2>. QED
    BY <2>1, <2>2
<1>9. ASSUME NEW j, KeyIn(D, j)
      PROVE  KeyIn(L, j) /\ j # k
  <2>1. PICK m \in DOMAIN D : D[m].key = j
    BY <1>9 DEF KeyIn
  <2>. QED
    BY <1>1, <1>4, <2>1 DEF KeyIn, GoodList
<1>10. ASSUME NEW j, KeyIn(L, j), j # k
       PROVE  /\ KeyIn(D, j) /\ D[Pos(D, j)] = L[Pos(L, j)]
              /\ Pos(D, j) = IF Pos(L, j) < i THEN Pos(L, j) ELSE Pos(L, j) - 1
  <2> DEFINE n == Pos(L, j)
  <2>1. n \in DOMAIN L /\ L[n].key = j
    BY <1>10, PosOf
  <2>2. n # i
    BY <1>1, <1>10, <2>1
  <2> HIDE DEF n
  <2>3. PICK m \in DOMAIN D : D[m] = L[n] /\ m = IF n < i THEN n ELSE n - 1
    BY <1>5, <2>1, <2>2
  <2>4. KeyIn(D, D[m].key) /\ Pos(D, D[m].key) = m
    BY <1>6, PosIs
  <2>. QED
    BY <2>1, <2>3, <2>4 DEF n
<1>. QED
  BY <1>6, <1>8, <1>9, <1>10 DEF D, i, IsDropped

\* What HashFind makes of a list.
Moved(L, k) == IF KeyIn(L, k) THEN <<L[Pos(L, k)]>> \o RemoveAt(L, Pos(L, k)) ELSE L

IsMoved(N, L, k) ==
    /\ Range(N) = Range(L)
    /\ \A j : KeyIn(N, j) <=> KeyIn(L, j)
    /\ \A j : KeyIn(L, j) => N[Pos(N, j)] = L[Pos(L, j)]
    /\ KeyIn(L, k) =>
          /\ Tail(N) = RemoveAt(L, Pos(L, k))
          /\ \A j : KeyIn(L, j) =>
                Pos(N, j) = IF j = k THEN 1
                            ELSE IF Pos(L, j) < Pos(L, k) THEN Pos(L, j) + 1
                            ELSE Pos(L, j)

LEMMA MovedUp ==
    ASSUME NEW h, NEW L, GoodList(L, h), NEW k
    PROVE  GoodList(Moved(L, k), h) /\ IsMoved(Moved(L, k), L, k)
<1> DEFINE N == Moved(L, k)
           b == L[Pos(L, k)]
           D == RemoveAt(L, Pos(L, k))
<1>1. CASE ~KeyIn(L, k)
  BY <1>1 DEF Moved, IsMoved
<1>2. CASE KeyIn(L, k)
  <2>1. N = <<b>> \o D
    BY <1>2 DEF Moved
  <2>2. b \in Bucket /\ Hash[b.key] = h /\ b.key = k /\ b \in Range(L)
    <3>1. L \in Seq(Bucket) /\ Pos(L, k) \in DOMAIN L /\ L[Pos(L, k)].key = k
      BY <1>2, PosOf DEF GoodList
    <3>. QED
      BY <3>1, LenProperties DEF GoodList, Range
  <2>3. /\ GoodList(D, h) /\ Range(D) = Range(L) \ {b}
        /\ \A j : KeyIn(D, j) <=> KeyIn(L, j) /\ j # k
        /\ \A j : KeyIn(D, j) =>
              /\ D[Pos(D, j)] = L[Pos(L, j)]
              /\ Pos(D, j) = IF Pos(L, j) < Pos(L, k) THEN Pos(L, j) ELSE Pos(L, j) - 1
    BY <1>2, Dropped DEF IsDropped
  <2> HIDE DEF D, b, N
  <2>0. ~KeyIn(D, b.key)
    BY <2>2, <2>3
  <2>4. /\ GoodList(N, h) /\ Range(N) = Range(D) \union {b}
        /\ \A j : KeyIn(N, j) <=> KeyIn(D, j) \/ j = b.key
        /\ Pos(N, b.key) = 1 /\ N[1] = b
        /\ \A j : KeyIn(D, j) => Pos(N, j) = Pos(D, j) + 1 /\ N[Pos(N, j)] = D[Pos(D, j)]
    <3>1. GoodList(D, h) /\ b \in Bucket /\ Hash[b.key] = h /\ ~KeyIn(D, b.key)
      BY <2>0, <2>2, <2>3
    <3>2. GoodList(<<b>> \o D, h) /\ IsFronted(<<b>> \o D, D, b)
      BY <3>1, Fronted, Zenon
    <3>. QED
      BY <2>1, <3>2 DEF IsFronted
  <2>5. Tail(N) = D
    <3>1. D \in Seq(Bucket)
      BY <2>3 DEF GoodList
    <3>. QED
      BY <2>1, <2>2, <3>1, InFront
  <2>6. \A j : KeyIn(L, j) => Pos(L, j) \in Int
    <3>1. DOMAIN L = 1 .. Len(L)
      BY LenProperties DEF GoodList
    <3>. QED
      BY <3>1, PosOf
  <2>7. Range(N) = Range(L)
    BY <2>2, <2>3, <2>4
  <2>8. \A j : KeyIn(N, j) <=> KeyIn(L, j)
    BY <1>2, <2>2, <2>3, <2>4
  <2>9. ASSUME NEW j, KeyIn(L, j)
        PROVE  /\ N[Pos(N, j)] = L[Pos(L, j)]
               /\ Pos(N, j) = IF j = k THEN 1
                              ELSE IF Pos(L, j) < Pos(L, k) THEN Pos(L, j) + 1
                              ELSE Pos(L, j)
    <3>1. CASE j = k
      BY <2>2, <2>4, <3>1 DEF b
    <3>2. CASE j # k
      BY <1>2, <2>3, <2>4, <2>6, <2>9, <3>2
    <3>. QED
      BY <3>1, <3>2
  <2>. QED
    BY <2>4, <2>5, <2>7, <2>8, <2>9 DEF N, D, IsMoved
<1>. QED
  BY <1>1, <1>2

-----------------------------------------------------------------------------
(***************************************************************************)
(* The table: which keys it has, where and with what, and its calls.       *)
(***************************************************************************)
Table(b) == b \in [Lists -> Seq(Bucket)] /\ \A h \in Lists : GoodList(b[h], h)

In(b, k) == KeyIn(b[Hash[k]], k)
Place(b, k) == Pos(b[Hash[k]], k)
BucketOf(b, k) == b[Hash[k]][Place(b, k)]
All(b) == {BucketOf(b, k) : k \in {j \in Keys : In(b, j)}}

LEMMA HashRange ==
    /\ Hash \in [Keys -> 0 .. (HashSize - 1)]
    /\ \A k \in Keys : Hash[k] \in Lists
    /\ Lists \subseteq 0 .. (HashSize - 1)
  BY HashAssumption DEF Hash, Lists

LEMMA EntryIs ==
    ASSUME NEW b, Table(b), NEW k \in Keys, In(b, k)
    PROVE  /\ BucketOf(b, k) \in Bucket /\ BucketOf(b, k).key = k
           /\ Place(b, k) \in 1 .. Len(b[Hash[k]])
<1>1. b[Hash[k]] \in Seq(Bucket)
  BY HashRange DEF Table
<1>2. Place(b, k) \in DOMAIN b[Hash[k]] /\ BucketOf(b, k).key = k
  BY PosOf DEF In, Place, BucketOf
<1>. QED
  BY <1>1, <1>2, LenProperties DEF BucketOf

\* Whatever is in a list is the entry of its key.
LEMMA ListEntry ==
    ASSUME NEW b, Table(b), NEW h \in Lists, NEW i \in DOMAIN b[h]
    PROVE  /\ b[h][i].key \in Keys /\ Hash[b[h][i].key] = h /\ In(b, b[h][i].key)
           /\ Place(b, b[h][i].key) = i /\ BucketOf(b, b[h][i].key) = b[h][i]
<1>1. GoodList(b[h], h) /\ b[h] \in Seq(Bucket)
  BY DEF Table
<1>2. b[h][i] \in Bucket
  BY <1>1, LenProperties
<1>3. KeyIn(b[h], b[h][i].key) /\ Pos(b[h], b[h][i].key) = i /\ Hash[b[h][i].key] = h
  BY <1>1, PosIs DEF GoodList
<1>. QED
  BY <1>2, <1>3 DEF In, Place, BucketOf, Bucket

LEMMA ContentsAre ==
    ASSUME NEW b, Table(b)
    PROVE  UNION {Range(b[h]) : h \in Lists} = All(b)
<1>1. ASSUME NEW h \in Lists, NEW x \in Range(b[h])
      PROVE  x \in All(b)
  <2>1. PICK i \in DOMAIN b[h] : x = b[h][i]
    BY DEF Range
  <2>. QED
    BY <2>1, ListEntry DEF All
<1>2. ASSUME NEW k \in Keys, In(b, k)
      PROVE  BucketOf(b, k) \in Range(b[Hash[k]])
  <2>1. b[Hash[k]] \in Seq(Bucket)
    BY HashRange DEF Table
  <2>2. Place(b, k) \in DOMAIN b[Hash[k]]
    BY <1>2, PosOf DEF In, Place
  <2>. QED
    BY <2>2 DEF BucketOf, Range
<1>. QED
  BY <1>1, <1>2, HashRange DEF All

\* A new list takes the place of the old one.
IsReplaced(c, b, h, N) ==
    \A k \in Keys :
        /\ Hash[k] # h => /\ In(c, k) <=> In(b, k)
                          /\ Place(c, k) = Place(b, k) /\ BucketOf(c, k) = BucketOf(b, k)
        /\ Hash[k] = h => /\ In(c, k) <=> KeyIn(N, k)
                          /\ Place(c, k) = Pos(N, k) /\ BucketOf(c, k) = N[Pos(N, k)]

LEMMA NewList ==
    ASSUME NEW b, Table(b), NEW h \in Lists, NEW N, GoodList(N, h), NEW c,
           c = [b EXCEPT ![h] = N]
    PROVE  Table(c) /\ IsReplaced(c, b, h, N)
<1>1. c[h] = N /\ \A g \in Lists \ {h} : c[g] = b[g]
  BY DEF Table
<1>2. Table(c)
  BY <1>1 DEF Table, GoodList
<1>. QED
  BY <1>1, <1>2, HashRange DEF In, Place, BucketOf, IsReplaced

Sameness(c, b) == \A j \in Keys : (In(c, j) <=> In(b, j)) /\ (In(b, j) => BucketOf(c, j) = BucketOf(b, j))

\* A look-up leaves every entry as it is, and moves one.
LookedUpIn(c, b, k) ==
    /\ ~In(b, k) => c = b
    /\ In(b, k) => \A j \in Keys : In(b, j) =>
         Place(c, j) = IF Hash[j] # Hash[k] THEN Place(b, j)
                       ELSE IF j = k THEN 1
                       ELSE IF Place(b, j) < Place(b, k) THEN Place(b, j) + 1
                       ELSE Place(b, j)

LEMMA LookedUp ==
    ASSUME NEW b, Table(b), NEW k \in Keys, NEW c,
           c = [b EXCEPT ![Hash[k]] = Moved(b[Hash[k]], k)]
    PROVE  Table(c) /\ Sameness(c, b) /\ LookedUpIn(c, b, k)
<1> DEFINE h == Hash[k]
           N == Moved(b[h], k)
<1>1. h \in Lists /\ GoodList(b[h], h)
  BY HashRange DEF Table
<1>2. GoodList(N, h) /\ IsMoved(N, b[h], k)
  BY <1>1, MovedUp
<1>3. ~In(b, k) => c = b
  BY <1>1 DEF In, Moved, Table
<1> HIDE DEF N
<1>4. Table(c) /\ IsReplaced(c, b, h, N)
  <2>1. c = [b EXCEPT ![h] = N]
    BY DEF N
  <2> HIDE DEF h
  <2>. QED
    BY <1>1, <1>2, <2>1, NewList
<1>. QED
  BY <1>2, <1>3, <1>4 DEF IsReplaced, IsMoved, Sameness, LookedUpIn, In, Place, BucketOf

\* A deletion takes one entry away.
TakenFrom(c, b, k) ==
    /\ \A j \in Keys : In(c, j) <=> In(b, j) /\ j # k
    /\ \A j \in Keys : In(c, j) =>
          /\ BucketOf(c, j) = BucketOf(b, j)
          /\ Place(c, j) = IF Hash[j] = Hash[k] /\ ~(Place(b, j) < Place(b, k))
                           THEN Place(b, j) - 1 ELSE Place(b, j)

LEMMA TakenAway ==
    ASSUME NEW b, Table(b), NEW k \in Keys, In(b, k), NEW c,
           c = [b EXCEPT ![Hash[k]] = Tail(Moved(b[Hash[k]], k))]
    PROVE  Table(c) /\ TakenFrom(c, b, k)
<1> DEFINE h == Hash[k]
           N == RemoveAt(b[h], Pos(b[h], k))
<1>1. h \in Lists /\ GoodList(b[h], h) /\ KeyIn(b[h], k)
  BY HashRange DEF Table, In
<1>2. GoodList(N, h) /\ IsDropped(N, b[h], k)
  BY <1>1, Dropped
<1>3. c = [b EXCEPT ![h] = N]
  BY <1>1, MovedUp DEF IsMoved
<1> HIDE DEF N
<1>4. Table(c) /\ IsReplaced(c, b, h, N)
  <2> HIDE DEF h
  <2>. QED
    BY <1>1, <1>2, <1>3, NewList
<1>. QED
  BY <1>2, <1>4 DEF IsReplaced, IsDropped, TakenFrom, In, Place, BucketOf

\* A new key goes to the top of its list.
PutInto(c, b, k, v) ==
    /\ \A j \in Keys : In(c, j) <=> In(b, j) \/ j = k
    /\ BucketOf(c, k) = [key |-> k, val |-> v]
    /\ \A j \in Keys : In(b, j) => BucketOf(c, j) = BucketOf(b, j)

LEMMA PutInFront ==
    ASSUME NEW b, Table(b), NEW k \in Keys, ~In(b, k), NEW v \in Vals, NEW c,
           c = [b EXCEPT ![Hash[k]] = <<[key |-> k, val |-> v]>> \o b[Hash[k]]]
    PROVE  Table(c) /\ PutInto(c, b, k, v)
<1> DEFINE h == Hash[k]
           new == [key |-> k, val |-> v]
           N == <<new>> \o b[h]
<1>1. h \in Lists /\ GoodList(b[h], h) /\ ~KeyIn(b[h], k)
  BY HashRange DEF Table, In
<1>2. new \in Bucket /\ new.key = k
  BY DEF Bucket
<1>3. c = [b EXCEPT ![h] = N]
  BY <1>1
<1> HIDE DEF new
<1>4. GoodList(N, h) /\ IsFronted(N, b[h], new)
  <2>1. Hash[new.key] = h /\ ~KeyIn(b[h], new.key)
    BY <1>1, <1>2
  <2> HIDE DEF h
  <2>. QED
    BY <1>1, <1>2, <2>1, Fronted, Zenon
<1> HIDE DEF N
<1>5. Table(c) /\ IsReplaced(c, b, h, N)
  <2> HIDE DEF h
  <2>. QED
    BY <1>1, <1>3, <1>4, NewList
<1>. QED
  BY <1>2, <1>4, <1>5 DEF IsReplaced, IsFronted, PutInto, In, Place, BucketOf, new

-----------------------------------------------------------------------------
(***************************************************************************)
(* The types of the table and of the iteration: its pointer is to a bucket *)
(* that is still there, or is known to be freed.  Every call does what the *)
(* mapping does.                                                           *)
(***************************************************************************)
Iteration == [count : [Keys -> Nat], last : Keys \union {Null}, gentle : BOOLEAN, done : BOOLEAN]

HashTypes ==
    /\ Table(buckets)
    /\ p0 \in 0 .. HashSize
    /\ p1 \in Keys \union {Null, Freed} /\ (p1 \in Keys => In(buckets, p1))
    /\ seen \in Iteration

LEMMA NotKeys == Null \notin Keys /\ Freed \notin Keys /\ Null # Freed
  BY HashAssumption DEF Null, Freed

LEMMA TypesAreTypeOK == ASSUME HashTypes PROVE HashTypeOK
<1> SUFFICES ASSUME NEW h \in Lists
             PROVE  /\ buckets[h] \in Seq([key : Keys, val : Vals])
                    /\ \A i, j \in DOMAIN buckets[h] :
                          /\ Hash[buckets[h][i].key] = h
                          /\ buckets[h][i].key = buckets[h][j].key => i = j
  BY DEF HashTypes, HashTypeOK
<1>. QED
  BY DEF HashTypes, Table, GoodList, Bucket

LEMMA InitTable == ASSUME HashInit PROVE HashTypes /\ Mapping!MapInit
<1>1. Table(buckets)
  BY DEF HashInit, Table, GoodList
<1>2. \A k \in Keys : ~In(buckets, k)
  BY HashRange DEF HashInit, In, KeyIn
<1>3. seen \in Iteration
  BY DEF HashInit, NoIteration, Iteration
<1>4. Contents = {}
  BY <1>1, <1>2, ContentsAre DEF Contents, All
<1>. QED
  BY <1>1, <1>2, <1>3, <1>4, HashAssumption, NotKeys DEF HashInit, HashTypes, Mapping!MapInit

\* What the calls read, in terms of the table.
LEMMA Reads ==
    ASSUME NEW k
    PROVE  /\ Has(k) <=> In(buckets, k)
           /\ At(k) = Place(buckets, k)
           /\ Val(k) = BucketOf(buckets, k).val
           /\ HashFind(k) = Moved(buckets[Hash[k]], k)
<1>1. Has(k) <=> KeyIn(InList(k), k)
  BY DEF Has, KeyIn
<1>2. At(k) = Pos(InList(k), k)
  BY DEF At, Pos
<1>. QED
  BY <1>1, <1>2 DEF Val, HashFind, Moved, In, Place, BucketOf, InList

LEMMA MappingHas ==
    ASSUME HashTypes
    PROVE  /\ Contents = All(buckets)
           /\ Contents' = UNION {Range(buckets'[h]) : h \in Lists}
           /\ \A k \in Keys : Mapping!Bound(k) <=> In(buckets, k)
           /\ \A k \in Keys : In(buckets, k) => BucketOf(buckets, k) \in Contents
           /\ \A k \in Keys : {p.val : p \in {q \in Contents : q.key = k}} =
                              IF In(buckets, k) THEN {BucketOf(buckets, k).val} ELSE {}
<1>1. Contents = All(buckets)
  BY ContentsAre DEF HashTypes, Contents
<1>2. \A k \in Keys : In(buckets, k) => BucketOf(buckets, k).key = k
  BY EntryIs DEF HashTypes
<1>3. \A k \in Keys : {q \in Contents : q.key = k} =
                      IF In(buckets, k) THEN {BucketOf(buckets, k)} ELSE {}
  BY <1>1, <1>2 DEF All
<1>. QED
  BY <1>1, <1>2, <1>3 DEF Contents, Mapping!Bound, All

LEMMA SameContents ==
    ASSUME HashTypes, Table(buckets'), Sameness(buckets', buckets)
    PROVE  Contents' = Contents
<1>1. Contents = All(buckets) /\ Contents' = All(buckets')
  BY ContentsAre DEF HashTypes, Contents
<1>2. All(buckets') = All(buckets)
  BY DEF All, Sameness
<1>. QED
  BY <1>1, <1>2

LEMMA LookupStep ==
    ASSUME HashTypes, NEW k \in Keys, Lookup(k)
    PROVE  HashTypes' /\ Mapping!Find(k)
<1>1. buckets' = [buckets EXCEPT ![Hash[k]] = Moved(buckets[Hash[k]], k)]
  BY Reads DEF Lookup
<1>2. Table(buckets') /\ Sameness(buckets', buckets)
  BY <1>1, LookedUp DEF HashTypes
<1>3. reply' = IF In(buckets, k) THEN [code |-> 0, found |-> {BucketOf(buckets, k).val}]
               ELSE [code |-> 1, found |-> {}]
  BY Reads DEF Lookup, Say
<1>4. Mapping!Find(k)
  BY <1>2, <1>3, SameContents, MappingHas DEF Mapping!Find, Mapping!Say
<1>5. seen' \in Iteration
  BY DEF Lookup, Disturb, HashTypes, Iteration
<1>. QED
  BY <1>2, <1>4, <1>5 DEF Lookup, HashTypes, Sameness

LEMMA InsertStep ==
    ASSUME HashTypes, NEW k \in Keys, NEW v \in Vals, Insert(k, v)
    PROVE  HashTypes' /\ Mapping!Add(k, v)
<1> DEFINE new == [key |-> k, val |-> v]
<1>1. seen' \in Iteration /\ UNCHANGED <<p0, p1>>
  BY DEF Insert, HashTypes, Iteration
<1>2. CASE In(buckets, k)
  <2>1. buckets' = [buckets EXCEPT ![Hash[k]] = Moved(buckets[Hash[k]], k)]
    BY <1>2, Reads DEF Insert
  <2>2. Table(buckets') /\ Sameness(buckets', buckets)
    BY <2>1, LookedUp DEF HashTypes
  <2>3. reply' = [code |-> 1, found |-> {}]
    BY <1>2, Reads DEF Insert, Say
  <2>. QED
    BY <1>1, <1>2, <2>2, <2>3, SameContents, MappingHas
       DEF HashTypes, Sameness, Mapping!Add, Mapping!Say
<1>3. CASE ~In(buckets, k) /\ buckets' = buckets /\ reply' = [code |-> -1, found |-> {}]
  <2>1. Contents' = Contents
    BY <1>3, MappingHas DEF Contents
  <2>. QED
    BY <1>1, <1>3, <2>1, MappingHas DEF HashTypes, Mapping!Add, Mapping!Say
<1>4. CASE /\ ~In(buckets, k)
           /\ buckets' = [buckets EXCEPT ![Hash[k]] = <<new>> \o @]
           /\ reply' = [code |-> 0, found |-> {}]
  <2>1. /\ Table(buckets')
        /\ \A j \in Keys : In(buckets', j) <=> In(buckets, j) \/ j = k
        /\ BucketOf(buckets', k) = new
        /\ \A j \in Keys : In(buckets, j) => BucketOf(buckets', j) = BucketOf(buckets, j)
    <3>1. buckets' = [buckets EXCEPT ![Hash[k]] = <<new>> \o buckets[Hash[k]]]
      BY <1>4
    <3>2. Table(buckets') /\ PutInto(buckets', buckets, k, v)
      BY <1>4, <3>1, PutInFront DEF HashTypes
    <3>. QED
      BY <3>2 DEF PutInto
  <2>2. Contents' = All(buckets')
    BY <2>1, ContentsAre DEF Contents
  <2>3. All(buckets') = All(buckets) \union {new}
    BY <2>1 DEF All
  <2>. QED
    BY <1>1, <1>4, <2>1, <2>2, <2>3, MappingHas DEF HashTypes, Mapping!Add, Mapping!Say
<1>. QED
  BY <1>2, <1>3, <1>4, Reads DEF Insert, Say

LEMMA DeleteStep ==
    ASSUME HashTypes, NEW k \in Keys, Delete(k)
    PROVE  HashTypes' /\ Mapping!Remove(k)
<1>1. /\ seen' \in Iteration /\ p0' = p0
      /\ p1' = IF In(buckets, k) /\ p1 = k THEN Freed ELSE p1
      /\ reply' = [code |-> IF In(buckets, k) THEN 0 ELSE 1, found |-> {}]
  BY Reads DEF Delete, Disturb, HashTypes, Iteration, Say
<1>2. CASE ~In(buckets, k)
  <2>1. buckets' = buckets
    BY <1>2, Reads, HashRange DEF Delete, HashTypes, Table
  <2>2. Contents' = Contents
    BY <2>1 DEF Contents
  <2>3. {p \in Contents : p.key # k} = Contents
    <3>1. \A p \in Contents : p.key # k
      BY <1>2, MappingHas DEF Mapping!Bound
    <3>. QED
      BY <3>1
  <2>4. Mapping!Remove(k)
    BY <1>1, <1>2, <2>2, <2>3, MappingHas DEF Mapping!Remove, Mapping!Say
  <2>. QED
    BY <1>1, <1>2, <2>1, <2>4 DEF HashTypes
<1>3. CASE In(buckets, k)
  <2>1. buckets' = [buckets EXCEPT ![Hash[k]] = Tail(Moved(buckets[Hash[k]], k))]
    BY <1>3, Reads DEF Delete
  <2>2. /\ Table(buckets')
        /\ \A j \in Keys : In(buckets', j) <=> In(buckets, j) /\ j # k
        /\ \A j \in Keys : In(buckets', j) => BucketOf(buckets', j) = BucketOf(buckets, j)
    <3>1. Table(buckets') /\ TakenFrom(buckets', buckets, k)
      BY <1>3, <2>1, TakenAway DEF HashTypes
    <3>. QED
      BY <3>1 DEF TakenFrom
  <2>3. Contents' = All(buckets')
    BY <2>2, ContentsAre DEF Contents
  <2>4. All(buckets') = {p \in All(buckets) : p.key # k}
    <3>1. \A j \in Keys : In(buckets, j) => BucketOf(buckets, j).key = j
      BY EntryIs DEF HashTypes
    <3>. QED
      BY <2>2, <3>1 DEF All
  <2>5. Mapping!Remove(k)
    BY <1>1, <1>3, <2>3, <2>4, MappingHas DEF Mapping!Remove, Mapping!Say
  <2>6. p1' \in Keys \union {Null, Freed} /\ (p1' \in Keys => In(buckets', p1'))
    BY <1>1, <1>3, <2>2, NotKeys DEF HashTypes
  <2>. QED
    BY <1>1, <2>2, <2>5, <2>6 DEF HashTypes
<1>. QED
  BY <1>2, <1>3

-----------------------------------------------------------------------------
(***************************************************************************)
(* The iteration.  While it is gentle the pointer splits the list it is in:*)
(* what is before it has been returned, and a look-up of the last key that *)
(* was returned only reorders what is before it.                           *)
(***************************************************************************)
Cur(from) == IF from = 0 THEN 0 ELSE from - 1
Behind(b, at, k) == at = Null \/ Place(b, k) < Place(b, at)

CountOk(b, from, at, count) ==
    \A k \in Keys : In(b, k) =>
        count[k] = IF Hash[k] < Cur(from) THEN Visits(Hash[k])
                   ELSE IF Hash[k] > Cur(from) THEN 0
                   ELSE (IF from = 1 THEN 1 ELSE 0) + (IF Behind(b, at, k) THEN 1 ELSE 0)

PointsInto(b, from, at) == at = Null \/ (at \in Keys /\ Hash[at] = Cur(from) /\ In(b, at))

LastOk(b, from, at, last) ==
    /\ last \in Keys /\ Hash[last] = Cur(from) /\ last # at
    /\ In(b, last) => Behind(b, at, last)

OnWay(b, from, at, s) ==
    /\ from < HashSize
    /\ PointsInto(b, from, at) /\ CountOk(b, from, at, s.count) /\ LastOk(b, from, at, s.last)

Finished(b, from, at, s) ==
    /\ from = HashSize /\ at # Freed /\ s.last = Null
    /\ \A k \in Keys : In(b, k) => s.count[k] = Visits(Hash[k])

Gentle(b, from, at, s) ==
    s.gentle => IF s.done THEN Finished(b, from, at, s) ELSE OnWay(b, from, at, s)

GentleInv == Gentle(buckets, p0, p1, seen)

LEMMA GentleVisitsRight == ASSUME HashTypes, GentleInv PROVE GentleVisits
<1>1. p1 # Freed \/ ~seen.gentle
  BY NotKeys DEF GentleInv, Gentle, Finished, OnWay, PointsInto
<1>2. seen.gentle /\ seen.done => \A k \in Keys : Has(k) => seen.count[k] = Visits(Hash[k])
  BY Reads DEF GentleInv, Gentle, Finished
<1>. QED
  BY <1>1, <1>2 DEF GentleVisits

\* Two keys of one list have different places.
LEMMA PlacesDiffer ==
    ASSUME NEW b, Table(b), NEW j \in Keys, NEW k \in Keys, In(b, j), In(b, k),
           Hash[j] = Hash[k], Place(b, j) = Place(b, k)
    PROVE  j = k
<1>1. BucketOf(b, j) = BucketOf(b, k)
  BY DEF BucketOf, Place
<1>. QED
  BY <1>1, EntryIs

LEMMA PlaceType ==
    ASSUME NEW b, Table(b), NEW k \in Keys, In(b, k)
    PROVE  Place(b, k) \in Nat /\ 1 <= Place(b, k)
<1>1. b[Hash[k]] \in Seq(Bucket)
  BY HashRange DEF Table
<1>. QED
  BY <1>1, EntryIs, LenProperties

\* It is enough that what stays keeps its side of the pointer.
LEMMA Reordered ==
    ASSUME NEW b, NEW c, NEW from \in 0 .. HashSize, NEW at, NEW s, OnWay(b, from, at, s),
           NEW t, t.count = s.count, t.last = s.last,
           \A j \in Keys : In(c, j) => In(b, j),
           at \in Keys => In(c, at),
           \A j \in Keys : In(c, j) /\ Hash[j] = Cur(from) =>
             (Behind(c, at, j) <=> Behind(b, at, j))
    PROVE  OnWay(c, from, at, t)
<1>1. PointsInto(c, from, at)
  BY DEF OnWay, PointsInto
<1>2. LastOk(c, from, at, t.last)
  BY DEF OnWay, LastOk
<1>3. CountOk(c, from, at, t.count)
  <2> SUFFICES ASSUME NEW j \in Keys, In(c, j)
               PROVE  t.count[j] =
                        IF Hash[j] < Cur(from) THEN Visits(Hash[j])
                        ELSE IF Hash[j] > Cur(from) THEN 0
                        ELSE (IF from = 1 THEN 1 ELSE 0) + (IF Behind(c, at, j) THEN 1 ELSE 0)
    BY DEF CountOk
  <2>1. In(b, j)
    OBVIOUS
  <2>2. Hash[j] \in Int /\ Cur(from) \in Int
    BY HashRange, HashAssumption DEF Cur
  <2>3. CASE Hash[j] = Cur(from)
    BY <2>1, <2>2, <2>3 DEF OnWay, CountOk
  <2>4. CASE Hash[j] # Cur(from)
    BY <2>1, <2>2, <2>4 DEF OnWay, CountOk
  <2>. QED
    BY <2>3, <2>4
<1>. QED
  BY <1>1, <1>2, <1>3 DEF OnWay

LEMMA LookupGentle ==
    ASSUME HashTypes, GentleInv, NEW k \in Keys, Lookup(k)
    PROVE  GentleInv'
<1>0. p0' = p0 /\ p1' = p1 /\ seen' = [seen EXCEPT !.gentle = @ /\ k = seen.last]
  BY DEF Lookup, Disturb
<1>1. seen \in Iteration
  BY DEF HashTypes
<1>2. /\ seen'.count = seen.count /\ seen'.last = seen.last /\ seen'.done = seen.done
      /\ seen'.gentle => seen.gentle /\ k = seen.last
  BY <1>0, <1>1 DEF Iteration
<1> SUFFICES ASSUME seen'.gentle
             PROVE  OnWay(buckets', p0, p1, seen') /\ ~seen.done
  BY <1>0, <1>2 DEF GentleInv, Gentle
<1>3. ~seen.done /\ OnWay(buckets, p0, p1, seen) /\ k = seen.last
  BY <1>2, NotKeys DEF GentleInv, Gentle, Finished
<1>4. buckets' = [buckets EXCEPT ![Hash[k]] = Moved(buckets[Hash[k]], k)]
  BY Reads DEF Lookup
<1>5. Table(buckets) /\ Table(buckets') /\ Sameness(buckets', buckets) /\ LookedUpIn(buckets', buckets, k)
  BY <1>4, LookedUp DEF HashTypes
<1>6. CASE ~In(buckets, k)
  <2>1. buckets' = buckets
    BY <1>5, <1>6 DEF LookedUpIn
  <2>. QED
    BY <1>2, <1>3, <2>1 DEF OnWay
<1>7. CASE In(buckets, k)
  <2>1. \A j \in Keys : In(buckets', j) <=> In(buckets, j)
    BY <1>5 DEF Sameness
  <2>2. k # p1 /\ Behind(buckets, p1, k) /\ Hash[k] = Cur(p0)
    BY <1>3, <1>7 DEF OnWay, LastOk
  <2>3. \A j \in Keys : In(buckets, j) /\ Hash[j] = Cur(p0) =>
          (Behind(buckets', p1, j) <=> Behind(buckets, p1, j))
    <3>1. CASE p1 = Null
      BY <3>1 DEF Behind
    <3>2. CASE p1 # Null
      <4>1. p1 \in Keys /\ Hash[p1] = Cur(p0) /\ In(buckets, p1)
        BY <1>3, <3>2 DEF OnWay, PointsInto
      <4>2. Place(buckets, k) < Place(buckets, p1)
        BY <2>2, <3>2 DEF Behind
      <4>3. /\ Place(buckets, k) \in Nat /\ 1 <= Place(buckets, k)
            /\ Place(buckets, p1) \in Nat
        BY <1>5, <1>7, <4>1, PlaceType
      <4>4. Place(buckets', p1) = Place(buckets, p1)
        BY <1>5, <1>7, <2>2, <4>1, <4>2, <4>3 DEF LookedUpIn
      <4>5. ASSUME NEW j \in Keys, In(buckets, j), Hash[j] = Cur(p0)
            PROVE  Place(buckets', j) < Place(buckets', p1) <=> Place(buckets, j) < Place(buckets, p1)
        <5>1. Place(buckets, j) \in Nat
          BY <1>5, <4>5, PlaceType
        <5>2. Place(buckets', j) = IF j = k THEN 1
                                   ELSE IF Place(buckets, j) < Place(buckets, k)
                                   THEN Place(buckets, j) + 1 ELSE Place(buckets, j)
          BY <1>5, <1>7, <2>2, <4>5 DEF LookedUpIn
        <5>. QED
          BY <4>2, <4>3, <4>4, <5>1, <5>2
      <4>. QED
        BY <3>2, <4>5 DEF Behind
    <3>. QED
      BY <3>1, <3>2
  <2>4. p1 \in Keys => In(buckets', p1)
    BY <2>1 DEF HashTypes
  <2>. QED
    BY <1>2, <1>3, <2>1, <2>3, <2>4, Reordered DEF HashTypes
<1>. QED
  BY <1>6, <1>7

LEMMA DeleteGentle ==
    ASSUME HashTypes, GentleInv, NEW k \in Keys, Delete(k)
    PROVE  GentleInv'
<1>0. /\ p0' = p0 /\ seen' = [seen EXCEPT !.gentle = @ /\ k = seen.last]
      /\ p1' = IF In(buckets, k) /\ p1 = k THEN Freed ELSE p1
  BY Reads DEF Delete, Disturb
<1>1. seen \in Iteration
  BY DEF HashTypes
<1>2. /\ seen'.count = seen.count /\ seen'.last = seen.last /\ seen'.done = seen.done
      /\ seen'.gentle => seen.gentle /\ k = seen.last
  BY <1>0, <1>1 DEF Iteration
<1> SUFFICES ASSUME seen'.gentle
             PROVE  OnWay(buckets', p0, p1', seen') /\ ~seen.done
  BY <1>0, <1>2 DEF GentleInv, Gentle
<1>3. ~seen.done /\ OnWay(buckets, p0, p1, seen) /\ k = seen.last
  BY <1>2, NotKeys DEF GentleInv, Gentle, Finished
<1>4. k # p1 /\ Hash[k] = Cur(p0) /\ p1' = p1
  BY <1>0, <1>3 DEF OnWay, LastOk
<1>5. CASE ~In(buckets, k)
  <2>1. buckets' = buckets
    BY <1>5, Reads, HashRange DEF Delete, HashTypes, Table
  <2>. QED
    BY <1>2, <1>3, <1>4, <2>1 DEF OnWay
<1>6. CASE In(buckets, k)
  <2>1. buckets' = [buckets EXCEPT ![Hash[k]] = Tail(Moved(buckets[Hash[k]], k))]
    BY <1>6, Reads DEF Delete
  <2>2. Table(buckets) /\ Table(buckets') /\ TakenFrom(buckets', buckets, k)
    BY <1>6, <2>1, TakenAway DEF HashTypes
  <2>3. p1 \in Keys => In(buckets', p1)
    BY <1>4, <2>2 DEF HashTypes, TakenFrom
  <2>4. \A j \in Keys : In(buckets', j) => In(buckets, j) /\ j # k
    BY <2>2 DEF TakenFrom
  <2>5. \A j \in Keys : In(buckets', j) /\ Hash[j] = Cur(p0) =>
          (Behind(buckets', p1, j) <=> Behind(buckets, p1, j))
    <3>1. CASE p1 = Null
      BY <3>1 DEF Behind
    <3>2. CASE p1 # Null
      <4>1. p1 \in Keys /\ Hash[p1] = Cur(p0) /\ In(buckets, p1)
        BY <1>3, <3>2 DEF OnWay, PointsInto
      <4>2. Place(buckets, k) < Place(buckets, p1)
        BY <1>3, <1>6, <3>2 DEF OnWay, LastOk, Behind
      <4>3. Place(buckets, k) \in Nat /\ Place(buckets, p1) \in Nat
        BY <1>6, <2>2, <4>1, PlaceType
      <4>4. Place(buckets', p1) = Place(buckets, p1) - 1
        BY <1>4, <2>2, <2>3, <4>1, <4>2, <4>3 DEF TakenFrom
      <4>5. ASSUME NEW j \in Keys, In(buckets', j), Hash[j] = Cur(p0)
            PROVE  Place(buckets', j) < Place(buckets', p1) <=> Place(buckets, j) < Place(buckets, p1)
        <5>1. Place(buckets, j) \in Nat /\ In(buckets, j) /\ j # k
          BY <2>2, <2>4, <4>5, PlaceType
        <5>2. Place(buckets, j) # Place(buckets, k)
          BY <1>4, <1>6, <2>2, <4>5, <5>1, PlacesDiffer
        <5>3. Place(buckets', j) = IF ~(Place(buckets, j) < Place(buckets, k))
                                   THEN Place(buckets, j) - 1 ELSE Place(buckets, j)
          BY <1>4, <2>2, <4>5 DEF TakenFrom
        <5>. QED
          BY <4>2, <4>3, <4>4, <5>1, <5>2, <5>3
      <4>. QED
        BY <3>2, <4>5 DEF Behind
    <3>. QED
      BY <3>1, <3>2
  <2>. QED
    BY <1>2, <1>3, <1>4, <2>3, <2>4, <2>5, Reordered DEF HashTypes
<1>. QED
  BY <1>5, <1>6

\* The bucket after k's.
LEMMA AfterIs ==
    ASSUME HashTypes, NEW k \in Keys, In(buckets, k)
    PROVE  \/ /\ After(k) = Null
              /\ \A j \in Keys : In(buckets, j) /\ Hash[j] = Hash[k]
                    => Place(buckets, j) <= Place(buckets, k)
           \/ /\ After(k) \in Keys /\ Hash[After(k)] = Hash[k] /\ In(buckets, After(k))
              /\ Place(buckets, After(k)) = Place(buckets, k) + 1
<1> DEFINE L == buckets[Hash[k]]
           i == Place(buckets, k)
<1>1. Table(buckets) /\ Hash[k] \in Lists /\ L \in Seq(Bucket)
  BY HashRange DEF HashTypes, Table
<1>2. Len(L) \in Nat /\ DOMAIN L = 1 .. Len(L) /\ i \in 1 .. Len(L)
  BY <1>1, EntryIs, LenProperties
<1>3. After(k) = IF i < Len(L) THEN L[i + 1].key ELSE Null
  BY Reads DEF After, InList
<1>4. CASE i < Len(L)
  <2>1. i + 1 \in DOMAIN L
    BY <1>2, <1>4
  <2>. QED
    BY <1>1, <1>3, <1>4, <2>1, ListEntry
<1>5. CASE ~(i < Len(L))
  <2>1. \A j \in Keys : In(buckets, j) /\ Hash[j] = Hash[k] => Place(buckets, j) \in 1 .. Len(L)
    BY <1>1, EntryIs
  <2>. QED
    BY <1>2, <1>3, <1>5, <2>1
<1>. QED
  BY <1>4, <1>5

LEMMA LeastElement ==
    ASSUME NEW S \in SUBSET Nat, S # {}
    PROVE  \E m \in S : \A k \in S : m <= k
<1>1. \E m \in S : \A k \in S : ~ (<<k, m>> \in OpToRel(<, Nat))
  BY NatLessThanWellFounded, WFMin
<1>2. \A k, m \in S : ~ (<<k, m>> \in OpToRel(<, Nat)) => m <= k
  BY DEF OpToRel
<1>. QED
  BY <1>1, <1>2

\* The next list that is not empty, and its first bucket.
LEMMA NextList ==
    ASSUME HashTypes, NEW from \in Nat, Ahead(from) # {}
    PROVE  LET h == Min(Ahead(from))
               k == buckets[h][1].key
           IN  /\ h \in Lists /\ from <= h
               /\ k \in Keys /\ In(buckets, k) /\ Hash[k] = h /\ Place(buckets, k) = 1
               /\ \A j \in Keys : In(buckets, j) /\ from <= Hash[j] => h <= Hash[j]
<1> DEFINE h == Min(Ahead(from))
<1>1. Ahead(from) \in SUBSET Nat
  <2>1. \A g \in Lists : g \in Nat
    BY HashRange, HashAssumption
  <2>. QED
    BY <2>1 DEF Ahead
<1>2. h \in Ahead(from) /\ \A g \in Ahead(from) : h <= g
  BY <1>1, LeastElement DEF Min
<1>3. h \in Lists /\ from <= h /\ buckets[h] # <<>>
  BY <1>2 DEF Ahead
<1> HIDE DEF h
<1>4. 1 \in DOMAIN buckets[h]
  <2>1. buckets[h] \in Seq(Bucket)
    BY <1>3 DEF HashTypes, Table
  <2>. QED
    BY <1>3, <2>1, LenProperties
<1>5. ASSUME NEW j \in Keys, In(buckets, j), from <= Hash[j]
      PROVE  h <= Hash[j]
  <2>1. buckets[Hash[j]] # <<>>
    BY <1>5 DEF In, KeyIn
  <2>. QED
    BY <1>2, <1>5, <2>1, HashRange DEF Ahead
<1>. QED
  BY <1>3, <1>4, <1>5, ListEntry DEF HashTypes, h

\* A call of the iteration that returns bucket k, with `next' to come.
LEMMA ReturnStep ==
    ASSUME HashTypes, NEW k \in Keys, In(buckets, k), NEW was \in Iteration,
           Return(k, was), UNCHANGED buckets, p0' \in 0 .. HashSize
    PROVE  HashTypes' /\ Mapping!Step
<1>1. After(k) = Null \/ (After(k) \in Keys /\ In(buckets, After(k)))
  BY AfterIs
<1>2. seen' \in Iteration
  <2>1. was.count \in [Keys -> Nat] /\ was.count[k] + 1 \in Nat
    BY DEF Iteration
  <2> DEFINE new == IF was.gentle THEN was.count[k] + 1 ELSE was.count[k]
  <2>2. seen' = [was EXCEPT !.last = k, !.count = [was.count EXCEPT ![k] = new]]
    BY DEF Return, Returned, Iteration
  <2>3. [was.count EXCEPT ![k] = new] \in [Keys -> Nat]
    BY <2>1
  <2>. QED
    BY <2>2, <2>3 DEF Iteration
<1>3. BucketOf(buckets, k) \in Contents /\ Val(k) = BucketOf(buckets, k).val
  BY MappingHas, Reads
<1>4. Contents' = Contents
  BY DEF Contents
<1>5. reply' = [code |-> 1, found |-> {BucketOf(buckets, k).val}]
  BY <1>3 DEF Return, Say
<1>6. Mapping!Step
  BY <1>3, <1>4, <1>5 DEF Mapping!Step, Mapping!Say
<1>. QED
  BY <1>1, <1>2, <1>6, NotKeys DEF HashTypes, Return

LEMMA AdvanceStep ==
    ASSUME HashTypes, NEW from \in 0 .. HashSize, NEW at, NEW was \in Iteration,
           at = Null \/ (at \in Keys /\ In(buckets, at)),
           Advance(from, at, was), UNCHANGED buckets
    PROVE  HashTypes' /\ Mapping!Step
<1> DEFINE h == Min(Ahead(from))
           more == from < HashSize /\ Ahead(from) # {}
           k == buckets[h][1].key
<1>0. from \in Nat /\ HashSize \in Nat
  BY HashAssumption
<1>1. more => h \in Lists /\ k \in Keys /\ In(buckets, k)
  BY <1>0, NextList
<1> HIDE DEF h
<1>2. h \in Lists => h + 1 \in 0 .. HashSize
  <2>1. h \in Lists => h \in 0 .. (HashSize - 1)
    BY HashRange
  <2>. QED
    BY <1>0, <2>1
<1>3. CASE at # Null /\ p0' = from /\ Return(at, was)
  BY <1>3, ReturnStep
<1>4. CASE more /\ p0' = h + 1 /\ Return(k, was)
  BY <1>1, <1>2, <1>4, ReturnStep
<1>5. CASE /\ p0' = HashSize
           /\ p1' = IF more THEN k ELSE at
           /\ Say(0, {})
           /\ seen' = [was EXCEPT !.done = TRUE, !.last = Null]
  <2>1. seen' \in Iteration
    BY <1>5 DEF Iteration
  <2>2. Contents' = Contents
    BY DEF Contents
  <2>3. Mapping!Step
    BY <1>5, <2>2 DEF Mapping!Step, Mapping!Say, Say
  <2>. QED
    BY <1>0, <1>1, <1>5, <2>1, <2>3, NotKeys DEF HashTypes
<1>. QED
  BY <1>3, <1>4, <1>5, Zenon DEF Advance, h

\* The counting of one list, while its buckets are returned ...
LEMMA CountNext ==
    ASSUME HashTypes, NEW from \in 0 .. HashSize - 1, NEW at \in Keys, In(buckets, at),
           Hash[at] = Cur(from), NEW count \in [Keys -> Nat],
           CountOk(buckets, from, at, count)
    PROVE  /\ PointsInto(buckets, from, After(at))
           /\ LastOk(buckets, from, After(at), at)
           /\ CountOk(buckets, from, After(at), [count EXCEPT ![at] = @ + 1])
<1> DEFINE follower == After(at)
           new == [count EXCEPT ![at] = @ + 1]
<1>1. \/ /\ follower = Null
         /\ \A j \in Keys : In(buckets, j) /\ Hash[j] = Cur(from)
               => Place(buckets, j) <= Place(buckets, at)
      \/ /\ follower \in Keys /\ Hash[follower] = Cur(from) /\ In(buckets, follower)
         /\ Place(buckets, follower) = Place(buckets, at) + 1
  BY AfterIs
<1> HIDE DEF follower
<1>2. Table(buckets) /\ at # Null /\ Place(buckets, at) \in Nat
  BY NotKeys, PlaceType DEF HashTypes
<1>3. ASSUME NEW j \in Keys, In(buckets, j), Hash[j] = Cur(from)
      PROVE  Behind(buckets, follower, j) <=> Behind(buckets, at, j) \/ j = at
  <2>1. Place(buckets, j) \in Nat
    BY <1>2, <1>3, PlaceType
  <2>2. Place(buckets, j) = Place(buckets, at) => j = at
    BY <1>2, <1>3, PlacesDiffer
  <2>3. CASE follower = Null
    <3>1. Place(buckets, j) <= Place(buckets, at)
      BY <1>1, <1>3, <2>3, NotKeys
    <3>2. Behind(buckets, follower, j)
      BY <2>3 DEF Behind
    <3>3. Place(buckets, j) < Place(buckets, at) \/ j = at
      BY <1>2, <2>1, <2>2, <3>1
    <3>. QED
      BY <3>2, <3>3 DEF Behind
  <2>4. CASE follower # Null
    <3>1. Place(buckets, follower) = Place(buckets, at) + 1
      BY <1>1, <2>4
    <3>2. Place(buckets, j) < Place(buckets, follower)
            <=> Place(buckets, j) < Place(buckets, at) \/ Place(buckets, j) = Place(buckets, at)
      BY <1>2, <2>1, <3>1
    <3>. QED
      BY <1>2, <2>2, <2>4, <3>2 DEF Behind
  <2>. QED
    BY <2>3, <2>4
<1>4. ~Behind(buckets, at, at)
  BY <1>2 DEF Behind
<1>5. PointsInto(buckets, from, follower)
  BY <1>1 DEF PointsInto
<1>6. LastOk(buckets, from, follower, at)
  <2>1. follower # at
    BY <1>1, <1>2
  <2>. QED
    BY <1>3, <2>1 DEF LastOk
<1>7. CountOk(buckets, from, follower, new)
  <2> SUFFICES ASSUME NEW j \in Keys, In(buckets, j)
               PROVE  new[j] =
                        IF Hash[j] < Cur(from) THEN Visits(Hash[j])
                        ELSE IF Hash[j] > Cur(from) THEN 0
                        ELSE (IF from = 1 THEN 1 ELSE 0)
                             + (IF Behind(buckets, follower, j) THEN 1 ELSE 0)
    BY DEF CountOk
  <2>1. Hash[j] \in Int /\ Cur(from) \in Int /\ count[j] \in Nat
    BY HashRange, HashAssumption DEF Cur
  <2>2. count[j] =
          IF Hash[j] < Cur(from) THEN Visits(Hash[j])
          ELSE IF Hash[j] > Cur(from) THEN 0
          ELSE (IF from = 1 THEN 1 ELSE 0) + (IF Behind(buckets, at, j) THEN 1 ELSE 0)
    BY DEF CountOk
  <2>3. CASE j = at
    <3>1. new[j] = count[j] + 1 /\ Behind(buckets, follower, j)
      BY <1>3, <2>3
    <3>. QED
      BY <1>4, <2>1, <2>2, <2>3, <3>1
  <2>4. CASE j # at
    <3>1. new[j] = count[j]
      BY <2>4
    <3>. QED
      BY <1>3, <2>1, <2>2, <2>4, <3>1
  <2>. QED
    BY <2>3, <2>4
<1>. QED
  BY <1>5, <1>6, <1>7 DEF follower

\* ... a list that is behind the iteration has been returned as often as it ever is,
LEMMA CountPassed ==
    ASSUME NEW from \in 0 .. HashSize - 1, NEW count, CountOk(buckets, from, Null, count),
           NEW j \in Keys, In(buckets, j), Hash[j] < from
    PROVE  count[j] = Visits(Hash[j])
<1>1. Hash[j] \in 0 .. (HashSize - 1) /\ HashSize \in Nat
  BY HashRange, HashAssumption
<1>2. from # 0 /\ Cur(from) = from - 1
  BY <1>1 DEF Cur
<1>3. count[j] =
        IF Hash[j] < Cur(from) THEN Visits(Hash[j])
        ELSE IF Hash[j] > Cur(from) THEN 0
        ELSE (IF from = 1 THEN 1 ELSE 0) + (IF Behind(buckets, Null, j) THEN 1 ELSE 0)
  BY DEF CountOk
<1>4. CASE Hash[j] < Cur(from)
  BY <1>3, <1>4
<1>5. CASE Hash[j] = Cur(from)
  <2>1. Behind(buckets, Null, j)
    BY DEF Behind
  <2>2. count[j] = (IF from = 1 THEN 1 ELSE 0) + 1
    BY <1>1, <1>2, <1>3, <1>5, <2>1
  <2>3. Visits(Hash[j]) = IF from = 1 THEN 2 ELSE 1
    BY <1>1, <1>2, <1>5 DEF Visits
  <2>. QED
    BY <2>2, <2>3
<1>. QED
  BY <1>1, <1>2, <1>4, <1>5

\* ... and when the iteration comes to the next list, what it has yet to return of it is
\* everything.
LEMMA CountMoves ==
    ASSUME HashTypes, NEW from \in 0 .. HashSize - 1, NEW count,
           CountOk(buckets, from, Null, count), NEW h \in Lists, from <= h,
           \A j \in Keys : In(buckets, j) /\ from <= Hash[j] => h <= Hash[j],
           NEW k \in Keys, In(buckets, k), Hash[k] = h, Place(buckets, k) = 1
    PROVE  CountOk(buckets, h + 1, k, count)
<1>1. h \in Nat /\ HashSize \in Nat /\ from \in Nat
  BY HashRange, HashAssumption
<1>2. Cur(h + 1) = h /\ Cur(from) = IF from = 0 THEN 0 ELSE from - 1
  BY <1>1 DEF Cur
<1> SUFFICES ASSUME NEW j \in Keys, In(buckets, j)
             PROVE  count[j] =
                      IF Hash[j] < h THEN Visits(Hash[j])
                      ELSE IF Hash[j] > h THEN 0
                      ELSE (IF h + 1 = 1 THEN 1 ELSE 0)
                           + (IF Behind(buckets, k, j) THEN 1 ELSE 0)
  BY <1>2 DEF CountOk
<1>3. Hash[j] \in Nat /\ Place(buckets, j) \in Nat /\ 1 <= Place(buckets, j)
  <2>1. Hash[j] \in Nat
    BY HashRange, HashAssumption
  <2>. QED
    BY <2>1, PlaceType DEF HashTypes
<1>4. count[j] =
        IF Hash[j] < Cur(from) THEN Visits(Hash[j])
        ELSE IF Hash[j] > Cur(from) THEN 0
        ELSE (IF from = 1 THEN 1 ELSE 0) + (IF Behind(buckets, Null, j) THEN 1 ELSE 0)
  BY DEF CountOk
<1>5. Behind(buckets, Null, j) /\ ~Behind(buckets, k, j)
  BY <1>3, NotKeys DEF Behind
<1>6. CASE Hash[j] < from
  <2>1. count[j] = Visits(Hash[j])
    BY <1>6, CountPassed
  <2>. QED
    BY <1>1, <1>3, <1>6, <2>1
<1>7. CASE ~(Hash[j] < from)
  <2>1. h <= Hash[j]
    BY <1>1, <1>3, <1>7
  <2>. QED
    BY <1>1, <1>2, <1>3, <1>4, <1>5, <1>7, <2>1
<1>. QED
  BY <1>6, <1>7

\* At the end every list has been returned as often as it ever is.
LEMMA CountEnds ==
    ASSUME HashTypes, NEW from \in 0 .. HashSize - 1, NEW count,
           CountOk(buckets, from, Null, count),
           Ahead(from) # {} => Min(Ahead(from)) + 1 = HashSize,
           NEW j \in Keys, In(buckets, j)
    PROVE  count[j] = Visits(Hash[j])
<1> DEFINE h == Min(Ahead(from))
<1>1. Hash[j] \in 0 .. (HashSize - 1) /\ HashSize \in Nat /\ HashSize > 1 /\ from \in Nat
  BY HashRange, HashAssumption
<1>2. CASE Hash[j] < from
  BY <1>2, CountPassed
<1>3. CASE ~(Hash[j] < from)
  <2>1. Ahead(from) # {}
    <3>1. buckets[Hash[j]] # <<>>
      BY DEF In, KeyIn
    <3>2. Hash[j] \in Lists /\ Hash[j] >= from
      BY <1>1, <1>3, HashRange
    <3>. QED
      BY <3>1, <3>2 DEF Ahead
  <2>2. h \in Lists /\ h <= Hash[j]
    BY <1>1, <1>3, <2>1, NextList
  <2>3. h + 1 = HashSize
    BY <2>1
  <2> HIDE DEF h
  <2>4. h \in 0 .. (HashSize - 1)
    BY <2>2, HashRange
  <2>5. Hash[j] = HashSize - 1
    BY <1>1, <2>2, <2>3, <2>4
  <2>6. Cur(from) < Hash[j]
    BY <1>1, <2>5 DEF Cur
  <2>7. Cur(from) \in Int
    BY <1>1 DEF Cur
  <2>8. count[j] = 0
    BY <1>1, <2>6, <2>7 DEF CountOk
  <2>. QED
    BY <2>5, <2>8 DEF Visits
<1>. QED
  BY <1>2, <1>3

\* What drmHashFirst and drmHashNext go on from.
Facing(b, from, at, was) ==
    was.gentle =>
      IF was.done
      THEN /\ from = HashSize /\ at # Freed
           /\ \A k \in Keys : In(b, k) => was.count[k] = Visits(Hash[k])
      ELSE from < HashSize /\ PointsInto(b, from, at) /\ CountOk(b, from, at, was.count)

LEMMA ReturnGentle ==
    ASSUME HashTypes, NEW from \in 0 .. HashSize - 1, NEW k \in Keys, In(buckets, k),
           Hash[k] = Cur(from), NEW was \in Iteration,
           was.gentle => ~was.done /\ CountOk(buckets, from, k, was.count),
           p0' = from, Return(k, was), UNCHANGED buckets
    PROVE  GentleInv'
<1>1. was.count \in [Keys -> Nat]
  BY DEF Iteration
<1> DEFINE new == IF was.gentle THEN was.count[k] + 1 ELSE was.count[k]
<1>2. seen' = [was EXCEPT !.last = k, !.count = [was.count EXCEPT ![k] = new]]
  BY DEF Return, Returned, Iteration
<1>3. /\ seen'.gentle = was.gentle /\ seen'.done = was.done /\ seen'.last = k
      /\ seen'.count = [was.count EXCEPT ![k] = new]
  BY <1>2 DEF Iteration
<1> SUFFICES ASSUME was.gentle
             PROVE  OnWay(buckets', p0', p1', seen')
  BY <1>3 DEF GentleInv, Gentle
<1>4. seen'.count = [was.count EXCEPT ![k] = @ + 1]
  BY <1>3
<1>5. p1' = After(k) /\ from < HashSize
  BY HashAssumption DEF Return
<1>6. /\ PointsInto(buckets, from, After(k)) /\ LastOk(buckets, from, After(k), k)
      /\ CountOk(buckets, from, After(k), [was.count EXCEPT ![k] = @ + 1])
  BY <1>1, CountNext
<1>. QED
  BY <1>3, <1>4, <1>5, <1>6 DEF OnWay

LEMMA ReturnNotGentle ==
    ASSUME NEW k, NEW was \in Iteration, Return(k, was), ~was.gentle
    PROVE  GentleInv'
<1>1. ~seen'.gentle
  BY DEF Return, Returned, Iteration
<1>. QED
  BY <1>1 DEF GentleInv, Gentle

LEMMA AdvanceGentle ==
    ASSUME HashTypes, NEW from \in 0 .. HashSize, NEW at, NEW was \in Iteration,
           at = Null \/ (at \in Keys /\ In(buckets, at)),
           Facing(buckets, from, at, was),
           Advance(from, at, was), UNCHANGED buckets
    PROVE  GentleInv'
<1> DEFINE h == Min(Ahead(from))
           more == from < HashSize /\ Ahead(from) # {}
           k == buckets[h][1].key
<1>0. from \in Nat /\ HashSize \in Nat /\ (from < HashSize => from \in 0 .. HashSize - 1)
  BY HashAssumption
<1>1. more => /\ h \in Lists /\ from <= h
              /\ k \in Keys /\ In(buckets, k) /\ Hash[k] = h /\ Place(buckets, k) = 1
              /\ \A j \in Keys : In(buckets, j) /\ from <= Hash[j] => h <= Hash[j]
  BY <1>0, NextList
<1>2. CASE from < HashSize /\ at # Null /\ p0' = from /\ Return(at, was)
  <2>1. was.gentle => /\ ~was.done /\ PointsInto(buckets, from, at)
                      /\ CountOk(buckets, from, at, was.count)
    BY <1>0, <1>2 DEF Facing
  <2>2. CASE was.gentle
    <3>1. Hash[at] = Cur(from)
      BY <1>2, <2>1, <2>2 DEF PointsInto
    <3>. QED
      BY <1>0, <1>2, <2>1, <3>1, ReturnGentle
  <2>3. CASE ~was.gentle
    BY <1>2, <2>3, ReturnNotGentle
  <2>. QED
    BY <2>2, <2>3
<1>3. CASE at = Null /\ more /\ h + 1 < HashSize /\ p0' = h + 1 /\ Return(k, was)
  <2>1. CASE was.gentle
    <3>1. ~was.done /\ CountOk(buckets, from, Null, was.count)
      BY <1>0, <1>3, <2>1 DEF Facing
    <3> HIDE DEF h, k
    <3>2. CountOk(buckets, h + 1, k, was.count)
      BY <1>0, <1>1, <1>3, <3>1, CountMoves DEF h
    <3>3. h + 1 \in 0 .. HashSize - 1 /\ Cur(h + 1) = h
      <4>1. h \in 0 .. (HashSize - 1)
        BY <1>1, <1>3, HashRange
      <4>. QED
        BY <1>0, <1>3, <4>1 DEF Cur
    <3>. QED
      BY <1>1, <1>3, <3>1, <3>2, <3>3, ReturnGentle
  <2>2. CASE ~was.gentle
    BY <1>1, <1>3, <2>2, ReturnNotGentle
  <2>. QED
    BY <2>1, <2>2
<1>4. CASE /\ from = HashSize \/ (at = Null /\ (more => h + 1 = HashSize))
           /\ p0' = HashSize
           /\ p1' = IF more THEN k ELSE at
           /\ seen' = [was EXCEPT !.done = TRUE, !.last = Null]
  <2>1. /\ seen'.gentle = was.gentle /\ seen'.done /\ seen'.last = Null
        /\ seen'.count = was.count
    BY <1>4 DEF Iteration
  <2>2. p1' # Freed
    BY <1>1, <1>4, NotKeys
  <2>3. ASSUME was.gentle, NEW j \in Keys, In(buckets, j)
        PROVE  was.count[j] = Visits(Hash[j])
    <3>1. CASE was.done
      BY <2>3, <3>1 DEF Facing
    <3>2. CASE ~was.done
      <4>1. from < HashSize /\ CountOk(buckets, from, at, was.count)
        BY <2>3, <3>2 DEF Facing
      <4>2. at = Null /\ (Ahead(from) # {} => h + 1 = HashSize)
        BY <1>0, <1>4, <4>1
      <4>. QED
        BY <1>0, <2>3, <4>1, <4>2, CountEnds
    <3>. QED
      BY <3>1, <3>2
  <2>. QED
    BY <1>4, <2>1, <2>2, <2>3 DEF GentleInv, Gentle, Finished
<1> HIDE DEF h
<1>. QED
  BY <1>2, <1>3, <1>4, Zenon DEF Advance, h

LEMMA NextGentle == ASSUME HashTypes, GentleInv, HashNext PROVE GentleInv'
<1>1. Facing(buckets, p0, p1, seen)
  BY DEF GentleInv, Gentle, Finished, OnWay, Facing
<1>2. p0 \in 0 .. HashSize /\ seen \in Iteration /\ Advance(p0, p1, seen) /\ UNCHANGED buckets
  BY DEF HashTypes, HashNext
<1>3. p1 = Null \/ (p1 \in Keys /\ In(buckets, p1))
  BY DEF HashTypes, HashNext
<1>. QED
  BY <1>1, <1>2, <1>3, AdvanceGentle

\* drmHashFirst: nothing has been returned, and the pointer is at the top of list 0.
Top == IF 0 \in Lists /\ buckets[0] # <<>> THEN buckets[0][1].key ELSE Null
Fresh == [NoIteration EXCEPT !.gentle = TRUE]

LEMMA FirstBefore ==
    ASSUME HashTypes
    PROVE  /\ 0 \in 0 .. HashSize /\ Fresh \in Iteration
           /\ Top = Null \/ (Top \in Keys /\ In(buckets, Top))
           /\ Facing(buckets, 0, Top, Fresh)
<1>1. 0 \in 0 .. HashSize /\ Fresh \in Iteration /\ Fresh.count = [k \in Keys |-> 0] /\ ~Fresh.done
  <2>1. [k \in Keys |-> 0] \in [Keys -> Nat]
    OBVIOUS
  <2>2. NoIteration \in Iteration
    BY <2>1 DEF NoIteration, Iteration
  <2>3. Fresh \in Iteration
    BY <2>2 DEF Fresh, Iteration
  <2>4. Fresh.count = NoIteration.count /\ Fresh.done = NoIteration.done
    BY <2>2 DEF Fresh, Iteration
  <2>5. NoIteration.count = [k \in Keys |-> 0] /\ NoIteration.done = FALSE
    BY DEF NoIteration
  <2>. QED
    BY <2>3, <2>4, <2>5, HashAssumption
<1>2. CASE 0 \in Lists /\ buckets[0] # <<>>
  <2>1. 1 \in DOMAIN buckets[0]
    <3>1. buckets[0] \in Seq(Bucket)
      BY <1>2 DEF HashTypes, Table
    <3>. QED
      BY <1>2, <3>1, LenProperties
  <2>2. Top = buckets[0][1].key
    BY <1>2 DEF Top
  <2>3. Top \in Keys /\ Hash[Top] = 0 /\ In(buckets, Top) /\ Place(buckets, Top) = 1
    BY <1>2, <2>1, <2>2, ListEntry DEF HashTypes
  <2>4. CountOk(buckets, 0, Top, Fresh.count)
    <3> SUFFICES ASSUME NEW j \in Keys, In(buckets, j)
                 PROVE  0 = IF Hash[j] < 0 THEN Visits(Hash[j])
                            ELSE IF Hash[j] > 0 THEN 0
                            ELSE (IF 0 = 1 THEN 1 ELSE 0)
                                 + (IF Behind(buckets, Top, j) THEN 1 ELSE 0)
      BY <1>1 DEF CountOk, Cur
    <3>1. Hash[j] \in Nat /\ Place(buckets, j) \in Nat /\ 1 <= Place(buckets, j)
      <4>1. Hash[j] \in Nat
        BY HashRange, HashAssumption
      <4>. QED
        BY <4>1, PlaceType DEF HashTypes
    <3>2. ~Behind(buckets, Top, j)
      BY <2>3, <3>1, NotKeys DEF Behind
    <3>. QED
      BY <3>1, <3>2
  <2>. QED
    BY <1>1, <2>3, <2>4, HashAssumption DEF Facing, PointsInto, Cur
<1>3. CASE ~(0 \in Lists /\ buckets[0] # <<>>)
  <2>1. Top = Null
    BY <1>3 DEF Top
  <2>2. CountOk(buckets, 0, Null, Fresh.count)
    <3> SUFFICES ASSUME NEW j \in Keys, In(buckets, j)
                 PROVE  Hash[j] \in Nat /\ Hash[j] # 0
      BY <1>1 DEF CountOk, Cur
    <3>1. Hash[j] \in Lists /\ buckets[Hash[j]] # <<>>
      BY HashRange DEF In, KeyIn
    <3>. QED
      BY <1>3, <3>1, HashRange, HashAssumption
  <2>. QED
    BY <1>1, <2>1, <2>2, HashAssumption DEF Facing, PointsInto
<1>. QED
  BY <1>2, <1>3

LEMMA FirstGentle == ASSUME HashTypes, HashFirst PROVE GentleInv'
<1>1. Advance(0, Top, Fresh) /\ UNCHANGED buckets
  BY Zenon DEF HashFirst, Top, Fresh
<1>. QED
  BY <1>1, FirstBefore, AdvanceGentle

LEMMA IterationStep ==
    ASSUME HashTypes, HashFirst \/ HashNext
    PROVE  HashTypes' /\ Mapping!Step
<1>1. CASE HashFirst
  <2>1. Advance(0, Top, Fresh) /\ UNCHANGED buckets
    BY <1>1, Zenon DEF HashFirst, Top, Fresh
  <2>. QED
    BY <2>1, FirstBefore, AdvanceStep
<1>2. CASE HashNext
  <2>1. p0 \in 0 .. HashSize /\ seen \in Iteration /\ Advance(p0, p1, seen) /\ UNCHANGED buckets
    BY <1>2 DEF HashTypes, HashNext
  <2>2. p1 = Null \/ (p1 \in Keys /\ In(buckets, p1))
    BY <1>2 DEF HashTypes, HashNext
  <2>. QED
    BY <2>1, <2>2, AdvanceStep
<1>. QED
  BY <1>1, <1>2

\* A step of the table keeps the invariants and is a step of the mapping.
LEMMA TableStep ==
    ASSUME HashTypes, [HashSteps]_hashVars
    PROVE  HashTypes' /\ [Mapping!MapNext]_(Mapping!table)
<1>1. ASSUME NEW k \in Keys, Lookup(k)
      PROVE  HashTypes' /\ Mapping!MapNext
  BY <1>1, LookupStep DEF Mapping!MapNext
<1>2. ASSUME NEW k \in Keys, Delete(k)
      PROVE  HashTypes' /\ Mapping!MapNext
  BY <1>2, DeleteStep DEF Mapping!MapNext
<1>3. ASSUME NEW k \in Keys, NEW v \in Vals, Insert(k, v)
      PROVE  HashTypes' /\ Mapping!MapNext
  BY <1>3, InsertStep DEF Mapping!MapNext
<1>4. ASSUME HashFirst \/ HashNext
      PROVE  HashTypes' /\ Mapping!MapNext
  BY <1>4, IterationStep DEF Mapping!MapNext
<1>5. ASSUME UNCHANGED hashVars
      PROVE  HashTypes' /\ UNCHANGED Mapping!table
  BY <1>5 DEF hashVars, HashTypes, Mapping!table, Contents
<1>. QED
  BY <1>1, <1>2, <1>3, <1>4, <1>5 DEF HashSteps

LEMMA GentleStep ==
    ASSUME HashTypes, GentleInv, [HashSteps]_hashVars
    PROVE  GentleInv'
<1>1. ASSUME NEW k \in Keys, NEW v \in Vals, Insert(k, v)
      PROVE  GentleInv'
  <2>1. ~seen'.gentle
    BY <1>1 DEF Insert, HashTypes, Iteration
  <2>. QED
    BY <2>1 DEF GentleInv, Gentle
<1>2. CASE UNCHANGED hashVars
  BY <1>2 DEF hashVars, GentleInv
<1>. QED
  BY <1>1, <1>2, LookupGentle, DeleteGentle, NextGentle, FirstGentle DEF HashSteps

LEMMA InitGentle == ASSUME HashInit PROVE GentleInv
  BY DEF HashInit, NoIteration, GentleInv, Gentle

\* Every reachable table has its types: no key is twice in it, or in the list of another.
THEOREM HashTypeCorrect == HashSpec => []HashTypeOK
<1>1. HashInit => HashTypes
  BY InitTable
<1>2. HashTypes /\ [HashSteps]_hashVars => HashTypes'
  BY TableStep
<1>3. HashTypes => HashTypeOK
  BY TypesAreTypeOK
<1>. QED
  BY <1>1, <1>2, <1>3, PTL DEF HashSpec

\* Whatever the calls and the keys, an iteration in which the program only looks up or
\* deletes what was returned last never uses a freed bucket, and it returns every key that
\* is left: those of list 0 twice, those of the last list never.
THEOREM GentleIterations == HashSpec => []GentleVisits
<1>1. HashInit => HashTypes /\ GentleInv
  BY InitTable, InitGentle
<1>2. (HashTypes /\ GentleInv) /\ [HashSteps]_hashVars => (HashTypes /\ GentleInv)'
  BY TableStep, GentleStep
<1>3. HashTypes /\ GentleInv => GentleVisits
  BY GentleVisitsRight
<1>. QED
  BY <1>1, <1>2, <1>3, PTL DEF HashSpec

\* drmHash implements the mapping of xf86drm.h: no reordering of a list, and no iteration,
\* is seen by its callers.
THEOREM TableIsMapping == HashSpec => IsMapping
<1>1. HashInit => HashTypes /\ Mapping!MapInit
  BY InitTable
<1>2. HashTypes /\ [HashSteps]_hashVars => HashTypes' /\ [Mapping!MapNext]_(Mapping!table)
  BY TableStep
<1>. QED
  BY <1>1, <1>2, PTL DEF HashSpec, IsMapping, Mapping!MapSpec
-----------------------------------------------------------------------------
(***************************************************************************)
(* Connections.  An array in which each node and each descriptor occurs    *)
(* once, and what drmCloseOnce makes of it.                                *)
(***************************************************************************)
LEMMA MinOf ==
    ASSUME NEW S \in SUBSET Nat, S # {}
    PROVE  Min(S) \in S /\ \A k \in S : Min(S) <= k
  BY LeastElement DEF Min

\* The last element takes the place of another.
TookPlace(S, c, i, d) ==
    /\ d \in Seq(S) /\ Len(d) = Len(c) - 1
    /\ \A j \in 1 .. Len(d) : d[j] = IF j = i THEN c[Len(c)] ELSE c[j]

LEMMA LastMoved ==
    ASSUME NEW S, NEW c \in Seq(S), NEW i \in DOMAIN c PROVE TookPlace(S, c, i, MoveLast(c, i))
<1> DEFINE e == [c EXCEPT ![i] = c[Len(c)]]
<1>1. Len(c) \in Nat /\ DOMAIN c = 1 .. Len(c) /\ \A j \in 1 .. Len(c) : c[j] \in S
  BY LenProperties
<1>2. Len(c) \in 1 .. Len(c)
  BY <1>1
<1>3. e \in Seq(S) /\ Len(e) = Len(c)
  BY <1>1, <1>2, ExceptSeq
<1>4. \A j \in 1 .. Len(c) : e[j] = IF j = i THEN c[Len(c)] ELSE c[j]
  BY <1>1
<1> HIDE DEF e
<1>5. \A j \in 1 .. Len(c) - 1 : e[j] \in S
  BY <1>1, <1>3, LenProperties
<1>6. /\ SubSeq(e, 1, Len(c) - 1) \in Seq(S)
      /\ Len(SubSeq(e, 1, Len(c) - 1)) = IF 1 <= Len(c) - 1 THEN Len(c) - 1 - 1 + 1 ELSE 0
      /\ \A j \in 1 .. Len(c) - 1 - 1 + 1 : SubSeq(e, 1, Len(c) - 1)[j] = e[1 + j - 1]
  <2>1. 1 \in Int /\ Len(c) - 1 \in Int
    BY <1>1
  <2>. QED
    BY <1>5, <2>1, SubSeqProperties
<1>7. MoveLast(c, i) = SubSeq(e, 1, Len(c) - 1)
  <2>1. Len(e) = Len(c)
    BY <1>3
  <2>. QED
    BY <2>1 DEF MoveLast, e
<1>8. \A j \in 1 .. Len(c) - 1 : 1 + j - 1 = j /\ j \in 1 .. Len(c) /\ j \in 1 .. Len(c) - 1 - 1 + 1
  BY <1>1
<1>9. Len(SubSeq(e, 1, Len(c) - 1)) = Len(c) - 1
  BY <1>1, <1>2, <1>6
<1>. QED
  BY <1>4, <1>6, <1>7, <1>8, <1>9 DEF TookPlace

NodeEntry == [fd : Fds \union {NoFd}, tags : SUBSET (Contexts \X Tags)]
History == [tidy : BOOLEAN, held : [Fds -> 0 .. MaxHeld],
            origin : [Fds -> {"none", "open", "once", "unsaved"}]]

ConnTypes ==
    /\ open \in [Fds -> Nodes \union {NoNode}]
    /\ conn \in Seq(Connection) /\ Len(conn) <= MaxFds
    /\ entry \in [Nodes \union {NoNode} -> NodeEntry]
    /\ past \in History

ConnInv == ConnTypes /\ EntryIsOpen /\ OpenIsCounted

LEMMA ConnTypesOK == ASSUME ConnTypes PROVE ConnectTypeOK
  BY DEF ConnTypes, ConnectTypeOK, NodeEntry, History

LEMMA UnopenedFd ==
    ASSUME Unopened # {}
    PROVE  Min(Unopened) \in Fds /\ open[Min(Unopened)] = NoNode
<1>1. Unopened \in SUBSET Nat
  BY ConnectAssumption DEF Unopened
<1>2. Min(Unopened) \in Unopened
  BY <1>1, MinOf
<1>. QED
  BY <1>2 DEF Unopened

LEMMA ConnAt ==
    ASSUME ConnTypes, NEW i \in DOMAIN conn
    PROVE  /\ conn[i] \in Connection /\ conn[i].node \in Nodes /\ conn[i].fd \in Fds
           /\ conn[i].refcount \in Nat /\ 1 <= conn[i].refcount /\ conn[i].refcount <= MaxHeld
<1>1. conn[i] \in Connection
  BY LenProperties DEF ConnTypes
<1>. QED
  BY <1>1, ConnectAssumption DEF Connection

\* What Past records.
Recorded(t, fd, h, o) ==
    /\ past' \in History
    /\ past'.tidy => /\ past.tidy /\ t
                     /\ past'.held = [past.held EXCEPT ![fd] = h]
                     /\ past'.origin = [past.origin EXCEPT ![fd] = o]
Origins == {"none", "open", "once", "unsaved"}

LEMMA PastIs ==
    ASSUME past \in History, NEW t \in BOOLEAN, NEW fd \in Fds, NEW h, NEW o \in Origins,
           Past(t, fd, h, o), past.tidy /\ t => h \in 0 .. MaxHeld
    PROVE  Recorded(t, fd, h, o)
<1>1. CASE past.tidy /\ t
  <2>1. past' = [past EXCEPT !.held = [past.held EXCEPT ![fd] = h],
                            !.origin = [past.origin EXCEPT ![fd] = o]]
    BY <1>1 DEF Past, History
  <2>2. /\ [past.held EXCEPT ![fd] = h] \in [Fds -> 0 .. MaxHeld]
        /\ [past.origin EXCEPT ![fd] = o] \in [Fds -> {"none", "open", "once", "unsaved"}]
    BY <1>1 DEF History, Origins
  <2>. QED
    BY <1>1, <2>1, <2>2 DEF History, Recorded
<1>2. CASE ~(past.tidy /\ t)
  <2>1. past' = [Tidy EXCEPT !.tidy = FALSE]
    BY <1>2 DEF Past
  <2>2. [fd_1 \in Fds |-> 0] \in [Fds -> 0 .. MaxHeld]
    BY ConnectAssumption
  <2>. QED
    BY <2>1, <2>2 DEF Tidy, History, Recorded
<1>. QED
  BY <1>1, <1>2

\* An entry whose node loses a descriptor is dropped, and no other names it.
LEMMA EntriesDropped ==
    ASSUME ConnTypes, EntryIsOpen, NEW fd \in Fds,
           open' = [open EXCEPT ![fd] = NoNode], entry' = DropEntry(fd)
    PROVE  /\ open' \in [Fds -> Nodes \union {NoNode}]
           /\ entry' \in [Nodes \union {NoNode} -> NodeEntry]
           /\ EntryIsOpen'
<1>1. NoEntry \in NodeEntry
  BY DEF NoEntry, NodeEntry
<1>2. open[fd] \in Nodes \union {NoNode}
  BY DEF ConnTypes
<1>3. entry' = [entry EXCEPT ![open[fd]] = NoEntry]
  BY DEF DropEntry
<1>4. ASSUME NEW n \in Nodes, entry'[n] # NoEntry
      PROVE  entry'[n].fd # NoFd /\ open'[entry'[n].fd] = n
  <2>1. n # open[fd] /\ entry'[n] = entry[n]
    BY <1>2, <1>3, <1>4 DEF ConnTypes
  <2>2. entry[n].fd # NoFd /\ open[entry[n].fd] = n
    BY <1>4, <2>1 DEF EntryIsOpen
  <2>3. entry[n].fd # fd
    BY <2>1, <2>2
  <2>4. entry[n].fd \in Fds
    BY <2>2 DEF ConnTypes, NodeEntry
  <2>. QED
    BY <2>1, <2>2, <2>3, <2>4 DEF ConnTypes
<1>. QED
  BY <1>1, <1>2, <1>3, <1>4 DEF ConnTypes, EntryIsOpen

\* A descriptor that comes into use is in no entry.
LEMMA EntriesStay ==
    ASSUME ConnTypes, EntryIsOpen, NEW fd \in Fds, open[fd] = NoNode, NEW n \in Nodes,
           open' = [open EXCEPT ![fd] = n], UNCHANGED entry
    PROVE  open' \in [Fds -> Nodes \union {NoNode}] /\ EntryIsOpen'
<1>1. ASSUME NEW m \in Nodes, entry[m] # NoEntry
      PROVE  entry[m].fd # NoFd /\ open'[entry[m].fd] = m
  <2>1. entry[m].fd # NoFd /\ open[entry[m].fd] = m
    BY <1>1 DEF EntryIsOpen
  <2>2. entry[m].fd # fd
    BY <2>1, ConnectAssumption
  <2>3. entry[m].fd \in Fds
    BY <2>1 DEF ConnTypes, NodeEntry
  <2>. QED
    BY <2>1, <2>2, <2>3 DEF ConnTypes
<1>. QED
  BY <1>1 DEF ConnTypes, EntryIsOpen

LEMMA EntryMade ==
    ASSUME ConnTypes, EntryIsOpen, NEW fd \in Fds, NEW tags \in SUBSET (Contexts \X Tags),
           \/ entry' = [entry EXCEPT ![open[fd]] = [GetEntry(fd) EXCEPT !.tags = tags]]
           \/ entry' = [entry EXCEPT ![open[fd]] = GetEntry(fd)],
           UNCHANGED <<open, conn, past>>
    PROVE  ConnTypes' /\ EntryIsOpen'
<1> DEFINE n == open[fd]
<1>1. n \in Nodes \union {NoNode} /\ entry[n] \in NodeEntry
  BY DEF ConnTypes
<1>2. GetEntry(fd) \in NodeEntry /\ (n \in Nodes => GetEntry(fd).fd # NoFd /\ open[GetEntry(fd).fd] = n)
  <2>1. CASE entry[n] = NoEntry
    <3>1. GetEntry(fd) = [fd |-> fd, tags |-> {}]
      BY <2>1 DEF GetEntry
    <3>. QED
      BY <3>1, ConnectAssumption DEF NodeEntry
  <2>2. CASE entry[n] # NoEntry
    <3>1. GetEntry(fd) = entry[n]
      BY <2>2 DEF GetEntry
    <3>. QED
      BY <1>1, <2>2, <3>1 DEF EntryIsOpen
  <2>. QED
    BY <2>1, <2>2
<1>3. \E e \in NodeEntry : entry' = [entry EXCEPT ![n] = e] /\ e.fd = GetEntry(fd).fd
  <2>1. [GetEntry(fd) EXCEPT !.tags = tags] \in NodeEntry
         /\ [GetEntry(fd) EXCEPT !.tags = tags].fd = GetEntry(fd).fd
    BY <1>2 DEF NodeEntry
  <2>. QED
    BY <1>2, <2>1
<1> HIDE DEF n
<1>. QED
  BY <1>1, <1>2, <1>3 DEF ConnTypes, EntryIsOpen, n

\* The tags of an entry, and what is counted while no connection changes.
LEMMA TagsOf == ASSUME ConnTypes, NEW fd \in Fds PROVE GetEntry(fd).tags \in SUBSET (Contexts \X Tags)
<1>1. open[fd] \in Nodes \union {NoNode} /\ entry[open[fd]] \in NodeEntry
  BY DEF ConnTypes
<1>. QED
  BY <1>1 DEF GetEntry, NodeEntry

LEMMA CountStays == ASSUME OpenIsCounted, UNCHANGED <<open, conn, past>> PROVE OpenIsCounted'
  BY DEF OpenIsCounted, SharedIsCounted, OnlyUnsavedLeak, Saved

LEMMA OpenStep == ASSUME ConnInv, NEW n \in Nodes, Open(n) PROVE ConnInv'
<1> DEFINE fd == Min(Unopened)
<1>1. fd \in Fds /\ open[fd] = NoNode
  BY UnopenedFd DEF Open
<1>2. open' = [open EXCEPT ![fd] = n] /\ UNCHANGED entry /\ UNCHANGED conn
  BY DEF Open
<1>3. Past(TRUE, fd, 0, "open")
  BY DEF Open
<1> HIDE DEF fd
<1>4. open' \in [Fds -> Nodes \union {NoNode}] /\ EntryIsOpen'
  BY <1>1, <1>2, EntriesStay DEF ConnInv
<1>5. /\ past' \in History
      /\ past'.tidy => /\ past.tidy
                       /\ past'.held = [past.held EXCEPT ![fd] = 0]
                       /\ past'.origin = [past.origin EXCEPT ![fd] = "open"]
  <2>1. past \in History /\ TRUE \in BOOLEAN /\ "open" \in Origins /\ 0 \in 0 .. MaxHeld
    BY ConnectAssumption DEF ConnInv, ConnTypes, Origins
  <2>2. Recorded(TRUE, fd, 0, "open")
    BY <1>1, <1>3, <2>1, PastIs, Zenon
  <2>. QED
    BY <2>2 DEF Recorded
<1>6. ASSUME past'.tidy
      PROVE  SharedIsCounted' /\ OnlyUnsavedLeak'
  <2>1. SharedIsCounted /\ OnlyUnsavedLeak
    BY <1>5, <1>6 DEF ConnInv, OpenIsCounted
  <2>2. \A i \in DOMAIN conn : conn[i].fd # fd /\ conn[i].fd \in Fds
    BY <1>1, <2>1, ConnAt, ConnectAssumption DEF ConnInv, SharedIsCounted
  <2>3. SharedIsCounted'
    BY <1>1, <1>2, <1>5, <1>6, <2>1, <2>2 DEF ConnInv, ConnTypes, SharedIsCounted, History
  <2>4. \A g \in Fds : g # fd => past'.held[g] = past.held[g] /\ past'.origin[g] = past.origin[g]
    BY <1>5, <1>6 DEF ConnInv, ConnTypes, History
  <2>5. past'.origin[fd] # "once" /\ Saved' = Saved
    BY <1>1, <1>2, <1>5, <1>6 DEF ConnInv, ConnTypes, History, Saved
  <2>6. OnlyUnsavedLeak'
    BY <2>1, <2>4, <2>5 DEF OnlyUnsavedLeak
  <2>. QED
    BY <2>3, <2>6
<1>. QED
  BY <1>2, <1>4, <1>5, <1>6 DEF ConnInv, ConnTypes, OpenIsCounted

LEMMA CloseStep == ASSUME ConnInv, NEW fd \in Fds, Close(fd) PROVE ConnInv'
<1>1. open' = [open EXCEPT ![fd] = NoNode] /\ entry' = DropEntry(fd) /\ UNCHANGED conn
  BY DEF Close
<1>2. /\ open' \in [Fds -> Nodes \union {NoNode}]
      /\ entry' \in [Nodes \union {NoNode} -> NodeEntry]
      /\ EntryIsOpen'
  BY <1>1, EntriesDropped DEF ConnInv
<1>3. Past(open[fd] # NoNode /\ fd \notin Saved, fd, 0, "none")
  BY DEF Close
<1>4. /\ past' \in History
      /\ past'.tidy => /\ past.tidy /\ fd \notin Saved
                       /\ past'.held = [past.held EXCEPT ![fd] = 0]
                       /\ past'.origin = [past.origin EXCEPT ![fd] = "none"]
  <2>1. past \in History /\ "none" \in Origins /\ 0 \in 0 .. MaxHeld
    BY ConnectAssumption DEF ConnInv, ConnTypes, Origins
  <2>2. (open[fd] # NoNode /\ fd \notin Saved) \in BOOLEAN
    OBVIOUS
  <2>3. Recorded(open[fd] # NoNode /\ fd \notin Saved, fd, 0, "none")
    BY <1>3, <2>1, <2>2, PastIs, Zenon
  <2>. QED
    BY <2>3 DEF Recorded
<1>5. ASSUME past'.tidy
      PROVE  SharedIsCounted' /\ OnlyUnsavedLeak'
  <2>1. SharedIsCounted /\ OnlyUnsavedLeak
    BY <1>4, <1>5 DEF ConnInv, OpenIsCounted
  <2>2. \A i \in DOMAIN conn : conn[i].fd # fd /\ conn[i].fd \in Fds
    BY <1>4, <1>5, ConnAt DEF ConnInv, Saved
  <2>3. SharedIsCounted'
    BY <1>1, <1>4, <1>5, <2>1, <2>2 DEF ConnInv, ConnTypes, SharedIsCounted, History
  <2>4. \A g \in Fds : g # fd => past'.held[g] = past.held[g] /\ past'.origin[g] = past.origin[g]
    BY <1>4, <1>5 DEF ConnInv, ConnTypes, History
  <2>5. past'.origin[fd] # "once" /\ Saved' = Saved
    BY <1>1, <1>4, <1>5 DEF ConnInv, ConnTypes, History, Saved
  <2>6. OnlyUnsavedLeak'
    BY <2>1, <2>4, <2>5 DEF OnlyUnsavedLeak
  <2>. QED
    BY <2>3, <2>6
<1>. QED
  BY <1>1, <1>2, <1>4, <1>5 DEF ConnInv, ConnTypes, OpenIsCounted

LEMMA OpenSharedStep == ASSUME ConnInv, NEW n \in Nodes, OpenShared(n) PROVE ConnInv'
<1>1. PICK i \in DOMAIN conn :
        /\ conn[i].refcount < MaxHeld
        /\ conn' = [conn EXCEPT ![i].refcount = @ + 1]
        /\ Past(TRUE, conn[i].fd, past.held[conn[i].fd] + 1, "once")
  BY DEF OpenShared
<1>2. UNCHANGED <<open, entry>>
  BY DEF OpenShared
<1> DEFINE fd == conn[i].fd
           more == [conn[i] EXCEPT !.refcount = @ + 1]
<1>3. /\ conn[i] \in Connection /\ fd \in Fds
      /\ conn[i].refcount \in Nat /\ 1 <= conn[i].refcount
  BY ConnAt DEF ConnInv
<1>4. more \in Connection /\ more.fd = fd /\ more.node = conn[i].node
      /\ more.refcount = conn[i].refcount + 1
  BY <1>1, <1>3, ConnectAssumption DEF Connection
<1>5. /\ conn' \in Seq(Connection) /\ Len(conn') = Len(conn) /\ DOMAIN conn' = DOMAIN conn
      /\ \A j \in DOMAIN conn : conn'[j] = IF j = i THEN more ELSE conn[j]
  <2>1. conn \in Seq(Connection) /\ DOMAIN conn = 1 .. Len(conn)
    BY LenProperties DEF ConnInv, ConnTypes
  <2>2. conn' = [conn EXCEPT ![i] = more]
    BY <1>1
  <2> HIDE DEF more
  <2>. QED
    BY <1>4, <2>1, <2>2, ExceptSeq
<1>6. past.tidy => SharedIsCounted /\ OnlyUnsavedLeak
  BY DEF ConnInv, OpenIsCounted
<1>7. past.tidy => past.held[fd] + 1 \in 0 .. MaxHeld
  <2>1. past.tidy => past.held[fd] = conn[i].refcount
    BY <1>6 DEF SharedIsCounted
  <2>. QED
    BY <1>1, <1>3, <2>1, ConnectAssumption
<1>8. /\ past' \in History
      /\ past'.tidy => /\ past.tidy
                       /\ past'.held = [past.held EXCEPT ![fd] = past.held[fd] + 1]
                       /\ past'.origin = [past.origin EXCEPT ![fd] = "once"]
  <2>1. past \in History /\ TRUE \in BOOLEAN /\ "once" \in Origins
    BY DEF ConnInv, ConnTypes, Origins
  <2>2. Recorded(TRUE, fd, past.held[fd] + 1, "once")
    BY <1>1, <1>3, <1>7, <2>1, PastIs, Zenon
  <2>. QED
    BY <2>2 DEF Recorded
<1> HIDE DEF more
<1>9. ASSUME past'.tidy
      PROVE  SharedIsCounted' /\ OnlyUnsavedLeak'
  <2>1. SharedIsCounted /\ OnlyUnsavedLeak
    BY <1>6, <1>8, <1>9
  <2>2. \A j \in DOMAIN conn : conn'[j].fd = conn[j].fd /\ conn'[j].node = conn[j].node
    BY <1>4, <1>5
  <2>3. ASSUME NEW j \in DOMAIN conn
        PROVE  conn'[j].refcount = past'.held[conn[j].fd]
    <3>1. CASE j = i
      BY <1>3, <1>4, <1>5, <1>8, <1>9, <2>1, <3>1 DEF ConnInv, ConnTypes, SharedIsCounted, History
    <3>2. CASE j # i
      <4>1. conn[j].fd # fd /\ conn[j].fd \in Fds
        BY <2>1, <3>2, ConnAt DEF SharedIsCounted, ConnInv
      <4>. QED
        BY <1>5, <1>8, <1>9, <2>1, <3>2, <4>1 DEF ConnInv, ConnTypes, SharedIsCounted, History
    <3>. QED
      BY <3>1, <3>2
  <2>4. SharedIsCounted'
    BY <1>2, <1>5, <2>1, <2>2, <2>3 DEF SharedIsCounted
  <2>5. Saved' = Saved /\ fd \in Saved
    BY <1>5, <2>2 DEF Saved
  <2>6. past'.held[fd] > 0
    BY <1>3, <1>8, <1>9 DEF ConnInv, ConnTypes, History
  <2>7. \A g \in Fds : g # fd => past'.held[g] = past.held[g] /\ past'.origin[g] = past.origin[g]
    BY <1>8, <1>9 DEF ConnInv, ConnTypes, History
  <2>8. OnlyUnsavedLeak'
    BY <2>1, <2>5, <2>6, <2>7 DEF OnlyUnsavedLeak
  <2>. QED
    BY <2>4, <2>8
<1>. QED
  BY <1>2, <1>5, <1>8, <1>9 DEF ConnInv, ConnTypes, OpenIsCounted, EntryIsOpen

LEMMA OpenNewStep == ASSUME ConnInv, NEW n \in Nodes, OpenNew(n) PROVE ConnInv'
<1> DEFINE fd == Min(Unopened)
           room == Len(conn) < MaxFds
           new == [node |-> n, fd |-> fd, refcount |-> 1]
<1>1. fd \in Fds /\ open[fd] = NoNode /\ \A i \in DOMAIN conn : conn[i].node # n
  BY UnopenedFd DEF OpenNew
<1>2. /\ open' = [open EXCEPT ![fd] = n] /\ UNCHANGED entry
      /\ Past(TRUE, fd, 1, IF room THEN "once" ELSE "unsaved")
      /\ conn' = IF room THEN Append(conn, new) ELSE conn
  BY DEF OpenNew
<1> HIDE DEF fd
<1>3. open' \in [Fds -> Nodes \union {NoNode}] /\ EntryIsOpen'
  BY <1>1, <1>2, EntriesStay DEF ConnInv
<1>4. new \in Connection /\ 1 \in 0 .. MaxHeld
  BY <1>1, ConnectAssumption DEF Connection
<1>5. /\ past' \in History
      /\ past'.tidy => /\ past.tidy
                       /\ past'.held = [past.held EXCEPT ![fd] = 1]
                       /\ past'.origin = [past.origin EXCEPT ![fd] = IF room THEN "once" ELSE "unsaved"]
  <2> DEFINE o == IF room THEN "once" ELSE "unsaved"
  <2>1. past \in History /\ TRUE \in BOOLEAN /\ o \in Origins
    BY DEF ConnInv, ConnTypes, Origins
  <2>2. Past(TRUE, fd, 1, o)
    BY <1>2
  <2> HIDE DEF o
  <2>3. Recorded(TRUE, fd, 1, o)
    BY <1>1, <1>4, <2>1, <2>2, PastIs, Zenon
  <2>. QED
    BY <2>3 DEF Recorded, o
<1>6. conn \in Seq(Connection) /\ Len(conn) \in Nat /\ DOMAIN conn = 1 .. Len(conn)
  BY LenProperties DEF ConnInv, ConnTypes
<1>7. CASE room
  <2>1. /\ conn' \in Seq(Connection) /\ Len(conn') = Len(conn) + 1
        /\ DOMAIN conn' = 1 .. Len(conn) + 1
        /\ \A i \in 1 .. Len(conn) + 1 : conn'[i] = IF i <= Len(conn) THEN conn[i] ELSE new
    <3> HIDE DEF new
    <3>1. conn' = Append(conn, new)
      BY <1>2, <1>7
    <3>. QED
      BY <1>4, <1>6, <3>1, AppendProperties
  <2>2. ASSUME past'.tidy
        PROVE  SharedIsCounted' /\ OnlyUnsavedLeak'
    <3>1. SharedIsCounted /\ OnlyUnsavedLeak
      BY <1>5, <2>2 DEF ConnInv, OpenIsCounted
    <3>2. ASSUME NEW i \in DOMAIN conn
          PROVE  /\ conn[i].fd # fd /\ conn[i].fd \in Fds
                 /\ open'[conn[i].fd] = conn[i].node
                 /\ conn[i].refcount = past'.held[conn[i].fd]
      <4>1. conn[i].fd # fd /\ conn[i].fd \in Fds
        BY <1>1, <3>1, ConnAt, ConnectAssumption DEF ConnInv, SharedIsCounted
      <4>. QED
        BY <1>2, <1>5, <2>2, <3>1, <4>1 DEF SharedIsCounted, ConnInv, ConnTypes, History
    <3>3. open'[fd] = n /\ past'.held[fd] = 1
      BY <1>1, <1>2, <1>5, <2>2 DEF ConnInv, ConnTypes, History
    <3>4. \A i \in DOMAIN conn' : \/ i \in DOMAIN conn /\ conn'[i] = conn[i]
                                  \/ i = Len(conn) + 1 /\ conn'[i] = new
      BY <1>6, <2>1
    <3>5. new.node = n /\ new.fd = fd /\ new.refcount = 1
      OBVIOUS
    <3> HIDE DEF new
    <3>6. SharedIsCounted'
      BY <1>1, <3>1, <3>2, <3>3, <3>4, <3>5 DEF SharedIsCounted
    <3>7. Saved' = Saved \union {fd}
      <4>1. \A i \in DOMAIN conn : i \in DOMAIN conn' /\ conn'[i] = conn[i]
        BY <1>6, <2>1
      <4>2. Len(conn) + 1 \in DOMAIN conn' /\ conn'[Len(conn) + 1] = new
        BY <1>6, <2>1
      <4>. QED
        BY <3>4, <3>5, <4>1, <4>2 DEF Saved
    <3>8. \A g \in Fds : g # fd => past'.held[g] = past.held[g] /\ past'.origin[g] = past.origin[g]
      BY <1>5, <2>2 DEF ConnInv, ConnTypes, History
    <3>9. OnlyUnsavedLeak'
      BY <3>1, <3>3, <3>7, <3>8 DEF OnlyUnsavedLeak
    <3>. QED
      BY <3>6, <3>9
  <2>. QED
    BY <1>2, <1>3, <1>5, <1>6, <1>7, <2>1, <2>2, ConnectAssumption
       DEF ConnInv, ConnTypes, OpenIsCounted
<1>8. CASE ~room
  <2>1. ASSUME past'.tidy
        PROVE  SharedIsCounted' /\ OnlyUnsavedLeak'
    <3>1. SharedIsCounted /\ OnlyUnsavedLeak /\ conn' = conn
      BY <1>2, <1>5, <1>8, <2>1 DEF ConnInv, OpenIsCounted
    <3>2. \A i \in DOMAIN conn : conn[i].fd # fd /\ conn[i].fd \in Fds
      BY <1>1, <3>1, ConnAt, ConnectAssumption DEF ConnInv, SharedIsCounted
    <3>3. SharedIsCounted'
      BY <1>1, <1>2, <1>5, <2>1, <3>1, <3>2 DEF ConnInv, ConnTypes, SharedIsCounted, History
    <3>4. \A g \in Fds : g # fd => past'.held[g] = past.held[g] /\ past'.origin[g] = past.origin[g]
      BY <1>5, <2>1 DEF ConnInv, ConnTypes, History
    <3>5. past'.origin[fd] # "once" /\ Saved' = Saved
      BY <1>1, <1>5, <1>8, <2>1, <3>1 DEF ConnInv, ConnTypes, History, Saved
    <3>6. OnlyUnsavedLeak'
      BY <3>1, <3>4, <3>5 DEF OnlyUnsavedLeak
    <3>. QED
      BY <3>3, <3>6
  <2>. QED
    BY <1>2, <1>3, <1>5, <1>8, <2>1 DEF ConnInv, ConnTypes, OpenIsCounted
<1>. QED
  BY <1>7, <1>8

\* drmCloseOnce when nobody's last connection is closed.
LEMMA ReleaseStep ==
    ASSUME ConnInv, NEW fd \in Fds, CloseOnce(fd), Unused(fd) = {}
    PROVE  ConnInv'
<1> DEFINE less(i) == IF conn[i].fd = fd THEN [conn[i] EXCEPT !.refcount = @ - 1] ELSE conn[i]
<1>1. conn \in Seq(Connection) /\ Len(conn) \in Nat /\ DOMAIN conn = 1 .. Len(conn)
  BY LenProperties DEF ConnInv, ConnTypes
<1>2. UNCHANGED <<open, entry>> /\ Past(past.held[fd] > 0, fd, past.held[fd] - 1, past.origin[fd])
  BY DEF CloseOnce
<1>3. conn' = [i \in 1 .. Len(conn) |-> less(i)]
  <2>1. conn' = Released(fd, Len(conn) + 1)
    BY DEF CloseOnce
  <2>2. \A i \in DOMAIN conn : i < Len(conn) + 1
    BY <1>1
  <2>. QED
    BY <1>1, <2>1, <2>2 DEF Released
<1>4. ASSUME NEW i \in DOMAIN conn
      PROVE  /\ less(i) \in Connection /\ less(i).fd = conn[i].fd /\ less(i).node = conn[i].node
             /\ less(i).refcount = (IF conn[i].fd = fd THEN conn[i].refcount - 1 ELSE conn[i].refcount)
             /\ conn[i].fd = fd => 2 <= conn[i].refcount
  <2>1. /\ conn[i] \in Connection /\ conn[i].refcount \in Nat /\ 1 <= conn[i].refcount
        /\ conn[i].refcount <= MaxHeld
    BY ConnAt DEF ConnInv
  <2>2. conn[i].fd = fd => conn[i].refcount # 1
    BY DEF Unused
  <2>3. conn[i].fd = fd => conn[i].refcount - 1 \in 1 .. MaxHeld
    BY <2>1, <2>2, ConnectAssumption
  <2>. QED
    BY <2>1, <2>2, <2>3 DEF Connection
<1> HIDE DEF less
<1>5. /\ conn' \in Seq(Connection) /\ Len(conn') = Len(conn) /\ DOMAIN conn' = DOMAIN conn
      /\ \A i \in DOMAIN conn : conn'[i] = less(i)
  <2>1. conn' \in [1 .. Len(conn) -> Connection]
    BY <1>1, <1>3, <1>4
  <2>. QED
    BY <1>1, <1>3, <2>1, FunctionIsSeq
<1>6. /\ past' \in History
      /\ past'.tidy => /\ past.tidy /\ past.held[fd] > 0
                       /\ past'.held = [past.held EXCEPT ![fd] = past.held[fd] - 1]
                       /\ past'.origin = [past.origin EXCEPT ![fd] = past.origin[fd]]
  <2>1. past \in History /\ past.held[fd] \in 0 .. MaxHeld
        /\ past.origin[fd] \in {"none", "open", "once", "unsaved"}
    BY DEF ConnInv, ConnTypes, History
  <2>2. past.held[fd] > 0 => past.held[fd] - 1 \in 0 .. MaxHeld
    BY <2>1, ConnectAssumption
  <2>3. (past.held[fd] > 0) \in BOOLEAN
    OBVIOUS
  <2>4. Recorded(past.held[fd] > 0, fd, past.held[fd] - 1, past.origin[fd])
    BY <1>2, <2>1, <2>2, <2>3, PastIs, Zenon DEF Origins
  <2>. QED
    BY <2>4 DEF Recorded
<1>7. ASSUME past'.tidy
      PROVE  SharedIsCounted' /\ OnlyUnsavedLeak'
  <2>1. SharedIsCounted /\ OnlyUnsavedLeak
    BY <1>6, <1>7 DEF ConnInv, OpenIsCounted
  <2>2. \A g \in Fds : /\ past'.held[g] = (IF g = fd THEN past.held[g] - 1 ELSE past.held[g])
                        /\ past'.origin[g] = past.origin[g]
    BY <1>6, <1>7 DEF ConnInv, ConnTypes, History
  <2>3. \A i \in DOMAIN conn : conn[i].fd \in Fds /\ conn[i].refcount = past.held[conn[i].fd]
    BY <2>1, ConnAt DEF ConnInv, SharedIsCounted
  <2>4. SharedIsCounted'
    BY <1>2, <1>4, <1>5, <2>1, <2>2, <2>3 DEF SharedIsCounted
  <2>5. Saved' = Saved
    BY <1>4, <1>5 DEF Saved
  <2>6. ASSUME NEW g \in Fds, past'.origin[g] = "once"
        PROVE  g \in Saved' /\ past'.held[g] > 0
    <3>1. g \in Saved /\ past.held[g] > 0
      BY <2>1, <2>2, <2>6 DEF OnlyUnsavedLeak
    <3>2. PICK i \in DOMAIN conn : conn[i].fd = g
      BY <3>1 DEF Saved
    <3>3. g = fd => 2 <= past.held[g]
      BY <1>4, <2>3, <3>2
    <3>4. past.held[g] \in Nat
      BY ConnectAssumption DEF ConnInv, ConnTypes, History
    <3>. QED
      BY <2>2, <2>5, <3>1, <3>3, <3>4
  <2>. QED
    BY <2>4, <2>6 DEF OnlyUnsavedLeak
<1>. QED
  BY <1>2, <1>5, <1>6, <1>7 DEF ConnInv, ConnTypes, OpenIsCounted, EntryIsOpen

\* drmCloseOnce when a connection is closed, and the last one takes its place.
LEMMA CloseLastStep ==
    ASSUME ConnInv, NEW fd \in Fds, CloseOnce(fd), Unused(fd) # {}
    PROVE  ConnInv'
<1> DEFINE u == Min(Unused(fd))
           rel == Released(fd, u)
           m(j) == IF j = u THEN Len(conn) ELSE j
<1>1. conn \in Seq(Connection) /\ Len(conn) \in Nat /\ DOMAIN conn = 1 .. Len(conn)
  BY LenProperties DEF ConnInv, ConnTypes
<1>2. u \in Unused(fd) /\ \A k \in Unused(fd) : u <= k
  <2>1. Unused(fd) \in SUBSET Nat
    BY <1>1 DEF Unused
  <2>. QED
    BY <2>1, MinOf
<1>3. u \in DOMAIN conn /\ conn[u].fd = fd /\ conn[u].refcount = 1
  BY <1>2 DEF Unused
<1>4. /\ conn' = MoveLast(rel, u)
      /\ open' = [open EXCEPT ![fd] = NoNode] /\ entry' = DropEntry(fd)
      /\ Past(past.held[fd] > 0, fd, past.held[fd] - 1, "none")
  BY DEF CloseOnce
<1> HIDE DEF u
<1>5. ASSUME NEW i \in DOMAIN conn
      PROVE  rel[i] \in Connection /\ (conn[i].fd # fd \/ ~(i < u) => rel[i] = conn[i])
  <2>1. rel[i] = IF conn[i].fd = fd /\ i < u THEN [conn[i] EXCEPT !.refcount = @ - 1] ELSE conn[i]
    BY DEF Released
  <2>2. /\ conn[i] \in Connection /\ conn[i].refcount \in Nat /\ 1 <= conn[i].refcount
        /\ conn[i].refcount <= MaxHeld
    BY ConnAt DEF ConnInv
  <2>3. conn[i].fd = fd /\ i < u => conn[i].refcount # 1
    <3>1. i \in Nat /\ u \in Nat
      BY <1>1, <1>3
    <3>2. conn[i].fd = fd /\ conn[i].refcount = 1 => u <= i
      BY <1>2 DEF Unused
    <3>. QED
      BY <3>1, <3>2
  <2>4. conn[i].fd = fd /\ i < u => conn[i].refcount - 1 \in 1 .. MaxHeld
    BY <2>2, <2>3, ConnectAssumption
  <2>. QED
    BY <2>1, <2>2, <2>4 DEF Connection
<1>6. rel \in Seq(Connection) /\ Len(rel) = Len(conn) /\ DOMAIN rel = DOMAIN conn
  <2>1. rel \in [1 .. Len(conn) -> Connection]
    BY <1>1, <1>5 DEF Released
  <2>. QED
    BY <1>1, <2>1, FunctionIsSeq
<1> HIDE DEF rel
<1>7. /\ conn' \in Seq(Connection) /\ Len(conn') = Len(conn) - 1
      /\ DOMAIN conn' = 1 .. Len(conn) - 1
      /\ \A j \in 1 .. Len(conn) - 1 : conn'[j] = rel[m(j)]
  <2> DEFINE d == MoveLast(rel, u)
  <2>1. /\ d \in Seq(Connection) /\ Len(d) = Len(rel) - 1
        /\ \A j \in 1 .. Len(d) : d[j] = IF j = u THEN rel[Len(rel)] ELSE rel[j]
    <3>1. u \in DOMAIN rel
      BY <1>3, <1>6
    <3>2. TookPlace(Connection, rel, u, d)
      BY <1>6, <3>1, LastMoved, Zenon
    <3>. QED
      BY <3>2 DEF TookPlace
  <2>2. conn' = d
    BY <1>4
  <2> HIDE DEF d
  <2>. QED
    BY <1>6, <2>1, <2>2, LenProperties
<1>8. \A j \in 1 .. Len(conn) - 1 : m(j) \in DOMAIN conn /\ m(j) # u
  BY <1>1, <1>3
<1>9. /\ open' \in [Fds -> Nodes \union {NoNode}]
      /\ entry' \in [Nodes \union {NoNode} -> NodeEntry]
      /\ EntryIsOpen'
  BY <1>4, EntriesDropped DEF ConnInv
<1>10. /\ past' \in History
       /\ past'.tidy => /\ past.tidy /\ past.held[fd] > 0
                        /\ past'.held = [past.held EXCEPT ![fd] = past.held[fd] - 1]
                        /\ past'.origin = [past.origin EXCEPT ![fd] = "none"]
  <2>1. past \in History /\ past.held[fd] \in 0 .. MaxHeld /\ "none" \in Origins
    BY DEF ConnInv, ConnTypes, History, Origins
  <2>2. past.held[fd] > 0 => past.held[fd] - 1 \in 0 .. MaxHeld
    BY <2>1, ConnectAssumption
  <2>3. (past.held[fd] > 0) \in BOOLEAN
    OBVIOUS
  <2>4. Recorded(past.held[fd] > 0, fd, past.held[fd] - 1, "none")
    BY <1>4, <2>1, <2>2, <2>3, PastIs, Zenon
  <2>. QED
    BY <2>4 DEF Recorded
<1>11. ASSUME past'.tidy
       PROVE  SharedIsCounted' /\ OnlyUnsavedLeak'
  <2>1. SharedIsCounted /\ OnlyUnsavedLeak
    BY <1>10, <1>11 DEF ConnInv, OpenIsCounted
  <2>2. \A i \in DOMAIN conn : conn[i].fd \in Fds /\ (conn[i].fd = fd => i = u)
    BY <1>3, <2>1, ConnAt DEF ConnInv, SharedIsCounted
  <2>3. \A j \in 1 .. Len(conn) - 1 : conn'[j] = conn[m(j)] /\ conn[m(j)].fd # fd
    <3>1. \A i \in DOMAIN conn : i # u => rel[i] = conn[i] /\ conn[i].fd # fd
      BY <1>5, <2>2
    <3>. QED
      BY <1>7, <1>8, <3>1
  <2>4. \A g \in Fds : g # fd => past'.held[g] = past.held[g] /\ past'.origin[g] = past.origin[g]
    BY <1>10, <1>11 DEF ConnInv, ConnTypes, History
  <2>5. \A i, j \in 1 .. Len(conn) - 1 : m(i) = m(j) => i = j
    BY <1>1, <1>3
  <2>6. Saved' = Saved \ {fd}
    <3>1. ASSUME NEW g \in Saved, g # fd PROVE g \in Saved'
      <4>1. PICK i \in DOMAIN conn : conn[i].fd = g
        BY DEF Saved
      <4>2. i # u
        BY <1>3, <3>1, <4>1
      <4>3. \E j \in 1 .. Len(conn) - 1 : m(j) = i
        <5>1. CASE i = Len(conn)
          <6>1. u \in 1 .. Len(conn) - 1
            BY <1>1, <1>3, <4>2, <5>1
          <6>. QED
            BY <5>1, <6>1
        <5>2. CASE i # Len(conn)
          <6>1. i \in 1 .. Len(conn) - 1
            BY <1>1, <5>2
          <6>. QED
            BY <4>2, <6>1
        <5>. QED
          BY <5>1, <5>2
      <4>. QED
        BY <1>7, <2>3, <4>1, <4>3 DEF Saved
    <3> HIDE DEF m
    <3>2. ASSUME NEW g \in Saved' PROVE g \in Saved \ {fd}
      BY <1>7, <1>8, <2>3 DEF Saved
    <3>3. fd \notin Saved'
      BY <3>2
    <3>. QED
      BY <3>1, <3>2
  <2> HIDE DEF m
  <2>7. SharedIsCounted'
    <3>1. ASSUME NEW j \in 1 .. Len(conn) - 1
          PROVE  open'[conn'[j].fd] = conn'[j].node /\ conn'[j].refcount = past'.held[conn'[j].fd]
      <4>1. conn'[j] = conn[m(j)] /\ conn[m(j)].fd \in Fds /\ conn[m(j)].fd # fd
            /\ open[conn[m(j)].fd] = conn[m(j)].node
            /\ conn[m(j)].refcount = past.held[conn[m(j)].fd]
        BY <1>8, <2>1, <2>2, <2>3 DEF SharedIsCounted
      <4>. QED
        BY <1>4, <2>4, <4>1 DEF ConnInv, ConnTypes
    <3>2. ASSUME NEW i \in 1 .. Len(conn) - 1, NEW j \in 1 .. Len(conn) - 1,
                 conn'[j].fd = conn'[i].fd \/ conn'[j].node = conn'[i].node
          PROVE  i = j
      <4>1. m(i) = m(j)
        BY <1>8, <2>1, <2>3, <3>2 DEF SharedIsCounted
      <4>. QED
        BY <2>5, <4>1
    <3>. QED
      BY <1>7, <3>1, <3>2 DEF SharedIsCounted
  <2>8. past'.origin[fd] = "none"
    BY <1>10, <1>11 DEF ConnInv, ConnTypes, History
  <2>9. OnlyUnsavedLeak'
    BY <2>1, <2>4, <2>6, <2>8 DEF OnlyUnsavedLeak
  <2>. QED
    BY <2>7, <2>9
<1>12. Len(conn') <= MaxFds
  BY <1>1, <1>7, ConnectAssumption DEF ConnInv, ConnTypes
<1>. QED
  BY <1>7, <1>9, <1>10, <1>11, <1>12 DEF ConnInv, ConnTypes, OpenIsCounted

LEMMA CloseOnceStep == ASSUME ConnInv, NEW fd \in Fds, CloseOnce(fd) PROVE ConnInv'
  BY ReleaseStep, CloseLastStep

LEMMA AddTagStep ==
    ASSUME ConnInv, NEW fd \in Fds, NEW c \in Contexts, NEW t \in Tags, AddTag(fd, c, t)
    PROVE  ConnInv'
<1> DEFINE tags == {p \in GetEntry(fd).tags : p[1] # c} \union {<<c, t>>}
<1>1. tags \in SUBSET (Contexts \X Tags)
  BY TagsOf DEF ConnInv
<1>2. /\ entry' = [entry EXCEPT ![open[fd]] = [GetEntry(fd) EXCEPT !.tags = tags]]
      /\ UNCHANGED <<open, conn, past>>
  BY DEF AddTag
<1> HIDE DEF tags
<1>3. ConnTypes' /\ EntryIsOpen'
  BY <1>1, <1>2, EntryMade DEF ConnInv
<1>. QED
  BY <1>2, <1>3, CountStays DEF ConnInv

LEMMA DelTagStep ==
    ASSUME ConnInv, NEW fd \in Fds, NEW c \in Contexts, DelTag(fd, c) PROVE ConnInv'
<1> DEFINE tags == {p \in GetEntry(fd).tags : p[1] # c}
<1>1. tags \in SUBSET (Contexts \X Tags)
  BY TagsOf DEF ConnInv
<1>2. /\ entry' = [entry EXCEPT ![open[fd]] = [GetEntry(fd) EXCEPT !.tags = tags]]
      /\ UNCHANGED <<open, conn, past>>
  BY DEF DelTag
<1> HIDE DEF tags
<1>3. ConnTypes' /\ EntryIsOpen'
  BY <1>1, <1>2, EntryMade DEF ConnInv
<1>. QED
  BY <1>2, <1>3, CountStays DEF ConnInv

LEMMA GetTagStep == ASSUME ConnInv, NEW fd \in Fds, GetTag(fd) PROVE ConnInv'
<1>1. entry' = [entry EXCEPT ![open[fd]] = GetEntry(fd)] /\ UNCHANGED <<open, conn, past>>
  BY DEF GetTag
<1>2. {} \in SUBSET (Contexts \X Tags)
  OBVIOUS
<1>3. ConnTypes' /\ EntryIsOpen'
  BY <1>1, <1>2, EntryMade DEF ConnInv
<1>. QED
  BY <1>1, <1>3, CountStays DEF ConnInv

LEMMA ConnInvStep == ASSUME ConnInv, [ConnectNext]_connectVars PROVE ConnInv'
<1>1. CASE UNCHANGED connectVars
  BY <1>1 DEF connectVars, ConnInv, ConnTypes, EntryIsOpen, OpenIsCounted, SharedIsCounted,
              OnlyUnsavedLeak, Saved
<1>2. ASSUME NEW n \in Nodes, Open(n) \/ OpenShared(n) \/ OpenNew(n) PROVE ConnInv'
  BY <1>2, OpenStep, OpenSharedStep, OpenNewStep, Zenon
<1>3. ASSUME NEW fd \in Fds, Close(fd) \/ CloseOnce(fd) \/ GetTag(fd) PROVE ConnInv'
  BY <1>3, CloseStep, CloseOnceStep, GetTagStep, Zenon
<1>4. ASSUME NEW fd \in Fds, NEW c \in Contexts, DelTag(fd, c) PROVE ConnInv'
  BY <1>4, DelTagStep, Zenon
<1>5. ASSUME NEW fd \in Fds, NEW c \in Contexts, NEW t \in Tags, AddTag(fd, c, t) PROVE ConnInv'
  BY <1>5, AddTagStep, Zenon
<1>. QED
  BY <1>1, <1>2, <1>3, <1>4, <1>5, Zenon DEF ConnectNext

LEMMA ConnInvHolds == ConnectSpec => []ConnInv
<1>1. ConnectInit => ConnInv
  <2> SUFFICES ASSUME ConnectInit PROVE ConnInv
    OBVIOUS
  <2>1. conn = <<>> /\ DOMAIN conn = {} /\ Len(conn) = 0
    BY DEF ConnectInit
  <2>2. past \in History
    BY ConnectAssumption DEF ConnectInit, Tidy, History
  <2>3. ConnTypes
    BY <2>1, <2>2, ConnectAssumption DEF ConnectInit, ConnTypes, NoEntry, NodeEntry
  <2>4. EntryIsOpen
    BY DEF ConnectInit, EntryIsOpen
  <2>5. SharedIsCounted
    BY <2>1 DEF SharedIsCounted
  <2>6. OnlyUnsavedLeak
    BY DEF ConnectInit, Tidy, OnlyUnsavedLeak
  <2>. QED
    BY <2>3, <2>4, <2>5, <2>6 DEF ConnInv, OpenIsCounted
<1>. QED
  BY <1>1, ConnInvStep, PTL DEF ConnectSpec

\* Whatever the nodes, the descriptors and DRM_MAX_FDS are, the connections fit their
\* array, every one is used by somebody, and tags are kept of contexts: drmOpen,
\* drmClose, drmOpenOnce, drmCloseOnce and the calls for tags, in any order.
THEOREM ConnectTypeCorrect == ConnectSpec => []ConnectTypeOK
<1>1. ConnInv => ConnectTypeOK
  BY ConnTypesOK DEF ConnInv
<1>. QED
  BY <1>1, ConnInvHolds, PTL

\* The entry of a node names a descriptor that is open on that node, as drmClose and
\* drmCloseOnce drop the entry of the node they close: so tags do not outlive it.
THEOREM EntriesAreOpen == ConnectSpec => []EntryIsOpen
<1>1. ConnInv => EntryIsOpen
  BY DEF ConnInv
<1>. QED
  BY <1>1, ConnInvHolds, PTL

\* While programs close what they opened, a shared connection is open as long as it is
\* used, its count is the number of drmOpenOnce calls that returned it and are not
\* closed, and drmCloseOnce closes it at the last: also when the last connection of the
\* array has taken its place.
THEOREM SharedCounted == ConnectSpec => []OpenIsCounted
<1>1. ConnInv => OpenIsCounted
  BY DEF ConnInv
<1>. QED
  BY <1>1, ConnInvHolds, PTL
-----------------------------------------------------------------------------
(***************************************************************************)
(* Commits.  A loop over 1 .. n is a function of the turns: f[0] is what it*)
(* starts with, and f[i] what turn i makes of f[i - 1].                    *)
(***************************************************************************)
Runs(f, n, D, a, step) ==
    f \in [0 .. n -> D] /\ f[0] = a /\ \A i \in 1 .. n : f[i] = step[<<f[i - 1], i>>]

\* What holds of 0, and of a number when it holds of the one before, holds of all.
LEMMA Upwards ==
    ASSUME NEW n \in Nat, NEW P, 0 \in P, \A k \in 1 .. n : k - 1 \in P => k \in P
    PROVE  \A k \in 0 .. n : k \in P
<1> DEFINE S == {k \in 0 .. n : k \notin P}
<1>1. S \in SUBSET Nat
  OBVIOUS
<1> SUFFICES ASSUME S # {} PROVE FALSE
  OBVIOUS
<1>2. PICK k \in S : \A j \in S : k <= j
  <2> HIDE DEF S
  <2>. QED
    BY <1>1, LeastElement
<1>3. k # 0
  BY <1>2
<1>4. k \in 1 .. n /\ k - 1 \in 0 .. n /\ k - 1 \notin S
  BY <1>2, <1>3
<1>. QED
  BY <1>2, <1>4

LEMMA Recursion ==
    ASSUME NEW n \in Nat, NEW D, NEW a \in D, NEW step \in [D \X (1 .. n) -> D]
    PROVE  \E f : Runs(f, n, D, a, step)
<1> DEFINE P == {k \in 0 .. n : \E f : Runs(f, k, D, a, step)}
<1>1. 0 \in P
  <2>1. Runs([i \in 0 .. 0 |-> a], 0, D, a, step)
    BY DEF Runs
  <2>. QED
    BY <2>1
<1>2. \A k \in 1 .. n : k - 1 \in P => k \in P
  <2> SUFFICES ASSUME NEW k \in 1 .. n, k - 1 \in P PROVE k \in P
    OBVIOUS
  <2>1. k - 1 \in Nat /\ k - 1 # k /\ k \in 0 .. k /\ k - 1 \in 0 .. k
        /\ k - 1 \in 0 .. (k - 1)
    OBVIOUS
  <2>2. PICK f : Runs(f, k - 1, D, a, step)
    OBVIOUS
  <2> DEFINE h == [i \in 0 .. k |-> IF i = k THEN step[<<f[k - 1], k>>] ELSE f[i]]
  <2>3. f[k - 1] \in D
    BY <2>1, <2>2 DEF Runs
  <2>4. step[<<f[k - 1], k>>] \in D
    BY <2>3
  <2>5. h \in [0 .. k -> D] /\ h[0] = a
    BY <2>1, <2>2, <2>4 DEF Runs
  <2>6. \A i \in 1 .. k : h[i] = step[<<h[i - 1], i>>]
    <3> TAKE i \in 1 .. k
    <3>1. CASE i = k
      <4>1. h[i] = step[<<f[k - 1], k>>] /\ h[i - 1] = f[k - 1]
        BY <2>1, <3>1
      <4>. QED
        BY <3>1, <4>1
    <3>2. CASE i # k
      <4>1. i \in 1 .. (k - 1) /\ i - 1 \in 0 .. (k - 1) /\ i - 1 # k
            /\ i \in 0 .. k /\ i - 1 \in 0 .. k
        BY <2>1, <3>2
      <4>2. f[i] = step[<<f[i - 1], i>>]
        BY <2>2, <4>1 DEF Runs
      <4>3. h[i] = f[i] /\ h[i - 1] = f[i - 1]
        BY <3>2, <4>1
      <4>. QED
        BY <4>2, <4>3
    <3>. QED
      BY <3>1, <3>2
  <2>7. Runs(h, k, D, a, step)
    BY <2>5, <2>6 DEF Runs
  <2>. QED
    BY <2>7
<1>3. \A k \in 0 .. n : k \in P
  <2> HIDE DEF P
  <2>. QED
    BY <1>1, <1>2, Upwards
<1>4. n \in 0 .. n
  OBVIOUS
<1>. QED
  BY <1>3, <1>4

\* The turns of the first loop.
Some == [obj : Nat, prop : Nat, val : Values]
State == [items : Seq(Some), objs : Nat, last : Nat]
Turned(was, i) ==
    IF i > Len(was.items) THEN was
    ELSE [items |-> DropFirst(was.items, i),
          objs |-> was.objs + (IF was.items[i].obj # was.last THEN 1 ELSE 0),
          last |-> was.items[i].obj]
Start(s) == [items |-> s, objs |-> 0, last |-> 0]

\* An item is taken out of a list.
TakenOut(S, s, i, d) ==
    /\ d \in Seq(S) /\ Len(d) = Len(s) - 1
    /\ \A j \in DOMAIN d : d[j] = IF j < i THEN s[j] ELSE s[j + 1]
LEMMA Removed ==
    ASSUME NEW S, NEW s \in Seq(S), NEW i \in DOMAIN s PROVE TakenOut(S, s, i, RemoveAt(s, i))
<1>1. Len(s) \in Nat /\ DOMAIN s = 1 .. Len(s) /\ i \in 1 .. Len(s)
  BY LenProperties
<1> DEFINE a == SubSeq(s, 1, i - 1)
           b == SubSeq(s, i + 1, Len(s))
           d == RemoveAt(s, i)
<1>2. a \in Seq(S) /\ Len(a) = i - 1 /\ \A j \in 1 .. (i - 1) : a[j] = s[j]
  BY <1>1, SubSeqProperties
<1>3. b \in Seq(S) /\ Len(b) = Len(s) - i /\ \A j \in 1 .. (Len(s) - i) : b[j] = s[i + j]
  BY <1>1, SubSeqProperties
<1>4. d = a \o b
  BY DEF RemoveAt
<1> HIDE DEF a, b, d
<1>5. d \in Seq(S) /\ Len(d) = Len(a) + Len(b)
      /\ \A j \in 1 .. (Len(a) + Len(b)) : d[j] = IF j <= Len(a) THEN a[j] ELSE b[j - Len(a)]
  BY <1>2, <1>3, <1>4, ConcatProperties
<1>6. Len(d) = Len(s) - 1 /\ DOMAIN d = 1 .. (Len(s) - 1)
  BY <1>1, <1>2, <1>3, <1>5, LenProperties
<1>7. \A j \in 1 .. (Len(s) - 1) : d[j] = IF j < i THEN s[j] ELSE s[j + 1]
  <2> TAKE j \in 1 .. (Len(s) - 1)
  <2>1. d[j] = IF j <= i - 1 THEN a[j] ELSE b[j - (i - 1)]
    BY <1>1, <1>2, <1>3, <1>5
  <2>2. CASE j < i
    BY <1>1, <1>2, <2>1, <2>2
  <2>3. CASE ~(j < i)
    <3>1. j - (i - 1) \in 1 .. (Len(s) - i) /\ i + (j - (i - 1)) = j + 1
      BY <1>1, <2>3
    <3>2. b[j - (i - 1)] = s[j + 1]
      BY <1>3, <3>1
    <3>. QED
      BY <1>1, <2>1, <2>3, <3>2
  <2>. QED
    BY <2>2, <2>3
<1>. QED
  BY <1>5, <1>6, <1>7 DEF TakenOut, d

LEMMA TurnedIs ==
    ASSUME NEW was \in State, NEW i \in Nat, i >= 1 PROVE Turned(was, i) \in State
<1>1. was.items \in Seq(Some) /\ Len(was.items) \in Nat /\ DOMAIN was.items = 1 .. Len(was.items)
      /\ was.objs \in Nat
  BY LenProperties DEF State
<1>2. CASE i > Len(was.items)
  BY <1>2 DEF Turned
<1>3. CASE ~(i > Len(was.items))
  <2>1. i \in DOMAIN was.items /\ was.items[i] \in Some
    BY <1>1, <1>3
  <2>2. DropFirst(was.items, i) \in Seq(Some)
    BY <1>1, <2>1, Removed DEF DropFirst, TakenOut
  <2>3. was.items[i].obj \in Nat
    BY <2>1 DEF Some
  <2>4. was.objs + (IF was.items[i].obj # was.last THEN 1 ELSE 0) \in Nat
    BY <1>1
  <2>. QED
    BY <1>3, <2>2, <2>3, <2>4 DEF Turned, State
<1>. QED
  BY <1>2, <1>3

LEMMA TurnsAre ==
    ASSUME NEW s \in Seq(Some)
    PROVE  /\ Turns(s)[0] = Start(s)
           /\ \A i \in 1 .. Len(s) : Turns(s)[i] = Turned(Turns(s)[i - 1], i)
<1>1. Len(s) \in Nat /\ Start(s) \in State
  BY LenProperties DEF Start, State
<1> DEFINE n == Len(s)
           step == [x \in State \X (1 .. n) |-> Turned(x[1], x[2])]
           Is(f) == f = [i \in 0 .. n |-> IF i = 0 THEN Start(s) ELSE Turned(f[i - 1], i)]
<1>2. step \in [State \X (1 .. n) -> State]
  BY <1>1, TurnedIs
<1>3. \A x \in State, i \in 1 .. n : step[<<x, i>>] = Turned(x, i)
  OBVIOUS
<1>4. n \in Nat
  BY <1>1
<1> HIDE DEF step
<1>5. PICK f : Runs(f, n, State, Start(s), step)
  BY <1>1, <1>2, <1>4, Recursion
<1>6. Is(f)
  <2>1. \A i \in 1 .. n : f[i] = Turned(f[i - 1], i)
    <3> TAKE i \in 1 .. n
    <3>1. f[i - 1] \in State
      BY <1>4, <1>5 DEF Runs
    <3>. QED
      BY <1>3, <1>5, <3>1 DEF Runs
  <2>. QED
    BY <1>4, <1>5, <2>1 DEF Runs
<1>7. Turns(s) = CHOOSE g : Is(g)
  BY DEF Turns, Turned, Start
<1>8. Is(Turns(s))
  BY <1>6, <1>7
<1>. QED
  BY <1>4, <1>8

\* What holds of the items after turn k: they are in order, each is one of s, and each
\* property of s is left; the loop has not been behind k; two items of one property
\* before k were three; and the objects before k are counted.
Ordered(t) == \A i \in 1 .. (Len(t) - 1) : ~Before(t[i + 1], t[i])
SameAhead(s, t, k) == \A j \in 1 .. Len(t) : j >= k => t[j] = s[j + (Len(s) - Len(t))]
KeptAll(s, t) == \A e \in Range(s) : \E i \in DOMAIN t : SameProperty(e, t[i])
Three(s, e) ==
    \E a \in Nat : /\ 1 <= a /\ a + 2 <= Len(s) /\ SameProperty(e, s[a])
                   /\ SameProperty(e, s[a + 1]) /\ SameProperty(e, s[a + 2])
WereThree(s, t, k) ==
    \A j \in 1 .. (Len(t) - 1) : j <= k /\ SameProperty(t[j], t[j + 1]) => Three(s, t[j])
Change(t, j) == t[j].obj # (IF j = 1 THEN 0 ELSE t[j - 1].obj)
Changes(t, p) == {j \in 1 .. p : Change(t, j)}
LastObject(t, p) == IF p = 0 THEN 0 ELSE t[p].obj
Upto(t, k) == IF k <= Len(t) THEN k ELSE Len(t)

ItemsInv(s, t, k) ==
    /\ t \in Seq(Some) /\ Len(t) <= Len(s) /\ Ordered(t) /\ SameAhead(s, t, k) /\ KeptAll(s, t)
    /\ WereThree(s, t, k) /\ Range(t) \subseteq Range(s)
CountInv(w, k) ==
    /\ w.objs = Cardinality(Changes(w.items, Upto(w.items, k)))
    /\ w.last = LastObject(w.items, Upto(w.items, k))

\* One item goes: what is left of the invariant, part by part.
Dropping(s, t, d, k) ==
    /\ t \in Seq(Some) /\ Len(t) \in Nat /\ Len(s) \in Nat /\ k \in 1 .. (Len(t) - 1)
    /\ d \in Seq(Some) /\ Len(d) = Len(t) - 1
    /\ \A j \in 1 .. (k - 1) : d[j] = t[j]
    /\ \A j \in k .. (Len(t) - 1) : d[j] = t[j + 1]
    /\ SameProperty(t[k], t[k + 1])

LEMMA DropOrdered ==
    ASSUME NEW s, NEW t, NEW d, NEW k, Dropping(s, t, d, k), Ordered(t) PROVE Ordered(d)
<1> SUFFICES ASSUME NEW i \in 1 .. (Len(d) - 1) PROVE ~Before(d[i + 1], d[i])
  BY DEF Ordered
<1>1. Len(t) \in Nat /\ k \in 1 .. (Len(t) - 1) /\ Len(d) = Len(t) - 1 /\ i \in Nat
      /\ i \in 1 .. (Len(t) - 2)
  BY DEF Dropping
<1>2. CASE i < k - 1
  <2>1. i \in 1 .. (k - 1) /\ i + 1 \in 1 .. (k - 1) /\ i \in 1 .. (Len(t) - 1)
    BY <1>1, <1>2
  <2>2. d[i] = t[i] /\ d[i + 1] = t[i + 1]
    BY <2>1 DEF Dropping
  <2>. QED
    BY <2>1, <2>2 DEF Ordered
<1>3. CASE i = k - 1
  <2>1. i \in 1 .. (k - 1) /\ i + 1 = k /\ k \in k .. (Len(t) - 1) /\ i \in 1 .. (Len(t) - 1)
    BY <1>1, <1>3
  <2>2. d[i] = t[i] /\ d[i + 1] = t[k + 1]
    BY <2>1 DEF Dropping
  <2>3. ~Before(t[k], t[i]) /\ SameProperty(t[k], t[k + 1])
    BY <2>1 DEF Ordered, Dropping
  <2>. QED
    BY <2>2, <2>3 DEF Before, SameProperty
<1>4. CASE i >= k
  <2>1. i \in k .. (Len(t) - 1) /\ i + 1 \in k .. (Len(t) - 1) /\ i + 1 \in 1 .. (Len(t) - 1)
    BY <1>1, <1>4
  <2>2. d[i] = t[i + 1] /\ d[i + 1] = t[(i + 1) + 1]
    BY <2>1 DEF Dropping
  <2>. QED
    BY <2>1, <2>2 DEF Ordered
<1>5. i < k - 1 \/ i = k - 1 \/ i >= k
  BY <1>1
<1>. QED
  BY <1>2, <1>3, <1>4, <1>5

LEMMA DropAhead ==
    ASSUME NEW s, NEW t, NEW d, NEW k, Dropping(s, t, d, k), SameAhead(s, t, k - 1)
    PROVE  SameAhead(s, d, k)
<1> SUFFICES ASSUME NEW j \in 1 .. Len(d), j >= k PROVE d[j] = s[j + (Len(s) - Len(d))]
  BY DEF SameAhead
<1>1. Len(t) \in Nat /\ Len(s) \in Nat /\ k \in 1 .. (Len(t) - 1) /\ Len(d) = Len(t) - 1
  BY DEF Dropping
<1>2. j \in k .. (Len(t) - 1) /\ j + 1 \in 1 .. Len(t) /\ j + 1 >= k - 1
      /\ (j + 1) + (Len(s) - Len(t)) = j + (Len(s) - Len(d))
  BY <1>1
<1>3. d[j] = t[j + 1]
  BY <1>2 DEF Dropping
<1>4. t[j + 1] = s[(j + 1) + (Len(s) - Len(t))]
  BY <1>2 DEF SameAhead
<1>. QED
  BY <1>2, <1>3, <1>4

LEMMA DropKept ==
    ASSUME NEW s, NEW t, NEW d, NEW k, Dropping(s, t, d, k), KeptAll(s, t) PROVE KeptAll(s, d)
<1> SUFFICES ASSUME NEW e \in Range(s) PROVE \E i \in DOMAIN d : SameProperty(e, d[i])
  BY DEF KeptAll
<1>1. Len(t) \in Nat /\ k \in 1 .. (Len(t) - 1) /\ Len(d) = Len(t) - 1
      /\ DOMAIN d = 1 .. (Len(t) - 1) /\ DOMAIN t = 1 .. Len(t)
  BY LenProperties DEF Dropping
<1>2. PICK i \in DOMAIN t : SameProperty(e, t[i])
  BY DEF KeptAll
<1>3. CASE i < k
  <2>1. i \in 1 .. (k - 1) /\ i \in DOMAIN d
    BY <1>1, <1>3
  <2>. QED
    BY <1>2, <2>1 DEF Dropping
<1>4. CASE i = k
  <2>1. d[k] = t[k + 1] /\ SameProperty(t[k], t[k + 1]) /\ k \in DOMAIN d
    <3>1. k \in k .. (Len(t) - 1)
      BY <1>1
    <3>. QED
      BY <1>1, <3>1 DEF Dropping
  <2>2. SameProperty(e, d[k])
    BY <1>2, <1>4, <2>1 DEF SameProperty
  <2>. QED
    BY <2>1, <2>2
<1>5. CASE i > k
  <2>1. i - 1 \in k .. (Len(t) - 1) /\ i - 1 \in DOMAIN d /\ (i - 1) + 1 = i
    BY <1>1, <1>5
  <2>2. d[i - 1] = t[(i - 1) + 1]
    BY <2>1 DEF Dropping
  <2>. QED
    BY <1>2, <2>1, <2>2
<1>. QED
  BY <1>1, <1>3, <1>4, <1>5

LEMMA DropThree ==
    ASSUME NEW s, NEW t, NEW d, NEW k, Dropping(s, t, d, k), SameAhead(s, t, k - 1),
           Len(t) <= Len(s), WereThree(s, t, k - 1)
    PROVE  WereThree(s, d, k)
<1> SUFFICES ASSUME NEW j \in 1 .. (Len(d) - 1), j <= k, SameProperty(d[j], d[j + 1])
             PROVE  Three(s, d[j])
  BY DEF WereThree
<1>1. Len(t) \in Nat /\ Len(s) \in Nat /\ k \in 1 .. (Len(t) - 1) /\ Len(d) = Len(t) - 1
      /\ SameProperty(t[k], t[k + 1])
  BY DEF Dropping
<1>2. CASE j < k - 1
  <2>1. j \in 1 .. (k - 1) /\ j + 1 \in 1 .. (k - 1) /\ j \in 1 .. (Len(t) - 1) /\ j <= k - 1
    BY <1>1, <1>2
  <2>2. d[j] = t[j] /\ d[j + 1] = t[j + 1]
    BY <2>1 DEF Dropping
  <2>. QED
    BY <2>1, <2>2 DEF WereThree
<1>3. CASE j = k - 1
  <2>1. j \in 1 .. (k - 1) /\ j + 1 = k /\ k \in k .. (Len(t) - 1) /\ j \in 1 .. (Len(t) - 1)
        /\ j <= k - 1
    BY <1>1, <1>3
  <2>2. d[j] = t[j] /\ d[j + 1] = t[k + 1]
    BY <2>1 DEF Dropping
  <2>3. SameProperty(t[j], t[j + 1])
    BY <1>1, <2>1, <2>2 DEF SameProperty
  <2>. QED
    BY <2>1, <2>2, <2>3 DEF WereThree
<1>4. CASE j = k
  <2>1. k \in k .. (Len(t) - 1) /\ k + 1 \in k .. (Len(t) - 1)
    BY <1>1, <1>4
  <2>2. d[j] = t[k + 1] /\ d[j + 1] = t[(k + 1) + 1]
    BY <1>4, <2>1 DEF Dropping
  <2> DEFINE a == k + (Len(s) - Len(t))
  <2>3. a \in Nat /\ 1 <= a /\ a + 2 <= Len(s)
    BY <1>1, <2>1
  <2>4. k \in 1 .. Len(t) /\ k + 1 \in 1 .. Len(t) /\ (k + 1) + 1 \in 1 .. Len(t)
        /\ k >= k - 1 /\ k + 1 >= k - 1 /\ (k + 1) + 1 >= k - 1
        /\ (k + 1) + (Len(s) - Len(t)) = a + 1 /\ ((k + 1) + 1) + (Len(s) - Len(t)) = a + 2
    BY <1>1, <2>1
  <2> HIDE DEF a
  <2>5. t[k] = s[a]
    BY <2>4 DEF SameAhead, a
  <2>6. t[k + 1] = s[a + 1] /\ t[(k + 1) + 1] = s[a + 2]
    BY <2>4 DEF SameAhead
  <2>7. SameProperty(d[j], s[a]) /\ SameProperty(d[j], s[a + 1]) /\ SameProperty(d[j], s[a + 2])
    BY <1>1, <2>2, <2>5, <2>6 DEF SameProperty
  <2>. QED
    BY <2>3, <2>7 DEF Three
<1>5. j < k - 1 \/ j = k - 1 \/ j = k
  BY <1>1
<1>. QED
  BY <1>2, <1>3, <1>4, <1>5

LEMMA DropRange ==
    ASSUME NEW s, NEW t, NEW d, NEW k, Dropping(s, t, d, k) PROVE Range(d) \subseteq Range(t)
<1> SUFFICES ASSUME NEW j \in DOMAIN d PROVE d[j] \in Range(t)
  BY DEF Range
<1>1. Len(t) \in Nat /\ k \in 1 .. (Len(t) - 1) /\ Len(d) = Len(t) - 1
      /\ DOMAIN d = 1 .. (Len(t) - 1) /\ DOMAIN t = 1 .. Len(t)
  BY LenProperties DEF Dropping
<1>2. CASE j < k
  <2>1. j \in 1 .. (k - 1) /\ j \in DOMAIN t
    BY <1>1, <1>2
  <2>2. d[j] = t[j]
    BY <2>1 DEF Dropping
  <2>. QED
    BY <2>1, <2>2 DEF Range
<1>3. CASE ~(j < k)
  <2>1. j \in k .. (Len(t) - 1) /\ j + 1 \in DOMAIN t
    BY <1>1, <1>3
  <2>2. d[j] = t[j + 1]
    BY <2>1 DEF Dropping
  <2>. QED
    BY <2>1, <2>2 DEF Range
<1>. QED
  BY <1>2, <1>3

\* What a turn makes of the items: nothing, or one item less.
LEMMA DropCases ==
    ASSUME NEW s \in Seq(Some), NEW t \in Seq(Some), NEW k \in 1 .. Len(t)
    PROVE  \/ DropFirst(t, k) = t /\ ~(k < Len(t) /\ SameProperty(t[k], t[k + 1]))
           \/ Dropping(s, t, DropFirst(t, k), k)
<1>1. Len(t) \in Nat /\ Len(s) \in Nat /\ DOMAIN t = 1 .. Len(t)
  BY LenProperties
<1>2. CASE ~(k < Len(t) /\ SameProperty(t[k], t[k + 1]))
  BY <1>2 DEF DropFirst
<1>3. CASE k < Len(t) /\ SameProperty(t[k], t[k + 1])
  <2> DEFINE d == RemoveAt(t, k)
  <2>1. DropFirst(t, k) = d
    BY <1>3 DEF DropFirst
  <2>2. TakenOut(Some, t, k, d)
    BY <1>1, Removed
  <2> HIDE DEF d
  <2>3. d \in Seq(Some) /\ Len(d) = Len(t) - 1 /\ DOMAIN d = 1 .. (Len(t) - 1)
    BY <1>1, <2>2, LenProperties DEF TakenOut
  <2>4. \A j \in 1 .. (k - 1) : d[j] = t[j]
    <3> TAKE j \in 1 .. (k - 1)
    <3>1. j \in DOMAIN d /\ j < k
      BY <1>1, <1>3, <2>3
    <3>. QED
      BY <2>2, <3>1 DEF TakenOut
  <2>5. \A j \in k .. (Len(t) - 1) : d[j] = t[j + 1]
    <3> TAKE j \in k .. (Len(t) - 1)
    <3>1. j \in DOMAIN d /\ ~(j < k)
      BY <1>1, <1>3, <2>3
    <3>. QED
      BY <2>2, <3>1 DEF TakenOut
  <2>6. k \in 1 .. (Len(t) - 1)
    BY <1>1, <1>3
  <2>. QED
    BY <1>1, <1>3, <2>1, <2>3, <2>4, <2>5, <2>6 DEF Dropping
<1>. QED
  BY <1>2, <1>3

LEMMA ItemsStep ==
    ASSUME NEW s \in Seq(Some), NEW t, NEW k \in 1 .. Len(s), k <= Len(t), ItemsInv(s, t, k - 1)
    PROVE  ItemsInv(s, DropFirst(t, k), k)
<1>1. t \in Seq(Some) /\ Len(t) \in Nat /\ Len(s) \in Nat /\ k \in 1 .. Len(t)
      /\ Len(t) <= Len(s)
  BY LenProperties DEF ItemsInv
<1>2. CASE DropFirst(t, k) = t /\ ~(k < Len(t) /\ SameProperty(t[k], t[k + 1]))
  <2>1. SameAhead(s, t, k)
    BY <1>1 DEF ItemsInv, SameAhead
  <2>2. WereThree(s, t, k)
    <3> SUFFICES ASSUME NEW j \in 1 .. (Len(t) - 1), j <= k, SameProperty(t[j], t[j + 1])
                 PROVE  Three(s, t[j])
      BY DEF WereThree
    <3>1. j # k
      BY <1>1, <1>2
    <3>2. j <= k - 1
      BY <1>1, <3>1
    <3>. QED
      BY <3>2 DEF ItemsInv, WereThree
  <2>. QED
    BY <1>2, <2>1, <2>2 DEF ItemsInv
<1>3. CASE Dropping(s, t, DropFirst(t, k), k)
  <2> DEFINE d == DropFirst(t, k)
  <2>1. Dropping(s, t, d, k)
    BY <1>3
  <2> HIDE DEF d
  <2>2. d \in Seq(Some) /\ Len(d) = Len(t) - 1
    BY <2>1 DEF Dropping
  <2>3. Len(d) <= Len(s)
    BY <1>1, <2>2
  <2>4. Ordered(t) /\ SameAhead(s, t, k - 1) /\ KeptAll(s, t) /\ WereThree(s, t, k - 1)
        /\ Range(t) \subseteq Range(s)
    BY DEF ItemsInv
  <2>5. Ordered(d) /\ SameAhead(s, d, k) /\ KeptAll(s, d)
    BY <2>1, <2>4, DropOrdered, DropAhead, DropKept, Zenon
  <2>6. WereThree(s, d, k)
    BY <1>1, <2>1, <2>4, DropThree, Zenon
  <2>7. Range(d) \subseteq Range(s)
    BY <2>1, <2>4, DropRange
  <2>8. ItemsInv(s, d, k)
    BY <2>2, <2>3, <2>5, <2>6, <2>7 DEF ItemsInv
  <2>. QED
    BY <2>8 DEF d
<1>. QED
  BY <1>1, <1>2, <1>3, DropCases

\* The first items, and so their objects, stay as they are.
LEMMA DropFirstItems ==
    ASSUME NEW s \in Seq(Some), NEW t \in Seq(Some), NEW k \in 1 .. Len(t)
    PROVE  /\ DropFirst(t, k) \in Seq(Some) /\ k <= Len(DropFirst(t, k))
           /\ \A j \in 1 .. k : DropFirst(t, k)[j].obj = t[j].obj
<1>1. Len(t) \in Nat /\ k \in Nat /\ k <= Len(t) /\ k >= 1
  BY LenProperties
<1>2. CASE DropFirst(t, k) = t
  BY <1>1, <1>2
<1>3. CASE Dropping(s, t, DropFirst(t, k), k)
  <2> DEFINE d == DropFirst(t, k)
  <2>1. Dropping(s, t, d, k)
    BY <1>3
  <2> HIDE DEF d
  <2>2. d \in Seq(Some) /\ Len(d) = Len(t) - 1 /\ k \in 1 .. (Len(t) - 1)
        /\ k \in k .. (Len(t) - 1)
    BY <1>1, <2>1 DEF Dropping
  <2>3. d[k] = t[k + 1] /\ t[k].obj = t[k + 1].obj
    BY <2>1, <2>2 DEF Dropping, SameProperty
  <2>4. \A j \in 1 .. (k - 1) : d[j] = t[j]
    BY <2>1 DEF Dropping
  <2>5. \A j \in 1 .. k : d[j].obj = t[j].obj
    <3> TAKE j \in 1 .. k
    <3>1. j = k \/ j \in 1 .. (k - 1)
      BY <1>1
    <3>. QED
      BY <2>3, <2>4, <3>1
  <2>6. k <= Len(d)
    BY <1>1, <2>2
  <2>7. /\ d \in Seq(Some) /\ k <= Len(d)
        /\ \A j \in 1 .. k : d[j].obj = t[j].obj
    BY <2>2, <2>5, <2>6
  <2>. QED
    BY <2>7 DEF d
<1>. QED
  BY <1>2, <1>3, DropCases

LEMMA ChangesNext ==
    ASSUME NEW t, NEW d, NEW k \in Nat \ {0}, \A j \in 1 .. k : d[j].obj = t[j].obj
    PROVE  /\ IsFiniteSet(Changes(t, k - 1))
           /\ Cardinality(Changes(d, k)) =
                Cardinality(Changes(t, k - 1)) + (IF Change(t, k) THEN 1 ELSE 0)
<1>1. \A j \in 1 .. k : Change(d, j) <=> Change(t, j)
  <2> TAKE j \in 1 .. k
  <2>1. j # 1 => j - 1 \in 1 .. k
    OBVIOUS
  <2>. QED
    BY <2>1 DEF Change
<1>2. Changes(t, k - 1) \subseteq 1 .. k
  BY DEF Changes
<1>3. IsFiniteSet(1 .. k)
  BY FS_Interval
<1>4. IsFiniteSet(Changes(t, k - 1))
  BY <1>2, <1>3, FS_Subset
<1>5. Cardinality(Changes(t, k - 1)) \in Nat
  BY <1>4, FS_CardinalityType
<1>6. CASE Change(t, k)
  <2>1. Changes(d, k) = Changes(t, k - 1) \union {k}
    BY <1>1, <1>6 DEF Changes
  <2>2. k \notin Changes(t, k - 1)
    BY DEF Changes
  <2>. QED
    BY <1>4, <1>6, <2>1, <2>2, FS_AddElement
<1>7. CASE ~Change(t, k)
  <2>1. Changes(d, k) = Changes(t, k - 1)
    BY <1>1, <1>7 DEF Changes
  <2>. QED
    BY <1>4, <1>5, <1>7, <2>1
<1>. QED
  BY <1>6, <1>7

TurnInv(s, w, k) == w \in State /\ ItemsInv(s, w.items, k) /\ CountInv(w, k)

LEMMA TurnStep ==
    ASSUME NEW s \in Seq(Some), NEW w, NEW k \in 1 .. Len(s), TurnInv(s, w, k - 1)
    PROVE  TurnInv(s, Turned(w, k), k)
<1> DEFINE t == w.items
<1>1. w \in State /\ ItemsInv(s, t, k - 1) /\ CountInv(w, k - 1) /\ t \in Seq(Some)
      /\ Len(t) \in Nat /\ Len(s) \in Nat
  BY LenProperties DEF TurnInv, State
<1>2. Turned(w, k) \in State
  BY <1>1, TurnedIs
<1>3. CASE k > Len(t)
  <2>1. Turned(w, k) = w
    BY <1>3 DEF Turned
  <2>2. Upto(t, k) = Upto(t, k - 1)
    BY <1>1, <1>3 DEF Upto
  <2>3. CountInv(w, k)
    BY <1>1, <2>2 DEF CountInv
  <2>4. ItemsInv(s, t, k)
    <3>1. SameAhead(s, t, k)
      BY <1>1, <1>3 DEF SameAhead
    <3>2. WereThree(s, t, k)
      BY <1>1, <1>3 DEF ItemsInv, WereThree
    <3>. QED
      BY <1>1, <3>1, <3>2 DEF ItemsInv
  <2>. QED
    BY <1>1, <2>1, <2>3, <2>4 DEF TurnInv
<1>4. CASE ~(k > Len(t))
  <2> DEFINE d == DropFirst(t, k)
             x == Turned(w, k)
  <2>0. k \in 1 .. Len(t) /\ k <= Len(t) /\ k \in Nat \ {0} /\ k # 0 /\ k - 1 <= Len(t)
    BY <1>1, <1>4
  <2>1. x = [items |-> d, objs |-> w.objs + (IF t[k].obj # w.last THEN 1 ELSE 0),
             last |-> t[k].obj]
    BY <1>4 DEF Turned
  <2>2. ItemsInv(s, d, k)
    BY <1>1, <2>0, ItemsStep
  <2>3. d \in Seq(Some) /\ k <= Len(d) /\ \A j \in 1 .. k : d[j].obj = t[j].obj
    BY <1>1, <2>0, DropFirstItems
  <2> HIDE DEF d, x
  <2>4. x.items = d /\ x.last = t[k].obj /\ x.objs = w.objs + (IF t[k].obj # w.last THEN 1 ELSE 0)
    BY <2>1
  <2>5. Upto(d, k) = k /\ Upto(t, k - 1) = k - 1
    BY <2>0, <2>3 DEF Upto
  <2>6. t[k].obj # w.last <=> Change(t, k)
    <3>1. w.last = LastObject(t, k - 1)
      BY <1>1, <2>5 DEF CountInv
    <3>2. LastObject(t, k - 1) = IF k = 1 THEN 0 ELSE t[k - 1].obj
      BY <2>0 DEF LastObject
    <3>. QED
      BY <3>1, <3>2 DEF Change
  <2>7. Cardinality(Changes(d, k)) =
          Cardinality(Changes(t, k - 1)) + (IF Change(t, k) THEN 1 ELSE 0)
    BY <2>0, <2>3, ChangesNext
  <2>8. w.objs = Cardinality(Changes(t, k - 1))
    BY <1>1, <2>5 DEF CountInv
  <2>9. x.last = LastObject(d, k)
    <3>1. k \in 1 .. k
      BY <2>0
    <3>. QED
      BY <2>0, <2>3, <2>4, <3>1 DEF LastObject
  <2>10. CountInv(x, k)
    BY <2>4, <2>5, <2>6, <2>7, <2>8, <2>9 DEF CountInv
  <2>11. TurnInv(s, x, k)
    BY <1>2, <2>2, <2>4, <2>10 DEF TurnInv, x
  <2>. QED
    BY <2>11 DEF x
<1>. QED
  BY <1>3, <1>4

LEMMA TurnsKeep ==
    ASSUME NEW s \in Seq(Some), Ordered(s) PROVE TurnInv(s, Reduced(s), Len(s))
<1> DEFINE P == {k \in 0 .. Len(s) : TurnInv(s, Turns(s)[k], k)}
<1>1. Len(s) \in Nat /\ DOMAIN s = 1 .. Len(s)
  BY LenProperties
<1>2. 0 \in P
  <2> DEFINE w == Start(s)
  <2>1. w.items = s /\ w.objs = 0 /\ w.last = 0 /\ w \in State
    BY DEF Start, State
  <2> HIDE DEF w
  <2>2. SameAhead(s, s, 0)
    BY <1>1 DEF SameAhead
  <2>3. KeptAll(s, s)
    BY DEF KeptAll, Range, SameProperty
  <2>4. WereThree(s, s, 0)
    BY <1>1 DEF WereThree
  <2>5. ItemsInv(s, s, 0)
    BY <1>1, <2>2, <2>3, <2>4 DEF ItemsInv
  <2>6. Upto(s, 0) = 0 /\ Changes(s, 0) = {}
    BY <1>1 DEF Upto, Changes
  <2>7. CountInv(w, 0)
    BY <2>1, <2>6, FS_EmptySet DEF CountInv, LastObject
  <2>8. TurnInv(s, w, 0)
    BY <2>1, <2>5, <2>7 DEF TurnInv
  <2>9. Turns(s)[0] = w
    BY TurnsAre DEF w
  <2>. QED
    BY <1>1, <2>8, <2>9
<1>3. \A k \in 1 .. Len(s) : k - 1 \in P => k \in P
  <2> SUFFICES ASSUME NEW k \in 1 .. Len(s), k - 1 \in P PROVE k \in P
    OBVIOUS
  <2>1. TurnInv(s, Turns(s)[k - 1], k - 1)
    OBVIOUS
  <2>2. TurnInv(s, Turned(Turns(s)[k - 1], k), k)
    BY <2>1, TurnStep
  <2>3. Turns(s)[k] = Turned(Turns(s)[k - 1], k)
    BY TurnsAre
  <2>. QED
    BY <1>1, <2>2, <2>3
<1>4. \A k \in 0 .. Len(s) : k \in P
  <2> HIDE DEF P
  <2>. QED
    BY <1>1, <1>2, <1>3, Upwards
<1>5. Len(s) \in P
  BY <1>1, <1>4
<1>. QED
  BY <1>5 DEF Reduced

\* In a list in order, equal items are next to each other.
LEMMA InOrder ==
    ASSUME NEW t \in Seq(Some), Ordered(t), NEW i \in DOMAIN t, NEW j \in DOMAIN t, i <= j
    PROVE  ~Before(t[j], t[i])
<1>1. Len(t) \in Nat /\ DOMAIN t = 1 .. Len(t) /\ i \in 1 .. Len(t) /\ j \in 1 .. Len(t)
  BY LenProperties
<1> DEFINE n == Len(t) - i
           P == {k \in 0 .. n : ~Before(t[i + k], t[i])}
<1>2. n \in Nat /\ j - i \in 0 .. n /\ i + (j - i) = j
  BY <1>1
<1>3. 0 \in P
  <2>0. t[i] \in Some
    BY <1>1
  <2>1. t[i].obj \in Nat /\ t[i].prop \in Nat
    BY <2>0 DEF Some
  <2>2. i + 0 = i
    BY <1>1
  <2>. QED
    BY <1>2, <2>1, <2>2 DEF Before
<1>4. \A k \in 1 .. n : k - 1 \in P => k \in P
  <2> SUFFICES ASSUME NEW k \in 1 .. n, k - 1 \in P PROVE k \in P
    OBVIOUS
  <2>1. i + (k - 1) \in 1 .. (Len(t) - 1) /\ (i + (k - 1)) + 1 = i + k /\ i + (k - 1) \in DOMAIN t
        /\ i + k \in DOMAIN t /\ k \in 0 .. n
    BY <1>1
  <2>2. ~Before(t[i + k], t[i + (k - 1)])
    BY <2>1 DEF Ordered
  <2>3. ~Before(t[i + (k - 1)], t[i])
    OBVIOUS
  <2> DEFINE x == t[i]
             y == t[i + (k - 1)]
             z == t[i + k]
  <2>4. x \in Some /\ y \in Some /\ z \in Some
    BY <2>1
  <2> HIDE DEF x, y, z
  <2>5. /\ x.obj \in Nat /\ x.prop \in Nat /\ y.obj \in Nat /\ y.prop \in Nat
        /\ z.obj \in Nat /\ z.prop \in Nat
    BY <2>4 DEF Some
  <2>6. ~Before(z, y) /\ ~Before(y, x)
    BY <2>2, <2>3 DEF x, y, z
  <2>7. ~Before(z, x)
    BY <2>5, <2>6 DEF Before
  <2>. QED
    BY <2>1, <2>7 DEF x, z
<1>5. \A k \in 0 .. n : k \in P
  <2> HIDE DEF P, n
  <2>. QED
    BY <1>2, <1>3, <1>4, Upwards
<1>6. j - i \in P
  BY <1>2, <1>5
<1>. QED
  BY <1>2, <1>6

LEMMA TwoMeet ==
    ASSUME NEW s, NEW t \in Seq(Some), Ordered(t), WereThree(s, t, Len(t)), NEW e,
           NEW i \in DOMAIN t, NEW j \in DOMAIN t, i < j,
           SameProperty(e, t[i]), SameProperty(e, t[j])
    PROVE  Three(s, e)
<1>1. Len(t) \in Nat /\ DOMAIN t = 1 .. Len(t)
  BY LenProperties
<1>2. i + 1 \in DOMAIN t /\ i \in 1 .. (Len(t) - 1) /\ i <= Len(t) /\ i + 1 <= j
  BY <1>1
<1> DEFINE x == t[i]
           y == t[i + 1]
           z == t[j]
<1>3. x \in Some /\ y \in Some /\ z \in Some
  BY <1>2
<1>4. ~Before(y, x)
  BY <1>2 DEF Ordered
<1>5. ~Before(z, y)
  BY <1>2, InOrder
<1>6. SameProperty(e, x) /\ SameProperty(e, z)
  OBVIOUS
<1> HIDE DEF x, y, z
<1>7. /\ x.obj \in Nat /\ x.prop \in Nat /\ y.obj \in Nat /\ y.prop \in Nat
      /\ z.obj \in Nat /\ z.prop \in Nat
  BY <1>3 DEF Some
<1>8. SameProperty(x, y)
  BY <1>4, <1>5, <1>6, <1>7 DEF Before, SameProperty
<1>9. Three(s, x)
  BY <1>2, <1>8 DEF WereThree, x, y
<1>. QED
  BY <1>6, <1>9 DEF Three, SameProperty

LEMMA ThreeTimes ==
    ASSUME NEW s \in Seq(Some), NEW e, Three(s, e) PROVE ~(Times(s, e) <= 2)
<1>1. Len(s) \in Nat /\ DOMAIN s = 1 .. Len(s)
  BY LenProperties
<1>2. PICK a \in Nat : /\ 1 <= a /\ a + 2 <= Len(s) /\ SameProperty(e, s[a])
                       /\ SameProperty(e, s[a + 1]) /\ SameProperty(e, s[a + 2])
  BY DEF Three
<1> DEFINE S == {i \in DOMAIN s : SameProperty(e, s[i])}
           T == a .. (a + 2)
<1>3. IsFiniteSet(S)
  <2>1. IsFiniteSet(1 .. Len(s))
    BY <1>1, FS_Interval
  <2>2. S \subseteq 1 .. Len(s)
    BY <1>1
  <2>. QED
    BY <2>1, <2>2, FS_Subset
<1>4. Cardinality(T) = 3
  BY <1>2, FS_Interval
<1>5. T \subseteq S
  <2> SUFFICES ASSUME NEW i \in T PROVE i \in S
    OBVIOUS
  <2>1. i = a \/ i = a + 1 \/ i = a + 2
    BY <1>2
  <2>. QED
    BY <1>1, <1>2, <2>1
<1>6. Cardinality(T) <= Cardinality(S) /\ Cardinality(S) \in Nat
  BY <1>3, <1>5, FS_Subset, FS_CardinalityType
<1>. QED
  BY <1>4, <1>6 DEF Times

\* The properties that are left: each once, if it was asked for twice at most.
LEMMA Once ==
    ASSUME NEW s \in Seq(Some), NEW t, ItemsInv(s, t, Len(s)), NEW e \in Range(s)
    PROVE  Times(t, e) >= 1 /\ (Times(s, e) <= 2 => Times(t, e) = 1)
<1>1. Len(t) \in Nat /\ Len(s) \in Nat /\ DOMAIN t = 1 .. Len(t) /\ t \in Seq(Some)
      /\ Len(t) <= Len(s) /\ Ordered(t)
  BY LenProperties DEF ItemsInv
<1> DEFINE S == {i \in DOMAIN t : SameProperty(e, t[i])}
<1>2. IsFiniteSet(S)
  <2>1. IsFiniteSet(1 .. Len(t))
    BY <1>1, FS_Interval
  <2>2. S \subseteq 1 .. Len(t)
    BY <1>1
  <2>. QED
    BY <2>1, <2>2, FS_Subset
<1>3. PICK i \in DOMAIN t : SameProperty(e, t[i])
  BY DEF ItemsInv, KeptAll
<1>4. Cardinality(S) \in Nat /\ Cardinality(S) # 0
  BY <1>2, <1>3, FS_CardinalityType, FS_EmptySet
<1>5. WereThree(s, t, Len(t))
  BY <1>1 DEF ItemsInv, WereThree
<1>6. Times(s, e) <= 2 => S = {i}
  <2> SUFFICES ASSUME Times(s, e) <= 2, NEW j \in S PROVE j = i
    BY <1>3
  <2>1. ~Three(s, e)
    BY ThreeTimes
  <2>2. ~(i < j) /\ ~(j < i)
    BY <1>1, <1>3, <1>5, <2>1, TwoMeet
  <2>. QED
    BY <1>1, <2>2
<1>7. Cardinality({i}) = 1
  BY FS_Singleton
<1>8. Times(t, e) = Cardinality(S)
  BY DEF Times
<1> HIDE DEF S
<1>9. Times(t, e) >= 1
  BY <1>4, <1>8
<1>10. Times(s, e) <= 2 => Times(t, e) = 1
  BY <1>6, <1>7, <1>8
<1>. QED
  BY <1>9, <1>10

\* The second loop: what it has filled after item i.
FillState == [objs : Seq(Nat), counts : Seq(Nat), last : Nat]
Filled(t, was, i) ==
    IF t[i].obj # was.last
    THEN [objs |-> Append(was.objs, t[i].obj), counts |-> Append(was.counts, 1),
          last |-> t[i].obj]
    ELSE [was EXCEPT !.counts[Len(was.objs)] = @ + 1]
Nothing == [objs |-> <<>>, counts |-> <<>>, last |-> 0]

LEMMA FilledIs ==
    ASSUME NEW t \in Seq(Some), NEW was \in FillState, NEW i \in 1 .. Len(t)
    PROVE  Filled(t, was, i) \in FillState
<1>1. t[i] \in Some /\ was.objs \in Seq(Nat) /\ was.counts \in Seq(Nat) /\ was.last \in Nat
  BY LenProperties DEF FillState
<1>2. t[i].obj \in Nat
  BY <1>1 DEF Some
<1>3. CASE t[i].obj # was.last
  <2>1. Append(was.objs, t[i].obj) \in Seq(Nat) /\ Append(was.counts, 1) \in Seq(Nat)
    BY <1>1, <1>2, AppendProperties
  <2>. QED
    BY <1>2, <1>3, <2>1 DEF Filled, FillState
<1>4. CASE ~(t[i].obj # was.last)
  <2> DEFINE c == [was.counts EXCEPT ![Len(was.objs)] = @ + 1]
  <2>1. c \in Seq(Nat)
    <3>1. \A g \in DOMAIN was.counts : was.counts[g] \in Nat
      BY <1>1, LenProperties
    <3>2. c = [g \in 1 .. Len(was.counts) |->
                 IF g = Len(was.objs) THEN was.counts[g] + 1 ELSE was.counts[g]]
      BY <1>1, LenProperties
    <3>3. \A g \in 1 .. Len(was.counts) :
            (IF g = Len(was.objs) THEN was.counts[g] + 1 ELSE was.counts[g]) \in Nat
      BY <1>1, <3>1, LenProperties
    <3>4. Len(was.counts) \in Nat
      BY <1>1, LenProperties
    <3>5. c \in [1 .. Len(was.counts) -> Nat]
      BY <3>2, <3>3
    <3> HIDE DEF c
    <3>. QED
      BY <3>4, <3>5, SeqDef
  <2>2. Filled(t, was, i) = [was EXCEPT !.counts = c]
    BY <1>4 DEF Filled
  <2> HIDE DEF c
  <2>. QED
    BY <2>1, <2>2 DEF FillState
<1>. QED
  BY <1>3, <1>4

LEMMA FillIs ==
    ASSUME NEW t \in Seq(Some)
    PROVE  /\ Fill(t)[0] = Nothing
           /\ \A i \in 1 .. Len(t) : Fill(t)[i] = Filled(t, Fill(t)[i - 1], i)
<1>1. Len(t) \in Nat /\ Nothing \in FillState
  BY LenProperties DEF Nothing, FillState
<1> DEFINE n == Len(t)
           step == [x \in FillState \X (1 .. n) |-> Filled(t, x[1], x[2])]
           Is(f) == f = [i \in 0 .. n |-> IF i = 0 THEN Nothing ELSE Filled(t, f[i - 1], i)]
<1>2. step \in [FillState \X (1 .. n) -> FillState]
  BY <1>1, FilledIs
<1>3. \A x \in FillState, i \in 1 .. n : step[<<x, i>>] = Filled(t, x, i)
  OBVIOUS
<1>4. n \in Nat
  BY <1>1
<1> HIDE DEF step
<1>5. PICK f : Runs(f, n, FillState, Nothing, step)
  BY <1>1, <1>2, <1>4, Recursion
<1>6. Is(f)
  <2>1. \A i \in 1 .. n : f[i] = Filled(t, f[i - 1], i)
    <3> TAKE i \in 1 .. n
    <3>1. f[i - 1] \in FillState
      BY <1>4, <1>5 DEF Runs
    <3>. QED
      BY <1>3, <1>5, <3>1 DEF Runs
  <2>. QED
    BY <1>4, <1>5, <2>1 DEF Runs
<1>7. Fill(t) = CHOOSE g : Is(g)
  BY DEF Fill, Filled, Nothing
<1>8. Is(Fill(t))
  BY <1>6, <1>7
<1>. QED
  BY <1>4, <1>8

\* Where the properties of each object end.
LEMMA EndsAre ==
    ASSUME NEW c \in Seq(Nat)
    PROVE  /\ Ends(c) \in [0 .. Len(c) -> Nat] /\ Ends(c)[0] = 0
           /\ \A g \in 1 .. Len(c) : Ends(c)[g] = Ends(c)[g - 1] + c[g]
<1> DEFINE n == Len(c)
           step == [x \in Nat \X (1 .. n) |-> x[1] + c[x[2]]]
           Is(f) == f = [g \in 0 .. n |-> IF g = 0 THEN 0 ELSE f[g - 1] + c[g]]
<1>1. n \in Nat /\ \A g \in 1 .. n : c[g] \in Nat
  BY LenProperties
<1>2. step \in [Nat \X (1 .. n) -> Nat]
  BY <1>1
<1>3. \A x \in Nat, g \in 1 .. n : step[<<x, g>>] = x + c[g]
  OBVIOUS
<1> HIDE DEF step, n
<1>4. PICK f : Runs(f, n, Nat, 0, step)
  BY <1>1, <1>2, Recursion
<1>5. \A g \in 1 .. n : f[g] = f[g - 1] + c[g]
  <2> TAKE g \in 1 .. n
  <2>1. f[g - 1] \in Nat
    BY <1>1, <1>4 DEF Runs
  <2>. QED
    BY <1>3, <1>4, <2>1 DEF Runs
<1>6. Is(f)
  BY <1>1, <1>4, <1>5 DEF Runs
<1>7. Ends(c) = CHOOSE g : Is(g)
  BY DEF Ends, n
<1>8. Is(Ends(c))
  BY <1>6, <1>7
<1>9. Ends(c)[0] = 0 /\ \A g \in 1 .. n : Ends(c)[g] = Ends(c)[g - 1] + c[g]
  BY <1>1, <1>8
<1> DEFINE P == {g \in 0 .. n : Ends(c)[g] \in Nat}
<1>10. 0 \in P
  BY <1>1, <1>9
<1>11. \A g \in 1 .. n : g - 1 \in P => g \in P
  BY <1>1, <1>9
<1>12. \A g \in 0 .. n : g \in P
  <2> HIDE DEF P
  <2>. QED
    BY <1>1, <1>10, <1>11, Upwards
<1>13. Ends(c) = [g \in 0 .. n |-> Ends(c)[g]]
  <2> DEFINE e == Ends(c)
  <2>1. Is(e)
    BY <1>8
  <2> HIDE DEF e
  <2>2. e = [g \in 0 .. n |-> e[g]]
    BY <2>1
  <2>. QED
    BY <2>2 DEF e
<1>. QED
  BY <1>9, <1>12, <1>13 DEF n

\* Where they end does not depend on what comes behind.
LEMMA EndsAgree ==
    ASSUME NEW c \in Seq(Nat), NEW d \in Seq(Nat), NEW m \in Nat, m <= Len(c), m <= Len(d),
           \A g \in 1 .. m : c[g] = d[g]
    PROVE  \A g \in 0 .. m : Ends(d)[g] = Ends(c)[g]
<1> DEFINE P == {g \in 0 .. m : Ends(d)[g] = Ends(c)[g]}
<1>1. 0 \in P
  BY EndsAre
<1>2. \A g \in 1 .. m : g - 1 \in P => g \in P
  <2> SUFFICES ASSUME NEW g \in 1 .. m, g - 1 \in P PROVE Ends(d)[g] = Ends(c)[g]
    OBVIOUS
  <2>1. g \in 1 .. Len(c) /\ g \in 1 .. Len(d)
    BY LenProperties
  <2>2. Ends(c)[g] = Ends(c)[g - 1] + c[g] /\ Ends(d)[g] = Ends(d)[g - 1] + d[g]
    BY <2>1, EndsAre
  <2>. QED
    BY <2>2
<1>3. \A g \in 0 .. m : g \in P
  <2> HIDE DEF P
  <2>. QED
    BY <1>1, <1>2, Upwards
<1>. QED
  BY <1>3

\* The objects grow, and the properties counted for one are its own.
Increasing(o) == \A g, h \in 1 .. Len(o) : g < h => o[g] < o[h]
Owned(t, o, c) ==
    \A g \in 1 .. Len(o) : \A j \in (Ends(c)[g - 1] + 1) .. Ends(c)[g] : t[j].obj = o[g]
Covers(t, o, c, i) ==
    /\ o \in Seq(Nat) /\ c \in Seq(Nat) /\ Len(c) = Len(o) /\ Len(o) \in Nat
    /\ Ends(c)[Len(o)] = i /\ Increasing(o) /\ Owned(t, o, c)

LEMMA NewObject ==
    ASSUME NEW t, NEW o, NEW c, NEW i \in Nat \ {0}, Covers(t, o, c, i - 1), t[i].obj \in Nat,
           Len(o) > 0 => o[Len(o)] < t[i].obj
    PROVE  /\ Covers(t, Append(o, t[i].obj), Append(c, 1), i)
           /\ Len(Append(o, t[i].obj)) = Len(o) + 1
           /\ Append(o, t[i].obj)[Len(o) + 1] = t[i].obj
<1> DEFINE x == t[i].obj
           p == Append(o, x)
           d == Append(c, 1)
           n == Len(o)
<1>1. o \in Seq(Nat) /\ c \in Seq(Nat) /\ Len(c) = n /\ n \in Nat /\ x \in Nat
  BY DEF Covers
<1>2. p \in Seq(Nat) /\ Len(p) = n + 1 /\ (\A g \in 1 .. n : p[g] = o[g]) /\ p[n + 1] = x
  BY <1>1, AppendProperties
<1>3. d \in Seq(Nat) /\ Len(d) = n + 1 /\ (\A g \in 1 .. n : d[g] = c[g]) /\ d[n + 1] = 1
  BY <1>1, AppendProperties
<1> HIDE DEF p, d
<1>4. \A g \in 0 .. n : Ends(d)[g] = Ends(c)[g]
  <2>1. n <= Len(c) /\ n <= Len(d) /\ \A g \in 1 .. n : c[g] = d[g]
    BY <1>1, <1>3
  <2>. QED
    BY <1>1, <1>3, <2>1, EndsAgree
<1>5. Ends(d)[n] = i - 1
  BY <1>1, <1>4 DEF Covers
<1>6. Ends(d)[n + 1] = i
  <2>1. n + 1 \in 1 .. Len(d) /\ (n + 1) - 1 = n
    BY <1>1, <1>3
  <2>2. Ends(d)[n + 1] = Ends(d)[(n + 1) - 1] + d[n + 1]
    BY <1>3, <2>1, EndsAre
  <2>. QED
    BY <1>3, <1>5, <2>1, <2>2
<1>7. Increasing(p)
  <2> SUFFICES ASSUME NEW g \in 1 .. (n + 1), NEW h \in 1 .. (n + 1), g < h PROVE p[g] < p[h]
    BY <1>2 DEF Increasing
  <2>1. g \in 1 .. n /\ n > 0
    BY <1>1
  <2>2. o[g] \in Nat /\ o[n] \in Nat
    <3>1. g \in DOMAIN o /\ n \in DOMAIN o
      BY <1>1, <2>1, LenProperties
    <3>. QED
      BY <1>1, <3>1
  <2>3. CASE h = n + 1
    <3>1. g < n => o[g] < o[n]
      BY <1>1, <2>1 DEF Covers, Increasing
    <3>2. o[n] < x
      BY <2>1
    <3>3. o[g] < x
      BY <1>1, <2>1, <2>2, <3>1, <3>2
    <3>. QED
      BY <1>2, <2>1, <2>3, <3>3
  <2>4. CASE h # n + 1
    <3>1. h \in 1 .. n
      <4> HIDE DEF n
      <4>. QED
        BY <1>1, <2>4
    <3>2. o[g] < o[h]
      BY <2>1, <3>1 DEF Covers, Increasing
    <3>. QED
      BY <1>2, <2>1, <3>1, <3>2
  <2>. QED
    BY <2>3, <2>4
<1>8. Owned(t, p, d)
  <2> SUFFICES ASSUME NEW g \in 1 .. (n + 1), NEW j \in (Ends(d)[g - 1] + 1) .. Ends(d)[g]
               PROVE  t[j].obj = p[g]
    BY <1>2 DEF Owned
  <2>1. CASE g = n + 1
    <3>1. g - 1 = n
      BY <1>1, <2>1
    <3>2. j \in ((i - 1) + 1) .. i
      BY <1>5, <1>6, <2>1, <3>1
    <3>3. j = i
      BY <3>2
    <3>. QED
      BY <1>2, <2>1, <3>3
  <2>2. CASE g # n + 1
    <3>1. g \in 1 .. n /\ g \in 0 .. n /\ g - 1 \in 0 .. n
      BY <1>1, <2>2
    <3>2. j \in (Ends(c)[g - 1] + 1) .. Ends(c)[g]
      BY <1>4, <3>1
    <3>3. t[j].obj = o[g]
      BY <3>1, <3>2 DEF Covers, Owned
    <3>. QED
      BY <1>2, <3>1, <3>3
  <2>. QED
    BY <2>1, <2>2
<1>9. Covers(t, p, d, i)
  BY <1>1, <1>2, <1>3, <1>6, <1>7, <1>8 DEF Covers
<1>. QED
  BY <1>2, <1>9 DEF p, d

LEMMA OneMoreProperty ==
    ASSUME NEW t, NEW o, NEW c, NEW i \in Nat \ {0}, Covers(t, o, c, i - 1), Len(o) > 0,
           o[Len(o)] = t[i].obj
    PROVE  Covers(t, o, [c EXCEPT ![Len(o)] = @ + 1], i)
<1> DEFINE n == Len(o)
           d == [c EXCEPT ![n] = @ + 1]
<1>1. o \in Seq(Nat) /\ c \in Seq(Nat) /\ Len(c) = n /\ n \in Nat /\ n > 0
      /\ DOMAIN c = 1 .. n /\ n \in 1 .. n
  BY LenProperties DEF Covers
<1>2. c[n] \in Nat
  BY <1>1
<1>3. d \in Seq(Nat) /\ Len(d) = n
  BY <1>1, <1>2, ExceptSeq
<1>4. (\A g \in 1 .. (n - 1) : d[g] = c[g]) /\ d[n] = c[n] + 1
  <2>1. d[n] = c[n] + 1
    BY <1>1
  <2>2. \A g \in 1 .. (n - 1) : d[g] = c[g]
    <3> TAKE g \in 1 .. (n - 1)
    <3>1. g \in DOMAIN c /\ g # n
      <4> HIDE DEF n
      <4>. QED
        BY <1>1
    <3>. QED
      BY <3>1
  <2>. QED
    BY <2>1, <2>2
<1> HIDE DEF d
<1>5. \A g \in 0 .. (n - 1) : Ends(d)[g] = Ends(c)[g]
  <2>1. n - 1 \in Nat /\ n - 1 <= Len(c) /\ n - 1 <= Len(d) /\ \A g \in 1 .. (n - 1) : c[g] = d[g]
    BY <1>1, <1>3, <1>4
  <2>. QED
    BY <1>1, <1>3, <2>1, EndsAgree
<1>6. Ends(c)[n] = Ends(c)[n - 1] + c[n] /\ Ends(d)[n] = Ends(d)[n - 1] + d[n]
  <2>1. n \in 1 .. Len(c) /\ n \in 1 .. Len(d)
    BY <1>1, <1>3
  <2>. QED
    BY <1>1, <1>3, <2>1, EndsAre
<1>7. Ends(c)[n - 1] \in Nat /\ n - 1 \in 0 .. (n - 1)
  <2>1. n - 1 \in 0 .. Len(c) /\ n - 1 \in 0 .. (n - 1)
    <3> HIDE DEF n
    <3>. QED
      BY <1>1
  <2>2. Ends(c) \in [0 .. Len(c) -> Nat]
    BY <1>1, EndsAre
  <2>. QED
    BY <2>1, <2>2
<1>8. Ends(c)[n] = i - 1
  BY DEF Covers
<1>9. Ends(d)[n] = i /\ Ends(d)[n - 1] = Ends(c)[n - 1]
  <2>1. Ends(d)[n - 1] = Ends(c)[n - 1]
    BY <1>5, <1>7
  <2> DEFINE a == Ends(c)[n - 1]
             b == Ends(c)[n]
             z == c[n]
             y == Ends(d)[n]
  <2>2. a \in Nat /\ z \in Nat /\ b = a + z /\ b = i - 1 /\ y = a + (z + 1)
    BY <1>2, <1>4, <1>6, <1>7, <1>8, <2>1
  <2> HIDE DEF a, b, z, y
  <2>3. y = i
    BY <2>2
  <2>. QED
    BY <2>1, <2>3 DEF y
<1>10. Owned(t, o, d)
  <2> SUFFICES ASSUME NEW g \in 1 .. n, NEW j \in (Ends(d)[g - 1] + 1) .. Ends(d)[g]
               PROVE  t[j].obj = o[g]
    BY DEF Owned
  <2>1. CASE g = n
    <3>1. j \in (Ends(c)[n - 1] + 1) .. i
      BY <1>9, <2>1
    <3>2. j = i \/ j \in (Ends(c)[n - 1] + 1) .. (i - 1)
      BY <1>7, <3>1
    <3>3. j = i => t[j].obj = o[g]
      BY <2>1
    <3>4. j \in (Ends(c)[n - 1] + 1) .. (i - 1) => t[j].obj = o[g]
      BY <1>1, <1>8, <2>1 DEF Covers, Owned
    <3>. QED
      BY <3>2, <3>3, <3>4
  <2>2. CASE g # n
    <3>1. g \in 0 .. (n - 1) /\ g - 1 \in 0 .. (n - 1)
      <4> HIDE DEF n
      <4>. QED
        BY <1>1, <2>2
    <3>2. j \in (Ends(c)[g - 1] + 1) .. Ends(c)[g]
      BY <1>5, <3>1
    <3>. QED
      BY <3>2 DEF Covers, Owned
  <2>. QED
    BY <2>1, <2>2
<1>11. Covers(t, o, d, i)
  <2>1. Increasing(o)
    BY DEF Covers
  <2>. QED
    BY <1>1, <1>3, <1>9, <1>10, <2>1 DEF Covers
<1>. QED
  BY <1>11 DEF d

FillInv(t, f, i) ==
    /\ f \in FillState /\ Covers(t, f.objs, f.counts, i)
    /\ Len(f.objs) = Cardinality(Changes(t, i)) /\ f.last = LastObject(t, i)
    /\ i > 0 => Len(f.objs) > 0 /\ f.objs[Len(f.objs)] = f.last
    /\ i = 0 => Len(f.objs) = 0

LEMMA FillStep ==
    ASSUME NEW t \in Seq(Some), Ordered(t), \A j \in DOMAIN t : t[j].obj # 0,
           NEW i \in 1 .. Len(t), NEW f, FillInv(t, f, i - 1)
    PROVE  FillInv(t, Filled(t, f, i), i)
<1> DEFINE o == f.objs
           c == f.counts
           x == t[i].obj
           h == Filled(t, f, i)
<1>1. Len(t) \in Nat /\ DOMAIN t = 1 .. Len(t) /\ i \in Nat \ {0} /\ i \in DOMAIN t /\ i # 0 /\ i > 0
  BY LenProperties
<1>2. t[i] \in Some /\ x # 0
  BY <1>1
<1>3. x \in Nat
  BY <1>2 DEF Some
<1>4. f \in FillState /\ Covers(t, o, c, i - 1) /\ Len(o) = Cardinality(Changes(t, i - 1))
      /\ f.last = LastObject(t, i - 1) /\ (i - 1 > 0 => Len(o) > 0 /\ o[Len(o)] = f.last)
      /\ (i - 1 = 0 => Len(o) = 0)
  BY DEF FillInv
<1>5. f.last = IF i = 1 THEN 0 ELSE t[i - 1].obj
  BY <1>1, <1>4 DEF LastObject
<1>6. h \in FillState
  BY <1>4, FilledIs
<1>7. x # f.last <=> Change(t, i)
  BY <1>5 DEF Change
<1>8. Cardinality(Changes(t, i)) = Cardinality(Changes(t, i - 1)) + (IF Change(t, i) THEN 1 ELSE 0)
  BY <1>1, ChangesNext
<1>9. LastObject(t, i) = x
  BY <1>1 DEF LastObject
<1>10. CASE x # f.last
  <2>1. h = [objs |-> Append(o, x), counts |-> Append(c, 1), last |-> x]
    BY <1>10 DEF Filled
  <2>2. Len(o) > 0 => o[Len(o)] < x
    <3> SUFFICES ASSUME Len(o) > 0 PROVE o[Len(o)] < x
      OBVIOUS
    <3>1. i - 1 > 0 /\ i - 1 \in 1 .. (Len(t) - 1) /\ i - 1 \in DOMAIN t /\ (i - 1) + 1 = i
          /\ i # 1
      BY <1>1, <1>4
    <3>2. t[i - 1] \in Some
      BY <3>1
    <3>3. ~Before(t[i], t[i - 1])
      BY <3>1 DEF Ordered
    <3>4. t[i - 1].obj \in Nat
      BY <3>2 DEF Some
    <3>5. o[Len(o)] = t[i - 1].obj
      BY <1>4, <1>5, <3>1
    <3>6. x # t[i - 1].obj
      BY <1>5, <1>10, <3>1
    <3>7. ~(x < t[i - 1].obj)
      BY <3>3 DEF Before
    <3>. QED
      BY <1>3, <3>4, <3>5, <3>6, <3>7
  <2>3. /\ Covers(t, Append(o, x), Append(c, 1), i) /\ Len(Append(o, x)) = Len(o) + 1
        /\ Append(o, x)[Len(o) + 1] = x
    BY <1>1, <1>3, <1>4, <2>2, NewObject
  <2>4. Len(o) \in Nat
    BY <1>4 DEF Covers
  <2>5. Cardinality(Changes(t, i)) = Len(o) + 1
    BY <1>4, <1>7, <1>8, <1>10
  <2> DEFINE p == Append(o, x)
             d == Append(c, 1)
  <2>6. Covers(t, p, d, i) /\ Len(p) = Len(o) + 1 /\ p[Len(o) + 1] = x
        /\ h.objs = p /\ h.counts = d /\ h.last = x
    BY <2>1, <2>3
  <2> HIDE DEF p, d, h, o
  <2>7. Len(h.objs) > 0 /\ h.objs[Len(h.objs)] = h.last /\ Len(h.objs) = Cardinality(Changes(t, i))
    BY <2>4, <2>5, <2>6
  <2>8. FillInv(t, h, i)
    BY <1>1, <1>6, <1>9, <2>6, <2>7 DEF FillInv
  <2>. QED
    BY <2>8 DEF h
<1>11. CASE ~(x # f.last)
  <2>1. h = [f EXCEPT !.counts = [c EXCEPT ![Len(o)] = @ + 1]]
    BY <1>11 DEF Filled
  <2>2. i # 1 /\ i - 1 > 0
    BY <1>1, <1>2, <1>5, <1>11
  <2>3. Len(o) > 0 /\ o[Len(o)] = x
    BY <1>4, <1>11, <2>2
  <2> DEFINE d == [c EXCEPT ![Len(o)] = @ + 1]
  <2>4. Covers(t, o, d, i)
    BY <1>1, <1>4, <2>3, OneMoreProperty
  <2>5. h = [f EXCEPT !.counts = d]
    BY <2>1
  <2> HIDE DEF d, h
  <2>6. h.objs = o /\ h.counts = d /\ h.last = f.last
    BY <1>4, <2>5 DEF FillState
  <2>7. Len(o) \in Nat
    BY <1>4 DEF Covers
  <2>8. Len(o) = Cardinality(Changes(t, i))
    BY <1>4, <1>7, <1>8, <1>11, <2>7
  <2> HIDE DEF o
  <2>9. FillInv(t, h, i)
    BY <1>1, <1>6, <1>9, <1>11, <2>3, <2>4, <2>6, <2>8 DEF FillInv
  <2>. QED
    BY <2>9 DEF h
<1>. QED
  BY <1>10, <1>11

LEMMA FillKeeps ==
    ASSUME NEW t \in Seq(Some), Ordered(t), \A j \in DOMAIN t : t[j].obj # 0
    PROVE  FillInv(t, Fill(t)[Len(t)], Len(t))
<1> DEFINE P == {k \in 0 .. Len(t) : FillInv(t, Fill(t)[k], k)}
<1>1. Len(t) \in Nat /\ DOMAIN t = 1 .. Len(t)
  BY LenProperties
<1>2. 0 \in P
  <2> DEFINE f == Nothing
             e == <<>>
  <2>1. f.objs = <<>> /\ f.counts = <<>> /\ f.last = 0 /\ f \in FillState
    BY DEF Nothing, FillState
  <2>2. e \in Seq(Nat) /\ Len(e) = 0
    OBVIOUS
  <2> HIDE DEF e
  <2>3. Ends(e)[0] = 0
    BY <2>2, EndsAre
  <2>4. Increasing(e) /\ Owned(t, e, e)
    BY <2>2 DEF Increasing, Owned
  <2>5. Covers(t, e, e, 0)
    BY <2>2, <2>3, <2>4 DEF Covers
  <2>6. Changes(t, 0) = {}
    BY DEF Changes
  <2>7. Cardinality(Changes(t, 0)) = 0
    BY <2>6, FS_EmptySet
  <2>8. f.objs = e /\ f.counts = e
    BY <2>1 DEF e
  <2> HIDE DEF f
  <2>9. FillInv(t, f, 0)
    BY <2>1, <2>2, <2>5, <2>7, <2>8 DEF FillInv, LastObject
  <2>10. Fill(t)[0] = f
    BY FillIs DEF f
  <2>. QED
    BY <1>1, <2>9, <2>10
<1>3. \A k \in 1 .. Len(t) : k - 1 \in P => k \in P
  <2> SUFFICES ASSUME NEW k \in 1 .. Len(t), k - 1 \in P PROVE k \in P
    OBVIOUS
  <2>1. FillInv(t, Fill(t)[k - 1], k - 1)
    OBVIOUS
  <2>2. FillInv(t, Filled(t, Fill(t)[k - 1], k), k)
    BY <2>1, FillStep
  <2>3. Fill(t)[k] = Filled(t, Fill(t)[k - 1], k)
    BY FillIs
  <2>. QED
    BY <1>1, <2>2, <2>3
<1>4. \A k \in 0 .. Len(t) : k \in P
  <2> HIDE DEF P
  <2>. QED
    BY <1>1, <1>2, <1>3, Upwards
<1>5. Len(t) \in P
  BY <1>1, <1>4
<1>. QED
  BY <1>5

\* What qsort makes of a list: the same items, in order.
LEMMA SortedIs ==
    ASSUME NEW s \in Seq(Some), NEW t \in Sorted(s)
    PROVE  /\ t \in Seq(Some) /\ Ordered(t) /\ Range(t) = Range(s)
           /\ \A e : Times(t, e) <= Times(s, e) /\ Times(t, e) \in Nat /\ Times(s, e) \in Nat
<1> DEFINE D == DOMAIN s
<1>1. D = 1 .. Len(s) /\ Len(s) \in Nat /\ IsFiniteSet(D) /\ \A i \in D : s[i] \in Some
  BY LenProperties, FS_Interval
<1>2. PICK q \in [D -> D] : /\ \A i, j \in D : q[i] = q[j] => i = j
                            /\ t = [i \in D |-> s[q[i]]]
                            /\ \A i \in 1 .. (Len(s) - 1) : ~Before(t[i + 1], t[i])
  BY DEF Sorted
<1>3. t \in [1 .. Len(s) -> Some]
  BY <1>1, <1>2
<1>4. t \in Seq(Some) /\ DOMAIN t = D
  BY <1>1, <1>3, SeqDef
<1>5. Len(t) = Len(s)
  BY <1>1, <1>4, LenProperties
<1>6. Ordered(t)
  BY <1>2, <1>5 DEF Ordered
<1>7. q \in Surjection(D, D)
  <2>1. q \in Injection(D, D)
    BY <1>2 DEF Injection, IsInjective
  <2>. QED
    BY <1>1, <2>1, FS_Injection
<1>8. Range(t) = Range(s)
  <2>1. \A i \in D : t[i] = s[q[i]] /\ q[i] \in D
    BY <1>2
  <2>2. \A i \in D : \E j \in D : q[j] = i
    BY <1>7 DEF Surjection
  <2>. QED
    BY <1>4, <2>1, <2>2 DEF Range
<1>9. ASSUME NEW e PROVE Times(t, e) <= Times(s, e) /\ Times(t, e) \in Nat /\ Times(s, e) \in Nat
  <2> DEFINE S == {i \in D : SameProperty(e, s[i])}
             T == {i \in D : SameProperty(e, t[i])}
             m == [i \in T |-> q[i]]
  <2>1. IsFiniteSet(S) /\ IsFiniteSet(T)
    BY <1>1, FS_Subset
  <2>2. m \in Injection(T, S)
    <3>1. \A i \in T : q[i] \in S
      BY <1>2
    <3>2. \A i, j \in T : m[i] = m[j] => i = j
      BY <1>2
    <3>. QED
      BY <3>1, <3>2 DEF Injection, IsInjective
  <2>3. Times(t, e) = Cardinality(T) /\ Times(s, e) = Cardinality(S)
    BY <1>4 DEF Times
  <2> HIDE DEF S, T, m
  <2>4. Cardinality(T) <= Cardinality(S)
    BY <2>1, <2>2, FS_Injection
  <2>. QED
    BY <2>1, <2>3, <2>4, FS_CardinalityType
<1>. QED
  BY <1>4, <1>6, <1>8, <1>9

LEMMA ReducedRight ==
    ASSUME NEW s \in Seq(Some), Ordered(s), \A j \in DOMAIN s : s[j].obj # 0
    PROVE  LET t == Reduced(s).items
           IN  /\ t \in Seq(Some) /\ Len(t) \in Nat /\ Ordered(t) /\ ItemsInv(s, t, Len(s))
               /\ \A j \in DOMAIN t : t[j].obj # 0
               /\ Reduced(s).objs = Cardinality(Changes(t, Len(t)))
<1> DEFINE w == Reduced(s)
           t == w.items
<1>1. TurnInv(s, w, Len(s))
  BY TurnsKeep
<1> HIDE DEF w
<1>2. ItemsInv(s, t, Len(s)) /\ CountInv(w, Len(s))
  BY <1>1 DEF TurnInv
<1>3. t \in Seq(Some) /\ Len(t) \in Nat /\ Len(s) \in Nat /\ Len(t) <= Len(s) /\ Ordered(t)
      /\ Range(t) \subseteq Range(s)
  BY <1>2, LenProperties DEF ItemsInv
<1>4. Upto(t, Len(s)) = Len(t)
  BY <1>3 DEF Upto
<1>5. w.objs = Cardinality(Changes(t, Len(t)))
  BY <1>2, <1>4 DEF CountInv
<1>6. \A j \in DOMAIN t : t[j].obj # 0
  <2> TAKE j \in DOMAIN t
  <2>1. t[j] \in Range(s)
    BY <1>3 DEF Range
  <2>. QED
    BY <2>1 DEF Range
<1>. QED
  BY <1>2, <1>3, <1>5, <1>6 DEF w

LEMMA MessageRight ==
    ASSUME NEW a \in Seq(Some), \A j \in DOMAIN a : a[j].obj # 0, NEW s \in Sorted(a)
    PROVE  SentRight(Message(s), a)
<1> DEFINE t == Reduced(s).items
           f == Fill(t)[Len(t)]
           o == f.objs
           c == f.counts
           m == Message(s)
<1>1. s \in Seq(Some) /\ Ordered(s) /\ Range(s) = Range(a)
  BY SortedIs
<1>2. \A e : Times(s, e) <= Times(a, e) /\ Times(s, e) \in Nat /\ Times(a, e) \in Nat
  BY SortedIs
<1>3. \A j \in DOMAIN s : s[j].obj # 0
  <2> TAKE j \in DOMAIN s
  <2>1. s[j] \in Range(a)
    BY <1>1 DEF Range
  <2>. QED
    BY <2>1 DEF Range
<1>4. /\ t \in Seq(Some) /\ Len(t) \in Nat /\ Ordered(t) /\ ItemsInv(s, t, Len(s))
      /\ \A j \in DOMAIN t : t[j].obj # 0
      /\ Reduced(s).objs = Cardinality(Changes(t, Len(t)))
  BY <1>1, <1>3, ReducedRight
<1>5. m = [count_objs |-> Reduced(s).objs, objs |-> o, counts |-> c, items |-> t]
  BY DEF Message
<1> HIDE DEF t
<1>6. FillInv(t, f, Len(t))
  BY <1>4, FillKeeps
<1>7. Covers(t, o, c, Len(t)) /\ Len(o) = Cardinality(Changes(t, Len(t)))
  BY <1>6 DEF FillInv
<1> HIDE DEF o, c, m
<1>8. m.count_objs = Len(o) /\ m.objs = o /\ m.counts = c /\ m.items = t
  BY <1>4, <1>5, <1>7
<1>9. /\ o \in Seq(Nat) /\ Len(c) = Len(o) /\ Ends(c)[Len(o)] = Len(t) /\ Increasing(o)
      /\ Owned(t, o, c) /\ DOMAIN o = 1 .. Len(o)
  BY <1>7, LenProperties DEF Covers
<1>10. \A g, h \in DOMAIN o : g < h => o[g] < o[h]
  BY <1>9 DEF Increasing
<1>11. \A g \in DOMAIN o : \A i \in (Ends(c)[g - 1] + 1) .. Ends(c)[g] : t[i].obj = o[g]
  BY <1>9 DEF Owned
<1>12. Range(t) \subseteq Range(a)
  BY <1>1, <1>4 DEF ItemsInv
<1>13. \A e \in Range(a) : Times(t, e) >= 1 /\ (Times(a, e) <= 2 => Times(t, e) = 1)
  <2> TAKE e \in Range(a)
  <2>1. e \in Range(s)
    BY <1>1
  <2>2. Times(t, e) >= 1 /\ (Times(s, e) <= 2 => Times(t, e) = 1)
    BY <1>1, <1>4, <2>1, Once
  <2>3. Times(a, e) <= 2 => Times(s, e) <= 2
    BY <1>2
  <2>. QED
    BY <2>2, <2>3
<1>14. m.count_objs = Len(m.objs) /\ Len(m.counts) = Len(m.objs)
       /\ Ends(m.counts)[Len(m.objs)] = Len(m.items)
  BY <1>8, <1>9
<1>15. /\ \A g, h \in DOMAIN m.objs : g < h => m.objs[g] < m.objs[h]
       /\ \A g \in DOMAIN m.objs :
            \A i \in (Ends(m.counts)[g - 1] + 1) .. Ends(m.counts)[g] : m.items[i].obj = m.objs[g]
  BY <1>8, <1>10, <1>11
<1>16. /\ Range(m.items) \subseteq Range(a)
       /\ \A e \in Range(a) :
            Times(m.items, e) >= 1 /\ (Times(a, e) <= 2 => Times(m.items, e) = 1)
  BY <1>8, <1>12, <1>13
<1>17. SentRight(m, a)
  BY <1>14, <1>15, <1>16 DEF SentRight
<1>. QED
  BY <1>17 DEF m

\* The request that drmModeAtomicCommit makes of any request is what was asked for:
\* there is room for each object it names, no object is named twice, the properties an
\* object is given are its own, every one that was set is there, with a value that was
\* asked for, and once if it was set once or twice.
THEOREM CommitsRight == Spec => []CommitIsRight
<1>1. IInv => CommitIsRight
  <2> SUFFICES ASSUME IInv, NEW r \in Requests, NEW m \in Commits(r)
               PROVE  SentRight(m, Items(r))
    BY DEF CommitIsRight
  <2> DEFINE x == req[r]
             a == Items(r)
  <2>1. x # NoReq
    BY DEF Commits
  <2>2. x \in Good
    BY <2>1, GoodRequest
  <2>3. PICK s \in Sorted(a) : m = Message(s)
    BY <2>1 DEF Commits
  <2>4. a = SubSeq(x.heap, 1, x.cursor)
    BY DEF Items
  <2> HIDE DEF x, a
  <2>5. x.heap \in Seq(Cell) /\ x.cursor \in Nat /\ Len(x.heap) \in Nat /\ x.cursor <= Len(x.heap)
        /\ \A i \in 1 .. x.cursor : x.heap[i] \in Setting
    BY <2>2, GoodIs
  <2>6. Len(a) = x.cursor /\ a \in Seq(Cell) /\ \A i \in 1 .. x.cursor : a[i] = x.heap[i]
    BY <2>4, <2>5, SubSeqProperties
  <2>7. Setting \subseteq Some /\ \A e \in Setting : e.obj # 0
    BY DrmAtomicAssumption DEF Setting, Some
  <2>8. DOMAIN a = 1 .. x.cursor /\ \A i \in DOMAIN a : a[i] \in Setting
    BY <2>5, <2>6, LenProperties
  <2>9. a \in [1 .. x.cursor -> Some]
    <3>1. a = [i \in 1 .. x.cursor |-> a[i]]
      BY <2>6, <2>8
    <3>. QED
      BY <2>7, <2>8, <3>1
  <2>10. a \in Seq(Some) /\ \A i \in DOMAIN a : a[i].obj # 0
    BY <2>5, <2>7, <2>8, <2>9, SeqDef
  <2>. QED
    BY <2>3, <2>10, MessageRight DEF a
<1>2. Init => IInv
  BY InitGood
<1>3. IInv /\ [Next]_req => IInv'
  BY NextGood, StutterGood
<1>. QED
  BY <1>1, <1>2, <1>3, PTL DEF Spec
-----------------------------------------------------------------------------
(***************************************************************************)
(* Devices.  What drmFoldDuplicatedDevices makes of the entries, and how   *)
(* many are left to hand out.                                              *)
(***************************************************************************)
Slot == Device \union {None}

\* The entries from k on, and the places of those before it.
Left(s, k) == {i \in k .. Len(s) : s[i] # None}
Given(s, k) == {s[i].place : i \in {j \in 1 .. (k - 1) : s[j] # None}}

\* The entries stand for different devices.
Apart(s) == \A i, j \in DOMAIN s :
              s[i] # None /\ s[j] # None /\ s[i].place = s[j].place => i = j

LEMMA MaxOf ==
    ASSUME NEW n \in Nat, NEW S \in SUBSET (1 .. n), S # {} PROVE Max(S) \in S
<1> DEFINE D == {n - x : x \in S}
<1>0. D \in SUBSET Nat /\ D # {}
  <2>1. \A x \in S : n - x \in Nat
    OBVIOUS
  <2>. QED
    BY <2>1
<1> HIDE DEF D
<1>1. PICK m \in D : \A k \in D : m <= k
  BY <1>0, LeastElement
<1> USE DEF D
<1>2. PICK y \in S : m = n - y
  BY <1>1
<1>3. \A x \in S : y >= x
  <2> TAKE x \in S
  <2>1. m <= n - x
    BY <1>1
  <2>. QED
    BY <1>2, <2>1
<1>. QED
  BY <1>2, <1>3 DEF Max

LEMMA LeftIs ==
    ASSUME NEW S, NEW s \in Seq(S), NEW k \in Nat
    PROVE  IsFiniteSet(Left(s, k)) /\ Cardinality(Left(s, k)) \in Nat
<1>1. IsFiniteSet(k .. Len(s)) /\ Left(s, k) \in SUBSET (k .. Len(s))
  BY FS_Interval, LenProperties DEF Left
<1>. QED
  BY <1>1, FS_Subset, FS_CardinalityType

LEMMA LeftNext ==
    ASSUME NEW S, NEW s \in Seq(S), NEW k \in 1 .. Len(s)
    PROVE  Cardinality(Left(s, k)) =
             Cardinality(Left(s, k + 1)) + (IF s[k] = None THEN 0 ELSE 1)
<1>1. Len(s) \in Nat /\ k \in Nat /\ k + 1 \in Nat
  BY LenProperties
<1>2. IsFiniteSet(Left(s, k + 1)) /\ Cardinality(Left(s, k + 1)) \in Nat
  BY <1>1, LeftIs
<1>3. CASE s[k] = None
  <2>1. Left(s, k) = Left(s, k + 1)
    BY <1>1, <1>3 DEF Left
  <2>. QED
    BY <1>2, <1>3, <2>1
<1>4. CASE s[k] # None
  <2>1. Left(s, k) = Left(s, k + 1) \union {k} /\ k \notin Left(s, k + 1)
    BY <1>1, <1>4 DEF Left
  <2>2. Cardinality(Left(s, k + 1) \union {k}) = Cardinality(Left(s, k + 1)) + 1
    BY <1>2, <2>1, FS_AddElement
  <2>. QED
    BY <1>4, <2>1, <2>2
<1>. QED
  BY <1>3, <1>4

LEMMA LeftEnd ==
    ASSUME NEW S, NEW s \in Seq(S), NEW k \in Nat, k > Len(s) PROVE Cardinality(Left(s, k)) = 0
<1>1. Left(s, k) = {}
  BY LenProperties DEF Left
<1>. QED
  BY <1>1, FS_EmptySet

\* Gaps and entries make up the array.
LEMMA GapsAndLeft ==
    ASSUME NEW S, NEW s \in Seq(S)
    PROVE  /\ Cardinality(Gaps(s)) \in Nat
           /\ Cardinality(Gaps(s)) + Cardinality(Left(s, 1)) = Len(s)
<1>1. Len(s) \in Nat /\ DOMAIN s = 1 .. Len(s)
  BY LenProperties
<1>2. IsFiniteSet(1 .. Len(s)) /\ Cardinality(1 .. Len(s)) = Len(s)
  BY <1>1, FS_Interval
<1>3. Gaps(s) \in SUBSET (1 .. Len(s)) /\ Left(s, 1) \in SUBSET (1 .. Len(s))
  BY <1>1 DEF Gaps, Left
<1>4. Gaps(s) \cup Left(s, 1) = 1 .. Len(s) /\ Gaps(s) \cap Left(s, 1) = {}
  BY <1>1 DEF Gaps, Left
<1>5. IsFiniteSet(Gaps(s)) /\ IsFiniteSet(Left(s, 1))
  BY <1>2, <1>3, FS_Subset
<1>6. Cardinality(Gaps(s)) \in Nat /\ Cardinality(Left(s, 1)) \in Nat
  BY <1>5, FS_CardinalityType
<1>7. Cardinality(Gaps(s) \cup Left(s, 1)) =
        Cardinality(Gaps(s)) + Cardinality(Left(s, 1)) - Cardinality(Gaps(s) \cap Left(s, 1))
  BY <1>5, FS_Union
<1>8. Cardinality(Gaps(s) \cap Left(s, 1)) = 0
  BY <1>4, FS_EmptySet
<1>9. Cardinality(Gaps(s) \cup Left(s, 1)) = Len(s)
  BY <1>2, <1>4
<1>. QED
  BY <1>1, <1>6, <1>7, <1>8, <1>9

LEMMA GivenNext ==
    ASSUME NEW s \in Seq(Slot), NEW k \in 1 .. Len(s), Apart(s), IsFiniteSet(Given(s, k))
    PROVE  /\ IsFiniteSet(Given(s, k + 1)) /\ Cardinality(Given(s, k)) \in Nat
           /\ Cardinality(Given(s, k + 1)) =
                Cardinality(Given(s, k)) + (IF s[k] = None THEN 0 ELSE 1)
<1>1. Len(s) \in Nat /\ k \in Nat /\ DOMAIN s = 1 .. Len(s)
  BY LenProperties
<1>2. 1 .. ((k + 1) - 1) = (1 .. (k - 1)) \union {k}
  BY <1>1
<1>3. Cardinality(Given(s, k)) \in Nat
  BY FS_CardinalityType
<1>4. CASE s[k] = None
  <2>1. Given(s, k + 1) = Given(s, k)
    BY <1>2, <1>4 DEF Given
  <2>. QED
    BY <1>3, <1>4, <2>1
<1>5. CASE s[k] # None
  <2>1. Given(s, k + 1) = Given(s, k) \union {s[k].place}
    BY <1>2, <1>5 DEF Given
  <2>2. s[k].place \notin Given(s, k)
    BY <1>1, <1>5 DEF Given, Apart
  <2>3. /\ IsFiniteSet(Given(s, k) \union {s[k].place})
        /\ Cardinality(Given(s, k) \union {s[k].place}) = Cardinality(Given(s, k)) + 1
    BY <2>2, FS_AddElement
  <2>. QED
    BY <1>3, <1>5, <2>1, <2>3
<1>. QED
  BY <1>4, <1>5

NodeTypes == {Type[n] : n \in Names}

LEMMA DeviceIs ==
    /\ None \notin Device
    /\ \A e \in Device : e.place \in Places /\ DOMAIN e.nodes \subseteq NodeTypes
                         /\ (\A t \in DOMAIN e.nodes : e.nodes[t] \in Names)
                         /\ e = [place |-> e.place, nodes |-> e.nodes]
BY DevicesAssumption DEF Device, NodeTypes

LEMMA IsDevice ==
    ASSUME NEW p \in Places, NEW T \in SUBSET NodeTypes, NEW f \in [T -> Names]
    PROVE  [place |-> p, nodes |-> f] \in Device
BY DEF Device, NodeTypes

\* An entry that took over those of its device: of each type it has the node of one.
Same(s, i) == {j \in i .. Len(s) : Equal(s[i], s[j])}
Took(s, i, e) ==
    /\ e \in Device /\ e.place = s[i].place
    /\ \A j \in Same(s, i) : DOMAIN s[j].nodes \subseteq DOMAIN e.nodes
    /\ \A t \in DOMAIN e.nodes : \E j \in Same(s, i) :
          t \in DOMAIN s[j].nodes /\ e.nodes[t] = s[j].nodes[t]

LEMMA MergedTook ==
    ASSUME NEW s \in Seq(Device), NEW i \in DOMAIN s PROVE Took(s, i, Merged(s, i))
<1> DEFINE T == UNION {DOMAIN s[j].nodes : j \in Same(s, i)}
           with(t) == {j \in Same(s, i) : t \in DOMAIN s[j].nodes}
           f == [t \in T |-> s[Max(with(t))].nodes[t]]
<1>1. Len(s) \in Nat /\ DOMAIN s = 1 .. Len(s) /\ \A j \in 1 .. Len(s) : s[j] \in Device
  BY LenProperties
<1>2. Same(s, i) \subseteq 1 .. Len(s)
  BY <1>1 DEF Same
<1>3. ASSUME NEW t \in T PROVE Max(with(t)) \in with(t)
  <2>1. with(t) # {} /\ with(t) \in SUBSET (1 .. Len(s))
    BY <1>2
  <2>. QED
    BY <1>1, <2>1, MaxOf
<1>4. T \in SUBSET NodeTypes
  BY <1>1, <1>2, DeviceIs
<1>5. f \in [T -> Names]
  BY <1>1, <1>2, <1>3, DeviceIs
<1>6. Merged(s, i) = [place |-> s[i].place, nodes |-> f]
  <2>1. s[i] = [place |-> s[i].place, nodes |-> s[i].nodes]
    BY <1>1, DeviceIs
  <2>2. Merged(s, i) = [s[i] EXCEPT !.nodes = f]
    BY DEF Merged, Same
  <2>. HIDE DEF f
  <2>. QED
    BY <2>1, <2>2
<1>7. s[i].place \in Places
  BY <1>1, DeviceIs
<1>8. Merged(s, i) \in Device
  BY <1>4, <1>5, <1>6, <1>7, IsDevice
<1>9. Merged(s, i).nodes = f /\ Merged(s, i).place = s[i].place /\ DOMAIN f = T
  BY <1>6
<1>10. \A t \in T : \E j \in Same(s, i) : t \in DOMAIN s[j].nodes /\ f[t] = s[j].nodes[t]
  BY <1>3
<1>11. \A j \in Same(s, i) : DOMAIN s[j].nodes \subseteq T
  OBVIOUS
<1>. HIDE DEF f, T
<1>. QED
  BY <1>8, <1>9, <1>10, <1>11 DEF Took

\* The array with the entries of a device in its first one.
IsFold(s, d) ==
    /\ d \in Seq(Slot) /\ Len(d) = Len(s) /\ Apart(d)
    /\ \A i \in DOMAIN d : d[i] # None => Took(s, i, d[i])
    /\ \A j \in DOMAIN s : \E i \in DOMAIN d : d[i] # None /\ j \in Same(s, i)

LEMMA FoldedIsFold ==
    ASSUME NEW s \in Seq(Device) PROVE IsFold(s, Folded(s))
<1> DEFINE d == Folded(s)
<1>1. Len(s) \in Nat /\ DOMAIN s = 1 .. Len(s) /\ \A j \in 1 .. Len(s) : s[j] \in Device
  BY LenProperties
<1>2. DOMAIN d = 1 .. Len(s)
        /\ \A i \in 1 .. Len(s) : d[i] = IF Repeated(s, i) THEN None ELSE Merged(s, i)
  BY <1>1 DEF Folded
<1>. HIDE DEF d
<1>3. \A i \in 1 .. Len(s) : Took(s, i, Merged(s, i))
  BY <1>1, MergedTook
<1>4. \A i \in 1 .. Len(s) : Merged(s, i) \in Device /\ Merged(s, i) # None
  BY <1>3, DeviceIs DEF Took
<1>5. d \in Seq(Slot) /\ Len(d) = Len(s)
  <2>1. d = [i \in 1 .. Len(s) |-> d[i]] /\ \A i \in 1 .. Len(s) : d[i] \in Slot
    BY <1>2, <1>4 DEF d, Folded, Slot
  <2>2. d \in [1 .. Len(s) -> Slot]
    BY <2>1
  <2>. QED
    BY <1>1, <2>2, SeqDef, LenProperties
<1>6. \A i \in DOMAIN d : d[i] # None => Took(s, i, d[i]) /\ ~Repeated(s, i)
  BY <1>2, <1>3
<1>7. ASSUME NEW i \in DOMAIN d, NEW j \in DOMAIN d, d[i] # None, d[j] # None, d[i].place = d[j].place
      PROVE  i = j
  <2>1. s[i].place = s[j].place /\ s[i] # None /\ s[j] # None
    BY <1>1, <1>2, <1>6, <1>7, DeviceIs DEF Took
  <2>2. ~Repeated(s, i) /\ ~Repeated(s, j) /\ i \in 1 .. Len(s) /\ j \in 1 .. Len(s)
    BY <1>2, <1>6, <1>7
  <2>3. ~(j \in 1 .. (i - 1)) /\ ~(i \in 1 .. (j - 1))
    BY <2>1, <2>2 DEF Repeated, Equal
  <2>. QED
    BY <1>1, <2>2, <2>3
<1>8. ASSUME NEW j \in DOMAIN s PROVE \E i \in DOMAIN d : d[i] # None /\ j \in Same(s, i)
  <2> DEFINE S == {i \in 1 .. Len(s) : i <= j /\ s[i].place = s[j].place}
  <2>1. j \in S /\ S \in SUBSET Nat
    BY <1>1
  <2>2. PICK m \in S : \A k \in S : m <= k
    BY <2>1, LeastElement
  <2>3. m \in 1 .. Len(s) /\ m <= j /\ s[m].place = s[j].place
    BY <2>2
  <2>4. s[m] # None /\ s[j] # None
    BY <1>1, <2>3, DeviceIs
  <2>5. ~Repeated(s, m)
    <3> SUFFICES ASSUME NEW k \in 1 .. (m - 1), Equal(s[k], s[m]) PROVE FALSE
      BY DEF Repeated
    <3>1. k \in S
      BY <1>1, <2>3 DEF Equal
    <3>. QED
      BY <1>1, <2>2, <2>3, <3>1
  <2>6. j \in Same(s, m)
    BY <1>1, <2>3, <2>4 DEF Same, Equal
  <2>. QED
    BY <1>2, <1>4, <2>3, <2>5, <2>6
<1>. QED
  BY <1>5, <1>6, <1>7, <1>8 DEF IsFold, Apart, d
-----------------------------------------------------------------------------
\* The types, with the count of entries in use and the phases of a call.
Calls == {"none", "count", "list", "one"}
TrackType == [seen : SUBSET (Names \X Places), live : Nat, skipped : {0, 1}, calm : BOOLEAN]
DevTypes ==
    /\ dev \in [Names -> Places \union {None}] /\ plugs \in 0 .. MaxPlugs
    /\ pc \in {"idle", "read", "fold", "hand"}
    /\ call.op \in Calls
    /\ call.op = "list" => call.max \in Int
    /\ call.op = "one" => call.fd \in Names
    /\ unread \subseteq Names
    /\ local \in Seq(Slot) /\ Len(local) <= MaxNodes
    /\ next \in Nat /\ next <= Len(local) + 1
    /\ out \in Seq(Device) /\ result \in Int
    /\ track \in TrackType /\ track.live <= Len(local) + track.skipped

\* The nodes of an entry were its device's when they were read, each of its type.
RecordedIn(e, S) ==
    \A t \in DOMAIN e.nodes : Type[e.nodes[t]] = t /\ <<e.nodes[t], e.place>> \in S
AllRecorded ==
    /\ \A i \in DOMAIN local : local[i] # None => RecordedIn(local[i], track.seen)
    /\ \A k \in DOMAIN out : RecordedIn(out[k], track.seen)

\* Until the entries are folded all of them are in use, and nothing is handed out.
ReadInv ==
    pc \in {"read", "fold"} =>
      /\ next = 1 /\ out = <<>> /\ result = 0
      /\ local \in Seq(Device)
      /\ track.live = Len(local) + track.skipped
      /\ pc = "read" => track.skipped = 0

\* What is handed out comes from before next, and the entries from next on are in use.
OutApart == \A k, l \in DOMAIN out : out[k].place = out[l].place => k = l
FromGiven == \A k \in DOMAIN out : \E i \in 1 .. (next - 1) : i \in DOMAIN local /\ local[i] = out[k]
Counted == IsFiniteSet(Given(local, next)) /\ result = Cardinality(Given(local, next))
Kept == out # <<>> => \E t \in DOMAIN out[1].nodes : out[1].nodes[t] = call.fd
Due == track.skipped + Len(out) + Cardinality(Left(local, next))
Leak == call.op = "one" /\ ReadTwice(call.fd)
HandInv ==
    pc = "hand" =>
      /\ next >= 1 /\ Apart(local) /\ FromGiven
      /\ track.live >= Due /\ (track.live = Due \/ Leak)
      /\ IF call.op = "one" THEN Len(out) <= 1 /\ Kept ELSE OutApart /\ Counted

IdleInv == pc = "idle" => OutApart /\ (track.live = track.skipped + Len(out) \/ Leak)

\* While nothing happens, what is there is what was there.
Wanted(n) == dev[n] # None /\ (call.op = "one" => Bus[dev[n]] = call.bus)
TypesAt(p) == {Type[n] : n \in {m \in Names : dev[m] = p}}
CalmRead ==
    /\ \A i \in DOMAIN local : \E n \in Names : Wanted(n) /\ local[i] = NewEntry(n)
    /\ \A n \in Names : Wanted(n) =>
         (pc = "read" /\ n \in unread) \/ \E i \in DOMAIN local : local[i] = NewEntry(n)
CalmLocal ==
    /\ \A i \in DOMAIN local : local[i] # None =>
         /\ \E n \in Names : Wanted(n) /\ dev[n] = local[i].place
         /\ DOMAIN local[i].nodes = TypesAt(local[i].place)
    /\ \A n \in Names : Wanted(n) => \E i \in DOMAIN local : local[i] # None /\ local[i].place = dev[n]
CalmGiven ==
    \A i \in 1 .. (next - 1) : i \in DOMAIN local /\ local[i] # None =>
      /\ call.op = "list" /\ result <= call.max => \E k \in DOMAIN out : out[k] = local[i]
      /\ call.op = "one" /\ HasRdev(local[i]) => out # <<>>
CalmInv ==
    track.calm =>
      /\ call.op = "one" => Wanted(call.fd)
      /\ \A n \in Names, p \in Places : <<n, p>> \in track.seen => dev[n] = p
      /\ pc \in {"read", "fold"} => CalmRead
      /\ pc = "hand" => CalmLocal /\ CalmGiven

DevInv == DevTypes /\ AllRecorded /\ ReadInv /\ HandInv /\ IdleInv /\ CalmInv /\ CalmIsComplete

LEMMA InitDev == ASSUME DevicesInit PROVE DevInv
<1>1. /\ dev \in [Names -> Places \union {None}] /\ plugs = 0 /\ call = [op |-> "none"]
      /\ pc = "idle" /\ unread = {} /\ local = <<>> /\ next = 0 /\ out = <<>> /\ result = 0
      /\ track = [seen |-> {}, live |-> 0, skipped |-> 0, calm |-> TRUE]
  BY DEF DevicesInit, NoPast
<1>2. DOMAIN local = {} /\ DOMAIN out = {} /\ Len(local) = 0 /\ Len(out) = 0
      /\ local \in Seq(Slot) /\ out \in Seq(Device)
  BY <1>1
<1>3. call.op = "none"
  BY <1>1
<1>4. track \in TrackType /\ track.live = 0 /\ track.skipped = 0 /\ track.seen = {}
  BY <1>1 DEF TrackType
<1>5. DevTypes
  BY <1>1, <1>2, <1>3, <1>4, DevicesAssumption DEF DevTypes, Calls
<1>6. AllRecorded
  BY <1>2 DEF AllRecorded
<1>7. ReadInv /\ HandInv
  BY <1>1 DEF ReadInv, HandInv
<1>8. IdleInv
  BY <1>2, <1>4 DEF IdleInv, OutApart
<1>9. CalmInv
  BY <1>1, <1>3, <1>4 DEF CalmInv
<1>10. CalmIsComplete
  BY <1>3 DEF CalmIsComplete, Done
<1>. QED
  BY <1>5, <1>6, <1>7, <1>8, <1>9, <1>10 DEF DevInv

LEMMA HotplugDev == ASSUME DevInv, Hotplug PROVE DevInv'
<1>1. DevTypes /\ AllRecorded /\ ReadInv /\ HandInv /\ IdleInv
  BY DEF DevInv
<1>2. track' = [track EXCEPT !.calm = FALSE] /\ UNCHANGED <<call, pc, local, next, out, result>>
  BY DEF Hotplug
<1>3. track \in TrackType /\ track' \in TrackType
  BY <1>1, <1>2 DEF DevTypes, TrackType
<1>4. track'.calm = FALSE /\ track'.seen = track.seen /\ track'.live = track.live
      /\ track'.skipped = track.skipped
  BY <1>2, <1>3 DEF TrackType
<1>5. dev' \in [Names -> Places \union {None}] /\ plugs' \in 0 .. MaxPlugs /\ unread' \subseteq Names
  BY <1>1, DevicesAssumption DEF Hotplug, DevTypes
<1>6. DevTypes'
  BY <1>1, <1>2, <1>3, <1>4, <1>5 DEF DevTypes
<1>7. AllRecorded'
  BY <1>1, <1>2, <1>4 DEF AllRecorded
<1>8. ReadInv'
  BY <1>1, <1>2, <1>4 DEF ReadInv
<1>9. (ReadTwice(call.fd))' = ReadTwice(call.fd) /\ Leak' = Leak /\ Due' = Due
  BY <1>2, <1>4 DEF ReadTwice, Leak, Due
<1>10. OutApart' = OutApart /\ FromGiven' = FromGiven /\ Counted' = Counted /\ Kept' = Kept
  BY <1>2 DEF OutApart, FromGiven, Counted, Kept
<1>11. HandInv' /\ IdleInv'
  BY <1>1, <1>2, <1>4, <1>9, <1>10 DEF HandInv, IdleInv
<1>12. CalmInv' /\ CalmIsComplete'
  BY <1>4 DEF CalmInv, CalmIsComplete
<1>. QED
  BY <1>6, <1>7, <1>8, <1>11, <1>12 DEF DevInv

LEMMA CallDev == ASSUME DevInv, Call PROVE DevInv'
<1>1. DevTypes
  BY DEF DevInv
<1>2. /\ pc' = "read" /\ unread' = Present /\ local' = <<>> /\ next' = 1 /\ out' = <<>> /\ result' = 0
      /\ track' = [seen |-> {}, live |-> 0, skipped |-> 0, calm |-> TRUE]
      /\ UNCHANGED <<dev, plugs>>
  BY DEF Call, NoPast
<1>3. DOMAIN local' = {} /\ DOMAIN out' = {} /\ Len(local') = 0 /\ Len(out') = 0
      /\ local' \in Seq(Slot) /\ out' \in Seq(Device) /\ local' \in Seq(Device)
  BY <1>2
<1>4. track' \in TrackType /\ track'.live = 0 /\ track'.skipped = 0 /\ track'.seen = {} /\ track'.calm
  BY <1>2 DEF TrackType
<1>5. \/ call'.op = "count"
      \/ call'.op = "list" /\ call'.max \in MaxDevices
      \/ \E n \in Present : call' = [op |-> "one", fd |-> n, bus |-> Bus[dev[n]]]
  BY DEF Call
<1>6. call'.op \in Calls /\ (call'.op = "list" => call'.max \in Int)
      /\ (call'.op = "one" => call'.fd \in Names)
  <2>1. CASE call'.op = "count"
    BY <2>1 DEF Calls
  <2>2. CASE call'.op = "list" /\ call'.max \in MaxDevices
    BY <2>2, DevicesAssumption DEF Calls
  <2>3. CASE \E n \in Present : call' = [op |-> "one", fd |-> n, bus |-> Bus[dev[n]]]
    <3>1. call'.op = "one" /\ call'.fd \in Names
      BY <2>3 DEF Present
    <3>. QED
      BY <3>1 DEF Calls
  <2>. QED
    BY <1>5, <2>1, <2>2, <2>3
<1>7. call'.op = "one" => dev[call'.fd] # None /\ call'.bus = Bus[dev[call'.fd]]
  BY <1>5 DEF Present
<1>8. DevTypes'
  BY <1>1, <1>2, <1>3, <1>4, <1>6, DevicesAssumption DEF DevTypes, Present
<1>9. AllRecorded'
  BY <1>3 DEF AllRecorded
<1>10. ReadInv'
  BY <1>2, <1>3, <1>4 DEF ReadInv
<1>11. HandInv' /\ IdleInv'
  BY <1>2 DEF HandInv, IdleInv
<1>12. CalmRead'
  <2>1. \A n \in Names : dev[n] # None => n \in Present
    BY DEF Present
  <2>. QED
    BY <1>2, <1>3, <2>1 DEF CalmRead, Wanted
<1>13. CalmInv'
  BY <1>2, <1>4, <1>7, <1>12 DEF CalmInv, Wanted
<1>14. CalmIsComplete'
  BY <1>2 DEF CalmIsComplete, Done
<1>. QED
  BY <1>8, <1>9, <1>10, <1>11, <1>13, <1>14 DEF DevInv

LEMMA ReadAllDev == ASSUME DevInv, ReadAll PROVE DevInv'
<1>1. DevTypes /\ AllRecorded /\ ReadInv /\ CalmInv
  BY DEF DevInv
<1>2. /\ pc = "read" /\ unread = {} /\ pc' = "fold"
      /\ UNCHANGED <<dev, plugs, call, unread, local, next, out, result, track>>
  BY DEF ReadAll
<1>3. DevTypes' /\ AllRecorded' /\ ReadInv'
  BY <1>1, <1>2 DEF DevTypes, AllRecorded, ReadInv
<1>4. HandInv' /\ IdleInv' /\ CalmIsComplete'
  BY <1>2 DEF HandInv, IdleInv, CalmIsComplete, Done
<1>5. CalmRead => CalmRead'
  BY <1>2 DEF CalmRead, Wanted, NewEntry
<1>6. CalmInv'
  BY <1>1, <1>2, <1>5 DEF CalmInv, Wanted
<1>. QED
  BY <1>3, <1>4, <1>6 DEF DevInv

\* A node is read: its entry is the last, or it is the one that does not fit.
LEMMA NewDevice ==
    ASSUME DevTypes, NEW n \in Names, dev[n] # None
    PROVE  /\ NewEntry(n) \in Device /\ NewEntry(n).place = dev[n]
           /\ DOMAIN NewEntry(n).nodes = {Type[n]} /\ NewEntry(n).nodes[Type[n]] = n
<1>1. dev[n] \in Places
  BY DEF DevTypes
<1>2. {Type[n]} \in SUBSET NodeTypes /\ [t \in {Type[n]} |-> n] \in [{Type[n]} -> Names]
  BY DEF NodeTypes
<1>3. NewEntry(n) \in Device
  BY <1>1, <1>2, IsDevice, Zenon DEF NewEntry
<1>. QED
  BY <1>3 DEF NewEntry

\* The cases of ReadOne.
Read(n) ==
    /\ local' = Append(local, NewEntry(n)) /\ pc' = pc
    /\ Len(local) < MaxNodes
    /\ track' = [track EXCEPT !.live = @ + 1, !.seen = @ \union {<<n, dev[n]>>}]
Overflow ==
    /\ pc' = "fold" /\ local' = local
    /\ track' = [track EXCEPT !.live = @ + 1, !.skipped = @ + 1, !.calm = FALSE]
Passed(n) ==
    /\ local' = local /\ pc' = pc
    /\ \E c \in BOOLEAN : /\ track' = [track EXCEPT !.calm = c]
                          /\ c => track.calm /\ ~Wanted(n)

LEMMA ReadCases ==
    ASSUME DevTypes, NEW n \in Names, ReadOne(n)
    PROVE  /\ pc = "read" /\ unread' = unread \ {n}
           /\ UNCHANGED <<dev, plugs, call, next, out, result>>
           /\ \/ dev[n] # None /\ Wanted(n) /\ (Read(n) \/ Overflow)
              \/ Passed(n)
<1>1. Len(local) \in Nat /\ MaxNodes \in Nat
  BY DevicesAssumption, LenProperties DEF DevTypes
<1>2. CASE /\ dev[n] # None
           /\ call.op = "one" => Bus[dev[n]] = call.bus
           /\ IF Full
              THEN /\ pc' = "fold" /\ UNCHANGED local
                   /\ track' = [track EXCEPT !.live = @ + 1, !.skipped = @ + 1, !.calm = FALSE]
              ELSE /\ local' = Append(local, NewEntry(n)) /\ UNCHANGED pc
                   /\ track' = [track EXCEPT !.live = @ + 1, !.seen = @ \union {<<n, dev[n]>>}]
  BY <1>1, <1>2 DEF ReadOne, Wanted, Read, Overflow, Full
<1>3. CASE /\ UNCHANGED <<pc, local>>
           /\ track' = [track EXCEPT !.calm =
                         @ /\ dev[n] # None /\ call.op = "one" /\ Bus[dev[n]] # call.bus]
  <2> DEFINE c == track.calm /\ dev[n] # None /\ call.op = "one" /\ Bus[dev[n]] # call.bus
  <2>1. c \in BOOLEAN /\ (c => track.calm /\ ~Wanted(n))
    BY DEF Wanted, DevTypes, TrackType
  <2>2. track' = [track EXCEPT !.calm = c]
    BY <1>3
  <2> HIDE DEF c
  <2>3. Passed(n)
    BY <1>3, <2>1, <2>2 DEF Passed
  <2>. QED
    BY <2>3 DEF ReadOne
<1>. QED
  BY <1>2, <1>3 DEF ReadOne

LEMMA ReadDev ==
    ASSUME DevInv, NEW n \in Names, ReadOne(n), Wanted(n), Read(n) PROVE DevInv'
<1>1. DevTypes /\ AllRecorded /\ ReadInv /\ CalmInv
  BY DEF DevInv
<1>2. /\ pc = "read" /\ unread' = unread \ {n}
      /\ UNCHANGED <<dev, plugs, call, next, out, result>>
  BY <1>1, ReadCases
<1>3. /\ local' = Append(local, NewEntry(n)) /\ pc' = "read" /\ Len(local) < MaxNodes
      /\ track' = [track EXCEPT !.live = @ + 1, !.seen = @ \union {<<n, dev[n]>>}]
  BY <1>2 DEF Read
<1>4. dev[n] # None /\ dev[n] \in Places
  BY <1>1 DEF Wanted, DevTypes
<1> DEFINE e == NewEntry(n)
<1>5. e \in Device /\ e.place = dev[n] /\ DOMAIN e.nodes = {Type[n]} /\ e.nodes[Type[n]] = n
  BY <1>1, <1>4, NewDevice
<1>6. e \in Slot /\ local \in Seq(Slot) /\ local \in Seq(Device) /\ Len(local) \in Nat
  BY <1>1, <1>2, <1>5, LenProperties DEF Slot, DevTypes, ReadInv
<1>7. NewEntry(n) = e
  OBVIOUS
<1> HIDE DEF e
<1>8. /\ local' \in Seq(Slot) /\ local' \in Seq(Device) /\ Len(local') = Len(local) + 1
      /\ DOMAIN local' = DOMAIN local \union {Len(local) + 1}
      /\ DOMAIN local = 1 .. Len(local)
      /\ local'[Len(local) + 1] = e
      /\ \A i \in DOMAIN local : local'[i] = local[i]
  BY <1>3, <1>5, <1>6, <1>7, AppendProperties, LenProperties
<1>9. track \in TrackType /\ track.live \in Nat
  BY <1>1 DEF DevTypes, TrackType
<1>10. /\ track'.live = track.live + 1 /\ track'.seen = track.seen \union {<<n, dev[n]>>}
       /\ track'.skipped = track.skipped /\ track'.calm = track.calm
  BY <1>3, <1>9 DEF TrackType
<1>11. track' \in TrackType
  <2>1. track.seen \union {<<n, dev[n]>>} \in SUBSET (Names \X Places) /\ track.live + 1 \in Nat
    BY <1>4, <1>9 DEF TrackType
  <2>. QED
    BY <1>3, <1>9, <2>1 DEF TrackType
<1>12. track.live = Len(local) /\ track.skipped = 0 /\ next = 1 /\ out = <<>> /\ result = 0
  BY <1>1, <1>2, <1>6 DEF ReadInv
<1>13. DevTypes'
  <2>1. track'.live <= Len(local') + track'.skipped /\ Len(local') <= MaxNodes /\ next' <= Len(local') + 1
    BY <1>2, <1>3, <1>6, <1>8, <1>10, <1>12, DevicesAssumption
  <2>. QED
    BY <1>1, <1>2, <1>3, <1>8, <1>11, <2>1 DEF DevTypes
<1>14. AllRecorded'
  <2>1. RecordedIn(e, track'.seen)
    BY <1>5, <1>10 DEF RecordedIn
  <2>2. \A i \in DOMAIN local : local[i] # None => RecordedIn(local[i], track'.seen)
    BY <1>1, <1>10 DEF AllRecorded, RecordedIn
  <2>3. DOMAIN out' = {}
    BY <1>2, <1>12
  <2>. QED
    BY <1>8, <2>1, <2>2, <2>3 DEF AllRecorded
<1>15. ReadInv'
  <2>1. track'.live = Len(local') + track'.skipped
    BY <1>6, <1>8, <1>10, <1>12
  <2>. QED
    BY <1>2, <1>8, <1>10, <1>12, <2>1 DEF ReadInv
<1>16. HandInv' /\ IdleInv' /\ CalmIsComplete'
  BY <1>3 DEF HandInv, IdleInv, CalmIsComplete, Done
<1>17. CalmInv'
  <2> SUFFICES ASSUME track.calm PROVE CalmInv'
    BY <1>10 DEF CalmInv
  <2>1. CalmRead /\ (call.op = "one" => Wanted(call.fd))
        /\ \A m \in Names, p \in Places : <<m, p>> \in track.seen => dev[m] = p
    BY <1>1, <1>2 DEF CalmInv
  <2>2. \A m \in Names : Wanted(m)' = Wanted(m) /\ NewEntry(m)' = NewEntry(m)
    BY <1>2 DEF Wanted, NewEntry
  <2>3. \A i \in DOMAIN local' : \E m \in Names : Wanted(m) /\ local'[i] = NewEntry(m)
    BY <1>7, <1>8, <2>1 DEF CalmRead
  <2>4. ASSUME NEW m \in Names, Wanted(m)
        PROVE  m \in unread' \/ \E i \in DOMAIN local' : local'[i] = NewEntry(m)
    <3>1. CASE m = n
      BY <1>7, <1>8, <3>1
    <3>2. CASE m # n
      <4>1. m \in unread \/ \E i \in DOMAIN local : local[i] = NewEntry(m)
        BY <1>2, <2>1, <2>4 DEF CalmRead
      <4>. QED
        BY <1>2, <1>8, <3>2, <4>1
    <3>. QED
      BY <3>1, <3>2
  <2>5. CalmRead'
    BY <1>3, <2>2, <2>3, <2>4 DEF CalmRead
  <2>6. \A m \in Names, p \in Places : <<m, p>> \in track'.seen => dev'[m] = p
    BY <1>2, <1>10, <2>1
  <2>7. call'.op = "one" => Wanted(call.fd)'
    BY <1>2, <2>1 DEF Wanted
  <2>. QED
    BY <1>2, <1>3, <2>5, <2>6, <2>7 DEF CalmInv, Wanted
<1>. QED
  BY <1>13, <1>14, <1>15, <1>16, <1>17 DEF DevInv

LEMMA OverflowDev ==
    ASSUME DevInv, NEW n \in Names, ReadOne(n), Overflow PROVE DevInv'
<1>1. DevTypes /\ AllRecorded /\ ReadInv
  BY DEF DevInv
<1>2. /\ pc = "read" /\ unread' = unread \ {n}
      /\ UNCHANGED <<dev, plugs, call, next, out, result>>
  BY <1>1, ReadCases
<1>3. /\ local' = local /\ pc' = "fold"
      /\ track' = [track EXCEPT !.live = @ + 1, !.skipped = @ + 1, !.calm = FALSE]
  BY DEF Overflow
<1>4. track \in TrackType /\ track.live \in Nat /\ Len(local) \in Nat
  BY <1>1, LenProperties DEF DevTypes, TrackType
<1>5. track.skipped = 0 /\ track.live = Len(local) /\ next = 1 /\ out = <<>> /\ result = 0
      /\ local \in Seq(Device)
  BY <1>1, <1>2, <1>4 DEF ReadInv
<1>6. /\ track'.live = track.live + 1 /\ track'.seen = track.seen
      /\ track'.skipped = 1 /\ track'.calm = FALSE
  BY <1>3, <1>4, <1>5 DEF TrackType
<1>7. track' \in TrackType
  <2>1. track.live + 1 \in Nat /\ track.skipped + 1 \in {0, 1} /\ FALSE \in BOOLEAN
    BY <1>4, <1>5
  <2>. QED
    BY <1>3, <1>4, <2>1 DEF TrackType
<1>8. DevTypes'
  <2>1. track'.live <= Len(local') + track'.skipped
    BY <1>3, <1>4, <1>5, <1>6
  <2>. QED
    BY <1>1, <1>2, <1>3, <1>7, <2>1 DEF DevTypes
<1>9. AllRecorded'
  BY <1>1, <1>2, <1>3, <1>6 DEF AllRecorded
<1>10. ReadInv'
  <2>1. track'.live = Len(local') + track'.skipped
    BY <1>3, <1>4, <1>5, <1>6
  <2>. QED
    BY <1>2, <1>3, <1>5, <2>1 DEF ReadInv
<1>11. HandInv' /\ IdleInv'
  BY <1>3 DEF HandInv, IdleInv
<1>12. CalmInv' /\ CalmIsComplete'
  BY <1>6 DEF CalmInv, CalmIsComplete
<1>. QED
  BY <1>8, <1>9, <1>10, <1>11, <1>12 DEF DevInv

LEMMA PassedDev ==
    ASSUME DevInv, NEW n \in Names, ReadOne(n), Passed(n) PROVE DevInv'
<1>1. DevTypes /\ AllRecorded /\ ReadInv /\ CalmInv
  BY DEF DevInv
<1>2. /\ pc = "read" /\ unread' = unread \ {n}
      /\ UNCHANGED <<dev, plugs, call, next, out, result>>
  BY <1>1, ReadCases
<1>3. PICK c \in BOOLEAN : track' = [track EXCEPT !.calm = c] /\ (c => track.calm /\ ~Wanted(n))
  BY DEF Passed
<1>4. local' = local /\ pc' = "read"
  BY <1>2 DEF Passed
<1>5. track \in TrackType
  BY <1>1 DEF DevTypes
<1>6. /\ track' \in TrackType /\ track'.live = track.live /\ track'.seen = track.seen
      /\ track'.skipped = track.skipped /\ track'.calm = c
  BY <1>3, <1>5 DEF TrackType
<1>7. DevTypes'
  BY <1>1, <1>2, <1>4, <1>6 DEF DevTypes
<1>8. AllRecorded'
  BY <1>1, <1>2, <1>4, <1>6 DEF AllRecorded
<1>9. ReadInv'
  BY <1>1, <1>2, <1>4, <1>6 DEF ReadInv
<1>10. HandInv' /\ IdleInv' /\ CalmIsComplete'
  BY <1>4 DEF HandInv, IdleInv, CalmIsComplete, Done
<1>11. CalmInv'
  <2> SUFFICES ASSUME c PROVE CalmInv'
    BY <1>6 DEF CalmInv
  <2>1. track.calm /\ ~Wanted(n)
    BY <1>3
  <2>2. CalmRead /\ (call.op = "one" => Wanted(call.fd))
        /\ \A m \in Names, p \in Places : <<m, p>> \in track.seen => dev[m] = p
    BY <1>1, <1>2, <2>1 DEF CalmInv
  <2>3. \A m \in Names : Wanted(m)' = Wanted(m) /\ NewEntry(m)' = NewEntry(m)
    BY <1>2 DEF Wanted, NewEntry
  <2>4. \A m \in Names : Wanted(m) /\ m \in unread => m \in unread'
    BY <1>2, <2>1
  <2>5. CalmRead'
    BY <1>2, <1>4, <2>2, <2>3, <2>4 DEF CalmRead
  <2>6. call'.op = "one" => Wanted(call.fd)'
    BY <1>2, <2>2 DEF Wanted
  <2>. QED
    BY <1>2, <1>4, <1>6, <2>2, <2>5, <2>6 DEF CalmInv, Wanted
<1>. QED
  BY <1>7, <1>8, <1>9, <1>10, <1>11 DEF DevInv

LEMMA ReadOneDev == ASSUME DevInv, NEW n \in Names, ReadOne(n) PROVE DevInv'
<1>1. DevTypes
  BY DEF DevInv
<1>2. (Wanted(n) /\ Read(n)) \/ Overflow \/ Passed(n)
  BY <1>1, ReadCases
<1>. QED
  BY <1>2, ReadDev, OverflowDev, PassedDev, Zenon

\* Folding: the entries that are left stand for the devices that were read.
LEMMA FoldDev == ASSUME DevInv, Fold PROVE DevInv'
<1>1. DevTypes /\ AllRecorded /\ ReadInv /\ CalmInv
  BY DEF DevInv
<1>2. /\ pc = "fold" /\ pc' = "hand" /\ local' = Folded(local)
      /\ track' = [track EXCEPT !.live = @ - Cardinality(Gaps(local'))]
      /\ UNCHANGED <<dev, plugs, call, unread, next, out, result>>
  BY DEF Fold
<1>3. /\ next = 1 /\ out = <<>> /\ result = 0 /\ local \in Seq(Device)
      /\ track.live = Len(local) + track.skipped
  BY <1>1, <1>2 DEF ReadInv
<1>4. IsFold(local, local')
  BY <1>2, <1>3, FoldedIsFold
<1>5. local' \in Seq(Slot) /\ Len(local') = Len(local) /\ Apart(local')
      /\ Len(local) \in Nat /\ DOMAIN local = 1 .. Len(local) /\ DOMAIN local' = 1 .. Len(local)
  BY <1>3, <1>4, LenProperties DEF IsFold
<1> DEFINE g == Cardinality(Gaps(local'))
           l == Cardinality(Left(local', 1))
<1>6. g \in Nat /\ l \in Nat /\ g + l = Len(local)
  BY <1>5, GapsAndLeft, LeftIs
<1>7. track' = [track EXCEPT !.live = @ - g]
  BY <1>2
<1>8. Cardinality(Left(local', 1)) = l
  OBVIOUS
<1> HIDE DEF g, l
<1>9. track \in TrackType /\ track.live \in Nat /\ track.skipped \in Nat
  BY <1>1 DEF DevTypes, TrackType
<1>10. track'.live = track.skipped + l /\ track'.seen = track.seen
       /\ track'.skipped = track.skipped /\ track'.calm = track.calm
  BY <1>3, <1>5, <1>6, <1>7, <1>9 DEF TrackType
<1>11. track' \in TrackType
  <2>1. track.live - g \in Nat
    BY <1>3, <1>5, <1>6, <1>9
  <2>. QED
    BY <1>7, <1>9, <2>1 DEF TrackType
<1>12. DevTypes'
  <2>1. track'.live <= Len(local') + track'.skipped
    BY <1>5, <1>6, <1>9, <1>10
  <2>. QED
    BY <1>1, <1>2, <1>5, <1>11, <2>1 DEF DevTypes
<1>13. \A i \in DOMAIN local : local[i] \in Device /\ local[i] # None
  BY <1>3, <1>5, DeviceIs
<1>14. \A i \in DOMAIN local' : local'[i] # None => Took(local, i, local'[i])
  BY <1>4 DEF IsFold
<1>15. \A i \in DOMAIN local : \A j \in Same(local, i) : j \in DOMAIN local /\ local[j].place = local[i].place
  BY <1>5 DEF Same, Equal
<1>16. AllRecorded'
  <2>1. ASSUME NEW i \in DOMAIN local', local'[i] # None PROVE RecordedIn(local'[i], track.seen)
    <3> SUFFICES ASSUME NEW t \in DOMAIN local'[i].nodes
                 PROVE  Type[local'[i].nodes[t]] = t /\ <<local'[i].nodes[t], local'[i].place>> \in track.seen
      BY DEF RecordedIn
    <3>1. Took(local, i, local'[i])
      BY <1>14, <2>1
    <3>2. PICK j \in Same(local, i) : t \in DOMAIN local[j].nodes /\ local'[i].nodes[t] = local[j].nodes[t]
      BY <3>1 DEF Took
    <3>3. j \in DOMAIN local /\ local[j].place = local'[i].place
      BY <1>5, <1>15, <3>1 DEF Took
    <3>4. RecordedIn(local[j], track.seen)
      BY <1>1, <1>13, <3>3 DEF AllRecorded
    <3>. QED
      BY <3>2, <3>3, <3>4 DEF RecordedIn
  <2>2. DOMAIN out' = {}
    BY <1>2, <1>3
  <2>. QED
    BY <1>10, <2>1, <2>2 DEF AllRecorded
<1>17. ReadInv' /\ IdleInv' /\ CalmIsComplete'
  BY <1>2 DEF ReadInv, IdleInv, CalmIsComplete, Done
<1>18. HandInv'
  <2>1. out' = <<>> /\ Len(out') = 0 /\ DOMAIN out' = {} /\ next' = 1 /\ result' = 0
    BY <1>2, <1>3
  <2>2. Due' = track.skipped + l
    BY <1>8, <1>9, <1>10, <1>6, <2>1 DEF Due
  <2>3. OutApart' /\ FromGiven' /\ Kept'
    BY <2>1 DEF OutApart, FromGiven, Kept
  <2>4. Given(local', next') = {}
    BY <2>1 DEF Given
  <2>5. Counted'
    BY <2>1, <2>4, FS_EmptySet DEF Counted
  <2>6. track'.live = Due' /\ track'.live >= Due'
    BY <1>6, <1>9, <1>10, <2>2
  <2>. QED
    BY <1>5, <2>1, <2>3, <2>5, <2>6 DEF HandInv
<1>19. CalmInv'
  <2> SUFFICES ASSUME track.calm PROVE CalmInv'
    BY <1>10 DEF CalmInv
  <2>1. CalmRead /\ (call.op = "one" => Wanted(call.fd))
        /\ \A m \in Names, p \in Places : <<m, p>> \in track.seen => dev[m] = p
    BY <1>1, <1>2 DEF CalmInv
  <2>2. \A m \in Names : Wanted(m)' = Wanted(m)
    BY <1>2 DEF Wanted
  <2>3. \A p : TypesAt(p)' = TypesAt(p)
    BY <1>2 DEF TypesAt
  <2>0. \A m \in Names : NewEntry(m).place = dev[m] /\ DOMAIN NewEntry(m).nodes = {Type[m]}
    BY DEF NewEntry
  <2>4. \A i \in DOMAIN local : \E m \in Names : Wanted(m) /\ local[i].place = dev[m]
                                                /\ DOMAIN local[i].nodes = {Type[m]}
    BY <2>0, <2>1 DEF CalmRead
  <2>5. \A m \in Names : Wanted(m) => \E j \in DOMAIN local : local[j].place = dev[m]
                                                            /\ DOMAIN local[j].nodes = {Type[m]}
    BY <1>2, <2>0, <2>1 DEF CalmRead
  <2>6. \A j \in DOMAIN local : \E i \in DOMAIN local' :
          /\ local'[i] # None /\ local'[i].place = local[j].place
          /\ DOMAIN local[j].nodes \subseteq DOMAIN local'[i].nodes
    <3> TAKE j \in DOMAIN local
    <3>1. PICK i \in DOMAIN local' : local'[i] # None /\ j \in Same(local, i)
      BY <1>4 DEF IsFold
    <3>2. Took(local, i, local'[i]) /\ local[j].place = local[i].place
      BY <1>5, <1>14, <1>15, <3>1
    <3>. QED
      BY <3>1, <3>2 DEF Took
  <2>7. ASSUME NEW i \in DOMAIN local', local'[i] # None
        PROVE  /\ \E n \in Names : Wanted(n) /\ dev[n] = local'[i].place
               /\ DOMAIN local'[i].nodes = TypesAt(local'[i].place)
    <3>1. Took(local, i, local'[i]) /\ i \in DOMAIN local
      BY <1>5, <1>14, <2>7
    <3>2. local'[i].place = local[i].place
      BY <3>1 DEF Took
    <3>3. PICK n \in Names : Wanted(n) /\ dev[n] = local'[i].place
      BY <2>4, <3>1, <3>2
    <3>4. ASSUME NEW t \in DOMAIN local'[i].nodes PROVE t \in TypesAt(local'[i].place)
      <4>1. PICK j \in Same(local, i) : t \in DOMAIN local[j].nodes
        BY <3>1 DEF Took
      <4>2. j \in DOMAIN local /\ local[j].place = local'[i].place
        BY <1>15, <3>1, <3>2
      <4>. QED
        BY <2>4, <4>1, <4>2 DEF TypesAt
    <3>5. ASSUME NEW t \in TypesAt(local'[i].place) PROVE t \in DOMAIN local'[i].nodes
      <4>1. PICK m \in Names : dev[m] = local'[i].place /\ t = Type[m]
        BY DEF TypesAt
      <4>2. Wanted(m)
        BY <3>3, <4>1 DEF Wanted
      <4>3. PICK j \in DOMAIN local : local[j].place = local'[i].place /\ DOMAIN local[j].nodes = {t}
        BY <2>5, <4>1, <4>2
      <4>4. PICK k \in DOMAIN local' : local'[k] # None /\ local'[k].place = local[j].place
                                       /\ DOMAIN local[j].nodes \subseteq DOMAIN local'[k].nodes
        BY <2>6
      <4>5. k = i
        BY <1>5, <2>7, <4>3, <4>4 DEF Apart
      <4>. QED
        BY <4>3, <4>4, <4>5
    <3>. QED
      BY <3>3, <3>4, <3>5
  <2>8. \A n \in Names : Wanted(n) => \E i \in DOMAIN local' : local'[i] # None /\ local'[i].place = dev[n]
    BY <2>5, <2>6
  <2>9. CalmLocal'
    BY <1>2, <2>2, <2>3, <2>7, <2>8 DEF CalmLocal
  <2>10. CalmGiven'
    BY <1>2, <1>3 DEF CalmGiven
  <2>11. call'.op = "one" => Wanted(call.fd)'
    BY <1>2, <2>1 DEF Wanted
  <2>. QED
    BY <1>2, <1>10, <2>1, <2>9, <2>10, <2>11 DEF CalmInv, Wanted
<1>. QED
  BY <1>12, <1>16, <1>17, <1>18, <1>19 DEF DevInv

\* One entry is handed out, and the next one is to come.
LEMMA HandTypes ==
    ASSUME DevTypes, HandInv, pc = "hand", next <= Len(local)
    PROVE  /\ next \in 1 .. Len(local) /\ next \in DOMAIN local /\ next \in Nat /\ Len(local) \in Nat
           /\ next + 1 \in Nat /\ (next + 1) - 1 = next /\ next + 1 <= Len(local) + 1
           /\ local \in Seq(Slot) /\ local[next] \in Slot
           /\ track \in TrackType /\ track.live \in Nat /\ track.skipped \in Nat
           /\ Len(out) \in Nat
           /\ Cardinality(Left(local, next)) \in Nat /\ Cardinality(Left(local, next + 1)) \in Nat
           /\ Cardinality(Left(local, next)) =
                Cardinality(Left(local, next + 1)) + (IF local[next] = None THEN 0 ELSE 1)
<1>1. next \in Nat /\ next >= 1 /\ local \in Seq(Slot) /\ track \in TrackType /\ out \in Seq(Device)
  BY DEF DevTypes, HandInv
<1>2. Len(local) \in Nat /\ DOMAIN local = 1 .. Len(local) /\ Len(out) \in Nat
  BY <1>1, LenProperties
<1>3. next \in 1 .. Len(local) /\ next + 1 \in Nat /\ (next + 1) - 1 = next
      /\ next + 1 <= Len(local) + 1
  BY <1>1, <1>2
<1>4. local[next] \in Slot
  BY <1>1, <1>2, <1>3
<1>5. track.live \in Nat /\ track.skipped \in Nat
  BY <1>1 DEF TrackType
<1>6. Cardinality(Left(local, next)) \in Nat /\ Cardinality(Left(local, next + 1)) \in Nat
  BY <1>1, <1>3, LeftIs
<1>7. Cardinality(Left(local, next)) =
        Cardinality(Left(local, next + 1)) + (IF local[next] = None THEN 0 ELSE 1)
  BY <1>1, <1>3, LeftNext
<1>. QED
  BY <1>1, <1>2, <1>3, <1>4, <1>5, <1>6, <1>7

\* The entries before the next one.
LEMMA OneMore ==
    ASSUME NEW k \in Nat, k >= 1 PROVE 1 .. ((k + 1) - 1) = (1 .. (k - 1)) \union {k}
OBVIOUS

LEMMA OutAppended ==
    ASSUME NEW s \in Seq(Device), NEW e \in Device
    PROVE  /\ Append(s, e) \in Seq(Device) /\ Len(Append(s, e)) = Len(s) + 1
           /\ DOMAIN Append(s, e) = DOMAIN s \union {Len(s) + 1} /\ DOMAIN s = 1 .. Len(s)
           /\ Append(s, e)[Len(s) + 1] = e
           /\ \A k \in DOMAIN s : Append(s, e)[k] = s[k]
<1>1. Len(s) \in Nat /\ DOMAIN s = 1 .. Len(s)
  BY LenProperties
<1>2. Append(s, e) \in Seq(Device) /\ Len(Append(s, e)) = Len(s) + 1
      /\ Append(s, e)[Len(s) + 1] = e /\ \A k \in 1 .. Len(s) : Append(s, e)[k] = s[k]
  BY AppendProperties
<1>3. DOMAIN Append(s, e) = 1 .. (Len(s) + 1)
  BY <1>2, LenProperties
<1>4. 1 .. (Len(s) + 1) = (1 .. Len(s)) \union {Len(s) + 1}
  BY <1>1
<1>. QED
  BY <1>1, <1>2, <1>3, <1>4

\* drmGetDevices2 hands out an entry.
LEMMA HandGapDev ==
    ASSUME DevInv, Hand, local[next] = None PROVE DevInv'
<1>1. DevTypes /\ AllRecorded /\ HandInv /\ CalmInv
  BY DEF DevInv
<1>2. /\ pc = "hand" /\ call.op # "one" /\ next <= Len(local) /\ next' = next + 1
      /\ UNCHANGED <<dev, plugs, call, pc, unread, local, out, result, track>>
  BY DEF Hand
<1>3. /\ next \in 1 .. Len(local) /\ next \in Nat /\ next + 1 \in Nat /\ next + 1 <= Len(local) + 1
      /\ Cardinality(Left(local, next)) = Cardinality(Left(local, next + 1))
      /\ local \in Seq(Slot)
      /\ Cardinality(Left(local, next)) \in Nat
  BY <1>1, <1>2, HandTypes
<1>4. DevTypes' /\ AllRecorded'
  BY <1>1, <1>2, <1>3 DEF DevTypes, AllRecorded
<1>5. ReadInv' /\ IdleInv' /\ CalmIsComplete'
  BY <1>2 DEF ReadInv, IdleInv, CalmIsComplete, Done
<1>6. next >= 1 /\ Apart(local) /\ OutApart /\ FromGiven /\ Counted
      /\ track.live >= Due /\ (track.live = Due \/ Leak)
  BY <1>1, <1>2 DEF HandInv
<1>7. Given(local, next + 1) = Given(local, next)
  <2>1. 1 .. ((next + 1) - 1) = (1 .. (next - 1)) \union {next}
    BY <1>3, <1>6, OneMore
  <2>. QED
    BY <2>1 DEF Given
<1>8. Due' = Due /\ Leak' = Leak /\ OutApart' /\ Counted'
  BY <1>2, <1>3, <1>6, <1>7 DEF Due, Leak, ReadTwice, OutApart, Counted
<1>9. FromGiven'
  <2>1. 1 .. (next' - 1) = (1 .. (next - 1)) \union {next}
    BY <1>2, <1>3, <1>6, OneMore
  <2>. QED
    BY <1>2, <1>6, <2>1 DEF FromGiven
<1>10. HandInv'
  BY <1>2, <1>3, <1>6, <1>8, <1>9 DEF HandInv
<1>11. CalmInv'
  <2> SUFFICES ASSUME track.calm PROVE CalmInv'
    BY <1>2 DEF CalmInv
  <2>1. CalmLocal /\ CalmGiven
        /\ \A m \in Names, p \in Places : <<m, p>> \in track.seen => dev[m] = p
    BY <1>1, <1>2 DEF CalmInv
  <2>2. CalmLocal'
    BY <1>2, <2>1 DEF CalmLocal, Wanted, TypesAt
  <2>3. 1 .. (next' - 1) = (1 .. (next - 1)) \union {next}
    BY <1>2, <1>3, <1>6, OneMore
  <2>4. CalmGiven'
    BY <1>2, <2>1, <2>3 DEF CalmGiven
  <2>. QED
    BY <1>2, <2>1, <2>2, <2>4 DEF CalmInv
<1>. QED
  BY <1>4, <1>5, <1>10, <1>11 DEF DevInv

\* An entry is counted, and either goes to the caller or is freed.
Stored == call.op = "list" /\ result < call.max /\ out' = Append(out, local[next]) /\ track' = track
FreedNow == /\ ~(call.op = "list" /\ result < call.max)
            /\ out' = out /\ track' = [track EXCEPT !.live = @ - 1]

LEMMA HandEntry ==
    ASSUME DevInv, Hand, local[next] # None
    PROVE  /\ pc = "hand" /\ call.op # "one" /\ next <= Len(local) /\ next' = next + 1
           /\ UNCHANGED <<dev, plugs, call, pc, unread, local>>
           /\ result' = result + 1 /\ (Stored \/ FreedNow)
BY DEF Hand, Stored, FreedNow

\* What stays true of the entries handed out, whether or not this one is kept.
LEMMA HandEntryDev ==
    ASSUME DevInv, Hand, local[next] # None,
           out' \in Seq(Device), track' \in TrackType,
           track'.seen = track.seen, track'.skipped = track.skipped, track'.calm = track.calm,
           track'.live <= Len(local) + track.skipped,
           track'.live - Len(out') = track.live - 1 - Len(out),
           \A k \in DOMAIN out' : \/ k \in DOMAIN out /\ out'[k] = out[k]
                                  \/ out'[k] = local[next],
           OutApart',
           \A k \in DOMAIN out : k \in DOMAIN out' /\ out'[k] = out[k],
           call.op = "list" /\ result < call.max => \E k \in DOMAIN out' : out'[k] = local[next]
    PROVE  DevInv'
<1>1. DevTypes /\ AllRecorded /\ HandInv /\ CalmInv
  BY DEF DevInv
<1>2. /\ pc = "hand" /\ call.op # "one" /\ next <= Len(local) /\ next' = next + 1
      /\ UNCHANGED <<dev, plugs, call, pc, unread, local>> /\ result' = result + 1
  BY HandEntry
<1>3. /\ next \in 1 .. Len(local) /\ next \in DOMAIN local /\ next \in Nat /\ Len(local) \in Nat
      /\ next + 1 \in Nat /\ next + 1 <= Len(local) + 1
      /\ Cardinality(Left(local, next)) = Cardinality(Left(local, next + 1)) + 1
      /\ Cardinality(Left(local, next)) \in Nat /\ Cardinality(Left(local, next + 1)) \in Nat
      /\ local \in Seq(Slot)
  BY <1>1, <1>2, HandTypes
<1>4. track.live \in Nat /\ track.skipped \in Nat /\ Len(out) \in Nat /\ Len(out') \in Nat
      /\ track'.live \in Nat /\ result \in Int
  BY <1>1, <1>2, HandTypes, LenProperties DEF TrackType, DevTypes
<1>5. DevTypes'
  <2>1. /\ dev' \in [Names -> Places \union {None}] /\ plugs' \in 0 .. MaxPlugs
        /\ pc' \in {"idle", "read", "fold", "hand"} /\ call'.op \in Calls
        /\ (call'.op = "list" => call'.max \in Int) /\ (call'.op = "one" => call'.fd \in Names)
        /\ unread' \subseteq Names /\ local' \in Seq(Slot) /\ Len(local') <= MaxNodes
    BY <1>1, <1>2 DEF DevTypes
  <2>2. next' \in Nat /\ next' <= Len(local') + 1
    BY <1>2, <1>3
  <2>3. result' \in Int
    BY <1>2, <1>4
  <2>4. track'.live <= Len(local') + track'.skipped
    BY <1>2
  <2>. QED
    BY <2>1, <2>2, <2>3, <2>4 DEF DevTypes
<1>6. AllRecorded'
  BY <1>1, <1>2, <1>3 DEF AllRecorded
<1>7. ReadInv' /\ IdleInv' /\ CalmIsComplete'
  BY <1>2 DEF ReadInv, IdleInv, CalmIsComplete, Done
<1>8. next >= 1 /\ Apart(local) /\ FromGiven /\ Counted
      /\ track.live >= Due /\ (track.live = Due \/ Leak)
  BY <1>1, <1>2 DEF HandInv
<1>9. Leak' = Leak
  BY <1>2 DEF Leak, ReadTwice
<1>10. track'.live >= Due' /\ (track'.live = Due' \/ Leak')
  <2> DEFINE l == Cardinality(Left(local, next))
             m == Cardinality(Left(local, next + 1))
             o == Len(out)
             q == Len(out')
             s == track.skipped
             a == track.live
             b == track'.live
             d == Due
             e == Due'
  <2>1. d = s + o + l /\ e = s + q + m /\ l = m + 1
    BY <1>2, <1>3 DEF Due
  <2>2. b - q = a - 1 - o
    OBVIOUS
  <2>3. o \in Nat /\ q \in Nat /\ l \in Nat /\ m \in Nat /\ s \in Nat /\ a \in Nat /\ b \in Nat
    BY <1>3, <1>4
  <2>4. a >= d /\ (a = d \/ Leak)
    BY <1>8
  <2> HIDE DEF l, m, o, q, s, a, b, d, e
  <2>5. b >= e /\ (b = e \/ Leak)
    BY <2>1, <2>2, <2>3, <2>4
  <2>. QED
    BY <1>9, <2>5 DEF b, e
<1>11. Counted'
  <2>1. /\ IsFiniteSet(Given(local, next + 1)) /\ Cardinality(Given(local, next)) \in Nat
        /\ Cardinality(Given(local, next + 1)) = Cardinality(Given(local, next)) + 1
    BY <1>3, <1>8, GivenNext DEF Counted
  <2>. QED
    BY <1>2, <1>8, <2>1 DEF Counted
<1>12. 1 .. (next' - 1) = (1 .. (next - 1)) \union {next}
  BY <1>2, <1>3, <1>8, OneMore
<1>13. FromGiven'
  <2> SUFFICES ASSUME NEW k \in DOMAIN out'
               PROVE  \E i \in 1 .. (next' - 1) : i \in DOMAIN local /\ local[i] = out'[k]
    BY <1>2 DEF FromGiven
  <2>1. CASE out'[k] = local[next]
    BY <1>3, <1>12, <2>1
  <2>2. CASE k \in DOMAIN out /\ out'[k] = out[k]
    <3>1. PICK i \in 1 .. (next - 1) : i \in DOMAIN local /\ local[i] = out[k]
      BY <1>8, <2>2 DEF FromGiven
    <3>. QED
      BY <1>12, <2>2, <3>1
  <2>. QED
    BY <2>1, <2>2
<1>14. HandInv'
  BY <1>2, <1>3, <1>8, <1>10, <1>11, <1>13 DEF HandInv
<1>15. CalmInv'
  <2> SUFFICES ASSUME track.calm PROVE CalmInv'
    BY DEF CalmInv
  <2>1. CalmLocal /\ CalmGiven
        /\ \A m \in Names, p \in Places : <<m, p>> \in track.seen => dev[m] = p
    BY <1>1, <1>2 DEF CalmInv
  <2>2. CalmLocal'
    BY <1>2, <2>1 DEF CalmLocal, Wanted, TypesAt
  <2>3. ASSUME NEW i \in 1 .. (next' - 1), i \in DOMAIN local, local[i] # None,
               call.op = "list", result' <= call.max
        PROVE  \E k \in DOMAIN out' : out'[k] = local[i]
    <3>0. call.max \in Int
      BY <1>1, <2>3 DEF DevTypes
    <3>1. result < call.max /\ result <= call.max
      BY <1>2, <1>4, <2>3, <3>0
    <3>2. CASE i = next
      BY <2>3, <3>1, <3>2
    <3>3. CASE i # next
      <4>1. i \in 1 .. (next - 1)
        BY <1>12, <3>3
      <4>2. \E k \in DOMAIN out : out[k] = local[i]
        BY <2>1, <2>3, <3>1, <4>1 DEF CalmGiven
      <4>. QED
        BY <4>2
    <3>. QED
      BY <3>2, <3>3
  <2>4. CalmGiven'
    BY <1>2, <2>3 DEF CalmGiven
  <2>. QED
    BY <1>2, <2>1, <2>2, <2>4 DEF CalmInv
<1>. QED
  BY <1>5, <1>6, <1>7, <1>14, <1>15 DEF DevInv

LEMMA StoredDev == ASSUME DevInv, Hand, local[next] # None, Stored PROVE DevInv'
<1>1. DevTypes /\ HandInv
  BY DEF DevInv
<1>2. /\ pc = "hand" /\ call.op # "one" /\ next <= Len(local) /\ next' = next + 1
      /\ UNCHANGED <<dev, plugs, call, pc, unread, local>>
  BY HandEntry
<1>3. /\ next \in 1 .. Len(local) /\ next \in DOMAIN local /\ next \in Nat /\ Len(local) \in Nat
      /\ local \in Seq(Slot) /\ local[next] \in Slot
      /\ track \in TrackType /\ track.live \in Nat /\ Len(out) \in Nat
  BY <1>1, <1>2, HandTypes
<1>4. local[next] \in Device /\ out \in Seq(Device)
  BY <1>1, <1>3 DEF Slot, DevTypes
<1>5. out' = Append(out, local[next]) /\ track' = track
  BY DEF Stored
<1>6. /\ out' \in Seq(Device) /\ Len(out') = Len(out) + 1
      /\ DOMAIN out' = DOMAIN out \union {Len(out) + 1} /\ DOMAIN out = 1 .. Len(out)
      /\ out'[Len(out) + 1] = local[next]
      /\ \A k \in DOMAIN out : out'[k] = out[k]
  BY <1>4, <1>5, OutAppended
<1>7. OutApart /\ FromGiven /\ Apart(local)
  BY <1>1, <1>2 DEF HandInv
<1>8. \A k \in DOMAIN out : out[k].place # local[next].place
  <2> TAKE k \in DOMAIN out
  <2>1. PICK i \in 1 .. (next - 1) : i \in DOMAIN local /\ local[i] = out[k]
    BY <1>7 DEF FromGiven
  <2>2. out[k] \in Device /\ out[k] # None
    BY <1>4, <1>6, DeviceIs
  <2>3. i # next
    BY <1>3, <2>1
  <2>. QED
    BY <1>3, <1>7, <2>1, <2>2, <2>3 DEF Apart
<1>9. OutApart'
  BY <1>6, <1>7, <1>8 DEF OutApart
<1>10. track'.live - Len(out') = track.live - 1 - Len(out)
  <2> DEFINE o == Len(out)
             q == Len(out')
             a == track.live
             b == track'.live
  <2>1. b = a /\ q = o + 1 /\ o \in Nat /\ a \in Nat
    BY <1>3, <1>5, <1>6
  <2> HIDE DEF o, q, a, b
  <2>2. b - q = a - 1 - o
    BY <2>1
  <2>. QED
    BY <2>2 DEF o, q, a, b
<1>11. track.live <= Len(local) + track.skipped
  BY <1>1 DEF DevTypes
<1>12. \E k \in DOMAIN out' : out'[k] = local[next]
  BY <1>6
<1>13. \A k \in DOMAIN out' : (k \in DOMAIN out /\ out'[k] = out[k]) \/ out'[k] = local[next]
  BY <1>6
<1>14. \A k \in DOMAIN out : k \in DOMAIN out' /\ out'[k] = out[k]
  BY <1>6
<1>. QED
  BY <1>3, <1>5, <1>6, <1>9, <1>10, <1>11, <1>12, <1>13, <1>14, HandEntryDev

LEMMA ReleasedDev == ASSUME DevInv, Hand, local[next] # None, FreedNow PROVE DevInv'
<1>1. DevTypes /\ HandInv
  BY DEF DevInv
<1>2. /\ pc = "hand" /\ call.op # "one" /\ next <= Len(local)
  BY HandEntry
<1>3. /\ local \in Seq(Slot) /\ track \in TrackType /\ track.live \in Nat /\ Len(out) \in Nat
      /\ track.skipped \in Nat /\ Len(local) \in Nat
      /\ Cardinality(Left(local, next)) = Cardinality(Left(local, next + 1)) + 1
      /\ Cardinality(Left(local, next + 1)) \in Nat
  BY <1>1, <1>2, HandTypes
<1>4. out' = out /\ track' = [track EXCEPT !.live = @ - 1] /\ ~(call.op = "list" /\ result < call.max)
  BY DEF FreedNow
<1>5. track.live >= Due
  BY <1>1, <1>2 DEF HandInv
<1>6. track.live >= 1
  <2> DEFINE l == Cardinality(Left(local, next + 1))
  <2>1. Due = track.skipped + Len(out) + (l + 1) /\ l \in Nat
    BY <1>3 DEF Due
  <2> HIDE DEF l
  <2>. QED
    BY <1>3, <1>5, <2>1
<1>7. track' \in TrackType /\ track'.live = track.live - 1 /\ track'.seen = track.seen
      /\ track'.skipped = track.skipped /\ track'.calm = track.calm
  <2>1. track.live - 1 \in Nat
    BY <1>3, <1>6
  <2>. QED
    BY <1>3, <1>4, <2>1 DEF TrackType
<1>8. track'.live - Len(out') = track.live - 1 - Len(out)
  BY <1>3, <1>4, <1>7
<1>9. track'.live <= Len(local) + track.skipped
  BY <1>1, <1>3, <1>7 DEF DevTypes
<1>10. out' \in Seq(Device) /\ OutApart'
  BY <1>1, <1>2, <1>4 DEF DevTypes, HandInv, OutApart
<1>. QED
  BY <1>4, <1>7, <1>8, <1>9, <1>10, HandEntryDev

LEMMA HandDev == ASSUME DevInv, Hand PROVE DevInv'
<1>1. CASE local[next] = None
  BY <1>1, HandGapDev
<1>2. CASE local[next] # None
  <2>1. Stored \/ FreedNow
    BY <1>2, HandEntry
  <2>. QED
    BY <1>2, <2>1, StoredDev, ReleasedDev
<1>. QED
  BY <1>1, <1>2

\* drmGetDevice2 goes over the entries: each is kept or freed.
PickOne ==
    /\ pc = "hand" /\ call.op = "one" /\ next <= Len(local) /\ next' = next + 1
    /\ UNCHANGED <<dev, plugs, call, pc, unread, local, result>>
LEMMA PickCases ==
    ASSUME Pick
    PROVE  /\ PickOne
           /\ \/ local[next] = None /\ out' = out /\ track' = track
              \/ local[next] # None /\ HasRdev(local[next]) /\ out' = <<local[next]>> /\ track' = track
              \/ /\ local[next] # None /\ ~HasRdev(local[next])
                 /\ out' = out /\ track' = [track EXCEPT !.live = @ - 1]
BY DEF Pick, PickOne

\* What stays true of the entry that is kept.
LEMMA PickEntryDev ==
    ASSUME DevInv, PickOne,
           out' \in Seq(Device), track' \in TrackType, Len(out') <= 1,
           track'.seen = track.seen, track'.skipped = track.skipped, track'.calm = track.calm,
           track'.live <= Len(local) + track.skipped,
           track'.live >= Due', track'.live = Due' \/ Leak,
           \/ out' = out
           \/ local[next] # None /\ HasRdev(local[next]) /\ out' = <<local[next]>>,
           local[next] # None /\ HasRdev(local[next]) => out' # <<>>
    PROVE  DevInv'
<1>1. DevTypes /\ AllRecorded /\ HandInv /\ CalmInv
  BY DEF DevInv
<1>2. /\ pc = "hand" /\ call.op = "one" /\ next <= Len(local) /\ next' = next + 1
      /\ UNCHANGED <<dev, plugs, call, pc, unread, local, result>>
  BY DEF PickOne
<1>3. /\ next \in 1 .. Len(local) /\ next \in DOMAIN local /\ next \in Nat
      /\ next + 1 \in Nat /\ next + 1 <= Len(local) + 1
  BY <1>1, <1>2, HandTypes
<1>4. DevTypes'
  BY <1>1, <1>2, <1>3 DEF DevTypes
<1>5. out' = out \/ (DOMAIN out' = {1} /\ out'[1] = local[next])
  <2>1. CASE out' = <<local[next]>>
    BY <2>1
  <2>. QED
    BY <2>1
<1>6. AllRecorded'
  BY <1>1, <1>2, <1>3, <1>5 DEF AllRecorded
<1>7. ReadInv' /\ IdleInv' /\ CalmIsComplete'
  BY <1>2 DEF ReadInv, IdleInv, CalmIsComplete, Done
<1>8. next >= 1 /\ Apart(local) /\ FromGiven /\ Kept
  BY <1>1, <1>2 DEF HandInv
<1>9. Leak' = Leak
  <2>1. call' = call /\ track'.seen = track.seen
    BY <1>2
  <2>. QED
    BY <2>1 DEF Leak, ReadTwice
<1>10. 1 .. (next' - 1) = (1 .. (next - 1)) \union {next}
  BY <1>2, <1>3, <1>8, OneMore
<1>11. FromGiven'
  BY <1>2, <1>3, <1>5, <1>8, <1>10 DEF FromGiven
<1>12. Kept'
  <2>1. CASE out' = out
    BY <1>2, <1>8, <2>1 DEF Kept
  <2>2. CASE HasRdev(local[next]) /\ out' = <<local[next]>>
    <3>1. out'[1] = local[next]
      BY <2>2
    <3>. QED
      BY <1>2, <2>2, <3>1 DEF Kept, HasRdev
  <2>. QED
    BY <2>1, <2>2
<1>13. HandInv'
  BY <1>2, <1>3, <1>8, <1>9, <1>11, <1>12 DEF HandInv
<1>14. CalmInv'
  <2> SUFFICES ASSUME track.calm PROVE CalmInv'
    BY DEF CalmInv
  <2>1. CalmLocal /\ CalmGiven /\ Wanted(call.fd)
        /\ \A m \in Names, p \in Places : <<m, p>> \in track.seen => dev[m] = p
    BY <1>1, <1>2 DEF CalmInv
  <2>2. CalmLocal'
    BY <1>2, <2>1 DEF CalmLocal, Wanted, TypesAt
  <2>3. out # <<>> => out' # <<>>
    <3>1. <<local[next]>> # <<>>
      OBVIOUS
    <3>. QED
      BY <3>1
  <2>4. ASSUME NEW i \in 1 .. (next' - 1), i \in DOMAIN local, local[i] # None, HasRdev(local[i])
        PROVE  out' # <<>>
    <3>1. CASE i = next
      BY <2>4, <3>1
    <3>2. CASE i # next
      <4>1. i \in 1 .. (next - 1)
        BY <1>10, <3>2
      <4>2. out # <<>>
        BY <1>2, <2>1, <2>4, <4>1 DEF CalmGiven
      <4>. QED
        BY <2>3, <4>2
    <3>. QED
      BY <3>1, <3>2
  <2>5. CalmGiven'
    BY <1>2, <2>4 DEF CalmGiven, HasRdev
  <2>6. Wanted(call.fd)'
    BY <1>2, <2>1 DEF Wanted
  <2>. QED
    BY <1>2, <2>1, <2>2, <2>5, <2>6 DEF CalmInv, Wanted
<1>. QED
  BY <1>4, <1>6, <1>7, <1>13, <1>14 DEF DevInv

LEMMA PickDev == ASSUME DevInv, Pick PROVE DevInv'
<1>1. DevTypes /\ AllRecorded /\ HandInv /\ PickOne
  BY PickCases DEF DevInv
<1>2. /\ pc = "hand" /\ call.op = "one" /\ next <= Len(local) /\ next' = next + 1 /\ local' = local
  BY <1>1 DEF PickOne
<1>3. /\ next \in 1 .. Len(local) /\ next \in DOMAIN local /\ next \in Nat
      /\ local \in Seq(Slot) /\ local[next] \in Slot /\ Len(local) \in Nat
      /\ track \in TrackType /\ track.live \in Nat /\ track.skipped \in Nat /\ Len(out) \in Nat
  BY <1>1, <1>2, HandTypes
<1> DEFINE l == Cardinality(Left(local, next))
           m == Cardinality(Left(local, next + 1))
           o == Len(out)
           q == Len(out')
           s == track.skipped
           a == track.live
           d == Due
           e == Due'
<1>4. /\ l \in Nat /\ m \in Nat /\ o \in Nat /\ s \in Nat /\ a \in Nat
      /\ local[next] = None => l = m
      /\ local[next] # None => l = m + 1
  BY <1>1, <1>2, HandTypes
<1>5. d = s + o + l /\ (track'.skipped = track.skipped => e = s + q + m)
  BY <1>2 DEF Due
<1>6. a >= d /\ (a = d \/ Leak) /\ o <= 1 /\ Kept /\ FromGiven /\ Apart(local)
      /\ out \in Seq(Device) /\ a <= Len(local) + track.skipped
  BY <1>1, <1>2 DEF HandInv, DevTypes
<1>7. (a = track.live /\ o = Len(out) /\ q = Len(out')) /\ e = Due'
  OBVIOUS
<1> HIDE DEF l, m, o, q, s, a, d, e
<1>8. CASE local[next] = None /\ out' = out /\ track' = track
  <2>1. track'.live = a /\ track'.skipped = track.skipped /\ track'.seen = track.seen
        /\ track'.calm = track.calm /\ q = o /\ track' \in TrackType /\ out' \in Seq(Device)
    BY <1>3, <1>6, <1>7, <1>8
  <2>2. e = d
    BY <1>4, <1>5, <1>8, <2>1
  <2>3. track'.live >= e /\ (track'.live = e \/ Leak)
    BY <1>6, <2>1, <2>2
  <2>. QED
    BY <1>1, <1>6, <1>7, <1>8, <2>1, <2>3, PickEntryDev
<1>9. CASE local[next] # None /\ ~HasRdev(local[next])
           /\ out' = out /\ track' = [track EXCEPT !.live = @ - 1]
  <2>1. e = d - 1 \/ track'.skipped # track.skipped
    BY <1>4, <1>5, <1>7, <1>9
  <2>2. a - 1 \in Nat
    BY <1>4, <1>5, <1>6, <1>9
  <2>3. track'.live = a - 1 /\ track'.skipped = track.skipped /\ track'.seen = track.seen
        /\ track'.calm = track.calm /\ q = o /\ out' \in Seq(Device)
    BY <1>3, <1>6, <1>7, <1>9 DEF TrackType
  <2>4. track' \in TrackType
    BY <1>3, <1>7, <1>9, <2>2 DEF TrackType
  <2>5. track'.live >= e /\ (track'.live = e \/ Leak)
    BY <1>4, <1>5, <1>6, <2>1, <2>3
  <2>6. track'.live <= Len(local) + track.skipped
    BY <1>3, <1>4, <1>6, <2>3
  <2>. QED
    BY <1>1, <1>6, <1>7, <1>9, <2>3, <2>4, <2>5, <2>6, PickEntryDev
<1>10. CASE local[next] # None /\ HasRdev(local[next]) /\ out' = <<local[next]>> /\ track' = track
  <2>1. local[next] \in Device
    BY <1>3, <1>10 DEF Slot
  <2>2. out' \in Seq(Device) /\ Len(out') = 1 /\ out' # <<>>
    BY <1>10, <2>1
  <2>3. track'.live = a /\ track'.skipped = track.skipped /\ track'.seen = track.seen
        /\ track'.calm = track.calm /\ track' \in TrackType
    BY <1>3, <1>7, <1>10
  <2>4. e = s + 1 + m /\ l = m + 1 /\ d = s + o + l
    BY <1>4, <1>5, <1>7, <1>10, <2>2, <2>3
  <2>5. a >= e
    BY <1>4, <1>6, <2>4
  <2>6. a = e \/ Leak
    <3>1. CASE o = 0
      BY <1>4, <1>6, <2>4, <3>1
    <3>2. CASE o = 1
      <4>1. out # <<>> /\ 1 \in DOMAIN out
        <5>1. Len(out) = 1 /\ Len(<<>>) = 0 /\ DOMAIN out = 1 .. Len(out)
          BY <1>6, <1>7, <3>2, LenProperties
        <5>. QED
          BY <5>1
      <4>2. PICK t \in DOMAIN out[1].nodes : out[1].nodes[t] = call.fd
        BY <1>6, <4>1 DEF Kept
      <4>3. PICK u \in DOMAIN local[next].nodes : local[next].nodes[u] = call.fd
        BY <1>10 DEF HasRdev
      <4>4. RecordedIn(out[1], track.seen) /\ RecordedIn(local[next], track.seen)
        BY <1>1, <1>3, <1>10, <4>1 DEF AllRecorded
      <4>5. <<call.fd, out[1].place>> \in track.seen /\ <<call.fd, local[next].place>> \in track.seen
        BY <4>2, <4>3, <4>4 DEF RecordedIn
      <4>6. PICK i \in 1 .. (next - 1) : i \in DOMAIN local /\ local[i] = out[1]
        BY <1>6, <4>1 DEF FromGiven
      <4>7. out[1] \in Device /\ out[1] # None
        BY <1>6, <4>1, DeviceIs
      <4>8. i # next
        BY <1>3, <4>6
      <4>9. out[1].place # local[next].place
        BY <1>3, <1>6, <1>10, <4>6, <4>7, <4>8 DEF Apart
      <4>10. out[1].place \in Places /\ local[next].place \in Places
        BY <2>1, <4>7, DeviceIs
      <4>. QED
        BY <1>2, <4>5, <4>9, <4>10 DEF Leak, ReadTwice
    <3>. QED
      BY <1>4, <1>6, <3>1, <3>2
  <2>7. track'.live <= Len(local) + track.skipped
    BY <1>6, <2>3
  <2>. QED
    BY <1>1, <1>7, <1>10, <2>2, <2>3, <2>5, <2>6, <2>7, PickEntryDev
<1>. QED
  BY <1>8, <1>9, <1>10, PickCases

\* The call returns: what it says is what there was.
LEMMA AnswerDev == ASSUME DevInv, Answer PROVE DevInv'
<1>1. DevTypes /\ AllRecorded /\ HandInv /\ CalmInv
  BY DEF DevInv
<1>2. /\ pc = "hand" /\ next > Len(local) /\ pc' = "idle"
      /\ result' = IF call.op # "one" THEN result ELSE IF out = <<>> THEN -1 ELSE 0
      /\ UNCHANGED <<dev, plugs, call, unread, local, next, out, track>>
  BY DEF Answer
<1>3. next >= 1 /\ Apart(local) /\ FromGiven /\ (track.live = Due \/ Leak)
      /\ IF call.op = "one" THEN Len(out) <= 1 /\ Kept ELSE OutApart /\ Counted
  BY <1>1, <1>2 DEF HandInv
<1>4. local \in Seq(Slot) /\ Len(local) \in Nat /\ DOMAIN local = 1 .. Len(local)
      /\ out \in Seq(Device) /\ Len(out) \in Nat /\ DOMAIN out = 1 .. Len(out)
      /\ next \in Nat /\ next = Len(local) + 1 /\ track \in TrackType /\ track.skipped \in Nat
  BY <1>1, <1>2, LenProperties DEF DevTypes, TrackType
<1>5. 1 .. (next - 1) = DOMAIN local
  BY <1>4
<1>6. DevTypes'
  BY <1>1, <1>2 DEF DevTypes
<1>7. AllRecorded'
  BY <1>1, <1>2 DEF AllRecorded
<1>8. ReadInv' /\ HandInv'
  BY <1>2 DEF ReadInv, HandInv
<1>9. IdleInv'
  <2>1. Cardinality(Left(local, next)) = 0
    BY <1>2, <1>4, LeftEnd
  <2>2. Due = track.skipped + Len(out)
    BY <1>4, <2>1 DEF Due
  <2>3. OutApart
    BY <1>3, <1>4 DEF OutApart
  <2>. QED
    BY <1>2, <1>3, <2>2, <2>3 DEF IdleInv, OutApart, Leak, ReadTwice
<1>10. CalmInv'
  BY <1>1, <1>2 DEF CalmInv, Wanted
<1>11. CalmIsComplete'
  <2> SUFFICES ASSUME track.calm PROVE CalmIsComplete'
    BY <1>2 DEF CalmIsComplete
  <2>1. CalmLocal /\ CalmGiven /\ (call.op = "one" => Wanted(call.fd))
        /\ \A m \in Names, p \in Places : <<m, p>> \in track.seen => dev[m] = p
    BY <1>1, <1>2 DEF CalmInv
  <2>2. ASSUME call.op # "one" PROVE result = Cardinality(DevicesOf)
    <3>1. Given(local, next) = {local[i].place : i \in {j \in DOMAIN local : local[j] # None}}
      BY <1>5 DEF Given
    <3>2. ASSUME NEW i \in DOMAIN local, local[i] # None PROVE local[i].place \in DevicesOf
      BY <2>1, <3>2 DEF CalmLocal, DevicesOf, Present, Wanted
    <3>3. ASSUME NEW n \in Present
          PROVE  dev[n] \in {local[i].place : i \in {j \in DOMAIN local : local[j] # None}}
      <4>1. n \in Names /\ Wanted(n)
        BY <2>2 DEF Present, Wanted
      <4>. QED
        BY <2>1, <4>1 DEF CalmLocal
    <3>4. Given(local, next) = DevicesOf
      BY <3>1, <3>2, <3>3 DEF DevicesOf
    <3>. QED
      BY <1>3, <2>2, <3>4 DEF Counted
  <2>3. ASSUME call.op = "list", call.max >= result, NEW p \in DevicesOf
        PROVE  \E k \in DOMAIN out : out[k].place = p
                 /\ DOMAIN out[k].nodes = {Type[n] : n \in {m \in Names : dev[m] = p}}
    <3>1. PICK n \in Names : dev[n] # None /\ dev[n] = p
      BY DEF DevicesOf, Present
    <3>2. PICK i \in DOMAIN local : local[i] # None /\ local[i].place = p
      BY <2>1, <2>3, <3>1 DEF CalmLocal, Wanted
    <3>3. call.max \in Int /\ result \in Int
      BY <1>1, <2>3 DEF DevTypes
    <3>4. PICK k \in DOMAIN out : out[k] = local[i]
      BY <1>5, <2>1, <2>3, <3>2, <3>3 DEF CalmGiven
    <3>5. DOMAIN local[i].nodes = TypesAt(p)
      BY <2>1, <3>2 DEF CalmLocal
    <3>. QED
      BY <3>2, <3>4, <3>5 DEF TypesAt
  <2>4. ASSUME call.op = "one", out # <<>> PROVE out[1].place = dev[call.fd]
    <3>1. Len(out) = 1 /\ 1 \in DOMAIN out
      <4>1. Len(out) # 0
        BY <1>4, <2>4, EmptySeq
      <4>. QED
        BY <1>3, <1>4, <2>4, <4>1
    <3>2. PICK t \in DOMAIN out[1].nodes : out[1].nodes[t] = call.fd
      BY <1>3, <2>4 DEF Kept
    <3>3. <<call.fd, out[1].place>> \in track.seen
      BY <1>1, <3>1, <3>2 DEF AllRecorded, RecordedIn
    <3>4. out[1].place \in Places /\ call.fd \in Names
      BY <1>1, <1>4, <2>4, <3>1, DeviceIs DEF DevTypes
    <3>. QED
      BY <2>1, <3>3, <3>4
  <2>5. ASSUME call.op = "one", out = <<>> PROVE Shared(call.fd)
    <3>1. call.fd \in Names /\ Wanted(call.fd) /\ dev[call.fd] # None
      BY <1>1, <2>1, <2>5 DEF DevTypes, Wanted
    <3>2. PICK i \in DOMAIN local : local[i] # None /\ local[i].place = dev[call.fd]
      BY <2>1, <3>1 DEF CalmLocal
    <3>3. Type[call.fd] \in DOMAIN local[i].nodes
      BY <2>1, <3>1, <3>2 DEF CalmLocal, TypesAt
    <3>4. local[i] \in Device
      BY <1>4, <3>2 DEF Slot
    <3> DEFINE m == local[i].nodes[Type[call.fd]]
    <3>5. m \in Names /\ local[i].place \in Places
      BY <3>3, <3>4, DeviceIs
    <3>6. Type[m] = Type[call.fd] /\ <<m, local[i].place>> \in track.seen
      BY <1>1, <3>2, <3>3 DEF AllRecorded, RecordedIn
    <3>7. dev[m] = dev[call.fd]
      BY <2>1, <3>2, <3>5, <3>6
    <3>8. m # call.fd
      <4> SUFFICES ASSUME m = call.fd PROVE FALSE
        OBVIOUS
      <4>1. HasRdev(local[i])
        BY <3>1, <3>3 DEF HasRdev
      <4>. QED
        BY <1>5, <2>1, <2>5, <3>2, <4>1 DEF CalmGiven
    <3>. HIDE DEF m
    <3>. QED
      BY <3>5, <3>6, <3>7, <3>8 DEF Shared
  <2>6. (DevicesOf)' = DevicesOf /\ (call.op = "one" => Shared(call.fd)' = Shared(call.fd))
    BY <1>2 DEF DevicesOf, Present, Shared
  <2>7. Done("count")' => result' = Cardinality(DevicesOf)
    BY <1>2, <2>2 DEF Done
  <2>8. Done("list")' => /\ result' = Cardinality(DevicesOf)
                         /\ call.max >= result' =>
                              \A p \in DevicesOf : \E k \in DOMAIN out :
                                out[k].place = p
                                /\ DOMAIN out[k].nodes = {Type[n] : n \in {m \in Names : dev[m] = p}}
    BY <1>2, <2>2, <2>3 DEF Done
  <2>9. Done("one")' => (result' = 0 /\ out[1].place = dev[call.fd])
                        \/ (result' = -1 /\ Shared(call.fd))
    BY <1>2, <2>4, <2>5 DEF Done
  <2>. QED
    BY <1>2, <2>6, <2>7, <2>8, <2>9 DEF CalmIsComplete, Done
<1>. QED
  BY <1>6, <1>7, <1>8, <1>9, <1>10, <1>11 DEF DevInv

LEMMA DevStep == ASSUME DevInv, [DevicesNext]_deviceVars PROVE DevInv'
<1>1. CASE UNCHANGED deviceVars
  <2>1. UNCHANGED <<dev, plugs, call, pc, unread, local, next, out, result, track>>
    BY <1>1 DEF deviceVars
  <2>2. DevTypes /\ AllRecorded /\ ReadInv /\ HandInv /\ IdleInv /\ CalmInv /\ CalmIsComplete
    BY DEF DevInv
  <2>3. DevTypes' /\ AllRecorded' /\ ReadInv'
    BY <2>1, <2>2 DEF DevTypes, AllRecorded, ReadInv
  <2>4. Due' = Due /\ Leak' = Leak /\ Kept' = Kept /\ Counted' = Counted /\ OutApart' = OutApart
        /\ FromGiven' = FromGiven
    BY <2>1 DEF Due, Leak, ReadTwice, Kept, Counted, OutApart, FromGiven
  <2>5. HandInv' /\ IdleInv'
    BY <2>1, <2>2, <2>4 DEF HandInv, IdleInv
  <2>6. CalmRead' = CalmRead /\ CalmLocal' = CalmLocal /\ CalmGiven' = CalmGiven
    BY <2>1 DEF CalmRead, CalmLocal, CalmGiven, Wanted, NewEntry, TypesAt, HasRdev
  <2>7. CalmInv'
    BY <2>1, <2>2, <2>6 DEF CalmInv, Wanted
  <2>8. CalmIsComplete'
    <3>1. DevicesOf' = DevicesOf
      BY <2>1 DEF DevicesOf, Present
    <3>2. \A n \in Names : Shared(n)' = Shared(n)
      BY <2>1 DEF Shared
    <3>3. call.op = "one" => Shared(call.fd)' = Shared(call.fd)
      BY <2>1, <2>2, <3>2 DEF DevTypes
    <3>. QED
      BY <2>1, <2>2, <3>1, <3>3 DEF CalmIsComplete, Done
  <2>. QED
    BY <2>2, <2>3, <2>5, <2>7, <2>8 DEF DevInv
<1>2. CASE Call
  BY <1>2, CallDev
<1>3. CASE ReadAll
  BY <1>3, ReadAllDev
<1>4. CASE Fold
  BY <1>4, FoldDev
<1>5. CASE Hand
  BY <1>5, HandDev
<1>6. CASE Pick
  BY <1>6, PickDev
<1>7. CASE Answer
  BY <1>7, AnswerDev
<1>8. CASE Hotplug
  BY <1>8, HotplugDev
<1>9. ASSUME NEW n \in Names, ReadOne(n) PROVE DevInv'
  BY <1>9, ReadOneDev
<1>. QED
  BY <1>1, <1>2, <1>3, <1>4, <1>5, <1>6, <1>7, <1>8, <1>9 DEF DevicesNext

LEMMA DevInvHolds == DevicesSpec => []DevInv
<1>1. DevicesInit => DevInv
  BY InitDev
<1>2. DevInv /\ [DevicesNext]_deviceVars => DevInv'
  BY DevStep
<1>. QED
  BY <1>1, <1>2, PTL DEF DevicesSpec

LEMMA DevInvTypes == ASSUME DevInv PROVE DevicesTypeOK
<1>1. DevTypes
  BY DEF DevInv
<1>2. Len(local) \in Nat /\ local \in Seq(Slot) /\ DOMAIN local = 1 .. Len(local)
      /\ track.live \in Nat /\ track.skipped \in {0, 1}
  BY <1>1, LenProperties DEF DevTypes, TrackType
<1>3. \A i \in DOMAIN local : local[i] = None \/ local[i].place \in Places
  <2> TAKE i \in DOMAIN local
  <2>1. local[i] \in Slot
    BY <1>2
  <2>. QED
    BY <2>1, DeviceIs DEF Slot
<1>4. next \in 0 .. Len(local) + 1
  BY <1>1, <1>2 DEF DevTypes
<1>5. track.live \in 0 .. MaxNodes + 1
  BY <1>1, <1>2, DevicesAssumption DEF DevTypes
<1>. QED
  BY <1>1, <1>3, <1>4, <1>5 DEF DevTypes, DevicesTypeOK

LEMMA DevInvRight == ASSUME DevInv PROVE DevicesAreRight
<1>1. DevTypes /\ AllRecorded /\ IdleInv /\ CalmIsComplete
  BY DEF DevInv
<1>2. EachDeviceOnce
  BY <1>1 DEF EachDeviceOnce, IdleInv, OutApart, AllRecorded, RecordedIn
<1>3. track.skipped \in Nat /\ Len(out) \in Nat
  BY <1>1, LenProperties DEF DevTypes, TrackType
<1>4. track.skipped + Len(out) = Len(out) + track.skipped
  BY <1>3
<1>5. NothingLeaks
  BY <1>1, <1>4 DEF NothingLeaks, IdleInv, Leak
<1>. QED
  BY <1>1, <1>2, <1>5 DEF DevicesAreRight

\* Whatever the nodes, MAX_DRM_NODES and the caller's array are, local_devices is not
\* written beyond its end.
THEOREM DevicesTypeCorrect == DevicesSpec => []DevicesTypeOK
<1>1. DevInv => DevicesTypeOK
  BY DevInvTypes
<1>. QED
  BY <1>1, DevInvHolds, PTL

\* drmGetDevices2 and drmGetDevice2, whatever comes and goes while they read /dev/dri:
\* no device is given twice, every entry is the caller's or freed (but for the one beyond
\* MAX_DRM_NODES, and those of a node that was read twice); undisturbed, they give every
\* device with all of its nodes, and the same number when they only count.
THEOREM DevicesRight == DevicesSpec => []DevicesAreRight
<1>1. DevInv => DevicesAreRight
  BY DevInvRight
<1>. QED
  BY <1>1, DevInvHolds, PTL

-----------------------------------------------------------------------------
(***************************************************************************)
(* The parts side by side: a step of libdrm is a step of one of them, and  *)
(* leaves the others alone.                                                *)
(***************************************************************************)
\* Each of the parts is what its own specification allows, whichever moves.
LEMMA LibParts == LibSpec => HashSpec /\ ConnectSpec /\ DevicesSpec
<1>1. LibInit => HashInit /\ ConnectInit /\ DevicesInit
  BY DEF LibInit
<1>2. [LibNext]_libVars => [HashSteps]_hashVars /\ [ConnectNext]_connectVars
                           /\ [DevicesNext]_deviceVars
  <2>1. CASE UNCHANGED libVars
    BY <2>1 DEF libVars
  <2>2. CASE LibNext
    BY <2>2 DEF LibNext
  <2>. QED
    BY <2>1, <2>2
<1>. QED
  BY <1>1, <1>2, PTL DEF LibSpec, HashSpec, ConnectSpec, DevicesSpec

\* libdrm keeps its types, whichever part is used: the table's lists have distinct keys,
\* no connection is saved beyond DRM_MAX_FDS, and the devices stay within MAX_DRM_NODES.
THEOREM PartsTypeCorrect == LibSpec => []PartsTypeOK
<1>1. HashTypeOK /\ ConnectTypeOK /\ DevicesTypeOK => PartsTypeOK
  BY DEF PartsTypeOK
<1>. QED
  BY <1>1, LibParts, HashTypeCorrect, ConnectTypeCorrect, DevicesTypeCorrect, PTL
=============================================================================
