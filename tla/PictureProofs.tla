---------------------------- MODULE PictureProofs ----------------------------
(***************************************************************************)
(* libjpeg hands out the picture: every line that jpeg_read_scanlines      *)
(* returns is made of the right rows, in order and once, whatever the      *)
(* sizes of the picture and of the calls (JpegRows implements Scanlines).  *)
(* The invariant says, for each state of the main controller, which rows   *)
(* of the image are in which places of the list in use, and which lines of *)
(* the row group that was upsampled are still to come out.                 *)
(***************************************************************************)
EXTENDS ProgramsProofs
-----------------------------------------------------------------------------
(***************************************************************************)
(* Whole numbers.                                                          *)
(***************************************************************************)
\* Products and quotients of whole numbers, whatever they are of.
LEMMA ProductOrder ==
    ASSUME NEW a \in Int, NEW b \in Int, NEW k \in Nat
    PROVE  /\ a <= b => a * k <= b * k
           /\ k > 0 /\ a < b => a * k < b * k
           /\ a * k < b * k => a < b
<1>1. a <= b => a * k <= b * k
  OBVIOUS
<1>2. k > 0 /\ a < b => a * k < b * k
  OBVIOUS
<1>3. a * k < b * k => a < b
  OBVIOUS
<1>. QED
  BY <1>1, <1>2, <1>3

LEMMA ProductLaws ==
    ASSUME NEW a \in Int, NEW b \in Int, NEW c \in Int
    PROVE  /\ a * b \in Int /\ a * b = b * a /\ (a * b) * c = a * (b * c)
           /\ (a + b) * c = a * c + b * c /\ (a - b) * c = a * c - b * c
<1>1. a * b \in Int /\ a * b = b * a
  OBVIOUS
<1>2. (a * b) * c = a * (b * c)
  OBVIOUS
<1>3. (a + b) * c = a * c + b * c
  OBVIOUS
<1>4. (a - b) * c = a * c - b * c
  OBVIOUS
<1>. QED
  BY <1>1, <1>2, <1>3, <1>4

LEMMA RoundedUp ==
    ASSUME NEW a \in Nat, NEW m \in Nat \ {0}
    PROVE  LET q == Rows!DivUp(a, m)
           IN  q \in Nat /\ (q - 1) * m < a /\ a <= q * m /\ (a > 0 => q > 0)
<1> DEFINE q == (a + m - 1) \div m
<1>1. q \in Nat /\ (q - 1) * m < a /\ a <= q * m
  OBVIOUS
<1>2. a > 0 => q > 0
  OBVIOUS
<1>. QED
  BY <1>1, <1>2 DEF Rows!DivUp

LEMMA Divided ==
    ASSUME NEW x \in Nat, NEW m \in Nat \ {0}, NEW q \in Nat, NEW r \in 0 .. m - 1, x = q * m + r
    PROVE  x % m = r /\ x \div m = q
  OBVIOUS

\* A number that is more than q times m, and no more than once more.
LEMMA LastPart ==
    ASSUME NEW x \in Int, NEW m \in Nat \ {0}, NEW q \in Nat, q * m < x, x <= (q + 1) * m
    PROVE  (IF x % m = 0 THEN m ELSE x % m) = x - q * m
<1> DEFINE r == x - q * m
<1>1. q * m \in Nat /\ (q + 1) * m = q * m + m
  <2>1. q * m \in Nat
    OBVIOUS
  <2>. QED
    BY ProductLaws
<1>2. x \in Nat /\ r \in 1 .. m
  BY <1>1
<1>3. CASE r < m
  <2>1. x = q * m + r /\ r \in 0 .. m - 1
    BY <1>1, <1>2, <1>3
  <2> HIDE DEF r
  <2>2. x % m = r
    BY <1>2, <2>1
  <2>. QED
    BY <1>2, <2>2 DEF r
<1>4. CASE r = m
  <2>1. x = (q + 1) * m + 0 /\ q + 1 \in Nat
    BY <1>1, <1>2, <1>4
  <2>2. x % m = 0
    BY <1>2, <2>1
  <2>. QED
    BY <1>4, <2>2
<1>. QED
  BY <1>2, <1>3, <1>4
-----------------------------------------------------------------------------
(***************************************************************************)
(* The sizes of a picture.                                                 *)
(***************************************************************************)
LEMMA MostIs ==
    ASSUME NEW S \in SUBSET (1 .. 4), S # {}
    PROVE  Rows!Max(S) \in S /\ \A y \in S : y <= Rows!Max(S)
<1>1. \E x \in S : \A y \in S : x >= y
  <2>1. CASE 4 \in S
    BY <2>1
  <2>2. CASE 4 \notin S /\ 3 \in S
    BY <2>2
  <2>3. CASE 4 \notin S /\ 3 \notin S /\ 2 \in S
    BY <2>3
  <2>4. CASE 4 \notin S /\ 3 \notin S /\ 2 \notin S
    <3>1. \A y \in S : y = 1
      BY <2>4
    <3>2. 1 \in S
      BY <3>1
    <3>. QED
      BY <3>1, <3>2
  <2>. QED
    BY <2>1, <2>2, <2>3, <2>4
<1>2. Rows!Max(S) \in S /\ \A y \in S : Rows!Max(S) >= y
  BY <1>1 DEF Rows!Max
<1>. QED
  BY <1>2

\* A component's rows: a row group has v times a power of two, no more than the picture's
\* lines of it, and an iMCU row has min_DCT_scaled_size of them.
LEMMA ComponentSizes ==
    ASSUME NEW p \in Images, NEW c \in DOMAIN p.v
    PROVE  /\ p.v[c] \in 1 .. 4 /\ Rows!MaxV(p) \in 1 .. 4 /\ p.M \in {1, 2, 4, 8}
           /\ Rows!Group(p, c) \in 1 .. Rows!MaxV(p)
           /\ Rows!Scaled(p, c) \in Nat \ {0} /\ p.v[c] * Rows!Scaled(p, c) = Rows!Height(p, c)
           /\ Rows!Height(p, c) = Rows!Group(p, c) * p.M /\ Rows!Height(p, c) \in Nat \ {0}
           /\ p.height \in Nat \ {0}
<1> DEFINE v == p.v[c]
           W == p.v
           m == Rows!MaxV(p)
           M == p.M
           s == Rows!Scaled(p, c)
           S == {x \in {M, 2 * M, 4 * M, 8 * M} : x = M \/ (x <= 8 /\ v * x <= m * M)}
           T == Rows!Range(W)
<1>1. W \in Seq(1 .. 4) /\ W # <<>> /\ p.height \in Nat \ {0}
  BY ProgramsAssumption
<1>2. T \subseteq 1 .. 4 /\ v \in T
  <2> HIDE DEF W
  <2>1. \A i \in DOMAIN W : W[i] \in 1 .. 4
    BY <1>1
  <2>2. v = W[c] /\ c \in DOMAIN W
    BY DEF W
  <2>. QED
    BY <2>1, <2>2 DEF Rows!Range
<1>3. v \in 1 .. 4 /\ v <= m
  <2>1. m = Rows!Max(T)
    BY DEF Rows!MaxV
  <2> HIDE DEF T, v, m
  <2>2. v <= Rows!Max(T)
    BY <1>2, MostIs
  <2>. QED
    BY <1>2, <2>1, <2>2
<1>4. m \in 1 .. 4 /\ M \in {1, 2, 4, 8}
  BY Sizes
<1>5. s = Rows!Max(S)
  BY DEF Rows!Scaled, Rows!DCTSIZE
<1>6. s \in S
  <2>1. M \in S /\ S \subseteq {M, 2 * M, 4 * M, 8 * M}
    BY <1>4
  <2>2. \E x \in S : \A y \in S : x >= y
    <3> HIDE DEF S, M
    <3>1. CASE 8 * M \in S
      BY <1>4, <2>1, <3>1
    <3>2. CASE 8 * M \notin S /\ 4 * M \in S
      BY <1>4, <2>1, <3>2
    <3>3. CASE 8 * M \notin S /\ 4 * M \notin S /\ 2 * M \in S
      BY <1>4, <2>1, <3>3
    <3>4. CASE 8 * M \notin S /\ 4 * M \notin S /\ 2 * M \notin S
      BY <1>4, <2>1, <3>4
    <3>. QED
      BY <3>1, <3>2, <3>3, <3>4
  <2> HIDE DEF S, s
  <2>. QED
    BY <1>5, <2>2 DEF Rows!Max
<1>7. s \in {M, 2 * M, 4 * M, 8 * M} /\ (s = M \/ v * s <= m * M)
  BY <1>6
<1> DEFINE H == v * s
<1>8. Rows!Group(p, c) = H \div M /\ Rows!Height(p, c) = H
  BY DEF Rows!Group, Rows!Height
<1> HIDE DEF v, m, M, s, H, T, S, W
<1>9. PICK k \in {1, 2, 4, 8} : s = k * M
  BY <1>4, <1>7
<1> DEFINE g == v * k
<1>10. g \in 1 .. 32 /\ H = g * M /\ H \in Nat \ {0}
  BY <1>3, <1>4, <1>9 DEF H
<1>11. g <= m
  <2>1. CASE s = M
    <3>1. k = 1
      BY <1>4, <1>9, <2>1
    <3>. QED
      BY <1>3, <3>1
  <2>2. CASE v * s <= m * M
    <3>1. g * M <= m * M
      BY <1>10, <2>2 DEF H
    <3> HIDE DEF g
    <3>. QED
      BY <1>4, <1>10, <3>1
  <2>. QED
    BY <1>7, <2>1, <2>2
<1> HIDE DEF g
<1>12. H \div M = g
  BY <1>4, <1>10
<1>13. s \in Nat \ {0}
  BY <1>4, <1>9
<1>14. g \in 1 .. m
  BY <1>4, <1>10, <1>11
<1>. QED
  BY <1>1, <1>3, <1>4, <1>8, <1>10, <1>12, <1>13, <1>14 DEF v, m, M, s, H

\* The iMCU rows hold the rows of each component; the last has some, and as many blocks of
\* a component as these rows need.
LEMMA PictureSizes ==
    ASSUME NEW p \in Images, NEW c \in DOMAIN p.v
    PROVE  LET T == Rows!TotalRows(p)
               R == Rows!Rows(p, c)
               H == Rows!Height(p, c)
           IN  /\ T \in Nat \ {0} /\ R \in Nat \ {0} /\ (T - 1) * H < R /\ R <= T * H
               /\ Rows!RowsLeft(p, c) = R - (T - 1) * H /\ Rows!RowsLeft(p, c) \in 1 .. H
               /\ Rows!LastBlocks(p, c) * Rows!Scaled(p, c) \in Rows!RowsLeft(p, c) .. H
<1> DEFINE v == p.v[c]
           V == Rows!MaxV(p)
           T == Rows!TotalRows(p)
           R == Rows!Rows(p, c)
           H == Rows!Height(p, c)
           s == Rows!Scaled(p, c)
           h == p.height
           D == V * 8
           B == Rows!DivUp(h * v, D)
           rl == Rows!RowsLeft(p, c)
           lb == Rows!LastBlocks(p, c)
<1>1. /\ v \in Nat \ {0} /\ H \in Nat \ {0} /\ s \in Nat \ {0} /\ v * s = H /\ h \in Nat \ {0}
      /\ D \in Nat \ {0}
  BY ComponentSizes
<1>2. T = Rows!DivUp(h, D) /\ R = Rows!DivUp(h * H, D)
  BY DEF Rows!TotalRows, Rows!Rows, Rows!DCTSIZE
<1>3. rl = IF R % H = 0 THEN H ELSE R % H
  BY DEF Rows!RowsLeft
<1>4. lb = IF B % v = 0 THEN v ELSE B % v
  BY DEF Rows!LastBlocks, Rows!DCTSIZE
<1> HIDE DEF v, V, T, R, H, s, h, D, B, rl, lb
<1>5. T \in Nat \ {0} /\ (T - 1) * D < h /\ h <= T * D
  BY <1>1, <1>2, RoundedUp
<1> DEFINE t == T - 1
<1>6. t \in Nat /\ T = t + 1
  BY <1>5
<1> HIDE DEF t
\* What is in the rows before the last, and in all, of so many to a row.
<1>7. ASSUME NEW k \in Nat \ {0}
      PROVE  LET q == Rows!DivUp(h * k, D)
             IN  /\ q \in Nat \ {0} /\ t * k < q /\ q <= (t + 1) * k
                 /\ (q - 1) * D < h * k /\ h * k <= q * D
  <2> DEFINE q == Rows!DivUp(h * k, D)
             x == h * k
  <2>1. x \in Nat \ {0}
    BY <1>1, <1>7
  <2> HIDE DEF x
  <2>2. q \in Nat \ {0} /\ (q - 1) * D < x /\ x <= q * D
    <3>1. q = Rows!DivUp(x, D)
      BY DEF x
    <3> HIDE DEF q
    <3>. QED
      BY <1>1, <2>1, <3>1, RoundedUp
  <2> HIDE DEF q
  <2>3. (t * k) * D < x
    <3>1. t * D < h
      BY <1>5, <1>6
    <3>2. t * D \in Int /\ (t * D) * k < h * k
      BY <1>1, <1>6, <1>7, <3>1, ProductOrder, ProductLaws
    <3>3. (t * D) * k = (t * k) * D
      <4>1. (t * D) * k = t * (D * k) /\ (t * k) * D = t * (k * D) /\ D * k = k * D
        BY <1>1, <1>6, <1>7, ProductLaws
      <4>. QED
        BY <4>1
    <3>. QED
      BY <3>2, <3>3 DEF x
  <2>4. x <= ((t + 1) * k) * D
    <3>1. h <= (t + 1) * D
      BY <1>5, <1>6
    <3>2. (t + 1) * D \in Int /\ h * k <= ((t + 1) * D) * k
      BY <1>1, <1>6, <1>7, <3>1, ProductOrder, ProductLaws
    <3>3. ((t + 1) * D) * k = ((t + 1) * k) * D
      <4> DEFINE u == t + 1
      <4>0. u \in Int
        BY <1>6
      <4> HIDE DEF u
      <4>1. (u * D) * k = u * (D * k) /\ (u * k) * D = u * (k * D) /\ D * k = k * D
        BY <1>1, <1>7, <4>0, ProductLaws
      <4>. QED
        BY <4>1 DEF u
    <3>. QED
      BY <3>2, <3>3 DEF x
  <2>5. t * k < q
    <3>1. t * k \in Int
      BY <1>6, <1>7
    <3> DEFINE y == t * k
    <3> HIDE DEF y
    <3>2. y * D < q * D /\ y \in Int
      <4>1. y * D \in Int /\ q * D \in Int /\ y * D < x
        BY <1>1, <2>2, <2>3, <3>1, ProductLaws DEF y
      <4>. QED
        BY <2>1, <2>2, <3>1, <4>1 DEF y
    <3>3. y < q
      BY <1>1, <2>2, <3>2, ProductOrder
    <3>. QED
      BY <3>3 DEF y
  <2>6. q <= (t + 1) * k
    <3> DEFINE y == (t + 1) * k
    <3>1. y \in Int
      BY <1>6, <1>7
    <3> HIDE DEF y
    <3>2. (q - 1) * D < y * D
      <4>1. (q - 1) * D \in Int /\ y * D \in Int /\ x <= y * D
        BY <1>1, <2>2, <2>4, <3>1, ProductLaws DEF y
      <4>. QED
        BY <2>1, <2>2, <4>1
    <3>3. q - 1 \in Int /\ q - 1 < y
      BY <1>1, <2>2, <3>1, <3>2, ProductOrder
    <3>4. q <= y
      BY <2>2, <3>1, <3>3
    <3>. QED
      BY <3>4 DEF y
  <2>. QED
    BY <2>2, <2>5, <2>6 DEF q, x
<1>8. R \in Nat \ {0} /\ t * H < R /\ R <= (t + 1) * H /\ (R - 1) * D < h * H
  BY <1>1, <1>2, <1>7
<1>9. B \in Nat \ {0} /\ t * v < B /\ B <= (t + 1) * v /\ h * v <= B * D
  BY <1>1, <1>7 DEF B
<1>10. rl = R - t * H /\ rl \in 1 .. H
  <2>1. rl = R - t * H
    <3>1. R \in Int /\ t * H < R /\ R <= (t + 1) * H
      BY <1>8
    <3>2. (IF R % H = 0 THEN H ELSE R % H) = R - t * H
      BY <1>1, <1>6, <3>1, LastPart, Zenon
    <3>. QED
      BY <1>3, <3>2, Zenon
  <2>2. t * H \in Int /\ (t + 1) * H = t * H + H
    <3>1. (t + 1) * H = t * H + 1 * H
      BY <1>1, <1>6, ProductLaws
    <3>. QED
      BY <1>1, <1>6, <3>1
  <2>. QED
    BY <1>1, <1>8, <2>1, <2>2
<1>11. lb = B - t * v /\ lb \in 1 .. v
  <2>1. lb = B - t * v
    <3>1. B \in Int /\ t * v < B /\ B <= (t + 1) * v
      BY <1>9
    <3>2. (IF B % v = 0 THEN v ELSE B % v) = B - t * v
      BY <1>1, <1>6, <3>1, LastPart, Zenon
    <3>. QED
      BY <1>4, <3>2, Zenon
  <2>2. t * v \in Int /\ (t + 1) * v = t * v + v
    <3>1. (t + 1) * v = t * v + 1 * v
      BY <1>1, <1>6, ProductLaws
    <3>. QED
      BY <1>1, <1>6, <3>1
  <2>. QED
    BY <1>1, <1>9, <2>1, <2>2
<1>12. lb * s <= H /\ lb * s \in Int
  BY <1>1, <1>11, ProductOrder, ProductLaws
<1>13. R <= B * s
  <2> DEFINE y == B * s
  <2>1. y \in Int
    BY <1>1, <1>9
  <2>2. h * H <= y * D
    <3>1. (h * v) * s <= (B * D) * s
      <4>1. h * v \in Int /\ B * D \in Int
        BY <1>1, <1>9
      <4>. QED
        BY <1>1, <1>9, <4>1, ProductOrder
    <3>2. (h * v) * s = h * (v * s)
      BY <1>1, ProductLaws
    <3>3. (B * D) * s = B * (D * s) /\ (B * s) * D = B * (s * D) /\ D * s = s * D
      BY <1>1, <1>9, ProductLaws
    <3>. QED
      BY <1>1, <3>1, <3>2, <3>3
  <2> HIDE DEF y
  <2>3. (R - 1) * D < y * D
    <3>1. (R - 1) * D \in Int /\ y * D \in Int /\ h * H \in Int
      BY <1>1, <1>8, <2>1, ProductLaws
    <3>. QED
      BY <1>8, <2>2, <3>1
  <2>4. R - 1 < y
    BY <1>1, <1>8, <2>1, <2>3, ProductOrder
  <2>. QED
    BY <1>8, <2>1, <2>4 DEF y
<1>14. rl <= lb * s
  <2>1. lb * s = B * s - (t * v) * s /\ (t * v) * s = t * H
    <3>1. t * v \in Int
      BY <1>1, <1>6
    <3>2. (B - t * v) * s = B * s - (t * v) * s
      BY <1>1, <1>9, <3>1, ProductLaws
    <3>3. (t * v) * s = t * (v * s)
      BY <1>1, <1>6, ProductLaws
    <3>. QED
      BY <1>1, <1>11, <3>2, <3>3
  <2>2. B * s \in Int /\ t * H \in Int
    BY <1>1, <1>6, <1>9
  <2>. QED
    BY <1>8, <1>10, <1>13, <2>1, <2>2
<1>15. lb * s \in rl .. H
  BY <1>1, <1>10, <1>12, <1>14
<1>16. (T - 1) * H < R /\ R <= T * H /\ rl = R - (T - 1) * H
  BY <1>6, <1>8, <1>10
<1>. QED
  BY <1>5, <1>8, <1>10, <1>15, <1>16 DEF T, R, H, rl, lb, s

\* What is so many times g, per lines m, is so many rows: h * g * M <= R * m * 8.
LEMMA RowsOfLines ==
    ASSUME NEW p \in Images, NEW c \in DOMAIN p.v
    PROVE  LET R == Rows!Rows(p, c)
               V == Rows!MaxV(p)
               H == Rows!Height(p, c)
           IN  /\ p.height * H <= R * (V * 8) /\ (R - 1) * (V * 8) < p.height * H
               /\ Rows!Lines(p) \in Nat \ {0}
               /\ (Rows!Lines(p) - 1) * 8 < p.height * p.M /\ p.height * p.M <= Rows!Lines(p) * 8
<1> DEFINE R == Rows!Rows(p, c)
           V == Rows!MaxV(p)
           H == Rows!Height(p, c)
           h == p.height
           M == p.M
           L == Rows!Lines(p)
<1>1. /\ H \in Nat \ {0} /\ h \in Nat \ {0} /\ V * 8 \in Nat \ {0} /\ M \in Nat \ {0}
  BY ComponentSizes
<1>2. R = Rows!DivUp(h * H, V * 8) /\ L = Rows!DivUp(h * M, 8)
  BY DEF Rows!Rows, Rows!Lines, Rows!DCTSIZE
<1> HIDE DEF R, V, H, h, M, L
<1>3. h * H \in Nat /\ h * M \in Nat \ {0}
  BY <1>1
<1> DEFINE x == h * H
           y == h * M
           D == V * 8
<1> HIDE DEF x, y, D
<1>4. x \in Nat /\ y \in Nat \ {0} /\ D \in Nat \ {0}
  BY <1>1, <1>3 DEF x, y, D
<1>5. R = Rows!DivUp(x, D) /\ L = Rows!DivUp(y, 8)
  BY <1>2 DEF x, y, D
<1>6. x <= R * D /\ (R - 1) * D < x
  BY <1>4, <1>5, RoundedUp
<1>7. L \in Nat \ {0} /\ (L - 1) * 8 < y /\ y <= L * 8
  BY <1>4, <1>5, RoundedUp
<1>. QED
  BY <1>6, <1>7 DEF x, y, D, R, V, H, h, M, L

\* A line of the picture is made of a row of the picture.
LEMMA LineHasRow ==
    ASSUME NEW p \in Images, NEW c \in DOMAIN p.v, NEW n \in Nat,
           NEW r \in 0 .. Rows!MaxV(p) - 1, n * Rows!MaxV(p) + r < Rows!Lines(p)
    PROVE  n * Rows!Group(p, c) + ((r * Rows!Group(p, c)) \div Rows!MaxV(p)) < Rows!Rows(p, c)
<1> DEFINE R == Rows!Rows(p, c)
           V == Rows!MaxV(p)
           H == Rows!Height(p, c)
           G == Rows!Group(p, c)
           h == p.height
           M == p.M
           L == Rows!Lines(p)
           q == (r * G) \div V
<1>1. /\ H \in Nat \ {0} /\ h \in Nat \ {0} /\ V \in Nat \ {0} /\ M \in Nat \ {0} /\ G \in Nat \ {0}
      /\ H = G * M
  BY ComponentSizes
<1>2. R \in Nat
  BY PictureSizes
<1>3. h * H <= R * (V * 8) /\ L \in Nat /\ (L - 1) * 8 < h * M
  BY RowsOfLines
<1>4. n * V + r < L /\ r \in Nat
  BY <1>1
<1> HIDE DEF R, V, H, G, h, M, L
<1>5. q \in Nat /\ q * V <= r * G
  <2> DEFINE x == r * G
  <2>1. x \in Nat
    BY <1>1, <1>4
  <2> HIDE DEF x
  <2>2. x \div V \in Nat /\ (x \div V) * V <= x
    BY <1>1, <2>1
  <2>. QED
    BY <2>2 DEF x
<1> HIDE DEF q
<1> DEFINE l == n * V + r
           y == n * G + q
<1>6. l \in Nat /\ y \in Nat
  BY <1>1, <1>4, <1>5
<1>7. y * V <= l * G
  <2>1. n * G \in Int /\ n * V \in Int /\ q * V \in Int /\ r * G \in Int
    BY <1>1, <1>4, <1>5
  <2>2. y * V = (n * G) * V + q * V /\ l * G = (n * V) * G + r * G
    BY <1>1, <1>4, <1>5, <2>1, ProductLaws
  <2>3. (n * G) * V = n * (G * V) /\ (n * V) * G = n * (V * G) /\ G * V = V * G
    BY <1>1, ProductLaws
  <2>4. n * (G * V) \in Int
    BY <1>1
  <2>. QED
    BY <1>5, <2>1, <2>2, <2>3, <2>4
<1> HIDE DEF l, y
<1>8. l * 8 < h * M
  <2>1. l <= L - 1
    BY <1>3, <1>4, <1>6 DEF l
  <2>2. h * M \in Int
    BY <1>1
  <2>. QED
    BY <1>3, <1>6, <2>1, <2>2
<1>9. (l * 8) * G < (h * M) * G
  <2>1. h * M \in Int /\ l * 8 \in Int
    BY <1>1, <1>6
  <2>. QED
    BY <1>1, <1>8, <2>1, ProductOrder
<1>10. (h * M) * G = h * H
  BY <1>1, ProductLaws
<1>11. y * (V * 8) <= (l * 8) * G
  <2>1. (y * V) * 8 <= (l * G) * 8
    BY <1>1, <1>6, <1>7, ProductOrder, ProductLaws
  <2>2. (y * V) * 8 = y * (V * 8) /\ (l * G) * 8 = l * (G * 8) /\ (l * 8) * G = l * (8 * G)
    BY <1>1, <1>6, ProductLaws
  <2>3. G * 8 = 8 * G
    BY <1>1
  <2>. QED
    BY <2>1, <2>2, <2>3
<1>12. y * (V * 8) < R * (V * 8)
  <2>1. y * (V * 8) \in Int /\ (l * 8) * G \in Int /\ h * H \in Int /\ R * (V * 8) \in Int
    BY <1>1, <1>2, <1>6
  <2>. QED
    BY <1>3, <1>9, <1>10, <1>11, <2>1
<1>13. y < R
  BY <1>1, <1>2, <1>6, <1>12, ProductOrder
<1>. QED
  BY <1>13 DEF y, q, R, V, G

\* The row groups of the first component in the last iMCU row are enough for all lines.
LEMMA BottomIsAll ==
    ASSUME NEW p \in Images
    PROVE  LET a == (Rows!RowsLeft(p, 1) - 1) \div Rows!Group(p, 1) + 1
           IN  /\ a \in 1 .. p.M
               /\ Rows!Lines(p) <= ((Rows!TotalRows(p) - 1) * p.M + a) * Rows!MaxV(p)
<1>0. 1 \in DOMAIN p.v
  BY ProgramsAssumption
<1> DEFINE R == Rows!Rows(p, 1)
           V == Rows!MaxV(p)
           H == Rows!Height(p, 1)
           G == Rows!Group(p, 1)
           h == p.height
           M == p.M
           L == Rows!Lines(p)
           t == Rows!TotalRows(p) - 1
           rl == Rows!RowsLeft(p, 1)
           a == (rl - 1) \div G + 1
<1>1. /\ H \in Nat \ {0} /\ h \in Nat \ {0} /\ V \in Nat \ {0} /\ M \in Nat \ {0} /\ G \in Nat \ {0}
      /\ H = G * M
  BY <1>0, ComponentSizes
<1>2. R \in Nat /\ t \in Nat /\ rl = R - t * H /\ rl \in 1 .. H
  BY <1>0, PictureSizes
<1>3. h * H <= R * (V * 8) /\ L \in Nat /\ (L - 1) * 8 < h * M
  BY <1>0, RowsOfLines
<1> HIDE DEF R, V, H, G, h, M, L, t, rl
<1>4. a \in 1 .. M /\ rl <= a * G
  <2> DEFINE q == (rl - 1) \div G
  <2>1. q \in Nat /\ q * G <= rl - 1 /\ rl - 1 < (q + 1) * G
    <3>1. rl - 1 \in Nat
      BY <1>1, <1>2
    <3>. QED
      BY <1>1, <3>1
  <2> HIDE DEF q
  <2>2. q * G < M * G
    <3>1. M * G = G * M
      BY <1>1
    <3>2. q * G \in Int
      BY <1>1, <2>1
    <3>. QED
      BY <1>1, <1>2, <2>1, <3>1, <3>2
  <2>3. q < M
    BY <1>1, <2>1, <2>2, ProductOrder
  <2>4. (q + 1) * G \in Int
    BY <1>1, <2>1
  <2>. QED
    BY <1>1, <1>2, <2>1, <2>3, <2>4 DEF q
<1> HIDE DEF a
<1> DEFINE N == t * M + a
<1>5. N \in Nat
  BY <1>1, <1>2, <1>4
<1>6. R <= N * G
  <2>1. t * H = (t * M) * G
    <3>1. (t * M) * G = t * (M * G) /\ M * G = G * M
      BY <1>1, <1>2, ProductLaws
    <3>. QED
      BY <1>1, <3>1
  <2>2. t * M \in Int /\ N * G = (t * M) * G + a * G
    BY <1>1, <1>2, <1>4, ProductLaws
  <2>3. t * H \in Int /\ a * G \in Int
    BY <1>1, <1>2, <1>4
  <2>. QED
    BY <1>2, <1>4, <2>1, <2>2, <2>3
<1> HIDE DEF N
<1>7. (h * M) * G <= (N * (V * 8)) * G
  <2>1. R * (V * 8) <= (N * G) * (V * 8)
    BY <1>1, <1>2, <1>5, <1>6, ProductOrder, ProductLaws
  <2>2. (N * G) * (V * 8) = N * (G * (V * 8)) /\ (N * (V * 8)) * G = N * ((V * 8) * G)
    BY <1>1, <1>5, ProductLaws
  <2>3. G * (V * 8) = (V * 8) * G
    BY <1>1, ProductLaws
  <2>4. (h * M) * G = h * (M * G) /\ M * G = G * M
    BY <1>1, ProductLaws
  <2>5. (N * G) * (V * 8) \in Int /\ R * (V * 8) \in Int /\ h * H \in Int
    BY <1>1, <1>2, <1>5
  <2>. QED
    BY <1>1, <1>3, <2>1, <2>2, <2>3, <2>4, <2>5
<1>8. h * M <= N * (V * 8)
  <2>1. h * M \in Int /\ N * (V * 8) \in Int
    BY <1>1, <1>5
  <2>2. ~(N * (V * 8) < h * M)
    <3> DEFINE x == N * (V * 8)
               y == h * M
    <3>1. x \in Int /\ y \in Int /\ y * G <= x * G
      BY <2>1, <1>7
    <3> HIDE DEF x, y
    <3>2. x < y => x * G < y * G
      BY <1>1, <3>1, ProductOrder
    <3>3. x * G \in Int /\ y * G \in Int
      BY <1>1, <3>1, ProductLaws
    <3>. QED
      BY <3>1, <3>2, <3>3 DEF x, y
  <2>. QED
    BY <2>1, <2>2
<1>9. (L - 1) * 8 < (N * V) * 8
  <2>1. N * (V * 8) = (N * V) * 8
    BY <1>1, <1>5, ProductLaws
  <2>2. h * M \in Int /\ N * (V * 8) \in Int
    BY <1>1, <1>5
  <2>. QED
    BY <1>3, <1>8, <2>1, <2>2
<1>10. N * V \in Int /\ L - 1 < N * V
  <2>1. N * V \in Int
    BY <1>1, <1>5
  <2>. QED
    BY <1>3, <1>9, <2>1
<1>11. L <= N * V
  BY <1>3, <1>10
<1>. QED
  BY <1>4, <1>11 DEF N, L, V, t, M, a, rl, G

\* The rows that a line is made of: the nearest, and perhaps one above or below it.
LEMMA ReadsAre ==
    ASSUME NEW p \in Images, NEW c \in DOMAIN p.v, NEW r \in 0 .. Rows!MaxV(p) - 1
    PROVE  LET q == (r * Rows!Group(p, c)) \div Rows!MaxV(p)
               reads == Rows!Reads(p, c, r)
           IN  /\ q \in 0 .. Rows!Group(p, c) - 1
               /\ reads = <<q>> \/ (Rows!Fancy(p, c) /\ \E x \in {q - 1, q + 1} : reads = <<q, x>>)
               /\ Rows!Fullsize(p, c) => reads = <<r>>
<1> DEFINE V == Rows!MaxV(p)
           G == Rows!Group(p, c)
           q == (r * G) \div V
<1>1. V \in {1, 2, 3, 4} /\ G \in 1 .. V
  BY ComponentSizes
<1>2. r \in Nat /\ r < V
  BY <1>1
<1> HIDE DEF V, G
<1>3. q \in 0 .. G - 1
  <2> DEFINE x == r * G
  <2>1. x \in Nat /\ x < G * V
    BY <1>1, <1>2
  <2> HIDE DEF x
  <2>2. x \div V \in Nat /\ (x \div V) * V <= x
    BY <1>1, <2>1
  <2> DEFINE y == x \div V
  <2> HIDE DEF y
  <2>3. y \in Nat /\ y * V < G * V
    <3>1. y * V \in Int /\ G * V \in Int /\ y * V <= x /\ y \in Nat
      BY <1>1, <2>2 DEF y
    <3>. QED
      BY <2>1, <3>1
  <2>4. y < G
    BY <1>1, <2>3, ProductOrder
  <2>. QED
    BY <1>1, <2>3, <2>4 DEF x, y
<1>4. CASE Rows!Fancy(p, c)
  <2>1. 2 * G = V
    BY <1>4 DEF Rows!Fancy, Rows!Halved, G, V
  <2>2. q = r \div 2
    <3>1. CASE V = 2
      <4>1. G = 1
        BY <1>1, <2>1, <3>1
      <4>. QED
        BY <1>2, <3>1, <4>1
    <3>2. CASE V = 4
      <4>1. G = 2
        BY <1>1, <2>1, <3>2
      <4>. QED
        BY <1>2, <3>2, <4>1
    <3>. QED
      BY <1>1, <2>1, <3>1, <3>2
  <2>3. G # V
    BY <1>1, <2>1
  <2>4. Rows!Reads(p, c, r) = <<r \div 2, IF r % 2 = 0 THEN r \div 2 - 1 ELSE r \div 2 + 1>>
    BY <1>4 DEF Rows!Reads
  <2> DEFINE x == IF r % 2 = 0 THEN r \div 2 - 1 ELSE r \div 2 + 1
  <2>5. x \in {q - 1, q + 1}
    BY <2>2
  <2> HIDE DEF q, x
  <2>6. Rows!Reads(p, c, r) = <<q, x>>
    BY <2>2, <2>4 DEF x
  <2>. QED
    BY <1>3, <1>4, <2>3, <2>5, <2>6 DEF q, G, V, Rows!Fullsize
<1>5. CASE ~Rows!Fancy(p, c)
  <2>1. Rows!Reads(p, c, r) = <<q>>
    BY <1>5 DEF Rows!Reads, q, G, V
  <2>2. G = V => q = r
    <3>1. ASSUME G = V PROVE (r * V) \div V = r
      <4>1. CASE V = 1
        BY <1>2, <4>1
      <4>2. CASE V = 2
        BY <1>2, <4>2
      <4>3. CASE V = 3
        BY <1>2, <4>3
      <4>4. CASE V = 4
        BY <1>2, <4>4
      <4>. QED
        BY <1>1, <4>1, <4>2, <4>3, <4>4
    <3>. QED
      BY <3>1
  <2>3. Rows!Fullsize(p, c) <=> G = V
    BY DEF Rows!Fullsize, G, V
  <2> HIDE DEF q
  <2>. QED
    BY <1>3, <2>1, <2>2, <2>3 DEF q, G, V
<1>. QED
  BY <1>4, <1>5

LEMMA ReadIsNear ==
    ASSUME NEW p \in Images, NEW c \in DOMAIN p.v, NEW r \in 0 .. Rows!MaxV(p) - 1,
           NEW j \in DOMAIN Rows!Reads(p, c, r)
    PROVE  LET q == (r * Rows!Group(p, c)) \div Rows!MaxV(p)
               x == Rows!Reads(p, c, r)[j]
           IN  x \in q - 1 .. q + 1 /\ (~Rows!Fancy(p, c) => x = q)
<1> DEFINE q == (r * Rows!Group(p, c)) \div Rows!MaxV(p)
           s == Rows!Reads(p, c, r)
<1>1. /\ q \in Int
      /\ s = <<q>> \/ (Rows!Fancy(p, c) /\ \E x \in {q - 1, q + 1} : s = <<q, x>>)
  BY ReadsAre
<1> HIDE DEF q, s
<1>2. j \in DOMAIN s
  BY DEF s
<1>3. CASE s = <<q>>
  <2>1. s[j] = q
    BY <1>2, <1>3
  <2>. QED
    BY <1>1, <2>1 DEF q, s
<1>4. ASSUME Rows!Fancy(p, c), NEW x \in {q - 1, q + 1}, s = <<q, x>>
      PROVE  s[j] \in q - 1 .. q + 1
  <2>1. s[j] \in {q, x}
    BY <1>2, <1>4
  <2>. QED
    BY <1>1, <2>1
<1>. QED
  BY <1>1, <1>3, <1>4 DEF q, s

\* The first and the last row stand for what is above and below them.
LEMMA NearIs ==
    ASSUME NEW p \in Images, NEW c \in DOMAIN p.v, NEW i \in Int
    PROVE  Rows!Near(p, c, i) = IF i < 0 THEN 0 ELSE IF i < Rows!Rows(p, c) THEN i ELSE Rows!Rows(p, c) - 1
<1> DEFINE R == Rows!Rows(p, c)
           m == IF i < R THEN i ELSE R - 1
<1>1. R \in Nat \ {0}
  BY PictureSizes
<1> HIDE DEF R
<1>2. Rows!Min({i, R - 1}) = m
  <2>1. \E x \in {i, R - 1} : \A y \in {i, R - 1} : x <= y
    BY <1>1
  <2> DEFINE u == Rows!Min({i, R - 1})
  <2>2. u \in {i, R - 1} /\ \A y \in {i, R - 1} : u <= y
    BY <2>1 DEF Rows!Min
  <2> HIDE DEF u
  <2>3. u = m
    BY <1>1, <2>2
  <2>. QED
    BY <2>3 DEF u
<1>3. m \in Int
  BY <1>1
<1> HIDE DEF m
<1>4. Rows!Max({0, m}) = IF m < 0 THEN 0 ELSE m
  <2>1. \E x \in {0, m} : \A y \in {0, m} : x >= y
    BY <1>3
  <2> DEFINE u == Rows!Max({0, m})
  <2>2. u \in {0, m} /\ \A y \in {0, m} : u >= y
    BY <2>1 DEF Rows!Max
  <2> HIDE DEF u
  <2>3. u = IF m < 0 THEN 0 ELSE m
    BY <1>3, <2>2
  <2>. QED
    BY <2>3 DEF u
<1>5. Rows!Near(p, c, i) = IF m < 0 THEN 0 ELSE m
  BY <1>2, <1>4 DEF Rows!Near, R
<1>6. (IF m < 0 THEN 0 ELSE m) = IF i < 0 THEN 0 ELSE IF i < R THEN i ELSE R - 1
  BY <1>1 DEF m
<1>. QED
  BY <1>5, <1>6 DEF R
-----------------------------------------------------------------------------
(***************************************************************************)
(* The lines of a row group.                                               *)
(***************************************************************************)
\* Of the lines of group n of the picture, how many are out.
LinesOut(e) ==
    IF e.spare # <<>> THEN 1
    ELSE IF e.next_row_out = Rows!MaxV(e.img) THEN 0 ELSE e.next_row_out

\* What is in a place of the list in use.
RowIs(e, c, i, row) == Rows!Row(e, e.whichptr, c, i) = row

\* The row group that is to be upsampled is number n of the picture.
GroupIs(e, n) ==
    LET p == e.img
        V == Rows!MaxV(p)
    IN  \A c \in DOMAIN p.v : \A r \in 0 .. V - 1 : n * V + r < Rows!Lines(p) =>
           \A j \in DOMAIN Rows!Reads(p, c, r) :
              RowIs(e, c, e.ctr * Rows!Group(p, c) + Rows!Reads(p, c, r)[j],
                    Rows!Near(p, c, n * Rows!Group(p, c) + Rows!Reads(p, c, r)[j]))

\* What is left of it in the conversion buffer, or in the spare row.
OwedIs(e, n) ==
    LET p == e.img
        V == Rows!MaxV(p)
    IN  LinesOut(e) # 0 =>
           \A r \in LinesOut(e) .. V - 1 : n * V + r < Rows!Lines(p) =>
              (IF Rows!Merged(p) THEN e.spare ELSE Rows!Line(e, r)) = Rows!PictureLine(p, n * V + r + 1)

LEMMA PictureLineIs ==
    ASSUME NEW p \in Images, NEW n \in Nat, NEW r \in 0 .. Rows!MaxV(p) - 1
    PROVE  Rows!PictureLine(p, n * Rows!MaxV(p) + r + 1) =
             [c \in DOMAIN p.v |-> [j \in DOMAIN Rows!Reads(p, c, r) |->
                Rows!Near(p, c, n * Rows!Group(p, c) + Rows!Reads(p, c, r)[j])]]
<1> DEFINE V == Rows!MaxV(p)
           y == n * V + r + 1
<1>1. V \in 1 .. 4
  BY Sizes
<1> HIDE DEF V
<1>2. (y - 1) % V = r /\ (y - 1) \div V = n
  <2>1. y - 1 = n * V + r /\ y - 1 \in Nat /\ V \in Nat \ {0} /\ r \in 0 .. V - 1
    <3>1. r \in 0 .. V - 1
      BY DEF V
    <3>. QED
      BY <1>1, <3>1
  <2> HIDE DEF y
  <2>. QED
    BY <2>1, Divided
<1> HIDE DEF y
<1>3. Rows!PictureLine(p, y) =
        [c \in DOMAIN p.v |-> [j \in DOMAIN Rows!Reads(p, c, (y - 1) % V) |->
           Rows!Near(p, c, ((y - 1) \div V) * Rows!Group(p, c) + Rows!Reads(p, c, (y - 1) % V)[j])]]
  BY DEF Rows!PictureLine, V
<1>4. Rows!PictureLine(p, y) =
        [c \in DOMAIN p.v |-> [j \in DOMAIN Rows!Reads(p, c, r) |->
           Rows!Near(p, c, n * Rows!Group(p, c) + Rows!Reads(p, c, r)[j])]]
  BY <1>2, <1>3
<1>. QED
  BY <1>4 DEF y, V

\* Without context rows both lists are the workspace.
LEMMA PlainRow ==
    ASSUME NEW e, ~Rows!Context(e.img), NEW w, NEW c, NEW i
    PROVE  Rows!Row(e, w, c, i) = e.mem[c][i]
  BY DEF Rows!Row, Rows!Place

LEMMA SameRow ==
    ASSUME NEW e, NEW f, f.img = e.img, f.mem = e.mem, f.xbuf = e.xbuf, NEW w, NEW c, NEW i
    PROVE  Rows!Row(f, w, c, i) = Rows!Row(e, w, c, i)
  BY DEF Rows!Row, Rows!Place

\* A row group that was upsampled has the lines of the picture.
LEMMA UpsampledIs ==
    ASSUME NEW e, e.img \in Images, NEW n \in Nat, GroupIs(e, n), e.ctr \in Nat,
           NEW f, f.img = e.img, f.mem = e.mem, f.xbuf = e.xbuf, f.color = Rows!Upsampled(e),
           NEW r \in 0 .. Rows!MaxV(e.img) - 1, n * Rows!MaxV(e.img) + r < Rows!Lines(e.img)
    PROVE  Rows!Line(f, r) = Rows!PictureLine(e.img, n * Rows!MaxV(e.img) + r + 1)
<1> DEFINE p == e.img
           V == Rows!MaxV(p)
           w == e.whichptr
           Want(c) == [j \in DOMAIN Rows!Reads(p, c, r) |->
                         Rows!Near(p, c, n * Rows!Group(p, c) + Rows!Reads(p, c, r)[j])]
           Have(c) == IF Rows!Fullsize(p, c)
                      THEN <<Rows!Row(f, f.color[c].list, c, f.color[c].at + r)>>
                      ELSE f.color[c].copied[r]
<1>1. Rows!PictureLine(p, n * V + r + 1) = [c \in DOMAIN p.v |-> Want(c)]
  BY PictureLineIs
<1>2. Rows!Line(f, r) = [c \in DOMAIN p.v |-> Have(c)]
  BY DEF Rows!Line
<1>3. ASSUME NEW c \in DOMAIN p.v PROVE Have(c) = Want(c)
  <2> DEFINE G == Rows!Group(p, c)
             reads == Rows!Reads(p, c, r)
             k == e.ctr
  <2>1. \A j \in DOMAIN reads :
          Rows!Row(e, w, c, k * G + reads[j]) = Rows!Near(p, c, n * G + reads[j])
    BY DEF GroupIs, RowIs
  <2>2. CASE Rows!Fullsize(p, c)
    <3>1. f.color[c] = [copied |-> <<>>, list |-> w, at |-> k * G]
      BY <2>2 DEF Rows!Upsampled
    <3>2. reads = <<r>>
      BY <2>2, ReadsAre
    <3>3. Have(c) = <<Rows!Row(e, w, c, k * G + r)>>
      <4>1. Have(c) = <<Rows!Row(f, w, c, k * G + r)>>
        BY <2>2, <3>1
      <4>. QED
        BY <4>1, SameRow
    <3>4. Rows!Row(e, w, c, k * G + r) = Rows!Near(p, c, n * G + r)
      <4> HIDE DEF G, k, w, p, reads
      <4>1. 1 \in DOMAIN reads /\ reads[1] = r
        BY <3>2
      <4>. QED
        BY <2>1, <4>1
    <3>5. Want(c) = <<Rows!Near(p, c, n * G + r)>>
      <4> DEFINE N(x) == Rows!Near(p, c, n * G + x)
      <4>1. Want(c) = [j \in DOMAIN reads |-> N(reads[j])]
        OBVIOUS
      <4> HIDE DEF N, reads, Want
      <4>2. Want(c) = <<N(r)>>
        BY <3>2, <4>1
      <4>. QED
        BY <4>2 DEF N
    <3>. QED
      BY <3>3, <3>4, <3>5
  <2>3. CASE ~Rows!Fullsize(p, c)
    <3>1. f.color[c].copied[r] = [j \in DOMAIN reads |-> Rows!Row(e, w, c, k * G + reads[j])]
      BY <2>3 DEF Rows!Upsampled
    <3>2. Have(c) = [j \in DOMAIN reads |-> Rows!Row(e, w, c, k * G + reads[j])]
      BY <2>3, <3>1
    <3> HIDE DEF Have, G, k, reads, w, p
    <3>3. Have(c) = [j \in DOMAIN reads |-> Rows!Near(p, c, n * G + reads[j])]
      BY <2>1, <3>2
    <3>. QED
      BY <3>3 DEF G, reads
  <2>. QED
    BY <2>2, <2>3
<1> HIDE DEF Have, Want
<1>. QED
  BY <1>1, <1>2, <1>3

\* What the call has handed out so far is the picture's, from where it began.
Told(e) == e.lines = [j \in 1 .. Len(e.lines) |-> Rows!PictureLine(e.img, e.scanline + j)]

LinesDone(e) == Rows!Lines(e.img) - e.togo

\* Only the merged upsampler has a spare row, only the other one a buffer it goes through.
Buffered(e) ==
    /\ IF Rows!Merged(e.img) THEN e.next_row_out = Rows!MaxV(e.img) ELSE e.spare = <<>>
    /\ e.togo > 0 => e.next_row_out > 0

LEMMA ToldOn ==
    ASSUME NEW p, NEW b \in Nat, NEW a \in Nat, NEW m \in Nat, NEW s, NEW t,
           s = [j \in 1 .. a |-> Rows!PictureLine(p, b + j)],
           t = [j \in 1 .. m |-> Rows!PictureLine(p, b + a + j)]
    PROVE  /\ IsSq(t) /\ Len(t) = m /\ Len(s \o t) = a + m
           /\ s \o t = [j \in 1 .. a + m |-> Rows!PictureLine(p, b + j)]
<1> DEFINE u == [j \in 1 .. a + m |-> Rows!PictureLine(p, b + j)]
<1>1. IsSq(s) /\ Len(s) = a
  <2>1. s = [j \in 1 .. a |-> s[j]]
    OBVIOUS
  <2>. QED
    BY <2>1, Tabled
<1>2. IsSq(t) /\ Len(t) = m
  <2>1. t = [j \in 1 .. m |-> t[j]]
    OBVIOUS
  <2>. QED
    BY <2>1, Tabled
<1>3. /\ IsSq(s \o t) /\ Len(s \o t) = a + m
      /\ \A i \in 1 .. a + m : (s \o t)[i] = IF i <= a THEN s[i] ELSE t[i - a]
  <2>0. IsSq(s) /\ IsSq(t)
    BY <1>1, <1>2
  <2>1. /\ IsSq(s \o t) /\ Len(s \o t) = Len(s) + Len(t)
        /\ \A i \in 1 .. Len(s) + Len(t) : (s \o t)[i] = IF i <= Len(s) THEN s[i] ELSE t[i - Len(s)]
    BY <2>0, Joined
  <2>2. Len(s) = a /\ Len(t) = m
    BY <1>1, <1>2
  <2>. QED
    BY <2>1, <2>2, Zenon
<1>4. s \o t = [i \in 1 .. a + m |-> (s \o t)[i]]
  <2> DEFINE w == s \o t
  <2>1. PICK S : w \in Seq(S)
    BY <1>3 DEF IsSq
  <2>2. Len(w) = a + m
    BY <1>3
  <2> HIDE DEF w
  <2>3. w = [i \in 1 .. a + m |-> w[i]]
    BY <2>1, <2>2
  <2>. QED
    BY <2>3 DEF w
<1>5. ASSUME NEW i \in 1 .. a + m PROVE (s \o t)[i] = u[i]
  <2>1. CASE i <= a
    <3>1. i \in 1 .. a
      BY <2>1
    <3>. QED
      BY <1>3, <2>1, <3>1
  <2>2. CASE ~(i <= a)
    <3>1. i - a \in 1 .. m /\ b + a + (i - a) = b + i
      BY <2>2
    <3>2. t[i - a] = Rows!PictureLine(p, b + i)
      BY <3>1
    <3>. QED
      BY <1>3, <2>2, <3>2
  <2>. QED
    BY <2>1, <2>2
<1>6. s \o t = u
  <2> DEFINE w == s \o t
  <2>1. w = [i \in 1 .. a + m |-> w[i]] /\ \A i \in 1 .. a + m : w[i] = u[i]
    BY <1>4, <1>5
  <2> HIDE DEF w
  <2>2. u = [i \in 1 .. a + m |-> u[i]]
    OBVIOUS
  <2> HIDE DEF u
  <2>3. w = u
    BY <2>1, <2>2
  <2>. QED
    BY <2>3 DEF w
<1>. QED
  BY <1>2, <1>3, <1>6

\* An upsampler goes on with group n of the picture: the lines are the next ones; the
\* group is either done, or what is left of it is kept.
UpsamplesOn(e, f, n) ==
    /\ Told(f) /\ Buffered(f) /\ f.togo <= e.togo
    /\ e.togo > 0 =>
         /\ Len(f.lines) > Len(e.lines)
         /\ \/ f.ctr = e.ctr + 1 /\ LinesOut(f) = 0
               /\ LinesDone(f) = (n + 1) * Rows!MaxV(f.img)
            \/ f.ctr = e.ctr /\ LinesDone(f) = n * Rows!MaxV(f.img) + LinesOut(f) /\ OwedIs(f, n)

Stands(e, n) ==
    /\ Told(e) /\ Buffered(e)
    /\ e.togo > 0 => /\ LinesDone(e) = n * Rows!MaxV(e.img) + LinesOut(e)
                     /\ OwedIs(e, n) /\ GroupIs(e, n)

LEMMA SepGoes ==
    ASSUME NEW max \in Nat, NEW e, InCall(e, max), Len(e.lines) < max, NEW n \in Nat,
           Stands(e, n), ~Rows!Merged(e.img)
    PROVE  UpsamplesOn(e, Rows!SepUpsample(e, max), n)
<1> DEFINE p == e.img
           V == Rows!MaxV(p)
           col == Rows!Upsampled(e)
           zero == 0
           f == IF e.next_row_out < V THEN e ELSE [e EXCEPT !.color = col, !.next_row_out = zero]
           m == Rows!Min({V - f.next_row_out, f.togo, max - Len(e.lines)})
           new == [j \in 1 .. m |-> Rows!Line(f, f.next_row_out + j - 1)]
           L == f.lines \o new
           t == f.togo - m
           r == f.next_row_out + m
           k == IF r >= V THEN f.ctr + 1 ELSE f.ctr
           g == [f EXCEPT !.lines = L, !.togo = t, !.next_row_out = r, !.ctr = k]
           a == Len(e.lines)
           b == e.scanline
           x == f.next_row_out
           all == Rows!Lines(p)
<1>1. Rows!SepUpsample(e, max) = g
  BY DEF Rows!SepUpsample
<1>2. /\ DOMAIN e = RowFields /\ p \in Images /\ e.ctr \in Nat /\ e.next_row_out \in 0 .. V
      /\ V \in 1 .. 4 /\ e.togo \in Nat /\ b \in Nat /\ a \in Nat /\ IsSq(e.lines)
      /\ b + a + e.togo = all /\ all \in Nat
  BY Sizes, Joined DEF InCall, Counted
<1>3. e.spare = <<>> /\ (e.togo > 0 => e.next_row_out > 0)
  BY DEF Stands, Buffered
<1>4. /\ DOMAIN f = RowFields /\ x \in 0 .. V
      /\ \A y \in RowFields \ {"color", "next_row_out"} : f[y] = e[y]
      /\ x = IF e.next_row_out < V THEN e.next_row_out ELSE 0
  <2> DEFINE f1 == [e EXCEPT !.color = col, !.next_row_out = zero]
  <2>1. /\ DOMAIN f1 = RowFields /\ f1.next_row_out = zero
        /\ \A y \in RowFields \ {"color", "next_row_out"} : f1[y] = e[y]
    <3> HIDE DEF col, zero
    <3>. QED
      BY <1>2 DEF RowFields
  <2>2. f = IF e.next_row_out < V THEN e ELSE f1
    OBVIOUS
  <2> HIDE DEF f1, f, V
  <2>3. CASE e.next_row_out < V
    <3>1. f = e
      BY <2>2, <2>3
    <3>. QED
      BY <1>2, <2>3, <3>1
  <2>4. CASE ~(e.next_row_out < V)
    <3>1. f = f1
      BY <2>2, <2>4
    <3>2. zero \in 0 .. V
      BY <1>2
    <3>. QED
      BY <2>1, <2>4, <3>1, <3>2
  <2>. QED
    BY <2>3, <2>4
<1>5. /\ f.img = p /\ f.mem = e.mem /\ f.xbuf = e.xbuf /\ f.lines = e.lines /\ f.togo = e.togo
      /\ f.ctr = e.ctr /\ f.scanline = b /\ f.spare = e.spare
  BY <1>4 DEF RowFields
<1>6. e.next_row_out = V => f.color = col
  <2> HIDE DEF col, V
  <2>. QED
    BY <1>2 DEF RowFields
<1> HIDE DEF f
<1>7. x < V /\ (e.togo > 0 => x = LinesOut(e))
  BY <1>2, <1>3, <1>4 DEF LinesOut
<1>8. /\ m \in Nat /\ m <= e.togo /\ m <= max - a /\ x + m <= V
      /\ (e.togo > 0 => m > 0)
  <2> DEFINE c1 == V - x
             c2 == f.togo
             c3 == max - a
             y == Rows!Min({c1, c2, c3})
  <2>1. c1 \in Nat \ {0} /\ c2 = e.togo /\ c2 \in Nat /\ c3 \in Nat \ {0}
    BY <1>2, <1>4, <1>5, <1>7
  <2>2. m = y
    BY DEF c1, c2, c3
  <2> HIDE DEF c1, c2, c3, m
  <2>3. c1 \in Int /\ c2 \in Int /\ c3 \in Int
    BY <2>1
  <2>4. y \in {c1, c2, c3} /\ y <= c1 /\ y <= c2 /\ y <= c3
    BY <2>3, LeastOfThree, Zenon
  <2> HIDE DEF y
  <2>5. m \in Nat /\ m <= c1 /\ m <= e.togo /\ m <= c3 /\ (e.togo > 0 => m > 0)
    BY <2>1, <2>2, <2>4
  <2>. QED
    BY <1>2, <1>4, <2>5 DEF c1, c3
<1> HIDE DEF m
<1>9. ASSUME e.togo > 0, NEW i \in x .. V - 1, n * V + i < all
      PROVE  Rows!Line(f, i) = Rows!PictureLine(p, n * V + i + 1)
  <2>1. i \in 0 .. V - 1
    BY <1>2, <1>4, <1>9
  <2>2. CASE e.next_row_out = V
    <3>1. GroupIs(e, n)
      BY <1>9 DEF Stands
    <3>2. f.color = Rows!Upsampled(e)
      BY <1>6, <2>2
    <3>. QED
      BY <1>2, <1>5, <1>9, <2>1, <3>1, <3>2, UpsampledIs
  <2>3. CASE e.next_row_out # V
    <3>1. f = e
      BY <1>2, <2>3 DEF f
    <3>2. OwedIs(e, n) /\ LinesOut(e) = x /\ x # 0
      BY <1>2, <1>3, <1>4, <1>7, <1>9, <2>3 DEF Stands
    <3>3. (IF Rows!Merged(p) THEN e.spare ELSE Rows!Line(e, i)) = Rows!PictureLine(p, n * V + i + 1)
      BY <1>9, <3>2 DEF OwedIs
    <3>. QED
      BY <3>1, <3>3
  <2>. QED
    BY <2>2, <2>3
<1>10. new = [j \in 1 .. m |-> Rows!PictureLine(p, b + a + j)]
  <2>1. CASE e.togo > 0
    <3>1. b + a = n * V + x /\ n * V \in Nat
      <4>1. all - e.togo = n * V + LinesOut(e)
        BY <2>1 DEF Stands, LinesDone
      <4>2. n * V \in Nat /\ x = LinesOut(e) /\ x \in Nat
        BY <1>2, <1>4, <1>7, <2>1
      <4>3. b \in Nat /\ a \in Nat /\ e.togo \in Nat /\ b + a + e.togo = all
        BY <1>2
      <4> DEFINE N == n * V
                 tt == e.togo
      <4> HIDE DEF N, tt, a, b, all, x
      <4>4. all - tt = N + x /\ N \in Nat /\ x \in Nat /\ tt \in Nat /\ b + a + tt = all
        BY <4>1, <4>2, <4>3 DEF N, tt
      <4>5. b + a = N + x
        BY <4>3, <4>4
      <4>. QED
        BY <4>4, <4>5 DEF N
    <3>2. ASSUME NEW j \in 1 .. m PROVE Rows!Line(f, x + j - 1) = Rows!PictureLine(p, b + a + j)
      <4> DEFINE i == x + j - 1
                 N == n * V
      <4>1. i \in x .. V - 1 /\ N + i < all /\ N + i + 1 = b + a + j
        <5> DEFINE tt == e.togo
        <5>1. /\ N \in Nat /\ b + a = N + x /\ b + a + tt = all /\ tt \in Nat /\ b \in Nat /\ a \in Nat
              /\ x \in Nat /\ m \in Nat /\ m <= tt /\ x + m <= V /\ V \in Nat
          BY <1>2, <1>4, <1>8, <3>1
        <5> HIDE DEF N, b, a, all, V, x, tt
        <5>2. i \in x .. V - 1 /\ N + i + 1 = b + a + j
          BY <5>1
        <5>3. N + i < all
          BY <5>1
        <5>. QED
          BY <5>2, <5>3
      <4> HIDE DEF i
      <4>2. Rows!Line(f, i) = Rows!PictureLine(p, N + i + 1)
        BY <1>9, <2>1, <4>1
      <4>. QED
        BY <4>1, <4>2 DEF i
    <3> HIDE DEF x, b, a
    <3>. QED
      BY <3>2 DEF x
  <2>2. CASE ~(e.togo > 0)
    <3>1. m = 0
      BY <1>2, <1>8, <2>2
    <3>. QED
      BY <3>1
  <2>. QED
    BY <2>1, <2>2
<1>11. L = [j \in 1 .. a + m |-> Rows!PictureLine(p, b + j)] /\ Len(L) = a + m
  <2> DEFINE s == e.lines
  <2>1. s = [j \in 1 .. a |-> Rows!PictureLine(p, b + j)]
    BY DEF Stands, Told
  <2>2. L = s \o new
    BY <1>5
  <2> HIDE DEF s, new, L, a, b
  <2>. QED
    BY <1>2, <1>8, <1>10, <2>1, <2>2, ToldOn
<1>12. t = e.togo - m /\ r = x + m /\ k = IF r >= V THEN e.ctr + 1 ELSE e.ctr
  BY <1>5
<1> HIDE DEF L, t, r, k, V, x, new
<1>13. /\ DOMAIN g = RowFields /\ g.lines = L /\ g.togo = t /\ g.next_row_out = r /\ g.ctr = k
       /\ g.img = f.img /\ g.mem = f.mem /\ g.xbuf = f.xbuf /\ g.color = f.color
       /\ g.spare = f.spare /\ g.scanline = f.scanline
  BY <1>4 DEF RowFields
<1> HIDE DEF g
<1>14. Told(g)
  <2>1. g.lines = [j \in 1 .. Len(g.lines) |-> Rows!PictureLine(p, b + j)]
    BY <1>11, <1>13
  <2>. QED
    BY <1>5, <1>13, <2>1 DEF Told
<1>15. g.img = p /\ g.spare = <<>> /\ r \in Nat /\ r <= V /\ (t > 0 => r > 0) /\ g.togo <= e.togo
  <2>1. g.img = p /\ g.spare = <<>>
    BY <1>3, <1>5, <1>13
  <2> DEFINE tt == e.togo
  <2>2. tt \in Nat /\ x \in Nat /\ m \in Nat /\ x + m <= V /\ V \in Nat /\ t = tt - m /\ r = x + m
        /\ (tt > 0 => m > 0)
    BY <1>2, <1>4, <1>8, <1>12
  <2> HIDE DEF tt
  <2>3. r \in Nat /\ r <= V /\ (t > 0 => r > 0) /\ t <= tt
    BY <2>2
  <2>. QED
    BY <1>13, <2>1, <2>3 DEF tt
<1>16. Buffered(g)
  BY <1>13, <1>15 DEF Buffered
<1>17. ASSUME e.togo > 0
       PROVE  /\ Len(g.lines) > a
              /\ \/ g.ctr = e.ctr + 1 /\ LinesOut(g) = 0 /\ LinesDone(g) = (n + 1) * V
                 \/ g.ctr = e.ctr /\ LinesDone(g) = n * V + LinesOut(g) /\ OwedIs(g, n)
  <2>1. Len(g.lines) > a
    BY <1>2, <1>8, <1>11, <1>13, <1>17
  <2>2. LinesDone(g) = n * V + r
    <3>1. all - e.togo = n * V + x
      BY <1>7, <1>17 DEF Stands, LinesDone, V
    <3>2. LinesDone(g) = all - t
      BY <1>13, <1>15 DEF LinesDone
    <3> DEFINE N == n * V
               tt == e.togo
    <3>3. /\ N \in Nat /\ all \in Nat /\ tt \in Nat /\ x \in Nat /\ m \in Nat /\ t = tt - m
          /\ r = x + m /\ all - tt = N + x
      BY <1>2, <1>4, <1>8, <1>12, <3>1
    <3> HIDE DEF N, all, tt
    <3>4. all - t = N + r
      BY <3>3
    <3>. QED
      BY <3>2, <3>4 DEF N
  <2>3. CASE r >= V
    <3>1. r = V /\ g.ctr = e.ctr + 1
      BY <1>2, <1>12, <1>13, <1>15, <2>3
    <3>2. LinesOut(g) = 0
      BY <1>13, <1>15, <3>1 DEF LinesOut, V
    <3>3. (n + 1) * V = n * V + V
      BY <1>2
    <3>. QED
      BY <2>1, <2>2, <3>1, <3>2, <3>3
  <2>4. CASE ~(r >= V)
    <3>1. r < V /\ g.ctr = e.ctr
      BY <1>2, <1>12, <1>13, <1>15, <2>4
    <3>2. LinesOut(g) = r
      BY <1>2, <1>13, <1>15, <3>1 DEF LinesOut, V
    <3>3. ASSUME NEW i \in r .. V - 1, n * V + i < all
          PROVE  Rows!Line(g, i) = Rows!PictureLine(p, n * V + i + 1)
      <4>1. i \in x .. V - 1
        BY <1>2, <1>4, <1>8, <1>12, <3>3
      <4>2. Rows!Line(f, i) = Rows!PictureLine(p, n * V + i + 1)
        BY <1>9, <1>17, <3>3, <4>1
      <4>3. Rows!Line(g, i) = Rows!Line(f, i)
        BY <1>13 DEF Rows!Line, Rows!Row, Rows!Place
      <4>. QED
        BY <4>2, <4>3
    <3>4. OwedIs(g, n)
      BY <1>15, <3>2, <3>3 DEF OwedIs, V
    <3>. QED
      BY <2>1, <2>2, <3>1, <3>2, <3>4
  <2>. QED
    BY <1>2, <1>15, <2>3, <2>4
<1>. QED
  BY <1>1, <1>14, <1>15, <1>16, <1>17 DEF UpsamplesOn, V

LEMMA MergedSizes ==
    ASSUME NEW p \in Images, Rows!Merged(p)
    PROVE  /\ Rows!MaxV(p) = 2 /\ ~Rows!Context(p) /\ \A c \in DOMAIN p.v : ~Rows!Fancy(p, c)
           /\ 1 \in DOMAIN p.v
<1>1. p.v = <<2, 1, 1>> /\ ~p.fancy
  BY DEF Rows!Merged
<1> DEFINE W == p.v
           S == Rows!Range(W)
<1>2. S = {1, 2}
  <2> HIDE DEF W
  <2>1. W = <<2, 1, 1>>
    BY <1>1 DEF W
  <2>2. DOMAIN W = 1 .. 3 /\ W[1] = 2 /\ W[2] = 1 /\ W[3] = 1
    BY <2>1
  <2>3. \A i \in 1 .. 3 : i \in {1, 2, 3}
    OBVIOUS
  <2>. QED
    BY <2>2, <2>3 DEF Rows!Range
<1>3. Rows!Max(S) = 2
  <2> HIDE DEF S
  <2>1. S \in SUBSET (1 .. 4) /\ S # {} /\ 2 \in S
    BY <1>2
  <2>2. Rows!Max(S) \in S /\ \A y \in S : y <= Rows!Max(S)
    BY <2>1, MostIs
  <2> DEFINE u == Rows!Max(S)
  <2> HIDE DEF u
  <2>3. u = 2
    BY <1>2, <2>1, <2>2 DEF u
  <2>. QED
    BY <2>3 DEF u
<1>4. Rows!MaxV(p) = 2
  BY <1>3 DEF Rows!MaxV
<1>. QED
  BY <1>1, <1>4 DEF Rows!Context, Rows!Fancy

LEMMA MergedGoes ==
    ASSUME NEW max \in Nat \ {0}, NEW e, InCall(e, max), e.lines = <<>>, e.togo > 0, NEW n \in Nat,
           Stands(e, n), Rows!Merged(e.img)
    PROVE  UpsamplesOn(e, Rows!MergedUpsample(e, max), n)
<1> DEFINE g == Rows!MergedUpsample(e, max)
           p == e.img
           all == Rows!Lines(p)
           b == e.scanline
           Two(i) == [c \in DOMAIN p.v |->
                        <<Rows!Row(e, 0, c, e.ctr * Rows!Group(p, c) + Rows!Reads(p, c, i)[1])>>]
           m == Rows!Min({2, e.togo, max - Len(e.lines)})
           one == Append(e.lines, e.spare)
           none == <<>>
           new == [j \in 1 .. m |-> Two(j - 1)]
           more == e.lines \o new
           kept == IF m > 1 THEN <<>> ELSE Two(1)
           next == e.ctr + 1
           k == IF m > 1 THEN next ELSE e.ctr
           t1 == e.togo - 1
           tn == e.togo - m
           g1 == [e EXCEPT !.lines = one, !.spare = none, !.togo = t1, !.ctr = next]
           gn == [e EXCEPT !.lines = more, !.spare = kept, !.togo = tn, !.ctr = k]
           N == n * 2
<1>1. g = IF e.spare # <<>> THEN g1 ELSE gn
  BY DEF Rows!MergedUpsample
<1>2. /\ Counted(e) /\ b + e.togo = all /\ e.togo \in Nat \ {0} /\ p \in Images
      /\ DOMAIN e = RowFields /\ e.ctr \in Nat /\ b \in Nat /\ all \in Nat /\ Len(e.lines) = 0
  BY Sizes DEF InCall, Counted
<1>3. Rows!MaxV(p) = 2 /\ ~Rows!Context(p) /\ 1 \in DOMAIN p.v
  BY <1>2, MergedSizes
<1>4. e.next_row_out = 2 /\ GroupIs(e, n) /\ OwedIs(e, n) /\ b = N + LinesOut(e)
  <2>1. all - e.togo = n * 2 + LinesOut(e) /\ e.next_row_out = 2
    BY <1>3 DEF Stands, Buffered, LinesDone
  <2>2. all - e.togo = b
    BY <1>2
  <2>. QED
    BY <2>1, <2>2 DEF Stands
<1>5. N \in Nat
  OBVIOUS
<1>6. m \in 1 .. 2 /\ m <= e.togo
  <2> DEFINE c1 == 2
             c2 == e.togo
             c3 == max - Len(e.lines)
             y == Rows!Min({c1, c2, c3})
  <2>1. c1 = 2 /\ c2 \in Nat \ {0} /\ c3 \in Nat \ {0}
    BY <1>2
  <2>2. m = y
    BY DEF c1, c2, c3
  <2> HIDE DEF c1, c2, c3, m
  <2>3. c1 \in Int /\ c2 \in Int /\ c3 \in Int
    BY <2>1
  <2>4. y \in {c1, c2, c3} /\ y <= c1 /\ y <= c2 /\ y <= c3
    BY <2>3, LeastOfThree, Zenon
  <2> HIDE DEF y
  <2>. QED
    BY <2>1, <2>2, <2>4 DEF c2
<1>7. ASSUME NEW i \in 0 .. 1, N + i < all PROVE Two(i) = Rows!PictureLine(p, N + i + 1)
  <2> DEFINE Want(c) == [j \in DOMAIN Rows!Reads(p, c, i) |->
                           Rows!Near(p, c, n * Rows!Group(p, c) + Rows!Reads(p, c, i)[j])]
             Have(c) == <<Rows!Row(e, 0, c, e.ctr * Rows!Group(p, c) + Rows!Reads(p, c, i)[1])>>
  <2>0. i \in 0 .. Rows!MaxV(p) - 1 /\ n * Rows!MaxV(p) + i < Rows!Lines(p)
    BY <1>3, <1>7
  <2>1. Rows!PictureLine(p, N + i + 1) = [c \in DOMAIN p.v |-> Want(c)]
    <3>1. Rows!PictureLine(p, n * Rows!MaxV(p) + i + 1) = [c \in DOMAIN p.v |-> Want(c)]
      BY <1>2, <2>0, PictureLineIs
    <3>. QED
      BY <1>3, <3>1
  <2>2. ASSUME NEW c \in DOMAIN p.v PROVE Have(c) = Want(c)
    <3> DEFINE reads == Rows!Reads(p, c, i)
               G == Rows!Group(p, c)
               a == e.ctr * G + reads[1]
               w == Rows!Near(p, c, n * G + reads[1])
    <3>1. \E x : reads = <<x>>
      BY <1>2, <2>0, ReadsAre, MergedSizes
    <3>2. DOMAIN reads = {1}
      <4> HIDE DEF reads
      <4>. QED
        BY <3>1
    <3>3. Rows!Row(e, e.whichptr, c, a) = w
      BY <1>4, <2>0, <3>2 DEF GroupIs, RowIs
    <3>4. Rows!Row(e, 0, c, a) = w
      BY <1>3, <3>3, PlainRow
    <3>5. Want(c) = <<w>>
      <4> DEFINE F(x) == Rows!Near(p, c, n * G + x)
      <4>1. Want(c) = [j \in DOMAIN reads |-> F(reads[j])] /\ w = F(reads[1])
        OBVIOUS
      <4> HIDE DEF F, reads, Want, w
      <4>2. Want(c) = <<w>>
        BY <3>1, <4>1
      <4>. QED
        BY <4>2
    <3>. QED
      BY <3>4, <3>5
  <2> HIDE DEF Have, Want
  <2>3. [c \in DOMAIN p.v |-> Have(c)] = [c \in DOMAIN p.v |-> Want(c)]
    BY <2>2
  <2>. QED
    BY <2>1, <2>3 DEF Have
<1>8. CASE e.spare # <<>>
  <2>1. g = g1 /\ LinesOut(e) = 1 /\ b = N + 1
    BY <1>1, <1>4, <1>8 DEF LinesOut
  <2>2. e.spare = Rows!PictureLine(p, b + 1)
    <3>1. 1 \in LinesOut(e) .. 2 - 1 /\ LinesOut(e) # 0 /\ n * 2 + 1 < all
      BY <1>2, <1>5, <2>1
    <3>2. (IF Rows!Merged(p) THEN e.spare ELSE Rows!Line(e, 1)) = Rows!PictureLine(p, n * 2 + 1 + 1)
      BY <1>3, <1>4, <3>1 DEF OwedIs
    <3>. QED
      BY <2>1, <3>2
  <2>3. one = [j \in 1 .. 1 |-> Rows!PictureLine(p, b + j)] /\ Len(one) = 1
    <3> DEFINE x == e.spare
    <3>1. one = <<x>>
      OBVIOUS
    <3> HIDE DEF x, one
    <3>2. x = Rows!PictureLine(p, b + 1)
      BY <2>2 DEF x
    <3>. QED
      BY <3>1, <3>2
  <2> HIDE DEF one, t1, none, next, g
  <2>4. /\ DOMAIN g1 = RowFields /\ g1.lines = one /\ g1.togo = t1 /\ g1.ctr = next
        /\ g1.spare = none /\ g1.img = p /\ g1.scanline = b /\ g1.next_row_out = e.next_row_out
    BY <1>2 DEF RowFields
  <2> HIDE DEF g1
  <2>5. Told(g1)
    BY <2>3, <2>4 DEF Told
  <2>6. Buffered(g1)
    BY <1>3, <1>4, <2>4 DEF Buffered
  <2>7. LinesOut(g1) = 0 /\ Len(g1.lines) > 0 /\ g1.ctr = e.ctr + 1
    BY <1>3, <1>4, <2>3, <2>4 DEF LinesOut, none, next
  <2>8. LinesDone(g1) = (n + 1) * 2 /\ g1.togo <= e.togo
    BY <1>2, <1>5, <2>1, <2>4 DEF LinesDone, t1
  <2>. QED
    BY <1>2, <1>3, <2>1, <2>4, <2>5, <2>6, <2>7, <2>8 DEF UpsamplesOn, g
<1>9. CASE e.spare = <<>>
  <2>1. g = gn /\ LinesOut(e) = 0 /\ b = N
    <3>1. LinesOut(e) = 0
      BY <1>3, <1>4, <1>9 DEF LinesOut
    <3>. QED
      BY <1>1, <1>4, <1>5, <1>9, <3>1
  <2>2. more = [j \in 1 .. m |-> Rows!PictureLine(p, b + j)] /\ Len(more) = m
    <3>1. ASSUME NEW j \in 1 .. m PROVE Two(j - 1) = Rows!PictureLine(p, b + j)
      <4> DEFINE i == j - 1
      <4>1. i \in 0 .. 1 /\ N + i < all /\ N + i + 1 = b + j
        BY <1>2, <1>5, <1>6, <2>1
      <4> HIDE DEF i, Two
      <4>2. Two(i) = Rows!PictureLine(p, N + i + 1)
        BY <1>7, <4>1
      <4>. QED
        BY <4>1, <4>2 DEF i
    <3> HIDE DEF Two, m
    <3>2. new = [j \in 1 .. m |-> Rows!PictureLine(p, b + j)]
      BY <3>1
    <3>3. new = [j \in 1 .. m |-> new[j]]
      OBVIOUS
    <3>4. more = <<>> \o new
      OBVIOUS
    <3> HIDE DEF new, more
    <3>5. IsSq(new) /\ Len(new) = m
      BY <1>6, <3>3, Tabled
    <3>6. PICK S : new \in Seq(S)
      BY <3>5 DEF IsSq
    <3>7. more = new
      BY <3>4, <3>6
    <3>. QED
      BY <3>2, <3>5, <3>7
  <2>3. (m = 1 => kept = Two(1) /\ kept # <<>>) /\ (m # 1 => kept = <<>>)
    <3>1. Two(1) # <<>>
      <4>1. DOMAIN Two(1) = DOMAIN p.v
        OBVIOUS
      <4> HIDE DEF Two
      <4>2. DOMAIN Two(1) # {}
        BY <1>3, <4>1
      <4>3. DOMAIN <<>> = {}
        OBVIOUS
      <4>. QED
        BY <4>2, <4>3
    <3> HIDE DEF Two, m
    <3>. QED
      BY <1>6, <3>1
  <2> HIDE DEF more, kept, tn, k, g, m, Two
  <2>4. /\ DOMAIN gn = RowFields /\ gn.lines = more /\ gn.togo = tn /\ gn.ctr = k
        /\ gn.spare = kept /\ gn.img = p /\ gn.scanline = b /\ gn.next_row_out = e.next_row_out
    BY <1>2 DEF RowFields
  <2> HIDE DEF gn
  <2>5. Told(gn)
    BY <2>2, <2>4 DEF Told
  <2>6. Buffered(gn)
    BY <1>3, <1>4, <2>4 DEF Buffered
  <2>7. LinesDone(gn) = N + m /\ Len(gn.lines) > 0 /\ gn.togo <= e.togo
    <3> DEFINE tt == e.togo
    <3>1. tt \in Nat /\ b \in Nat /\ b + tt = all /\ b = N /\ tn = tt - m /\ m \in Nat /\ m > 0
      BY <1>2, <1>6, <2>1 DEF tn
    <3>2. LinesDone(gn) = all - tn /\ Len(gn.lines) = m
      BY <2>2, <2>4 DEF LinesDone
    <3> HIDE DEF tt, N, b, all
    <3>3. all - tn = N + m /\ tn <= tt
      BY <3>1
    <3>. QED
      BY <2>4, <3>1, <3>2, <3>3 DEF tt
  <2>8. CASE m = 1
    <3>1. LinesOut(gn) = 1 /\ gn.ctr = e.ctr
      BY <2>3, <2>4, <2>8 DEF LinesOut, k
    <3>2. ASSUME NEW r \in 1 .. 1, n * 2 + r < all
          PROVE  gn.spare = Rows!PictureLine(p, n * 2 + r + 1)
      <4>1. r = 1 /\ N + 1 < all
        BY <3>2
      <4>2. Two(1) = Rows!PictureLine(p, N + 1 + 1)
        BY <1>7, <4>1
      <4>. QED
        BY <2>3, <2>4, <2>8, <4>1, <4>2
    <3>3. OwedIs(gn, n)
      BY <1>3, <2>4, <3>1, <3>2 DEF OwedIs
    <3>. QED
      BY <1>2, <1>3, <2>1, <2>4, <2>5, <2>6, <2>7, <2>8, <3>1, <3>3 DEF UpsamplesOn, g
  <2>9. CASE m # 1
    <3>1. m = 2
      BY <1>6, <2>9
    <3>2. LinesOut(gn) = 0 /\ gn.ctr = e.ctr + 1
      BY <1>3, <1>4, <2>3, <2>4, <2>9, <3>1 DEF LinesOut, k, next
    <3>3. LinesDone(gn) = (n + 1) * 2
      BY <1>5, <2>7, <3>1
    <3>. QED
      BY <1>2, <1>3, <2>1, <2>4, <2>5, <2>6, <2>7, <3>2, <3>3 DEF UpsamplesOn, g
  <2>. QED
    BY <2>8, <2>9
<1>. QED
  BY <1>8, <1>9

LEMMA PostGoes ==
    ASSUME NEW max \in Nat \ {0}, NEW e, InCall(e, max), Len(e.lines) < max, NEW n \in Nat,
           Rows!Context(e.img) \/ (e.lines = <<>> /\ e.togo > 0), Stands(e, n)
    PROVE  UpsamplesOn(e, Rows!PostProcess(e, max), n)
<1>0. e.img \in Images
  BY DEF InCall, Counted
<1>1. CASE Rows!Merged(e.img)
  <2>1. Rows!PostProcess(e, max) = Rows!MergedUpsample(e, max) /\ ~Rows!Context(e.img)
    BY <1>0, <1>1, MergedSizes DEF Rows!PostProcess
  <2>. QED
    BY <1>1, <2>1, MergedGoes
<1>2. CASE ~Rows!Merged(e.img)
  <2>1. Rows!PostProcess(e, max) = Rows!SepUpsample(e, max) /\ max \in Nat
    BY <1>2 DEF Rows!PostProcess
  <2>. QED
    BY <1>2, <2>1, SepGoes
<1>. QED
  BY <1>1, <1>2
-----------------------------------------------------------------------------
(***************************************************************************)
(* The workspace and its two lists.                                        *)
(***************************************************************************)
\* The iMCU row that is, or will be, in the workspace, counted from 0.
Current(e) == IF e.full THEN e.imcu - 1 ELSE e.imcu

\* All of an iMCU row is there, of the last one what there is of it.
AtBottom(e) == e.imcu = Rows!TotalRows(e.img)
LastPlace(e, c) == IF AtBottom(e) THEN Rows!RowsLeft(e.img, c) - 1 ELSE Rows!Height(e.img, c) - 1
RowsThere(e) ==
    \A c \in DOMAIN e.img.v : \A i \in 0 .. LastPlace(e, c) :
       RowIs(e, c, i, Current(e) * Rows!Height(e.img, c) + i)

\* So is the row above it, and below the last one the last row again.
RowAbove(e) ==
    \A c \in DOMAIN e.img.v :
       RowIs(e, c, -1, Rows!Near(e.img, c, Current(e) * Rows!Height(e.img, c) - 1))
RowBelow(e) ==
    AtBottom(e) => \A c \in DOMAIN e.img.v :
                      RowIs(e, c, Rows!RowsLeft(e.img, c), Rows!Rows(e.img, c) - 1)

\* The last two row groups of the iMCU row before.
RowsBefore(e) ==
    \A c \in DOMAIN e.img.v : \A i \in 1 .. 2 * Rows!Group(e.img, c) :
       RowIs(e, c, Rows!Group(e.img, c) * Rows!Groups(e.img) - i,
             Current(e) * Rows!Height(e.img, c) - i)

\* One list is the workspace as it is, in the other its last four row groups are swapped;
\* from the end of the first iMCU row on, they go around.
Turn(p, c, w, i) ==
    IF w = 0 THEN i
    ELSE IF i >= Rows!Group(p, c) * p.M THEN i - 2 * Rows!Group(p, c)
    ELSE IF i >= Rows!Group(p, c) * (p.M - 2) THEN i + 2 * Rows!Group(p, c) ELSE i
GoAround(e) == e.imcu > 1 \/ (e.imcu = 1 /\ e.state = "postponed")
ListRight(e, w, c) ==
    LET g == Rows!Group(e.img, c)
        n == g * Rows!Groups(e.img)
        x == e.xbuf[w][c]
    IN  /\ \A i \in 0 .. n - 1 : x[i] = Turn(e.img, c, w, i)
        /\ GoAround(e) => \A i \in 1 .. g : x[0 - i] = x[n - i] /\ x[n + i - 1] = x[i - 1]
        /\ ~GoAround(e) /\ w = 0 => x[-1] = 0
ListsRight(e) ==
    DOMAIN e.xbuf = 0 .. 1 /\ \A w \in 0 .. 1 : \A c \in DOMAIN e.img.v : ListRight(e, w, c)

LEMMA TurnIs ==
    ASSUME NEW p \in Images, NEW c \in DOMAIN p.v, Rows!Context(p), NEW w \in 0 .. 1
    PROVE  LET g == Rows!Group(p, c)
               n == g * Rows!Groups(p)
               H == Rows!Height(p, c)
           IN  /\ g \in Nat \ {0} /\ n = H + 2 * g /\ H >= 2 * g /\ n \in Nat /\ H \in Nat
               /\ \A i \in 0 .. n - 1 : Turn(p, c, w, i) \in 0 .. n - 1
               /\ \A i, j \in 0 .. n - 1 : Turn(p, c, w, i) = Turn(p, c, w, j) => i = j
               /\ \A i \in 1 .. 2 * g : Turn(p, c, 1 - w, n - i) = Turn(p, c, w, H - i)
<1> DEFINE g == Rows!Group(p, c)
           M == p.M
           H == Rows!Height(p, c)
           n == g * Rows!Groups(p)
           T(i) == IF i >= H THEN i - 2 * g ELSE IF i >= H - 2 * g THEN i + 2 * g ELSE i
<1>1. M \in {2, 4, 8} /\ Rows!Groups(p) = M + 2
  BY GroupsAre, Sizes
<1>2. g \in Nat \ {0} /\ H = g * M
  BY ComponentSizes
<1>3. n = H + 2 * g /\ g * (M - 2) = H - 2 * g /\ H >= 2 * g /\ H \in Nat
  <2> HIDE DEF g, M, H
  <2>1. CASE M = 2
    BY <1>1, <1>2, <2>1
  <2>2. CASE M = 4
    BY <1>1, <1>2, <2>2
  <2>3. CASE M = 8
    BY <1>1, <1>2, <2>3
  <2>. QED
    BY <1>1, <2>1, <2>2, <2>3
<1>4. \A i : Turn(p, c, 0, i) = i /\ Turn(p, c, 1, i) = T(i)
  <2> TAKE i
  <2>1. Turn(p, c, 1, i) = IF i >= g * M THEN i - 2 * g ELSE IF i >= g * (M - 2) THEN i + 2 * g ELSE i
    BY DEF Turn
  <2>2. Turn(p, c, 0, i) = i
    BY DEF Turn
  <2> HIDE DEF g, M, H
  <2>. QED
    BY <1>2, <1>3, <2>1, <2>2
<1> HIDE DEF g, M, H, n
<1>5. CASE w = 0
  <2>1. \A i \in 0 .. n - 1 : Turn(p, c, w, i) = i
    BY <1>4, <1>5
  <2>2. ASSUME NEW i \in 1 .. 2 * g PROVE Turn(p, c, 1 - w, n - i) = Turn(p, c, w, H - i)
    <3>1. Turn(p, c, 1 - w, n - i) = T(n - i) /\ Turn(p, c, w, H - i) = H - i
      BY <1>4, <1>5
    <3>2. n - i >= H /\ n - i - 2 * g = H - i
      BY <1>2, <1>3
    <3>. QED
      BY <3>1, <3>2
  <2>. QED
    BY <1>2, <1>3, <2>1, <2>2 DEF g, H, n
<1>6. CASE w = 1
  <2>1. \A i \in 0 .. n - 1 : Turn(p, c, w, i) = T(i) /\ T(i) \in 0 .. n - 1
    BY <1>2, <1>3, <1>4, <1>6
  <2>2. \A i, j \in 0 .. n - 1 : T(i) = T(j) => i = j
    BY <1>2, <1>3
  <2>3. ASSUME NEW i \in 1 .. 2 * g PROVE Turn(p, c, 1 - w, n - i) = Turn(p, c, w, H - i)
    <3>1. Turn(p, c, 1 - w, n - i) = n - i /\ Turn(p, c, w, H - i) = T(H - i)
      BY <1>4, <1>6
    <3>2. T(H - i) = H - i + 2 * g
      BY <1>2, <1>3
    <3>. QED
      BY <1>2, <1>3, <3>1, <3>2
  <2> HIDE DEF T
  <2>. QED
    BY <1>2, <1>3, <2>1, <2>2, <2>3 DEF g, H, n
<1>. QED
  BY <1>5, <1>6

\* No two places of what is filled are the same.
LEMMA PlacesApart ==
    ASSUME NEW e, e.img \in Images, e.whichptr \in 0 .. 1, NEW c \in DOMAIN e.img.v,
           Rows!Context(e.img) => ListsRight(e)
    PROVE  LET n == Rows!Group(e.img, c) * Rows!Groups(e.img)
               Pl(i) == Rows!Place(e, e.whichptr, c, i)
           IN  /\ n \in Nat /\ Rows!Height(e.img, c) <= n
               /\ \A i \in 0 .. n - 1 : Pl(i) \in 0 .. n - 1
               /\ \A i, j \in 0 .. n - 1 : Pl(i) = Pl(j) => i = j
<1> DEFINE p == e.img
           w == e.whichptr
           n == Rows!Group(p, c) * Rows!Groups(p)
           H == Rows!Height(p, c)
           Pl(i) == Rows!Place(e, w, c, i)
<1>1. CASE Rows!Context(p)
  <2>1. \A i \in 0 .. n - 1 : Pl(i) = Turn(p, c, w, i)
    BY <1>1 DEF ListsRight, ListRight, Rows!Place
  <2>2. /\ n \in Nat /\ H \in Nat /\ H <= n
        /\ \A i \in 0 .. n - 1 : Turn(p, c, w, i) \in 0 .. n - 1
        /\ \A i, j \in 0 .. n - 1 : Turn(p, c, w, i) = Turn(p, c, w, j) => i = j
    <3> DEFINE g == Rows!Group(p, c)
    <3>1. /\ g \in Nat \ {0} /\ n = H + 2 * g /\ n \in Nat /\ H \in Nat
          /\ \A i \in 0 .. n - 1 : Turn(p, c, w, i) \in 0 .. n - 1
          /\ \A i, j \in 0 .. n - 1 : Turn(p, c, w, i) = Turn(p, c, w, j) => i = j
      BY <1>1, TurnIs
    <3> HIDE DEF g, n, H
    <3>. QED
      BY <3>1
  <2> HIDE DEF n, H, Pl, p, w
  <2>. QED
    BY <2>1, <2>2 DEF n, H, Pl, p, w
<1>2. CASE ~Rows!Context(p)
  <2>1. \A i : Pl(i) = i
    BY <1>2 DEF Rows!Place
  <2>2. n = H /\ n \in Nat
    BY <1>2, ComponentSizes DEF Rows!Groups
  <2> HIDE DEF n, H, Pl, p, w
  <2>. QED
    BY <2>1, <2>2 DEF n, H, Pl, p, w
<1>. QED
  BY <1>1, <1>2

\* An iMCU row comes into the workspace: its rows are in their places, whatever is in the
\* other places stays.
Incoming(e, c) ==
    IF e.imcu < Rows!TotalRows(e.img) - 1 THEN Rows!Height(e.img, c)
    ELSE Rows!LastBlocks(e.img, c) * Rows!Scaled(e.img, c)

LEMMA DecodedIs ==
    ASSUME NEW e, e.img \in Images, e.whichptr \in 0 .. 1, NEW c \in DOMAIN e.img.v,
           Rows!Context(e.img) => ListsRight(e), e.imcu \in Nat
    PROVE  LET n == Rows!Group(e.img, c) * Rows!Groups(e.img)
               H == Rows!Height(e.img, c)
               Pl(i) == Rows!Place(e, e.whichptr, c, i)
               m == Rows!Decoded(e)[c]
           IN  /\ Incoming(e, c) \in 1 .. H
               /\ \A i \in 0 .. Incoming(e, c) - 1 : m[Pl(i)] = e.imcu * H + i
               /\ \A i \in H .. n - 1 : m[Pl(i)] = e.mem[c][Pl(i)]
<1> DEFINE p == e.img
           w == e.whichptr
           n == Rows!Group(p, c) * Rows!Groups(p)
           H == Rows!Height(p, c)
           I == Incoming(e, c)
           Pl(i) == Rows!Place(e, w, c, i)
           m == Rows!Decoded(e)[c]
           To(k) == {i \in 0 .. I - 1 : Pl(i) = k}
<1>1. /\ n \in Nat /\ H <= n /\ H \in Nat \ {0}
      /\ \A i \in 0 .. n - 1 : Pl(i) \in 0 .. n - 1
      /\ \A i, j \in 0 .. n - 1 : Pl(i) = Pl(j) => i = j
  <2>1. H \in Nat \ {0}
    BY ComponentSizes
  <2> HIDE DEF H
  <2>. QED
    BY <2>1, PlacesApart DEF H
<1>2. I \in 1 .. H
  <2>1. Rows!LastBlocks(p, c) * Rows!Scaled(p, c) \in Rows!RowsLeft(p, c) .. H
        /\ Rows!RowsLeft(p, c) \in 1 .. H
    BY PictureSizes
  <2> DEFINE lb == Rows!LastBlocks(p, c) * Rows!Scaled(p, c)
             rl == Rows!RowsLeft(p, c)
  <2>2. I = IF e.imcu < Rows!TotalRows(p) - 1 THEN H ELSE lb
    BY DEF Incoming
  <2> HIDE DEF lb, rl, H, I
  <2>3. lb \in 1 .. H
    BY <1>1, <2>1 DEF lb, rl
  <2>. QED
    BY <1>1, <2>2, <2>3
<1>3. m = [k \in 0 .. n - 1 |-> IF To(k) = {} THEN e.mem[c][k] ELSE e.imcu * H + Rows!Max(To(k))]
  BY DEF Rows!Decoded, Rows!Places, Incoming
<1> HIDE DEF I, H, n, Pl, m
<1>4. ASSUME NEW i \in 0 .. I - 1 PROVE m[Pl(i)] = e.imcu * H + i
  <2>0. i \in 0 .. n - 1 /\ \A j \in 0 .. I - 1 : j \in 0 .. n - 1
    BY <1>1, <1>2
  <2>1. To(Pl(i)) = {i}
    BY <1>1, <2>0
  <2>2. Rows!Max({i}) = i
    <3>1. \E x \in {i} : \A y \in {i} : x >= y
      OBVIOUS
    <3>. QED
      BY <3>1 DEF Rows!Max
  <2>3. Pl(i) \in 0 .. n - 1
    BY <1>1, <2>0
  <2> HIDE DEF To
  <2>. QED
    BY <1>3, <2>1, <2>2, <2>3
<1>5. ASSUME NEW i \in H .. n - 1 PROVE m[Pl(i)] = e.mem[c][Pl(i)]
  <2>0. i \in 0 .. n - 1 /\ \A j \in 0 .. I - 1 : j \in 0 .. n - 1 /\ j # i
    BY <1>1, <1>2
  <2>1. To(Pl(i)) = {}
    BY <1>1, <2>0
  <2>3. Pl(i) \in 0 .. n - 1
    BY <1>1, <2>0
  <2> HIDE DEF To
  <2>. QED
    BY <1>3, <2>1, <2>3
<1>. QED
  BY <1>2, <1>4, <1>5 DEF I, H, n, Pl, m, w, p

\* The workspace after a call to decompress_data, whether it came to its end or not.
LEMMA FilledIs ==
    ASSUME NEW e, e.img \in Images, e.whichptr \in 0 .. 1, Rows!Context(e.img) => ListsRight(e),
           e.imcu \in Nat, e.imcu < Rows!TotalRows(e.img), ~e.full,
           NEW f, f.img = e.img, f.xbuf = e.xbuf, f.whichptr = e.whichptr, f.mem = Rows!Decoded(e),
           f.imcu = e.imcu + 1, f.full
    PROVE  RowsThere(f)
<1> SUFFICES ASSUME NEW c \in DOMAIN f.img.v, NEW i \in 0 .. LastPlace(f, c)
             PROVE  RowIs(f, c, i, Current(f) * Rows!Height(f.img, c) + i)
  BY DEF RowsThere
<1> DEFINE p == e.img
           H == Rows!Height(p, c)
           T == Rows!TotalRows(p)
           rl == Rows!RowsLeft(p, c)
           lb == Rows!LastBlocks(p, c) * Rows!Scaled(p, c)
           I == Incoming(e, c)
           Pl(j) == Rows!Place(e, e.whichptr, c, j)
<1>1. T \in Nat \ {0} /\ rl \in 1 .. H /\ lb \in rl .. H /\ H \in Nat \ {0}
  BY PictureSizes, ComponentSizes
<1>2. I = IF e.imcu < T - 1 THEN H ELSE lb
  BY DEF Incoming
<1>3. LastPlace(f, c) = IF e.imcu + 1 = T THEN rl - 1 ELSE H - 1
  BY DEF LastPlace, AtBottom
<1>4. \A j \in 0 .. I - 1 : Rows!Decoded(e)[c][Pl(j)] = e.imcu * H + j
  <2> HIDE DEF H, I
  <2>. QED
    BY DecodedIs DEF H, I
<1>5. i \in 0 .. I - 1
  <2> DEFINE l == LastPlace(f, c)
             k == e.imcu
  <2>1. i \in 0 .. l /\ k \in Nat /\ k < T
    OBVIOUS
  <2>2. l = IF k + 1 = T THEN rl - 1 ELSE H - 1
    BY <1>3
  <2>3. I = IF k < T - 1 THEN H ELSE lb
    BY <1>2
  <2> HIDE DEF l, k, T, rl, lb, H, I
  <2>4. CASE k + 1 = T
    BY <1>1, <2>1, <2>2, <2>3, <2>4
  <2>5. CASE k + 1 # T
    BY <1>1, <2>1, <2>2, <2>3, <2>5
  <2>. QED
    BY <2>4, <2>5
<1>6. Rows!Row(f, f.whichptr, c, i) = Rows!Decoded(e)[c][Pl(i)]
  BY DEF Rows!Row, Rows!Place
<1>7. Current(f) = e.imcu
  BY DEF Current
<1>. QED
  BY <1>4, <1>5, <1>6, <1>7 DEF RowIs

LEMMA BeforeStays ==
    ASSUME NEW e, e.img \in Images, e.whichptr \in 0 .. 1, Rows!Context(e.img), ListsRight(e),
           e.imcu \in Nat, RowsBefore(e), ~e.full,
           NEW f, f.img = e.img, f.xbuf = e.xbuf, f.whichptr = e.whichptr,
           f.mem \in {e.mem, Rows!Decoded(e)}, Current(f) = Current(e)
    PROVE  RowsBefore(f)
<1> SUFFICES ASSUME NEW c \in DOMAIN e.img.v, NEW i \in 1 .. 2 * Rows!Group(e.img, c)
             PROVE  RowIs(f, c, Rows!Group(e.img, c) * Rows!Groups(e.img) - i,
                          Current(e) * Rows!Height(e.img, c) - i)
  BY DEF RowsBefore
<1> DEFINE p == e.img
           w == e.whichptr
           g == Rows!Group(p, c)
           n == g * Rows!Groups(p)
           H == Rows!Height(p, c)
           Pl(j) == Rows!Place(e, w, c, j)
           m == Rows!Decoded(e)[c]
<1>1. n - i \in H .. n - 1
  <2>1. g \in Nat \ {0} /\ n = H + 2 * g /\ n \in Nat /\ H \in Nat
    BY TurnIs
  <2>2. i \in 1 .. 2 * g
    OBVIOUS
  <2> HIDE DEF g, n, H
  <2>. QED
    BY <2>1, <2>2
<1>2. \A j \in H .. n - 1 : m[Pl(j)] = e.mem[c][Pl(j)]
  <2> HIDE DEF H, n, m
  <2>. QED
    BY DecodedIs DEF H, n, m
<1>3. Rows!Row(e, w, c, n - i) = Current(e) * H - i
  BY DEF RowsBefore, RowIs
<1>4. Rows!Row(f, f.whichptr, c, n - i) = f.mem[c][Pl(n - i)]
      /\ Rows!Row(e, w, c, n - i) = e.mem[c][Pl(n - i)]
  BY DEF Rows!Row, Rows!Place
<1>5. f.mem[c][Pl(n - i)] = e.mem[c][Pl(n - i)]
  <2> HIDE DEF n, H, Pl, m
  <2>1. m[Pl(n - i)] = e.mem[c][Pl(n - i)]
    BY <1>1, <1>2
  <2>. QED
    BY <2>1 DEF m
<1> HIDE DEF n, H, Pl
<1>6. Rows!Row(f, f.whichptr, c, n - i) = Current(e) * H - i
  BY <1>3, <1>4, <1>5
<1>. QED
  BY <1>6 DEF RowIs, n, H, g, p
-----------------------------------------------------------------------------
(***************************************************************************)
(* Row groups.                                                             *)
(***************************************************************************)
\* A row group of the iMCU row that is there, but the last where there is another iMCU row
\* to come and rows below are needed.
LEMMA GroupOfRows ==
    ASSUME NEW e, e.img \in Images, e.full, e.imcu \in 1 .. Rows!TotalRows(e.img), e.ctr \in Nat,
           RowsThere(e), AtBottom(e) \/ e.ctr < e.img.M - 1 \/ (e.ctr < e.img.M /\ ~Rows!Context(e.img)),
           Rows!Context(e.img) => RowAbove(e) /\ RowBelow(e)
    PROVE  GroupIs(e, Current(e) * e.img.M + e.ctr)
<1> DEFINE p == e.img
           V == Rows!MaxV(p)
           M == p.M
           k == Current(e)
           t == e.ctr
           n == k * M + t
           T == Rows!TotalRows(p)
<1>1. k = e.imcu - 1 /\ k \in Nat /\ k + 1 <= T /\ (AtBottom(e) <=> k + 1 = T) /\ T \in Nat
  BY Sizes DEF Current, AtBottom
<1>2. M \in Nat \ {0} /\ t \in Nat
  BY Sizes
<1> SUFFICES ASSUME NEW c \in DOMAIN p.v, NEW r \in 0 .. V - 1, n * V + r < Rows!Lines(p),
                    NEW j \in DOMAIN Rows!Reads(p, c, r)
             PROVE  RowIs(e, c, t * Rows!Group(p, c) + Rows!Reads(p, c, r)[j],
                          Rows!Near(p, c, n * Rows!Group(p, c) + Rows!Reads(p, c, r)[j]))
  BY DEF GroupIs
<1> DEFINE g == Rows!Group(p, c)
           H == Rows!Height(p, c)
           R == Rows!Rows(p, c)
           rl == Rows!RowsLeft(p, c)
           q == (r * g) \div V
           x == Rows!Reads(p, c, r)[j]
           i == t * g + x
           l == LastPlace(e, c)
<1> HIDE DEF M, k, t, T
<1>3. g \in Nat \ {0} /\ H = g * M /\ H \in Nat \ {0}
  BY ComponentSizes DEF M
<1>4. q \in 0 .. g - 1 /\ x \in q - 1 .. q + 1 /\ (~Rows!Context(p) => x = q)
  <2>1. ~Rows!Context(p) => ~Rows!Fancy(p, c)
    BY DEF Rows!Context
  <2>2. q \in 0 .. g - 1
    BY ReadsAre
  <2>3. x \in q - 1 .. q + 1 /\ (~Rows!Fancy(p, c) => x = q)
    BY ReadIsNear
  <2>. QED
    BY <2>1, <2>2, <2>3
<1>5. n \in Nat /\ n * g + q < R
  <2>1. n \in Nat
    BY <1>1, <1>2
  <2> HIDE DEF n
  <2>. QED
    BY <2>1, LineHasRow DEF q, g, V, R
<1>6. /\ R \in Nat \ {0} /\ (T - 1) * H < R /\ rl = R - (T - 1) * H /\ rl \in 1 .. H
  BY PictureSizes DEF T
<1>7. l = IF k + 1 = T THEN rl - 1 ELSE H - 1
  BY <1>1 DEF LastPlace
<1>8. n * g = k * H + t * g /\ k * H \in Nat /\ t * g \in Nat
  <2>1. n * g = (k * M) * g + t * g
    <3>1. k * M \in Int
      BY <1>1, <1>2
    <3>. QED
      BY <1>2, <1>3, <3>1, ProductLaws
  <2>2. (k * M) * g = k * (M * g) /\ M * g = g * M
    BY <1>1, <1>2, <1>3, ProductLaws
  <2>. QED
    BY <1>1, <1>2, <1>3, <2>1, <2>2
<1>9. i \in Int /\ n * g + x = k * H + i /\ i >= -1 /\ (i = -1 => Rows!Context(p))
  <2> DEFINE a == n * g
             b == k * H
             s == t * g
  <2>1. a = b + s /\ b \in Nat /\ s \in Nat /\ i = s + x
    BY <1>8
  <2> HIDE DEF a, b, s, q, g, i, x
  <2>2. x \in Int /\ x >= -1 /\ (x = -1 => Rows!Context(p))
    BY <1>3, <1>4
  <2>3. i \in Int /\ a + x = b + i /\ i >= -1 /\ (i = -1 => x = -1)
    BY <2>1, <2>2
  <2>. QED
    BY <2>2, <2>3 DEF a, b
\* Above the bottom the rows that are read are those of this iMCU row.
<1>10. CASE k + 1 # T
  <2>1. t * g + g <= H - 1 \/ (~Rows!Context(p) /\ t * g + g <= H)
    <3>1. t + 1 <= M - 1 \/ (~Rows!Context(p) /\ t + 1 <= M)
      BY <1>1, <1>2, <1>10 DEF t, M
    <3>2. (t + 1) * g = t * g + g /\ (M - 1) * g = H - g
      BY <1>2, <1>3, ProductLaws
    <3>3. t + 1 <= M - 1 => (t + 1) * g <= (M - 1) * g
      BY <1>2, <1>3, ProductOrder
    <3>4. t + 1 <= M => (t + 1) * g <= M * g
      BY <1>2, <1>3, ProductOrder
    <3>5. M * g = H
      BY <1>2, <1>3
    <3> HIDE DEF H, g
    <3>. QED
      BY <1>3, <1>8, <3>1, <3>2, <3>3, <3>4, <3>5
  <2>2. i <= H - 1
    <3> DEFINE s == t * g
    <3> HIDE DEF s, g, H, q, x
    <3>1. i = s + x /\ s \in Nat
      BY <1>8 DEF s
    <3>2. s + g <= H - 1 \/ (~Rows!Context(p) /\ s + g <= H)
      BY <2>1 DEF s
    <3> HIDE DEF i
    <3>. QED
      BY <1>3, <1>4, <3>1, <3>2
  <2>3. (k + 1) * H <= (T - 1) * H /\ (k + 1) * H = k * H + H
    <3>1. k + 1 <= T - 1
      BY <1>1, <1>10
    <3>2. (k + 1) * H = k * H + H
      <4>1. (k + 1) * H = k * H + 1 * H
        BY <1>1, <1>3, ProductLaws
      <4>. QED
        BY <1>3, <4>1
    <3>. QED
      BY <1>1, <1>3, <3>1, <3>2, ProductOrder
  <2>4. k * H + i < R
    <3> DEFINE b == k * H
               d1 == (T - 1) * H
    <3>1. b + H <= d1 /\ d1 < R /\ b \in Nat /\ d1 \in Int
      BY <1>1, <1>3, <1>6, <1>8, <2>3
    <3> HIDE DEF b, d1, i, H, R
    <3>. QED
      BY <1>3, <1>6, <1>9, <2>2, <3>1 DEF b
  <2>5. CASE i = -1
    <3>1. RowIs(e, c, -1, Rows!Near(p, c, k * H - 1))
      BY <1>9, <2>5 DEF RowAbove, k
    <3>2. n * g + x = k * H - 1
      BY <1>8, <1>9, <2>5
    <3> HIDE DEF n, g, x, H, p
    <3>. QED
      BY <2>5, <3>1, <3>2 DEF i, g, x, p
  <2>6. CASE i # -1
    <3>1. i \in 0 .. l
      <4> HIDE DEF i, l, H
      <4>. QED
        BY <1>3, <1>7, <1>9, <1>10, <2>2, <2>6
    <3>2. RowIs(e, c, i, k * H + i)
      BY <3>1 DEF RowsThere, k
    <3>3. Rows!Near(p, c, k * H + i) = k * H + i
      <4> DEFINE y == k * H + i
      <4>1. y \in Int /\ ~(y < 0) /\ y < R
        BY <1>8, <1>9, <2>4, <3>1
      <4> HIDE DEF y
      <4>2. Rows!Near(p, c, y) = y
        BY <4>1, NearIs DEF R
      <4>. QED
        BY <4>2 DEF y
    <3> HIDE DEF n, g, x, H, p
    <3>. QED
      BY <1>9, <3>2, <3>3 DEF i, g, x, p
  <2>. QED
    BY <2>5, <2>6
\* At the bottom there is one row more to be read, below the last.
<1>11. CASE k + 1 = T
  <2>1. k * H + rl = R
    <3> DEFINE b == k * H
    <3>1. T - 1 = k
      BY <1>1, <1>11
    <3>2. rl = R - b /\ b \in Nat
      BY <1>6, <1>8, <3>1
    <3> HIDE DEF b, rl, R
    <3>. QED
      BY <1>6, <3>2 DEF b
  <2>2. i <= rl /\ (~Rows!Context(p) => i < rl)
    <3> DEFINE a == n * g
               b == k * H
    <3>1. a + q < R /\ a + x = b + i /\ b + rl = R /\ b \in Nat /\ a \in Nat /\ rl \in Int
      BY <1>1, <1>3, <1>5, <1>6, <1>8, <1>9, <2>1
    <3> HIDE DEF a, b, q, x, i, R, rl, g
    <3>. QED
      BY <1>3, <1>4, <1>6, <1>9, <3>1
  <2>3. CASE i = -1
    <3>1. RowIs(e, c, -1, Rows!Near(p, c, k * H - 1))
      BY <1>9, <2>3 DEF RowAbove, k
    <3>2. n * g + x = k * H - 1
      BY <1>8, <1>9, <2>3
    <3> HIDE DEF n, g, x, H, p
    <3>. QED
      BY <2>3, <3>1, <3>2 DEF i, g, x, p
  <2>4. CASE i # -1 /\ i < rl
    <3>1. i \in 0 .. l
      <4> HIDE DEF i, l, H, rl
      <4>. QED
        BY <1>6, <1>7, <1>9, <1>11, <2>4
    <3>2. RowIs(e, c, i, k * H + i)
      BY <3>1 DEF RowsThere, k
    <3>3. Rows!Near(p, c, k * H + i) = k * H + i
      <4> DEFINE y == k * H + i
      <4>1. y \in Int /\ ~(y < 0) /\ y < R
        <5> DEFINE b == k * H
        <5>1. b \in Nat /\ b + rl = R
          BY <1>8, <2>1
        <5> HIDE DEF b, i, rl, R
        <5>2. b + i \in Int /\ ~(b + i < 0) /\ b + i < R
          BY <1>6, <1>9, <2>4, <5>1
        <5>. QED
          BY <5>2 DEF b
      <4> HIDE DEF y
      <4>2. Rows!Near(p, c, y) = y
        BY <4>1, NearIs DEF R
      <4>. QED
        BY <4>2 DEF y
    <3> HIDE DEF n, g, x, H, p
    <3>. QED
      BY <1>9, <3>2, <3>3 DEF i, g, x, p
  <2>5. CASE i = rl
    <3>1. Rows!Context(p)
      <4> HIDE DEF i, rl
      <4>. QED
        BY <1>6, <2>2, <2>5
    <3>2. RowIs(e, c, rl, R - 1)
      BY <1>1, <1>11, <3>1 DEF RowBelow
    <3>3. Rows!Near(p, c, k * H + i) = R - 1
      <4>1. Rows!Near(p, c, R) = R - 1
        <5>1. R \in Int /\ ~(R < 0) /\ ~(R < R)
          BY <1>6
        <5>. QED
          BY <5>1, NearIs DEF R
      <4>. QED
        BY <2>1, <2>5, <4>1
    <3> HIDE DEF n, g, x, H, p, R, rl
    <3>4. RowIs(e, c, i, R - 1)
      BY <2>5, <3>2
    <3>. QED
      BY <1>9, <3>3, <3>4 DEF i, g, x, p
  <2>. QED
    <3> HIDE DEF i, rl
    <3>. QED
      BY <1>6, <1>9, <2>2, <2>3, <2>4, <2>5
<1>. QED
  BY <1>10, <1>11

\* The last row group of the iMCU row before, once this one is there.
LEMMA GroupThatWaited ==
    ASSUME NEW e, e.img \in Images, Rows!Context(e.img), e.full, e.imcu \in 2 .. Rows!TotalRows(e.img),
           e.ctr = e.img.M + 1, ListsRight(e), e.whichptr \in 0 .. 1, RowsBefore(e), RowsThere(e)
    PROVE  Current(e) * e.img.M - 1 \in Nat /\ GroupIs(e, Current(e) * e.img.M - 1)
<1> DEFINE p == e.img
           V == Rows!MaxV(p)
           M == p.M
           k == Current(e)
           n == k * M - 1
           T == Rows!TotalRows(p)
           w == e.whichptr
<1>1. k = e.imcu - 1 /\ k \in Nat \ {0} /\ k <= T - 1 /\ T \in Nat
  BY Sizes DEF Current
<1>2. M \in Nat \ {0} /\ Rows!Groups(p) = M + 2
  BY Sizes, GroupsAre
<1>3. n \in Nat
  BY <1>1, <1>2
<1> SUFFICES ASSUME NEW c \in DOMAIN p.v, NEW r \in 0 .. V - 1,
                    NEW j \in DOMAIN Rows!Reads(p, c, r)
             PROVE  RowIs(e, c, e.ctr * Rows!Group(p, c) + Rows!Reads(p, c, r)[j],
                          Rows!Near(p, c, n * Rows!Group(p, c) + Rows!Reads(p, c, r)[j]))
  BY <1>3 DEF GroupIs
<1> DEFINE g == Rows!Group(p, c)
           H == Rows!Height(p, c)
           R == Rows!Rows(p, c)
           q == (r * g) \div V
           x == Rows!Reads(p, c, r)[j]
           N == g * Rows!Groups(p)
           u == g - x
           i == e.ctr * g + x
           l == LastPlace(e, c)
<1>4. g \in Nat \ {0} /\ H = g * M /\ H \in Nat \ {0} /\ N = H + 2 * g /\ H >= 2 * g
  <2>1. g \in Nat \ {0} /\ H = g * M /\ H \in Nat \ {0}
    BY ComponentSizes
  <2>2. N = H + 2 * g /\ H >= 2 * g
    BY TurnIs
  <2>. QED
    BY <2>1, <2>2
<1>5. x \in -1 .. g
  <2>1. q \in 0 .. g - 1
    BY ReadsAre
  <2>2. x \in q - 1 .. q + 1
    BY ReadIsNear
  <2> HIDE DEF q, x, g
  <2>. QED
    BY <1>4, <2>1, <2>2
<1>6. R \in Nat \ {0} /\ (T - 1) * H < R /\ l \in 0 .. H - 1
  <2>1. R \in Nat \ {0} /\ (T - 1) * H < R /\ Rows!RowsLeft(p, c) \in 1 .. H
    BY PictureSizes
  <2>2. l \in {Rows!RowsLeft(p, c) - 1, H - 1}
    BY DEF LastPlace
  <2> DEFINE rl == Rows!RowsLeft(p, c)
  <2> HIDE DEF l, rl, H
  <2>3. l \in 0 .. H - 1
    BY <1>4, <2>1, <2>2 DEF rl
  <2>. QED
    BY <2>1, <2>3
<1>7. k * H \in Nat /\ k * H >= H /\ k * H < R
  <2> HIDE DEF H, k, T, R
  <2>1. k * H <= (T - 1) * H /\ 1 * H <= k * H
    BY <1>1, <1>4, ProductOrder
  <2>2. k * H \in Int /\ (T - 1) * H \in Int
    BY <1>1, <1>4, ProductLaws
  <2>. QED
    BY <1>4, <1>6, <2>1, <2>2
<1>8. n * g = k * H - g /\ i = N - u
  <2> DEFINE t == e.ctr
  <2>0. t = M + 1
    OBVIOUS
  <2> HIDE DEF k, M, g, H, t, x
  <2>1. n * g = (k * M) * g - 1 * g /\ (k * M) * g = k * (M * g) /\ M * g = g * M
    <3>1. k * M \in Int
      BY <1>1, <1>2
    <3>. QED
      BY <1>1, <1>2, <1>4, <3>1, ProductLaws
  <2>2. t * g = M * g + 1 * g
    BY <1>2, <1>4, <2>0, ProductLaws
  <2>3. t * g = N - g
    BY <1>4, <2>1, <2>2
  <2>4. i = N - u
    BY <1>4, <1>5, <2>3 DEF t
  <2>. QED
    BY <1>4, <2>1, <2>4
<1> DEFINE y == k * H - u
<1>9. n * g + x = y /\ y \in Int /\ u \in 0 .. g + 1
  <2> DEFINE b == k * H
             a == n * g
  <2>1. a = b - g /\ b \in Nat
    BY <1>7, <1>8
  <2> HIDE DEF a, b, g, x
  <2>2. a + x = b - (g - x) /\ b - (g - x) \in Int /\ g - x \in 0 .. g + 1
    BY <1>4, <1>5, <2>1
  <2>. QED
    BY <2>2 DEF a, b
<1>10. Rows!Near(p, c, y) = y
  <2> DEFINE b == k * H
  <2>1. ~(y < 0) /\ y < R
    <3>1. b \in Nat /\ b >= H /\ b < R
      BY <1>7
    <3>2. y = b - u
      OBVIOUS
    <3> HIDE DEF b, u, H, g, R, y
    <3>. QED
      BY <1>4, <1>6, <1>9, <3>1, <3>2
  <2> HIDE DEF y
  <2>. QED
    BY <1>9, <2>1, NearIs DEF R
<1>11. Rows!Row(e, w, c, N - u) = y
  <2>1. CASE u # 0
    <3>1. u \in 1 .. 2 * g
      <4> HIDE DEF u, g
      <4>. QED
        BY <1>4, <1>9, <2>1
    <3> HIDE DEF u
    <3>. QED
      BY <3>1 DEF RowsBefore, RowIs
  <2>2. CASE u = 0
    <3>1. e.xbuf[w][c][N + 1 - 1] = e.xbuf[w][c][1 - 1]
      <4>1. ListRight(e, w, c) /\ GoAround(e)
        BY DEF ListsRight, GoAround
      <4>2. 1 \in 1 .. g
        BY <1>4
      <4>. QED
        BY <4>1, <4>2 DEF ListRight
    <3>2. N + 1 - 1 = N /\ 1 - 1 = 0 /\ N - u = N /\ y = k * H + 0
      <4> DEFINE b == k * H
      <4>1. b \in Nat
        BY <1>7
      <4> HIDE DEF b, N, u, H, g
      <4>2. N + 1 - 1 = N /\ 1 - 1 = 0 /\ N - u = N /\ b - u = b + 0
        BY <1>4, <2>2, <4>1
      <4>. QED
        BY <4>2 DEF b
    <3>3. Rows!Row(e, w, c, 0) = k * H + 0
      <4>1. 0 \in 0 .. l
        BY <1>6
      <4>. QED
        BY <4>1 DEF RowsThere, RowIs
    <3>4. Rows!Row(e, w, c, N) = Rows!Row(e, w, c, 0)
      <4> HIDE DEF N
      <4>. QED
        BY <3>1, <3>2 DEF Rows!Row, Rows!Place
    <3> HIDE DEF N, u, y
    <3>. QED
      BY <3>2, <3>3, <3>4
  <2>. QED
    BY <2>1, <2>2
<1> HIDE DEF N, u, y, n, g, x
<1>12. RowIs(e, c, i, Rows!Near(p, c, n * g + x))
  BY <1>8, <1>9, <1>10, <1>11 DEF RowIs
<1>. QED
  BY <1>3, <1>12 DEF i, g, x
-----------------------------------------------------------------------------
(***************************************************************************)
(* Where a pass stands.                                                    *)
(***************************************************************************)
\* The row group of the picture that is next.
GroupNo(e) ==
    IF ~Rows!Context(e.img) THEN Current(e) * e.img.M + e.ctr
    ELSE CASE e.state = "prepare" -> Current(e) * e.img.M
           [] e.state = "process" -> Current(e) * e.img.M + e.ctr
           [] e.state = "postponed" -> Current(e) * e.img.M - 1

\* The row groups of the workspace that go to the upsampler before the next iMCU row.
Available(e) ==
    IF AtBottom(e) THEN (Rows!RowsLeft(e.img, 1) - 1) \div Rows!Group(e.img, 1) + 1
    ELSE e.img.M - 1

\* The three states of the main controller for context rows, and the one without.
SimpleRight(e) ==
    /\ e.full => e.imcu > 0 /\ e.ctr < e.img.M /\ RowsThere(e)
    /\ ~e.full => e.ctr = 0 /\ LinesOut(e) = 0
PrepareRight(e) ==
    /\ LinesOut(e) = 0 /\ ListsRight(e)
    /\ ~e.full => e.imcu = 0 /\ e.whichptr = 0
    /\ e.full => e.imcu > 0 /\ RowsThere(e) /\ RowAbove(e)
ProcessRight(e) ==
    /\ e.full /\ e.imcu > 0 /\ e.avail = Available(e) /\ e.ctr < e.avail
    /\ RowsThere(e) /\ RowAbove(e) /\ RowBelow(e)
    /\ AtBottom(e) \/ ListsRight(e)
PostponedRight(e) ==
    /\ e.imcu > 0 /\ e.ctr = e.img.M + 1 /\ e.avail = e.img.M + 2
    /\ ListsRight(e) /\ RowsBefore(e)
    /\ e.full => e.imcu > 1 /\ RowsThere(e)
    /\ ~e.full => LinesOut(e) = 0 /\ ~AtBottom(e)
ModeRight(e) ==
    IF ~Rows!Context(e.img) THEN SimpleRight(e)
    ELSE /\ e.state = "prepare" => PrepareRight(e)
         /\ e.state = "process" => ProcessRight(e)
         /\ e.state = "postponed" => PostponedRight(e)

AtWork(e) ==
    /\ e.whichptr \in 0 .. 1 /\ ModeRight(e)
    /\ LinesDone(e) = GroupNo(e) * Rows!MaxV(e.img) + LinesOut(e)
    /\ OwedIs(e, GroupNo(e))
PictureRight(e) == Buffered(e) /\ (e.togo > 0 => AtWork(e))

CallRight(e, max) == InCall(e, max) /\ Told(e) /\ PictureRight(e)

\* What is the same in the workspace and the lists of two states.
Alike(e, f) == f.img = e.img /\ f.mem = e.mem /\ f.xbuf = e.xbuf /\ f.whichptr = e.whichptr

LEMMA AlikeRows ==
    ASSUME NEW e, NEW f, Alike(e, f)
    PROVE  /\ \A c, i, row : RowIs(f, c, i, row) <=> RowIs(e, c, i, row)
           /\ (GoAround(f) <=> GoAround(e)) => (ListsRight(f) <=> ListsRight(e))
           /\ Current(f) = Current(e) => /\ RowAbove(f) <=> RowAbove(e)
                                         /\ RowsBefore(f) <=> RowsBefore(e)
           /\ f.imcu = e.imcu /\ Current(f) = Current(e) =>
                 (RowsThere(f) <=> RowsThere(e)) /\ (RowBelow(f) <=> RowBelow(e))
<1>1. \A c, i, row : RowIs(f, c, i, row) <=> RowIs(e, c, i, row)
  BY DEF Alike, RowIs, Rows!Row, Rows!Place
<1>2. ASSUME GoAround(f) <=> GoAround(e) PROVE ListsRight(f) <=> ListsRight(e)
  <2>1. \A w, c : ListRight(f, w, c) <=> ListRight(e, w, c)
    BY <1>2 DEF ListRight, Alike
  <2>. QED
    BY <2>1 DEF ListsRight, Alike
<1>3. ASSUME Current(f) = Current(e)
      PROVE (RowAbove(f) <=> RowAbove(e)) /\ (RowsBefore(f) <=> RowsBefore(e))
  BY <1>1, <1>3 DEF RowAbove, RowsBefore, Alike
<1>4. ASSUME f.imcu = e.imcu, Current(f) = Current(e)
      PROVE (RowsThere(f) <=> RowsThere(e)) /\ (RowBelow(f) <=> RowBelow(e))
  BY <1>1, <1>4 DEF RowsThere, RowBelow, LastPlace, AtBottom, Alike
<1>. QED
  BY <1>1, <1>2, <1>3, <1>4

\* What is in the conversion buffer, and in the spare row, is not touched.
LEMMA OwedStays ==
    ASSUME NEW e, NEW f, f.img = e.img, f.spare = e.spare, f.next_row_out = e.next_row_out,
           f.color = e.color, LinesOut(e) # 0 => f.mem = e.mem /\ f.xbuf = e.xbuf,
           NEW n, OwedIs(e, n)
    PROVE  LinesOut(f) = LinesOut(e) /\ OwedIs(f, n)
<1>1. LinesOut(f) = LinesOut(e)
  BY DEF LinesOut
<1>2. ASSUME LinesOut(e) # 0 PROVE \A r : Rows!Line(f, r) = Rows!Line(e, r)
  BY <1>2 DEF Rows!Line, Rows!Row, Rows!Place
<1>. QED
  BY <1>1, <1>2 DEF OwedIs

LEMMA FilledHas ==
    ASSUME NEW e, DOMAIN e = RowFields
    PROVE  LET f == Rows!Filled(e)
           IN  /\ f.mem = Rows!Decoded(e) /\ f.imcu = e.imcu + 1 /\ f.full
               /\ \A x \in RowFields \ {"mem", "imcu", "full", "icount"} : f[x] = e[x]
<1> DEFINE m == Rows!Decoded(e)
           i == e.imcu + 1
           j == e.icount + 1
           yes == TRUE
           g == [e EXCEPT !.mem = m, !.imcu = i, !.full = yes, !.icount = j]
<1>1. Rows!Filled(e) = g
  BY DEF Rows!Filled
<1> HIDE DEF m, i, j
<1>2. /\ g.mem = m /\ g.imcu = i /\ g.full = yes
      /\ \A x \in RowFields \ {"mem", "imcu", "full", "icount"} : g[x] = e[x]
  BY DEF RowFields
<1>. QED
  BY <1>1, <1>2 DEF m, i

\* decompress_data does its part.
LEMMA FilledKeeps ==
    ASSUME NEW max \in Nat \ {0}, NEW e, CallRight(e, max), Waits(e), ~e.full,
           e.imcu < Rows!TotalRows(e.img), e.lines = <<>>, e.togo > 0
    PROVE  CallRight(Rows!Filled(e), max) /\ Rows!Filled(e).full
<1> DEFINE f == Rows!Filled(e)
           T == Rows!TotalRows(e.img)
<1>1. InCall(e, max) /\ Told(e) /\ Buffered(e) /\ AtWork(e)
  BY DEF CallRight, PictureRight
<1>2. InCall(f, max)
  BY <1>1, FillIs
<1>3. DOMAIN e = RowFields /\ e.img \in Images /\ e.imcu \in Nat /\ e.state \in {"prepare", "process", "postponed"}
  <2>1. T \in Nat
    BY <1>1, Sizes DEF InCall, Counted
  <2>. QED
    BY <1>1, <2>1 DEF InCall, Counted
<1>4. /\ f.mem = Rows!Decoded(e) /\ f.imcu = e.imcu + 1 /\ f.full
      /\ \A x \in RowFields \ {"mem", "imcu", "full", "icount"} : f[x] = e[x]
  BY <1>3, FilledHas
<1>5. /\ f.img = e.img /\ f.xbuf = e.xbuf /\ f.whichptr = e.whichptr /\ f.state = e.state
      /\ f.ctr = e.ctr /\ f.avail = e.avail /\ f.color = e.color /\ f.spare = e.spare
      /\ f.next_row_out = e.next_row_out /\ f.togo = e.togo /\ f.lines = e.lines
      /\ f.scanline = e.scanline
  BY <1>4 DEF RowFields
<1> HIDE DEF f
<1>6. Told(f) /\ Buffered(f)
  BY <1>1, <1>5 DEF Told, Buffered
<1>7. Current(f) = e.imcu /\ Current(e) = e.imcu
  BY <1>3, <1>4 DEF Current
<1>8. LinesDone(f) = LinesDone(e) /\ GroupNo(f) = GroupNo(e)
  BY <1>5, <1>7 DEF LinesDone, GroupNo
<1>9. e.whichptr \in 0 .. 1 /\ ModeRight(e)
  BY <1>1 DEF AtWork
<1>10. Rows!Context(e.img) => ListsRight(e) /\ e.state # "process"
  BY <1>3, <1>9 DEF ModeRight, PrepareRight, ProcessRight, PostponedRight
<1>11. LinesOut(e) = 0
  BY <1>3, <1>9 DEF ModeRight, SimpleRight, PrepareRight, ProcessRight, PostponedRight
<1>12. LinesOut(f) = LinesOut(e) /\ OwedIs(f, GroupNo(f))
  BY <1>1, <1>5, <1>8, <1>11, OwedStays DEF AtWork
<1>13. RowsThere(f)
  BY <1>3, <1>4, <1>5, <1>9, <1>10, FilledIs
<1>14. f.imcu > 0 /\ (e.imcu > 0 => f.imcu > 1)
  BY <1>3, <1>4
<1>15. CASE ~Rows!Context(e.img)
  <2>1. e.ctr = 0 /\ 0 < e.img.M
    BY <1>3, <1>9, <1>15, Sizes DEF ModeRight, SimpleRight
  <2>2. SimpleRight(f)
    BY <1>4, <1>5, <1>13, <1>14, <2>1 DEF SimpleRight
  <2>3. ModeRight(f)
    BY <1>5, <1>15, <2>2 DEF ModeRight
  <2>. QED
    BY <1>1, <1>2, <1>4, <1>5, <1>6, <1>8, <1>9, <1>12, <2>3 DEF CallRight, PictureRight, AtWork, f
<1>16. CASE Rows!Context(e.img) /\ e.state = "prepare"
  <2>1. e.imcu = 0 /\ e.whichptr = 0 /\ ListsRight(e)
    BY <1>9, <1>16 DEF ModeRight, PrepareRight
  <2>2. ~GoAround(e) /\ ~GoAround(f)
    BY <1>4, <1>5, <1>16, <2>1 DEF GoAround
  <2>3. ListsRight(f)
    <3>1. \A w, c : ListRight(f, w, c) <=> ListRight(e, w, c)
      BY <1>5, <2>2 DEF ListRight
    <3>. QED
      BY <1>5, <2>1, <3>1 DEF ListsRight
  <2>4. RowAbove(f)
    <3> SUFFICES ASSUME NEW c \in DOMAIN e.img.v
                 PROVE  RowIs(f, c, -1, Rows!Near(e.img, c, 0 * Rows!Height(e.img, c) - 1))
      BY <1>5, <1>7, <2>1 DEF RowAbove
    <3> DEFINE H == Rows!Height(e.img, c)
               R == Rows!Rows(e.img, c)
               g == Rows!Group(e.img, c)
    <3>1. H \in Nat \ {0} /\ R \in Nat \ {0} /\ Rows!RowsLeft(e.img, c) \in 1 .. H /\ g \in Nat \ {0}
      BY <1>3, ComponentSizes, PictureSizes
    <3>2. Rows!Near(e.img, c, -1) = 0
      BY <1>3, NearIs
    <3>3. f.xbuf[0][c][-1] = 0 /\ f.xbuf[0][c][0] = 0
      <4>1. ListRight(f, 0, c)
        BY <1>5, <2>3 DEF ListsRight
      <4>2. 0 \in 0 .. g * Rows!Groups(e.img) - 1
        <5> DEFINE n == g * Rows!Groups(e.img)
        <5>1. n = H + 2 * g
          BY <1>3, <1>16, TurnIs
        <5> HIDE DEF n, H, g
        <5>2. n - 1 \in Nat
          BY <3>1, <5>1
        <5>. QED
          BY <5>2 DEF n, g
      <4>3. Turn(e.img, c, 0, 0) = 0
        BY DEF Turn
      <4>. QED
        BY <1>5, <2>2, <4>1, <4>2, <4>3 DEF ListRight
    <3>4. Rows!Row(f, 0, c, 0) = 0
      <4>1. 0 \in 0 .. LastPlace(f, c)
        <5>1. LastPlace(f, c) \in {Rows!RowsLeft(e.img, c) - 1, H - 1}
          BY <1>5 DEF LastPlace
        <5> DEFINE rl == Rows!RowsLeft(e.img, c)
        <5> HIDE DEF rl, H
        <5>. QED
          BY <3>1, <5>1 DEF rl
      <4>2. RowIs(f, c, 0, 0 * H + 0)
        BY <1>5, <1>7, <1>13, <2>1, <4>1 DEF RowsThere
      <4>3. 0 * H + 0 = 0
        <5> HIDE DEF H
        <5>. QED
          BY <3>1
      <4>. QED
        BY <1>5, <2>1, <4>2, <4>3 DEF RowIs
    <3>5. Rows!Row(f, 0, c, -1) = Rows!Row(f, 0, c, 0)
      BY <1>5, <1>16, <3>3 DEF Rows!Row, Rows!Place
    <3>6. 0 * H - 1 = -1
      <4> HIDE DEF H
      <4>. QED
        BY <3>1
    <3>. QED
      BY <1>5, <2>1, <3>2, <3>4, <3>5, <3>6 DEF RowIs
  <2>5. PrepareRight(f)
    BY <1>4, <1>11, <1>12, <1>13, <1>14, <2>3, <2>4 DEF PrepareRight
  <2>6. ModeRight(f)
    BY <1>5, <1>16, <2>5 DEF ModeRight
  <2>. QED
    BY <1>1, <1>2, <1>4, <1>5, <1>6, <1>8, <1>9, <1>12, <2>6 DEF CallRight, PictureRight, AtWork, f
<1>17. CASE Rows!Context(e.img) /\ e.state = "postponed"
  <2>1. e.imcu > 0 /\ e.ctr = e.img.M + 1 /\ e.avail = e.img.M + 2 /\ ListsRight(e) /\ RowsBefore(e)
    BY <1>9, <1>17 DEF ModeRight, PostponedRight
  <2>2. GoAround(e) /\ GoAround(f)
    BY <1>3, <1>14, <1>17, <2>1 DEF GoAround
  <2>3. ListsRight(f)
    <3>1. \A w, c : ListRight(f, w, c) <=> ListRight(e, w, c)
      BY <1>5, <2>2 DEF ListRight
    <3>. QED
      BY <1>5, <2>1, <3>1 DEF ListsRight
  <2>4. RowsBefore(f)
    BY <1>3, <1>4, <1>5, <1>7, <1>9, <1>17, <2>1, BeforeStays
  <2>5. PostponedRight(f)
    BY <1>4, <1>5, <1>13, <1>14, <2>1, <2>3, <2>4 DEF PostponedRight
  <2>6. ModeRight(f)
    BY <1>5, <1>17, <2>5 DEF ModeRight
  <2>. QED
    BY <1>1, <1>2, <1>4, <1>5, <1>6, <1>8, <1>9, <1>12, <2>6 DEF CallRight, PictureRight, AtWork, f
<1>. QED
  BY <1>3, <1>10, <1>15, <1>16, <1>17

\* decompress_data comes to the end of the data first.
LEMMA SuspendedKeeps ==
    ASSUME NEW max \in Nat \ {0}, NEW e, CallRight(e, max), Waits(e), ~e.full, e.togo > 0,
           e.ctr <= Rows!Groups(e.img), NEW f \in Rows!Suspended(e)
    PROVE  CallRight(f, max) /\ f.lines = e.lines /\ f.suspended /\ f.img = e.img /\ f.scanline = e.scanline
<1> DEFINE yes == TRUE
<1>1. InCall(e, max) /\ Told(e) /\ Buffered(e) /\ AtWork(e)
  BY DEF CallRight, PictureRight
<1>2. InCall(f, max)
  BY <1>1, SuspendIs DEF Handed
<1>3. DOMAIN e = RowFields /\ e.img \in Images /\ e.imcu \in Nat /\ e.state \in {"prepare", "process", "postponed"}
  <2> DEFINE T == Rows!TotalRows(e.img)
  <2>1. T \in Nat
    BY <1>1, Sizes DEF InCall, Counted
  <2>. QED
    BY <1>1, <2>1 DEF InCall, Counted
<1>4. PICK m \in {e.mem, Rows!Decoded(e)} : f = [e EXCEPT !.suspended = yes, !.mem = m]
  BY DEF Rows!Suspended
<1> HIDE DEF yes
<1>5. /\ f.suspended = yes /\ f.mem = m
      /\ f.img = e.img /\ f.xbuf = e.xbuf /\ f.whichptr = e.whichptr /\ f.state = e.state
      /\ f.ctr = e.ctr /\ f.avail = e.avail /\ f.color = e.color /\ f.spare = e.spare
      /\ f.next_row_out = e.next_row_out /\ f.togo = e.togo /\ f.lines = e.lines
      /\ f.scanline = e.scanline /\ f.full = e.full /\ f.imcu = e.imcu
  BY <1>3, <1>4 DEF RowFields
<1>6. Told(f) /\ Buffered(f)
  BY <1>1, <1>5 DEF Told, Buffered
<1>7. Current(f) = Current(e)
  BY <1>5 DEF Current
<1>8. LinesDone(f) = LinesDone(e) /\ GroupNo(f) = GroupNo(e)
  BY <1>5, <1>7 DEF LinesDone, GroupNo
<1>9. e.whichptr \in 0 .. 1 /\ ModeRight(e)
  BY <1>1 DEF AtWork
<1>10. Rows!Context(e.img) => ListsRight(e) /\ e.state # "process"
  BY <1>3, <1>9 DEF ModeRight, PrepareRight, ProcessRight, PostponedRight
<1>11. LinesOut(e) = 0
  BY <1>3, <1>9 DEF ModeRight, SimpleRight, PrepareRight, ProcessRight, PostponedRight
<1>12. LinesOut(f) = LinesOut(e) /\ OwedIs(f, GroupNo(f))
  BY <1>1, <1>5, <1>8, <1>11, OwedStays DEF AtWork
<1>13. Rows!Context(e.img) => ListsRight(f)
  <2>1. \A w, c : ListRight(f, w, c) <=> ListRight(e, w, c)
    BY <1>5 DEF ListRight, GoAround
  <2>. QED
    BY <1>5, <1>10, <2>1 DEF ListsRight
<1>14. Rows!Context(e.img) /\ e.state = "postponed" => RowsBefore(f)
  <2> SUFFICES ASSUME Rows!Context(e.img), e.state = "postponed" PROVE RowsBefore(f)
    OBVIOUS
  <2>1. RowsBefore(e)
    BY <1>9 DEF ModeRight, PostponedRight
  <2>. QED
    BY <1>3, <1>5, <1>7, <1>9, <1>10, <2>1, BeforeStays
<1>15. ModeRight(f)
  <2>1. CASE ~Rows!Context(e.img)
    BY <1>5, <1>9, <1>12, <2>1 DEF ModeRight, SimpleRight
  <2>2. CASE Rows!Context(e.img) /\ e.state = "prepare"
    BY <1>5, <1>9, <1>12, <1>13, <2>2 DEF ModeRight, PrepareRight
  <2>3. CASE Rows!Context(e.img) /\ e.state = "postponed"
    BY <1>5, <1>9, <1>12, <1>13, <1>14, <2>3 DEF ModeRight, PostponedRight, AtBottom
  <2>. QED
    BY <1>3, <1>10, <2>1, <2>2, <2>3
<1>16. CallRight(f, max)
  BY <1>1, <1>2, <1>5, <1>6, <1>8, <1>9, <1>12, <1>15 DEF CallRight, PictureRight, AtWork
<1>. QED
  BY <1>5, <1>16 DEF yes
-----------------------------------------------------------------------------
(***************************************************************************)
(* The main controller.                                                    *)
(***************************************************************************)
LEMMA PostHas ==
    ASSUME NEW max \in Nat \ {0}, NEW e, InCall(e, max),
           Rows!Context(e.img) \/ (e.lines = <<>> /\ e.togo > 0)
    PROVE  LET f == Rows!PostProcess(e, max)
           IN  /\ InCall(f, max) /\ Alike(e, f) /\ f.ctr \in {e.ctr, e.ctr + 1}
               /\ f.state = e.state /\ f.icount = e.icount /\ f.full = e.full /\ f.avail = e.avail
               /\ f.imcu = e.imcu /\ f.scanline = e.scanline /\ f.suspended = e.suspended
               /\ Current(f) = Current(e)
<1> DEFINE f == Rows!PostProcess(e, max)
<1>1. InCall(f, max) /\ Upsamples(e, f)
  BY PostIs
<1> HIDE DEF f
<1>2. /\ f.img = e.img /\ f.mem = e.mem /\ f.xbuf = e.xbuf /\ f.whichptr = e.whichptr
      /\ f.state = e.state /\ f.icount = e.icount /\ f.full = e.full /\ f.avail = e.avail
      /\ f.imcu = e.imcu /\ f.scanline = e.scanline /\ f.suspended = e.suspended
      /\ f.ctr \in {e.ctr, e.ctr + 1}
  BY <1>1 DEF Upsamples, RowFields
<1>. QED
  BY <1>1, <1>2 DEF f, Alike, Current

LEMMA NextGroup ==
    ASSUME NEW e, NEW f, NEW n \in Nat, UpsamplesOn(e, f, n), f.togo > 0, f.togo \in Nat, e.togo \in Nat,
           e.ctr \in Nat, f.img \in Images, NEW m, m = n + (f.ctr - e.ctr)
    PROVE  LinesDone(f) = m * Rows!MaxV(f.img) + LinesOut(f) /\ OwedIs(f, m)
<1>1. e.togo > 0
  BY DEF UpsamplesOn
<1> DEFINE V == Rows!MaxV(f.img)
<1>2. CASE f.ctr = e.ctr + 1 /\ LinesOut(f) = 0 /\ LinesDone(f) = (n + 1) * V
  <2>1. m = n + 1 /\ m \in Nat
    BY <1>2
  <2>2. LinesDone(f) = LinesDone(f) + 0
    <3>1. LinesDone(f) \in Int
      <4> DEFINE k == n + 1
      <4>1. k \in Int /\ V \in Int
        BY Sizes
      <4> HIDE DEF k, V
      <4>2. k * V \in Int
        BY <4>1, ProductLaws
      <4>. QED
        BY <1>2, <4>2 DEF k
    <3>. QED
      BY <3>1
  <2>3. OwedIs(f, m)
    BY <1>2 DEF OwedIs
  <2>. QED
    BY <1>2, <2>1, <2>2, <2>3
<1>3. CASE f.ctr = e.ctr /\ LinesDone(f) = n * V + LinesOut(f) /\ OwedIs(f, n)
  <2>1. m = n
    BY <1>3
  <2>. QED
    BY <1>3, <2>1
<1>. QED
  BY <1>1, <1>2, <1>3 DEF UpsamplesOn

\* What is to be upsampled next stands, where the row group is right.
LEMMA StandsThere ==
    ASSUME NEW max, NEW e, CallRight(e, max), NEW n, e.togo > 0 => n = GroupNo(e) /\ GroupIs(e, n)
    PROVE  Stands(e, n)
  BY DEF CallRight, PictureRight, AtWork, Stands

\* Without context rows.
LEMMA SimpleGoes ==
    ASSUME NEW max \in Nat \ {0}, NEW e, CallRight(e, max), e.full, e.lines = <<>>, e.togo > 0,
           ~Rows!Context(e.img)
    PROVE  LET f == Rows!SimpleMain(e, max)
           IN  CallRight(f, max) /\ f.lines # <<>> /\ f.img = e.img /\ f.scanline = e.scanline /\ f.suspended = e.suspended
<1> DEFINE f == Rows!PostProcess(e, max)
           M == e.img.M
           n == GroupNo(e)
           V == Rows!MaxV(e.img)
<1>1. /\ InCall(e, max) /\ e.img \in Images /\ M \in Nat \ {0} /\ V \in Nat \ {0} /\ e.ctr \in Nat
      /\ e.imcu \in 0 .. Rows!TotalRows(e.img) /\ Rows!TotalRows(e.img) \in Nat /\ e.togo \in Nat
  BY Sizes DEF CallRight, InCall, Counted
<1>2. /\ e.imcu > 0 /\ e.ctr < M /\ RowsThere(e) /\ e.whichptr \in 0 .. 1
  BY DEF CallRight, PictureRight, AtWork, ModeRight, SimpleRight
<1>3. e.imcu \in 1 .. Rows!TotalRows(e.img) /\ Current(e) = e.imcu - 1 /\ Current(e) \in Nat
  BY <1>1, <1>2 DEF Current
<1>4. n = Current(e) * M + e.ctr /\ n \in Nat
  <2>1. n = Current(e) * M + e.ctr
    BY DEF GroupNo
  <2>2. Current(e) * M \in Nat
    BY <1>1, <1>3
  <2>. QED
    BY <1>1, <2>1, <2>2
<1>5. GroupIs(e, n)
  BY <1>1, <1>2, <1>3, <1>4, GroupOfRows
<1>6. Stands(e, n)
  BY <1>5, StandsThere
<1>7. Len(e.lines) = 0
  OBVIOUS
<1> HIDE DEF n
<1>8. UpsamplesOn(e, f, n)
  BY <1>1, <1>4, <1>6, <1>7, PostGoes
<1>9. /\ InCall(f, max) /\ Alike(e, f) /\ f.ctr \in {e.ctr, e.ctr + 1} /\ f.state = e.state
      /\ f.full = e.full /\ f.imcu = e.imcu /\ f.scanline = e.scanline
      /\ f.suspended = e.suspended /\ Current(f) = Current(e)
  BY <1>1, PostHas
<1> HIDE DEF f
<1>10. /\ f.img = e.img /\ f.togo \in Nat /\ f.ctr \in Nat /\ DOMAIN f = RowFields
  BY <1>9 DEF Alike, InCall, Counted
<1>11. Told(f) /\ Buffered(f) /\ f.lines # <<>>
  <2>1. Told(f) /\ Buffered(f) /\ Len(f.lines) > 0
    BY <1>7, <1>8 DEF UpsamplesOn
  <2>. QED
    BY <2>1
<1> DEFINE m == n + (f.ctr - e.ctr)
<1>12. f.togo > 0 => LinesDone(f) = m * V + LinesOut(f) /\ OwedIs(f, m)
  BY <1>1, <1>4, <1>8, <1>10, NextGroup
<1>13. m = Current(f) * M + f.ctr
  <2> DEFINE a == Current(e) * M
             k == Current(e)
  <2>1. a \in Nat
    BY <1>1, <1>3
  <2>2. Current(f) * M = a
    BY <1>9
  <2> HIDE DEF a, M
  <2>. QED
    BY <1>1, <1>4, <1>10, <2>1, <2>2 DEF a, m
<1>14. RowsThere(f)
  BY <1>2, <1>9, AlikeRows
<1>15. f.whichptr \in 0 .. 1
  BY <1>2, <1>9 DEF Alike
<1>16. CASE f.ctr < M
  <2>1. Rows!SimpleMain(e, max) = f
    BY <1>1, <1>10, <1>16 DEF Rows!SimpleMain, f
  <2>2. ModeRight(f)
    BY <1>2, <1>9, <1>10, <1>14, <1>16 DEF ModeRight, SimpleRight
  <2>3. GroupNo(f) = m
    BY <1>10, <1>13 DEF GroupNo
  <2>4. CallRight(f, max)
    BY <1>9, <1>10, <1>11, <1>12, <1>15, <2>2, <2>3 DEF CallRight, PictureRight, AtWork
  <2>. QED
    BY <1>9, <1>10, <1>11, <2>1, <2>4
<1>17. CASE f.ctr >= M
  <2> DEFINE zero == 0
             no == FALSE
             h == [f EXCEPT !.full = no, !.ctr = zero]
  <2>1. Rows!SimpleMain(e, max) = h
    BY <1>17 DEF Rows!SimpleMain, f
  <2>2. InCall(h, max)
    BY <1>1, <2>1, SimpleIs DEF Handed, CallRight
  <2> HIDE DEF zero, no
  <2>3. /\ h.full = no /\ h.ctr = zero /\ h.img = f.img /\ h.mem = f.mem /\ h.xbuf = f.xbuf
        /\ h.whichptr = f.whichptr /\ h.imcu = f.imcu /\ h.togo = f.togo /\ h.lines = f.lines
        /\ h.scanline = f.scanline /\ h.next_row_out = f.next_row_out /\ h.spare = f.spare
        /\ h.color = f.color /\ h.suspended = f.suspended
    BY <1>10 DEF RowFields
  <2> HIDE DEF h
  <2>4. Told(h) /\ Buffered(h)
    BY <1>11, <2>3 DEF Told, Buffered
  <2>5. f.ctr = e.ctr + 1 /\ f.ctr = M
    BY <1>1, <1>2, <1>9, <1>17
  <2>6. f.togo > 0 => LinesOut(f) = 0
    BY <1>1, <1>8, <2>5 DEF UpsamplesOn
  <2>7. LinesOut(h) = LinesOut(f) /\ LinesDone(h) = LinesDone(f)
    BY <2>3 DEF LinesOut, LinesDone
  <2>8. GroupNo(h) = m
    <3>1. Current(h) = e.imcu
      BY <1>9, <2>3 DEF Current, no
    <3>2. GroupNo(h) = e.imcu * M + 0
      BY <1>10, <2>3, <3>1 DEF GroupNo, zero
    <3>3. m = (e.imcu - 1) * M + M
      BY <1>3, <1>9, <1>13, <2>5
    <3> DEFINE i == e.imcu
    <3>4. i \in Nat
      BY <1>1
    <3>5. i * M + 0 = (i - 1) * M + M
      <4> HIDE DEF i, M
      <4>1. (i - 1) * M = i * M - 1 * M /\ i * M \in Int
        BY <1>1, <3>4, ProductLaws
      <4>. QED
        BY <1>1, <4>1
    <3>. QED
      BY <3>2, <3>3, <3>5
  <2>9. f.togo > 0 => OwedIs(h, m)
    BY <2>6, <2>7 DEF OwedIs
  <2>10. f.togo > 0 => ModeRight(h)
    BY <1>10, <2>3, <2>6, <2>7 DEF ModeRight, SimpleRight, no, zero
  <2>11. CallRight(h, max)
    BY <1>10, <1>12, <1>15, <2>2, <2>3, <2>4, <2>7, <2>8, <2>9, <2>10 DEF CallRight, PictureRight, AtWork
  <2>. QED
    BY <1>9, <1>10, <1>11, <2>1, <2>3, <2>11
<1>18. f.ctr < M \/ f.ctr >= M
  BY <1>1, <1>10
<1>. QED
  BY <1>16, <1>17, <1>18

\* An iMCU row is in the workspace, and none of its row groups has been upsampled.
Ready(e) ==
    /\ e.full /\ e.imcu > 0 /\ e.whichptr \in 0 .. 1 /\ (e.state = "postponed" => e.imcu > 1)
    /\ ListsRight(e) /\ RowsThere(e) /\ RowAbove(e)
    /\ LinesOut(e) = 0 /\ LinesDone(e) = Current(e) * e.img.M * Rows!MaxV(e.img)

LEMMA BottomRows ==
    ASSUME NEW e, e.img \in Images, Rows!Context(e.img), Ready(e), AtBottom(e), e.imcu \in Nat,
           NEW f, f.img = e.img, f.mem = e.mem, f.whichptr = e.whichptr, f.imcu = e.imcu, f.full,
           f.xbuf = [e.xbuf EXCEPT ![e.whichptr] =
              [c \in DOMAIN e.img.v |-> [i \in Rows!List(e.img, c) |->
                 IF i \in Rows!RowsLeft(e.img, c) .. Rows!RowsLeft(e.img, c) + 2 * Rows!Group(e.img, c) - 1
                 THEN e.xbuf[e.whichptr][c][Rows!RowsLeft(e.img, c) - 1] ELSE e.xbuf[e.whichptr][c][i]]]]
    PROVE  RowsThere(f) /\ RowAbove(f) /\ RowBelow(f)
<1> DEFINE p == e.img
           w == e.whichptr
           B == [c \in DOMAIN p.v |-> [i \in Rows!List(p, c) |->
                   IF i \in Rows!RowsLeft(p, c) .. Rows!RowsLeft(p, c) + 2 * Rows!Group(p, c) - 1
                   THEN e.xbuf[w][c][Rows!RowsLeft(p, c) - 1] ELSE e.xbuf[w][c][i]]]
<1>1. w \in DOMAIN e.xbuf /\ w \in 0 .. 1
  BY DEF Ready, ListsRight
<1>2. f.xbuf[w] = B
  <2> HIDE DEF B, w
  <2>1. f.xbuf = [e.xbuf EXCEPT ![w] = B]
    BY DEF B, w
  <2>. QED
    BY <1>1, <2>1
<1>3. AtBottom(f) /\ Current(f) = Current(e) /\ Current(e) = Rows!TotalRows(p) - 1
  BY DEF AtBottom, Current, Ready
<1>4. ASSUME NEW c \in DOMAIN p.v
      PROVE  LET g == Rows!Group(p, c)
                 rl == Rows!RowsLeft(p, c)
                 H == Rows!Height(p, c)
             IN  /\ g \in Nat \ {0} /\ rl \in 1 .. H /\ H \in Nat \ {0}
                 /\ -1 \in Rows!List(p, c) /\ \A i \in 0 .. rl : i \in Rows!List(p, c)
  <2> DEFINE g == Rows!Group(p, c)
             rl == Rows!RowsLeft(p, c)
             H == Rows!Height(p, c)
             top == g * (p.M + 3)
  <2>1. g \in Nat \ {0} /\ H = g * p.M /\ rl \in 1 .. H /\ H \in Nat \ {0} /\ p.M \in {1, 2, 4, 8}
    BY ComponentSizes, PictureSizes
  <2>2. Rows!List(p, c) = 0 - g .. top - 1
    BY DEF Rows!List
  <2>3. top = H + 3 * g
    <3> HIDE DEF g, H
    <3>1. CASE p.M = 1
      BY <2>1, <3>1
    <3>2. CASE p.M = 2
      BY <2>1, <3>2
    <3>3. CASE p.M = 4
      BY <2>1, <3>3
    <3>4. CASE p.M = 8
      BY <2>1, <3>4
    <3>. QED
      BY <2>1, <3>1, <3>2, <3>3, <3>4
  <2> HIDE DEF g, rl, H, top
  <2>4. -1 \in 0 - g .. top - 1 /\ \A i \in 0 .. rl : i \in 0 - g .. top - 1
    BY <2>1, <2>3
  <2>. QED
    BY <2>1, <2>2, <2>4 DEF g, rl, H
<1>5. ASSUME NEW c \in DOMAIN p.v, NEW i \in -1 .. Rows!RowsLeft(p, c) - 1
      PROVE  Rows!Row(f, f.whichptr, c, i) = Rows!Row(e, w, c, i)
  <2> DEFINE g == Rows!Group(p, c)
             rl == Rows!RowsLeft(p, c)
  <2>1. g \in Nat \ {0} /\ rl \in Nat \ {0} /\ i \in Rows!List(p, c) /\ ~(i \in rl .. rl + 2 * g - 1)
    <3> DEFINE H == Rows!Height(p, c)
               L == Rows!List(p, c)
    <3>1. g \in Nat \ {0} /\ rl \in 1 .. H /\ H \in Nat \ {0} /\ -1 \in L /\ \A k \in 0 .. rl : k \in L
      BY <1>4
    <3>2. i \in -1 .. rl - 1
      OBVIOUS
    <3> HIDE DEF g, rl, H, L
    <3>3. g \in Nat \ {0} /\ rl \in Nat \ {0} /\ i \in L /\ ~(i \in rl .. rl + 2 * g - 1)
      <4>1. i = -1 \/ i \in 0 .. rl
        BY <3>1, <3>2
      <4>. QED
        BY <3>1, <3>2, <4>1
    <3>. QED
      BY <3>3 DEF L
  <2>2. B[c][i] = e.xbuf[w][c][i]
    BY <2>1
  <2>3. f.xbuf[f.whichptr][c][i] = e.xbuf[w][c][i]
    <3> HIDE DEF B
    <3>. QED
      BY <1>2, <2>2
  <2>4. Rows!Row(f, f.whichptr, c, i) = e.mem[c][f.xbuf[f.whichptr][c][i]]
    BY DEF Rows!Row, Rows!Place
  <2>5. Rows!Row(e, w, c, i) = e.mem[c][e.xbuf[w][c][i]]
    BY DEF Rows!Row, Rows!Place
  <2>. QED
    BY <2>3, <2>4, <2>5, Zenon
<1>6. RowsThere(f)
  <2> SUFFICES ASSUME NEW c \in DOMAIN p.v, NEW i \in 0 .. Rows!RowsLeft(p, c) - 1
               PROVE  RowIs(f, c, i, Current(e) * Rows!Height(p, c) + i)
    BY <1>3 DEF RowsThere, LastPlace
  <2>1. i \in -1 .. Rows!RowsLeft(p, c) - 1
    OBVIOUS
  <2>2. RowIs(e, c, i, Current(e) * Rows!Height(p, c) + i)
    BY DEF Ready, RowsThere, LastPlace
  <2>. QED
    BY <1>5, <2>1, <2>2 DEF RowIs
<1>7. RowAbove(f)
  <2> SUFFICES ASSUME NEW c \in DOMAIN p.v
               PROVE  RowIs(f, c, -1, Rows!Near(p, c, Current(e) * Rows!Height(p, c) - 1))
    BY <1>3 DEF RowAbove
  <2>1. -1 \in -1 .. Rows!RowsLeft(p, c) - 1
    <3> DEFINE rl == Rows!RowsLeft(p, c)
               H == Rows!Height(p, c)
    <3>1. rl \in 1 .. H /\ H \in Nat
      BY <1>4
    <3> HIDE DEF rl, H
    <3>2. -1 \in -1 .. rl - 1
      BY <3>1
    <3>. QED
      BY <3>2 DEF rl
  <2>2. RowIs(e, c, -1, Rows!Near(p, c, Current(e) * Rows!Height(p, c) - 1))
    BY DEF Ready, RowAbove
  <2>. QED
    BY <1>5, <2>1, <2>2 DEF RowIs
<1>8. RowBelow(f)
  <2> SUFFICES ASSUME NEW c \in DOMAIN p.v
               PROVE  RowIs(f, c, Rows!RowsLeft(p, c), Rows!Rows(p, c) - 1)
    BY DEF RowBelow
  <2> DEFINE rl == Rows!RowsLeft(p, c)
             g == Rows!Group(p, c)
             H == Rows!Height(p, c)
             R == Rows!Rows(p, c)
             T == Rows!TotalRows(p)
  <2>1. g \in Nat \ {0} /\ rl \in 1 .. H /\ H \in Nat \ {0} /\ rl \in Rows!List(p, c)
    <3> DEFINE L == Rows!List(p, c)
    <3>1. g \in Nat \ {0} /\ rl \in 1 .. H /\ H \in Nat \ {0} /\ \A k \in 0 .. rl : k \in L
      BY <1>4
    <3> HIDE DEF L, rl, g, H
    <3>2. rl \in L
      BY <3>1
    <3>. QED
      BY <3>1, <3>2 DEF L
  <2>2. rl = R - (T - 1) * H /\ T \in Nat \ {0} /\ R \in Nat
    BY PictureSizes
  <2>3. RowIs(e, c, rl - 1, (T - 1) * H + (rl - 1))
    <3>1. rl - 1 \in 0 .. Rows!RowsLeft(p, c) - 1
      <4> HIDE DEF rl, H
      <4>1. rl - 1 \in 0 .. rl - 1
        BY <2>1
      <4>. QED
        BY <4>1 DEF rl
    <3>. QED
      BY <1>3, <3>1 DEF Ready, RowsThere, LastPlace
  <2>4. (T - 1) * H + (rl - 1) = R - 1
    <3> DEFINE y == (T - 1) * H
    <3>1. y \in Int /\ rl = R - y
      <4>1. T - 1 \in Int /\ H \in Int
        BY <2>1, <2>2
      <4> HIDE DEF H, T
      <4>2. (T - 1) * H \in Int
        BY <4>1, ProductLaws
      <4>. QED
        BY <2>2, <4>2
    <3> HIDE DEF y, rl, R
    <3>2. y + (rl - 1) = R - 1
      BY <2>2, <3>1
    <3>. QED
      BY <3>2 DEF y
  <2>5. B[c][rl] = e.xbuf[w][c][rl - 1]
    <3>1. rl \in rl .. rl + 2 * g - 1
      <4> HIDE DEF rl, g, H
      <4>. QED
        BY <2>1
    <3>. QED
      BY <2>1, <3>1
  <2>6. Rows!Row(f, w, c, rl) = Rows!Row(e, w, c, rl - 1)
    <3> HIDE DEF rl, B
    <3>. QED
      BY <1>2, <2>5 DEF Rows!Row, Rows!Place
  <2> HIDE DEF rl, H, T, R
  <2>7. RowIs(f, c, rl, R - 1)
    BY <2>3, <2>4, <2>6 DEF RowIs
  <2>. QED
    BY <2>7 DEF rl, R
<1>. QED
  BY <1>6, <1>7, <1>8

\* The main controller turns to the iMCU row that is there.
LEMMA PrepareGoes ==
    ASSUME NEW max \in Nat \ {0}, NEW e, InCall(e, max), Told(e), Buffered(e), Rows!Context(e.img),
           e.togo > 0 => Ready(e)
    PROVE  LET f == Rows!PrepareForIMCU(e)
           IN  /\ CallRight(f, max) /\ f.state = "process" /\ f.img = e.img /\ f.lines = e.lines
               /\ f.scanline = e.scanline /\ f.togo = e.togo /\ f.suspended = e.suspended
<1>1. /\ DOMAIN e = RowFields /\ e.img \in Images /\ e.img.M \in {1, 2, 4, 8} /\ e.img.M > 1
      /\ e.imcu \in Nat /\ e.icount = e.imcu /\ Rows!TotalRows(e.img) \in Nat
  BY Sizes, GroupsAre DEF InCall, Counted
<1> DEFINE p == e.img
           zero == 0
           n == p.M - 1
           st == "process"
           f == [e EXCEPT !.ctr = zero, !.avail = n, !.state = st]
           left == (Rows!RowsLeft(f.img, 1) - 1) \div Rows!Group(f.img, 1) + 1
           B == [c \in DOMAIN f.img.v |-> [i \in Rows!List(f.img, c) |->
                   IF i \in Rows!RowsLeft(f.img, c) .. Rows!RowsLeft(f.img, c) + 2 * Rows!Group(f.img, c) - 1
                   THEN f.xbuf[f.whichptr][c][Rows!RowsLeft(f.img, c) - 1] ELSE f.xbuf[f.whichptr][c][i]]]
           x == [f.xbuf EXCEPT ![f.whichptr] = B]
           h == [f EXCEPT !.avail = left, !.xbuf = x]
           r == Rows!PrepareForIMCU(e)
<1>2. /\ DOMAIN f = RowFields /\ f.ctr = zero /\ f.avail = n /\ f.state = st
      /\ \A y \in RowFields \ {"ctr", "avail", "state"} : f[y] = e[y]
  <2> HIDE DEF zero, n, st
  <2>. QED
    BY <1>1 DEF RowFields
<1>3. r = IF f.icount = Rows!TotalRows(f.img) THEN Rows!SetBottomPointers(f) ELSE f
  BY DEF Rows!PrepareForIMCU
<1>4. Rows!SetBottomPointers(f) = [f EXCEPT !.avail = left, !.xbuf[f.whichptr] =
        [c \in DOMAIN f.img.v |-> [i \in Rows!List(f.img, c) |->
           IF i \in Rows!RowsLeft(f.img, c) .. Rows!RowsLeft(f.img, c) + 2 * Rows!Group(f.img, c) - 1
           THEN @[c][Rows!RowsLeft(f.img, c) - 1] ELSE @[c][i]]]]
  BY DEF Rows!SetBottomPointers
<1> HIDE DEF f, left
<1>5. Rows!SetBottomPointers(f) = h
  BY <1>2, <1>4 DEF RowFields
<1>6. /\ f.img = p /\ f.mem = e.mem /\ f.xbuf = e.xbuf /\ f.whichptr = e.whichptr /\ f.icount = e.icount
      /\ f.full = e.full /\ f.color = e.color /\ f.next_row_out = e.next_row_out /\ f.togo = e.togo
      /\ f.spare = e.spare /\ f.imcu = e.imcu /\ f.scanline = e.scanline /\ f.lines = e.lines
      /\ f.suspended = e.suspended
  BY <1>2 DEF RowFields
<1>7. InCall(r, max)
  BY <1>1, PrepareIs
<1>8. /\ r.ctr = 0 /\ r.state = "process" /\ r.img = p /\ r.mem = e.mem /\ r.whichptr = e.whichptr
      /\ r.full = e.full /\ r.color = e.color /\ r.next_row_out = e.next_row_out /\ r.togo = e.togo
      /\ r.spare = e.spare /\ r.imcu = e.imcu /\ r.scanline = e.scanline /\ r.lines = e.lines
      /\ r.suspended = e.suspended
      /\ ~AtBottom(e) => r.xbuf = e.xbuf /\ r.avail = n
      /\ AtBottom(e) => r.xbuf = x /\ r.avail = left
  <2>1. CASE AtBottom(e)
    <3>1. r = h
      BY <1>1, <1>3, <1>5, <1>6, <2>1 DEF AtBottom
    <3> HIDE DEF x, r, n
    <3>2. h.avail = left /\ h.xbuf = x /\ \A y \in RowFields \ {"avail", "xbuf"} : h[y] = f[y]
      BY <1>2 DEF RowFields
    <3> HIDE DEF h
    <3>. QED
      BY <1>2, <1>6, <2>1, <3>1, <3>2 DEF RowFields, zero, st
  <2>2. CASE ~AtBottom(e)
    <3>1. r = f
      BY <1>1, <1>3, <1>6, <2>2 DEF AtBottom
    <3>. QED
      BY <1>2, <1>6, <2>2, <3>1
  <2>. QED
    BY <2>1, <2>2
<1> HIDE DEF r, h
<1>9. Told(r) /\ Buffered(r)
  BY <1>8 DEF Told, Buffered
<1>10. ASSUME e.togo > 0 PROVE AtWork(r)
  <2>1. Ready(e)
    BY <1>10
  <2>2. Current(r) = Current(e) /\ Current(e) = e.imcu - 1
    BY <1>8, <2>1 DEF Current, Ready
  <2>3. AtBottom(r) <=> AtBottom(e)
    BY <1>8 DEF AtBottom
  <2>4. LinesOut(r) = 0 /\ LinesDone(r) = LinesDone(e) /\ LinesOut(e) = 0
    BY <1>8, <2>1 DEF LinesOut, LinesDone, Ready
  <2>5. GroupNo(r) = Current(e) * p.M
    <3> DEFINE y == Current(e) * p.M
    <3>1. GroupNo(r) = y + 0
      BY <1>8, <2>2 DEF GroupNo
    <3>2. y \in Int
      BY <1>1, <2>2
    <3> HIDE DEF y
    <3>3. GroupNo(r) = y
      BY <3>1, <3>2
    <3>. QED
      BY <3>3 DEF y
  <2>6. LinesDone(r) = GroupNo(r) * Rows!MaxV(r.img) + LinesOut(r)
    <3> DEFINE y == Current(e) * p.M * Rows!MaxV(p)
    <3>1. y \in Int
      <4>1. Current(e) * p.M \in Int
        BY <1>1, <2>2
      <4>2. Rows!MaxV(p) \in Int
        BY <1>1, Sizes
      <4> DEFINE z1 == Current(e) * p.M
                 z2 == Rows!MaxV(p)
      <4> HIDE DEF z1, z2
      <4>3. z1 * z2 \in Int
        BY <4>1, <4>2, ProductLaws DEF z1, z2
      <4>. QED
        BY <4>3 DEF z1, z2
    <3>2. LinesDone(r) = y
      BY <2>1, <2>4 DEF Ready
    <3> HIDE DEF y
    <3>3. LinesDone(r) = y + 0
      BY <3>1, <3>2
    <3>. QED
      BY <1>8, <2>4, <2>5, <3>3 DEF y
  <2>7. OwedIs(r, GroupNo(r))
    BY <2>4 DEF OwedIs
  <2>8. RowsThere(r) /\ RowAbove(r) /\ RowBelow(r) /\ (AtBottom(r) \/ ListsRight(r))
    <3>1. CASE AtBottom(e)
      <4>1. r.xbuf = [e.xbuf EXCEPT ![e.whichptr] =
              [c \in DOMAIN e.img.v |-> [i \in Rows!List(e.img, c) |->
                 IF i \in Rows!RowsLeft(e.img, c) .. Rows!RowsLeft(e.img, c) + 2 * Rows!Group(e.img, c) - 1
                 THEN e.xbuf[e.whichptr][c][Rows!RowsLeft(e.img, c) - 1] ELSE e.xbuf[e.whichptr][c][i]]]]
        BY <1>6, <1>8, <3>1
      <4>2. RowsThere(r) /\ RowAbove(r) /\ RowBelow(r)
        <5>1. r.full
          BY <1>8, <2>1 DEF Ready
        <5>. QED
          BY <1>1, <1>8, <2>1, <3>1, <4>1, <5>1, BottomRows
      <4>. QED
        BY <2>3, <3>1, <4>2
    <3>2. CASE ~AtBottom(e)
      <4>1. Alike(e, r)
        BY <1>8, <3>2 DEF Alike
      <4>2. GoAround(r) <=> GoAround(e)
        BY <1>1, <1>8, <2>1 DEF GoAround, Ready
      <4>3. RowsThere(e) /\ RowAbove(e) /\ ListsRight(e)
        BY <2>1 DEF Ready
      <4>4. RowsThere(r) /\ RowAbove(r) /\ ListsRight(r)
        BY <1>8, <2>2, <4>1, <4>2, <4>3, AlikeRows
      <4>5. RowBelow(r)
        BY <2>3, <3>2 DEF RowBelow
      <4>. QED
        BY <4>4, <4>5
    <3>. QED
      BY <3>1, <3>2
  <2>9. r.avail = Available(r) /\ 0 < r.avail
    <3>1. CASE AtBottom(e)
      <4>1. left \in 1 .. p.M
        BY <1>1, <1>6, BottomIsAll DEF left
      <4>2. Available(r) = left
        BY <1>6, <1>8, <2>3, <3>1 DEF Available, left
      <4>. QED
        BY <1>1, <1>8, <3>1, <4>1, <4>2
    <3>2. CASE ~AtBottom(e)
      BY <1>1, <1>8, <2>3, <3>2 DEF Available
    <3>. QED
      BY <3>1, <3>2
  <2>10. r.full /\ r.imcu > 0 /\ r.whichptr \in 0 .. 1
    BY <1>8, <2>1 DEF Ready
  <2>11. ProcessRight(r)
    BY <1>8, <2>8, <2>9, <2>10 DEF ProcessRight
  <2>12. ModeRight(r)
    BY <1>8, <2>11 DEF ModeRight
  <2>. QED
    BY <2>6, <2>7, <2>10, <2>12 DEF AtWork
<1>. QED
  BY <1>7, <1>8, <1>9, <1>10 DEF CallRight, PictureRight, r

\* The lists go around from the end of the first iMCU row on.
LEMMA ListsTurn ==
    ASSUME NEW e, e.img \in Images, Rows!Context(e.img), e.imcu \in Nat \ {0}, e.icount = e.imcu,
           e.state = "process", ListsRight(e),
           NEW f, f.img = e.img, f.imcu = e.imcu, f.state = "postponed",
           f.xbuf = IF e.icount = 1 THEN Rows!SetWraparoundPointers(e) ELSE e.xbuf
    PROVE  ListsRight(f)
<1> DEFINE p == e.img
<1>1. GoAround(f)
  BY DEF GoAround
<1>2. CASE e.imcu # 1
  <2>1. GoAround(e)
    BY <1>2 DEF GoAround
  <2>2. f.xbuf = e.xbuf
    BY <1>2
  <2>3. \A w, c : ListRight(f, w, c) <=> ListRight(e, w, c)
    BY <1>1, <2>1, <2>2 DEF ListRight
  <2>. QED
    BY <2>2, <2>3 DEF ListsRight
<1>3. CASE e.imcu = 1
  <2>1. f.xbuf = [w \in 0 .. 1 |-> [c \in DOMAIN p.v |-> [i \in Rows!List(p, c) |->
           IF i < 0 THEN e.xbuf[w][c][i + Rows!Group(p, c) * (p.M + 2)]
           ELSE IF i >= Rows!Group(p, c) * (p.M + 2) THEN e.xbuf[w][c][i - Rows!Group(p, c) * (p.M + 2)]
           ELSE e.xbuf[w][c][i]]]]
    BY <1>3 DEF Rows!SetWraparoundPointers
  <2>2. DOMAIN f.xbuf = 0 .. 1
    BY <2>1
  <2> SUFFICES ASSUME NEW w \in 0 .. 1, NEW c \in DOMAIN p.v PROVE ListRight(f, w, c)
    BY <2>2 DEF ListsRight
  <2> DEFINE g == Rows!Group(p, c)
             n == g * Rows!Groups(p)
             H == Rows!Height(p, c)
             L == Rows!List(p, c)
             x == e.xbuf[w][c]
             y == f.xbuf[w][c]
  <2>3. p.M \in {1, 2, 4, 8} /\ Rows!Groups(p) = p.M + 2 /\ n = g * (p.M + 2)
    BY Sizes, GroupsAre
  <2>4. g \in Nat \ {0} /\ n = H + 2 * g /\ n \in Nat /\ H = g * p.M /\ H \in Nat
    <3>1. g \in Nat \ {0} /\ H = g * p.M
      BY ComponentSizes
    <3>2. n = H + 2 * g /\ n \in Nat /\ H \in Nat
      BY TurnIs
    <3>. QED
      BY <3>1, <3>2
  <2>5. L = 0 - g .. (n + g) - 1
    <3>1. L = 0 - g .. g * (p.M + 3) - 1
      BY DEF Rows!List
    <3>2. g * (p.M + 3) = n + g
      <4> HIDE DEF g, n
      <4>1. CASE p.M = 1
        BY <2>3, <2>4, <4>1
      <4>2. CASE p.M = 2
        BY <2>3, <2>4, <4>2
      <4>3. CASE p.M = 4
        BY <2>3, <2>4, <4>3
      <4>4. CASE p.M = 8
        BY <2>3, <2>4, <4>4
      <4>. QED
        BY <2>3, <4>1, <4>2, <4>3, <4>4
    <3> DEFINE u == g * (p.M + 3)
               v == n + g
    <3>3. L = 0 - g .. u - 1 /\ u = v
      BY <3>1, <3>2
    <3> HIDE DEF u, v, L, g, n
    <3>4. L = 0 - g .. v - 1
      BY <3>3
    <3>. QED
      BY <3>4 DEF v
  <2>6. y = [i \in L |-> IF i < 0 THEN x[i + n] ELSE IF i >= n THEN x[i - n] ELSE x[i]]
    <3> HIDE DEF L
    <3>0. f.xbuf[w] = [k \in DOMAIN p.v |-> [i \in Rows!List(p, k) |->
             IF i < 0 THEN e.xbuf[w][k][i + Rows!Group(p, k) * (p.M + 2)]
             ELSE IF i >= Rows!Group(p, k) * (p.M + 2) THEN e.xbuf[w][k][i - Rows!Group(p, k) * (p.M + 2)]
             ELSE e.xbuf[w][k][i]]]
      BY <2>1
    <3>1. y = [i \in L |-> IF i < 0 THEN x[i + g * (p.M + 2)]
                           ELSE IF i >= g * (p.M + 2) THEN x[i - g * (p.M + 2)] ELSE x[i]]
      BY <3>0 DEF L
    <3> DEFINE u == g * (p.M + 2)
    <3> HIDE DEF u, n, g
    <3>2. y = [i \in L |-> IF i < 0 THEN x[i + u] ELSE IF i >= u THEN x[i - u] ELSE x[i]]
      BY <3>1 DEF u, g
    <3>3. u = n
      BY <2>3 DEF u
    <3>. QED
      BY <3>2, <3>3
  <2>7. \A i \in 0 .. n - 1 : x[i] = Turn(p, c, w, i)
    BY DEF ListsRight, ListRight
  <2> HIDE DEF g, n, H, L, x, y
  <2>10. g \in Nat \ {0} /\ n \in Nat /\ n >= 2 * g
    BY <2>4
  <2>8. \A i \in 0 .. n - 1 : y[i] = x[i]
    <3> TAKE i \in 0 .. n - 1
    <3>1. i \in L /\ ~(i < 0) /\ ~(i >= n)
      BY <2>10, <2>5
    <3>. QED
      BY <2>6, <3>1
  <2>9. ASSUME NEW i \in 1 .. g PROVE y[0 - i] = y[n - i] /\ y[n + i - 1] = y[i - 1]
    <3>1. y[0 - i] = x[0 - i + n] /\ 0 - i + n = n - i
      <4>1. 0 - i \in L /\ 0 - i < 0 /\ 0 - i + n = n - i
        BY <2>10, <2>5
      <4>. QED
        BY <2>6, <4>1
    <3>2. y[n - i] = x[n - i] /\ y[i - 1] = x[i - 1]
      <4>1. n - i \in 0 .. n - 1 /\ i - 1 \in 0 .. n - 1
        BY <2>10
      <4>. QED
        BY <2>8, <4>1
    <3>3. y[n + i - 1] = x[i - 1]
      <4> DEFINE m == n + i - 1
      <4>1. m \in L /\ ~(m < 0) /\ m >= n /\ m - n = i - 1
        BY <2>10, <2>5
      <4> HIDE DEF m
      <4>2. y[m] = x[m - n]
        BY <2>6, <4>1
      <4>. QED
        BY <4>1, <4>2 DEF m
    <3>. QED
      BY <3>1, <3>2, <3>3
  <2>. QED
    BY <1>1, <2>7, <2>8, <2>9 DEF ListRight, g, n, y
<1>. QED
  BY <1>2, <1>3

\* The iMCU row that was done with is the one before, seen from the other list.
LEMMA RowsTurn ==
    ASSUME NEW e, e.img \in Images, Rows!Context(e.img), e.imcu \in Nat \ {0}, e.full,
           e.whichptr \in 0 .. 1, ListsRight(e), RowsThere(e), ~AtBottom(e),
           NEW f, f.img = e.img, f.mem = e.mem, f.imcu = e.imcu, ~f.full,
           f.whichptr = 1 - e.whichptr, ListsRight(f)
    PROVE  RowsBefore(f)
<1> SUFFICES ASSUME NEW c \in DOMAIN e.img.v, NEW i \in 1 .. 2 * Rows!Group(e.img, c)
             PROVE  RowIs(f, c, Rows!Group(e.img, c) * Rows!Groups(e.img) - i,
                          e.imcu * Rows!Height(e.img, c) - i)
  BY DEF RowsBefore, Current
<1> DEFINE p == e.img
           w == e.whichptr
           g == Rows!Group(p, c)
           n == g * Rows!Groups(p)
           H == Rows!Height(p, c)
           k == e.imcu
<1>1. g \in Nat \ {0} /\ n = H + 2 * g /\ H >= 2 * g /\ n \in Nat /\ H \in Nat
      /\ \A j \in 1 .. 2 * g : Turn(p, c, 1 - w, n - j) = Turn(p, c, w, H - j)
  <2> HIDE DEF g, n, H
  <2>. QED
    BY TurnIs DEF g, n, H
<1>2. 1 - w \in 0 .. 1
  OBVIOUS
<1>3. \A j \in 0 .. n - 1 : e.xbuf[w][c][j] = Turn(p, c, w, j) /\ f.xbuf[1 - w][c][j] = Turn(p, c, 1 - w, j)
  BY <1>2 DEF ListsRight, ListRight
<1>4. \A j \in 0 .. H - 1 : RowIs(e, c, j, (k - 1) * H + j)
  BY DEF RowsThere, LastPlace, Current
<1>5. i \in 1 .. 2 * g
  OBVIOUS
<1> HIDE DEF g, n, H
<1>6. n - i \in 0 .. n - 1 /\ H - i \in 0 .. n - 1 /\ H - i \in 0 .. H - 1
  BY <1>1, <1>5
<1>7. f.xbuf[1 - w][c][n - i] = e.xbuf[w][c][H - i]
  BY <1>1, <1>3, <1>5, <1>6
<1>8. Rows!Row(f, f.whichptr, c, n - i) = Rows!Row(e, w, c, H - i)
  <2>1. Rows!Row(f, f.whichptr, c, n - i) = e.mem[c][f.xbuf[1 - w][c][n - i]]
    BY DEF Rows!Row, Rows!Place
  <2>2. Rows!Row(e, w, c, H - i) = e.mem[c][e.xbuf[w][c][H - i]]
    BY DEF Rows!Row, Rows!Place
  <2>. QED
    BY <1>7, <2>1, <2>2, Zenon
<1>9. Rows!Row(e, w, c, H - i) = (k - 1) * H + (H - i)
  BY <1>4, <1>6 DEF RowIs
<1>10. (k - 1) * H + (H - i) = k * H - i
  <2> HIDE DEF k
  <2>1. (k - 1) * H = k * H - 1 * H /\ k * H \in Int
    <3>1. k \in Int
      BY DEF k
    <3>. QED
      BY <1>1, <3>1, ProductLaws
  <2>2. i \in Int
    BY <1>1, <1>5
  <2>. QED
    BY <1>1, <2>1, <2>2
<1> DEFINE a == n - i
           b == k * H - i
<1> HIDE DEF a, b
<1>11. RowIs(f, c, a, b)
  BY <1>8, <1>9, <1>10 DEF RowIs, a, b
<1>. QED
  BY <1>11 DEF a, b, n, g, H, k

\* What goes on in a call: lines are added, the rest of what concerns the application stays.
Proceeds(e, f, max) ==
    /\ CallRight(f, max) /\ f.img = e.img /\ f.scanline = e.scanline /\ f.suspended = e.suspended
    /\ Len(f.lines) >= Len(e.lines) /\ (e.togo > 0 => Len(f.lines) > Len(e.lines))

LEMMA ProcessGoes ==
    ASSUME NEW max \in Nat \ {0}, NEW e, CallRight(e, max), Rows!Context(e.img), e.state = "process",
           Len(e.lines) < max
    PROVE  Proceeds(e, Rows!ProcessIMCU(e, max), max)
<1> DEFINE f == Rows!PostProcess(e, max)
           M == e.img.M
           n == IF e.togo > 0 THEN GroupNo(e) ELSE 0
           V == Rows!MaxV(e.img)
           T == Rows!TotalRows(e.img)
<1>1. /\ InCall(e, max) /\ e.img \in Images /\ M \in {2, 4, 8} /\ V \in Nat \ {0} /\ e.ctr \in Nat
      /\ e.imcu \in 0 .. T /\ T \in Nat /\ e.togo \in Nat /\ e.icount = e.imcu
  <2>1. InCall(e, max) /\ e.img \in Images
    BY DEF CallRight, InCall, Counted
  <2>2. M \in {2, 4, 8}
    BY <2>1, Sizes, GroupsAre
  <2>. QED
    BY <2>1, <2>2, Sizes DEF InCall, Counted
<1>2. e.togo > 0 =>
        /\ e.whichptr \in 0 .. 1 /\ e.full /\ e.imcu > 0 /\ e.avail = Available(e) /\ e.ctr < e.avail
        /\ RowsThere(e) /\ RowAbove(e) /\ RowBelow(e) /\ (AtBottom(e) \/ ListsRight(e))
  BY DEF CallRight, PictureRight, AtWork, ModeRight, ProcessRight
<1>3. e.togo > 0 => e.imcu \in 1 .. T /\ Current(e) = e.imcu - 1 /\ Current(e) \in Nat
                    /\ n = Current(e) * M + e.ctr
  <2> SUFFICES ASSUME e.togo > 0 PROVE e.imcu \in 1 .. T /\ Current(e) = e.imcu - 1 /\ Current(e) \in Nat
                                       /\ n = Current(e) * M + e.ctr
    OBVIOUS
  <2>1. e.full /\ e.imcu > 0
    BY <1>2
  <2>2. Current(e) = e.imcu - 1
    BY <2>1 DEF Current
  <2>. QED
    BY <1>1, <2>1, <2>2 DEF GroupNo
<1>4. n \in Nat
  <2> DEFINE k == Current(e)
  <2>1. e.togo > 0 => k * M \in Nat
    <3>1. (e.togo > 0 => k \in Nat) /\ M \in Nat
      BY <1>1, <1>3
    <3> HIDE DEF k, M
    <3>. QED
      BY <3>1
  <2>. QED
    BY <1>1, <1>3, <2>1
<1>5. e.togo > 0 => n = GroupNo(e) /\ GroupIs(e, n)
  <2> SUFFICES ASSUME e.togo > 0 PROVE GroupIs(e, n)
    OBVIOUS
  <2>1. AtBottom(e) \/ e.ctr < M - 1
    BY <1>2 DEF Available
  <2>. QED
    BY <1>1, <1>2, <1>3, <2>1, GroupOfRows
<1>6. Stands(e, n)
  BY <1>5, StandsThere
<1> HIDE DEF n
<1>7. UpsamplesOn(e, f, n)
  BY <1>1, <1>4, <1>6, PostGoes
<1>8. /\ InCall(f, max) /\ Alike(e, f) /\ f.ctr \in {e.ctr, e.ctr + 1} /\ f.state = e.state
      /\ f.full = e.full /\ f.imcu = e.imcu /\ f.icount = e.icount /\ f.scanline = e.scanline
      /\ f.avail = e.avail /\ f.suspended = e.suspended /\ Current(f) = Current(e)
  BY <1>1, PostHas
<1> HIDE DEF f
<1>9. /\ f.img = e.img /\ f.togo \in Nat /\ f.ctr \in Nat /\ DOMAIN f = RowFields
      /\ f.avail \in Nat
  <2>1. f.img = e.img /\ DOMAIN f = RowFields /\ f.togo \in Nat /\ f.ctr \in Nat /\ f.avail \in 0 .. M + 2
    BY <1>8 DEF Alike, InCall, Counted
  <2>. QED
    BY <1>1, <2>1
<1>10. Told(f) /\ Buffered(f) /\ Len(f.lines) >= Len(e.lines) /\ (e.togo > 0 => Len(f.lines) > Len(e.lines))
       /\ (f.togo > 0 => e.togo > 0)
  <2>1. Told(f) /\ Buffered(f) /\ f.togo <= e.togo /\ (e.togo > 0 => Len(f.lines) > Len(e.lines))
    BY <1>7 DEF UpsamplesOn
  <2>2. Len(f.lines) >= Len(e.lines)
    <3> DEFINE a == Len(e.lines)
               b == Len(f.lines)
               s == e.scanline
               t == e.togo
               u == f.togo
               l == Rows!Lines(e.img)
    <3>1. a \in Nat /\ b \in Nat
      BY <1>1, <1>8, Joined DEF InCall
    <3>2. s \in Nat /\ t \in Nat /\ u \in Nat /\ s + a + t = l /\ s + b + u = l /\ u <= t
      BY <1>1, <1>8, <1>9, <2>1 DEF InCall, Counted
    <3> HIDE DEF a, b, s, t, u, l
    <3>3. b >= a
      BY <3>1, <3>2
    <3>. QED
      BY <3>3 DEF a, b
  <2>3. f.togo > 0 => e.togo > 0
    BY <1>1, <1>9, <2>1
  <2>. QED
    BY <2>1, <2>2, <2>3
<1> DEFINE m == n + (f.ctr - e.ctr)
<1>11. f.togo > 0 => LinesDone(f) = m * V + LinesOut(f) /\ OwedIs(f, m)
  BY <1>1, <1>4, <1>7, <1>9, NextGroup
<1>12. f.togo > 0 => m = Current(f) * M + f.ctr
  <2> DEFINE a == Current(e) * M
  <2>1. e.togo > 0 => a \in Nat /\ n = a + e.ctr
    <3> DEFINE k == Current(e)
    <3>1. (e.togo > 0 => k \in Nat /\ n = a + e.ctr) /\ M \in Nat /\ a = k * M
      BY <1>1, <1>3
    <3> HIDE DEF k, M, a
    <3>2. e.togo > 0 => k * M \in Nat
      BY <3>1
    <3>. QED
      BY <3>1, <3>2
  <2>2. Current(f) * M = a
    BY <1>8
  <2> HIDE DEF a, M
  <2>3. e.togo > 0 => m = a + f.ctr
    BY <1>1, <1>9, <2>1 DEF m
  <2>. QED
    BY <1>10, <2>2, <2>3
<1>13. e.togo > 0 => f.whichptr \in 0 .. 1
  BY <1>2, <1>8 DEF Alike
<1>14. CASE f.ctr < f.avail
  <2>1. Rows!ProcessIMCU(e, max) = f
    BY <1>14 DEF Rows!ProcessIMCU, f
  <2>2. f.togo > 0 => ModeRight(f)
    <3> SUFFICES ASSUME f.togo > 0 PROVE ModeRight(f)
      OBVIOUS
    <3>1. e.togo > 0
      BY <1>10
    <3>2. RowsThere(f) /\ RowAbove(f) /\ RowBelow(f)
      BY <1>2, <1>8, <3>1, AlikeRows
    <3>3. AtBottom(f) <=> AtBottom(e)
      BY <1>8, <1>9 DEF AtBottom
    <3>4. (GoAround(f) <=> GoAround(e))
      BY <1>8 DEF GoAround
    <3>5. AtBottom(f) \/ ListsRight(f)
      BY <1>2, <1>8, <3>1, <3>3, <3>4, AlikeRows
    <3>6. Available(f) = Available(e)
      BY <1>9, <3>3 DEF Available
    <3>7. ProcessRight(f)
      BY <1>2, <1>8, <1>14, <3>1, <3>2, <3>5, <3>6 DEF ProcessRight
    <3>. QED
      BY <1>8, <1>9, <3>7 DEF ModeRight
  <2>3. f.togo > 0 => GroupNo(f) = m
    BY <1>8, <1>9, <1>12 DEF GroupNo
  <2>4. CallRight(f, max)
    BY <1>8, <1>9, <1>10, <1>11, <1>13, <2>2, <2>3 DEF CallRight, PictureRight, AtWork
  <2>. QED
    BY <1>8, <1>9, <1>10, <2>1, <2>4 DEF Proceeds
<1>15. CASE ~(f.ctr < f.avail)
  <2> DEFINE list == IF f.icount = 1 THEN Rows!SetWraparoundPointers(f) ELSE f.xbuf
             other == 1 - f.whichptr
             no == FALSE
             at == M + 1
             end == M + 2
             st == "postponed"
             h == [f EXCEPT !.xbuf = list, !.whichptr = other, !.full = no,
                            !.ctr = at, !.avail = end, !.state = st]
  <2>1. Rows!ProcessIMCU(e, max) = h
    BY <1>15 DEF Rows!ProcessIMCU, f
  <2>2. InCall(h, max)
    BY <1>1, <2>1, ProcessIs DEF Handed
  <2> HIDE DEF list, other, no, at, end, st
  <2>3. /\ h.full = no /\ h.ctr = at /\ h.avail = end /\ h.state = st /\ h.xbuf = list /\ h.whichptr = other
        /\ h.img = f.img /\ h.mem = f.mem /\ h.imcu = f.imcu /\ h.togo = f.togo /\ h.lines = f.lines
        /\ h.scanline = f.scanline /\ h.next_row_out = f.next_row_out /\ h.spare = f.spare
        /\ h.color = f.color /\ h.suspended = f.suspended
    BY <1>9 DEF RowFields
  <2> HIDE DEF h
  <2>4. Told(h) /\ Buffered(h)
    BY <1>10, <2>3 DEF Told, Buffered
  <2>5. ASSUME f.togo > 0 PROVE AtWork(h)
    <3>1. e.togo > 0 /\ e.ctr < e.avail /\ e.full /\ e.whichptr \in 0 .. 1
      BY <1>2, <1>10, <2>5
    <3>2. f.ctr = e.ctr + 1 /\ f.ctr = e.avail
      <4> DEFINE a == e.ctr
                 b == e.avail
                 c == f.ctr
      <4>1. a \in Nat /\ b \in Nat /\ c \in {a, a + 1} /\ a < b /\ ~(c < b)
        BY <1>1, <1>8, <1>9, <1>15, <3>1
      <4> HIDE DEF a, b, c
      <4>2. c = a + 1 /\ c = b
        BY <4>1
      <4>. QED
        BY <4>2 DEF a, b, c
    <3>3. LinesOut(f) = 0 /\ LinesDone(f) = (n + 1) * V
      <4>1. f.ctr # e.ctr
        BY <1>1, <3>2
      <4>. QED
        BY <1>7, <1>9, <3>1, <4>1 DEF UpsamplesOn
    <3>4. m = n + 1 /\ m = Current(e) * M + e.avail
      <4>1. Current(f) * M = Current(e) * M
        BY <1>8
      <4>2. f.ctr - e.ctr = 1
        BY <1>1, <3>2
      <4>. QED
        BY <1>12, <2>5, <3>2, <4>1, <4>2
    <3>5. ~AtBottom(e)
      <4> SUFFICES ASSUME AtBottom(e) PROVE FALSE
        OBVIOUS
      <4> DEFINE a == (Rows!RowsLeft(e.img, 1) - 1) \div Rows!Group(e.img, 1) + 1
                 l == Rows!Lines(e.img)
      <4>1. l <= ((T - 1) * M + a) * V
        BY <1>1, BottomIsAll
      <4>2. e.avail = a /\ Current(e) = T - 1
        BY <1>2, <1>3, <3>1 DEF Available, AtBottom
      <4>3. l <= LinesDone(f)
        <5> HIDE DEF a, l, T, V, M
        <5>1. (T - 1) * M + a = n + 1
          BY <3>4, <4>2
        <5>. QED
          BY <3>3, <4>1, <5>1
      <4>4. LinesDone(f) = l - f.togo
        BY <1>9 DEF LinesDone
      <4>5. l \in Nat
        BY <1>1, Sizes
      <4> HIDE DEF l
      <4>. QED
        BY <1>9, <2>5, <4>3, <4>4, <4>5
    <3>6. e.avail = M - 1 /\ ListsRight(e) /\ RowsThere(e) /\ e.imcu \in Nat \ {0}
      BY <1>1, <1>2, <1>3, <3>1, <3>5 DEF Available
    <3>7. ListsRight(f) /\ RowsThere(f) /\ ~AtBottom(f)
      <4>1. GoAround(f) <=> GoAround(e)
        BY <1>8 DEF GoAround
      <4>2. AtBottom(f) <=> AtBottom(e)
        BY <1>8, <1>9 DEF AtBottom
      <4>. QED
        BY <1>8, <3>5, <3>6, <4>1, <4>2, AlikeRows
    <3>8. ListsRight(h)
      <4>1. h.xbuf = IF f.icount = 1 THEN Rows!SetWraparoundPointers(f) ELSE f.xbuf
        BY <2>3 DEF list
      <4>2. h.state = "postponed"
        BY <2>3 DEF st
      <4>3. /\ f.img \in Images /\ Rows!Context(f.img) /\ f.imcu \in Nat \ {0} /\ f.icount = f.imcu
            /\ f.state = "process" /\ h.img = f.img /\ h.imcu = f.imcu
        BY <1>1, <1>8, <1>9, <2>3, <3>6
      <4>. QED
        BY <3>7, <4>1, <4>2, <4>3, ListsTurn
    <3>9. RowsBefore(h)
      <4>1. /\ f.img \in Images /\ Rows!Context(f.img) /\ f.imcu \in Nat \ {0} /\ f.full
            /\ f.whichptr \in 0 .. 1 /\ h.img = f.img /\ h.imcu = f.imcu /\ h.mem = f.mem
            /\ ~h.full /\ h.whichptr = 1 - f.whichptr
        BY <1>1, <1>8, <1>9, <1>13, <2>3, <3>1, <3>6 DEF no, other
      <4>. QED
        BY <3>7, <3>8, <4>1, RowsTurn
    <3>10. LinesOut(h) = 0 /\ LinesDone(h) = LinesDone(f) /\ ~AtBottom(h) /\ ~h.full
      BY <2>3, <3>3, <3>7 DEF LinesOut, LinesDone, AtBottom, no
    <3>11. PostponedRight(h)
      BY <1>8, <1>9, <2>3, <3>6, <3>8, <3>9, <3>10 DEF PostponedRight, at, end
    <3>12. h.whichptr \in 0 .. 1
      <4>1. f.whichptr \in 0 .. 1 /\ h.whichptr = 1 - f.whichptr
        BY <1>13, <2>3, <3>1 DEF other
      <4>. QED
        BY <4>1
    <3>13. ModeRight(h)
      BY <1>9, <2>3, <3>11 DEF ModeRight, st
    <3>14. GroupNo(h) = m
      <4>1. GroupNo(h) = e.imcu * M - 1
        BY <1>8, <1>9, <2>3, <3>10 DEF GroupNo, Current, st
      <4>2. m = (e.imcu - 1) * M + (M - 1)
        BY <1>3, <3>1, <3>4, <3>6
      <4> DEFINE i == e.imcu
      <4>3. i \in Nat /\ M \in Nat
        BY <1>1, <3>6
      <4>4. (i - 1) * M + (M - 1) = i * M - 1
        <5> HIDE DEF i, M
        <5>1. (i - 1) * M = i * M - 1 * M /\ i * M \in Int
          BY <4>3, ProductLaws
        <5>. QED
          BY <4>3, <5>1
      <4>. QED
        BY <4>1, <4>2, <4>4
    <3>15. LinesDone(h) = GroupNo(h) * Rows!MaxV(h.img) + LinesOut(h)
      BY <1>9, <1>11, <2>3, <2>5, <3>3, <3>10, <3>14
    <3>16. OwedIs(h, GroupNo(h))
      BY <3>10 DEF OwedIs
    <3>. QED
      BY <3>12, <3>13, <3>15, <3>16 DEF AtWork
  <2>6. CallRight(h, max)
    BY <2>2, <2>3, <2>4, <2>5 DEF CallRight, PictureRight
  <2>. QED
    BY <1>8, <1>9, <1>10, <2>1, <2>3, <2>6 DEF Proceeds
<1>. QED
  BY <1>14, <1>15

\* The row above an iMCU row is the last of those before.
LEMMA RowAboveIs ==
    ASSUME NEW e, e.img \in Images, Rows!Context(e.img), e.full, e.imcu \in 2 .. Rows!TotalRows(e.img),
           e.whichptr \in 0 .. 1, ListsRight(e), RowsBefore(e)
    PROVE  RowAbove(e)
<1> SUFFICES ASSUME NEW c \in DOMAIN e.img.v
             PROVE  RowIs(e, c, -1, Rows!Near(e.img, c, Current(e) * Rows!Height(e.img, c) - 1))
  BY DEF RowAbove
<1> DEFINE p == e.img
           w == e.whichptr
           g == Rows!Group(p, c)
           n == g * Rows!Groups(p)
           H == Rows!Height(p, c)
           R == Rows!Rows(p, c)
           T == Rows!TotalRows(p)
           k == Current(e)
           b == k * H
<1>1. k = e.imcu - 1 /\ k \in Nat \ {0} /\ k <= T - 1 /\ T \in Nat
  <2>1. k = e.imcu - 1 /\ e.imcu \in 2 .. T /\ T \in Nat
    BY Sizes DEF Current
  <2> HIDE DEF k, T
  <2>. QED
    BY <2>1
<1>2. g \in Nat \ {0} /\ n = H + 2 * g /\ H \in Nat \ {0} /\ R \in Nat /\ (T - 1) * H < R
  <2>1. g \in Nat \ {0} /\ n = H + 2 * g
    BY TurnIs
  <2>. QED
    BY <2>1, ComponentSizes, PictureSizes
<1>3. b \in Nat \ {0} /\ b < R
  <2> HIDE DEF H, k, T, R
  <2>1. k * H <= (T - 1) * H /\ 1 * H <= k * H
    BY <1>1, <1>2, ProductOrder
  <2>2. k * H \in Int /\ (T - 1) * H \in Int
    BY <1>1, <1>2, ProductLaws
  <2>. QED
    BY <1>2, <2>1, <2>2
<1>4. Rows!Near(p, c, b - 1) = b - 1
  <2> HIDE DEF b
  <2>1. b - 1 \in Int /\ ~(b - 1 < 0) /\ b - 1 < R
    BY <1>2, <1>3
  <2>. QED
    BY <2>1, NearIs
<1>5. Rows!Row(e, w, c, n - 1) = b - 1
  <2>1. 1 \in 1 .. 2 * g
    <3> HIDE DEF g
    <3>. QED
      BY <1>2
  <2>. QED
    BY <2>1 DEF RowsBefore, RowIs
<1>6. e.xbuf[w][c][-1] = e.xbuf[w][c][n - 1]
  <2>1. ListRight(e, w, c) /\ GoAround(e)
    BY DEF ListsRight, GoAround
  <2>2. 1 \in 1 .. g /\ 0 - 1 = -1
    BY <1>2
  <2>3. e.xbuf[w][c][0 - 1] = e.xbuf[w][c][n - 1]
    BY <2>1, <2>2 DEF ListRight
  <2>. QED
    BY <2>2, <2>3
<1>7. Rows!Row(e, w, c, -1) = Rows!Row(e, w, c, n - 1)
  BY <1>6 DEF Rows!Row, Rows!Place
<1> HIDE DEF b, n
<1>8. RowIs(e, c, -1, Rows!Near(p, c, b - 1))
  BY <1>4, <1>5, <1>7 DEF RowIs
<1>. QED
  BY <1>8 DEF b, p

\* The row group that waited for the iMCU row that is there now.
LEMMA PostponedGoes ==
    ASSUME NEW max \in Nat \ {0}, NEW e, CallRight(e, max), Rows!Context(e.img), e.state = "postponed",
           e.lines = <<>>, e.full, e.togo > 0
    PROVE  Proceeds(e, Rows!PostponedRow(e, max), max)
<1> DEFINE f == Rows!PostProcess(e, max)
           M == e.img.M
           n == GroupNo(e)
           V == Rows!MaxV(e.img)
           T == Rows!TotalRows(e.img)
<1>1. /\ InCall(e, max) /\ e.img \in Images /\ M \in Nat \ {0} /\ V \in Nat \ {0}
      /\ e.imcu \in 0 .. T /\ T \in Nat /\ e.togo \in Nat
  BY Sizes DEF CallRight, InCall, Counted
<1>2. /\ e.whichptr \in 0 .. 1 /\ e.imcu > 1 /\ RowsThere(e) /\ ListsRight(e) /\ RowsBefore(e)
      /\ e.ctr = M + 1 /\ e.avail = M + 2
  BY DEF CallRight, PictureRight, AtWork, ModeRight, PostponedRight
<1>3. e.imcu \in 2 .. T /\ Current(e) = e.imcu - 1 /\ Current(e) \in Nat /\ e.ctr \in Nat
  BY <1>1, <1>2 DEF Current
<1>4. n = Current(e) * M - 1
  BY DEF GroupNo
<1>5. n \in Nat /\ GroupIs(e, n)
  <2>1. Current(e) * M - 1 \in Nat /\ GroupIs(e, Current(e) * M - 1)
    BY <1>1, <1>2, <1>3, GroupThatWaited
  <2>. QED
    BY <1>4, <2>1
<1>6. Stands(e, n)
  BY <1>5, StandsThere
<1>7. Len(e.lines) = 0
  OBVIOUS
<1> HIDE DEF n
<1>8. UpsamplesOn(e, f, n)
  BY <1>1, <1>5, <1>6, <1>7, PostGoes
<1>9. /\ InCall(f, max) /\ Alike(e, f) /\ f.ctr \in {e.ctr, e.ctr + 1} /\ f.state = e.state
      /\ f.full = e.full /\ f.imcu = e.imcu /\ f.icount = e.icount /\ f.scanline = e.scanline
      /\ f.avail = e.avail /\ f.suspended = e.suspended /\ Current(f) = Current(e)
  BY <1>1, PostHas
<1> HIDE DEF f
<1>10. /\ f.img = e.img /\ f.togo \in Nat /\ f.ctr \in Nat /\ DOMAIN f = RowFields
       /\ f.whichptr \in 0 .. 1
  BY <1>2, <1>9 DEF Alike, InCall, Counted
<1>11. Told(f) /\ Buffered(f) /\ Len(f.lines) > 0
  BY <1>7, <1>8 DEF UpsamplesOn
<1>12. Len(f.lines) \in Nat /\ Len(f.lines) <= max
  BY <1>9, Joined DEF InCall
<1>13. /\ GoAround(f) /\ RowsThere(f) /\ ListsRight(f) /\ RowsBefore(f)
  <2>1. GoAround(f) /\ GoAround(e)
    BY <1>2, <1>9 DEF GoAround
  <2>. QED
    BY <1>2, <1>9, <2>1, AlikeRows
<1>14. CASE f.ctr < f.avail
  <2>1. Rows!PostponedRow(e, max) = f
    BY <1>14 DEF Rows!PostponedRow, f
  <2>2. f.ctr = e.ctr
    BY <1>1, <1>2, <1>9, <1>14
  <2>3. f.togo > 0 => LinesDone(f) = n * V + LinesOut(f) /\ OwedIs(f, n)
    <3>1. n = n + (f.ctr - e.ctr)
      BY <1>3, <1>5, <2>2
    <3>. QED
      BY <1>1, <1>3, <1>5, <1>8, <1>10, <3>1, NextGroup
  <2>4. GroupNo(f) = n
    BY <1>4, <1>9, <1>10 DEF GroupNo
  <2>5. PostponedRight(f)
    BY <1>2, <1>3, <1>9, <1>10, <1>13, <2>2 DEF PostponedRight
  <2>6. ModeRight(f)
    BY <1>9, <1>10, <2>5 DEF ModeRight
  <2>7. CallRight(f, max)
    BY <1>9, <1>10, <1>11, <2>3, <2>4, <2>6 DEF CallRight, PictureRight, AtWork
  <2>. QED
    BY <1>7, <1>9, <1>10, <1>11, <1>12, <2>1, <2>7 DEF Proceeds
<1>15. CASE ~(f.ctr < f.avail)
  <2>1. f.ctr # e.ctr
    BY <1>1, <1>2, <1>9, <1>15
  <2>2. f.togo > 0 => Ready(f)
    <3> SUFFICES ASSUME f.togo > 0 PROVE Ready(f)
      OBVIOUS
    <3>1. LinesOut(f) = 0 /\ LinesDone(f) = (n + 1) * Rows!MaxV(f.img)
      BY <1>8, <2>1 DEF UpsamplesOn
    <3>2. n + 1 = Current(f) * f.img.M
      <4> DEFINE y == Current(f) * f.img.M
      <4>1. n = y - 1
        BY <1>4, <1>9, <1>10
      <4>2. y \in Int
        BY <1>1, <1>3, <1>9, <1>10
      <4> HIDE DEF y
      <4>3. n + 1 = y
        BY <4>1, <4>2
      <4>. QED
        BY <4>3 DEF y
    <3>3. RowAbove(f)
      BY <1>1, <1>3, <1>9, <1>10, <1>13, RowAboveIs
    <3>. QED
      BY <1>2, <1>3, <1>9, <1>10, <1>13, <3>1, <3>2, <3>3 DEF Ready
  <2>3. CASE Len(f.lines) >= max
    <3> DEFINE st == "prepare"
               h == [f EXCEPT !.state = st]
    <3>1. Rows!PostponedRow(e, max) = h
      BY <1>15, <2>3 DEF Rows!PostponedRow, f
    <3>2. InCall(h, max)
      <4>1. e.ctr < e.avail
        BY <1>1, <1>2
      <4>. QED
        BY <1>1, <3>1, <4>1, PostponedIs DEF Handed
    <3> HIDE DEF st
    <3>3. /\ h.state = st /\ h.full = f.full /\ h.ctr = f.ctr /\ h.xbuf = f.xbuf /\ h.whichptr = f.whichptr
          /\ h.img = f.img /\ h.mem = f.mem /\ h.imcu = f.imcu /\ h.togo = f.togo /\ h.lines = f.lines
          /\ h.scanline = f.scanline /\ h.next_row_out = f.next_row_out /\ h.spare = f.spare
          /\ h.color = f.color /\ h.suspended = f.suspended
      BY <1>10 DEF RowFields
    <3> HIDE DEF h
    <3>4. Told(h) /\ Buffered(h)
      BY <1>11, <3>3 DEF Told, Buffered
    <3>5. ASSUME f.togo > 0 PROVE AtWork(h)
      <4>1. Ready(f)
        BY <2>2, <3>5
      <4>2. Alike(f, h) /\ Current(h) = Current(f)
        BY <3>3 DEF Alike, Current
      <4>3. GoAround(h)
        BY <1>2, <1>9, <3>3 DEF GoAround
      <4>4. ListsRight(h) /\ RowsThere(h) /\ RowAbove(h)
        BY <1>13, <3>3, <4>1, <4>2, <4>3, AlikeRows DEF Ready
      <4>5. LinesOut(h) = 0 /\ LinesDone(h) = LinesDone(f)
        BY <3>3, <4>1 DEF LinesOut, LinesDone, Ready
      <4>6. PrepareRight(h)
        BY <3>3, <4>1, <4>4, <4>5 DEF PrepareRight, Ready
      <4>7. ModeRight(h)
        BY <1>10, <3>3, <4>6 DEF ModeRight, st
      <4>8. GroupNo(h) = Current(f) * f.img.M
        BY <1>10, <3>3, <4>2 DEF GroupNo, st
      <4>9. LinesDone(h) = GroupNo(h) * Rows!MaxV(h.img) + LinesOut(h)
        <5> DEFINE y == Current(f) * f.img.M * Rows!MaxV(f.img)
        <5>1. LinesDone(h) = y
          BY <4>1, <4>5 DEF Ready
        <5>2. LinesDone(h) \in Int
          BY <1>1, <1>10, <3>3, Sizes DEF LinesDone
        <5> HIDE DEF y
        <5>3. LinesDone(h) = y + 0
          BY <5>1, <5>2
        <5>. QED
          BY <3>3, <4>5, <4>8, <5>3 DEF y
      <4>10. OwedIs(h, GroupNo(h))
        BY <4>5 DEF OwedIs
      <4>. QED
        BY <1>10, <3>3, <4>7, <4>9, <4>10 DEF AtWork
    <3>6. CallRight(h, max)
      BY <3>2, <3>3, <3>4, <3>5 DEF CallRight, PictureRight
    <3>. QED
      BY <1>7, <1>9, <1>10, <1>11, <1>12, <3>1, <3>3, <3>6 DEF Proceeds
  <2>4. CASE ~(Len(f.lines) >= max)
    <3> DEFINE h == Rows!PrepareForIMCU(f)
               r == Rows!ProcessIMCU(h, max)
    <3>1. Rows!PostponedRow(e, max) = r
      BY <1>15, <2>4 DEF Rows!PostponedRow, f
    <3>2. Rows!Context(f.img)
      BY <1>10
    <3>3. /\ CallRight(h, max) /\ h.state = "process" /\ h.img = f.img /\ h.lines = f.lines
          /\ h.scanline = f.scanline /\ h.togo = f.togo /\ h.suspended = f.suspended
      BY <1>9, <1>11, <2>2, <3>2, PrepareGoes
    <3> HIDE DEF h
    <3>4. Len(h.lines) < max
      BY <1>12, <2>4, <3>3
    <3>5. Rows!Context(h.img)
      BY <3>2, <3>3
    <3>6. Proceeds(h, r, max)
      BY <3>3, <3>4, <3>5, ProcessGoes
    <3> HIDE DEF r
    <3>7. Len(r.lines) \in Nat
      BY <3>6, Joined DEF Proceeds, CallRight, InCall
    <3>8. Len(r.lines) > 0 /\ Len(r.lines) >= 0
      BY <1>11, <1>12, <3>3, <3>6, <3>7 DEF Proceeds
    <3>. QED
      BY <1>7, <1>9, <1>10, <3>1, <3>3, <3>6, <3>8 DEF Proceeds
  <2>. QED
    BY <2>3, <2>4
<1>. QED
  BY <1>14, <1>15

LEMMA ContextGoes ==
    ASSUME NEW max \in Nat \ {0}, NEW e, CallRight(e, max), Rows!Context(e.img), e.full,
           e.lines = <<>>, e.togo > 0
    PROVE  Proceeds(e, Rows!ContextMain(e, max), max)
<1>1. InCall(e, max) /\ Told(e) /\ Buffered(e) /\ AtWork(e) /\ e.state \in {"prepare", "process", "postponed"}
  BY DEF CallRight, PictureRight, InCall, Counted
<1>2. Len(e.lines) = 0 /\ Len(e.lines) < max
  OBVIOUS
<1>3. CASE e.state = "postponed"
  <2>1. Rows!ContextMain(e, max) = Rows!PostponedRow(e, max)
    BY <1>3 DEF Rows!ContextMain
  <2>. QED
    BY <1>3, <2>1, PostponedGoes
<1>4. CASE e.state = "prepare"
  <2> DEFINE h == Rows!PrepareForIMCU(e)
             r == Rows!ProcessIMCU(h, max)
  <2>1. Rows!ContextMain(e, max) = r
    BY <1>4 DEF Rows!ContextMain
  <2>2. PrepareRight(e) /\ e.whichptr \in 0 .. 1
    BY <1>1, <1>4 DEF AtWork, ModeRight
  <2>3. Ready(e)
    <3>1. LinesOut(e) = 0 /\ LinesDone(e) = GroupNo(e) * Rows!MaxV(e.img) + LinesOut(e)
      BY <1>1, <2>2 DEF AtWork, PrepareRight
    <3>2. GroupNo(e) = Current(e) * e.img.M
      BY <1>4 DEF GroupNo
    <3>3. LinesDone(e) = GroupNo(e) * Rows!MaxV(e.img)
      <4> DEFINE y == GroupNo(e) * Rows!MaxV(e.img)
      <4>1. LinesDone(e) = y + 0
        BY <3>1
      <4>2. y \in Int
        <5>1. Current(e) \in Int /\ e.img.M \in Int /\ Rows!MaxV(e.img) \in Int
          <6>1. e.imcu \in 0 .. Rows!TotalRows(e.img) /\ e.img \in Images
            BY <1>1 DEF InCall, Counted
          <6>2. Rows!TotalRows(e.img) \in Nat /\ e.img.M \in Int /\ Rows!MaxV(e.img) \in Int
            BY <6>1, Sizes
          <6>. QED
            BY <6>1, <6>2 DEF Current
        <5> DEFINE a == Current(e)
                   b == e.img.M
                   c == Rows!MaxV(e.img)
        <5> HIDE DEF a, b, c
        <5>2. a * b \in Int
          BY <5>1, ProductLaws DEF a, b, c
        <5> DEFINE u == a * b
        <5> HIDE DEF u
        <5>3. u * c \in Int
          BY <5>1, <5>2, ProductLaws DEF u, c
        <5>. QED
          BY <3>2, <5>3 DEF u, a, b, c
      <4> HIDE DEF y
      <4>3. LinesDone(e) = y
        BY <4>1, <4>2
      <4>. QED
        BY <4>3 DEF y
    <3>. QED
      BY <1>4, <2>2, <3>1, <3>2, <3>3 DEF Ready, PrepareRight
  <2>4. /\ CallRight(h, max) /\ h.state = "process" /\ h.img = e.img /\ h.lines = e.lines
        /\ h.scanline = e.scanline /\ h.togo = e.togo /\ h.suspended = e.suspended
    BY <1>1, <2>3, PrepareGoes
  <2> HIDE DEF h
  <2>5. Proceeds(h, r, max)
    <3>1. Len(h.lines) < max /\ Rows!Context(h.img)
      BY <1>2, <2>4
    <3>. QED
      BY <2>4, <3>1, ProcessGoes
  <2> HIDE DEF r
  <2>. QED
    BY <2>1, <2>4, <2>5 DEF Proceeds
<1>5. CASE e.state = "process"
  <2>1. Rows!ContextMain(e, max) = Rows!ProcessIMCU(e, max)
    BY <1>5 DEF Rows!ContextMain
  <2>. QED
    BY <1>2, <1>5, <2>1, ProcessGoes
<1>. QED
  BY <1>1, <1>3, <1>4, <1>5

\* A call that is not suspended gives the application one line at least.
LEMMA DataGoes ==
    ASSUME NEW max \in Nat \ {0}, NEW e, CallRight(e, max), e.full, e.lines = <<>>, e.togo > 0
    PROVE  LET f == Rows!ProcessData(e, max)
           IN  /\ CallRight(f, max) /\ f.lines # <<>> /\ f.img = e.img /\ f.scanline = e.scanline
               /\ f.suspended = e.suspended
<1>1. CASE ~Rows!Context(e.img)
  <2>1. Rows!ProcessData(e, max) = Rows!SimpleMain(e, max)
    BY <1>1 DEF Rows!ProcessData
  <2>. QED
    BY <1>1, <2>1, SimpleGoes
<1>2. CASE Rows!Context(e.img)
  <2> DEFINE f == Rows!ContextMain(e, max)
  <2>1. Rows!ProcessData(e, max) = f
    BY <1>2 DEF Rows!ProcessData
  <2>2. Proceeds(e, f, max)
    BY <1>2, ContextGoes
  <2> HIDE DEF f
  <2>3. Len(f.lines) > 0
    BY <2>2 DEF Proceeds
  <2>4. f.lines # <<>>
    BY <2>3
  <2>. QED
    BY <2>1, <2>2, <2>4 DEF Proceeds
<1>. QED
  BY <1>1, <1>2

\* A pass begins at the top of the picture.
LEMMA StartGoes ==
    ASSUME NEW e, DOMAIN e = RowFields, e.img \in Images
    PROVE  LET f == Rows!StartPass(e)
           IN  /\ PictureRight(f) /\ f.img = e.img /\ f.scanline = 0 /\ f.lines = <<>> /\ ~f.suspended
               /\ DOMAIN f = RowFields
<1> DEFINE p == e.img
           xb == IF Rows!Context(p) THEN Rows!MakeFunnyPointers(e) ELSE e.xbuf
           zero == 0
           no == FALSE
           st == "prepare"
           V == Rows!MaxV(p)
           L == Rows!Lines(p)
           none == <<>>
           n == e.passes + 1
           h == [e EXCEPT !.xbuf = xb, !.whichptr = zero, !.state = st, !.icount = zero,
                          !.full = no, !.ctr = zero, !.next_row_out = V, !.togo = L,
                          !.spare = none, !.imcu = zero, !.scanline = zero, !.lines = none,
                          !.suspended = no, !.passes = n]
<1>1. Rows!StartPass(e) = h
  BY DEF Rows!StartPass
<1>2. V \in Nat \ {0} /\ L \in Nat /\ p.M \in Nat
  BY Sizes
<1> HIDE DEF xb, zero, no, st, V, L, none, n
<1>3. /\ DOMAIN h = RowFields /\ h.img = p /\ h.ctr = zero /\ h.full = no /\ h.xbuf = xb
      /\ h.imcu = zero /\ h.icount = zero /\ h.suspended = no /\ h.state = st /\ h.togo = L
      /\ h.scanline = zero /\ h.next_row_out = V /\ h.whichptr = zero /\ h.spare = none
      /\ h.lines = none
  BY DEF RowFields
<1> HIDE DEF h
<1>4. Buffered(h)
  BY <1>2, <1>3 DEF Buffered, V, none
<1>5. LinesOut(h) = 0 /\ LinesDone(h) = 0 /\ GroupNo(h) = 0
  <2>1. LinesOut(h) = 0
    BY <1>3 DEF LinesOut, V, none
  <2>2. LinesDone(h) = 0
    BY <1>2, <1>3 DEF LinesDone, L
  <2>3. Current(h) = 0
    BY <1>3 DEF Current, no, zero
  <2>4. GroupNo(h) = 0
    <3>1. 0 * p.M = 0 /\ 0 * p.M + 0 = 0
      BY <1>2
    <3>. QED
      BY <1>3, <2>3, <3>1 DEF GroupNo, zero, st
  <2>. QED
    BY <2>1, <2>2, <2>4
<1>6. Rows!Context(p) => DOMAIN h.xbuf = 0 .. 1
  BY <1>3 DEF xb, Rows!MakeFunnyPointers
<1>7. Rows!Context(p) => ListsRight(h)
  <2> SUFFICES ASSUME Rows!Context(p), NEW w \in 0 .. 1, NEW c \in DOMAIN p.v PROVE ListRight(h, w, c)
    BY <1>3, <1>6 DEF ListsRight
  <2> DEFINE g == Rows!Group(p, c)
             m == g * Rows!Groups(p)
             A == Rows!List(p, c)
             x == h.xbuf[w][c]
             old == e.xbuf[w][c]
             H == Rows!Height(p, c)
             Tu(i) == IF i >= g * p.M THEN i - 2 * g ELSE IF i >= g * (p.M - 2) THEN i + 2 * g ELSE i
  <2>1. ~GoAround(h)
    BY <1>3 DEF GoAround, zero
  <2>2. h.xbuf = Rows!MakeFunnyPointers(e)
    BY <1>3 DEF xb
  <2>3. h.xbuf[w] = [k \in DOMAIN p.v |-> [i \in Rows!List(p, k) |->
           IF i \in Rows!Places(p, k)
           THEN IF w = 0 THEN i
                ELSE IF i >= Rows!Group(p, k) * p.M THEN i - 2 * Rows!Group(p, k)
                     ELSE IF i >= Rows!Group(p, k) * (p.M - 2) THEN i + 2 * Rows!Group(p, k) ELSE i
           ELSE IF i < 0 /\ w = 0 THEN 0 ELSE e.xbuf[w][k][i]]]
    BY <2>2 DEF Rows!MakeFunnyPointers
  <2>4. x = [i \in A |-> IF i \in 0 .. m - 1 THEN IF w = 0 THEN i ELSE Tu(i)
                         ELSE IF i < 0 /\ w = 0 THEN 0 ELSE old[i]]
    BY <2>3 DEF Rows!Places
  <2>5. g \in Nat \ {0} /\ m = H + 2 * g /\ m \in Nat /\ p.M \in {1, 2, 4, 8} /\ H \in Nat
    BY TurnIs, Sizes
  <2>6. A = 0 - g .. (m + g) - 1
    <3>1. A = 0 - g .. g * (p.M + 3) - 1
      BY DEF Rows!List
    <3>2. m = g * (p.M + 2)
      BY GroupsAre
    <3>3. g * (p.M + 3) = m + g
      <4> DEFINE M == p.M
                 u == g * (M + 3)
                 v == g * (M + 2)
      <4>1. M \in {1, 2, 4, 8}
        BY <2>5
      <4> HIDE DEF M, g
      <4>2. u = v + g
        <5>1. CASE M = 1
          BY <2>5, <5>1
        <5>2. CASE M = 2
          BY <2>5, <5>2
        <5>3. CASE M = 4
          BY <2>5, <5>3
        <5>4. CASE M = 8
          BY <2>5, <5>4
        <5>. QED
          BY <4>1, <5>1, <5>2, <5>3, <5>4
      <4> HIDE DEF u, v
      <4>3. m = v
        BY <3>2 DEF v, M
      <4>. QED
        BY <4>2, <4>3 DEF u, M
    <3> DEFINE u == g * (p.M + 3)
               v == m + g
    <3>4. A = 0 - g .. u - 1 /\ u = v
      BY <3>1, <3>3
    <3> HIDE DEF u, v, A, g, m
    <3>5. A = 0 - g .. v - 1
      BY <3>4
    <3>. QED
      BY <3>5 DEF v
  <2>7. \A i : Turn(p, c, w, i) = IF w = 0 THEN i ELSE Tu(i)
    BY DEF Turn
  <2> HIDE DEF g, m, A, x, old, H, Tu
  <2>8. \A i \in 0 .. m - 1 : x[i] = Turn(p, c, w, i)
    <3> TAKE i \in 0 .. m - 1
    <3>1. i \in A
      BY <2>5, <2>6
    <3>. QED
      BY <2>4, <2>7, <3>1
  <2>9. w = 0 => x[-1] = 0
    <3>1. -1 \in A /\ ~(-1 \in 0 .. m - 1) /\ -1 < 0
      BY <2>5, <2>6
    <3>. QED
      BY <2>4, <3>1
  <2>. QED
    BY <1>3, <2>1, <2>8, <2>9 DEF ListRight, g, m, x
<1>8. AtWork(h)
  <2>1. ModeRight(h)
    BY <1>3, <1>5, <1>7 DEF ModeRight, SimpleRight, PrepareRight, no, zero, st
  <2>2. 0 = 0 * Rows!MaxV(h.img) + 0
    BY <1>2, <1>3 DEF V
  <2>3. OwedIs(h, GroupNo(h))
    BY <1>5 DEF OwedIs
  <2>4. h.whichptr \in 0 .. 1
    BY <1>3 DEF zero
  <2>. QED
    BY <1>5, <2>1, <2>2, <2>3, <2>4 DEF AtWork
<1>. QED
  BY <1>1, <1>3, <1>4, <1>8 DEF PictureRight, zero, none, no
-----------------------------------------------------------------------------
(***************************************************************************)
(* The application's calls.                                                *)
(***************************************************************************)
\* What the application counts, and was told last, does not matter for the rest.
LEMMA PictureStays ==
    ASSUME NEW e, NEW f, PictureRight(e),
           \A x \in RowFields \ {"lines", "scanline", "suspended"} : f[x] = e[x]
    PROVE  PictureRight(f)
<1>1. /\ f.img = e.img /\ f.mem = e.mem /\ f.xbuf = e.xbuf /\ f.whichptr = e.whichptr
      /\ f.state = e.state /\ f.full = e.full /\ f.ctr = e.ctr /\ f.avail = e.avail
      /\ f.color = e.color /\ f.next_row_out = e.next_row_out /\ f.togo = e.togo
      /\ f.spare = e.spare /\ f.imcu = e.imcu
  BY DEF RowFields
<1>2. Buffered(f)
  BY <1>1 DEF PictureRight, Buffered
<1>3. ASSUME f.togo > 0 PROVE AtWork(f)
  <2>1. AtWork(e)
    BY <1>1, <1>3 DEF PictureRight
  <2>2. Alike(e, f) /\ Current(f) = Current(e) /\ (GoAround(f) <=> GoAround(e))
    BY <1>1 DEF Alike, Current, GoAround
  <2>3. /\ ListsRight(f) <=> ListsRight(e)
        /\ RowAbove(f) <=> RowAbove(e)
        /\ RowsBefore(f) <=> RowsBefore(e)
        /\ RowsThere(f) <=> RowsThere(e)
        /\ RowBelow(f) <=> RowBelow(e)
    BY <1>1, <2>2, AlikeRows
  <2>4. (AtBottom(f) <=> AtBottom(e)) /\ LinesDone(f) = LinesDone(e) /\ GroupNo(f) = GroupNo(e)
    BY <1>1, <2>2 DEF AtBottom, LinesDone, GroupNo
  <2>5. Available(f) = Available(e)
    BY <1>1, <2>4 DEF Available
  <2>6. LinesOut(f) = LinesOut(e) /\ OwedIs(f, GroupNo(f))
    BY <1>1, <2>1, <2>4, OwedStays DEF AtWork
  <2>7. ModeRight(f)
    <3>1. ModeRight(e)
      BY <2>1 DEF AtWork
    <3>2. SimpleRight(e) => SimpleRight(f)
      BY <1>1, <2>3, <2>6 DEF SimpleRight
    <3>3. PrepareRight(e) => PrepareRight(f)
      BY <1>1, <2>3, <2>6 DEF PrepareRight
    <3>4. ProcessRight(e) => ProcessRight(f)
      BY <1>1, <2>3, <2>4, <2>5 DEF ProcessRight
    <3>5. PostponedRight(e) => PostponedRight(f)
      BY <1>1, <2>3, <2>4, <2>6 DEF PostponedRight
    <3>. QED
      BY <1>1, <3>1, <3>2, <3>3, <3>4, <3>5 DEF ModeRight
  <2>. QED
    BY <1>1, <2>1, <2>4, <2>6, <2>7 DEF AtWork
<1>. QED
  BY <1>2, <1>3 DEF PictureRight

\* The invariant of an application with the picture it reads.
PictureInv == RowsInv /\ PictureRight(d)

LEMMA PictureInitial == ASSUME ProgramsInit PROVE PictureInv /\ Rows!Promise!Init
<1>1. Rows!Init
  BY DEF ProgramsInit
<1>2. RowsInv
  BY <1>1, RowsInitIs
<1>3. PICK p \in Images : d = Rows!StartPass(Rows!New(p))
  BY <1>1 DEF Rows!Init
<1> DEFINE e == Rows!New(p)
<1>4. DOMAIN e = RowFields /\ e.img = p
  BY DEF Rows!New, RowFields
<1> HIDE DEF e
<1>5. PictureRight(d) /\ d.scanline = 0 /\ d.lines = <<>> /\ ~d.suspended
  BY <1>3, <1>4, StartGoes DEF e
<1>. QED
  BY <1>2, <1>5 DEF PictureInv, Rows!Promise!Init

LEMMA CallsGo ==
    ASSUME PictureInv, NEW max \in 1 .. MaxLines, Rows!ReadScanlines(max)
    PROVE  PictureRight(d') /\ (Rows!Promise!Read \/ Rows!Promise!Suspend)
<1> DEFINE none == <<>>
           no == FALSE
           e == [d EXCEPT !.lines = none, !.suspended = no]
           ready == IF e.full THEN {e}
                    ELSE IF e.imcu < Rows!TotalRows(e.img) THEN {Rows!Filled(e)} ELSE {}
           done == {Rows!ProcessData(f, max) : f \in ready}
                     \union (IF e.full THEN {} ELSE Rows!Suspended(e))
<1>1. d.scanline < Rows!Lines(d.img)
      /\ \E f \in done : d' = [f EXCEPT !.scanline = @ + Len(f.lines)]
  BY DEF Rows!ReadScanlines
<1>2. max \in Nat \ {0}
  OBVIOUS
<1>3. /\ InCall(e, max) /\ Waits(e) /\ e.lines = <<>> /\ e.togo > 0
      /\ e.ctr <= Rows!Groups(e.img)
  BY <1>1, <1>2, CallIs DEF PictureInv, RowsInv
<1>4. /\ e.lines = none /\ e.suspended = no
      /\ \A x \in RowFields \ {"lines", "suspended"} : e[x] = d[x]
  <2>1. DOMAIN d = RowFields
    BY DEF PictureInv, RowsInv, RowsRight, Counted
  <2> HIDE DEF none, no
  <2>. QED
    BY <2>1 DEF RowFields
<1>5. PICK f \in done : d' = [f EXCEPT !.scanline = @ + Len(f.lines)]
  BY <1>1
<1> HIDE DEF e
<1>6. PictureRight(e)
  <2>1. PictureRight(d)
    BY DEF PictureInv
  <2>2. \A x \in RowFields \ {"lines", "scanline", "suspended"} : e[x] = d[x]
    BY <1>4
  <2>. QED
    BY <2>1, <2>2, PictureStays
<1>7. Told(e)
  <2>1. Len(e.lines) = 0
    BY <1>3
  <2>2. <<>> = [j \in 1 .. 0 |-> Rows!PictureLine(e.img, e.scanline + j)]
    OBVIOUS
  <2>. QED
    BY <1>3, <2>1, <2>2 DEF Told
<1>8. CallRight(e, max) /\ ~e.suspended
  BY <1>3, <1>4, <1>6, <1>7 DEF CallRight
<1>9. e.img = d.img /\ e.scanline = d.scanline
  BY <1>4 DEF RowFields
<1> DEFINE s == f.scanline + Len(f.lines)
           h == [f EXCEPT !.scanline = s]
<1>10. ASSUME CallRight(f, max)
       PROVE  /\ PictureRight(d') /\ d'.img = f.img /\ d'.lines = f.lines /\ d'.suspended = f.suspended
              /\ d'.scanline = f.scanline + Len(f.lines)
  <2>1. DOMAIN f = RowFields /\ PictureRight(f)
    BY <1>10 DEF CallRight, InCall, Counted
  <2>2. d' = h
    BY <1>5
  <2> HIDE DEF s, done
  <2>3. /\ h.scanline = s /\ \A x \in RowFields \ {"scanline"} : h[x] = f[x]
    BY <2>1 DEF RowFields
  <2>4. h.img = f.img /\ h.lines = f.lines /\ h.suspended = f.suspended
    BY <2>3 DEF RowFields
  <2> HIDE DEF h
  <2>5. PictureRight(h)
    BY <2>1, <2>3, PictureStays
  <2>. QED
    BY <2>2, <2>3, <2>4, <2>5 DEF s
<1>11. CASE \E g \in ready : f = Rows!ProcessData(g, max)
  <2>1. PICK g \in ready : f = Rows!ProcessData(g, max)
    BY <1>11
  <2>2. /\ CallRight(g, max) /\ g.full /\ g.lines = <<>> /\ g.togo > 0 /\ g.img = e.img
        /\ g.scanline = e.scanline /\ g.suspended = e.suspended
    <3>1. CASE e.full
      BY <1>3, <1>8, <3>1
    <3>2. CASE ~e.full /\ e.imcu < Rows!TotalRows(e.img)
      <4>1. g = Rows!Filled(e)
        BY <3>2
      <4>2. CallRight(g, max) /\ g.full
        BY <1>2, <1>3, <1>8, <3>2, <4>1, FilledKeeps
      <4>3. DOMAIN e = RowFields
        BY <1>3 DEF InCall, Counted
      <4> HIDE DEF ready
      <4>4. \A x \in RowFields \ {"mem", "imcu", "full", "icount"} : g[x] = e[x]
        BY <4>1, <4>3, FilledHas
      <4>5. g.lines = e.lines /\ g.togo = e.togo /\ g.img = e.img /\ g.scanline = e.scanline
            /\ g.suspended = e.suspended
        BY <4>4 DEF RowFields
      <4>. QED
        BY <1>3, <4>2, <4>5
    <3>. QED
      BY <3>1, <3>2
  <2> HIDE DEF ready, done
  <2>3. /\ CallRight(f, max) /\ f.lines # <<>> /\ f.img = e.img /\ f.scanline = e.scanline
        /\ ~f.suspended
    BY <1>2, <1>8, <2>1, <2>2, DataGoes
  <2> DEFINE n == Len(f.lines)
             l == Rows!Lines(d.img)
  <2>4. n \in 1 .. l - d.scanline
    <3>1. IsSq(f.lines) /\ f.scanline + n + f.togo = l /\ f.togo \in Nat /\ f.scanline \in Nat
      BY <1>9, <2>3 DEF CallRight, InCall, Counted
    <3>2. n \in Nat
      BY <3>1, Joined
    <3>3. n # 0
      <4>1. PICK S : f.lines \in Seq(S)
        BY <3>1 DEF IsSq
      <4>. QED
        BY <2>3, <4>1
    <3>4. f.scanline = d.scanline
      BY <1>9, <2>3
    <3> DEFINE b == d.scanline
               t == f.togo
    <3>5. b \in Nat /\ t \in Nat /\ b + n + t = l
      BY <3>1, <3>4
    <3> HIDE DEF n, l, b, t
    <3>6. n \in 1 .. l - b
      BY <3>2, <3>3, <3>5
    <3>. QED
      BY <3>6 DEF b
  <2>5. f.lines = [j \in 1 .. n |-> Rows!PictureLine(d.img, d.scanline + j)]
    BY <1>9, <2>3 DEF CallRight, Told
  <2>6. /\ PictureRight(d') /\ d'.img = d.img /\ d'.lines = f.lines /\ ~d'.suspended
        /\ d'.scanline = d.scanline + n
    BY <1>9, <1>10, <2>3
  <2> HIDE DEF n, l
  <2>7. Rows!Promise!Read
    BY <2>4, <2>5, <2>6 DEF Rows!Promise!Read, l
  <2>. QED
    BY <2>6, <2>7
<1>12. CASE ~e.full /\ f \in Rows!Suspended(e)
  <2> HIDE DEF ready, done
  <2>1. CallRight(f, max) /\ f.lines = e.lines /\ f.suspended /\ f.img = e.img /\ f.scanline = e.scanline
    BY <1>2, <1>3, <1>8, <1>12, SuspendedKeeps
  <2>2. PictureRight(d') /\ d'.img = d.img /\ d'.lines = <<>> /\ d'.suspended /\ d'.scanline = d.scanline
    <3>1. Len(f.lines) = 0 /\ d.scanline + 0 = d.scanline
      <4>1. f.scanline \in Nat
        BY <2>1 DEF CallRight, InCall, Counted
      <4>. QED
        BY <1>3, <1>9, <2>1, <4>1
    <3>. QED
      BY <1>3, <1>9, <1>10, <2>1, <3>1
  <2>3. Rows!Promise!Suspend
    BY <2>2 DEF Rows!Promise!Suspend
  <2>. QED
    BY <2>2, <2>3
<1>13. (\E g \in ready : f = Rows!ProcessData(g, max)) \/ (~e.full /\ f \in Rows!Suspended(e))
  <2>1. (\E g \in ready : f = Rows!ProcessData(g, max)) \/ f \in (IF e.full THEN {} ELSE Rows!Suspended(e))
    <3> HIDE DEF ready
    <3>. QED
      OBVIOUS
  <2>. QED
    BY <2>1
<1>. QED
  BY <1>11, <1>12, <1>13

LEMMA PictureNext ==
    ASSUME PictureInv, [ProgramsNext]_allVars
    PROVE  PictureInv' /\ [Rows!Promise!Next]_Rows!Promise!vars
<1>1. Rows!Next \/ UNCHANGED d
  BY DEF ProgramsNext, allVars, RowsRest
<1>2. RowsInv'
  BY <1>1, RowsKeeps DEF PictureInv
<1>3. PictureRight(d') /\ [Rows!Promise!Next]_Rows!Promise!vars
  <2>1. ASSUME NEW max \in 1 .. MaxLines, Rows!ReadScanlines(max)
        PROVE  PictureRight(d') /\ [Rows!Promise!Next]_Rows!Promise!vars
    BY <2>1, CallsGo DEF Rows!Promise!Next
  <2>2. CASE Rows!StartOutput
    <3>1. d' = Rows!StartPass(d) /\ DOMAIN d = RowFields /\ d.img \in Images
      BY <2>2 DEF Rows!StartOutput, PictureInv, RowsInv, RowsRight, Counted
    <3>2. PictureRight(d') /\ d'.img = d.img /\ d'.scanline = 0 /\ d'.lines = <<>> /\ ~d'.suspended
      BY <3>1, StartGoes
    <3>3. Rows!Promise!StartPass
      BY <3>2 DEF Rows!Promise!StartPass, Rows!Promise!Init
    <3>. QED
      BY <3>2, <3>3 DEF Rows!Promise!Next
  <2>3. CASE UNCHANGED d
    BY <2>3 DEF PictureInv, Rows!Promise!vars
  <2>. QED
    BY <1>1, <2>1, <2>2, <2>3 DEF Rows!Next
<1>4. PictureRight(d)'
  BY <1>3 DEF PictureRight, Buffered, AtWork, LinesDone, LinesOut, GroupNo, OwedIs, ModeRight,
              SimpleRight, PrepareRight, ProcessRight, PostponedRight, Available, RowsThere,
              RowAbove, RowBelow, RowsBefore, LastPlace, AtBottom, Current, RowIs, ListsRight,
              ListRight, GoAround, Turn
<1>. QED
  BY <1>2, <1>3, <1>4 DEF PictureInv

\* However few lines the application takes at a time, wherever decompress_data runs out of
\* data, and whenever another pass is begun: each call that does not suspend returns the
\* next lines of the picture, one at least; each line is made of the nearest rows of the
\* image, with fancy upsampling also of the row above or below, at the top and bottom of
\* the first and last rows; although the workspace has few row groups, the two lists of
\* pointers go around, and the last row group waits for the next iMCU row.  For pictures
\* of any height, any number of components, and every sampling factor and scale.
THEOREM PicturesComeOut == ProgramsSpec => IsPicture
<1>1. ProgramsInit => PictureInv /\ Rows!Promise!Init
  BY PictureInitial
<1>2. PictureInv /\ [ProgramsNext]_allVars => PictureInv' /\ [Rows!Promise!Next]_Rows!Promise!vars
  BY PictureNext
<1>3. ProgramsSpec => Rows!Promise!Init /\ [][Rows!Promise!Next]_Rows!Promise!vars
  BY <1>1, <1>2, PTL DEF ProgramsSpec
<1>. QED
  BY <1>3 DEF IsPicture, Rows!IsPicture, Rows!Promise!Spec
=============================================================================
