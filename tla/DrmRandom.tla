----------------------------- MODULE DrmRandom -----------------------------
(***************************************************************************)
(* drm/xf86drmRandom.c: the generator seed' = a * seed mod m of Park and   *)
(* Miller, computed as Schrage does so that no product outgrows a word of  *)
(* 32 bits.  The subtraction is of unsigned numbers: it may wrap around,   *)
(* and adding m wraps it back.                                             *)
(***************************************************************************)
EXTENDS Integers

CONSTANTS
    A, M,     \* the multiplier and the modulus
    Word,     \* 2 to the number of bits of an unsigned long
    Seeds,    \* what drmRandomCreate gets called with
    MaxDraws  \* bound: numbers drawn

ASSUME DrmRandomAssumption ==
    /\ A \in Nat \ {0} /\ M \in Nat /\ M > A
    /\ Word \in Nat /\ Seeds \subseteq Nat /\ MaxDraws \in Nat

VARIABLES
    seed,    \* state->seed
    draws

randomVars == <<seed, draws>>

Q == M \div A
R == M % A

\* drmRandomCreate chooses the closest legal seed.
Legal(s) == IF s <= 0 THEN 1 ELSE IF s >= M THEN M - 1 ELSE s

\* drmRandom, in the integers: the difference, made positive.
Schrage(s) ==
    LET hi == s \div Q
        lo == s % Q
    IN  (A * lo - R * hi) + (IF A * lo <= R * hi THEN M ELSE 0)

\* Faulty variant: a difference that wrapped around is left as it is.
NoWrapBack(s) ==
    LET hi == s \div Q
        lo == s % Q
    IN  (((A * lo) % Word) - ((R * hi) % Word)) % Word

\* drmRandom, in unsigned words.
InWords(s) ==
    LET hi == s \div Q
        lo == s % Q
        d  == (((A * lo) % Word) - ((R * hi) % Word)) % Word
    IN  IF (A * lo) % Word <= (R * hi) % Word THEN (d + M) % Word ELSE d

\* The product modulo m, of numbers that have no overflow to fear.
ProductMod(s) == (A * s) % M

RandomInit == \E s \in Seeds : seed = Legal(s) /\ draws = 0

Draw ==
    /\ draws < MaxDraws
    /\ draws' = draws + 1
    /\ seed' = InWords(seed)

RandomNext == Draw

RandomSpec == RandomInit /\ [][RandomNext]_randomVars
-----------------------------------------------------------------------------
\* A legal seed stays legal: the generator neither gets stuck at 0 nor reaches m.
SeedLegal == seed \in 1 .. (M - 1)

\* Every number is the product of the one before modulo m: neither is the product
\* ever computed, nor does it matter that the difference wraps around.
IsProduct == [][seed' = ProductMod(seed)]_randomVars
=============================================================================
