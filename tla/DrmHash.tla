------------------------------ MODULE DrmHash ------------------------------
(***************************************************************************)
(* drm/xf86drmHash.c: a table of 512 lists of buckets.  A key that is found*)
(* moves to the top of its list, and an iteration keeps a pointer into the *)
(* lists: the two get along only in part.                                  *)
(*                                                                         *)
(* Only the lists some key of Keys hashes to are kept; the others are      *)
(* always empty.  A bucket is known by its key.                            *)
(***************************************************************************)
EXTENDS Integers, Sequences, FiniteSets, SequencesExt

CONSTANTS
    Keys, Vals,
    HashSize,   \* HASH_SIZE
    Scatter     \* the random numbers of HashHash, by byte

VARIABLES
    buckets,  \* the lists
    p0, p1,   \* the iteration: the next list, and the bucket to return next
    reply,    \* what the last call returned
    seen      \* history: the iteration since drmHashFirst

hashVars == <<buckets, p0, p1, reply, seen>>

\* The bytes of a key, lowest first; 0 has none.
Bytes[k \in Nat] == IF k = 0 THEN <<>> ELSE <<k % 256>> \o Bytes[k \div 256]

\* HashHash; the table's size divides the word's, so the remainder may be taken
\* at every byte.
HashHash(k) == FoldLeft(LAMBDA h, b : (2 * h + (Scatter[b] % HashSize)) % HashSize, 0, Bytes[k])

\* The code's table has 512 lists; the remainder is the number of one.
ASSUME HashAssumption ==
    /\ Keys \subseteq Nat
    /\ HashSize \in Nat /\ HashSize > 1
    /\ \A k \in Keys : HashHash(k) \in 0 .. (HashSize - 1)

Hash == [k \in Keys |-> HashHash(k)]
Lists == {Hash[k] : k \in Keys}

\* p1 is NULL, a bucket, or a bucket that was freed.
Null == -1
Freed == -2

\* gentle: since drmHashFirst the program did nothing but ask for or delete the
\* key that was returned last.
NoIteration == [count |-> [k \in Keys |-> 0], last |-> Null,
                gentle |-> FALSE, done |-> FALSE]

HashInit ==
    /\ buckets = [h \in Lists |-> <<>>]
    /\ p0 = 0 /\ p1 = Null
    /\ reply = [code |-> 0, found |-> {}]
    /\ seen = NoIteration

InList(k) == buckets[Hash[k]]
Has(k) == \E i \in DOMAIN InList(k) : InList(k)[i].key = k
At(k) == CHOOSE i \in DOMAIN InList(k) : InList(k)[i].key = k
Val(k) == InList(k)[At(k)].val
Say(code, found) == reply' = [code |-> code, found |-> found]
Disturb(k) == seen' = [seen EXCEPT !.gentle = @ /\ k = seen.last]

\* The bucket after k's, as a pointer.
After(k) == IF At(k) < Len(InList(k)) THEN InList(k)[At(k) + 1].key ELSE Null
-----------------------------------------------------------------------------
\* Faulty variant: the buckets before the one that was found are lost.
CutOff(k) == IF Has(k) THEN SubSeq(InList(k), At(k), Len(InList(k))) ELSE InList(k)

\* HashFind: the key's bucket, if there is one, moves to the top of its list.
HashFind(k) ==
    IF Has(k) THEN <<InList(k)[At(k)]>> \o RemoveAt(InList(k), At(k)) ELSE InList(k)

Lookup(k) ==
    /\ buckets' = [buckets EXCEPT ![Hash[k]] = HashFind(k)]
    /\ IF Has(k) THEN Say(0, {Val(k)}) ELSE Say(1, {})
    /\ Disturb(k)
    /\ UNCHANGED <<p0, p1>>

\* drmMalloc may fail.
Insert(k, v) ==
    /\ \/ /\ Has(k)
          /\ buckets' = [buckets EXCEPT ![Hash[k]] = HashFind(k)]
          /\ Say(1, {})
       \/ /\ ~Has(k)
          /\ buckets' = [buckets EXCEPT ![Hash[k]] = <<[key |-> k, val |-> v]>> \o @]
          /\ Say(0, {})
       \/ /\ ~Has(k)
          /\ UNCHANGED buckets
          /\ Say(-1, {})
    /\ seen' = [seen EXCEPT !.gentle = FALSE]
    /\ UNCHANGED <<p0, p1>>

\* The bucket is freed whether or not the iteration points to it.
Delete(k) ==
    /\ buckets' = [buckets EXCEPT ![Hash[k]] = IF Has(k) THEN Tail(HashFind(k)) ELSE @]
    /\ Say(IF Has(k) THEN 0 ELSE 1, {})
    /\ p1' = IF Has(k) /\ p1 = k THEN Freed ELSE p1
    /\ Disturb(k)
    /\ UNCHANGED p0

\* The lists the iteration still has before it.
Ahead(from) == {h \in Lists : h >= from /\ buckets[h] # <<>>}

\* The iteration returns bucket k and points to the next one.
Returned(k, was) ==
    [was EXCEPT !.last = k, !.count[k] = IF was.gentle THEN @ + 1 ELSE @]
Return(k, was) == p1' = After(k) /\ Say(1, {Val(k)}) /\ seen' = Returned(k, was)

\* Faulty variant: the pointer stays at the bucket until the next call.
Stay(from, at, was) ==
    LET next == IF at = Null \/ ~Has(at) THEN Null ELSE After(at)
        h    == Min(Ahead(from))
    IN  IF from < HashSize /\ next # Null
        THEN p0' = from /\ p1' = next /\ Say(1, {Val(next)}) /\ seen' = Returned(next, was)
        ELSE IF from < HashSize /\ Ahead(from) # {}
        THEN LET k == buckets[h][1].key
             IN  p0' = h + 1 /\ p1' = k /\ Say(1, {Val(k)}) /\ seen' = Returned(k, was)
        ELSE /\ p0' = HashSize /\ p1' = Null /\ Say(0, {})
             /\ seen' = [was EXCEPT !.done = TRUE, !.last = Null]

\* drmHashNext from list `from' and bucket `at'.  The last list is loaded like
\* any other, but p0 has left the table by then and the loop ends.
Advance(from, at, was) ==
    LET h    == Min(Ahead(from))
        more == from < HashSize /\ Ahead(from) # {}
    IN  \/ from < HashSize /\ at # Null /\ p0' = from /\ Return(at, was)
        \/ /\ at = Null /\ more /\ h + 1 < HashSize
           /\ p0' = h + 1 /\ Return(buckets[h][1].key, was)
        \/ /\ from = HashSize \/ (at = Null /\ (more => h + 1 = HashSize))
           /\ p0' = HashSize
           /\ p1' = IF more THEN buckets[h][1].key ELSE at
           /\ Say(0, {})
           /\ seen' = [was EXCEPT !.done = TRUE, !.last = Null]

\* What drmHashNext does with a freed bucket is undefined.
HashNext ==
    /\ p1 # Freed
    /\ Advance(p0, p1, seen)
    /\ UNCHANGED buckets

\* drmHashFirst points to the top of list 0 and leaves p0 there as well.
HashFirst ==
    /\ Advance(0, IF 0 \in Lists /\ buckets[0] # <<>> THEN buckets[0][1].key ELSE Null,
               [NoIteration EXCEPT !.gentle = TRUE])
    /\ UNCHANGED buckets

HashSteps ==
    \/ \E k \in Keys : Lookup(k) \/ Delete(k) \/ \E v \in Vals : Insert(k, v)
    \/ HashFirst \/ HashNext

HashSpec == HashInit /\ [][HashSteps]_hashVars
-----------------------------------------------------------------------------
\* Type correctness, and no key is twice in the table or in another's list.
HashTypeOK ==
    /\ \A h \in Lists :
          /\ buckets[h] \in Seq([key : Keys, val : Vals])
          /\ \A i, j \in DOMAIN buckets[h] :
                /\ Hash[buckets[h][i].key] = h
                /\ buckets[h][i].key = buckets[h][j].key => i = j
    /\ p0 \in 0 .. HashSize /\ p1 \in Keys \union {Null, Freed}

\* The lists, however they are reordered, are the mapping xf86drm.h promises.
Contents == UNION {Range(buckets[h]) : h \in Lists}
Mapping == INSTANCE DrmMap WITH map <- Contents, Values <- Vals
IsMapping == Mapping!MapSpec

\* An iteration that only asks for and deletes what was returned last never comes to
\* a freed bucket.  It returns every key that is still there, whatever the list it is
\* in and however the look-ups reorder it: but those of list 0 twice, as drmHashFirst
\* leaves p0 at that list, and those of the last list not at all.
Visits(h) == IF h = HashSize - 1 THEN 0 ELSE IF h = 0 THEN 2 ELSE 1
GentleVisits ==
    seen.gentle =>
        /\ p1 # Freed
        /\ seen.done => \A k \in Keys : Has(k) => seen.count[k] = Visits(Hash[k])
=============================================================================
