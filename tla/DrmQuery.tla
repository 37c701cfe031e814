------------------------------ MODULE DrmQuery ------------------------------
(***************************************************************************)
(* drm/xf86drmMode.c: how lists are read from the kernel, which may change *)
(* them at any time.  A first ioctl counts, memory is allocated, a second  *)
(* ioctl fills it, and if a list has grown in between everything is freed  *)
(* and tried again.                                                        *)
(*                                                                         *)
(* drmModeGetResources, drmModeGetPlaneResources, drmModeGetPlane and      *)
(* drmModeObjectGetProperties start again from the first ioctl with a clear*)
(* struct (fresh); _drmModeGetConnector goes on with the counts of the     *)
(* second, and with the pointers of the first.  The kernel is outside.     *)
(***************************************************************************)
EXTENDS Integers, FiniteSets, Sequences

CONSTANTS
    Kinds,     \* the kinds of queries
    Ids,       \* what the lists hold
    Null, Junk,  \* no result; memory that was not filled in
    MaxPlugs   \* bound: hotplug events for each kind

\* The lists of a query, in the order they are allocated; those that get one element
\* on the stack when they are empty; whether a retry starts with a clear struct.
QueryKind == [lists : Seq(STRING), onStack : SUBSET STRING, fresh : BOOLEAN]

ASSUME QueryAssumption ==
    Kinds \subseteq QueryKind /\ IsFiniteSet(Ids) /\ MaxPlugs \in [Kinds -> Nat]

VARIABLES
    ask,           \* the query that is made
    kern, plugs,   \* the kernel's lists
    pc,
    count,         \* the counts of the ioctl before
    ptr,           \* the pointers of the struct, and what they point to
    got,           \* what the second ioctl filled in
    result,        \* what the caller gets: the lists, or NULL
    past           \* history: the kernel's lists at the second ioctl, whether this is
                   \* a retry, the blocks in use, whether one was freed twice, and
                   \* whether a retry found a list empty or no memory

queryVars == <<ask, kern, plugs, pc, count, ptr, got, result, past>>

K == DOMAIN ask.lists
Nothing == [k \in K |-> {}]
Size(l) == [k \in K |-> Cardinality(l[k])]

NoPast == [seen |-> Nothing, again |-> FALSE, live |-> 0, twice |-> FALSE, excuse |-> FALSE]

QueryInit ==
    /\ ask \in Kinds
    /\ kern \in [K -> SUBSET Ids] /\ plugs = 0
    /\ pc = "idle"
    /\ count = Size(Nothing) /\ ptr = [k \in K |-> "null"] /\ got = Nothing
    /\ result = Null
    /\ past = NoPast

Hotplug ==
    /\ plugs < MaxPlugs[ask]
    /\ plugs' = plugs + 1
    /\ kern' \in [K -> SUBSET Ids] \ {kern}
    /\ UNCHANGED <<ask, pc, count, ptr, got, result, past>>

Query ==
    /\ pc = "idle"
    /\ pc' = "count" /\ result' = Null
    /\ ptr' = [k \in K |-> "null"]
    /\ past' = NoPast
    /\ count' = Size(Nothing) /\ got' = Nothing
    /\ UNCHANGED <<ask, kern, plugs>>

\* The first ioctl, or an error.
Count ==
    /\ pc = "count"
    /\ \/ pc' = "alloc" /\ count' = Size(kern)
       \/ pc' = "idle" /\ UNCHANGED count
    /\ UNCHANGED <<ask, kern, plugs, ptr, got, result, past>>

\* Where the pointers point once the lists before `stop' have their memory, a
\* pointer of an empty list is left as it is.
Allocated(stop) ==
    [k \in K |->
       IF k >= stop THEN ptr[k]
       ELSE IF count[k] > 0 THEN "heap"
       ELSE IF ask.lists[k] \in ask.onStack THEN "stack" ELSE ptr[k]]

\* Enough memory for all the lists; or none for list k.
Alloc ==
    /\ pc = "alloc"
    /\ \/ /\ pc' = "fill"
          /\ ptr' = Allocated(Len(ask.lists) + 1)
          /\ past' = [past EXCEPT !.live = @ + Cardinality({j \in K : count[j] > 0}),
                                  !.excuse = @ \/ (past.again /\ \E j \in K : count[j] = 0)]
       \/ \E k \in K :
            /\ count[k] > 0
            /\ pc' = "free"
            /\ ptr' = [Allocated(k) EXCEPT ![k] = "null"]
            /\ past' = [past EXCEPT !.live = @ + Cardinality({j \in 1 .. (k - 1) : count[j] > 0}),
                                    !.excuse = @ \/ past.again]
    /\ UNCHANGED <<ask, kern, plugs, count, got, result>>

\* The kernel fills a list in if there is room for all of it.
Room(k) == IF ptr[k] = "stack" THEN 1 ELSE count[k]

\* The second ioctl: got and the kernel's own counts, or an error.
Fill ==
    /\ pc = "fill"
    /\ \/ /\ pc' = "check"
          /\ got' = [k \in K |-> IF Cardinality(kern[k]) <= Room(k) THEN kern[k] ELSE Junk]
          /\ past' = [past EXCEPT !.seen = kern]
       \/ pc' = "free" /\ UNCHANGED <<got, past>>
    /\ UNCHANGED <<ask, kern, plugs, count, ptr, result>>

Now == Size(past.seen)

\* Faulty variant: only the first list is looked at.
FirstGrew == count[1] < Now[1]

Grew == \E k \in K : count[k] < Now[k]

\* drmFree of every pointer that is not to the stack.
Heap == {k \in K : ptr[k] = "heap"}
FreeAll(again) ==
    past' = [past EXCEPT !.again = again, !.live = @ - Cardinality(Heap),
                         !.twice = @ \/ \E k \in K : ptr[k] = "freed"]
Dangling == [k \in K |-> IF ptr[k] = "heap" THEN "freed" ELSE ptr[k]]

RetryAsBefore ==
    /\ pc = "check" /\ Grew
    /\ pc' = "alloc"
    /\ ptr' = (IF ask.fresh THEN [k \in K |-> "null"] ELSE Dangling)
    /\ FreeAll(TRUE)
    /\ UNCHANGED <<ask, kern, plugs, count, got, result>>

\* A list that has grown was left out by the kernel.
Retry ==
    /\ pc = "check" /\ Grew
    /\ pc' = (IF ask.fresh THEN "count" ELSE "alloc")
    /\ count' = Now
    /\ ptr' = (IF ask.fresh THEN [k \in K |-> "null"] ELSE Dangling)
    /\ FreeAll(TRUE)
    /\ UNCHANGED <<ask, kern, plugs, got, result>>

\* Faulty variant: the memory is freed before err_allocs is reached.
BuildFreeing ==
    /\ pc = "check" /\ ~Grew
    /\ pc' = "free"
    /\ result' \in {got, Null}
    /\ ptr' = Dangling
    /\ FreeAll(past.again)
    /\ UNCHANGED <<ask, kern, plugs, count, got>>

\* The lists are copied for the caller, unless there is no memory for that.
Build ==
    /\ pc = "check" /\ ~Grew
    /\ pc' = "free"
    /\ result' \in {got, Null}
    /\ UNCHANGED <<ask, kern, plugs, count, ptr, got, past>>

\* err_allocs.
Free ==
    /\ pc = "free"
    /\ pc' = "idle"
    /\ ptr' = Dangling
    /\ FreeAll(FALSE)
    /\ UNCHANGED <<ask, kern, plugs, count, got, result>>

Step == Count \/ Alloc \/ Fill \/ Retry \/ Build \/ Free
QueryNext == Query \/ Step \/ Hotplug

\* A query that was made runs on.
QuerySpec == QueryInit /\ [][QueryNext]_queryVars /\ WF_queryVars(Step)
-----------------------------------------------------------------------------
\* Type correctness of the query.
QueryTypeOK ==
    /\ ask \in Kinds
    /\ kern \in [K -> SUBSET Ids] /\ plugs \in 0 .. MaxPlugs[ask]
    /\ pc \in {"idle", "count", "alloc", "fill", "check", "free"}
    /\ count \in [K -> 0 .. Cardinality(Ids)]
    /\ ptr \in [K -> {"null", "heap", "stack", "freed"}]
    /\ past.live \in 0 .. Len(ask.lists)

\* Whatever comes and goes while it asks, the caller gets NULL or lists the kernel
\* had all at once: never memory that was not filled in, nor a mixture.
ResultIsSnapshot == result = Null \/ result = past.seen

NothingLeaks == pc \in {"idle", "count"} => past.live = 0

FreedOnce == past.twice => ~ask.fresh /\ past.excuse

\* Every query frees all it has allocated, on each of its ways out, and nothing twice,
\* but for a connector: its retries keep the pointer of a list that has become empty,
\* or that there is no memory for.
HeapIsClean == NothingLeaks /\ FreedOnce

\* A query comes back, however often it had to be tried again, once the hotplug
\* events have stopped.
QueryReturns == pc # "idle" ~> pc = "idle"
=============================================================================
