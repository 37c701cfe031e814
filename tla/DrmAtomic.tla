----------------------------- MODULE DrmAtomic -----------------------------
(***************************************************************************)
(* drm/xf86drmMode.c: the atomic requests, drmModeAtomicAlloc and so on.  A*)
(* request is an array that grows by realloc, of which the items below the *)
(* cursor count.                                                           *)
(***************************************************************************)
EXTENDS Integers, Sequences

CONSTANTS
    Requests,        \* the requests the program has names for
    Objects, Props,  \* ids; 0 is not one
    Values,
    Inc,             \* item_size_inc: the items of one page
    NoReq,           \* NULL
    MaxItems         \* bound: items of a request

ASSUME DrmAtomicAssumption ==
    /\ Objects \subseteq Nat /\ Props \subseteq Nat
    /\ Inc \in Nat \ {0} /\ MaxItems \in Nat

VARIABLE req    \* req[r]: the request, or NoReq

Item == [obj : Objects, prop : Props, val : Values]
Setting == [obj : Objects \ {0}, prop : Props \ {0}, val : Values]

\* Memory that realloc did not fill, and that calloc did.
Junk == [obj |-> 0, prop |-> 0, val |-> "junk"]
Zero == [obj |-> 0, prop |-> 0, val |-> "zero"]
Cell == Item \union {Junk, Zero}

\* heap is what is allocated, size_items what the code thinks that it is.
Request == [cursor : Nat, size_items : Nat, heap : Seq(Cell)]
\* NULL is neither a request nor a list.
ASSUME NoReqAssumption == NoReq \notin Request /\ NoReq \notin Seq(Setting)

Empty == [cursor |-> 0, size_items |-> 0, heap |-> <<>>]

Init == req = [r \in Requests |-> NoReq]

Become(r, x) == req' = [req EXCEPT ![r] = x]
Realloc(h, n) == [i \in 1 .. n |-> IF i <= Len(h) THEN h[i] ELSE Junk]
Written(h, from, new) ==
    [i \in 1 .. Len(h) |-> IF i > from /\ i <= from + Len(new) THEN new[i - from] ELSE h[i]]

\* drmModeAtomicAlloc and drmModeAtomicFree.
Alloc(r) == req[r] = NoReq /\ Become(r, Empty)
Free(r) == req[r] # NoReq /\ Become(r, NoReq)

\* drmModeAtomicDuplicate copies what is below the cursor into as large an array.
Duplicate(r, s) ==
    /\ req[r] # NoReq /\ req[s] = NoReq
    /\ Become(s, [req[r] EXCEPT !.heap =
                    [i \in 1 .. req[r].size_items |->
                       IF i <= req[r].cursor THEN req[r].heap[i] ELSE Zero]])

\* Faulty variant: size_items is not put back.
AsAsked(r, asked) == asked

\* What size_items is after a realloc that failed.
PutBack(r, asked) == req[r].size_items

\* Put new items behind the cursor of r, after a realloc to n items if they need one.
Put(r, new, needed, n) ==
    /\ req[r].cursor + Len(new) <= MaxItems
    /\ \/ /\ ~needed
          /\ Become(r, [req[r] EXCEPT !.cursor = @ + Len(new),
                                      !.heap = Written(@, req[r].cursor, new)])
       \/ /\ needed
          /\ Become(r, [cursor |-> req[r].cursor + Len(new), size_items |-> n,
                        heap |-> Written(Realloc(req[r].heap, n), req[r].cursor, new)])
       \/ needed /\ Become(r, [req[r] EXCEPT !.size_items = PutBack(r, n)])

\* Faulty variant: the cursor of the other request is not heeded.
MergeAll(r, s) ==
    /\ req[r] # NoReq /\ req[s] # NoReq /\ req[s].cursor # 0
    /\ LET n == req[r].cursor + req[s].size_items
       IN  Put(r, req[s].heap, n >= req[r].size_items, n)

\* drmModeAtomicMerge: base and augment may be the same request.
Merge(r, s) ==
    /\ req[r] # NoReq /\ req[s] # NoReq /\ req[s].cursor # 0
    /\ LET n == req[r].cursor + req[s].cursor
       IN  Put(r, [i \in 1 .. req[s].cursor |-> req[s].heap[i]], n >= req[r].size_items, n)

AddProperty(r, e) ==
    /\ req[r] # NoReq
    /\ e.obj # 0 /\ e.prop # 0
    /\ Put(r, [i \in 1 .. 1 |-> e], req[r].cursor >= req[r].size_items, req[r].size_items + Inc)

\* drmModeAtomicSetCursor, to a cursor that drmModeAtomicGetCursor gave before.
SetCursor(r) ==
    /\ req[r] # NoReq
    /\ \E c \in 0 .. req[r].cursor : Become(r, [req[r] EXCEPT !.cursor = c])

Next ==
    \E r \in Requests :
        \/ Alloc(r) \/ Free(r) \/ SetCursor(r)
        \/ \E e \in Item : AddProperty(r, e)
        \/ \E s \in Requests : Duplicate(r, s) \/ Merge(r, s)

Spec == Init /\ [][Next]_req
-----------------------------------------------------------------------------
\* Type correctness; the items a request counts are in its array, which is as large
\* as the request thinks, and all were set.
TypeOK ==
    \A r \in Requests :
        req[r] # NoReq =>
            /\ DOMAIN req[r].heap = 1 .. req[r].size_items
            /\ req[r].cursor \in 0 .. req[r].size_items
            /\ \A i \in 1 .. req[r].cursor : req[r].heap[i] \in Setting

\* Requests are lists of settings that grow and are cut back whole, with or without
\* memory.
List == INSTANCE PropertyList WITH
    list <- [r \in Requests |-> IF req[r] = NoReq THEN NoReq
                                ELSE [i \in 1 .. req[r].cursor |-> req[r].heap[i]]],
    Settings <- Setting, NoList <- NoReq
IsList == List!ListSpec
=============================================================================
