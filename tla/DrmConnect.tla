----------------------------- MODULE DrmConnect -----------------------------
(***************************************************************************)
(* drm/xf86drm.c: the connections that drmOpenOnce shares, the file        *)
(* descriptors of drmOpen and drmClose, and the tags of contexts, which are*)
(* kept by device and not by descriptor.                                   *)
(*                                                                         *)
(* A bus id with a node type is one device node; no two have one st_rdev.  *)
(***************************************************************************)
EXTENDS Integers, Sequences, FiniteSetsExt

CONSTANTS
    Nodes,     \* the device nodes
    Fds,       \* the descriptors the process may have
    Contexts, Tags,
    MaxFds,    \* DRM_MAX_FDS
    MaxHeld    \* bound: calls of drmOpenOnce for one node that are not closed

NoNode == "0"      \* st_rdev when there is nothing to fstat
NoFd == 0          \* and no entry's descriptor

ASSUME ConnectAssumption ==
    /\ Fds \subseteq Nat /\ NoFd \notin Fds
    /\ NoNode \notin Nodes
    /\ MaxFds \in Nat /\ MaxHeld \in Nat \ {0}

VARIABLES
    open,   \* open[fd]: the node behind a descriptor, or NoNode
    conn,   \* connection[0 .. nr_fds - 1]
    entry,  \* the drmHashEntry of each st_rdev, one for 0 as well
    past    \* history: the calls of drmOpenOnce that returned each descriptor, and
            \* the call that opened it, while the program is tidy: it closes only
            \* what it has opened, and the same way

connectVars == <<open, conn, entry, past>>

NoEntry == [fd |-> NoFd, tags |-> {}]

Tidy == [tidy |-> TRUE, held |-> [fd \in Fds |-> 0], origin |-> [fd \in Fds |-> "none"]]
Past(tidy, fd, held, origin) ==
    past' = IF past.tidy /\ tidy
            THEN [past EXCEPT !.held[fd] = held, !.origin[fd] = origin]
            ELSE [Tidy EXCEPT !.tidy = FALSE]

ConnectInit ==
    /\ open = [fd \in Fds |-> NoNode]
    /\ conn = <<>>
    /\ entry = [n \in Nodes \union {NoNode} |-> NoEntry]
    /\ past = Tidy

Unopened == {fd \in Fds : open[fd] = NoNode}
Saved == {conn[i].fd : i \in DOMAIN conn}

\* open(2) takes the lowest descriptor.
Open(n) ==
    /\ Unopened # {}
    /\ open' = [open EXCEPT ![Min(Unopened)] = n]
    /\ Past(TRUE, Min(Unopened), 0, "open")
    /\ UNCHANGED <<conn, entry>>

\* drmGetEntry makes an entry the first time a node is asked for.
GetEntry(fd) ==
    IF entry[open[fd]] = NoEntry THEN [fd |-> fd, tags |-> {}] ELSE entry[open[fd]]

\* Faulty variant: the entry goes with the descriptor that made it, or the last.
DropMine(fd) ==
    IF \E g \in Fds \ {fd} : open[g] = open[fd] THEN entry
    ELSE [entry EXCEPT ![open[fd]] = NoEntry]

\* drmClose destroys the entry of the node, whoever else has the node open.
DropEntry(fd) == [entry EXCEPT ![open[fd]] = NoEntry]

Close(fd) ==
    /\ open' = [open EXCEPT ![fd] = NoNode]
    /\ entry' = DropEntry(fd)
    /\ Past(open[fd] # NoNode /\ fd \notin Saved, fd, 0, "none")
    /\ UNCHANGED conn

\* A saved connection of the node is shared.
OpenShared(n) ==
    /\ \E i \in DOMAIN conn :
          /\ conn[i].node = n
          /\ \A j \in 1 .. (i - 1) : conn[j].node # n
          /\ conn[i].refcount < MaxHeld
          /\ conn' = [conn EXCEPT ![i].refcount = @ + 1]
          /\ Past(TRUE, conn[i].fd, past.held[conn[i].fd] + 1, "once")
    /\ UNCHANGED <<open, entry>>

\* A new connection is saved if there is room; the descriptor is returned anyway.
OpenNew(n) ==
    /\ \A i \in DOMAIN conn : conn[i].node # n
    /\ Unopened # {}
    /\ LET fd == Min(Unopened)
       IN  /\ open' = [open EXCEPT ![fd] = n]
           /\ Past(TRUE, fd, 1, IF Len(conn) < MaxFds THEN "once" ELSE "unsaved")
           /\ IF Len(conn) < MaxFds
              THEN conn' = Append(conn, [node |-> n, fd |-> fd, refcount |-> 1])
              ELSE UNCHANGED conn
    /\ UNCHANGED entry

\* drmCloseOnce goes on over the connections of fd until one is not used any more:
\* that one is closed, and the last connection takes its place.
Unused(fd) == {i \in DOMAIN conn : conn[i].fd = fd /\ conn[i].refcount = 1}
Released(fd, until) ==
    [i \in DOMAIN conn |->
       IF conn[i].fd = fd /\ i < until THEN [conn[i] EXCEPT !.refcount = @ - 1] ELSE conn[i]]

\* Faulty variant: the last connection is forgotten.
DropLast(c, i) == SubSeq(c, 1, Len(c) - 1)

MoveLast(c, i) == SubSeq([c EXCEPT ![i] = c[Len(c)]], 1, Len(c) - 1)

CloseOnce(fd) ==
    /\ IF Unused(fd) = {}
       THEN /\ conn' = Released(fd, Len(conn) + 1)
            /\ UNCHANGED <<open, entry>>
       ELSE /\ conn' = MoveLast(Released(fd, Min(Unused(fd))), Min(Unused(fd)))
            /\ open' = [open EXCEPT ![fd] = NoNode]
            /\ entry' = DropEntry(fd)
    /\ Past(past.held[fd] > 0, fd, past.held[fd] - 1,
            IF Unused(fd) = {} THEN past.origin[fd] ELSE "none")

\* drmAddContextTag replaces; drmDelContextTag; drmGetContextTag makes an entry too.
AddTag(fd, c, t) ==
    /\ entry' = [entry EXCEPT ![open[fd]] =
                   [GetEntry(fd) EXCEPT !.tags = {p \in @ : p[1] # c} \union {<<c, t>>}]]
    /\ UNCHANGED <<open, conn, past>>

DelTag(fd, c) ==
    /\ entry' = [entry EXCEPT ![open[fd]] =
                   [GetEntry(fd) EXCEPT !.tags = {p \in @ : p[1] # c}]]
    /\ UNCHANGED <<open, conn, past>>

GetTag(fd) ==
    /\ entry' = [entry EXCEPT ![open[fd]] = GetEntry(fd)]
    /\ UNCHANGED <<open, conn, past>>

ConnectNext ==
    \/ \E n \in Nodes : Open(n) \/ OpenShared(n) \/ OpenNew(n)
    \/ \E fd \in Fds :
          \/ Close(fd) \/ CloseOnce(fd) \/ GetTag(fd)
          \/ \E c \in Contexts : DelTag(fd, c) \/ \E t \in Tags : AddTag(fd, c, t)

ConnectSpec == ConnectInit /\ [][ConnectNext]_connectVars
-----------------------------------------------------------------------------
Connection == [node : Nodes, fd : Fds, refcount : 1 .. MaxHeld]

\* Type correctness; the connections never outgrow their array, and none is kept
\* that nobody uses.
ConnectTypeOK ==
    /\ open \in [Fds -> Nodes \union {NoNode}]
    /\ conn \in Seq(Connection) /\ Len(conn) <= MaxFds
    /\ \A n \in DOMAIN entry :
          entry[n].fd \in Fds \union {NoFd} /\ entry[n].tags \subseteq Contexts \X Tags
    /\ past.tidy \in BOOLEAN /\ past.held \in [Fds -> 0 .. MaxHeld]
    /\ past.origin \in [Fds -> {"none", "open", "once", "unsaved"}]

\* Whatever order programs open and close in, a descriptor a node's entry names is
\* open on that node, as any drmClose of the node drops the entry: so the tags of a
\* closed node are never seen when its descriptor or its st_rdev comes back.
EntryIsOpen ==
    \A n \in Nodes : entry[n] # NoEntry => entry[n].fd # NoFd /\ open[entry[n].fd] = n

\* A connection is open, one for each node, and counts the calls that returned it.
SharedIsCounted ==
    \A i \in DOMAIN conn :
       /\ open[conn[i].fd] = conn[i].node
       /\ conn[i].refcount = past.held[conn[i].fd]
       /\ \A j \in DOMAIN conn :
             conn[j].fd = conn[i].fd \/ conn[j].node = conn[i].node => i = j

\* Whatever drmOpenOnce opened and nobody holds any more is closed, but for the
\* descriptors that did not fit the array: drmCloseOnce does not know them.
OnlyUnsavedLeak ==
    \A fd \in Fds : past.origin[fd] = "once" => fd \in Saved /\ past.held[fd] > 0

\* As long as programs close what they opened, a shared connection is open while it is
\* used, and closed when it is not.
OpenIsCounted == past.tidy => SharedIsCounted /\ OnlyUnsavedLeak
=============================================================================
