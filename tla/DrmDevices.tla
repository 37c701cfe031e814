----------------------------- MODULE DrmDevices -----------------------------
(***************************************************************************)
(* drm/xf86drm.c: drmGetDevices2 and drmGetDevice2.  /dev/dri is read name *)
(* by name, one entry is made of every node, the entries of one device are *)
(* folded into the first, and what is left is handed to the caller or      *)
(* freed.  Devices come and go meanwhile, and a number that is free again  *)
(* goes to the next device: a name stands here for its device number too.  *)
(* The kernel and udev are outside.                                        *)
(***************************************************************************)
EXTENDS Integers, FiniteSetsExt, Sequences

CONSTANTS
    Names, Type,     \* the names of nodes, and drmGetNodeType of each
    Places, Bus,     \* bus locations, and the bus each is on
    None,            \* no device
    MaxNodes,        \* MAX_DRM_NODES
    MaxDevices,      \* the arrays the callers bring
    MaxPlugs         \* bound: hotplug events

\* The entries, drmDevice, and None, which is no place and no entry.
Device == [place : Places, nodes : UNION {[T -> Names] : T \in SUBSET {Type[n] : n \in Names}}]

ASSUME DevicesAssumption ==
    /\ IsFiniteSet(Names)
    /\ None \notin Places /\ None \notin Device
    /\ MaxNodes \in Nat /\ MaxDevices \subseteq Int /\ MaxPlugs \in Nat

VARIABLES
    dev, plugs,   \* the place of the device each name is a node of
    call,         \* the call under way, or the last one
    pc,
    unread,       \* the names readdir is still to return
    local,        \* local_devices
    next,         \* the index into it of the loop that hands it out
    out, result,  \* what the caller has got
    track         \* history: the places a name was seen at, the entries in use, those
                  \* skipped, and whether nothing has happened meanwhile

deviceVars == <<dev, plugs, call, pc, unread, local, next, out, result, track>>

Present == {n \in Names : dev[n] # None}
NoPast == [seen |-> {}, live |-> 0, skipped |-> 0, calm |-> TRUE]

DevicesInit ==
    /\ dev \in [Names -> Places \union {None}] /\ plugs = 0
    /\ call = [op |-> "none"]
    /\ pc = "idle"
    /\ unread = {} /\ local = <<>> /\ next = 0
    /\ out = <<>> /\ result = 0
    /\ track = NoPast

\* A node appears, goes, or becomes another device's.  readdir may miss what is new.
Hotplug ==
    /\ plugs < MaxPlugs
    /\ plugs' = plugs + 1
    /\ \E n \in Names, p \in Places \union {None} :
         /\ p # dev[n]
         /\ dev' = [dev EXCEPT ![n] = p]
         /\ \/ UNCHANGED unread
            \/ pc = "read" /\ dev[n] = None /\ unread' = unread \union {n}
    /\ track' = [track EXCEPT !.calm = FALSE]
    /\ UNCHANGED <<call, pc, local, next, out, result>>

\* The arguments: no array, an array of max, or a descriptor of a node that is there;
\* the device of a descriptor is looked for on its own bus.
Call ==
    /\ pc = "idle"
    /\ call' \in [op : {"count"}]
           \union [op : {"list"}, max : MaxDevices]
           \union {[op |-> "one", fd |-> n, bus |-> Bus[dev[n]]] : n \in Present}
    /\ pc' = "read"
    /\ unread' = Present
    /\ local' = <<>> /\ next' = 1 /\ out' = <<>> /\ result' = 0
    /\ track' = NoPast
    /\ UNCHANGED <<dev, plugs>>

NewEntry(n) ==
    [place |-> dev[n], nodes |-> [t \in {Type[n]} |-> n]]

\* Faulty variant: local_devices is full one entry later.
FullLater == Len(local) > MaxNodes

Full == Len(local) >= MaxNodes

\* process_device: the node may be gone, on another bus, or not tell about itself.
ReadOne(n) ==
    /\ pc = "read" /\ n \in unread
    /\ unread' = unread \ {n}
    /\ \/ /\ dev[n] # None
          /\ call.op = "one" => Bus[dev[n]] = call.bus
          /\ IF Full
             THEN /\ pc' = "fold" /\ UNCHANGED local
                  /\ track' = [track EXCEPT !.live = @ + 1, !.skipped = @ + 1, !.calm = FALSE]
             ELSE /\ local' = Append(local, NewEntry(n)) /\ UNCHANGED pc
                  /\ track' = [track EXCEPT !.live = @ + 1, !.seen = @ \union {<<n, dev[n]>>}]
       \/ /\ UNCHANGED <<pc, local>>
          /\ track' = [track EXCEPT !.calm =
                        @ /\ dev[n] # None /\ call.op = "one" /\ Bus[dev[n]] # call.bus]
    /\ UNCHANGED <<dev, plugs, call, next, out, result>>

ReadAll ==
    /\ pc = "read" /\ unread = {}
    /\ pc' = "fold"
    /\ UNCHANGED <<dev, plugs, call, unread, local, next, out, result, track>>

Equal(a, b) == a # None /\ b # None /\ a.place = b.place

\* drmFoldDuplicatedDevices for one entry: it takes over the nodes of the later ones
\* of its device, the last one of a type staying.
Merged(s, i) ==
    LET same == {j \in i .. Len(s) : Equal(s[i], s[j])}
        with(t) == {j \in same : t \in DOMAIN s[j].nodes}
    IN  [s[i] EXCEPT !.nodes = [t \in UNION {DOMAIN s[j].nodes : j \in same} |->
                                  s[Max(with(t))].nodes[t]]]

Repeated(s, i) == \E j \in 1 .. (i - 1) : Equal(s[j], s[i])

\* Faulty variant: the nodes are not taken over.
Unmerged(s) == [i \in DOMAIN s |-> IF Repeated(s, i) THEN None ELSE s[i]]

\* The first entry of a device stays, gaps are left for the others.
Folded(s) == [i \in DOMAIN s |-> IF Repeated(s, i) THEN None ELSE Merged(s, i)]

Gaps(s) == {i \in DOMAIN s : s[i] = None}

Fold ==
    /\ pc = "fold"
    /\ pc' = "hand"
    /\ local' = Folded(local)
    /\ track' = [track EXCEPT !.live = @ - Cardinality(Gaps(local'))]
    /\ UNCHANGED <<dev, plugs, call, unread, next, out, result>>

\* drmGetDevices2 puts an entry into the caller's array, or frees it, and counts it.
Hand ==
    /\ pc = "hand" /\ call.op # "one" /\ next <= Len(local)
    /\ next' = next + 1
    /\ IF local[next] = None
       THEN UNCHANGED <<out, result, track>>
       ELSE /\ result' = result + 1
            /\ IF call.op = "list" /\ result < call.max
               THEN out' = Append(out, local[next]) /\ UNCHANGED track
               ELSE UNCHANGED out /\ track' = [track EXCEPT !.live = @ - 1]
    /\ UNCHANGED <<dev, plugs, call, pc, unread, local>>

\* drm_device_has_rdev: one of the entry's nodes has the number now.
HasRdev(e) == \E t \in DOMAIN e.nodes : e.nodes[t] = call.fd /\ dev[call.fd] # None

\* drmGetDevice2: the entry with the descriptor's node is kept, the others are freed.
Pick ==
    /\ pc = "hand" /\ call.op = "one" /\ next <= Len(local)
    /\ next' = next + 1
    /\ IF local[next] = None
       THEN UNCHANGED <<out, track>>
       ELSE IF HasRdev(local[next])
       THEN out' = <<local[next]>> /\ UNCHANGED track
       ELSE UNCHANGED out /\ track' = [track EXCEPT !.live = @ - 1]
    /\ UNCHANGED <<dev, plugs, call, pc, unread, local, result>>

\* drmGetDevice2 returns zero, or -ENODEV.
Answer ==
    /\ pc = "hand" /\ next > Len(local)
    /\ pc' = "idle"
    /\ result' = IF call.op # "one" THEN result ELSE IF out = <<>> THEN -1 ELSE 0
    /\ UNCHANGED <<dev, plugs, call, unread, local, next, out, track>>

DevicesNext ==
    \/ Call \/ ReadAll \/ Fold \/ Hand \/ Pick \/ Answer \/ Hotplug
    \/ \E n \in Names : ReadOne(n)

DevicesSpec == DevicesInit /\ [][DevicesNext]_deviceVars
-----------------------------------------------------------------------------
\* Type correctness of the enumeration.
DevicesTypeOK ==
    /\ dev \in [Names -> Places \union {None}] /\ plugs \in 0 .. MaxPlugs
    /\ pc \in {"idle", "read", "fold", "hand"}
    /\ unread \subseteq Names
    /\ Len(local) <= MaxNodes
    /\ \A i \in DOMAIN local : local[i] = None \/ local[i].place \in Places
    /\ next \in 0 .. Len(local) + 1
    /\ track.live \in 0 .. MaxNodes + 1

Done(op) == pc = "idle" /\ call.op = op

\* A caller gets no device twice, and an entry names only nodes that were its
\* device's when they were read.
EachDeviceOnce ==
    pc = "idle" =>
      /\ \A i, j \in DOMAIN out : out[i].place = out[j].place => i = j
      /\ \A i \in DOMAIN out : \A t \in DOMAIN out[i].nodes :
           <<out[i].nodes[t], out[i].place>> \in track.seen

\* Every entry is the caller's or freed when a call returns, but for the one with
\* which MAX_DRM_NODES was exceeded, and but for a node that went and came back as
\* another device's while the directory was read: drmGetDevice2 keeps the last of the
\* entries that have it.
ReadTwice(n) == \E p, q \in Places : p # q /\ {<<n, p>>, <<n, q>>} \subseteq track.seen
NothingLeaks ==
    pc = "idle" =>
      track.live = Len(out) + track.skipped \/ (call.op = "one" /\ ReadTwice(call.fd))

\* If nothing happens meanwhile, a caller with room for all gets every device with
\* all types of its nodes, one that counts first gets the same number, and the device
\* of a descriptor is found, unless a second node of its type at the same place has
\* taken its name's place.
DevicesOf == {dev[n] : n \in Present}
Shared(n) == \E m \in Names \ {n} : dev[m] = dev[n] /\ Type[m] = Type[n]
CalmIsComplete ==
    track.calm =>
      /\ Done("count") => result = Cardinality(DevicesOf)
      /\ Done("list") =>
           /\ result = Cardinality(DevicesOf)
           /\ call.max >= result =>
                \A p \in DevicesOf : \E i \in DOMAIN out :
                  /\ out[i].place = p
                  /\ DOMAIN out[i].nodes = {Type[n] : n \in {m \in Names : dev[m] = p}}
      /\ Done("one") =>
           (result = 0 /\ out[1].place = dev[call.fd]) \/ (result = -1 /\ Shared(call.fd))

\* drmGetDevices2 and drmGetDevice2 give no device twice, every entry they made is the
\* caller's or freed, on each way out, and undisturbed they find every device with all
\* of its nodes.
DevicesAreRight == EachDeviceOnce /\ NothingLeaks /\ CalmIsComplete
=============================================================================
