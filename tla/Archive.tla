------------------------------ MODULE Archive ------------------------------
(***************************************************************************)
(* What a build may rely on about libadeps.a, whatever alibs.cmd does to   *)
(* get there: an archive changes by one library at a time, holds one object*)
(* of each name, and never loses a name.  The last is a mixed blessing: a  *)
(* member that newer settings no longer compile stays too.                 *)
(*                                                                         *)
(* The archives of all out folders are one set of members.  An object is   *)
(* known by its folder (out), its library (lib) and its unit (tu).         *)
(***************************************************************************)
CONSTANT Library    \* the libraries that are built into archives

VARIABLES
    members,  \* the members of all archives
    exist     \* the out folders that have an archive

archive == <<members, exist>>

SameName(x, y) == x.out = y.out /\ x.lib = y.lib /\ x.tu = y.tu

ArchiveInit == members = {} /\ exist = {}

\* Library l of folder o is put into the archive, anew or for the first time.
Put(o, l) ==
    /\ exist' = exist \union {o}
    /\ \A x \in members \ members' :
          x.out = o /\ x.lib = l /\ \E y \in members' : SameName(x, y)
    /\ \A y \in members' \ members : y.out = o /\ y.lib = l
    /\ \A x, y \in members' : SameName(x, y) => x = y

ArchiveNext == \E o \in exist', l \in Library : Put(o, l)

ArchiveSpec == ArchiveInit /\ [][ArchiveNext]_archive
=============================================================================
