------------------------------ MODULE Regions ------------------------------
(***************************************************************************)
(* The reservation algebra of crates/wire-serve/src/publish.rs: regions of *)
(* one corpus, when two of them conflict, and when a complete set of       *)
(* regions may be reserved beside the ones held.  A path is a sequence of  *)
(* names, and the workspace root is <<>>.                                  *)
(***************************************************************************)
EXTENDS Sequences, SequencesExt

Root == [extent |-> "root", at |-> <<>>]
Folder(prefix) == [extent |-> "folder", at |-> prefix]
File(path) == [extent |-> "file", at |-> path]
Absence(parent, name) == [extent |-> "absence", at |-> parent, name |-> name]

JoinEdge(parent, name) == Append(parent, name)
Edge(r) == JoinEdge(r.at, r.name)

(* The byte test asks for a "/" after the prefix, so an empty prefix has   *)
(* nothing under it.                                                       *)
UnderOrEq(path, prefix) == path = prefix \/ (prefix # <<>> /\ IsPrefix(prefix, path))

(* One arm of spatial_intersect, for extents in this order. *)
Meets(a, b) ==
    \/ a.extent = "root"
    \/ /\ a.extent = "folder" /\ b.extent = "folder"
       /\ UnderOrEq(a.at, b.at) \/ UnderOrEq(b.at, a.at)
    \/ a.extent = "folder" /\ b.extent = "file" /\ UnderOrEq(b.at, a.at)
    \/ /\ a.extent = "folder" /\ b.extent = "absence"
       /\ UnderOrEq(Edge(b), a.at) \/ UnderOrEq(b.at, a.at)
    \/ a.extent = "file" /\ b.extent = "file" /\ a.at = b.at
    \/ a.extent = "file" /\ b.extent = "absence" /\ a.at = Edge(b)
    \/ a.extent = "absence" /\ b.extent = "absence" /\ a = b

(* Faulty variant: a folder premise reserves the folder's own name only. *)
IntersectNamed(a, b) == a.at = b.at
Intersect(a, b) == Meets(a, b) \/ Meets(b, a)

(* Faulty variant: lets two writers of one file in. *)
ConflictPremisesOnly(rs, ws, us, vs) ==
    (\E a \in ws, b \in us : Intersect(a, b)) \/ (\E a \in rs, b \in vs : Intersect(a, b))

(* Two transactions with premises rs, us and destinations ws, vs may not   *)
(* hold their reservations together; reads are compatible with reads.      *)
Conflict(rs, ws, us, vs) ==
    \/ \E a \in ws, b \in us \cup vs : Intersect(a, b)
    \/ \E a \in rs, b \in vs : Intersect(a, b)
=============================================================================
