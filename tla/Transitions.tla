----------------------------- MODULE Transitions -----------------------------
(***************************************************************************)
(* The changes of a component a deployed cluster can take (validate.go):   *)
(* its volumes neither shrink nor move, grow only where their StorageClass *)
(* lets them, and its version does not fall.  Pure operators: ProviderSync *)
(* compares the Instance with what is deployed.                            *)
(*                                                                         *)
(* A component is a record with an image (the segments of the version its  *)
(* tag names, <<>> when the tag is not a version), a volume size and a     *)
(* StorageClass.                                                           *)
(***************************************************************************)
EXTENDS Integers, Sequences

\* The version library reads at least three segments: 25.3 is 25.3.0.
Precision(image) == IF Len(image) < 3 THEN 3 ELSE Len(image)
Segment(image, i) == IF i <= Len(image) THEN image[i] ELSE 0

\* Mutant of Older: only the first segment is looked at.
OlderMajor(a, b) == Segment(a, 1) < Segment(b, 1)

\* compareSegments(a, b) < 0: the first segment that differs decides, among
\* those both versions have.
Older(a, b) ==
  \E i \in 1 .. Precision(a) :
    /\ i <= Precision(b)
    /\ Segment(a, i) < Segment(b, i)
    /\ \A j \in 1 .. i - 1 : Segment(a, j) = Segment(b, j)

\* validateVersionTransition, and its counterpart for Keeper.
VersionTransition(current, desired) ==
  current.image # <<>> /\ desired.image # <<>> =>
    ~Older(desired.image, current.image)

\* validateStorageTransition, and its counterpart for Keeper.
StorageTransition(current, desired, expandable) ==
  /\ desired.size >= current.size
  /\ desired.size > current.size => expandable
  /\ desired.class = current.class

Transition(current, desired, expandable) ==
  /\ StorageTransition(current, desired, expandable)
  /\ VersionTransition(current, desired)
=============================================================================
