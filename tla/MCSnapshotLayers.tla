--------------------------- MODULE MCSnapshotLayers ---------------------------
(* Instances of SnapshotLayers for TLC.                                     *)
EXTENDS SnapshotLayers, TLC

Interchangeable == Permutations(Contents)

(* Every file is there, or none is.                                         *)
Uniform == {[p \in Paths |-> c] : c \in Contents \cup {Gone}}
=============================================================================
