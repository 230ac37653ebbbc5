----------------------------- MODULE MCStorage -----------------------------
(* Small instances of Storage: a btrfs and a file system of another type.   *)
(* In Spanning it may lie on its device alone, as an ext4 does, or on more, *)
(* as an f2fs may.                                                          *)
EXTENDS Storage, TLC

CONSTANTS b1, p1

MCFilesystems == {b1, p1}
MCBtrfs == {b1}
MCSpanning == {p1}
MCSubvolumes == {1, 2}

Symmetry == Permutations(Mounts) \cup Permutations(Disks)
=============================================================================
