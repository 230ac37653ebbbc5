\* One btrfs and one ext4, three mounts, two disks: mounts that hide others.
CONSTANTS
    p1 = p1
    b1 = b1
    Mounts = {m1, m2, m3}
    Disks = {d1, d2}
    Unknown = Unknown
    Filesystems <- MCFilesystems
    Btrfs <- MCBtrfs
    Spanning = {}
    Subvolumes <- MCSubvolumes
SYMMETRY Symmetry
SPECIFICATION Spec
INVARIANTS
    TotalsAreSums
CHECK_DEADLOCK FALSE
