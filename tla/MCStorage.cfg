\* One btrfs and one file system of another type, of one device or of more,
\* three mounts, two disks.
CONSTANTS
    p1 = p1
    b1 = b1
    Mounts = {m1, m2, m3}
    Disks = {d1, d2}
    Unknown = Unknown
    Filesystems <- MCFilesystems
    Btrfs <- MCBtrfs
    Spanning <- MCSpanning
    Subvolumes <- MCSubvolumes
SYMMETRY Symmetry
SPECIFICATION Spec
INVARIANTS
    ExclusiveIsOwned
    AttributionExact
    TotalsOwned
