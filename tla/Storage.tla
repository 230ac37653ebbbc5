------------------------------ MODULE Storage ------------------------------
(***************************************************************************)
(* StorageCollector.collect of collectors/storage/collector.py: the loop   *)
(* over the mounted file systems.  Which mounts are of one file system,    *)
(* on which disks it lies as far as sysfs tells, and what counts towards   *)
(* the totals of a disk.                                                   *)
(*                                                                         *)
(* The mounts and sysfs are fixed during a collection and chosen at the    *)
(* start.  What _physical_backing finds for a device is taken from Backing *)
(* (BackingExact): the disks that can be reached and Unknown for the rest. *)
(* Sizes are left out: a report and a total say whose sizes they hold.     *)
(***************************************************************************)
EXTENDS Naturals, Sequences, FiniteSets

CONSTANTS
    Filesystems,    \* local file systems
    Btrfs,          \* those of type btrfs, on a device per disk
    Spanning,       \* those that may lie on more devices than the one of
                    \* mountinfo: f2fs, bcachefs, xfs with a realtime part
    Mounts,         \* lines of mountinfo
    Subvolumes,     \* device numbers that mounts of one btrfs may show
    Disks,          \* physical disks
    Unknown         \* "unknown"

ASSUME StorageAssumption ==
    /\ Btrfs \subseteq Filesystems /\ Spanning \subseteq Filesystems \ Btrfs
    /\ Unknown \notin Disks
    /\ IsFiniteSet(Disks) /\ Subvolumes \subseteq Nat \ {0}

VARIABLES
    on,         \* the disks a file system lies on
    known,      \* those sysfs leads to from its devices
    listed,     \* those whose device fs/btrfs lists under a name that is found
    of,         \* the file system of a mount
    subvolume,  \* the device number of a mount of a btrfs, else 0
    device,     \* disks of the device found for a mount, {} for no device
    shows,      \* the file system statvfs finds at a mount's path
    todo,       \* mounts to look at
    seen,       \* seen
    reports,    \* file systems that samples describe
    totals,     \* totals: whose sizes were added for each disk
    failed      \* mounts whose statvfs raised

world == <<on, known, listed, of, subvolume, device, shows>>
vars == <<world, todo, seen, reports, totals, failed>>

(* mountinfo names one device of a file system, or none that is found, and  *)
(* the others of one in Spanning are not shown anywhere.                    *)
(* A later mount on the same path hides an earlier one, from statvfs too:   *)
(* a path shows a file system whose own mount is not hidden.                *)
World ==
    /\ on \in [Filesystems -> SUBSET Disks \ {{}}]
    /\ known \in [Filesystems -> SUBSET Disks]
    /\ \A f \in Filesystems : known[f] \subseteq on[f]
    /\ listed \in [Btrfs -> SUBSET Disks]
    /\ \A f \in Btrfs : listed[f] \subseteq on[f]
    /\ of \in [Mounts -> Filesystems]
    /\ subvolume \in [Mounts -> Subvolumes \cup {0}]
    /\ \A m \in Mounts : of[m] \in Btrfs <=> subvolume[m] # 0
    /\ device \in [Mounts -> SUBSET Disks]
    /\ \A m \in Mounts :
         \/ device[m] = {}
         \/ of[m] \in Btrfs /\ \E d \in on[of[m]] : device[m] = {d}
         \/ of[m] \in Spanning /\ device[m] \subseteq on[of[m]]
         \/ of[m] \notin Btrfs /\ device[m] = on[of[m]]
    /\ \A m, n \in Mounts : of[m] = of[n] /\ of[m] \notin Btrfs
                              => device[m] = device[n]
    /\ shows \in [Mounts -> Filesystems]
    /\ \A m \in Mounts : \E n \in Mounts : of[n] = shows[m] /\ shows[n] = of[n]

Init ==
    /\ World
    /\ todo = Mounts /\ seen = {} /\ reports = {} /\ failed = {}
    /\ totals = [d \in Disks |-> <<>>]

-----------------------------------------------------------------------------

(* _physical_backing of a device of f on the disks D *)
Traced(f, D) == (D \cap known[f]) \cup (IF D \subseteq known[f] THEN {} ELSE {Unknown})

(* The device of m is named by a group of fs/btrfs *)
Grouped(m) == /\ of[m] \in Btrfs
              /\ device[m] # {} /\ device[m] \subseteq listed[of[m]]

(* Fault: the members of the group that have no name are left out *)
GroupBacking_Named(f) == Traced(f, listed[f])

(* A member that the group names "unknown" has no backing but that *)
GroupBacking(f) ==
    Traced(f, listed[f]) \cup (IF listed[f] = on[f] THEN {} ELSE {Unknown})

BackingOf(m) == IF Grouped(m) THEN GroupBacking(of[m]) ELSE Traced(of[m], device[m])

(* Fault: a btrfs is taken for one on the device it is mounted from *)
OwnershipKnown_Single(m) == Grouped(m) => Unknown \notin BackingOf(m)

OwnershipKnown(m) == of[m] \in Btrfs => Grouped(m) /\ Unknown \notin BackingOf(m)

Exclusive(m) == /\ OwnershipKnown(m)
                /\ Cardinality(BackingOf(m)) = 1 /\ BackingOf(m) \subseteq Disks

(* Fault: what was mounted from is part of the identity *)
Identity_Mounted(m) == [fs |-> of[m], device |-> device[m], number |-> subvolume[m]]

(* A device number is that of one file system; a btrfs is known by its      *)
(* group, else by the device, else by the number of the subvolume           *)
Identity(m) ==
    [fs |-> of[m],
     device |-> IF of[m] \in Btrfs /\ ~ Grouped(m) THEN device[m] ELSE {},
     number |-> IF of[m] \in Btrfs /\ device[m] = {} THEN subvolume[m] ELSE 0]

(* "if identity in seen: continue" *)
Duplicate == \E m \in todo :
    /\ Identity(m) \in seen
    /\ todo' = todo \ {m}
    /\ UNCHANGED <<world, seen, reports, totals, failed>>

(* statvfs raises, or its block size is no size *)
Unreadable == \E m \in todo :
    /\ Identity(m) \notin seen
    /\ todo' = todo \ {m}
    /\ failed' = failed \cup {m}
    /\ UNCHANGED <<world, seen, reports, totals>>

Report == \E m \in todo :
    /\ Identity(m) \notin seen
    /\ todo' = todo \ {m}
    /\ seen' = seen \cup {Identity(m)}
    /\ reports' = reports \cup {[mount |-> m, backing |-> BackingOf(m),
                                 exclusive |-> Exclusive(m)]}
    /\ totals' = [d \in Disks |-> IF Exclusive(m) /\ d \in BackingOf(m)
                                    THEN Append(totals[d], shows[m]) ELSE totals[d]]
    /\ UNCHANGED <<world, failed>>

Finished == todo = {} /\ UNCHANGED vars

Next == Duplicate \/ Unreadable \/ Report \/ Finished

Spec == Init /\ [][Next]_vars

-----------------------------------------------------------------------------
(* Properties *)

(* A report names disks or says that it does not know; a mount is looked at *)
(* once                                                                     *)
TypeOK ==
    /\ World
    /\ todo \subseteq Mounts /\ failed \subseteq Mounts \ todo
    /\ reports \subseteq [mount : Mounts, backing : SUBSET (Disks \cup {Unknown}),
                          exclusive : BOOLEAN]
    /\ totals \in [Disks -> Seq(Filesystems)]

(* The file system of m lies on more than its device, and nothing that the  *)
(* collector reads says so.                                                 *)
Spread(m) == of[m] \in Spanning /\ device[m] # {} /\ device[m] # on[of[m]]

(* A file system is said to be exclusive to a disk only if it lies on that  *)
(* disk alone, and that is said of one of its mounts only, whatever part of *)
(* sysfs is hidden and whatever its subvolumes look like.  A file system    *)
(* that spreads from its device unseen is the exception: the disk it is     *)
(* mounted from passes for the whole.                                       *)
ExclusiveIsOwned ==
    \A r \in reports : r.exclusive =>
        /\ r.backing \subseteq on[of[r.mount]]
        /\ r.backing = on[of[r.mount]] \/ Spread(r.mount)
        /\ \A s \in reports : s.exclusive /\ of[s.mount] = of[r.mount] => s = r

(* No disk is blamed for a file system that is not on it, and one that is   *)
(* not traced to the end says so; only a btrfs without its group and one    *)
(* that spreads from its device unseen do not.                              *)
AttributionSound ==
    \A r \in reports :
        /\ r.backing \subseteq on[of[r.mount]] \cup {Unknown}
        /\ \/ Unknown \in r.backing \/ r.backing = {}
           \/ r.backing = on[of[r.mount]]
           \/ of[r.mount] \in Btrfs /\ ~ Grouped(r.mount)
           \/ Spread(r.mount)

(* Every file system is reported unless statvfs failed on all its mounts:   *)
(* no mount is dropped for the sake of another that could not be read.      *)
NoneMissing ==
    todo = {} => \A m \in Mounts : \/ m \in failed
                                   \/ \E r \in reports : of[r.mount] = of[m]

(* Together: what is said of a file system is true, and it is said.         *)
AttributionExact == AttributionSound /\ NoneMissing

(* A file system that lies on the disk d alone, or has its device there     *)
Belongs(f, d) ==
    on[f] = {d} \/ \E m \in Mounts : of[m] = f /\ Spread(m) /\ d \in device[m]

(* The help text of monix_storage_disk_filesystem_*_bytes: the sum of the   *)
(* unique mounted file systems that lie on this disk alone.                 *)
TotalsAreSums ==
    \A d \in Disks :
        /\ \A i \in DOMAIN totals[d] : on[totals[d][i]] = {d}
        /\ \A i, j \in DOMAIN totals[d] : totals[d][i] = totals[d][j] => i = j

(* It is that sum, if no mount hides another, but for the file systems that *)
(* spread unseen from a device on this disk: each of them counts as a       *)
(* whole, and on one disk only.                                             *)
TotalsOwned == shows = of =>
    /\ \A d \in Disks : \A i \in DOMAIN totals[d] : Belongs(totals[d][i], d)
    /\ \A d, e \in Disks : \A i \in DOMAIN totals[d], j \in DOMAIN totals[e] :
           totals[d][i] = totals[e][j] => d = e /\ i = j
=============================================================================
