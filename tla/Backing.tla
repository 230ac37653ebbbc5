------------------------------ MODULE Backing ------------------------------
(***************************************************************************)
(* _physical_backing of collectors/storage/collector.py: on which physical *)
(* disks does a block device lie?  The recursion over the slaves of a      *)
(* device, or from a partition to its disk, with the set "visited" that    *)
(* all its branches share, as a walk with a stack of the calls to make.    *)
(* The order of a directory's entries is any.                              *)
(*                                                                         *)
(* sysfs is fixed during a walk and chosen at the start: devices stacked   *)
(* in any way, names that class/block does not list, even cycles.          *)
(***************************************************************************)
EXTENDS Naturals, Sequences, FiniteSets

CONSTANTS
    Names,      \* names found in sysfs
    Unknown     \* "unknown"

ASSUME BackingAssumption == IsFiniteSet(Names) /\ Unknown \notin Names

VARIABLES
    blocks,     \* names listed in class/block
    physical,   \* those that are physical disks
    partition,  \* those that are partitions
    slaves,     \* names in the "slaves" directory of each
    parent,     \* the disk of a partition, as far as it can be found
    root,       \* the device asked about
    pending,    \* calls of _physical_backing to make, the next one first
    visited,    \* visited
    result      \* the union of what the calls returned

world == <<blocks, physical, partition, slaves, parent, root>>
vars == <<world, pending, visited, result>>

(* A disk is no partition, and only other devices have slaves.  The parent  *)
(* of a partition may be missing: "" in the code, a name that is no block.  *)
World ==
    /\ blocks \in SUBSET Names
    /\ physical \in SUBSET blocks /\ partition \in SUBSET (blocks \ physical)
    /\ slaves \in [Names -> SUBSET Names]
    /\ \A n \in Names : slaves[n] # {} => n \in blocks \ (physical \cup partition)
    /\ parent \in [Names -> Names]
    /\ \A n \in Names \ partition : parent[n] = n
    /\ root \in Names

Init ==
    /\ World
    /\ pending = <<root>> /\ visited = {} /\ result = {}

(* The listings of a directory *)
Orders(S) == {order \in [1 .. Cardinality(S) -> S] :
                \A n \in S : \E i \in 1 .. Cardinality(S) : order[i] = n}

Call == Head(pending)

(* "if name in visited: return set()" *)
Repeated ==
    /\ pending # <<>> /\ Call \in visited
    /\ pending' = Tail(pending)
    /\ UNCHANGED <<world, visited, result>>

Fresh == pending # <<>> /\ Call \notin visited

Missing ==
    /\ Fresh /\ Call \notin blocks
    /\ result' = result \cup {Unknown}
    /\ pending' = Tail(pending)
    /\ UNCHANGED <<world, visited>>

Disk ==
    /\ Fresh /\ Call \in physical
    /\ visited' = visited \cup {Call}
    /\ result' = result \cup {Call}
    /\ pending' = Tail(pending)
    /\ UNCHANGED world

Stacked == Fresh /\ Call \in blocks \ physical /\ slaves[Call] # {}

(* Fault: the slaves are taken for visited when they are listed *)
Slaves_Marked ==
    /\ Stacked
    /\ visited' = visited \cup {Call} \cup slaves[Call]
    /\ \E order \in Orders(slaves[Call]) : pending' = order \o Tail(pending)
    /\ UNCHANGED <<world, result>>

(* Fault: a device with slaves is not marked *)
Slaves_Unmarked ==
    /\ Stacked
    /\ \E order \in Orders(slaves[Call]) : pending' = order \o Tail(pending)
    /\ UNCHANGED <<world, visited, result>>

Slaves ==
    /\ Stacked
    /\ visited' = visited \cup {Call}
    /\ \E order \in Orders(slaves[Call]) : pending' = order \o Tail(pending)
    /\ UNCHANGED <<world, result>>

Parent ==
    /\ Fresh /\ Call \in partition
    /\ visited' = visited \cup {Call}
    /\ pending' = <<parent[Call]>> \o Tail(pending)
    /\ UNCHANGED <<world, result>>

(* Neither a disk nor on anything *)
Bare ==
    /\ Fresh /\ Call \in blocks \ (physical \cup partition) /\ slaves[Call] = {}
    /\ visited' = visited \cup {Call}
    /\ result' = result \cup {Unknown}
    /\ pending' = Tail(pending)
    /\ UNCHANGED world

Finished == pending = <<>> /\ UNCHANGED vars

Next == \/ Repeated \/ Missing \/ Disk \/ Slaves \/ Parent \/ Bare
        \/ Finished

Spec == Init /\ [][Next]_vars

(* The walk is a call that runs until it returns *)
FairSpec == Spec /\ WF_vars(Next)

-----------------------------------------------------------------------------
(* The reference: what can be reached                                       *)

Below(n) == IF n \in blocks \ physical
              THEN slaves[n] \cup (IF n \in partition THEN {parent[n]} ELSE {})
              ELSE {}

Closed(S) == \A n \in S : Below(n) \subseteq S

Reachable == {n \in Names : \A S \in SUBSET Names : root \in S /\ Closed(S) => n \in S}

(* A name that ends a branch without being a disk *)
DeadEnd(n) == n \notin physical /\ Below(n) = {}

Backings == (Reachable \cap physical)
              \cup (IF \E n \in Reachable : DeadEnd(n) THEN {Unknown} ELSE {})

-----------------------------------------------------------------------------
(* Properties *)

(* What is visited is a block device, and the result names only disks *)
TypeOK ==
    /\ World
    /\ pending \in Seq(Names)
    /\ visited \subseteq blocks
    /\ result \subseteq physical \cup {Unknown}

(* The walk returns the disks that can be reached, all of them, and says    *)
(* "unknown" exactly if some branch ends elsewhere: sharing "visited"       *)
(* loses neither a disk nor a doubt, whatever devices share.                *)
BackingExact == pending = <<>> => result = Backings

(* It returns, even on a cycle of devices *)
WalkEnds == <>(pending = <<>>)

=============================================================================
