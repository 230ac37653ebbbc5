--------------------------- MODULE StorageProofs ---------------------------
(* Proofs about Storage, for any file systems, mounts and disks.            *)
EXTENDS Storage, FiniteSetTheorems, TLAPS

-----------------------------------------------------------------------------
(* What a mount says, given a picture of sysfs                              *)

(* Backings are disks and Unknown                                           *)
LEMMA BackingTyped == ASSUME World, NEW m \in Mounts
                      PROVE  BackingOf(m) \in SUBSET (Disks \cup {Unknown})
BY DEF World, BackingOf, GroupBacking, Traced

(* An exclusive mount is of a file system that lies on its one disk, or     *)
(* spreads from it unseen                                                   *)
LEMMA ExclusiveMount ==
    ASSUME World, NEW m \in Mounts, Exclusive(m)
    PROVE  /\ BackingOf(m) \subseteq on[of[m]]
           /\ \/ BackingOf(m) = on[of[m]]
              \/ Spread(m) /\ BackingOf(m) = device[m]
           /\ \E d \in Disks : BackingOf(m) = {d}
           /\ Identity(m) = [fs |-> of[m], device |-> {}, number |-> 0]
<1> USE StorageAssumption
<1>1. /\ of[m] \in Filesystems /\ device[m] \subseteq Disks
      /\ on[of[m]] \subseteq Disks /\ known[of[m]] \subseteq on[of[m]]
  BY DEF World
<1>2. \E d \in Disks : BackingOf(m) = {d}
  <2>1. IsFiniteSet(BackingOf(m))
    BY FS_Subset DEF Exclusive
  <2>2. PICK d : BackingOf(m) = {d}
    BY <2>1, FS_Singleton DEF Exclusive
  <2>q. QED
    BY <2>2 DEF Exclusive
<1>3. CASE of[m] \in Btrfs
  <2>1. Grouped(m) /\ Unknown \notin GroupBacking(of[m])
    BY <1>3 DEF Exclusive, OwnershipKnown, BackingOf
  <2>2. listed[of[m]] = on[of[m]] /\ Unknown \notin Traced(of[m], listed[of[m]])
    BY <2>1 DEF GroupBacking
  <2>3. on[of[m]] \subseteq known[of[m]]
    BY <2>2 DEF Traced
  <2>4. BackingOf(m) = on[of[m]]
    BY <1>1, <2>1, <2>2, <2>3 DEF BackingOf, GroupBacking, Traced
  <2>5. device[m] # {}
    BY <2>1 DEF Grouped
  <2>q. QED
    BY <1>2, <2>1, <2>4, <2>5 DEF Identity
<1>4. CASE of[m] \notin Btrfs
  <2>1. BackingOf(m) = Traced(of[m], device[m])
    BY <1>4 DEF BackingOf, Grouped
  <2>2. Unknown \notin BackingOf(m) /\ BackingOf(m) # {}
    BY <1>2
  <2>3. device[m] \subseteq known[of[m]] /\ BackingOf(m) = device[m]
    BY <2>1, <2>2 DEF Traced
  <2>4. device[m] = on[of[m]] \/ Spread(m)
    <3>1. \/ of[m] \in Spanning /\ device[m] \subseteq on[of[m]]
          \/ device[m] = on[of[m]]
      BY <1>4, <2>2, <2>3 DEF World
    <3>q. QED
      BY <2>2, <2>3, <3>1 DEF Spread
  <2>q. QED
    BY <1>1, <1>2, <1>4, <2>3, <2>4 DEF Identity
<1>q. QED
  BY <1>3, <1>4

(* No backing of a mount is foreign, and what is not traced says so, except *)
(* for a btrfs without its group and what spreads unseen                    *)
LEMMA BackingSound ==
    ASSUME World, NEW m \in Mounts
    PROVE  /\ BackingOf(m) \subseteq on[of[m]] \cup {Unknown}
           /\ \/ Unknown \in BackingOf(m) \/ BackingOf(m) = {}
              \/ BackingOf(m) = on[of[m]]
              \/ of[m] \in Btrfs /\ ~ Grouped(m)
              \/ Spread(m)
<1>1. of[m] \in Filesystems /\ known[of[m]] \subseteq on[of[m]]
  BY DEF World
<1>2. CASE Grouped(m)
  <2>1. BackingOf(m) = GroupBacking(of[m])
    BY <1>2 DEF BackingOf
  <2>q. QED
    BY <1>1, <1>2, <2>1 DEF GroupBacking, Traced
<1>3. CASE ~ Grouped(m)
  <2>1. BackingOf(m) = Traced(of[m], device[m])
    BY <1>3 DEF BackingOf
  <2>2. of[m] \in Btrfs \/ device[m] = {} \/ device[m] = on[of[m]] \/ of[m] \in Spanning
    BY DEF World
  <2>3. of[m] \in Btrfs \/ device[m] = {} \/ device[m] = on[of[m]] \/ Spread(m)
    BY <2>2 DEF Spread
  <2>4. device[m] \subseteq on[of[m]]
    BY DEF World
  <2>q. QED
    BY <1>1, <1>3, <2>1, <2>3, <2>4 DEF Traced
<1>q. QED
  BY <1>2, <1>3

(* The picture of sysfs is the same during a collection                     *)
LEMMA SameWorld ==
    ASSUME UNCHANGED world
    PROVE  /\ World' <=> World
           /\ on' = on /\ of' = of /\ shows' = shows
           /\ \A m : /\ BackingOf(m)' = BackingOf(m)
                     /\ Exclusive(m)' <=> Exclusive(m)
                     /\ Identity(m)' = Identity(m)
                     /\ Grouped(m)' <=> Grouped(m)
                     /\ Spread(m)' <=> Spread(m)
<1>1. /\ on' = on /\ known' = known /\ listed' = listed /\ of' = of
      /\ subvolume' = subvolume /\ device' = device /\ shows' = shows
  BY DEF world
<1>2. \A m : Grouped(m)' <=> Grouped(m)
  BY <1>1 DEF Grouped
<1>3. \A m : BackingOf(m)' = BackingOf(m)
  BY <1>1, <1>2 DEF BackingOf, GroupBacking, Traced
<1>4. \A m : Exclusive(m)' <=> Exclusive(m)
  BY <1>1, <1>2, <1>3 DEF Exclusive, OwnershipKnown
<1>5. \A m : Identity(m)' = Identity(m)
  BY <1>1, <1>2 DEF Identity
<1>6. World' <=> World
  BY <1>1 DEF World
<1>7. \A m : Spread(m)' <=> Spread(m)
  BY <1>1 DEF Spread
<1>q. QED
  BY <1>1, <1>2, <1>3, <1>4, <1>5, <1>6, <1>7

-----------------------------------------------------------------------------
(* Types *)

(* A collection starts with nothing reported                                *)
LEMMA InitType == Init => TypeOK
BY DEF Init, TypeOK

(* Every step keeps the types                                               *)
LEMMA NextType == TypeOK /\ [Next]_vars => TypeOK'
<1> SUFFICES ASSUME TypeOK, [Next]_vars PROVE TypeOK'
  OBVIOUS
<1>1. CASE Duplicate
  BY <1>1, SameWorld DEF Duplicate, TypeOK
<1>2. CASE Unreadable
  BY <1>2, SameWorld DEF Unreadable, TypeOK
<1>3. CASE Report
  <2>1. PICK m \in todo :
          /\ todo' = todo \ {m}
          /\ reports' = reports \cup {[mount |-> m, backing |-> BackingOf(m),
                                       exclusive |-> Exclusive(m)]}
          /\ totals' = [d \in Disks |-> IF Exclusive(m) /\ d \in BackingOf(m)
                                          THEN Append(totals[d], shows[m]) ELSE totals[d]]
          /\ UNCHANGED world /\ failed' = failed
    BY <1>3 DEF Report
  <2>2. World' /\ m \in Mounts /\ BackingOf(m) \in SUBSET (Disks \cup {Unknown})
    BY <2>1, SameWorld, BackingTyped DEF TypeOK
  <2>3. Exclusive(m) \in BOOLEAN
    BY DEF Exclusive, OwnershipKnown, Grouped
  <2>4. reports' \subseteq [mount : Mounts, backing : SUBSET (Disks \cup {Unknown}),
                            exclusive : BOOLEAN]
    BY <2>1, <2>2, <2>3 DEF TypeOK
  <2>5. totals' \in [Disks -> Seq(Filesystems)]
    <3>1. shows[m] \in Filesystems
      BY <2>2 DEF TypeOK, World
    <3>2. ASSUME NEW d \in Disks PROVE totals[d] \in Seq(Filesystems)
                                       /\ Append(totals[d], shows[m]) \in Seq(Filesystems)
      BY <3>1, <3>2 DEF TypeOK
    <3>q. QED
      BY <2>1, <3>2
  <2>q. QED
    BY <2>1, <2>2, <2>4, <2>5 DEF TypeOK
<1>4. CASE UNCHANGED vars
  BY <1>4, SameWorld DEF vars, TypeOK
<1>q. QED
  BY <1>1, <1>2, <1>3, <1>4 DEF Next, Finished

(* Every variable of a collection keeps its type, whatever mounts and sysfs *)
(* look like                                                                *)
THEOREM TypeCorrect == Spec => []TypeOK
<1>1. Init => TypeOK
  BY InitType
<1>2. TypeOK /\ [Next]_vars => TypeOK'
  BY NextType
<1>q. QED
  BY <1>1, <1>2, PTL DEF Spec

-----------------------------------------------------------------------------
(* The invariant of the loop: seen holds the identities of the reported     *)
(* mounts, one report for each, and a mount that was looked at has failed   *)
(* or its identity is seen.                                                 *)

ReportsTrue ==
    \A r \in reports : /\ r.mount \in Mounts /\ r.backing = BackingOf(r.mount)
                       /\ r.exclusive <=> Exclusive(r.mount)
                       /\ Identity(r.mount) \in seen

OneReport == \A r, s \in reports : Identity(r.mount) = Identity(s.mount) => r = s

SeenReported == \A i \in seen : \E r \in reports : Identity(r.mount) = i

LookedAt == \A m \in Mounts : m \in todo \/ m \in failed \/ Identity(m) \in seen

LoopInv == ReportsTrue /\ OneReport /\ SeenReported /\ LookedAt

(* Nothing is seen or reported at the start                                 *)
LEMMA InitLoop == Init => LoopInv
BY DEF Init, LoopInv, ReportsTrue, OneReport, SeenReported, LookedAt

(* Every step keeps the invariant of the loop                               *)
LEMMA NextLoop == TypeOK /\ LoopInv /\ [Next]_vars => LoopInv'
<1> SUFFICES ASSUME TypeOK, LoopInv, [Next]_vars PROVE LoopInv'
  OBVIOUS
<1>1. UNCHANGED world => \A m : /\ Identity(m)' = Identity(m)
                                /\ BackingOf(m)' = BackingOf(m)
                                /\ Exclusive(m)' <=> Exclusive(m)
  BY SameWorld
<1>2. CASE Duplicate
  BY <1>1, <1>2 DEF Duplicate, LoopInv, ReportsTrue, OneReport, SeenReported, LookedAt
<1>3. CASE Unreadable
  BY <1>1, <1>3 DEF Unreadable, LoopInv, ReportsTrue, OneReport, SeenReported, LookedAt
<1>4. CASE Report
  <2>1. PICK m \in todo :
          /\ Identity(m) \notin seen
          /\ todo' = todo \ {m}
          /\ seen' = seen \cup {Identity(m)}
          /\ reports' = reports \cup {[mount |-> m, backing |-> BackingOf(m),
                                       exclusive |-> Exclusive(m)]}
          /\ UNCHANGED world /\ failed' = failed
    BY <1>4 DEF Report
  <2> DEFINE new == [mount |-> m, backing |-> BackingOf(m), exclusive |-> Exclusive(m)]
  <2>2. /\ m \in Mounts
        /\ new.mount = m /\ new.backing = BackingOf(m) /\ (new.exclusive <=> Exclusive(m))
    BY DEF TypeOK
  <2>3. reports' = reports \cup {new}
    BY <2>1
  <2> HIDE DEF new
  <2>4. ReportsTrue'
    BY <1>1, <2>1, <2>2, <2>3 DEF LoopInv, ReportsTrue
  <2>5. OneReport'
    BY <1>1, <2>1, <2>2, <2>3 DEF LoopInv, ReportsTrue, OneReport
  <2>6. SeenReported'
    BY <1>1, <2>1, <2>2, <2>3 DEF LoopInv, SeenReported
  <2>7. LookedAt'
    BY <1>1, <2>1 DEF LoopInv, LookedAt
  <2>q. QED
    BY <2>4, <2>5, <2>6, <2>7 DEF LoopInv
<1>5. CASE UNCHANGED vars
  BY <1>1, <1>5 DEF vars, LoopInv, ReportsTrue, OneReport, SeenReported, LookedAt
<1>q. QED
  BY <1>2, <1>3, <1>4, <1>5 DEF Next, Finished

(* What the invariant of the loop says of the reports                       *)
LEMMA LoopReports == TypeOK /\ LoopInv => ExclusiveIsOwned /\ AttributionSound /\ NoneMissing
<1> SUFFICES ASSUME TypeOK, LoopInv PROVE ExclusiveIsOwned /\ AttributionSound /\ NoneMissing
  OBVIOUS
<1>1. ExclusiveIsOwned
  <2> SUFFICES ASSUME NEW r \in reports, r.exclusive
               PROVE  /\ r.backing \subseteq on[of[r.mount]]
                      /\ r.backing = on[of[r.mount]] \/ Spread(r.mount)
                      /\ \A s \in reports :
                           s.exclusive /\ of[s.mount] = of[r.mount] => s = r
    BY DEF ExclusiveIsOwned
  <2>1. World /\ r.mount \in Mounts /\ Exclusive(r.mount) /\ r.backing = BackingOf(r.mount)
    BY DEF TypeOK, LoopInv, ReportsTrue
  <2>2. /\ BackingOf(r.mount) \subseteq on[of[r.mount]]
        /\ BackingOf(r.mount) = on[of[r.mount]] \/ Spread(r.mount)
        /\ Identity(r.mount) = [fs |-> of[r.mount], device |-> {}, number |-> 0]
    BY <2>1, ExclusiveMount
  <2>3. ASSUME NEW s \in reports, s.exclusive, of[s.mount] = of[r.mount] PROVE s = r
    <3>1. s.mount \in Mounts /\ Exclusive(s.mount)
      BY <2>3 DEF LoopInv, ReportsTrue
    <3>2. Identity(s.mount) = [fs |-> of[s.mount], device |-> {}, number |-> 0]
      BY <2>1, <3>1, ExclusiveMount
    <3>3. Identity(s.mount) = Identity(r.mount)
      BY <2>2, <2>3, <3>2
    <3>q. QED
      BY <3>3 DEF LoopInv, OneReport
  <2>q. QED
    BY <2>1, <2>2, <2>3
<1>2. AttributionSound
  <2> SUFFICES ASSUME NEW r \in reports
               PROVE  /\ r.backing \subseteq on[of[r.mount]] \cup {Unknown}
                      /\ \/ Unknown \in r.backing \/ r.backing = {}
                         \/ r.backing = on[of[r.mount]]
                         \/ of[r.mount] \in Btrfs /\ ~ Grouped(r.mount)
                         \/ Spread(r.mount)
    BY DEF AttributionSound
  <2>1. World /\ r.mount \in Mounts /\ r.backing = BackingOf(r.mount)
    BY DEF TypeOK, LoopInv, ReportsTrue
  <2>q. QED
    BY <2>1, BackingSound
<1>3. NoneMissing
  <2> SUFFICES ASSUME todo = {}, NEW m \in Mounts, m \notin failed
               PROVE  \E r \in reports : of[r.mount] = of[m]
    BY DEF NoneMissing
  <2>1. PICK r \in reports : Identity(r.mount) = Identity(m)
    BY DEF LoopInv, LookedAt, SeenReported
  <2>2. of[r.mount] = of[m]
    BY <2>1 DEF Identity
  <2>q. QED
    BY <2>2
<1>q. QED
  BY <1>1, <1>2, <1>3

(* The invariant of the loop in every reachable state                       *)
LEMMA Loop == Spec => [](TypeOK /\ LoopInv)
<1>1. Init => TypeOK /\ LoopInv
  BY InitType, InitLoop
<1>2. (TypeOK /\ LoopInv) /\ [Next]_vars => (TypeOK /\ LoopInv)'
  BY NextType, NextLoop
<1>q. QED
  BY <1>1, <1>2, PTL DEF Spec

(* An exclusive file system lies on its disk alone, unless it is one that   *)
(* spreads from there unseen, and it is reported so by one mount, whatever  *)
(* the mounts and sysfs look like.                                          *)
THEOREM ReportsOwned == Spec => []ExclusiveIsOwned
BY Loop, LoopReports, PTL

(* No disk is blamed for a file system that is not on it, and no file       *)
(* system is missing, whatever the mounts and sysfs look like.              *)
THEOREM ReportsExact == Spec => []AttributionExact
<1>1. TypeOK /\ LoopInv => AttributionExact
  BY LoopReports DEF AttributionExact
<1>q. QED
  BY <1>1, Loop, PTL

-----------------------------------------------------------------------------
(* The totals                                                               *)

(* An entry of a total is that of an exclusive report                       *)
Counted(R, g, d, f) == \E r \in R : r.exclusive /\ r.backing = {d} /\ g[r.mount] = f

Distinct(s) == \A i, j \in DOMAIN s : s[i] = s[j] => i = j

TotalsInv == shows = of => \A d \in Disks :
               /\ \A i \in DOMAIN totals[d] : Counted(reports, of, d, totals[d][i])
               /\ Distinct(totals[d])

(* A new value at the end keeps the values distinct                         *)
LEMMA AppendDistinct ==
    ASSUME NEW S, NEW s \in Seq(S), NEW x \in S, Distinct(s),
           \A i \in DOMAIN s : s[i] # x
    PROVE  Distinct(Append(s, x))
<1>1. /\ Len(s) \in Nat /\ DOMAIN s = 1 .. Len(s)
      /\ DOMAIN Append(s, x) = 1 .. Len(s) + 1
      /\ \A i \in 1 .. Len(s) + 1 : Append(s, x)[i] = IF i <= Len(s) THEN s[i] ELSE x
  OBVIOUS
<1>2. ASSUME NEW i \in 1 .. Len(s) + 1, NEW j \in 1 .. Len(s) + 1,
             Append(s, x)[i] = Append(s, x)[j]
      PROVE  i = j
  <2>1. CASE i <= Len(s) /\ j <= Len(s)
    BY <1>1, <1>2, <2>1 DEF Distinct
  <2>2. CASE ~ (i <= Len(s) /\ j <= Len(s))
    BY <1>1, <1>2, <2>2
  <2>q. QED
    BY <2>1, <2>2
<1>q. QED
  BY <1>1, <1>2 DEF Distinct

(* Every step keeps it: a file system that was counted for a disk has been  *)
(* reported as exclusive, so that its identity is seen                      *)
LEMMA NextTotals == TypeOK /\ LoopInv /\ TotalsInv /\ [Next]_vars => TotalsInv'
<1> SUFFICES ASSUME TypeOK, LoopInv, TotalsInv, [Next]_vars PROVE TotalsInv'
  OBVIOUS
<1>1. CASE Duplicate \/ Unreadable \/ UNCHANGED vars
  <2>1. UNCHANGED world /\ totals' = totals /\ reports' = reports
    BY <1>1 DEF Duplicate, Unreadable, vars
  <2>2. on' = on /\ of' = of /\ shows' = shows
    BY <2>1, SameWorld
  <2>q. QED
    BY <2>1, <2>2 DEF TotalsInv, Counted, Distinct
<1>2. CASE Report
  <2>1. PICK m \in todo :
          /\ Identity(m) \notin seen
          /\ reports' = reports \cup {[mount |-> m, backing |-> BackingOf(m),
                                       exclusive |-> Exclusive(m)]}
          /\ totals' = [d \in Disks |-> IF Exclusive(m) /\ d \in BackingOf(m)
                                          THEN Append(totals[d], shows[m]) ELSE totals[d]]
          /\ UNCHANGED world
    BY <1>2 DEF Report
  <2>2. World /\ m \in Mounts /\ of' = of /\ shows' = shows /\ of[m] \in Filesystems
    BY <2>1, SameWorld DEF TypeOK, World
  <2> SUFFICES ASSUME shows = of, NEW d \in Disks
               PROVE  /\ \A i \in DOMAIN totals'[d] : Counted(reports', of, d, totals'[d][i])
                      /\ Distinct(totals'[d])
    BY <2>2 DEF TotalsInv, Distinct
  <2>3. /\ totals[d] \in Seq(Filesystems) /\ Distinct(totals[d])
        /\ \A i \in DOMAIN totals[d] : Counted(reports, of, d, totals[d][i])
    BY DEF TypeOK, TotalsInv
  <2>4. ASSUME NEW f, Counted(reports, of, d, f) PROVE Counted(reports', of, d, f)
    BY <2>1, <2>2, <2>4 DEF Counted
  <2>5. CASE ~ (Exclusive(m) /\ d \in BackingOf(m))
    <3>1. totals'[d] = totals[d]
      BY <2>1, <2>5
    <3>2. ASSUME NEW i \in DOMAIN totals'[d] PROVE Counted(reports', of, d, totals'[d][i])
      <4> DEFINE f == totals[d][i]
      <4>1. Counted(reports, of, d, f) /\ totals'[d][i] = f
        BY <2>3, <3>1, <3>2
      <4> HIDE DEF f
      <4>q. QED
        BY <2>4, <4>1
    <3>q. QED
      BY <2>3, <3>1, <3>2
  <2>6. CASE Exclusive(m) /\ d \in BackingOf(m)
    <3>1. totals'[d] = Append(totals[d], of[m])
      BY <2>1, <2>6
    <3>2. BackingOf(m) = {d} /\ Identity(m) = [fs |-> of[m], device |-> {}, number |-> 0]
      BY <2>2, <2>6, ExclusiveMount
    <3>3. ASSUME Counted(reports, of, d, of[m]) PROVE FALSE
      <4>1. PICK r \in reports : r.exclusive /\ of[r.mount] = of[m]
        BY <3>3 DEF Counted
      <4>2. r.mount \in Mounts /\ Exclusive(r.mount) /\ Identity(r.mount) \in seen
        BY <4>1 DEF LoopInv, ReportsTrue
      <4>3. Identity(r.mount) = [fs |-> of[r.mount], device |-> {}, number |-> 0]
        BY <2>2, <4>2, ExclusiveMount
      <4>q. QED
        BY <2>1, <3>2, <4>1, <4>2, <4>3
    <3>4. Distinct(totals'[d])
      <4>1. \A i \in DOMAIN totals[d] : totals[d][i] # of[m]
        BY <2>3, <3>3
      <4>q. QED
        BY <2>2, <2>3, <3>1, <4>1, AppendDistinct
    <3>5. Counted(reports', of, d, of[m])
      <4> DEFINE new == [mount |-> m, backing |-> BackingOf(m), exclusive |-> Exclusive(m)]
      <4>1. new \in reports' /\ new.exclusive /\ new.backing = {d} /\ new.mount = m
        BY <2>1, <2>6, <3>2
      <4> HIDE DEF new
      <4>q. QED
        BY <2>2, <4>1 DEF Counted
    <3>6. ASSUME NEW i \in DOMAIN totals'[d] PROVE Counted(reports', of, d, totals'[d][i])
      <4> DEFINE f == totals'[d][i]
      <4>1. Counted(reports, of, d, f) \/ f = of[m]
        BY <2>2, <2>3, <3>1, <3>6
      <4>2. Counted(reports', of, d, f)
        <5>1. CASE Counted(reports, of, d, f)
          BY <2>4, <5>1
        <5>2. CASE f = of[m]
          BY <3>5, <5>2
        <5>q. QED
          BY <4>1, <5>1, <5>2
      <4>q. QED
        BY <4>2
    <3>q. QED
      BY <3>4, <3>6
  <2>q. QED
    BY <2>5, <2>6
<1>q. QED
  BY <1>1, <1>2 DEF Next, Finished

(* What the invariants say of the totals                                    *)
LEMMA TotalsHold == TypeOK /\ LoopInv /\ TotalsInv => TotalsOwned
<1> SUFFICES ASSUME TypeOK, LoopInv, TotalsInv, shows = of
             PROVE  /\ \A d \in Disks : \A i \in DOMAIN totals[d] : Belongs(totals[d][i], d)
                    /\ \A d, e \in Disks :
                         \A i \in DOMAIN totals[d], j \in DOMAIN totals[e] :
                            totals[d][i] = totals[e][j] => d = e /\ i = j
  BY DEF TotalsOwned
<1>1. ASSUME NEW d \in Disks, NEW i \in DOMAIN totals[d] PROVE Belongs(totals[d][i], d)
  <2>1. PICK r \in reports : r.exclusive /\ r.backing = {d} /\ of[r.mount] = totals[d][i]
    BY <1>1 DEF TotalsInv, Counted
  <2>2. World /\ r.mount \in Mounts /\ Exclusive(r.mount) /\ r.backing = BackingOf(r.mount)
    BY <2>1 DEF TypeOK, LoopInv, ReportsTrue
  <2>3. \/ on[of[r.mount]] = {d}
        \/ Spread(r.mount) /\ device[r.mount] = {d}
    BY <2>1, <2>2, ExclusiveMount
  <2>q. QED
    BY <2>1, <2>2, <2>3 DEF Belongs
<1>2. ASSUME NEW d \in Disks, NEW e \in Disks,
             NEW i \in DOMAIN totals[d], NEW j \in DOMAIN totals[e],
             totals[d][i] = totals[e][j]
      PROVE  d = e /\ i = j
  <2>1. PICK r \in reports : r.exclusive /\ r.backing = {d} /\ of[r.mount] = totals[d][i]
    BY <1>2 DEF TotalsInv, Counted
  <2>2. PICK s \in reports : s.exclusive /\ s.backing = {e} /\ of[s.mount] = totals[e][j]
    BY <1>2 DEF TotalsInv, Counted
  <2>3. r = s
    BY <1>2, <2>1, <2>2, LoopReports DEF ExclusiveIsOwned
  <2>4. d = e
    BY <2>1, <2>2, <2>3
  <2>5. Distinct(totals[d])
    BY DEF TotalsInv
  <2>q. QED
    BY <1>2, <2>4, <2>5 DEF Distinct
<1>q. QED
  BY <1>1, <1>2

(* A disk's totals hold each file system once and on no other disk, and     *)
(* only those that lie on it alone or spread from it unseen, if no mount    *)
(* hides another.                                                           *)
THEOREM TotalsSound == Spec => []TotalsOwned
<1>1. Init => TypeOK /\ LoopInv /\ TotalsInv
  <2>1. Init => TotalsInv
    BY DEF Init, TotalsInv, Distinct
  <2>q. QED
    BY <2>1, InitType, InitLoop
<1>2. (TypeOK /\ LoopInv /\ TotalsInv) /\ [Next]_vars => (TypeOK /\ LoopInv /\ TotalsInv)'
  BY NextType, NextLoop, NextTotals
<1>q. QED
  BY <1>1, <1>2, TotalsHold, PTL DEF Spec
=============================================================================
