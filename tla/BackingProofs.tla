--------------------------- MODULE BackingProofs ---------------------------
(* Proofs about Backing, for any finite set of names and any sysfs.         *)
EXTENDS Backing, FiniteSetTheorems, TLAPS

-----------------------------------------------------------------------------
(* Sequences of calls                                                       *)

Elements(s) == {s[i] : i \in 1 .. Len(s)}

Waiting == Elements(pending)

(* The first call and the others are all the calls                          *)
LEMMA HeadAndTail ==
    ASSUME NEW S, NEW s \in Seq(S), s # <<>>
    PROVE  /\ Head(s) \in S /\ Tail(s) \in Seq(S)
           /\ Elements(s) = {Head(s)} \cup Elements(Tail(s))
<1>1. Len(s) \in Nat \ {0} /\ Head(s) = s[1] /\ Head(s) \in S /\ Tail(s) \in Seq(S)
  OBVIOUS
<1>2. Len(Tail(s)) = Len(s) - 1 /\ \A i \in 1 .. Len(s) - 1 : Tail(s)[i] = s[i + 1]
  BY <1>1
<1>3. ASSUME NEW x \in Elements(s) PROVE x \in {Head(s)} \cup Elements(Tail(s))
  <2>1. PICK i \in 1 .. Len(s) : x = s[i]
    BY DEF Elements
  <2>2. CASE i = 1
    BY <2>1, <2>2, <1>1
  <2>3. CASE i # 1
    <3>1. i - 1 \in 1 .. Len(Tail(s)) /\ Tail(s)[i - 1] = x
      BY <2>1, <2>3, <1>1, <1>2
    <3>q. QED
      BY <3>1 DEF Elements
  <2>q. QED
    BY <2>2, <2>3
<1>4. ASSUME NEW x \in Elements(Tail(s)) PROVE x \in Elements(s)
  <2>1. PICK i \in 1 .. Len(Tail(s)) : x = Tail(s)[i]
    BY DEF Elements
  <2>2. i + 1 \in 1 .. Len(s) /\ s[i + 1] = x
    BY <2>1, <1>1, <1>2
  <2>q. QED
    BY <2>2 DEF Elements
<1>5. Head(s) \in Elements(s)
  BY <1>1 DEF Elements
<1>q. QED
  BY <1>1, <1>3, <1>4, <1>5

(* The calls of two sequences, one after the other                          *)
LEMMA Concatenation ==
    ASSUME NEW S, NEW s \in Seq(S), NEW t \in Seq(S)
    PROVE  s \o t \in Seq(S) /\ Elements(s \o t) = Elements(s) \cup Elements(t)
<1>1. /\ s \o t \in Seq(S) /\ Len(s) \in Nat /\ Len(t) \in Nat
      /\ Len(s \o t) = Len(s) + Len(t)
      /\ \A i \in 1 .. Len(s) + Len(t) :
           (s \o t)[i] = IF i <= Len(s) THEN s[i] ELSE t[i - Len(s)]
  OBVIOUS
<1>2. ASSUME NEW x \in Elements(s \o t) PROVE x \in Elements(s) \cup Elements(t)
  <2>1. PICK i \in 1 .. Len(s) + Len(t) : x = (s \o t)[i]
    BY <1>1 DEF Elements
  <2>2. CASE i <= Len(s)
    <3>1. i \in 1 .. Len(s) /\ x = s[i]
      BY <2>1, <2>2, <1>1
    <3>q. QED
      BY <3>1 DEF Elements
  <2>3. CASE ~ (i <= Len(s))
    <3>1. i - Len(s) \in 1 .. Len(t) /\ x = t[i - Len(s)]
      BY <2>1, <2>3, <1>1
    <3>q. QED
      BY <3>1 DEF Elements
  <2>q. QED
    BY <2>2, <2>3
<1>3. ASSUME NEW x \in Elements(s) PROVE x \in Elements(s \o t)
  <2>1. PICK i \in 1 .. Len(s) : x = s[i]
    BY DEF Elements
  <2>2. i \in 1 .. Len(s \o t) /\ (s \o t)[i] = x
    BY <2>1, <1>1
  <2>q. QED
    BY <2>2 DEF Elements
<1>4. ASSUME NEW x \in Elements(t) PROVE x \in Elements(s \o t)
  <2>1. PICK i \in 1 .. Len(t) : x = t[i]
    BY DEF Elements
  <2>2. i + Len(s) \in 1 .. Len(s \o t) /\ (s \o t)[i + Len(s)] = x
    BY <2>1, <1>1
  <2>q. QED
    BY <2>2 DEF Elements
<1>q. QED
  BY <1>1, <1>2, <1>3, <1>4

(* A listing of the slaves is a sequence of them, all of them               *)
LEMMA Listing ==
    ASSUME NEW S \in SUBSET Names, NEW order \in Orders(S)
    PROVE  order \in Seq(Names) /\ Elements(order) = S
<1>1. Cardinality(S) \in Nat
  <2>1. IsFiniteSet(S)
    BY BackingAssumption, FS_Subset
  <2>q. QED
    BY <2>1, FS_CardinalityType
<1>2. /\ order \in [1 .. Cardinality(S) -> S]
      /\ \A n \in S : \E i \in 1 .. Cardinality(S) : order[i] = n
  BY DEF Orders
<1>3. order \in Seq(S) /\ Len(order) = Cardinality(S)
  BY <1>1, <1>2
<1>4. order \in Seq(Names)
  BY <1>3
<1>q. QED
  BY <1>2, <1>3, <1>4 DEF Elements

-----------------------------------------------------------------------------
(* Types *)

(* The walk starts with a call for a name of sysfs                          *)
LEMMA InitType == Init => TypeOK
BY DEF Init, TypeOK, World

(* What remains after the first call has its type                           *)
LEMMA FirstCall == ASSUME TypeOK, pending # <<>>
                   PROVE  /\ Call \in Names /\ Tail(pending) \in Seq(Names)
                          /\ Waiting = {Call} \cup Elements(Tail(pending))
BY HeadAndTail DEF TypeOK, Call, Waiting

(* Every step keeps the types                                               *)
LEMMA NextType == TypeOK /\ [Next]_vars => TypeOK'
<1> SUFFICES ASSUME TypeOK, [Next]_vars PROVE TypeOK'
  OBVIOUS
<1>1. UNCHANGED world => World'
  BY DEF TypeOK, World, world
<1>2. CASE Repeated
  BY <1>1, <1>2, FirstCall DEF Repeated, TypeOK, world
<1>3. CASE Missing
  BY <1>1, <1>3, FirstCall DEF Missing, Fresh, TypeOK, world
<1>4. CASE Disk
  BY <1>1, <1>4, FirstCall DEF Disk, Fresh, TypeOK, World, world
<1>5. CASE Slaves
  <2>1. PICK order \in Orders(slaves[Call]) : pending' = order \o Tail(pending)
    BY <1>5 DEF Slaves
  <2>2. slaves[Call] \in SUBSET Names /\ Call \in blocks
    BY <1>5, FirstCall DEF Slaves, Stacked, Fresh, TypeOK, World
  <2>3. order \in Seq(Names) /\ Tail(pending) \in Seq(Names)
    BY <2>2, <1>5, Listing, FirstCall DEF Slaves, Stacked, Fresh
  <2>4. pending' \in Seq(Names)
    BY <2>1, <2>3, Concatenation
  <2>q. QED
    BY <1>1, <1>5, <2>2, <2>4 DEF Slaves, TypeOK, world
<1>6. CASE Parent
  <2>1. parent[Call] \in Names /\ Call \in blocks /\ Tail(pending) \in Seq(Names)
    BY <1>6, FirstCall DEF Parent, Fresh, TypeOK, World
  <2>2. <<parent[Call]>> \in Seq(Names)
    BY <2>1
  <2>3. pending' \in Seq(Names)
    BY <1>6, <2>1, <2>2, Concatenation DEF Parent
  <2>q. QED
    BY <1>1, <1>6, <2>1, <2>3 DEF Parent, TypeOK, world
<1>7. CASE Bare
  BY <1>1, <1>7, FirstCall DEF Bare, Fresh, TypeOK, world
<1>8. CASE UNCHANGED vars
  BY <1>1, <1>8 DEF vars, TypeOK, world
<1>q. QED
  BY <1>2, <1>3, <1>4, <1>5, <1>6, <1>7, <1>8 DEF Next, Finished

(* Every variable of the walk keeps its type: what is visited is a block    *)
(* device and the result names only disks, whatever sysfs holds             *)
THEOREM TypeCorrect == Spec => []TypeOK
<1>1. Init => TypeOK
  BY InitType
<1>2. TypeOK /\ [Next]_vars => TypeOK'
  BY NextType
<1>q. QED
  BY <1>1, <1>2, PTL DEF Spec

-----------------------------------------------------------------------------
(* The invariant of the walk: what is visited or waits can be reached, and  *)
(* everything below what is visited is visited, waits, or ended its branch  *)
(* with "unknown".                                                          *)

Accounted(n) == \/ n \in visited \/ n \in Waiting
                \/ n \notin blocks /\ Unknown \in result

SoundWalk == Waiting \subseteq Reachable /\ visited \subseteq Reachable

CompleteWalk == /\ Accounted(root)
                /\ \A n \in visited : \A m \in Below(n) : Accounted(m)

DisksFound == \A n \in Names : n \in physical => (n \in result <=> n \in visited)

DoubtsFound == /\ \A n \in visited : DeadEnd(n) => Unknown \in result
               /\ Unknown \in result => \E n \in Reachable : DeadEnd(n)

WalkInv == SoundWalk /\ CompleteWalk /\ DisksFound /\ DoubtsFound

(* The names below a name are names                                         *)
LEMMA BelowNames == ASSUME World, NEW n \in Names PROVE Below(n) \subseteq Names
BY DEF World, Below

(* The root can be reached, and what is below a name that can be            *)
LEMMA Reaching == ASSUME World
                  PROVE  /\ root \in Reachable
                         /\ \A n \in Reachable : Below(n) \subseteq Reachable
<1>1. root \in Reachable
  BY DEF World, Reachable
<1>2. ASSUME NEW n \in Reachable, NEW m \in Below(n) PROVE m \in Reachable
  <2>1. m \in Names
    BY <1>2, BelowNames DEF Reachable
  <2>2. ASSUME NEW S \in SUBSET Names, root \in S, Closed(S) PROVE m \in S
    <3>1. n \in S
      BY <2>2 DEF Reachable
    <3>q. QED
      BY <3>1, <2>2, <1>2 DEF Closed
  <2>q. QED
    BY <2>1, <2>2 DEF Reachable
<1>q. QED
  BY <1>1, <1>2

(* A closed set that holds the root holds all that can be reached           *)
LEMMA ReachedBy == ASSUME NEW S \in SUBSET Names, root \in S, Closed(S)
                   PROVE  Reachable \subseteq S
BY DEF Reachable

(* sysfs is the same during the walk, and so is what can be reached in it   *)
LEMMA SameWorld == ASSUME UNCHANGED world
                   PROVE  /\ Reachable' = Reachable
                          /\ \A n : Below(n)' = Below(n) /\ (DeadEnd(n)' <=> DeadEnd(n))
                          /\ blocks' = blocks /\ physical' = physical /\ root' = root
<1>1. /\ blocks' = blocks /\ physical' = physical /\ partition' = partition
      /\ slaves' = slaves /\ parent' = parent /\ root' = root
  BY DEF world
<1>2. \A n : Below(n)' = Below(n)
  BY <1>1 DEF Below
<1>3. \A S : Closed(S)' <=> Closed(S)
  BY <1>2 DEF Closed
<1>q. QED
  BY <1>1, <1>2, <1>3 DEF Reachable, DeadEnd

(* Before the first call only the root waits                                *)
LEMMA InitWalk == Init => WalkInv
<1> SUFFICES ASSUME Init PROVE WalkInv
  OBVIOUS
<1>1. World /\ visited = {} /\ result = {} /\ pending = <<root>>
  BY DEF Init
<1>2. Waiting = {root}
  BY <1>1 DEF Waiting, Elements
<1>3. root \in Reachable
  BY <1>1, Reaching
<1>q. QED
  BY <1>1, <1>2, <1>3 DEF WalkInv, SoundWalk, CompleteWalk, Accounted, DisksFound,
     DoubtsFound

(* What a call does to the walk: it adds the calls More, all of them for    *)
(* names below its own, and is accounted for when it leaves                 *)
Called(More) ==
    /\ pending # <<>> /\ UNCHANGED world
    /\ Waiting' = More \cup Elements(Tail(pending))
    /\ More \subseteq Below(Call)
    /\ visited \subseteq visited' /\ visited' \subseteq visited \cup {Call}
    /\ result \subseteq result'
    /\ \/ Call \in visited' /\ (Call \notin visited => Below(Call) \subseteq More)
       \/ Call \notin blocks /\ Unknown \in result' /\ visited' = visited

(* Such a call keeps the walk sound and complete                            *)
LEMMA CalledWalk == ASSUME TypeOK, SoundWalk, CompleteWalk, NEW More, Called(More)
                    PROVE  SoundWalk' /\ CompleteWalk'
<1>1. World /\ Waiting = {Call} \cup Elements(Tail(pending))
  BY FirstCall DEF TypeOK, Called
<1>2. /\ Reachable' = Reachable /\ blocks' = blocks /\ root' = root
      /\ \A n : Below(n)' = Below(n)
  BY SameWorld DEF Called
<1>3. SoundWalk'
  <2>1. Call \in Reachable
    BY <1>1 DEF SoundWalk
  <2>2. Below(Call) \subseteq Reachable
    BY <1>1, <2>1, Reaching
  <2>3. Waiting' \subseteq Reachable /\ visited' \subseteq Reachable
    BY <1>1, <2>1, <2>2 DEF Called, SoundWalk
  <2>q. QED
    BY <1>2, <2>3 DEF SoundWalk
<1>4. ASSUME NEW m, Accounted(m) PROVE Accounted(m)'
  BY <1>1, <1>2, <1>4 DEF Accounted, Called
<1>5. CompleteWalk'
  <2>1. Accounted(root)'
    <3>1. Accounted(root)
      BY DEF CompleteWalk
    <3>2. Accounted(root)' <=> (\/ root \in visited' \/ root \in Waiting'
                                \/ root \notin blocks /\ Unknown \in result')
      BY <1>2 DEF Accounted
    <3>q. QED
      BY <3>1, <3>2, <1>1 DEF Accounted, Called
  <2>2. ASSUME NEW n \in visited', NEW m \in Below(n)' PROVE Accounted(m)'
    <3>1. m \in Below(n)
      BY <1>2
    <3>2. CASE n \in visited
      BY <1>4, <3>1, <3>2 DEF CompleteWalk
    <3>3. CASE n \notin visited
      <4>1. n = Call /\ Below(Call) \subseteq More
        BY <3>3 DEF Called
      <4>2. m \in Waiting'
        BY <3>1, <4>1 DEF Called
      <4>q. QED
        BY <4>2 DEF Accounted
    <3>q. QED
      BY <3>2, <3>3
  <2>q. QED
    BY <2>1, <2>2 DEF CompleteWalk
<1>q. QED
  BY <1>3, <1>5

(* A call for a name seen before changes nothing else                       *)
LEMMA RepeatedWalk == TypeOK /\ WalkInv /\ Repeated => WalkInv'
<1> SUFFICES ASSUME TypeOK, WalkInv, Repeated PROVE WalkInv'
  OBVIOUS
<1>1. Called({})
  BY DEF Repeated, Called, Waiting, world
<1>2. SoundWalk' /\ CompleteWalk'
  BY <1>1, CalledWalk DEF WalkInv
<1>3. DisksFound' /\ DoubtsFound'
  BY SameWorld DEF Repeated, WalkInv, DisksFound, DoubtsFound
<1>q. QED
  BY <1>2, <1>3 DEF WalkInv

(* A name that class/block does not list is a doubt about the root          *)
LEMMA MissingWalk == TypeOK /\ WalkInv /\ Missing => WalkInv'
<1> SUFFICES ASSUME TypeOK, WalkInv, Missing PROVE WalkInv'
  OBVIOUS
<1>1. Called({})
  BY DEF Missing, Fresh, Called, Waiting
<1>2. SoundWalk' /\ CompleteWalk'
  BY <1>1, CalledWalk DEF WalkInv
<1>3. UNCHANGED world /\ Unknown \notin Names
  BY BackingAssumption DEF Missing
<1>4. DisksFound'
  BY <1>3, SameWorld DEF Missing, WalkInv, DisksFound
<1>5. DoubtsFound'
  <2>1. Call \in Reachable
    BY FirstCall DEF Missing, Fresh, WalkInv, SoundWalk
  <2>2. DeadEnd(Call)
    BY DEF Missing, Fresh, DeadEnd, Below, TypeOK, World
  <2>q. QED
    BY <1>3, <2>1, <2>2, SameWorld DEF Missing, WalkInv, DoubtsFound
<1>q. QED
  BY <1>2, <1>4, <1>5 DEF WalkInv

(* A disk is found when it is visited                                       *)
LEMMA DiskWalk == TypeOK /\ WalkInv /\ Disk => WalkInv'
<1> SUFFICES ASSUME TypeOK, WalkInv, Disk PROVE WalkInv'
  OBVIOUS
<1>1. Call \in Names /\ Call \in physical /\ Below(Call) = {} /\ Call # Unknown
  BY FirstCall, BackingAssumption DEF Disk, Fresh, Below
<1>2. Called({})
  BY <1>1 DEF Disk, Fresh, Called, Waiting
<1>3. SoundWalk' /\ CompleteWalk'
  BY <1>2, CalledWalk DEF WalkInv
<1>4. DisksFound'
  BY <1>1, SameWorld DEF Disk, WalkInv, DisksFound
<1>5. DoubtsFound'
  <2>1. ~ DeadEnd(Call)
    BY <1>1 DEF DeadEnd
  <2>q. QED
    BY <1>1, <2>1, SameWorld DEF Disk, WalkInv, DoubtsFound
<1>q. QED
  BY <1>3, <1>4, <1>5 DEF WalkInv

(* All slaves are called before the device's siblings                       *)
LEMMA SlavesWalk == TypeOK /\ WalkInv /\ Slaves => WalkInv'
<1> SUFFICES ASSUME TypeOK, WalkInv, Slaves PROVE WalkInv'
  OBVIOUS
<1>1. /\ Call \in Names /\ Call \in blocks \ physical
      /\ slaves[Call] \in SUBSET Names /\ slaves[Call] # {}
      /\ Tail(pending) \in Seq(Names)
  BY FirstCall DEF Slaves, Stacked, Fresh, TypeOK, World
<1>2. Below(Call) = slaves[Call]
  BY <1>1 DEF Below, TypeOK, World
<1>3. PICK order \in Orders(slaves[Call]) : pending' = order \o Tail(pending)
  BY DEF Slaves
<1>4. order \in Seq(Names) /\ Elements(order) = slaves[Call]
  BY <1>1, Listing
<1>5. Elements(order \o Tail(pending)) = slaves[Call] \cup Elements(Tail(pending))
  <2>1. Elements(order \o Tail(pending)) = Elements(order) \cup Elements(Tail(pending))
    <3>1. order \in Seq(Names) /\ Tail(pending) \in Seq(Names)
      BY <1>1, <1>4
    <3>q. QED
      BY ONLY <3>1, Concatenation
  <2>q. QED
    BY <1>4, <2>1
<1>6. Waiting' = slaves[Call] \cup Elements(Tail(pending))
  BY <1>3, <1>5 DEF Waiting
<1>7. Called(slaves[Call])
  BY <1>2, <1>6 DEF Slaves, Stacked, Fresh, Called
<1>8. SoundWalk' /\ CompleteWalk'
  BY <1>7, CalledWalk DEF WalkInv
<1>9. DisksFound'
  BY <1>1, SameWorld DEF Slaves, WalkInv, DisksFound
<1>10. DoubtsFound'
  <2>1. ~ DeadEnd(Call)
    BY <1>1, <1>2 DEF DeadEnd
  <2>q. QED
    BY <2>1, SameWorld DEF Slaves, WalkInv, DoubtsFound
<1>q. QED
  BY <1>8, <1>9, <1>10 DEF WalkInv

(* A partition is on its disk                                               *)
LEMMA ParentWalk == TypeOK /\ WalkInv /\ Parent => WalkInv'
<1> SUFFICES ASSUME TypeOK, WalkInv, Parent PROVE WalkInv'
  OBVIOUS
<1>1. /\ Call \in Names /\ Call \in partition /\ Call \in blocks \ physical
      /\ slaves[Call] = {} /\ parent[Call] \in Names
      /\ Tail(pending) \in Seq(Names)
  BY FirstCall DEF Parent, Fresh, TypeOK, World
<1>2. Below(Call) = {parent[Call]}
  BY <1>1 DEF Below
<1>3. <<parent[Call]>> \in Seq(Names) /\ Elements(<<parent[Call]>>) = {parent[Call]}
  BY <1>1 DEF Elements
<1>4. Elements(<<parent[Call]>> \o Tail(pending))
        = {parent[Call]} \cup Elements(Tail(pending))
  <2>1. Elements(<<parent[Call]>> \o Tail(pending))
          = Elements(<<parent[Call]>>) \cup Elements(Tail(pending))
    <3>1. <<parent[Call]>> \in Seq(Names) /\ Tail(pending) \in Seq(Names)
      BY <1>1, <1>3
    <3>q. QED
      BY ONLY <3>1, Concatenation
  <2>q. QED
    BY <1>3, <2>1
<1>5. Waiting' = {parent[Call]} \cup Elements(Tail(pending))
  BY <1>4 DEF Waiting, Parent
<1>6. Called({parent[Call]})
  BY <1>2, <1>5 DEF Parent, Fresh, Called
<1>7. SoundWalk' /\ CompleteWalk'
  BY <1>6, CalledWalk DEF WalkInv
<1>8. DisksFound'
  BY <1>1, SameWorld DEF Parent, WalkInv, DisksFound
<1>9. DoubtsFound'
  <2>1. ~ DeadEnd(Call)
    BY <1>2 DEF DeadEnd
  <2>q. QED
    BY <2>1, SameWorld DEF Parent, WalkInv, DoubtsFound
<1>q. QED
  BY <1>7, <1>8, <1>9 DEF WalkInv

(* A device on nothing is a doubt                                           *)
LEMMA BareWalk == TypeOK /\ WalkInv /\ Bare => WalkInv'
<1> SUFFICES ASSUME TypeOK, WalkInv, Bare PROVE WalkInv'
  OBVIOUS
<1>1. /\ Call \in Names /\ Call \in blocks \ physical /\ Below(Call) = {}
      /\ Unknown \notin Names
  BY FirstCall, BackingAssumption DEF Bare, Fresh, Below
<1>2. Called({})
  BY <1>1 DEF Bare, Fresh, Called, Waiting
<1>3. SoundWalk' /\ CompleteWalk'
  BY <1>2, CalledWalk DEF WalkInv
<1>4. DisksFound'
  BY <1>1, SameWorld DEF Bare, WalkInv, DisksFound
<1>5. DoubtsFound'
  <2>1. Call \in Reachable
    BY <1>1, FirstCall DEF Bare, Fresh, WalkInv, SoundWalk
  <2>2. DeadEnd(Call)
    BY <1>1 DEF DeadEnd
  <2>q. QED
    BY <2>1, <2>2, SameWorld DEF Bare, WalkInv, DoubtsFound
<1>q. QED
  BY <1>3, <1>4, <1>5 DEF WalkInv

(* Every step keeps the invariant of the walk                               *)
LEMMA NextWalk == TypeOK /\ WalkInv /\ [Next]_vars => WalkInv'
<1> SUFFICES ASSUME TypeOK, WalkInv, [Next]_vars PROVE WalkInv'
  OBVIOUS
<1>1. CASE UNCHANGED vars
  <2>1. /\ UNCHANGED world /\ pending' = pending
        /\ visited' = visited /\ result' = result
    BY <1>1 DEF vars
  <2>2. Waiting' = Waiting
    BY <2>1 DEF Waiting
  <2>q. QED
    BY <2>1, <2>2, SameWorld
    DEF WalkInv, SoundWalk, CompleteWalk, Accounted, DisksFound, DoubtsFound
<1>q. QED
  BY <1>1, RepeatedWalk, MissingWalk, DiskWalk, SlavesWalk, ParentWalk, BareWalk
  DEF Next, Finished

(* When nothing waits, what is accounted for is closed, so that everything  *)
(* that can be reached has been visited or has ended its branch             *)
LEMMA WalkExact == TypeOK /\ WalkInv => BackingExact
<1> SUFFICES ASSUME TypeOK, WalkInv, pending = <<>> PROVE result = Backings
  BY DEF BackingExact
<1> DEFINE S == {n \in Names : n \in visited \/ (n \notin blocks /\ Unknown \in result)}
<1>1. Waiting = {}
  BY DEF Waiting, Elements
<1>2. World /\ Unknown \notin Names
  BY BackingAssumption DEF TypeOK
<1>3. root \in S
  BY <1>1, <1>2 DEF World, WalkInv, CompleteWalk, Accounted
<1>4. Closed(S)
  <2>1. ASSUME NEW n \in S, NEW m \in Below(n) PROVE m \in S
    <3>1. n \in visited
      BY <2>1 DEF Below
    <3>2. m \in Names
      BY <1>2, <2>1, BelowNames
    <3>q. QED
      BY <1>1, <2>1, <3>1, <3>2 DEF WalkInv, CompleteWalk, Accounted
  <2>q. QED
    BY <2>1 DEF Closed
<1>5. Reachable \subseteq S
  BY <1>3, <1>4, ReachedBy
<1>6. ASSUME NEW d \in Names PROVE d \in result <=> d \in Reachable \cap physical
  <2>1. d \in result => d \in physical
    BY <1>2, <1>6 DEF TypeOK
  <2>2. d \in Reachable /\ d \in physical => d \in visited
    BY <1>2, <1>5 DEF World
  <2>q. QED
    BY <2>1, <2>2 DEF WalkInv, DisksFound, SoundWalk
<1>7. Unknown \in result <=> \E n \in Reachable : DeadEnd(n)
  <2>1. ASSUME NEW n \in Reachable, DeadEnd(n) PROVE Unknown \in result
    BY <1>5, <2>1 DEF WalkInv, DoubtsFound
  <2>q. QED
    BY <2>1 DEF WalkInv, DoubtsFound
<1>8. Reachable \subseteq Names /\ result \subseteq Names \cup {Unknown}
  BY DEF Reachable, TypeOK, World
<1>q. QED
  BY <1>2, <1>6, <1>7, <1>8 DEF Backings

(* _physical_backing returns exactly the disks that can be reached, and     *)
(* "unknown" exactly if some branch ends elsewhere, for any devices stacked *)
(* in any way: the shared set visited loses nothing                         *)
THEOREM BackingCorrect == Spec => []BackingExact
<1>1. Init => TypeOK /\ WalkInv
  BY InitType, InitWalk
<1>2. (TypeOK /\ WalkInv) /\ [Next]_vars => (TypeOK /\ WalkInv)'
  BY NextType, NextWalk
<1>3. TypeOK /\ WalkInv => BackingExact
  BY WalkExact
<1>q. QED
  BY <1>1, <1>2, <1>3, PTL DEF Spec
=============================================================================
